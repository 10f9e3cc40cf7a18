--------------------------- MODULE MCCollectiveIO ---------------------------
(***************************************************************************)
(* Instances of CollectiveIO for TLC.                                      *)
(***************************************************************************)
EXTENDS CollectiveIO

MCKeys == {<<"k">>}

\* The value with a separator in it is what the ADIOS2 plugin puts as metadata.
MCValues == {<<"y", ";", "z">>}

LookupCommands ==
  [r \in Ranks |-> CASE r = 0 -> {PUT, DEL, META_GET_ALL, READ_BARRIER}
                     [] r = 1 -> {PUT, META_PUT, META_GET_ALL}
                     [] OTHER -> {META_PUT, META_GET, READ_BARRIER}]
BarrierCommands ==
  [r \in Ranks |-> IF r = 0 THEN {PUT, META_PUT, GET, WRITE_BARRIER}
                    ELSE {PUT, DEL, GET, META_PUT, META_GET_ALL, WRITE_BARRIER}]

OneForTheOwner == [r \in Ranks |-> IF r = 0 THEN 1 ELSE 2]
ThreeForTheClient == [r \in Ranks |-> IF r = 0 THEN 2 ELSE 3]
=============================================================================
