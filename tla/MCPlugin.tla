------------------------------ MODULE MCPlugin ------------------------------
(* A small instance of Plugin: two ranks, which share a store.              *)
EXTENDS Plugin

MCNodeOf == [r \in Ranks |-> r]

\* One group of both; with a group each the ranks have nothing in common.
MCParameters == {<<"everyonewrites", "2">>}

\* Numbers, as they are and as far as they are printed; the text of a string is the
\* string.
MCTypesOf == {[v \in Variables |-> t] : t \in {"double", "short"}}

\* A global array of four elements, of which a rank has none or two.
MCSelections ==
  {[shape |-> <<4>>, start |-> <<0>>, count |-> <<0>>],
   [shape |-> <<4>>, start |-> <<2>>, count |-> <<2>>]}
=============================================================================
