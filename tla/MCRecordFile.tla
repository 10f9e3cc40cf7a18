------------------------------ MODULE MCRecordFile ------------------------------
(* Small instances of RecordFile, of bytes with three values.              *)
EXTENDS RecordFile

(* One key is a prefix of the other; the long value has a length whose two *)
(* bytes are both nonzero, and is itself a record, of the first key.       *)
MCKeys == {<<1>>, <<1, 2>>}
MCValues == {<<>>, <<1, 0, 1, 1, 0, 2>>, <<2>>}
================================================================================
