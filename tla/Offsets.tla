------------------------------ MODULE Offsets ------------------------------
(***************************************************************************)
(* Where things begin that follow each other without a gap: the records of *)
(* a buffer, or the buffers of a transfer.                                 *)
(***************************************************************************)
EXTENDS Integers, Sequences

\* The first thing begins at first, and the i-th has lens[i] bytes.
Offsets(first, lens) ==
    LET offset[i \in 1..Len(lens)] == IF i = 1 THEN first ELSE offset[i - 1] + lens[i - 1]
    IN  offset
=============================================================================
