------------------------------- MODULE ReadyLine -------------------------------
(***************************************************************************)
(* What the queue means by its ready and delayed rows, whatever holds them: *)
(* a line served first come first served, and a set of rows that join the   *)
(* line in the order of their times.  A row that an operation has found and *)
(* will withdraw after its store call is still the same row then, wherever  *)
(* the line has moved in between.                                          *)
(***************************************************************************)
EXTENDS Naturals, Sequences, SequencesExt, Subsequence

CONSTANTS
  Rows,   \* what a row carries
  NoRow

VARIABLES
  line,     \* the ready rows
  pending,  \* the delayed rows
  found     \* the row an operation has found and not yet dealt with, or NoRow

parts == <<line, pending, found>>

Join(r)  == line' = Append(line, r) /\ UNCHANGED <<pending, found>>
Wait(r)  == pending' = pending \cup {r} /\ UNCHANGED <<line, found>>
Serve    == line # <<>> /\ line' = Tail(line) /\ UNCHANGED <<pending, found>>
Find     == /\ found = NoRow /\ found' \in ToSet(line) \cup pending
            /\ UNCHANGED <<line, pending>>

Ripen(r) ==
  /\ \A other \in pending : r.at <= other.at
  /\ pending' = pending \ {r} /\ line' = Append(line, [r EXCEPT !.at = 0])
  /\ UNCHANGED found

\* A delayed row that has joined the line meanwhile is not withdrawn from it.
Withdraw ==
  /\ found # NoRow /\ found' = NoRow
  /\ line' = Among(line, ToSet(line) \ {found})
  /\ pending' = pending \ {found}

Empty == line' = <<>> /\ pending' = {} /\ UNCHANGED found

LineNext ==
  \/ Serve \/ Find \/ Withdraw \/ Empty
  \/ \E r \in pending : Ripen(r)
  \/ \E r \in Rows : Join(r) \/ Wait(r)

LineInit == line = <<>> /\ pending = {} /\ found = NoRow

LineSpec == LineInit /\ [][LineNext]_parts
=============================================================================
