------------------------ MODULE MCTransactionTracking ------------------------
(* Small instances of TransactionTracking.                                 *)
EXTENDS TransactionTracking, TLC

CONSTANTS a, b

\* The node reports b in place of a; or no hash is ever replaced.
Replaced == [i \in Ids |-> IF i = a THEN b ELSE i]
Unreplaced == [i \in Ids |-> i]

PollSymmetry == Permutations(Polls)
=============================================================================
