------------------------------ MODULE MCPrice ------------------------------
(***************************************************************************)
(* Three oracles (the runtime's Count), a report interval of one block and *)
(* five blocks, so that reports expire and oracles come back.  Of the      *)
(* prices 1, 3 and 7 the last is the largest of its type: the sum wraps    *)
(* when it is one of two.                                                  *)
(***************************************************************************)
EXTENDS Price, TLC

Symmetry == Permutations(AccountId)
=============================================================================
