------------------------------ MODULE MCLedger ------------------------------
(***************************************************************************)
(* Instances of Ledger: the chain of one mandate and the operations chain  *)
(* of its merchant, two or three transactions open at one time.            *)
(***************************************************************************)
EXTENDS Ledger, TLC

CONSTANTS m1, s1, t1, t2, t3

(* One program of each shape: locked and not, one entry and several, with  *)
(* chain_head_seq and without.                                             *)
Shapes == {Issue, Hold, Approval, Captured, Executed, Operations}

TxnSymmetry == Permutations(Txns)
=============================================================================
