---------------------------- MODULE MCSettlement ----------------------------
(***************************************************************************)
(* Instances of Settlement: one intent, up to two executor calls (two      *)
(* approvals of a challenge both call it), two webhook deliveries, a tick  *)
(* of the reconciler or a run of the compensator.                          *)
(***************************************************************************)
EXTENDS Settlement, TLC

CONSTANTS i1, m1, h1, h2, w1, w2, t1, c1

OneMandate == [i \in Intents |-> m1]

(* Calls and deliveries are told apart by nothing but their name; used     *)
(* where no liveness is checked.                                           *)
RunSymmetry == Permutations(Executors) \cup Permutations(Hooks)
=============================================================================
