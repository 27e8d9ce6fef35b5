-------------------------------- MODULE Hold --------------------------------
(***************************************************************************)
(* What the two halves of the kernel promise each other about the money    *)
(* reserved for an intent: a hold is made once, captured only when an      *)
(* order was claimed for it, and released for ever.  Authorization makes   *)
(* holds and releases the ones nobody executes, Settlement captures and    *)
(* releases the others; each implements this module.                       *)
(***************************************************************************)
CONSTANT Intents

VARIABLES hold, claimed

HoldInit ==
  /\ hold = [i \in Intents |-> "none"]
  /\ claimed = {}

Reserve(i) ==
  /\ hold[i] = "none"
  /\ hold' = [hold EXCEPT ![i] = "held"]
  /\ UNCHANGED claimed

Claim(i) ==
  /\ hold[i] # "none"
  /\ claimed' = claimed \cup {i}
  /\ UNCHANGED hold

Capture(i) ==
  /\ i \in claimed
  /\ hold[i] = "held"
  /\ hold' = [hold EXCEPT ![i] = "captured"]
  /\ UNCHANGED claimed

Release(i) ==
  /\ hold[i] \in {"held", "captured"}
  /\ hold' = [hold EXCEPT ![i] = "released"]
  /\ UNCHANGED claimed

HoldNext == \E i \in Intents : Reserve(i) \/ Claim(i) \/ Capture(i) \/ Release(i)

HoldSpec == HoldInit /\ [][HoldNext]_<<hold, claimed>>
=============================================================================
