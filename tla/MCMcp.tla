-------------------------------- MODULE MCMcp --------------------------------
(***************************************************************************)
(* An instance of Mcp: two requests at two instances of the kernel.        *)
(***************************************************************************)
EXTENDS Mcp, TLC

CONSTANTS s1, a1, a2, n1, n2, q1, q2, i1, i2, c1, c2

(* Sessions are created slowly; a quote and a purchase at a time. *)
Buckets ==
  ("session" :> [full |-> 2, token |-> 1]) @@ ("quote" :> [full |-> 1, token |-> 1])
  @@ ("mandate" :> [full |-> 2, token |-> 1])

AllCharged == Merchants \X Keys

Symmetric == Permutations(Instances) \cup Permutations(Intents)
             \cup Permutations(Callers) \cup Permutations(Sessions)
=============================================================================
