---------------------------- MODULE MCPolicyFold ----------------------------
(***************************************************************************)
(* Facts around every bound of the rules: amounts below, at and above the  *)
(* silent threshold, the per-transaction limit and the remaining cap, both *)
(* sides of the validity interval, every mandate state and verifier        *)
(* outcome.                                                                *)
(***************************************************************************)
EXTENDS PolicyFold

Terms == [agent |-> "a1", authEvent |-> TRUE, notBefore |-> 1, notAfter |-> 3,
          perTransaction |-> 3, cumulative |-> 4, velocity |-> 2,
          silentThreshold |-> 1, merchants |-> {"m1"}, categories |-> {"food"},
          window |-> 2]

Good == [now |-> 1, stateless |-> NoFailure, verifier |-> "PROCEED",
         agent |-> "a1", agentRegistered |-> TRUE, merchant |-> "m1",
         amount |-> 1, taint |-> FALSE, nonceSpent |-> FALSE,
         quoteConsumed |-> FALSE, quoteExpires |-> 3, categories |-> {"food"},
         sum |-> 0, count |-> 0, seen |-> TRUE, mandateState |-> "live",
         terms |-> Terms]

(* The limits and the clock, in every combination. *)
LimitFacts ==
  {[Good EXCEPT !.amount = a, !.sum = s, !.count = c, !.seen = b,
                !.verifier = v, !.now = t] :
     a \in {0, 1, 2, 3, 4}, s \in {0, 2, 3, 4}, c \in {1, 2}, b \in BOOLEAN,
     v \in VerifierOutcomes, t \in {0, 1, 2, 3}}

(* The identity, scope and freshness facts, in every combination. *)
ScopeFacts ==
  {[Good EXCEPT !.stateless = s, !.agent = a, !.merchant = m, !.mandateState = st,
                !.categories = cs, !.nonceSpent = n, !.quoteConsumed = q,
                !.agentRegistered = r, !.terms.authEvent = e, !.amount = x] :
     s \in {NoFailure, "INT-003"}, a \in {"a1", "a2"}, m \in {"m1", "m2"},
     st \in {"live", "revoked", "expired"}, cs \in {{}, {"food", "drink"}},
     n \in BOOLEAN, q \in BOOLEAN, r \in BOOLEAN, e \in BOOLEAN, x \in {1, 2}}

MCFacts == LimitFacts \cup ScopeFacts \cup {[Good EXCEPT !.taint = TRUE]}
=============================================================================
