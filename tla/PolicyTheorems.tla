--------------------------- MODULE PolicyTheorems ---------------------------
(***************************************************************************)
(* What holds of the rule table for every fact record: the first failing   *)
(* rule exists, a request that is not denied passed every rule that        *)
(* denies, and the verifier can only subtract.                             *)
(***************************************************************************)
EXTENDS Policy, WellFoundedInduction, TLAPS

(* A non-empty set of naturals has a least element. *)
LEMMA LeastElement ==
  ASSUME NEW S, S \subseteq Nat, S # {}
  PROVE  \E x \in S : \A y \in S : x <= y
<1>1. \E x \in S : \A y \in S : <<y, x>> \notin OpToRel(<, Nat)
  BY NatLessThanWellFounded, WFMin
<1>2. PICK x \in S : \A y \in S : <<y, x>> \notin OpToRel(<, Nat)
  BY <1>1
<1>3. \A y \in S : ~(y < x)
  BY <1>2 DEF OpToRel
<1>4. QED
  BY <1>3

(* The fold of a list with a failing check stops at the first of them. *)
LEMMA FirstFailingIsFirst ==
  ASSUME NEW checks, DOMAIN checks \subseteq Nat, FailingChecks(checks) # {}
  PROVE  /\ FirstFailing(checks) \in FailingChecks(checks)
         /\ \A m \in FailingChecks(checks) : FirstFailing(checks) <= m
<1>1. FailingChecks(checks) \subseteq Nat
  BY DEF FailingChecks
<1>2. QED
  BY <1>1, LeastElement DEF FirstFailing

StatelessDenies(f) == f.stateless = NoFailure \/ VerdictFor(f.stateless) = "DENY"

(* The table has nineteen rules. *)
LEMMA ChecksDomain ==
  ASSUME NEW f
  PROVE  DOMAIN Checks(f) = 1..RuleCount
  BY DEF Checks, RuleCount

(* Every rule before the two step-up rules carries a code that denies. *)
LEMMA DenyingRules ==
  ASSUME NEW f, StatelessDenies(f), NEW n \in 1..17
  PROVE  VerdictFor(Checks(f)[n].code) = "DENY"
<1>1. CASE n = 1
  <2>1. Checks(f)[1].code = IF f.stateless = NoFailure THEN "INT-001" ELSE f.stateless
    BY DEF Checks, Check, StatelessCode
  <2>2. QED
    BY <1>1, <2>1 DEF StatelessDenies, VerdictFor, StepUpCodes
<1>2. CASE n \in 2..17
  <2>1. Checks(f)[n].code \in {"SEC-001", "SEC-002", "SEC-004", "SYS-002", "MND-001",
          "AUT-001", "MND-003", "MND-002", "SCP-001", "SCP-002", "INT-002",
          "LMT-001", "LMT-002", "LMT-003"}
    BY <1>2 DEF Checks, Check
  <2>2. QED
    BY <2>1 DEF VerdictFor, StepUpCodes
<1>3. QED
  BY <1>1, <1>2

(* A request that is allowed or escalated passed every rule that denies:   *)
(* an escalation never hides a denial.                                     *)
THEOREM NotDeniedPasses ==
  ASSUME NEW f, StatelessDenies(f), Verdict(f) # "DENY", NEW n \in 1..17
  PROVE  Passes(f, n)
<1> DEFINE c == Checks(f)
<1>1. SUFFICES ASSUME ~Passes(f, n) PROVE FALSE
  OBVIOUS
<1>2. n \in FailingChecks(c)
  BY <1>1, ChecksDomain DEF FailingChecks, Passes, RuleCount
<1>3. /\ FirstFailing(c) \in FailingChecks(c)
      /\ FirstFailing(c) <= n
  BY <1>2, ChecksDomain, FirstFailingIsFirst DEF RuleCount
<1>4. FirstFailing(c) \in 1..17
  BY <1>3, ChecksDomain DEF FailingChecks, RuleCount
<1>5. Reason(f) = c[FirstFailing(c)].code
  BY <1>2 DEF Reason, FoldChecks
<1>6. QED
  BY <1>4, <1>5, DenyingRules DEF Verdict

(* What the authorisation transaction relies on, rule by rule. *)
COROLLARY NotDeniedFacts ==
  ASSUME NEW f, StatelessDenies(f), Verdict(f) # "DENY"
  PROVE  /\ f.stateless = NoFailure
         /\ f.mandateState = "live"
         /\ f.now < f.terms.notAfter
         /\ ~f.nonceSpent
         /\ ~f.quoteConsumed
         /\ f.sum + f.amount <= f.terms.cumulative
         /\ f.count < f.terms.velocity
<1>1. \A n \in 1..17 : Passes(f, n)
  BY NotDeniedPasses
<1>2. /\ Passes(f, 1) /\ Passes(f, 9) /\ Passes(f, 12) /\ Passes(f, 13)
      /\ Passes(f, 16) /\ Passes(f, 17)
  BY <1>1
<1>3. QED
  BY <1>2 DEF Passes, Checks, Check

(* An ALLOW passed every rule, the two that would ask a human included.    *)
THEOREM AllowPasses ==
  ASSUME NEW f, StatelessDenies(f), Verdict(f) = "ALLOW"
  PROVE  \A n \in 1..RuleCount : Passes(f, n)
<1> DEFINE c == Checks(f)
<1>1. SUFFICES ASSUME FailingChecks(c) # {} PROVE FALSE
  BY ChecksDomain DEF FailingChecks, Passes
<1>2. FirstFailing(c) \in 1..RuleCount
  BY <1>1, ChecksDomain, FirstFailingIsFirst DEF FailingChecks, RuleCount
<1>3. Reason(f) = c[FirstFailing(c)].code
  BY <1>1 DEF Reason, FoldChecks
<1>4. \A n \in 1..17 : VerdictFor(c[n].code) # "ALLOW"
  BY DenyingRules
<1>5. c[18].code = "STP-001" /\ c[19].code = "STP-002"
  BY DEF Checks, Check
<1>6. VerdictFor("STP-001") # "ALLOW" /\ VerdictFor("STP-002") # "ALLOW"
  BY DEF VerdictFor, StepUpCodes
<1> HIDE DEF c
<1>7. \A n \in 1..RuleCount : VerdictFor(c[n].code) # "ALLOW"
  BY <1>4, <1>5, <1>6 DEF RuleCount
<1>8. QED
  BY <1>2, <1>3, <1>7 DEF Verdict
=============================================================================
