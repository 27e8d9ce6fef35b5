-------------------------- MODULE PolicyFoldTheorems --------------------------
(***************************************************************************)
(* Proofs about the loop of policy.service.ts, for every set of facts: it  *)
(* returns what the operator Reason says, and rules, verifier and amount   *)
(* each only take permission away.                                         *)
(***************************************************************************)
EXTENDS PolicyFold, PolicyTheorems, SequenceTheorems

Outcomes == [passed : BOOLEAN, code : ReasonCodes]

Denials == {c \in ReasonCodes : VerdictFor(c) = "DENY"}

LEMMA FactTypes ==
  ASSUME NEW f \in FactSet
  PROVE  /\ DOMAIN f = FactFields
         /\ f.stateless \in {NoFailure} \cup Denials
         /\ f.verifier \in VerifierOutcomes
         /\ f.taint \in BOOLEAN /\ f.agentRegistered \in BOOLEAN
         /\ f.nonceSpent \in BOOLEAN /\ f.quoteConsumed \in BOOLEAN
         /\ f.seen \in BOOLEAN /\ f.terms.authEvent \in BOOLEAN
         /\ f.amount \in Nat /\ f.sum \in Int
         /\ f.terms.perTransaction \in Int /\ f.terms.cumulative \in Int
         /\ f.terms.silentThreshold \in Int
  BY FactSetAssumption DEF FactSetAssumption, Denials

LEMMA FactsDeny ==
  ASSUME NEW f \in FactSet
  PROVE  StatelessDenies(f)
  BY FactTypes DEF StatelessDenies, Denials

(* The rules as the numbered entries they are. *)
LEMMA RulePasses ==
  ASSUME NEW f
  PROVE  /\ Passes(f, 1) <=> f.stateless = NoFailure
         /\ Passes(f, 2) <=> ~f.taint
         /\ Passes(f, 3) <=> f.agentRegistered
         /\ Passes(f, 4) <=> f.verifier # "DENY"
         /\ Passes(f, 5) <=> f.verifier # "UNAVAILABLE" \/ Silent(f)
         /\ Passes(f, 6) <=> f.terms.agent = f.agent
         /\ Passes(f, 7) <=> f.terms.authEvent
         /\ Passes(f, 8) <=> f.mandateState # "revoked"
         /\ Passes(f, 9) <=> /\ f.mandateState = "live"
                             /\ f.terms.notBefore <= f.now /\ f.now < f.terms.notAfter
         /\ Passes(f, 10) <=> f.merchant \in f.terms.merchants
         /\ Passes(f, 11) <=> f.categories \subseteq f.terms.categories
         /\ Passes(f, 12) <=> ~f.nonceSpent
         /\ Passes(f, 13) <=> ~f.quoteConsumed
         /\ Passes(f, 14) <=> f.now < f.quoteExpires
         /\ Passes(f, 15) <=> f.amount <= f.terms.perTransaction
         /\ Passes(f, 16) <=> f.sum + f.amount <= f.terms.cumulative
         /\ Passes(f, 17) <=> f.count < f.terms.velocity
         /\ Passes(f, 18) <=> Silent(f)
         /\ Passes(f, 19) <=> f.seen
  BY DEF Passes, Checks, Check

LEMMA SameCodes ==
  ASSUME NEW f, NEW g, f.stateless = g.stateless, NEW n \in 1..RuleCount
  PROVE  Checks(f)[n].code = Checks(g)[n].code
  <1>1. StatelessCode(f) = StatelessCode(g)
    BY DEF StatelessCode
  <1> QED  BY <1>1 DEF RuleCount, Checks, Check

LEMMA RuleCodes ==
  ASSUME NEW f \in FactSet, NEW n \in 1..RuleCount
  PROVE  /\ Checks(f)[n].code \in ReasonCodes \ {"OK-000"}
         /\ Checks(f)[n].code # "pending"
  <1>1. CASE n = 1
    <2>1. f.stateless \in {NoFailure} \cup Denials
      BY FactTypes
    <2>2. Checks(f)[1].code = IF f.stateless = NoFailure THEN "INT-001" ELSE f.stateless
      BY DEF Checks, Check, StatelessCode
    <2>3. Checks(f)[1].code = "INT-001" \/ Checks(f)[1].code \in Denials
      BY <2>1, <2>2
    <2> QED  BY <1>1, <2>3 DEF Denials, ReasonCodes, StepUpCodes, VerdictFor
  <1>2. CASE n \in 2..19
    <2>1. Checks(f)[n].code \in {"SEC-001", "SEC-002", "SEC-004", "SYS-002", "MND-001",
            "AUT-001", "MND-003", "MND-002", "SCP-001", "SCP-002", "INT-002",
            "LMT-001", "LMT-002", "LMT-003", "STP-001", "STP-002"}
      BY <1>2 DEF Checks, Check
    <2> QED  BY <2>1 DEF ReasonCodes, StepUpCodes
  <1> QED  BY <1>1, <1>2 DEF RuleCount

LEMMA RulesPass ==
  ASSUME NEW f \in FactSet, NEW n \in 1..RuleCount
  PROVE  Passes(f, n) \in BOOLEAN
  <1>1. Checks(f)[n].passed = TRUE \/ Checks(f)[n].passed = FALSE
    BY FactTypes DEF RuleCount, Checks, Check
  <1> QED  BY <1>1 DEF Passes

LEMMA RuleTypes ==
  ASSUME NEW f \in FactSet, NEW n \in 1..RuleCount
  PROVE  Checks(f)[n] \in Outcomes
  <1>1. Checks(f)[n] = [passed |-> Checks(f)[n].passed, code |-> Checks(f)[n].code]
    BY DEF RuleCount, Checks, Check
  <1> QED  BY <1>1, RuleCodes, RulesPass DEF Outcomes, Passes

(* What the fold returns: OK-000 when every rule passes, else the code of  *)
(* the first that does not; and so the same for facts that pass the same.  *)
LEMMA AllPass ==
  ASSUME NEW f, \A n \in 1..RuleCount : Passes(f, n)
  PROVE  Reason(f) = "OK-000"
  <1>1. FailingChecks(Checks(f)) = {}
    BY ChecksDomain DEF FailingChecks, Passes
  <1> QED  BY <1>1 DEF Reason, FoldChecks

LEMMA FirstFails ==
  ASSUME NEW f, NEW n \in 1..RuleCount, ~Passes(f, n), \A i \in 1..(n-1) : Passes(f, i)
  PROVE  Reason(f) = Checks(f)[n].code
  <1> DEFINE c == Checks(f)
  <1>1. n \in FailingChecks(c)
    BY ChecksDomain DEF FailingChecks, Passes
  <1>2. FirstFailing(c) \in FailingChecks(c) /\ FirstFailing(c) <= n
    BY <1>1, ChecksDomain, FirstFailingIsFirst DEF RuleCount
  <1>3. FirstFailing(c) \in 1..RuleCount /\ ~Passes(f, FirstFailing(c))
    BY <1>2, ChecksDomain DEF FailingChecks, Passes
  <1>4. FirstFailing(c) = n
    BY <1>2, <1>3 DEF RuleCount
  <1> QED  BY <1>1, <1>4 DEF Reason, FoldChecks

LEMMA OkPasses ==
  ASSUME NEW f \in FactSet, Reason(f) = "OK-000", NEW n \in 1..RuleCount
  PROVE  Passes(f, n)
  <1> DEFINE c == Checks(f)
  <1> SUFFICES ASSUME ~Passes(f, n) PROVE FALSE
    OBVIOUS
  <1>1. n \in FailingChecks(c)
    BY ChecksDomain DEF FailingChecks, Passes
  <1>2. FirstFailing(c) \in 1..RuleCount
    BY <1>1, ChecksDomain, FirstFailingIsFirst DEF FailingChecks, RuleCount
  <1>3. Reason(f) = c[FirstFailing(c)].code
    BY <1>1 DEF Reason, FoldChecks
  <1> QED  BY <1>2, <1>3, RuleCodes

LEMMA SameReason ==
  ASSUME NEW f, NEW g,
         \A n \in 1..RuleCount : /\ Passes(f, n) <=> Passes(g, n)
                                 /\ Checks(f)[n].code = Checks(g)[n].code
  PROVE  Reason(f) = Reason(g)
  <1>1. FailingChecks(Checks(f)) = FailingChecks(Checks(g))
    BY ChecksDomain DEF FailingChecks, Passes
  <1>2. FirstFailing(Checks(f)) = FirstFailing(Checks(g))
    BY <1>1 DEF FirstFailing
  <1>3. CASE FailingChecks(Checks(f)) = {}
    BY <1>1, <1>3 DEF Reason, FoldChecks
  <1>4. CASE FailingChecks(Checks(f)) # {}
    <2>1. FirstFailing(Checks(f)) \in 1..RuleCount
      BY <1>4, ChecksDomain, FirstFailingIsFirst DEF FailingChecks, RuleCount
    <2> QED  BY <1>1, <1>2, <1>4, <2>1 DEF Reason, FoldChecks
  <1> QED  BY <1>3, <1>4
-----------------------------------------------------------------------------
(* Permission. *)

LEMMA StepUpPasses ==
  ASSUME NEW f \in FactSet, Verdict(f) = "STEP_UP", NEW n \in 1..RuleCount,
         VerdictFor(Checks(f)[n].code) = "DENY"
  PROVE  Passes(f, n)
  <1>1. n \in 1..17
    <2>1. Checks(f)[18].code = "STP-001" /\ Checks(f)[19].code = "STP-002"
      BY DEF Checks, Check
    <2>2. n # 18 /\ n # 19
      BY <2>1 DEF VerdictFor, StepUpCodes
    <2> QED  BY <2>2 DEF RuleCount
  <1> QED  BY <1>1, FactsDeny, NotDeniedPasses

LEMMA VerifierSubtracts ==
  ASSUME NEW f \in FactSet, Verdict(f) # "DENY"
  PROVE  Reason(f) = Reason([f EXCEPT !.verifier = "PROCEED"])
  <1> DEFINE g == [f EXCEPT !.verifier = "PROCEED"]
  <1>1. /\ g.verifier = "PROCEED"
        /\ g.now = f.now /\ g.stateless = f.stateless /\ g.agent = f.agent
        /\ g.agentRegistered = f.agentRegistered /\ g.merchant = f.merchant
        /\ g.amount = f.amount /\ g.taint = f.taint /\ g.nonceSpent = f.nonceSpent
        /\ g.quoteConsumed = f.quoteConsumed /\ g.quoteExpires = f.quoteExpires
        /\ g.categories = f.categories /\ g.sum = f.sum /\ g.count = f.count
        /\ g.seen = f.seen /\ g.mandateState = f.mandateState /\ g.terms = f.terms
    BY FactTypes DEF FactFields
  <1> HIDE DEF g
  <1>2. ASSUME NEW n \in 1..RuleCount
        PROVE  /\ Passes(f, n) <=> Passes(g, n)
               /\ Checks(f)[n].code = Checks(g)[n].code
    <2>0. Checks(f)[n].code = Checks(g)[n].code
      BY <1>1, SameCodes
    <2>1. CASE n \in {4, 5}
      <3>1. Passes(f, n)
        BY <2>1, FactsDeny, NotDeniedPasses
      <3>2. Passes(g, n)
        BY <1>1, <2>1, RulePasses
      <3> QED  BY <2>0, <3>1, <3>2
    <2>2. CASE n \in (1..19) \ {4, 5}
      <3>1. Silent(f) <=> Silent(g)
        BY <1>1 DEF Silent
      <3>2. Passes(f, n) <=> Passes(g, n)
        BY <1>1, <2>2, <3>1, RulePasses
      <3> QED  BY <2>0, <3>2
    <2> QED  BY <2>1, <2>2 DEF RuleCount
  <1>3. Reason(f) = Reason(g)
    BY <1>2, SameReason
  <1> QED  BY <1>3 DEF g

LEMMA LessIsAllowed ==
  ASSUME NEW f \in FactSet, Verdict(f) = "ALLOW", NEW a \in 0..f.amount
  PROVE  Verdict([f EXCEPT !.amount = a]) = "ALLOW"
  <1> DEFINE g == [f EXCEPT !.amount = a]
  <1>1. /\ g.amount = a
        /\ g.now = f.now /\ g.stateless = f.stateless /\ g.agent = f.agent
        /\ g.agentRegistered = f.agentRegistered /\ g.merchant = f.merchant
        /\ g.verifier = f.verifier /\ g.taint = f.taint /\ g.nonceSpent = f.nonceSpent
        /\ g.quoteConsumed = f.quoteConsumed /\ g.quoteExpires = f.quoteExpires
        /\ g.categories = f.categories /\ g.sum = f.sum /\ g.count = f.count
        /\ g.seen = f.seen /\ g.mandateState = f.mandateState /\ g.terms = f.terms
    BY FactTypes DEF FactFields
  <1> HIDE DEF g
  <1>2. Reason(f) = "OK-000"
    BY DEF Verdict, VerdictFor
  <1>3. /\ a \in Int /\ f.amount \in Int /\ a <= f.amount /\ f.sum \in Int
        /\ f.terms.perTransaction \in Int /\ f.terms.cumulative \in Int
        /\ f.terms.silentThreshold \in Int
    BY FactTypes
  <1>4. Silent(f) => Silent(g)
    BY <1>1, <1>3 DEF Silent
  <1>5. ASSUME NEW n \in 1..RuleCount
        PROVE  Passes(g, n)
    <2>1. Passes(f, n)
      BY <1>2, OkPasses
    <2>2. CASE n = 5
      BY <1>1, <1>4, <2>1, <2>2, RulePasses
    <2>3. CASE n = 15
      BY <1>1, <1>3, <2>1, <2>3, RulePasses
    <2>4. CASE n = 16
      <3>1. f.sum + f.amount <= f.terms.cumulative
        BY <2>1, <2>4, RulePasses
      <3>2. g.sum + g.amount <= g.terms.cumulative
        BY <1>1, <1>3, <3>1
      <3> QED  BY <2>4, <3>2, RulePasses
    <2>5. CASE n = 18
      BY <1>4, <2>1, <2>5, RulePasses
    <2>6. CASE n \in (1..19) \ {5, 15, 16, 18}
      BY <1>1, <2>1, <2>6, RulePasses
    <2> QED  BY <2>2, <2>3, <2>4, <2>5, <2>6 DEF RuleCount
  <1>6. Reason(g) = "OK-000"
    BY <1>5, AllPass
  <1> QED  BY <1>6 DEF g, Verdict, VerdictFor
-----------------------------------------------------------------------------
(* The loop. *)

LEMMA TraceIsSeq ==
  ASSUME facts \in FactSet, NEW n \in 0..RuleCount
  PROVE  /\ Trace(n) \in Seq(Outcomes) /\ Len(Trace(n)) = n
         /\ \A i \in 1..n : Trace(n)[i] = Checks(facts)[i]
  <1>1. n \in Nat /\ \A i \in 1..n : i \in 1..RuleCount
    BY DEF RuleCount
  <1>2. \A i \in 1..n : Checks(facts)[i] \in Outcomes
    BY <1>1, RuleTypes
  <1>3. Trace(n) \in [1..n -> Outcomes]
    BY <1>2 DEF Trace
  <1>4. Trace(n) \in Seq(Outcomes)
    BY <1>1, <1>3
  <1>5. Len(Trace(n)) = n
    BY <1>1, <1>3, <1>4, LenProperties
  <1> QED  BY <1>4, <1>5 DEF Trace

LEMMA TraceGrows ==
  ASSUME facts \in FactSet, NEW n \in 0..RuleCount, n < RuleCount,
         evaluated = Trace(n)
  PROVE  /\ Len(evaluated) + 1 = n + 1 /\ n + 1 \in 1..RuleCount
         /\ NextCheck = Checks(facts)[n + 1]
         /\ Append(evaluated, NextCheck) = Trace(n + 1)
  <1>1. n \in Nat /\ n + 1 \in 1..RuleCount /\ n + 1 \in 0..RuleCount
    BY DEF RuleCount
  <1>2. /\ Trace(n) \in Seq(Outcomes) /\ Len(Trace(n)) = n
        /\ \A i \in 1..n : Trace(n)[i] = Checks(facts)[i]
    BY TraceIsSeq
  <1>3. /\ Trace(n + 1) \in Seq(Outcomes) /\ Len(Trace(n + 1)) = n + 1
        /\ \A i \in 1..(n + 1) : Trace(n + 1)[i] = Checks(facts)[i]
    BY <1>1, TraceIsSeq
  <1>4. NextCheck = Checks(facts)[n + 1]
    BY <1>2 DEF NextCheck
  <1>5. NextCheck \in Outcomes
    BY <1>1, <1>4, RuleTypes
  <1> DEFINE new == Append(Trace(n), NextCheck)
  <1>6. /\ new \in Seq(Outcomes) /\ Len(new) = n + 1
        /\ \A i \in 1..n : new[i] = Trace(n)[i]
        /\ new[n + 1] = NextCheck
    BY <1>2, <1>5, AppendProperties
  <1> HIDE DEF new
  <1>7. \A i \in 1..(n + 1) : new[i] = Trace(n + 1)[i]
    BY <1>1, <1>2, <1>3, <1>4, <1>6
  <1>8. new = Trace(n + 1)
    BY <1>3, <1>6, <1>7, SeqEqual
  <1> QED  BY <1>1, <1>2, <1>4, <1>8 DEF new

LEMMA FoldInvInit ==
  ASSUME Init
  PROVE  FoldInv
  <1>1. facts \in FactSet
    BY DEF Init
  <1>2. 0 \in 0..RuleCount
    BY DEF RuleCount
  <1>3. evaluated = Trace(0)
    BY DEF Init, Trace
  <1>4. TypeOK
    BY <1>1 DEF Init, TypeOK
  <1> QED  BY <1>2, <1>3, <1>4 DEF FoldInv, Init, Decided

LEMMA FoldInvKept ==
  ASSUME FoldInv, [Next]_vars
  PROVE  FoldInv'
  <1>1. PICK n \in 0..RuleCount :
          /\ evaluated = Trace(n)
          /\ IF Decided THEN outcome = Reason(facts) ELSE \A i \in 1..n : Passes(facts, i)
    BY DEF FoldInv
  <1>2. facts \in FactSet /\ TypeOK
    BY DEF FoldInv, TypeOK
  <1>3. Len(evaluated) = n
    BY <1>1, <1>2, TraceIsSeq
  <1>4. CASE UNCHANGED vars
    BY <1>1, <1>2, <1>4 DEF vars, FoldInv, TypeOK, Decided, Trace
  <1>5. ASSUME outcome = "pending", n < RuleCount, UNCHANGED facts,
               evaluated' = Append(evaluated, NextCheck),
               outcome' \in ReasonCodes \cup {"pending"},
               IF outcome' = "pending" THEN \A i \in 1..(n + 1) : Passes(facts, i)
                                       ELSE outcome' = Reason(facts)
        PROVE  FoldInv'
    <2>1. n + 1 \in 0..RuleCount /\ n + 1 \in 1..RuleCount
      BY <1>5 DEF RuleCount
    <2>2. evaluated' = Trace(n + 1)
      BY <1>1, <1>2, <1>5, TraceGrows
    <2>3. Trace(n + 1) \in Seq(Outcomes)
      BY <1>2, <2>1, TraceIsSeq
    <2>4. TypeOK'
      BY <1>2, <1>5, <2>2, <2>3 DEF TypeOK, Outcomes
    <2>5. evaluated' = Trace(n + 1)'
      BY <1>5, <2>2 DEF Trace
    <2>6. IF Decided' THEN outcome' = Reason(facts)'
                      ELSE \A i \in 1..(n + 1) : Passes(facts, i)'
      BY <1>5 DEF Decided
    <2> QED  BY <2>1, <2>4, <2>5, <2>6 DEF FoldInv
  <1>6. CASE Pass
    <2>1. /\ outcome = "pending" /\ n < RuleCount /\ NextCheck.passed
          /\ evaluated' = Append(evaluated, NextCheck) /\ UNCHANGED <<facts, outcome>>
      BY <1>3, <1>6 DEF Pass
    <2>2. \A i \in 1..n : Passes(facts, i)
      BY <1>1, <2>1 DEF Decided
    <2>3. Passes(facts, n + 1)
      BY <1>1, <1>2, <2>1, TraceGrows DEF Passes
    <2>4. \A i \in 1..(n + 1) : Passes(facts, i)
      BY <2>2, <2>3
    <2> QED  BY <1>5, <2>1, <2>4
  <1>7. CASE Fail
    <2>1. /\ outcome = "pending" /\ n < RuleCount /\ ~NextCheck.passed
          /\ evaluated' = Append(evaluated, NextCheck) /\ UNCHANGED facts
          /\ outcome' = NextCheck.code
      BY <1>3, <1>7 DEF Fail
    <2>2. \A i \in 1..n : Passes(facts, i)
      BY <1>1, <2>1 DEF Decided
    <2>3. NextCheck = Checks(facts)[n + 1] /\ n + 1 \in 1..RuleCount
      BY <1>1, <1>2, <2>1, TraceGrows
    <2>4. outcome' = Reason(facts)
      <3>1. ~Passes(facts, n + 1)
        BY <2>1, <2>3 DEF Passes
      <3>2. \A i \in 1..((n + 1) - 1) : Passes(facts, i)
        BY <2>2
      <3>3. Reason(facts) = Checks(facts)[n + 1].code
        BY <2>3, <3>1, <3>2, FirstFails
      <3> QED  BY <2>1, <2>3, <3>3
    <2>5. outcome' \in ReasonCodes /\ outcome' # "pending"
      BY <1>2, <2>1, <2>3, RuleCodes
    <2> QED  BY <1>5, <2>1, <2>4, <2>5
  <1>8. CASE Exhaust
    <2>1. /\ outcome = "pending" /\ n = RuleCount /\ outcome' = "OK-000"
          /\ UNCHANGED <<facts, evaluated>>
      BY <1>3, <1>8 DEF Exhaust
    <2>2. outcome' = Reason(facts)
      BY <1>1, <2>1, AllPass DEF Decided
    <2>3. TypeOK'
      BY <1>2, <2>1 DEF TypeOK, ReasonCodes
    <2> QED  BY <1>1, <2>1, <2>2, <2>3 DEF FoldInv, Decided, Trace
  <1> QED  BY <1>4, <1>6, <1>7, <1>8 DEF Next
-----------------------------------------------------------------------------
THEOREM FoldIsKept == Spec => []FoldInv
  BY FoldInvInit, FoldInvKept, PTL DEF Spec

(* The loop that returns early and the operator the authorisation uses for *)
(* the whole of evaluate(facts) are one function.                          *)
THEOREM FoldIsReasonHolds == Spec => []FoldIsReason
  <1>1. FoldInv => FoldIsReason
    BY DEF FoldInv, FoldIsReason
  <1> QED  BY <1>1, FoldIsKept, PTL

(* INV-17 and what goes with it: no human is asked about what a rule       *)
(* denies, no verifier outcome grants, and no limit is easier for more.    *)
THEOREM PermissionOnlyShrinksHolds == Spec => []PermissionOnlyShrinks
  <1>1. ASSUME FoldInv
        PROVE  PermissionOnlyShrinks
    <2>1. facts \in FactSet /\ (Decided => outcome = Reason(facts))
      BY <1>1 DEF FoldInv, TypeOK
    <2>2. StepUpMeansNoDenial
      BY <2>1, StepUpPasses DEF StepUpMeansNoDenial, Verdict
    <2>3. VerifierOnlySubtracts
      BY <2>1, VerifierSubtracts DEF VerifierOnlySubtracts, Verdict
    <2>4. AllowedIsDownwardClosed
      BY <2>1, LessIsAllowed DEF AllowedIsDownwardClosed, Verdict
    <2> QED  BY <2>2, <2>3, <2>4 DEF PermissionOnlyShrinks
  <1> QED  BY <1>1, FoldIsKept, PTL
=============================================================================
