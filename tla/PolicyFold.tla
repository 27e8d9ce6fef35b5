----------------------------- MODULE PolicyFold -----------------------------
(***************************************************************************)
(* The fold of policy.service.ts as the loop it is: one rule per step, the *)
(* trace of evaluated rules growing by one, and an early return at the     *)
(* first failure.  CONSTANT FactSet is the set of inputs of the runs.      *)
(***************************************************************************)
EXTENDS Policy, FiniteSets

CONSTANT FactSet

FactFields ==
  {"now", "stateless", "verifier", "agent", "agentRegistered", "merchant", "amount",
   "taint", "nonceSpent", "quoteConsumed", "quoteExpires", "categories", "sum",
   "count", "seen", "mandateState", "terms"}

(* The stateless checks answer with codes that deny; an amount is a number *)
(* of paise, the limits and what is spent are whole numbers.               *)
ASSUME FactSetAssumption ==
  \A f \in FactSet :
    /\ DOMAIN f = FactFields
    /\ f.stateless \in {NoFailure} \cup {c \in ReasonCodes : VerdictFor(c) = "DENY"}
    /\ f.verifier \in VerifierOutcomes
    /\ {f.taint, f.agentRegistered, f.nonceSpent, f.quoteConsumed, f.seen,
        f.terms.authEvent} \subseteq BOOLEAN
    /\ f.amount \in Nat
    /\ {f.sum, f.terms.perTransaction, f.terms.cumulative,
        f.terms.silentThreshold} \subseteq Int

VARIABLES facts,      \* the argument of evaluate
          evaluated,  \* the trace: the outcome of every rule reached, in order
          outcome     \* the reason code returned, "pending" until then

vars == <<facts, evaluated, outcome>>

Init ==
  /\ facts \in FactSet
  /\ evaluated = << >>
  /\ outcome = "pending"

NextCheck == Checks(facts)[Len(evaluated) + 1]

(* A rule that passes: it is pushed on the trace and the loop goes on. *)
Pass ==
  /\ outcome = "pending"
  /\ Len(evaluated) < RuleCount
  /\ NextCheck.passed
  /\ evaluated' = Append(evaluated, NextCheck)
  /\ UNCHANGED <<facts, outcome>>

(* Mutant: the loop goes on after a failure. *)
FailAndGoOn ==
  /\ outcome = "pending"
  /\ Len(evaluated) < RuleCount
  /\ ~NextCheck.passed
  /\ evaluated' = Append(evaluated, NextCheck)
  /\ UNCHANGED <<facts, outcome>>

(* A rule that fails: it is pushed too, and its code is the outcome. *)
Fail ==
  /\ outcome = "pending"
  /\ Len(evaluated) < RuleCount
  /\ ~NextCheck.passed
  /\ evaluated' = Append(evaluated, NextCheck)
  /\ outcome' = NextCheck.code
  /\ UNCHANGED facts

(* The loop ran out of rules: the only place that returns OK-000. *)
Exhaust ==
  /\ outcome = "pending"
  /\ Len(evaluated) = RuleCount
  /\ outcome' = "OK-000"
  /\ UNCHANGED <<facts, evaluated>>

Next == Pass \/ Fail \/ Exhaust

Spec == Init /\ [][Next]_vars
-----------------------------------------------------------------------------
TypeOK ==
  /\ facts \in FactSet
  /\ evaluated \in Seq([passed : BOOLEAN, code : ReasonCodes])
  /\ outcome \in ReasonCodes \cup {"pending"}

Decided == outcome # "pending"

(* The inductive invariant: the trace is the table up to some rule, what   *)
(* the loop has gone past passed, and a code is returned for all of it.    *)
Trace(n) == [i \in 1..n |-> Checks(facts)[i]]

FoldInv ==
  /\ TypeOK
  /\ \E n \in 0..RuleCount :
       /\ evaluated = Trace(n)
       /\ IF Decided THEN outcome = Reason(facts) ELSE \A i \in 1..n : Passes(facts, i)

(* What the loop returns is what the operator Reason says, the function    *)
(* the authorization module uses for the whole of evaluate(facts).         *)
FoldIsReason == Decided => outcome = Reason(facts)

(* An escalation never hides a denial: a fold that ends in STEP_UP has     *)
(* evaluated and passed every rule whose code denies, so a human is never  *)
(* asked to approve something the mandate forbids                          *)
(* (policy.service.ts:194-195).                                            *)
StepUpMeansNoDenial ==
  Decided /\ VerdictFor(outcome) = "STEP_UP" =>
    \A n \in 1..RuleCount :
      VerdictFor(Checks(facts)[n].code) = "DENY" => Passes(facts, n)

(* INV-17, the verifier only subtracts: facts the engine allows or         *)
(* escalates with some verifier outcome get the same verdict when the      *)
(* verifier says PROCEED, and no outcome turns a denial into anything else.*)
VerifierOnlySubtracts ==
  Decided =>
    LET without == [facts EXCEPT !.verifier = "PROCEED"]
    IN  \/ VerdictFor(outcome) = "DENY"
        \/ outcome = Reason(without)

(* Spending less is never harder: facts allowed for an amount are allowed  *)
(* for every smaller amount, everything else equal.                        *)
AllowedIsDownwardClosed ==
  Decided /\ VerdictFor(outcome) = "ALLOW" =>
    \A a \in 0..facts.amount :
      Verdict([facts EXCEPT !.amount = a]) = "ALLOW"

(* Rules, verifier and amount each only take permission away: no human is  *)
(* asked about what a rule denies, no verifier outcome grants, no limit is *)
(* easier for a larger amount (policy.service.ts:84-205).                  *)
PermissionOnlyShrinks ==
  StepUpMeansNoDenial /\ VerifierOnlySubtracts /\ AllowedIsDownwardClosed
=============================================================================
