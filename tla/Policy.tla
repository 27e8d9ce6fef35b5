------------------------------- MODULE Policy -------------------------------
(***************************************************************************)
(* The policy engine: the nineteen rules of policy.service.ts, the closed  *)
(* set of reason codes and the verdict each code belongs to.               *)
(*                                                                         *)
(* The engine is a pure function of facts already read under the mandate   *)
(* row lock, so it is a set of operators here, without state.  The loop    *)
(* that evaluates it rule by rule is module PolicyFold.                    *)
(*                                                                         *)
(* A fact record f has the fields                                          *)
(*   now, stateless, verifier, agent, agentRegistered, merchant, amount,   *)
(*   taint, nonceSpent, quoteConsumed, quoteExpires, categories,           *)
(*   sum, count, seen, mandateState  and  terms, the mandate's own record  *)
(*   [agent, authEvent, notBefore, notAfter, perTransaction, cumulative,   *)
(*    velocity, silentThreshold, merchants, categories, window].           *)
(***************************************************************************)
EXTENDS Integers, Sequences

(* The value of `statelessFailure` when no stateless check failed. *)
NoFailure == "none"

VerifierOutcomes == {"PROCEED", "DENY", "UNAVAILABLE"}

StepUpCodes == {"STP-001", "STP-002", "STP-003"}

ReasonCodes ==
  {"OK-000", "AUT-001", "AUT-002", "MND-001", "MND-002", "MND-003",
   "LMT-001", "LMT-002", "LMT-003", "LMT-004", "LMT-005", "SCP-001",
   "SCP-002", "INT-001", "INT-002", "INT-003", "INT-004", "SEC-001",
   "SEC-002", "SEC-003", "SEC-004", "SYS-001", "SYS-002", "SYS-003"}
    \cup StepUpCodes

(* Mutant: a broken per-transaction limit is left to a human. *)
VerdictLimitEscalates(code) ==
  IF code = "OK-000" THEN "ALLOW"
  ELSE IF code \in StepUpCodes \cup {"LMT-001"} THEN "STEP_UP" ELSE "DENY"

(* VERDICT_FOR_REASON: a reason code belongs to exactly one verdict. *)
VerdictFor(code) ==
  IF code = "OK-000" THEN "ALLOW"
  ELSE IF code \in StepUpCodes THEN "STEP_UP" ELSE "DENY"

Check(passed, code) == [passed |-> passed, code |-> code]

StatelessCode(f) == IF f.stateless = NoFailure THEN "INT-001" ELSE f.stateless

(* An amount that needs neither a human nor an available verifier. *)
Silent(f) == f.amount <= f.terms.silentThreshold

(***************************************************************************)
(* The rule table, in the order the code lists it.                         *)
(***************************************************************************)
Checks(f) ==
  << (* stateless              *) Check(f.stateless = NoFailure, StatelessCode(f)),
     (* taint.decisionField    *) Check(~f.taint, "SEC-001"),
     (* agent.registered       *) Check(f.agentRegistered, "SEC-002"),
     (* verifier.objection     *) Check(f.verifier # "DENY", "SEC-004"),
     (* verifier.availability  *) Check(f.verifier # "UNAVAILABLE" \/ Silent(f),
                                        "SYS-002"),
     (* mandate.bindsAgent     *) Check(f.terms.agent = f.agent, "MND-001"),
     (* mandate.authEvent      *) Check(f.terms.authEvent, "AUT-001"),
     (* mandate.notRevoked     *) Check(f.mandateState # "revoked", "MND-003"),
     (* mandate.validity       *) Check(/\ f.mandateState = "live"
                                        /\ f.terms.notBefore <= f.now
                                        /\ f.now < f.terms.notAfter, "MND-002"),
     (* scope.merchant         *) Check(f.merchant \in f.terms.merchants, "SCP-001"),
     (* scope.category         *) Check(f.categories \subseteq f.terms.categories,
                                        "SCP-002"),
     (* intent.nonceUnspent    *) Check(~f.nonceSpent, "INT-002"),
     (* quote.unconsumed       *) Check(~f.quoteConsumed, "INT-002"),
     (* quote.notExpired       *) Check(f.now < f.quoteExpires, "INT-002"),
     (* limits.perTransaction  *) Check(f.amount <= f.terms.perTransaction, "LMT-001"),
     (* limits.cumulative      *) Check(f.sum + f.amount <= f.terms.cumulative,
                                        "LMT-002"),
     (* limits.velocity        *) Check(f.count < f.terms.velocity, "LMT-003"),
     (* stepUp.silentThreshold *) Check(Silent(f), "STP-001"),
     (* stepUp.firstAtMerchant *) Check(f.seen, "STP-002") >>

RuleCount == 19

(***************************************************************************)
(* fold: a list of checks returns the code of the first that fails, and    *)
(* `otherwise' when every check passes.                                    *)
(***************************************************************************)
FailingChecks(checks) == {n \in DOMAIN checks : ~checks[n].passed}

FirstFailing(checks) ==
  CHOOSE n \in FailingChecks(checks) : \A m \in FailingChecks(checks) : n <= m

FoldChecks(checks, otherwise) ==
  IF FailingChecks(checks) = {} THEN otherwise
  ELSE checks[FirstFailing(checks)].code

(* evaluate(facts): the reason code, and the verdict it belongs to. *)
Reason(f) == FoldChecks(Checks(f), "OK-000")

Verdict(f) == VerdictFor(Reason(f))

Passes(f, n) == Checks(f)[n].passed
=============================================================================
