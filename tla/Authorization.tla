---------------------------- MODULE Authorization ----------------------------
(***************************************************************************)
(* The authorisation path of the kernel and the background jobs that share *)
(* its row lock:                                                           *)
(*                                                                         *)
(*   authorize       receive (the clock is read), wait for the mandate row *)
(*                   lock, burn the nonce and read under it, decide, write *)
(*                   and commit, hand the decision to the executor;        *)
(*   approveStepUp   read the challenge, wait for the lock and re-check,   *)
(*                   write and commit, hand over;                          *)
(*   revoke, expireMandates, expireChallenges (scan, then one transaction  *)
(*   per challenge), releaseStaleReservations (scan, then one transaction  *)
(*   per reservation);                                                     *)
(*   the settlement side, seen from here as its writes: the executor's     *)
(*   order row, captures and releases.                                     *)
(*                                                                         *)
(* Handlers run concurrently; any of them may die between two steps, which *)
(* rolls its transaction back.  One tick of `clock' is one unit of every   *)
(* TTL and window.  LastArrival, MaxClock and MaxInFlight bound the runs.  *)
(***************************************************************************)
EXTENDS Policy, Paise

CONSTANTS
  Mandates, Intents, Quotes, Nonces,
  Handlers,        \* concurrent calls of the kernel
  Requests,        \* the (signed intent, signed quote) pairs agents send
  Terms,           \* the limits and scope a mandate was issued with
  QuoteTerms,      \* what a stored quote says
  Registered,      \* the agents with a key
  Answers,         \* what callers of approveStepUp pass as `approve'
  Verifiers,       \* the outcomes the verifier may return
  Past,            \* <<mandate, merchant>> with a purchase captured long ago
  Hour,            \* the velocity window
  ChallengeTtl, ReservationTtl,
  RetryAttempts,   \* attempts of the transaction wrapper at the row lock
  MaxInFlight,     \* no call stays in flight for more ticks than this
  LastArrival,     \* no call starts after this tick
  MaxClock,        \* the clock stops here
  None

ASSUME Assumption ==
  /\ IsFiniteSet(Intents)
  /\ Answers \subseteq BOOLEAN
  /\ Verifiers \subseteq VerifierOutcomes /\ "PROCEED" \in Verifiers
  /\ None \notin Mandates \cup Intents \cup Quotes \cup Handlers \cup Requests
  /\ Hour \in Nat /\ ChallengeTtl \in Nat /\ ReservationTtl \in Nat
  /\ RetryAttempts \in Nat \ {0}
  /\ MaxInFlight \in Nat /\ LastArrival \in Nat /\ MaxClock \in Nat
  /\ Terms \in [Mandates ->
       [agent : STRING, authEvent : BOOLEAN, notBefore : Int, notAfter : Int,
        perTransaction : Nat, cumulative : Nat, velocity : Nat, window : Nat,
        silentThreshold : Nat, merchants : SUBSET STRING,
        categories : SUBSET STRING]]
  /\ QuoteTerms \in [Quotes -> [mandate : Mandates, amount : Nat, expires : Int,
                                basket : STRING, categories : SUBSET STRING]]
  /\ Requests \subseteq
       [intent : Intents, mandate : Mandates \cup {"unknown"}, quote : Quotes,
        presented : Quotes, nonce : Nonces, agent : STRING, signed : BOOLEAN,
        merchant : STRING, amount : Nat, basket : STRING, expires : Int]

VARIABLES
  clock,
  mandates,      \* mandates.state
  lock,          \* who holds the row lock of a mandate
  nonces,        \* intent_nonces: the intent that burned a nonce, or None
  quotes,        \* quotes.consumed_by, or None
  reservations,  \* reservations, by intent_id (UNIQUE)
  challenges,    \* challenges, by intent_id
  allows,        \* DECISION entries with verdict ALLOW on each intent
  ordered,       \* intents with a row in orders
  pc, call, read,          \* the handlers: where, with what, what they read
  expiring, reaping        \* the rows two jobs scanned and have not visited yet

tables == <<mandates, nonces, quotes, reservations, challenges, allows, ordered>>
locals == <<pc, call, read>>
jobs   == <<expiring, reaping>>
vars   == <<clock, lock, tables, locals, jobs>>
-----------------------------------------------------------------------------
NoRow == [state |-> "none", mandate |-> None, merchant |-> None, amount |-> 0,
          stepUp |-> FALSE, created |-> 0, reason |-> "none"]

NoChallenge == [state |-> "none", expires |-> 0]

NoCall == [req |-> None, intent |-> None, verifier |-> "PROCEED",
           stateless |-> NoFailure, now |-> 0, start |-> 0, attempts |-> 0,
           approve |-> TRUE, challenge |-> "none"]

NoRead == [state |-> "live", fresh |-> TRUE, consumed |-> FALSE, sum |-> 0,
           count |-> 0, seen |-> FALSE]

Init ==
  /\ clock = 0
  /\ mandates = [m \in Mandates |-> "live"]
  /\ lock = [m \in Mandates |-> None]
  /\ nonces = [n \in Nonces |-> None]
  /\ quotes = [q \in Quotes |-> None]
  /\ reservations = [i \in Intents |-> NoRow]
  /\ challenges = [i \in Intents |-> NoChallenge]
  /\ allows = [i \in Intents |-> 0]
  /\ ordered = {}
  /\ pc = [h \in Handlers |-> "idle"]
  /\ call = [h \in Handlers |-> NoCall]
  /\ read = [h \in Handlers |-> NoRead]
  /\ expiring = {}
  /\ reaping = {}
-----------------------------------------------------------------------------
(* The cap and velocity reads. *)

Counts(row) == row.state \in {"held", "captured"}

(* The rows WHERE mandate_id = m AND state IN (...) AND created_at > since. *)
CountedSince(m, since) ==
  {i \in Intents : /\ reservations[i].mandate = m
                   /\ Counts(reservations[i])
                   /\ reservations[i].created > since}

Amounts == [i \in Intents |-> reservations[i].amount]

(* Mutants: the reads forget what is reserved and not yet captured. *)
sumCaptured(m, start) ==
  Total(Amounts, {i \in CountedSince(m, start - Terms[m].window) :
                    reservations[i].state = "captured"})
countCapturedLastHour(m, start) ==
  Cardinality({i \in CountedSince(m, start - Hour) :
                 reservations[i].state = "captured"})

sumReservedAndCaptured(m, start) ==
  Total(Amounts, CountedSince(m, start - Terms[m].window))

countReservationsLastHour(m, start) ==
  Cardinality(CountedSince(m, start - Hour))

hasCapturedAtMerchant(m, merchant) ==
  \/ <<m, merchant>> \in Past
  \/ \E i \in Intents : /\ reservations[i].mandate = m
                        /\ reservations[i].merchant = merchant
                        /\ reservations[i].state = "captured"
-----------------------------------------------------------------------------
(* runStatelessChecks: before any transaction, on the presented values. *)
runStatelessChecks(r, now) ==
  LET quote == QuoteTerms[r.presented]
  IN  FoldChecks(
        << Check(r.agent \in Registered, "SEC-002"),
           Check(r.signed, "INT-001"),
           Check(now < r.expires, "INT-002"),
           Check(now < quote.expires, "INT-002"),
           Check(quote.mandate = r.mandate, "INT-004"),
           Check(r.amount = quote.amount, "INT-003"),
           Check(r.basket = quote.basket, "INT-003"),
           Check(r.quote = r.presented, "INT-004") >>, NoFailure)

(* The facts runLocked hands to evaluate. *)
Facts(h) ==
  LET r == call[h].req
      quote == QuoteTerms[r.quote]
  IN  [now |-> call[h].now, stateless |-> call[h].stateless,
       verifier |-> call[h].verifier, agent |-> r.agent,
       agentRegistered |-> r.agent \in Registered, merchant |-> r.merchant,
       amount |-> r.amount, taint |-> FALSE, nonceSpent |-> ~read[h].fresh,
       quoteConsumed |-> read[h].consumed, quoteExpires |-> quote.expires,
       categories |-> quote.categories, sum |-> read[h].sum,
       count |-> read[h].count, seen |-> read[h].seen,
       mandateState |-> read[h].state, terms |-> Terms[r.mandate]]

(* Mutants of checkApproval: it forgets the hold, or the mandate's term.   *)
checkApprovalAnyHold(h) ==
  LET c == call[h]
      m == reservations[c.intent].mandate
  IN  IF c.approve /\ c.challenge = "pending" /\ mandates[m] = "live"
           /\ c.now < challenges[c.intent].expires /\ c.now < Terms[m].notAfter
      THEN "OK-000" ELSE "INT-002"
checkApprovalAnyTerm(h) ==
  LET c == call[h]
      row == reservations[c.intent]
  IN  IF c.approve /\ c.challenge = "pending" /\ row.state = "held"
           /\ c.now < challenges[c.intent].expires /\ mandates[row.mandate] = "live"
      THEN "OK-000" ELSE "INT-002"

(* checkApproval: what a human could have outlasted.  The challenge is the *)
(* one read before the lock; the mandate and the hold are read under it.   *)
checkApproval(h) ==
  LET c == call[h]
      row == reservations[c.intent]
  IN  FoldChecks(
        << Check(c.approve, "STP-001"),
           Check(c.challenge = "pending", "INT-002"),
           Check(c.now < challenges[c.intent].expires, "INT-002"),
           Check(mandates[row.mandate] # "revoked", "MND-003"),
           Check(mandates[row.mandate] = "live"
                   /\ c.now < Terms[row.mandate].notAfter, "MND-002"),
           Check(row.state = "held", "INT-002") >>, "OK-000")

(* Mutant: no row lock. *)
AlwaysFree(m) == TRUE

Free(m) == lock[m] = None

Released(row, reason) == [row EXCEPT !.state = "released", !.reason = reason]

(* releaseReservation: a row in a counted state is released, others stay. *)
releaseReservation(i, reason) ==
  reservations' =
    [reservations EXCEPT ![i] = IF Counts(@) THEN Released(@, reason) ELSE @]

Leave(h) ==
  /\ pc' = [pc EXCEPT ![h] = "idle"]
  /\ call' = [call EXCEPT ![h] = NoCall]
  /\ read' = [read EXCEPT ![h] = NoRead]
-----------------------------------------------------------------------------
(* authorize *)

(* Stateless checks and the verifier run on the clock read on entry; a     *)
(* request that already failed skips the verifier.  The transaction begins *)
(* in the same tick: the verifier's timeout is shorter than a tick, and a  *)
(* transaction that begins later is RetryLock's.                           *)
Receive(h, r, v) ==
  LET failure == runStatelessChecks(r, clock)
  IN  /\ pc[h] = "idle"
      /\ clock <= LastArrival
      /\ failure # NoFailure => v = "PROCEED"
      /\ pc' = [pc EXCEPT ![h] = "waiting"]
      /\ call' = [call EXCEPT ![h] =
           [NoCall EXCEPT !.req = r, !.intent = r.intent, !.verifier = v,
                          !.stateless = failure, !.now = clock,
                          !.start = clock, !.attempts = 1]]
      /\ UNCHANGED <<clock, lock, tables, read, jobs>>

(* No mandate row: UnknownMandateError, answered on the operations chain. *)
UnknownMandate(h) ==
  /\ pc[h] = "waiting"
  /\ call[h].req.mandate \notin Mandates
  /\ Leave(h)
  /\ UNCHANGED <<clock, lock, tables, jobs>>

(* Mutant: two transactions insert the same nonce. *)
NeverContended(h) == FALSE

(* An uncommitted insert of the same nonce makes a second insert wait. *)
NonceContended(h) ==
  \E g \in Handlers \ {h} :
    pc[g] = "locked" /\ call[g].req.nonce = call[h].req.nonce

(* lockMandate, burnNonce and the reads.  Burning and reading happen in    *)
(* the same transaction and are rolled back together.                      *)
LockMandate(h) ==
  LET r == call[h].req
  IN  /\ pc[h] = "waiting"
      /\ r.mandate \in Mandates
      /\ Free(r.mandate)
      /\ ~NonceContended(h)
      /\ lock' = [lock EXCEPT ![r.mandate] = h]
      /\ pc' = [pc EXCEPT ![h] = "locked"]
      /\ read' = [read EXCEPT ![h] =
           [state    |-> mandates[r.mandate],
            fresh    |-> nonces[r.nonce] = None,
            consumed |-> quotes[r.quote] # None,
            sum      |-> sumReservedAndCaptured(r.mandate, call[h].start),
            count    |-> countReservationsLastHour(r.mandate, call[h].start),
            seen     |-> hasCapturedAtMerchant(r.mandate, r.merchant)]]
      /\ UNCHANGED <<clock, tables, call, jobs>>

(* The intent already has a reservation (UNIQUE intent_id), or the quote   *)
(* was consumed after it was read.                                         *)
WriteConflict(h) ==
  \/ reservations[call[h].intent] # NoRow
  \/ quotes[call[h].req.quote] # None

Burn(h) ==
  nonces' = IF read[h].fresh
            THEN [nonces EXCEPT ![call[h].req.nonce] = call[h].intent]
            ELSE nonces

(* A denial commits: the nonce it burned stays spent. *)
CommitDeny(h) ==
  /\ pc[h] = "locked"
  /\ Verdict(Facts(h)) = "DENY"
  /\ Burn(h)
  /\ lock' = [lock EXCEPT ![call[h].req.mandate] = None]
  /\ Leave(h)
  /\ UNCHANGED <<clock, mandates, quotes, reservations, challenges, allows,
                 ordered, jobs>>

(* ALLOW and STEP_UP consume the quote and hold the amount; a step-up also *)
(* raises its challenge, an ALLOW goes on to the executor after commit.    *)
CommitHold(h) ==
  LET r == call[h].req
      stepUp == Verdict(Facts(h)) = "STEP_UP"
  IN  /\ pc[h] = "locked"
      /\ Verdict(Facts(h)) # "DENY"
      /\ ~WriteConflict(h)
      /\ Burn(h)
      /\ quotes' = [quotes EXCEPT ![r.quote] = r.intent]
      /\ reservations' = [reservations EXCEPT ![r.intent] =
           [state |-> "held", mandate |-> r.mandate, merchant |-> r.merchant,
            amount |-> r.amount, stepUp |-> stepUp, created |-> call[h].start,
            reason |-> "none"]]
      /\ lock' = [lock EXCEPT ![r.mandate] = None]
      /\ \/ /\ stepUp
            /\ challenges' = [challenges EXCEPT ![r.intent] =
                 [state |-> "pending", expires |-> call[h].now + ChallengeTtl]]
            /\ Leave(h)
            /\ UNCHANGED allows
         \/ /\ ~stepUp
            /\ allows' = [allows EXCEPT ![r.intent] = @ + 1]
            /\ pc' = [pc EXCEPT ![h] = "settling"]
            /\ read' = [read EXCEPT ![h] = NoRead]
            /\ UNCHANGED <<challenges, call>>
      /\ UNCHANGED <<clock, mandates, ordered, jobs>>

(* A constraint refuses the write: everything rolls back, SYS-001. *)
CommitConflict(h) ==
  /\ pc[h] = "locked"
  /\ Verdict(Facts(h)) # "DENY"
  /\ WriteConflict(h)
  /\ lock' = [lock EXCEPT ![call[h].req.mandate] = None]
  /\ Leave(h)
  /\ UNCHANGED <<clock, tables, jobs>>
-----------------------------------------------------------------------------
(* approveStepUp *)

(* The challenge is read before the lock; `approve' is the human's answer. *)
BeginApproval(h, i, approve) ==
  /\ pc[h] = "idle"
  /\ clock <= LastArrival
  /\ challenges[i] # NoChallenge
  /\ pc' = [pc EXCEPT ![h] = "approving"]
  /\ call' = [call EXCEPT ![h] =
       [NoCall EXCEPT !.intent = i, !.approve = approve, !.now = clock,
                      !.start = clock, !.attempts = 1,
                      !.challenge = challenges[i].state]]
  /\ UNCHANGED <<clock, lock, tables, read, jobs>>

(* resolveChallenge: only a challenge still pending changes state. *)
resolveChallenge(i, state) ==
  challenges' = [challenges EXCEPT ![i].state =
                   IF @ = "pending" THEN state ELSE @]

(* lockMandate and checkApproval: the decision is made on what is read now *)
(* and committed by a later step.                                          *)
LockApproval(h) ==
  LET m == reservations[call[h].intent].mandate
  IN  /\ pc[h] = "approving"
      /\ Free(m)
      /\ checkApproval(h) = "OK-000"
      /\ lock' = [lock EXCEPT ![m] = h]
      /\ pc' = [pc EXCEPT ![h] = "granting"]
      /\ UNCHANGED <<clock, tables, call, read, jobs>>

(* The writes and the commit.  Nothing is read again, so an answer that    *)
(* settlement gave the hold since then, without the lock, is not seen.     *)
Approve(h) ==
  LET i == call[h].intent
  IN  /\ pc[h] = "granting"
      /\ resolveChallenge(i, "approved")
      /\ allows' = [allows EXCEPT ![i] = @ + 1]
      /\ lock' = [lock EXCEPT ![reservations[i].mandate] = None]
      /\ pc' = [pc EXCEPT ![h] = "settling"]
      /\ UNCHANGED <<clock, mandates, nonces, quotes, reservations, ordered,
                     call, read, jobs>>

(* A refusal releases the hold if it is still held.  What it was decided   *)
(* on cannot become acceptable before it commits, so it is one step.       *)
RefuseApproval(h) ==
  LET i == call[h].intent
  IN  /\ pc[h] = "approving"
      /\ Free(reservations[i].mandate)
      /\ checkApproval(h) # "OK-000"
      /\ resolveChallenge(i, "rejected")
      /\ reservations' = [reservations EXCEPT ![i] =
           IF @.state = "held" THEN Released(@, "step_up_abandoned") ELSE @]
      /\ Leave(h)
      /\ UNCHANGED <<clock, lock, mandates, nonces, quotes, allows, ordered, jobs>>
-----------------------------------------------------------------------------
(* withAuthorizationTransaction, settle, and a process that dies. *)

MandateOf(h) ==
  IF pc[h] = "waiting" THEN call[h].req.mandate
  ELSE reservations[call[h].intent].mandate

Blocked(h) ==
  /\ pc[h] \in {"waiting", "approving"}
  /\ MandateOf(h) \in Mandates
  /\ \/ ~Free(MandateOf(h))
     \/ pc[h] = "waiting" /\ NonceContended(h)

(* The wait exceeded lock_timeout: a new transaction begins.  The     *)
(* clock read on entry is kept, the challenge is read again.               *)
RetryLock(h) ==
  /\ Blocked(h)
  /\ call[h].attempts < RetryAttempts
  /\ call' = [call EXCEPT ![h].attempts = @ + 1, ![h].start = clock,
                          ![h].challenge = IF pc[h] = "approving"
                                           THEN challenges[call[h].intent].state
                                           ELSE @]
  /\ UNCHANGED <<clock, lock, tables, pc, read, jobs>>

(* The retry budget is spent: SYS-003, on the operations chain. *)
GiveUpLock(h) ==
  /\ Blocked(h)
  /\ call[h].attempts >= RetryAttempts
  /\ Leave(h)
  /\ UNCHANGED <<clock, lock, tables, jobs>>

(* settle: the executor's claim.  It inserts the order unless the intent   *)
(* has one; it reads neither the reservation nor the challenge.            *)
Settle(h) ==
  /\ pc[h] = "settling"
  /\ ordered' = ordered \cup {call[h].intent}
  /\ Leave(h)
  /\ UNCHANGED <<clock, lock, mandates, nonces, quotes, reservations,
                 challenges, allows, jobs>>

(* The kernel process dies, a statement of its transaction fails (two      *)
(* appends to a chain collide, say), or the call to the executor is lost.  *)
Crash(h) ==
  /\ pc[h] # "idle"
  /\ lock' = [m \in Mandates |-> IF lock[m] = h THEN None ELSE lock[m]]
  /\ Leave(h)
  /\ UNCHANGED <<clock, tables, jobs>>
-----------------------------------------------------------------------------
(* revoke and the jobs *)

(* Mutant: a revocation does not wait for the decisions in flight. *)
RevokeUnlocked(m) ==
  /\ mandates[m] # "revoked"
  /\ mandates' = [mandates EXCEPT ![m] = "revoked"]
  /\ UNCHANGED <<clock, lock, nonces, quotes, reservations, challenges, allows,
                 ordered, locals, jobs>>

Revoke(m) ==
  /\ mandates[m] # "revoked"
  /\ Free(m)
  /\ mandates' = [mandates EXCEPT ![m] = "revoked"]
  /\ UNCHANGED <<clock, lock, nonces, quotes, reservations, challenges, allows,
                 ordered, locals, jobs>>

Due(m) == mandates[m] = "live" /\ Terms[m].notAfter <= clock

(* One UPDATE over every mandate past not_after. *)
ExpireMandates ==
  /\ \E m \in Mandates : Due(m)
  /\ \A m \in Mandates : Due(m) => Free(m)
  /\ mandates' = [m \in Mandates |-> IF Due(m) THEN "expired" ELSE mandates[m]]
  /\ UNCHANGED <<clock, lock, nonces, quotes, reservations, challenges, allows,
                 ordered, locals, jobs>>

(* expireChallenges, the scan: ticks of the worker may overlap. *)
ScanChallenges ==
  /\ expiring' = expiring \cup
       {i \in Intents : /\ challenges[i].state = "pending"
                        /\ challenges[i].expires <= clock}
  /\ UNCHANGED <<clock, lock, tables, locals, reaping>>

(* Mutant: the sweep does not wait for the row lock. *)
ExpireUnlocked(i) ==
  /\ i \in expiring
  /\ challenges' = [challenges EXCEPT ![i].state = "expired"]
  /\ releaseReservation(i, "step_up_abandoned")
  /\ expiring' = expiring \ {i}
  /\ UNCHANGED <<clock, lock, mandates, nonces, quotes, allows, ordered, locals,
                 reaping>>

(* ... and one transaction per challenge, which re-reads nothing. *)
ExpireChallenge(i) ==
  /\ i \in expiring
  /\ Free(reservations[i].mandate)
  /\ challenges' = [challenges EXCEPT ![i].state = "expired"]
  /\ releaseReservation(i, "step_up_abandoned")
  /\ expiring' = expiring \ {i}
  /\ UNCHANGED <<clock, lock, mandates, nonces, quotes, allows, ordered, locals,
                 reaping>>

(* Mutants of the scan: it does not wait for the TTL, or leaves step-ups   *)
(* to expireChallenges.                                                    *)
ScanFreshReservations ==
  /\ reaping' = reaping \cup {i \in Intents \ ordered : reservations[i].state = "held"}
  /\ UNCHANGED <<clock, lock, tables, locals, expiring>>
ScanSilentReservations ==
  /\ reaping' = reaping \cup
       {i \in Intents \ ordered : /\ reservations[i].state = "held"
                                  /\ ~reservations[i].stepUp
                                  /\ reservations[i].created < clock - ReservationTtl}
  /\ UNCHANGED <<clock, lock, tables, locals, expiring>>

(* releaseStaleReservations, the scan. *)
ScanReservations ==
  /\ reaping' = reaping \cup
       {i \in Intents \ ordered : /\ reservations[i].state = "held"
                                  /\ reservations[i].created < clock - ReservationTtl}
  /\ UNCHANGED <<clock, lock, tables, locals, expiring>>

(* ... and one transaction per reservation, which looks for an order again.*)
Reap(i) ==
  /\ i \in reaping
  /\ Free(reservations[i].mandate)
  /\ IF i \in ordered THEN UNCHANGED reservations
     ELSE releaseReservation(i, "reaped")
  /\ reaping' = reaping \ {i}
  /\ UNCHANGED <<clock, lock, mandates, nonces, quotes, challenges, allows,
                 ordered, locals, expiring>>

(* The worker dies between a scan and its last transaction. *)
WorkerCrash ==
  /\ clock <= LastArrival
  /\ expiring # {} \/ reaping # {}
  /\ expiring' = {}
  /\ reaping' = {}
  /\ UNCHANGED <<clock, lock, tables, locals>>
-----------------------------------------------------------------------------
(* Settlement, as far as this module can see it: an order is captured, or  *)
(* it fails, is given up or is refunded.  Captures never take the row lock *)
(* and a webhook's release does not either.                                *)

(* Mutant: the capture does not look at the reservation's state. *)
captureAnyReservation(i) ==
  /\ i \in ordered
  /\ reservations' = [reservations EXCEPT ![i].state = "captured"]
  /\ UNCHANGED <<clock, lock, mandates, nonces, quotes, challenges, allows,
                 ordered, locals, jobs>>

captureReservation(i) ==
  /\ i \in ordered
  /\ reservations[i].state = "held"
  /\ reservations' = [reservations EXCEPT ![i].state = "captured"]
  /\ UNCHANGED <<clock, lock, mandates, nonces, quotes, challenges, allows,
                 ordered, locals, jobs>>

releaseSettled(i) ==
  /\ i \in ordered
  /\ Counts(reservations[i])
  /\ releaseReservation(i, "payment_failed")
  /\ UNCHANGED <<clock, lock, mandates, nonces, quotes, challenges, allows,
                 ordered, locals, jobs>>

(* Calls end: lock, statement and HTTP timeouts bound each of their steps. *)
Tick ==
  /\ clock < MaxClock
  /\ \A h \in Handlers : pc[h] # "idle" => clock < call[h].now + MaxInFlight
  /\ clock' = clock + 1
  /\ UNCHANGED <<lock, tables, locals, jobs>>

HandlerStep(h) ==
  \/ UnknownMandate(h) \/ LockMandate(h)
  \/ CommitDeny(h) \/ CommitHold(h) \/ CommitConflict(h)
  \/ LockApproval(h) \/ Approve(h) \/ RefuseApproval(h)
  \/ RetryLock(h) \/ GiveUpLock(h) \/ Settle(h)

Next ==
  \/ \E h \in Handlers, r \in Requests, v \in Verifiers : Receive(h, r, v)
  \/ \E h \in Handlers, i \in Intents, b \in Answers : BeginApproval(h, i, b)
  \/ \E h \in Handlers : HandlerStep(h) \/ Crash(h)
  \/ \E m \in Mandates : Revoke(m)
  \/ ExpireMandates
  \/ ScanChallenges \/ ScanReservations \/ WorkerCrash
  \/ \E i \in Intents : \/ ExpireChallenge(i) \/ Reap(i)
                        \/ captureReservation(i) \/ releaseSettled(i)
  \/ Tick

Spec == Init /\ [][Next]_vars
-----------------------------------------------------------------------------
RowStates == {"none", "held", "captured", "released"}
Reasons == {"none", "step_up_abandoned", "reaped", "payment_failed"}
Row == [state : RowStates, mandate : {None} \cup Mandates,
        merchant : {None} \cup STRING, amount : Nat, stepUp : BOOLEAN,
        created : Nat, reason : Reasons]
Challenge == [state : {"none", "pending", "approved", "rejected", "expired"},
              expires : Nat]
StatelessCodes == {"SEC-002", "INT-001", "INT-002", "INT-003", "INT-004"}
Call == [req : Requests \cup {None}, intent : Intents \cup {None},
         verifier : VerifierOutcomes, stateless : {NoFailure} \cup StatelessCodes,
         now : Nat, start : Nat, attempts : Nat, approve : BOOLEAN,
         challenge : {"none", "pending", "approved", "rejected", "expired"}]
Read == [state : {"live", "revoked", "expired"}, fresh : BOOLEAN,
         consumed : BOOLEAN, sum : Nat, count : Nat, seen : BOOLEAN]

TypeOK ==
  /\ clock \in 0..MaxClock
  /\ mandates \in [Mandates -> {"live", "revoked", "expired"}]
  /\ lock \in [Mandates -> Handlers \cup {None}]
  /\ nonces \in [Nonces -> Intents \cup {None}]
  /\ quotes \in [Quotes -> Intents \cup {None}]
  /\ reservations \in [Intents -> Row]
  /\ challenges \in [Intents -> Challenge]
  /\ allows \in [Intents -> Nat]
  /\ ordered \subseteq Intents
  /\ pc \in [Handlers -> {"idle", "waiting", "locked", "approving", "granting", "settling"}]
  /\ call \in [Handlers -> Call]
  /\ read \in [Handlers -> Read]
  /\ expiring \subseteq Intents
  /\ reaping \subseteq Intents

(* A handler has what its next step uses, and one that is past the lock    *)
(* wait is the holder of its mandate's row and of its nonce's key.         *)
LocksHeld ==
  \A h \in Handlers :
    /\ pc[h] \in {"waiting", "locked"} =>
         call[h].req \in Requests /\ call[h].intent = call[h].req.intent
    /\ pc[h] \in {"approving", "granting", "settling"} => call[h].intent \in Intents
    /\ pc[h] = "granting" => LET m == reservations[call[h].intent].mandate
                             IN  m \in Mandates /\ lock[m] = h
    /\ pc[h] = "locked" => /\ call[h].req.mandate \in Mandates
                           /\ lock[call[h].req.mandate] = h
                           /\ \A g \in Handlers \ {h} : pc[g] = "locked" =>
                                call[g].req.nonce # call[h].req.nonce

(* Why reading under the row lock is enough: until the transaction commits,*)
(* the mandate's state is the one it read, a nonce it found unspent still  *)
(* is, and no row was added to the windows it summed and counted (rows may *)
(* have been released: captures and releases do not take the lock).        *)
ReadsStayValid ==
  \A h \in Handlers : pc[h] = "locked" =>
    LET r == call[h].req
    IN  /\ read[h].state = mandates[r.mandate]
        /\ read[h].fresh => nonces[r.nonce] = None
        /\ sumReservedAndCaptured(r.mandate, call[h].start) <= read[h].sum
        /\ countReservationsLastHour(r.mandate, call[h].start) <= read[h].count

(* An amount an ALLOW may rest on: the cap counts it, or it was executed   *)
(* and its payment failed.                                                 *)
Accounted(i) ==
  \/ Counts(reservations[i])
  \/ /\ i \in ordered
     /\ reservations[i].state = "released"
     /\ reservations[i].reason = "payment_failed"

(* The same of an approval: until it commits, no other transaction takes   *)
(* away what checkApproval found, except a settlement that resolves a hold *)
(* another approval of the challenge has already sent to the executor.     *)
GrantsStayValid ==
  \A h \in Handlers : pc[h] = "granting" =>
    LET i == call[h].intent
        m == reservations[i].mandate
    IN  /\ call[h].approve
        /\ call[h].now < challenges[i].expires
        /\ mandates[m] = "live"
        /\ call[h].now < Terms[m].notAfter
        /\ Accounted(i)

(* A counted row belongs to a mandate. *)
RowsOwned ==
  \A i \in Intents : Counts(reservations[i]) => reservations[i].mandate \in Mandates

(* A call is in flight for at most MaxInFlight ticks. *)
InFlight ==
  \A h \in Handlers : pc[h] # "idle" => /\ call[h].now <= clock
                                        /\ clock <= call[h].now + MaxInFlight

(* The counted rows of m created in the `width' ticks that end at t. *)
InWindow(m, t, width) ==
  {i \in CountedSince(m, t - width) : reservations[i].created <= t}

(* The cumulative limit (LMT-002, INV-05): in every rolling window, and not*)
(* only in the one that ends now, what a mandate has held or captured is   *)
(* within its cap, however authorisations, retries, releases and captures  *)
(* interleave.                                                             *)
CumulativeCap ==
  \A m \in Mandates, t \in 0..MaxClock :
    Total(Amounts, InWindow(m, t, Terms[m].window)) <= Terms[m].cumulative

(* The velocity limit (LMT-003): no hour holds more counted purchases of a *)
(* mandate than its velocity.                                              *)
VelocityCap ==
  \A m \in Mandates, t \in 0..MaxClock :
    Cardinality(InWindow(m, t, Hour)) <= Terms[m].velocity

(* The inductive invariant behind the two caps (AuthorizationTheorems). *)
IInv == /\ TypeOK /\ LocksHeld /\ RowsOwned /\ ReadsStayValid /\ GrantsStayValid
        /\ InFlight /\ CumulativeCap /\ VelocityCap

(* Single use (INV-06, INV-14): every reservation is backed by exactly one *)
(* consumed quote, of its own mandate and amount, and by a nonce burned    *)
(* for its intent; a consumed quote always paid for a reservation.         *)
HoldIsBacked ==
  /\ \A i \in Intents : reservations[i] # NoRow =>
       /\ \E n \in Nonces : nonces[n] = i
       /\ \E q \in Quotes : /\ quotes[q] = i
                           /\ QuoteTerms[q].mandate = reservations[i].mandate
                           /\ QuoteTerms[q].amount = reservations[i].amount
                           /\ \A p \in Quotes : quotes[p] = i => p = q
  /\ \A q \in Quotes : quotes[q] # None => reservations[quotes[q]] # NoRow

(* What a handler that waits or decides knows of its request was checked   *)
(* on the presented quote, with the clock it keeps.                        *)
StatelessKept ==
  \A h \in Handlers : pc[h] \in {"waiting", "locked"} =>
    call[h].stateless = runStatelessChecks(call[h].req, call[h].now)

(* The inductive invariant behind HoldIsBacked (AuthorizationTheorems). *)
BackedInv == IInv /\ StatelessKept /\ HoldIsBacked

NewAllow(i) == allows'[i] > allows[i]
NewHold(i) == reservations[i] = NoRow /\ reservations'[i] # NoRow

(* Revocation (INV-09): no step holds an amount or says ALLOW on a mandate *)
(* that is revoked or expired in the database when that step commits.      *)
NoSpendAfterRevoke ==
  [][\A i \in Intents : NewAllow(i) \/ NewHold(i) =>
        mandates[reservations'[i].mandate] = "live"]_vars

(* An ALLOW is never committed on a hold that was reaped, abandoned or     *)
(* never made (authorization.service.ts:611-612): the cap counts the amount*)
(* when the decision commits.  The exception is an amount that is spent    *)
(* already: two approvals of one challenge race, the first is executed, and*)
(* a webhook, which takes no lock, releases the failed payment's hold while*)
(* the second commits.                                                     *)
AllowIsCounted ==
  [][\A i \in Intents : NewAllow(i) => Accounted(i)']_vars

(* Above the silent threshold nothing is allowed without a human           *)
(* (README.md:131, "Large spend passing without a human"): the handler     *)
(* that says ALLOW is an approval somebody answered with yes.              *)
LargeNeedsHuman ==
  [][\A i \in Intents : NewAllow(i) =>
        \/ reservations'[i].amount <= Terms[reservations'[i].mandate].silentThreshold
        \/ \E h \in Handlers : /\ pc[h] = "granting" /\ call[h].intent = i
                               /\ call[h].approve]_vars

(* The authority is judged on the clock read on entry, so a decision can   *)
(* outlive the mandate, but by less than the time a call may be in flight. *)
AllowNearValidity ==
  [][\A i \in Intents : NewAllow(i) =>
        clock < Terms[reservations'[i].mandate].notAfter + MaxInFlight]_vars

(* The reaper's rule (INV-20, release-stale.job.ts:13-20): a reservation   *)
(* is reaped only when no execution was attempted, nor ever will be.  It   *)
(* rests on time: the executor neither reads the reservation nor takes the *)
(* lock, so what keeps the two apart is that a call ends before its hold   *)
(* is stale, human included.                                               *)
ReapedNeverExecuted ==
  \A i \in Intents : reservations[i].reason = "reaped" => i \notin ordered

Reserved(i) == reservations[i].state # "none"
Stale(i) == reservations[i].created + ReservationTtl < clock

(* A call that is handed to the executor has its hold. *)
SettlesHold ==
  \A h \in Handlers : pc[h] = "settling" => Reserved(call[h].intent)

(* Why time keeps them apart: what the reaper may touch is stale, and what *)
(* a handler may still execute is not, because its hold is as young as the *)
(* call, or as the challenge that was answered in time.                    *)
TooLateToExecute ==
  /\ \A i \in reaping : Reserved(i) /\ Stale(i)
  /\ \A i \in Intents : reservations[i].reason = "reaped" => Reserved(i) /\ Stale(i)
SettlesInTime ==
  \A h \in Handlers : pc[h] = "settling" =>
    call[h].now + MaxInFlight <= reservations[call[h].intent].created + ReservationTtl
ChallengesOnHolds ==
  \A i \in Intents : challenges[i].expires # 0 =>
    Reserved(i) /\ challenges[i].expires <= reservations[i].created + ChallengeTtl
StartsAfterEntry ==
  \A h \in Handlers : pc[h] # "idle" => call[h].now <= call[h].start

(* The inductive invariant behind ReapedNeverExecuted, and what it takes   *)
(* of the TTLs: a call, and an answer to a challenge, end before the hold  *)
(* is stale (authorization.service.ts:84-86, jobs.validation.ts:4,9: five  *)
(* and fifteen minutes).                                                   *)
ReapInv == /\ IInv /\ SettlesHold /\ TooLateToExecute /\ SettlesInTime
           /\ ChallengesOnHolds /\ StartsAfterEntry /\ ReapedNeverExecuted
TtlsApart == /\ MaxInFlight <= ReservationTtl
             /\ ChallengeTtl + MaxInFlight <= ReservationTtl + 1

(* The reservations and the orders, seen as the kernel's two halves agreed:*)
(* an intent is claimed only once it has a hold, and a hold is made once,  *)
(* captured only for an order and released for good.                       *)
Holds == INSTANCE Hold WITH
  hold <- [i \in Intents |-> reservations[i].state], claimed <- ordered
HoldSpec == Holds!HoldSpec

(* INV-20: a hold whose execution was never attempted does not stay held:  *)
(* it is executed, released or reaped.                                     *)
UnexecutedResolved ==
  \A i \in Intents :
    (reservations[i].state = "held" /\ i \notin ordered)
      ~> (reservations[i].state # "held" \/ i \in ordered)

(* The scheduling the code provides: the worker's intervals keep firing,   *)
(* a handler's next statement runs, the queue of a row lock is served in   *)
(* order, and time passes.                                                 *)
Fairness ==
  /\ WF_vars(Tick)
  /\ WF_vars(ScanReservations)
  /\ \A h \in Handlers : WF_vars(HandlerStep(h))
  /\ \A i \in Intents : SF_vars(Reap(i))

FairSpec == Spec /\ Fairness
=============================================================================
