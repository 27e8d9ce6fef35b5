------------------------ MODULE AuthorizationTheorems ------------------------
(***************************************************************************)
(* The safety of the authorisation path for every set of mandates, intents,*)
(* quotes, nonces and concurrent handlers, every limit, window and TTL.    *)
(*                                                                         *)
(* IInv is inductive.  Its heart is ReadsStayValid: because every insert   *)
(* of a reservation is made by the holder of the mandate's row lock, and   *)
(* every other write only lowers a counted total, what the holder summed   *)
(* is an upper bound until it commits; the row it then inserts is the last *)
(* of every window that holds it, so the window is within the cap.         *)
(***************************************************************************)
EXTENDS Authorization, PolicyTheorems, FiniteSetTheorems

-----------------------------------------------------------------------------
(* Sums.  Total is a natural number, it grows with the set of rows, a new  *)
(* row adds its amount, and it depends on nothing but the amounts of its   *)
(* rows.                                                                   *)

(* A row contributes as many pairs as it has paise. *)
LEMMA PaiseOfFinite ==
  ASSUME NEW amount, NEW k, amount[k] \in Nat
  PROVE  IsFiniteSet(PaiseOf(amount, k)) /\ Cardinality(PaiseOf(amount, k)) = amount[k]
<1>1. IsFiniteSet({k}) /\ Cardinality({k}) = 1
  BY FS_Singleton
<1>2. IsFiniteSet(1..amount[k]) /\ Cardinality(1..amount[k]) = amount[k]
  <2>1. 1 \in Int /\ amount[k] \in Int
    OBVIOUS
  <2>2. IsFiniteSet(1..amount[k])
          /\ Cardinality(1..amount[k]) = IF 1 > amount[k] THEN 0 ELSE amount[k] - 1 + 1
    BY <2>1, FS_Interval
  <2>3. QED
    BY <2>2
<1>3. IsFiniteSet({k} \X (1..amount[k]))
        /\ Cardinality({k} \X (1..amount[k])) = Cardinality({k}) * Cardinality(1..amount[k])
  BY <1>1, <1>2, FS_Product
<1>4. QED
  BY <1>1, <1>2, <1>3 DEF PaiseOf

(* The pairs of a finite set of rows are finitely many. *)
LEMMA PairsFinite ==
  ASSUME NEW amount, NEW rows, IsFiniteSet(rows), \A k \in rows : amount[k] \in Nat
  PROVE  IsFiniteSet(UNION {PaiseOf(amount, k) : k \in rows})
<1> DEFINE P == {PaiseOf(amount, k) : k \in rows}
<1>1. IsFiniteSet(P)
  <2> DEFINE f == [k \in rows |-> PaiseOf(amount, k)]
  <2>1. f \in Surjection(rows, P)
    BY DEF Surjection
  <2>2. QED
    BY <2>1, FS_Surjection
<1>2. \A S \in P : IsFiniteSet(S)
  BY PaiseOfFinite
<1>3. QED
  BY <1>1, <1>2, FS_UNION

(* A sum of natural amounts over finitely many rows is a natural. *)
LEMMA TotalType ==
  ASSUME NEW amount, NEW rows, IsFiniteSet(rows), \A k \in rows : amount[k] \in Nat
  PROVE  Total(amount, rows) \in Nat
  BY PairsFinite, FS_CardinalityType DEF Total

(* A sum over fewer rows is not larger. *)
LEMMA TotalMonotone ==
  ASSUME NEW amount, NEW R, NEW S, R \subseteq S, IsFiniteSet(S),
         \A k \in S : amount[k] \in Nat
  PROVE  Total(amount, R) <= Total(amount, S)
<1>1. IsFiniteSet(UNION {PaiseOf(amount, k) : k \in S})
  BY PairsFinite
<1>2. UNION {PaiseOf(amount, k) : k \in R} \subseteq UNION {PaiseOf(amount, k) : k \in S}
  OBVIOUS
<1>3. QED
  BY <1>1, <1>2, FS_Subset DEF Total

(* A sum depends on the amounts of its rows only. *)
LEMMA TotalCongruence ==
  ASSUME NEW f, NEW g, NEW rows, \A k \in rows : f[k] = g[k]
  PROVE  Total(f, rows) = Total(g, rows)
<1>1. \A k \in rows : PaiseOf(f, k) = PaiseOf(g, k)
  BY DEF PaiseOf
<1>2. UNION {PaiseOf(f, k) : k \in rows} = UNION {PaiseOf(g, k) : k \in rows}
  BY <1>1
<1>3. QED
  BY <1>2 DEF Total

(* A new row adds its amount. *)
LEMMA TotalAdd ==
  ASSUME NEW amount, NEW rows, NEW k, k \notin rows, IsFiniteSet(rows),
         \A j \in rows \cup {k} : amount[j] \in Nat
  PROVE  Total(amount, rows \cup {k}) = Total(amount, rows) + amount[k]
<1> DEFINE A == UNION {PaiseOf(amount, j) : j \in rows}
           B == PaiseOf(amount, k)
<1>1. UNION {PaiseOf(amount, j) : j \in rows \cup {k}} = A \cup B
  OBVIOUS
<1>2. IsFiniteSet(A) /\ IsFiniteSet(B) /\ Cardinality(B) = amount[k]
  BY PairsFinite, PaiseOfFinite
<1>3. A \cap B = {}
  BY DEF PaiseOf
<1>4. Cardinality(A \cup B) = Cardinality(A) + Cardinality(B) - Cardinality(A \cap B)
  BY <1>2, FS_Union
<1>5. Cardinality(A \cap B) = 0
  BY <1>3, FS_EmptySet
<1>6. Cardinality(A) \in Nat /\ Cardinality(B) \in Nat
  BY <1>2, FS_CardinalityType
<1> HIDE DEF A, B
<1>7. Cardinality(A \cup B) = Cardinality(A) + amount[k]
  BY <1>2, <1>4, <1>5, <1>6
<1>8. QED
  BY <1>1, <1>7 DEF Total, A

-----------------------------------------------------------------------------
(* Types of the constants and of the pure functions. *)

(* The fields of a request have the types the assumption gives them. *)
LEMMA RequestType ==
  ASSUME NEW r \in Requests
  PROVE  /\ r.intent \in Intents /\ r.quote \in Quotes /\ r.presented \in Quotes
         /\ r.nonce \in Nonces /\ r.amount \in Nat /\ r.merchant \in STRING
         /\ r.mandate \in Mandates \cup {"unknown"}
  BY Assumption DEF Assumption

(* The limits of a mandate are integers. *)
LEMMA TermsType ==
  ASSUME NEW m \in Mandates
  PROVE  /\ Terms[m].cumulative \in Nat /\ Terms[m].window \in Nat
         /\ Terms[m].velocity \in Nat /\ Terms[m].notAfter \in Int
  BY Assumption DEF Assumption

(* A fold over checks returns the code of one of them, or `otherwise'. *)
LEMMA FoldCode ==
  ASSUME NEW checks, NEW otherwise, NEW S, DOMAIN checks \subseteq Nat,
         \A n \in DOMAIN checks : checks[n].code \in S
  PROVE  FoldChecks(checks, otherwise) \in S \cup {otherwise}
<1>1. CASE FailingChecks(checks) = {}
  BY <1>1 DEF FoldChecks
<1>2. CASE FailingChecks(checks) # {}
  BY <1>2, FirstFailingIsFirst DEF FoldChecks, FailingChecks
<1>3. QED
  BY <1>1, <1>2

(* A fold that returns a code none of its checks carries passed them all. *)
LEMMA FoldPasses ==
  ASSUME NEW checks, NEW otherwise, DOMAIN checks \subseteq Nat,
         \A n \in DOMAIN checks : checks[n].code # otherwise,
         FoldChecks(checks, otherwise) = otherwise
  PROVE  \A n \in DOMAIN checks : checks[n].passed
<1>1. SUFFICES ASSUME FailingChecks(checks) # {} PROVE FALSE
  BY DEF FailingChecks
<1>2. FirstFailing(checks) \in DOMAIN checks
  BY <1>1, FirstFailingIsFirst DEF FailingChecks
<1>3. QED
  BY <1>1, <1>2 DEF FoldChecks

(* The stateless checks answer with codes that deny. *)
LEMMA StatelessType ==
  ASSUME NEW r, NEW now
  PROVE  runStatelessChecks(r, now) \in {NoFailure} \cup StatelessCodes
<1> DEFINE quote == QuoteTerms[r.presented]
           checks ==
        << Check(r.agent \in Registered, "SEC-002"),
           Check(r.signed, "INT-001"),
           Check(now < r.expires, "INT-002"),
           Check(now < quote.expires, "INT-002"),
           Check(quote.mandate = r.mandate, "INT-004"),
           Check(r.amount = quote.amount, "INT-003"),
           Check(r.basket = quote.basket, "INT-003"),
           Check(r.quote = r.presented, "INT-004") >>
<1>1. DOMAIN checks = 1..8
  OBVIOUS
<1>2. \A n \in 1..8 : checks[n].code \in StatelessCodes
  BY DEF Check, StatelessCodes
<1>3. runStatelessChecks(r, now) = FoldChecks(checks, NoFailure)
  BY DEF runStatelessChecks
<1> HIDE DEF checks
<1>4. QED
  BY <1>1, <1>2, <1>3, FoldCode

(* An approval that is accepted passed every one of its checks. *)
LEMMA ApprovalPasses ==
  ASSUME NEW h, checkApproval(h) = "OK-000"
  PROVE  /\ mandates[reservations[call[h].intent].mandate] = "live"
         /\ call[h].now < Terms[reservations[call[h].intent].mandate].notAfter
         /\ reservations[call[h].intent].state = "held"
         /\ call[h].now < challenges[call[h].intent].expires
         /\ call[h].approve
<1> DEFINE c == call[h]
           row == reservations[c.intent]
           checks ==
        << Check(c.approve, "STP-001"),
           Check(c.challenge = "pending", "INT-002"),
           Check(c.now < challenges[c.intent].expires, "INT-002"),
           Check(mandates[row.mandate] # "revoked", "MND-003"),
           Check(mandates[row.mandate] = "live"
                   /\ c.now < Terms[row.mandate].notAfter, "MND-002"),
           Check(row.state = "held", "INT-002") >>
<1>1. DOMAIN checks = 1..6
  OBVIOUS
<1>2. \A n \in 1..6 : checks[n].code # "OK-000"
  BY DEF Check
<1>3. checkApproval(h) = FoldChecks(checks, "OK-000")
  BY DEF checkApproval
<1>4. /\ checks[5].passed = (mandates[row.mandate] = "live"
                               /\ c.now < Terms[row.mandate].notAfter)
      /\ checks[6].passed = (row.state = "held")
      /\ checks[1].passed = c.approve
      /\ checks[3].passed = (c.now < challenges[c.intent].expires)
  BY DEF Check
<1>5. \A n \in 1..6 : checks[n].passed
  <2> HIDE DEF checks
  <2>1. QED
    BY <1>1, <1>2, <1>3, FoldPasses
<1>6. checks[1].passed /\ checks[3].passed /\ checks[5].passed /\ checks[6].passed
  BY <1>5
<1>7. QED
  BY <1>4, <1>6
-----------------------------------------------------------------------------
(* The sums and counts. *)

(* Finitely many rows are counted. *)
LEMMA CountedFinite ==
  ASSUME NEW m, NEW since
  PROVE  IsFiniteSet(CountedSince(m, since))
  BY Assumption, FS_Subset DEF Assumption, CountedSince

(* The amounts of a well-typed table are naturals. *)
LEMMA AmountsType ==
  ASSUME TypeOK
  PROVE  \A i \in Intents : Amounts[i] \in Nat
  BY DEF TypeOK, Row, Amounts

(* The cumulative read returns a natural number. *)
LEMMA SumType ==
  ASSUME TypeOK, NEW m, NEW start
  PROVE  /\ sumReservedAndCaptured(m, start) \in Nat
         /\ countReservationsLastHour(m, start) \in Nat
<1>1. \A i \in CountedSince(m, start - Terms[m].window) : Amounts[i] \in Nat
  BY AmountsType DEF CountedSince
<1>2. QED
  BY <1>1, CountedFinite, TotalType, FS_CardinalityType
     DEF sumReservedAndCaptured, countReservationsLastHour
-----------------------------------------------------------------------------
(* Type correctness. *)

(* The initial state is well typed. *)
LEMMA TypeInit ==
  ASSUME Init
  PROVE  TypeOK
<1>1. NoRow \in Row
  BY DEF NoRow, Row, RowStates, Reasons
<1>2. NoChallenge \in Challenge
  BY DEF NoChallenge, Challenge
<1>3. NoCall \in Call
  BY DEF NoCall, Call, VerifierOutcomes
<1>4. NoRead \in Read
  BY DEF NoRead, Read
<1>5. 0 \in 0..MaxClock
  BY Assumption DEF Assumption
<1>6. QED
  BY <1>1, <1>2, <1>3, <1>4, <1>5 DEF Init, TypeOK

(* Leaving resets the handler's locals. *)
LEMMA LeaveType ==
  ASSUME TypeOK, NEW h \in Handlers, Leave(h)
  PROVE  /\ pc' \in [Handlers -> {"idle", "waiting", "locked", "approving", "granting", "settling"}]
         /\ call' \in [Handlers -> Call]
         /\ read' \in [Handlers -> Read]
<1>1. NoCall \in Call
  BY DEF NoCall, Call, VerifierOutcomes
<1>2. NoRead \in Read
  BY DEF NoRead, Read
<1>3. QED
  BY <1>1, <1>2 DEF TypeOK, Leave

(* Releasing a row changes its state and reason only. *)
LEMMA ReleasedRow ==
  ASSUME NEW row \in Row, NEW reason \in Reasons
  PROVE  /\ Released(row, reason) \in Row
         /\ Released(row, reason).state = "released"
         /\ Released(row, reason).mandate = row.mandate
         /\ Released(row, reason).amount = row.amount
         /\ Released(row, reason).created = row.created
<1> DEFINE half == [row EXCEPT !.state = "released"]
<1>1. /\ half \in Row /\ half.state = "released" /\ half.mandate = row.mandate
      /\ half.amount = row.amount /\ half.created = row.created
  BY DEF Row, RowStates
<1>2. Released(row, reason) = [half EXCEPT !.reason = reason]
  BY DEF Released
<1> HIDE DEF half
<1>3. /\ [half EXCEPT !.reason = reason] \in Row
      /\ [half EXCEPT !.reason = reason].state = half.state
      /\ [half EXCEPT !.reason = reason].mandate = half.mandate
      /\ [half EXCEPT !.reason = reason].amount = half.amount
      /\ [half EXCEPT !.reason = reason].created = half.created
  BY <1>1 DEF Row
<1>4. QED
  BY <1>1, <1>2, <1>3

(* Capturing a row changes its state only. *)
LEMMA CapturedRow ==
  ASSUME NEW row \in Row
  PROVE  /\ [row EXCEPT !.state = "captured"] \in Row
         /\ [row EXCEPT !.state = "captured"].mandate = row.mandate
         /\ [row EXCEPT !.state = "captured"].amount = row.amount
         /\ [row EXCEPT !.state = "captured"].created = row.created
  BY DEF Row, RowStates

(* A release writes a well-typed row. *)
LEMMA ReleaseType ==
  ASSUME TypeOK, NEW i \in Intents, NEW reason \in Reasons, releaseReservation(i, reason)
  PROVE  reservations' \in [Intents -> Row]
<1>1. reservations[i] \in Row
  BY DEF TypeOK
<1>2. Released(reservations[i], reason) \in Row
  BY <1>1, ReleasedRow
<1>3. QED
  BY <1>2 DEF TypeOK, releaseReservation

(* Every step keeps the state well typed. *)
LEMMA TypeStep ==
  ASSUME TypeOK, LocksHeld, [Next]_vars
  PROVE  TypeOK'
<1>1. ASSUME NEW h \in Handlers, NEW r \in Requests, NEW v \in Verifiers, Receive(h, r, v)
      PROVE  TypeOK'
  <2>1. v \in VerifierOutcomes
    BY Assumption DEF Assumption
  <2>2. runStatelessChecks(r, clock) \in {NoFailure} \cup StatelessCodes
    BY StatelessType
  <2>3. r.intent \in Intents
    BY RequestType
  <2>4. clock \in Nat
    BY Assumption DEF TypeOK, Assumption
  <2>5. call' \in [Handlers -> Call]
    BY <1>1, <2>1, <2>2, <2>3, <2>4 DEF TypeOK, Receive, NoCall, Call
  <2>6. QED
    BY <1>1, <2>5 DEF TypeOK, Receive, tables, jobs
<1>2. ASSUME NEW h \in Handlers, NEW i \in Intents, NEW b \in Answers,
             BeginApproval(h, i, b)
      PROVE  TypeOK'
  <2>1. b \in BOOLEAN
    BY Assumption DEF Assumption
  <2>2. clock \in Nat
    BY Assumption DEF TypeOK, Assumption
  <2>3. challenges[i].state \in {"none", "pending", "approved", "rejected", "expired"}
    BY DEF TypeOK, Challenge
  <2>4. call' \in [Handlers -> Call]
    BY <1>2, <2>1, <2>2, <2>3 DEF TypeOK, BeginApproval, NoCall, Call, VerifierOutcomes
  <2>5. QED
    BY <1>2, <2>4 DEF TypeOK, BeginApproval, tables, jobs
<1>3. ASSUME NEW h \in Handlers, UnknownMandate(h)
      PROVE  TypeOK'
  BY <1>3, LeaveType DEF TypeOK, UnknownMandate, tables, jobs
<1>4. ASSUME NEW h \in Handlers, LockMandate(h)
      PROVE  TypeOK'
  <2> DEFINE r == call[h].req
  <2>1. r \in Requests /\ r.mandate \in Mandates
    BY <1>4 DEF LockMandate, LocksHeld
  <2>2. /\ sumReservedAndCaptured(r.mandate, call[h].start) \in Nat
        /\ countReservationsLastHour(r.mandate, call[h].start) \in Nat
    BY SumType
  <2>3. hasCapturedAtMerchant(r.mandate, r.merchant) \in BOOLEAN
    BY DEF hasCapturedAtMerchant
  <2>4. mandates[r.mandate] \in {"live", "revoked", "expired"}
    BY <2>1 DEF TypeOK
  <2>5. read' \in [Handlers -> Read]
    BY <1>4, <2>2, <2>3, <2>4 DEF TypeOK, LockMandate, Read
  <2>6. QED
    BY <1>4, <2>1, <2>5 DEF TypeOK, LockMandate, tables, jobs
<1>5. ASSUME NEW h \in Handlers, CommitDeny(h)
      PROVE  TypeOK'
  <2>1. call[h].req.nonce \in Nonces /\ call[h].intent \in Intents
    BY <1>5, RequestType DEF CommitDeny, LocksHeld
  <2>2. nonces' \in [Nonces -> Intents \cup {None}]
    BY <1>5, <2>1 DEF TypeOK, CommitDeny, Burn
  <2>3. QED
    BY <1>5, <2>2, LeaveType DEF TypeOK, CommitDeny, jobs
<1>6. ASSUME NEW h \in Handlers, CommitHold(h)
      PROVE  TypeOK'
  <2> DEFINE r == call[h].req
  <2>1. /\ r \in Requests /\ r.mandate \in Mandates /\ r.intent \in Intents
        /\ r.nonce \in Nonces /\ r.quote \in Quotes /\ call[h].intent = r.intent
        /\ r.merchant \in STRING /\ r.amount \in Nat
    BY <1>6, RequestType DEF CommitHold, LocksHeld
  <2>2. nonces' \in [Nonces -> Intents \cup {None}]
    BY <1>6, <2>1 DEF TypeOK, CommitHold, Burn
  <2>3. call[h].start \in Nat /\ call[h].now \in Nat
    BY DEF TypeOK, Call
  <2>4. (Verdict(Facts(h)) = "STEP_UP") \in BOOLEAN
    OBVIOUS
  <2>5. reservations' \in [Intents -> Row]
    BY <1>6, <2>1, <2>3, <2>4 DEF TypeOK, CommitHold, Row, RowStates, Reasons
  <2>6. quotes' \in [Quotes -> Intents \cup {None}]
    BY <1>6, <2>1 DEF TypeOK, CommitHold
  <2>7. call[h].now + ChallengeTtl \in Nat
    BY <2>3, Assumption DEF Assumption
  <2>8. lock' \in [Mandates -> Handlers \cup {None}]
    BY <1>6 DEF TypeOK, CommitHold
  <2>9. CASE Verdict(Facts(h)) = "STEP_UP"
    <3>1. challenges' \in [Intents -> Challenge]
      BY <1>6, <2>7, <2>9 DEF TypeOK, CommitHold, Challenge
    <3>2. Leave(h) /\ UNCHANGED <<allows, clock, mandates, ordered, jobs>>
      BY <1>6, <2>9 DEF CommitHold
    <3>3. QED
      BY <2>2, <2>5, <2>6, <2>8, <3>1, <3>2, LeaveType DEF TypeOK, jobs
  <2>10. CASE Verdict(Facts(h)) # "STEP_UP"
    <3>1. /\ pc' = [pc EXCEPT ![h] = "settling"]
          /\ read' = [read EXCEPT ![h] = NoRead]
          /\ allows' = [allows EXCEPT ![r.intent] = @ + 1]
          /\ UNCHANGED <<challenges, call, clock, mandates, ordered, jobs>>
      BY <1>6, <2>10 DEF CommitHold
    <3>2. read' \in [Handlers -> Read]
      BY <3>1 DEF TypeOK, NoRead, Read
    <3>3. allows' \in [Intents -> Nat]
      BY <2>1, <3>1 DEF TypeOK
    <3>4. QED
      BY <2>2, <2>5, <2>6, <2>8, <3>1, <3>2, <3>3 DEF TypeOK, jobs
  <2>11. QED
    BY <2>9, <2>10
<1>7. ASSUME NEW h \in Handlers, CommitConflict(h)
      PROVE  TypeOK'
  BY <1>7, LeaveType DEF TypeOK, CommitConflict, tables, jobs
<1>8. ASSUME NEW h \in Handlers, Approve(h)
      PROVE  TypeOK'
  <2>1. call[h].intent \in Intents
    BY <1>8 DEF Approve, LocksHeld
  <2>2. challenges' \in [Intents -> Challenge]
    BY <1>8, <2>1 DEF TypeOK, Approve, resolveChallenge, Challenge
  <2>3. allows' \in [Intents -> Nat]
    BY <1>8, <2>1 DEF TypeOK, Approve
  <2>4. lock' \in [Mandates -> Handlers \cup {None}]
    BY <1>8 DEF TypeOK, Approve
  <2>5. QED
    BY <1>8, <2>2, <2>3, <2>4 DEF TypeOK, Approve, jobs
<1>24. ASSUME NEW h \in Handlers, LockApproval(h)
       PROVE  TypeOK'
  BY <1>24 DEF TypeOK, LockApproval, tables, jobs
<1>9. ASSUME NEW h \in Handlers, RefuseApproval(h)
      PROVE  TypeOK'
  <2> DEFINE i == call[h].intent
  <2>1. i \in Intents
    BY <1>9 DEF RefuseApproval, LocksHeld
  <2>2. challenges' \in [Intents -> Challenge]
    BY <1>9, <2>1 DEF TypeOK, RefuseApproval, resolveChallenge, Challenge
  <2>3. Released(reservations[i], "step_up_abandoned") \in Row
    BY <2>1, ReleasedRow DEF TypeOK, Reasons
  <2>4. reservations' \in [Intents -> Row]
    BY <1>9, <2>3 DEF TypeOK, RefuseApproval
  <2>5. QED
    BY <1>9, <2>2, <2>4, LeaveType DEF TypeOK, RefuseApproval, jobs
<1>10. ASSUME NEW h \in Handlers, RetryLock(h)
       PROVE  TypeOK'
  <2>1. clock \in Nat
    BY Assumption DEF TypeOK, Assumption
  <2>2. pc[h] = "approving" =>
          challenges[call[h].intent].state \in
            {"none", "pending", "approved", "rejected", "expired"}
    BY DEF TypeOK, LocksHeld, Challenge
  <2> DEFINE challenge == IF pc[h] = "approving"
                          THEN challenges[call[h].intent].state
                          ELSE call[h].challenge
             again == [call[h] EXCEPT !.attempts = @ + 1]
             anew == [again EXCEPT !.start = clock]
  <2>3. call[h] \in Call
    BY DEF TypeOK
  <2>4. again \in Call /\ again.challenge = call[h].challenge
    BY <2>3 DEF Call
  <2>5. anew \in Call /\ anew.challenge = call[h].challenge
    <3> HIDE DEF again
    <3>1. QED
      BY <2>1, <2>4 DEF Call
  <2>6. challenge \in {"none", "pending", "approved", "rejected", "expired"}
    BY <2>2, <2>3 DEF Call
  <2>7. [anew EXCEPT !.challenge = challenge] \in Call
    <3> HIDE DEF anew, challenge
    <3>1. QED
      BY <2>5, <2>6 DEF Call
  <2>8. h \in DOMAIN call /\ call' = [call EXCEPT ![h] = [anew EXCEPT !.challenge = challenge]]
    BY <1>10 DEF TypeOK, RetryLock
  <2>9. call' \in [Handlers -> Call]
    <3> HIDE DEF anew, challenge
    <3>1. QED
      BY <2>7, <2>8 DEF TypeOK
  <2>10. QED
    BY <1>10, <2>9 DEF TypeOK, RetryLock, tables, jobs
<1>11. ASSUME NEW h \in Handlers, GiveUpLock(h)
       PROVE  TypeOK'
  BY <1>11, LeaveType DEF TypeOK, GiveUpLock, tables, jobs
<1>12. ASSUME NEW h \in Handlers, Settle(h)
       PROVE  TypeOK'
  BY <1>12, LeaveType DEF TypeOK, Settle, LocksHeld, jobs
<1>13. ASSUME NEW h \in Handlers, Crash(h)
       PROVE  TypeOK'
  BY <1>13, LeaveType DEF TypeOK, Crash, tables, jobs
<1>14. ASSUME NEW m \in Mandates, Revoke(m)
       PROVE  TypeOK'
  BY <1>14 DEF TypeOK, Revoke, locals, jobs
<1>15. CASE ExpireMandates
  BY <1>15 DEF TypeOK, ExpireMandates, locals, jobs
<1>16. CASE ScanChallenges \/ ScanReservations \/ WorkerCrash
  BY <1>16 DEF TypeOK, ScanChallenges, ScanReservations, WorkerCrash, tables, locals
<1>17. ASSUME NEW i \in Intents, ExpireChallenge(i)
       PROVE  TypeOK'
  <2>1. reservations' \in [Intents -> Row]
    BY <1>17, ReleaseType DEF ExpireChallenge, Reasons
  <2>2. challenges' \in [Intents -> Challenge]
    BY <1>17 DEF TypeOK, ExpireChallenge, Challenge
  <2>3. QED
    BY <1>17, <2>1, <2>2 DEF TypeOK, ExpireChallenge, locals
<1>18. ASSUME NEW i \in Intents, Reap(i)
       PROVE  TypeOK'
  <2>1. reservations' \in [Intents -> Row]
    BY <1>18, ReleaseType DEF TypeOK, Reap, Reasons
  <2>2. QED
    BY <1>18, <2>1 DEF TypeOK, Reap, locals
<1>19. ASSUME NEW i \in Intents, captureReservation(i)
       PROVE  TypeOK'
  <2>1. reservations' \in [Intents -> Row]
    BY <1>19, CapturedRow DEF TypeOK, captureReservation
  <2>2. QED
    BY <1>19, <2>1 DEF TypeOK, captureReservation, locals, jobs
<1>20. ASSUME NEW i \in Intents, releaseSettled(i)
       PROVE  TypeOK'
  <2>1. reservations' \in [Intents -> Row]
    BY <1>20, ReleaseType DEF releaseSettled, Reasons
  <2>2. QED
    BY <1>20, <2>1 DEF TypeOK, releaseSettled, locals, jobs
<1>21. CASE Tick
  BY <1>21, Assumption DEF Assumption, TypeOK, Tick, tables, locals, jobs
<1>22. CASE UNCHANGED vars
  BY <1>22 DEF TypeOK, vars, tables, locals, jobs
<1>23. QED
  BY <1>1, <1>2, <1>3, <1>4, <1>5, <1>6, <1>7, <1>8, <1>9, <1>10, <1>11, <1>12,
     <1>13, <1>14, <1>15, <1>16, <1>17, <1>18, <1>19, <1>20, <1>21, <1>22, <1>24
     DEF Next, HandlerStep
-----------------------------------------------------------------------------
(* Sums over the table as a value: the same sums the model takes of the    *)
(* variable `reservations', stated for any two contents of the table.      *)

CountedIn(rows, m, since) ==
  {i \in Intents : rows[i].mandate = m /\ Counts(rows[i]) /\ rows[i].created > since}

AmountIn(rows) == [i \in Intents |-> rows[i].amount]

WindowIn(rows, m, t, width) ==
  {i \in CountedIn(rows, m, t - width) : rows[i].created <= t}

(* Every row that counts for m in `after' counted for it in `before'. *)
NoNewRow(m, before, after) ==
  \A i \in Intents : after[i].mandate = m /\ Counts(after[i]) =>
    /\ before[i].mandate = m /\ Counts(before[i])
    /\ after[i].amount = before[i].amount /\ after[i].created = before[i].created

(* A sum or count over fewer rows, whose amounts did not change, is not    *)
(* larger.                                                                 *)
LEMMA FewerRows ==
  ASSUME NEW before \in [Intents -> Row], NEW after \in [Intents -> Row],
         NEW R, NEW S, S \subseteq Intents, R \subseteq S,
         \A i \in R : after[i].amount = before[i].amount
  PROVE  /\ Total(AmountIn(after), R) <= Total(AmountIn(before), S)
         /\ Cardinality(R) <= Cardinality(S)
<1>1. IsFiniteSet(S)
  BY Assumption, FS_Subset DEF Assumption
<1>2. \A i \in S : AmountIn(before)[i] \in Nat
  BY DEF AmountIn, Row
<1>3. Total(AmountIn(after), R) = Total(AmountIn(before), R)
  <2>1. \A i \in R : AmountIn(after)[i] = AmountIn(before)[i]
    BY DEF AmountIn
  <2>2. QED
    BY <2>1, TotalCongruence
<1>4. Total(AmountIn(before), R) <= Total(AmountIn(before), S)
  BY <1>1, <1>2, TotalMonotone
<1>5. Cardinality(R) <= Cardinality(S)
  BY <1>1, FS_Subset
<1>6. QED
  BY <1>3, <1>4, <1>5

(* While no row is added for m, what is counted since any moment and in    *)
(* any window only falls.                                                  *)
LEMMA SumsFall ==
  ASSUME NEW before \in [Intents -> Row], NEW after \in [Intents -> Row],
         NEW m, NoNewRow(m, before, after), NEW since
  PROVE  /\ Total(AmountIn(after), CountedIn(after, m, since))
               <= Total(AmountIn(before), CountedIn(before, m, since))
         /\ Cardinality(CountedIn(after, m, since))
               <= Cardinality(CountedIn(before, m, since))
<1> DEFINE R == CountedIn(after, m, since)
           S == CountedIn(before, m, since)
<1>1. S \subseteq Intents /\ R \subseteq S
  BY DEF CountedIn, NoNewRow
<1>2. \A i \in R : after[i].amount = before[i].amount
  BY DEF CountedIn, NoNewRow
<1> HIDE DEF R, S
<1>3. /\ Total(AmountIn(after), R) <= Total(AmountIn(before), S)
      /\ Cardinality(R) <= Cardinality(S)
  BY <1>1, <1>2, FewerRows
<1>4. QED
  BY <1>3 DEF R, S

(* With fewer counted rows, every window counts and sums to less. *)
LEMMA WindowsFall ==
  ASSUME NEW before \in [Intents -> Row], NEW after \in [Intents -> Row],
         NEW m, NoNewRow(m, before, after), NEW t, NEW width
  PROVE  /\ Total(AmountIn(after), WindowIn(after, m, t, width))
               <= Total(AmountIn(before), WindowIn(before, m, t, width))
         /\ Cardinality(WindowIn(after, m, t, width))
               <= Cardinality(WindowIn(before, m, t, width))
<1> DEFINE R == WindowIn(after, m, t, width)
           S == WindowIn(before, m, t, width)
<1>1. S \subseteq Intents /\ R \subseteq S
  BY DEF WindowIn, CountedIn, NoNewRow
<1>2. \A i \in R : after[i].amount = before[i].amount
  BY DEF WindowIn, CountedIn, NoNewRow
<1> HIDE DEF R, S
<1>3. /\ Total(AmountIn(after), R) <= Total(AmountIn(before), S)
      /\ Cardinality(R) <= Cardinality(S)
  BY <1>1, <1>2, FewerRows
<1>4. QED
  BY <1>3 DEF R, S

(* The insert: a window that holds the new row ends no earlier than it, so *)
(* its other rows were all counted when the sum was read.                  *)
LEMMA InsertedWindow ==
  ASSUME NEW before \in [Intents -> Row], NEW i \in Intents, NEW row \in Row,
         NEW m, NEW width \in Nat, NEW t \in Nat,
         ~Counts(before[i]),
         i \in WindowIn([before EXCEPT ![i] = row], m, t, width)
  PROVE  LET after == [before EXCEPT ![i] = row]
             S == CountedIn(before, m, row.created - width)
         IN  /\ Total(AmountIn(after), WindowIn(after, m, t, width))
                   <= Total(AmountIn(before), S) + row.amount
             /\ Cardinality(WindowIn(after, m, t, width)) <= Cardinality(S) + 1
<1> DEFINE after == [before EXCEPT ![i] = row]
           S == CountedIn(before, m, row.created - width)
           R == WindowIn(after, m, t, width)
<1>1. after \in [Intents -> Row] /\ after[i] = row /\ row.amount \in Nat /\ row.created \in Nat
  BY DEF Row
<1>2. i \notin S /\ S \subseteq Intents
  BY DEF CountedIn
<1>3. row.created <= t
  BY <1>1 DEF WindowIn
<1>4. R \subseteq S \cup {i}
  <2>1. SUFFICES ASSUME NEW j \in R, j # i PROVE j \in S
    OBVIOUS
  <2>2. j \in Intents /\ after[j] = before[j]
    BY <2>1 DEF WindowIn, CountedIn
  <2>3. before[j].created \in Nat
    BY <2>2 DEF Row
  <2>4. before[j].created > t - width /\ before[j].mandate = m /\ Counts(before[j])
    BY <2>1, <2>2 DEF WindowIn, CountedIn
  <2>5. before[j].created > row.created - width
    BY <1>1, <1>3, <2>3, <2>4
  <2>6. QED
    BY <2>2, <2>4, <2>5 DEF CountedIn
<1>5. IsFiniteSet(S)
  BY <1>2, Assumption, FS_Subset DEF Assumption
<1>6. \A j \in S \cup {i} : AmountIn(after)[j] \in Nat
  BY <1>1, <1>2 DEF AmountIn, Row
<1>7. \A j \in S : AmountIn(after)[j] = AmountIn(before)[j]
  BY <1>2 DEF AmountIn
<1>8. AmountIn(after)[i] = row.amount
  BY <1>1 DEF AmountIn
<1> HIDE DEF after, S, R
<1>9. IsFiniteSet(S \cup {i}) /\ Cardinality(S \cup {i}) = Cardinality(S) + 1
  BY <1>2, <1>5, FS_AddElement
<1>10. Cardinality(R) <= Cardinality(S) + 1
  BY <1>4, <1>9, FS_Subset
<1>11. Total(AmountIn(after), S \cup {i}) = Total(AmountIn(after), S) + row.amount
  <2> DEFINE f == AmountIn(after)
  <2>1. i \notin S /\ \A j \in S \cup {i} : f[j] \in Nat
    BY <1>2, <1>6
  <2> HIDE DEF f
  <2>2. Total(f, S \cup {i}) = Total(f, S) + f[i]
    BY <1>5, <2>1, TotalAdd
  <2>3. QED
    BY <1>8, <2>2 DEF f
<1>12. Total(AmountIn(after), S) = Total(AmountIn(before), S)
  BY <1>7, TotalCongruence
<1>13. Total(AmountIn(after), R) <= Total(AmountIn(after), S \cup {i})
  BY <1>4, <1>6, <1>9, TotalMonotone
<1>14. QED
  BY <1>10, <1>11, <1>12, <1>13 DEF after, S, R
-----------------------------------------------------------------------------
(* What a step does to the table of reservations. *)

(* A released row counts for nobody. *)
LEMMA ReleaseAddsNoRow ==
  ASSUME TypeOK, NEW i \in Intents, NEW reason \in Reasons, NEW m,
         reservations' = [reservations EXCEPT ![i] = Released(@, reason)]
           \/ reservations' = reservations
  PROVE  NoNewRow(m, reservations, reservations')
<1>1. reservations[i] \in Row
  BY DEF TypeOK
<1>2. ~Counts(Released(reservations[i], reason))
  BY <1>1, ReleasedRow DEF Counts
<1>3. QED
  BY <1>2 DEF TypeOK, NoNewRow

(* Only CommitHold makes a row count, and only for its own mandate. *)
LEMMA RowsStep ==
  ASSUME TypeOK, LocksHeld, [Next]_vars, NEW m
  PROVE  \/ NoNewRow(m, reservations, reservations')
         \/ \E h \in Handlers : CommitHold(h) /\ call[h].req.mandate = m
<1> DEFINE Goal == NoNewRow(m, reservations, reservations')
<1>1. ASSUME UNCHANGED reservations
      PROVE  Goal
  BY <1>1 DEF NoNewRow
<1>2. ASSUME NEW h \in Handlers, CommitHold(h), call[h].req.mandate # m
      PROVE  Goal
  <2> DEFINE r == call[h].req
             row == reservations'[r.intent]
  <2>1. r.intent \in Intents
    BY <1>2, RequestType DEF CommitHold, LocksHeld
  <2>2. row.mandate # m /\ \A i \in Intents \ {r.intent} : reservations'[i] = reservations[i]
    BY <1>2, <2>1 DEF TypeOK, CommitHold
  <2>3. QED
    BY <2>2 DEF NoNewRow
<1>3. ASSUME NEW h \in Handlers, RefuseApproval(h)
      PROVE  Goal
  <2>1. call[h].intent \in Intents
    BY <1>3 DEF RefuseApproval, LocksHeld
  <2>2. \/ reservations' = [reservations EXCEPT ![call[h].intent] =
                               Released(@, "step_up_abandoned")]
        \/ reservations' = reservations
    BY <1>3 DEF TypeOK, RefuseApproval
  <2>3. QED
    BY <2>1, <2>2, ReleaseAddsNoRow DEF Reasons
<1>4. ASSUME NEW i \in Intents, NEW reason \in Reasons, releaseReservation(i, reason)
      PROVE  Goal
  <2>1. \/ reservations' = [reservations EXCEPT ![i] = Released(@, reason)]
        \/ reservations' = reservations
    BY <1>4 DEF TypeOK, releaseReservation
  <2>2. QED
    BY <2>1, ReleaseAddsNoRow
<1>5. ASSUME NEW i \in Intents, captureReservation(i)
      PROVE  Goal
  <2>1. reservations[i] \in Row
    BY DEF TypeOK
  <2>2. reservations' = [reservations EXCEPT ![i] = [reservations[i] EXCEPT !.state = "captured"]]
    BY <1>5 DEF captureReservation
  <2>3. Counts(reservations[i])
    BY <1>5 DEF captureReservation, Counts
  <2>4. QED
    BY <2>1, <2>2, <2>3, CapturedRow DEF TypeOK, NoNewRow
<1>6. ASSUME NEW i \in Intents, ExpireChallenge(i) \/ Reap(i) \/ releaseSettled(i)
      PROVE  Goal
  <2>1. \/ UNCHANGED reservations
        \/ \E reason \in Reasons : releaseReservation(i, reason)
    BY <1>6 DEF ExpireChallenge, Reap, releaseSettled, Reasons
  <2>2. QED
    BY <1>1, <1>4, <2>1
<1>7. ASSUME NEW h \in Handlers,
             \/ \E r \in Requests, v \in Verifiers : Receive(h, r, v)
             \/ \E i \in Intents, b \in Answers : BeginApproval(h, i, b)
             \/ UnknownMandate(h) \/ LockMandate(h) \/ CommitDeny(h) \/ CommitConflict(h)
             \/ LockApproval(h) \/ Approve(h) \/ RetryLock(h) \/ GiveUpLock(h)
             \/ Settle(h) \/ Crash(h)
      PROVE  Goal
  BY <1>1, <1>7 DEF Receive, BeginApproval, UnknownMandate, LockMandate, CommitDeny,
     CommitConflict, LockApproval, Approve, RetryLock, GiveUpLock, Settle, Crash, tables
<1>8. ASSUME \/ \E k \in Mandates : Revoke(k)
             \/ ExpireMandates \/ ScanChallenges \/ ScanReservations \/ WorkerCrash
             \/ Tick \/ UNCHANGED vars
      PROVE  Goal
  BY <1>1, <1>8 DEF Revoke, ExpireMandates, ScanChallenges, ScanReservations,
     WorkerCrash, Tick, tables, vars
<1>9. QED
  BY <1>2, <1>3, <1>5, <1>6, <1>7, <1>8 DEF Next, HandlerStep
-----------------------------------------------------------------------------
(* What a step does to one row of the table of reservations. *)

(* A row is inserted by CommitHold, released while it counts, captured     *)
(* while it is held, and otherwise left alone.                             *)
LEMMA RowMoves ==
  ASSUME TypeOK, LocksHeld, [Next]_vars, NEW i \in Intents
  PROVE  \/ reservations'[i] = reservations[i]
         \/ \E h \in Handlers : CommitHold(h) /\ call[h].req.intent = i
         \/ /\ Counts(reservations[i]) /\ Free(reservations[i].mandate)
            /\ reservations'[i] = Released(reservations[i], "step_up_abandoned")
         \/ /\ Counts(reservations[i]) /\ i \in ordered
            /\ reservations'[i] = Released(reservations[i], "payment_failed")
         \/ /\ Counts(reservations[i]) /\ Reap(i) /\ i \notin ordered
            /\ reservations'[i] = Released(reservations[i], "reaped")
         \/ /\ reservations[i].state = "held" /\ i \in ordered
            /\ reservations'[i] = [reservations[i] EXCEPT !.state = "captured"]
<1> DEFINE Left == reservations'[i] = reservations[i]
           Inserted == \E h \in Handlers : CommitHold(h) /\ call[h].req.intent = i
           Dropped == /\ Counts(reservations[i]) /\ Free(reservations[i].mandate)
                      /\ reservations'[i] = Released(reservations[i], "step_up_abandoned")
           Failed == /\ Counts(reservations[i]) /\ i \in ordered
                     /\ reservations'[i] = Released(reservations[i], "payment_failed")
           Reaped == /\ Counts(reservations[i]) /\ Reap(i) /\ i \notin ordered
                     /\ reservations'[i] = Released(reservations[i], "reaped")
           Captured == /\ reservations[i].state = "held" /\ i \in ordered
                       /\ reservations'[i] = [reservations[i] EXCEPT !.state = "captured"]
           Goal == Left \/ Inserted \/ Dropped \/ Failed \/ Reaped \/ Captured
<1>1. ASSUME UNCHANGED reservations
      PROVE  Left
  BY <1>1
<1>2. ASSUME NEW h \in Handlers, CommitHold(h)
      PROVE  Left \/ Inserted
  <2>1. call[h].req.intent \in Intents
    BY <1>2, RequestType DEF CommitHold, LocksHeld
  <2>2. \A j \in Intents \ {call[h].req.intent} : reservations'[j] = reservations[j]
    BY <1>2, <2>1 DEF TypeOK, CommitHold
  <2>3. QED
    BY <1>2, <2>2
<1>3. ASSUME NEW h \in Handlers, RefuseApproval(h)
      PROVE  Left \/ Dropped
  BY <1>3 DEF TypeOK, RefuseApproval, Counts
<1>4. ASSUME NEW j \in Intents, NEW reason, releaseReservation(j, reason)
      PROVE  \/ Left
             \/ /\ j = i /\ Counts(reservations[i])
                /\ reservations'[i] = Released(reservations[i], reason)
  BY <1>4 DEF TypeOK, releaseReservation
<1>5. ASSUME NEW j \in Intents, ExpireChallenge(j) \/ releaseSettled(j)
      PROVE  Left \/ Dropped \/ Failed
  BY <1>4, <1>5 DEF ExpireChallenge, releaseSettled
<1>6. ASSUME NEW j \in Intents, Reap(j)
      PROVE  Left \/ Reaped
  BY <1>4, <1>6 DEF Reap
<1>7. ASSUME NEW j \in Intents, captureReservation(j)
      PROVE  Left \/ Captured
  BY <1>7 DEF TypeOK, captureReservation
<1>8. ASSUME NEW h \in Handlers,
             \/ \E r \in Requests, v \in Verifiers : Receive(h, r, v)
             \/ \E k \in Intents, b \in Answers : BeginApproval(h, k, b)
             \/ UnknownMandate(h) \/ LockMandate(h) \/ CommitDeny(h) \/ CommitConflict(h)
             \/ LockApproval(h) \/ Approve(h) \/ RetryLock(h) \/ GiveUpLock(h)
             \/ Settle(h) \/ Crash(h)
      PROVE  Left
  BY <1>1, <1>8 DEF Receive, BeginApproval, UnknownMandate, LockMandate, CommitDeny,
     CommitConflict, LockApproval, Approve, RetryLock, GiveUpLock, Settle, Crash, tables
<1>9. ASSUME \/ \E k \in Mandates : Revoke(k)
             \/ ExpireMandates \/ ScanChallenges \/ ScanReservations \/ WorkerCrash
             \/ Tick \/ UNCHANGED vars
      PROVE  Left
  BY <1>1, <1>9 DEF Revoke, ExpireMandates, ScanChallenges, ScanReservations,
     WorkerCrash, Tick, tables, vars
<1> HIDE DEF Left, Inserted, Dropped, Failed, Reaped, Captured
<1>10. Goal
  BY <1>2, <1>3, <1>5, <1>6, <1>7, <1>8, <1>9 DEF Next, HandlerStep
<1>11. QED
  BY <1>10 DEF Left, Inserted, Dropped, Failed, Reaped, Captured

(* Only an intent without a reservation gets one. *)
LEMMA InsertedOnce ==
  ASSUME TypeOK, LocksHeld, NEW h \in Handlers, CommitHold(h)
  PROVE  /\ call[h].req \in Requests /\ call[h].intent = call[h].req.intent
         /\ call[h].req.intent \in Intents
         /\ reservations[call[h].req.intent] = NoRow
         /\ quotes[call[h].req.quote] = None
<1>1. /\ call[h].req \in Requests /\ call[h].intent = call[h].req.intent
      /\ call[h].req.intent \in Intents
  BY RequestType DEF CommitHold, LocksHeld
<1>2. ~WriteConflict(h)
  BY DEF CommitHold
<1>3. QED
  BY <1>1, <1>2 DEF WriteConflict

(* A row that is there keeps its mandate, amount and time; it is marked as *)
(* reaped only by the reaper, which has looked for an order.               *)
LEMMA RowKept ==
  ASSUME TypeOK, LocksHeld, [Next]_vars, NEW i \in Intents, reservations[i] # NoRow
  PROVE  /\ reservations'[i] # NoRow
         /\ reservations[i].state # "none" => reservations'[i].state # "none"
         /\ reservations'[i].mandate = reservations[i].mandate
         /\ reservations'[i].amount = reservations[i].amount
         /\ reservations'[i].created = reservations[i].created
         /\ \/ reservations'[i].reason = reservations[i].reason
            \/ reservations'[i].reason # "reaped"
            \/ Reap(i) /\ i \notin ordered
<1>1. reservations[i] \in Row
  BY DEF TypeOK
<1>2. CASE reservations'[i] = reservations[i]
  BY <1>2
<1>3. ASSUME NEW h \in Handlers, CommitHold(h), call[h].req.intent = i
      PROVE  FALSE
  BY <1>3, InsertedOnce
<1>4. ASSUME NEW reason \in Reasons, reservations'[i] = Released(reservations[i], reason)
      PROVE  /\ reservations'[i].state = "released"
             /\ reservations'[i].reason = reason
             /\ reservations'[i].mandate = reservations[i].mandate
             /\ reservations'[i].amount = reservations[i].amount
             /\ reservations'[i].created = reservations[i].created
  <2>1. Released(reservations[i], reason).reason = reason
    BY <1>1, ReleasedRow DEF Released, Row
  <2>2. QED
    BY <1>1, <1>4, <2>1, ReleasedRow
<1>5. ASSUME NEW reason \in {"step_up_abandoned", "payment_failed"},
             reservations'[i] = Released(reservations[i], reason)
      PROVE  /\ reservations'[i].state = "released" /\ reservations'[i].reason # "reaped"
             /\ reservations'[i].mandate = reservations[i].mandate
             /\ reservations'[i].amount = reservations[i].amount
             /\ reservations'[i].created = reservations[i].created
  <2>1. reason \in Reasons /\ reason # "reaped"
    BY DEF Reasons
  <2>2. QED
    BY <1>4, <1>5, <2>1
<1>6. CASE Reap(i) /\ i \notin ordered /\ reservations'[i] = Released(reservations[i], "reaped")
  <2>1. "reaped" \in Reasons
    BY DEF Reasons
  <2>2. QED
    BY <1>4, <1>6, <2>1 DEF NoRow
<1>7. CASE reservations'[i] = [reservations[i] EXCEPT !.state = "captured"]
  BY <1>1, <1>7 DEF Row, NoRow
<1>8. NoRow.state = "none"
  BY DEF NoRow
<1>9. QED
  BY <1>2, <1>3, <1>5, <1>6, <1>7, <1>8, RowMoves
-----------------------------------------------------------------------------
(* Time, orders, scans and deadlines. *)

(* Time only passes, and each of the tables the reaper depends on has one  *)
(* writer: an order is inserted by Settle, a row is scanned by the job, a  *)
(* challenge's deadline is set with its hold.                              *)
LEMMA ReaperStep ==
  ASSUME TypeOK, LocksHeld, [Next]_vars
  PROVE  /\ clock' = clock \/ clock' = clock + 1
         /\ ordered' = ordered
              \/ \E h \in Handlers : Settle(h) /\ UNCHANGED <<clock, reservations, reaping>>
         /\ reaping' \subseteq reaping \/ ScanReservations
         /\ \A i \in Intents : \/ challenges'[i].expires = challenges[i].expires
                               \/ \E h \in Handlers :
                                    /\ CommitHold(h) /\ call[h].req.intent = i
                                    /\ challenges'[i].expires = call[h].now + ChallengeTtl
<1> DEFINE Clock == clock' = clock \/ clock' = clock + 1
           Orders == ordered' = ordered
              \/ \E h \in Handlers : Settle(h) /\ UNCHANGED <<clock, reservations, reaping>>
           Scans == reaping' \subseteq reaping \/ ScanReservations
           Deadlines ==
             \A i \in Intents : \/ challenges'[i].expires = challenges[i].expires
                                \/ \E h \in Handlers :
                                     /\ CommitHold(h) /\ call[h].req.intent = i
                                     /\ challenges'[i].expires = call[h].now + ChallengeTtl
           Goal == Clock /\ Orders /\ Scans /\ Deadlines
<1>1. challenges \in [Intents -> Challenge]
  BY DEF TypeOK
<1>2. ASSUME UNCHANGED <<clock, ordered, reaping, challenges>>
      PROVE  Goal
  BY <1>2
<1>3. ASSUME NEW h \in Handlers,
             \/ \E r \in Requests, v \in Verifiers : Receive(h, r, v)
             \/ \E k \in Intents, b \in Answers : BeginApproval(h, k, b)
             \/ UnknownMandate(h) \/ LockMandate(h) \/ CommitDeny(h) \/ CommitConflict(h)
             \/ LockApproval(h) \/ RetryLock(h) \/ GiveUpLock(h) \/ Crash(h)
      PROVE  Goal
  <2>1. UNCHANGED <<clock, ordered, reaping, challenges>>
    BY <1>3 DEF Receive, BeginApproval, UnknownMandate, LockMandate, CommitDeny,
       CommitConflict, LockApproval, RetryLock, GiveUpLock, Crash, tables, jobs
  <2>2. QED
    BY <1>2, <2>1
<1>4. ASSUME NEW h \in Handlers, CommitHold(h)
      PROVE  Goal
  <2>1. UNCHANGED <<clock, ordered, reaping>>
    BY <1>4 DEF CommitHold, jobs
  <2>2. \/ UNCHANGED challenges
        \/ challenges' = [challenges EXCEPT ![call[h].req.intent] =
             [state |-> "pending", expires |-> call[h].now + ChallengeTtl]]
    BY <1>4 DEF CommitHold
  <2>3. ASSUME NEW i \in Intents
        PROVE  \/ challenges'[i].expires = challenges[i].expires
               \/ /\ call[h].req.intent = i
                  /\ challenges'[i].expires = call[h].now + ChallengeTtl
    BY <1>1, <2>2
  <2>4. Deadlines
    BY <1>4, <2>3
  <2>5. QED
    BY <2>1, <2>4
<1>5. ASSUME UNCHANGED <<clock, ordered>>, reaping' \subseteq reaping,
             NEW j \in Intents, NEW state,
             challenges' = [challenges EXCEPT ![j].state = state]
      PROVE  Goal
  <2>1. \A i \in Intents : challenges'[i].expires = challenges[i].expires
    BY <1>1, <1>5 DEF Challenge
  <2>2. QED
    BY <1>5, <2>1
<1>6. ASSUME NEW h \in Handlers, Approve(h) \/ RefuseApproval(h)
      PROVE  Goal
  <2>1. call[h].intent \in Intents /\ UNCHANGED <<clock, ordered, reaping>>
    BY <1>6 DEF Approve, RefuseApproval, LocksHeld, jobs
  <2>2. \E state : resolveChallenge(call[h].intent, state)
    BY <1>6 DEF Approve, RefuseApproval
  <2>3. \E state : challenges' = [challenges EXCEPT ![call[h].intent].state = state]
    BY <2>2 DEF resolveChallenge
  <2>4. QED
    BY <1>5, <2>1, <2>3
<1>7. ASSUME NEW h \in Handlers, Settle(h)
      PROVE  Goal
  BY <1>7 DEF Settle, jobs
<1>8. ASSUME NEW i \in Intents, ExpireChallenge(i)
      PROVE  Goal
  BY <1>5, <1>8 DEF ExpireChallenge
<1>9. ASSUME NEW i \in Intents, Reap(i) \/ captureReservation(i) \/ releaseSettled(i)
      PROVE  Goal
  <2>1. UNCHANGED <<clock, ordered, challenges>> /\ reaping' \subseteq reaping
    BY <1>9 DEF Reap, captureReservation, releaseSettled, jobs
  <2>2. QED
    BY <2>1
<1>10. ASSUME \/ (\E m \in Mandates : Revoke(m))
              \/ ExpireMandates \/ ScanChallenges \/ ScanReservations \/ WorkerCrash
       PROVE  Goal
  <2>1. UNCHANGED <<clock, ordered, challenges>> /\ Scans
    BY <1>10 DEF Revoke, ExpireMandates, ScanChallenges, ScanReservations, WorkerCrash,
       tables, jobs
  <2>2. QED
    BY <2>1
<1>11. ASSUME Tick \/ UNCHANGED vars
      PROVE  Goal
  BY <1>11 DEF Tick, vars, tables, jobs
<1> HIDE DEF Goal
<1>12. Goal
  BY <1>3, <1>4, <1>6, <1>7, <1>8, <1>9, <1>10, <1>11 DEF Next, HandlerStep
<1>13. QED
  BY <1>12 DEF Goal

-----------------------------------------------------------------------------
(* What a step does to a handler that holds a row lock. *)

(* A handler that is past the lock wait after a step has just taken the    *)
(* lock, or had it already; then the step changed neither what it read,    *)
(* nor its mandate's state, nor its nonce.                                 *)
LEMMA LockedStep ==
  ASSUME TypeOK, LocksHeld, [Next]_vars, NEW h \in Handlers, pc'[h] = "locked"
  PROVE  \/ LockMandate(h)
         \/ /\ pc[h] = "locked" /\ call'[h] = call[h] /\ read'[h] = read[h]
            /\ lock'[call[h].req.mandate] = h
            /\ mandates'[call[h].req.mandate] = mandates[call[h].req.mandate]
            /\ nonces'[call[h].req.nonce] = nonces[call[h].req.nonce]
<1> DEFINE m == call[h].req.mandate
           n == call[h].req.nonce
           Kept == /\ pc[h] = "locked" /\ call'[h] = call[h] /\ read'[h] = read[h]
                   /\ lock'[m] = h /\ mandates'[m] = mandates[m]
                   /\ nonces'[n] = nonces[n]
<1>1. pc[h] = "locked" => /\ m \in Mandates /\ lock[m] = h /\ h # None
                          /\ n \in Nonces
  BY Assumption, RequestType DEF Assumption, LocksHeld
<1>2. ASSUME NEW g \in Handlers,
             \/ \E r \in Requests, v \in Verifiers : Receive(g, r, v)
             \/ \E i \in Intents, b \in Answers : BeginApproval(g, i, b)
             \/ UnknownMandate(g) \/ RefuseApproval(g)
             \/ RetryLock(g) \/ GiveUpLock(g) \/ Settle(g)
      PROVE  Kept
  <2>1. UNCHANGED <<lock, mandates, nonces>>
    BY <1>2 DEF Receive, BeginApproval, UnknownMandate, RefuseApproval,
       RetryLock, GiveUpLock, Settle, tables
  <2>2. g # h
    BY <1>2 DEF TypeOK, Receive, BeginApproval, UnknownMandate, RefuseApproval,
       RetryLock, GiveUpLock, Settle, Leave, Blocked
  <2>3. pc'[h] = pc[h] /\ call'[h] = call[h] /\ read'[h] = read[h]
    BY <1>2, <2>2 DEF TypeOK, Receive, BeginApproval, UnknownMandate, RefuseApproval,
       RetryLock, GiveUpLock, Settle, Leave
  <2>4. QED
    BY <1>1, <2>1, <2>3
<1>3. ASSUME NEW g \in Handlers, LockMandate(g), g # h
      PROVE  Kept
  <2>1. pc'[h] = pc[h] /\ call'[h] = call[h] /\ read'[h] = read[h]
    BY <1>3 DEF TypeOK, LockMandate
  <2>2. call[g].req.mandate # m
    BY <1>1, <1>3, <2>1 DEF LockMandate, Free
  <2>3. lock'[m] = lock[m] /\ UNCHANGED <<mandates, nonces>>
    BY <1>1, <1>3, <2>1, <2>2 DEF TypeOK, LockMandate, tables
  <2>4. QED
    BY <1>1, <2>1, <2>3
<1>4. ASSUME NEW g \in Handlers, CommitDeny(g) \/ CommitHold(g) \/ CommitConflict(g)
      PROVE  Kept
  <2>1. pc[g] = "locked"
    BY <1>4 DEF CommitDeny, CommitHold, CommitConflict
  <2>2. g # h
    BY <1>4 DEF TypeOK, CommitDeny, CommitHold, CommitConflict, Leave
  <2>3. pc'[h] = pc[h] /\ call'[h] = call[h] /\ read'[h] = read[h]
    BY <1>4, <2>2 DEF TypeOK, CommitDeny, CommitHold, CommitConflict, Leave
  <2>4. lock[call[g].req.mandate] = g /\ call[g].req.nonce # n
    BY <2>1, <2>2, <2>3 DEF LocksHeld
  <2>5. lock' = [lock EXCEPT ![call[g].req.mandate] = None]
    BY <1>4 DEF CommitDeny, CommitHold, CommitConflict
  <2>6. lock'[m] = h
    BY <1>1, <2>2, <2>3, <2>4, <2>5 DEF TypeOK
  <2>7. nonces' = nonces \/ nonces' = [nonces EXCEPT ![call[g].req.nonce] = call[g].intent]
    BY <1>4 DEF CommitDeny, CommitHold, CommitConflict, Burn, tables
  <2>8. nonces'[n] = nonces[n] /\ UNCHANGED mandates
    BY <1>1, <1>4, <2>3, <2>4, <2>7 DEF TypeOK, CommitDeny, CommitHold, CommitConflict, tables
  <2>9. QED
    BY <2>3, <2>6, <2>8
<1>10. ASSUME NEW g \in Handlers, LockApproval(g) \/ Approve(g)
       PROVE  Kept
  <2> DEFINE k == reservations[call[g].intent].mandate
  <2>1. g # h
    BY <1>10 DEF TypeOK, LockApproval, Approve
  <2>2. pc'[h] = pc[h] /\ call'[h] = call[h] /\ read'[h] = read[h]
    BY <1>10, <2>1 DEF TypeOK, LockApproval, Approve
  <2>3. UNCHANGED <<mandates, nonces>>
    BY <1>10 DEF LockApproval, Approve, tables
  <2>4. lock' = [lock EXCEPT ![k] = g] \/ lock' = [lock EXCEPT ![k] = None]
    BY <1>10 DEF LockApproval, Approve
  <2>5. lock[k] = None \/ lock[k] = g
    BY <1>10 DEF LockApproval, Approve, Free, LocksHeld
  <2>6. k # m
    BY <1>1, <2>1, <2>2, <2>5
  <2>7. QED
    BY <1>1, <2>2, <2>3, <2>4, <2>6 DEF TypeOK
<1>5. ASSUME NEW g \in Handlers, Crash(g)
      PROVE  Kept
  <2>1. g # h
    BY <1>5 DEF TypeOK, Crash, Leave
  <2>2. pc'[h] = pc[h] /\ call'[h] = call[h] /\ read'[h] = read[h]
    BY <1>5, <2>1 DEF TypeOK, Crash, Leave
  <2>3. QED
    BY <1>1, <1>5, <2>1, <2>2 DEF Crash, tables
<1>6. ASSUME NEW k \in Mandates, Revoke(k)
      PROVE  Kept
  <2>1. UNCHANGED <<locals, lock, nonces>>
    BY <1>6 DEF Revoke
  <2>2. k # m
    BY <1>1, <1>6, <2>1 DEF Revoke, Free, locals
  <2>3. QED
    BY <1>1, <1>6, <2>1, <2>2 DEF TypeOK, Revoke, locals
<1>7. CASE ExpireMandates
  <2>1. UNCHANGED <<locals, lock, nonces>>
    BY <1>7 DEF ExpireMandates
  <2>2. ~Due(m)
    BY <1>1, <1>7, <2>1 DEF ExpireMandates, Free, locals
  <2>3. QED
    BY <1>1, <1>7, <2>1, <2>2 DEF ExpireMandates, locals
<1>8. ASSUME \/ ScanChallenges \/ ScanReservations \/ WorkerCrash
             \/ (\E i \in Intents : \/ ExpireChallenge(i) \/ Reap(i)
                                   \/ captureReservation(i) \/ releaseSettled(i))
             \/ Tick \/ UNCHANGED vars
      PROVE  Kept
  <2>1. UNCHANGED <<locals, lock, mandates, nonces>>
    BY <1>8 DEF ScanChallenges, ScanReservations, WorkerCrash, ExpireChallenge, Reap,
       captureReservation, releaseSettled, Tick, vars, tables
  <2>2. QED
    BY <1>1, <2>1 DEF locals
<1>9. QED
  BY <1>2, <1>3, <1>4, <1>5, <1>6, <1>7, <1>8, <1>10 DEF Next, HandlerStep

(* A handler keeps what its next step uses. *)
LEMMA WorkStep ==
  ASSUME TypeOK, LocksHeld, [Next]_vars, NEW h \in Handlers
  PROVE  /\ pc'[h] \in {"waiting", "locked"} =>
              call'[h].req \in Requests /\ call'[h].intent = call'[h].req.intent
         /\ pc'[h] \in {"approving", "granting", "settling"} => call'[h].intent \in Intents
<1> DEFINE Goal == /\ pc'[h] \in {"waiting", "locked"} =>
                        call'[h].req \in Requests /\ call'[h].intent = call'[h].req.intent
                   /\ pc'[h] \in {"approving", "granting", "settling"} =>
                        call'[h].intent \in Intents
<1>1. ASSUME pc'[h] = pc[h], call'[h] = call[h]
      PROVE  Goal
  BY <1>1 DEF LocksHeld
<1>2. ASSUME pc'[h] = "idle"
      PROVE  Goal
  BY <1>2
<1>3. ASSUME NEW r \in Requests, NEW v \in Verifiers, Receive(h, r, v)
      PROVE  Goal
  <2>1. pc'[h] = "waiting" /\ call'[h].req = r /\ call'[h].intent = r.intent
    BY <1>3 DEF TypeOK, Receive, NoCall
  <2>2. QED
    BY <2>1
<1>4. ASSUME NEW i \in Intents, NEW b \in Answers, BeginApproval(h, i, b)
      PROVE  Goal
  <2>1. pc'[h] = "approving" /\ call'[h].intent = i
    BY <1>4 DEF TypeOK, BeginApproval, NoCall
  <2>2. QED
    BY <2>1
<1>5. ASSUME RetryLock(h)
      PROVE  Goal
  <2>1. pc'[h] = pc[h] /\ call'[h].req = call[h].req /\ call'[h].intent = call[h].intent
    <3> DEFINE again == [call[h] EXCEPT !.attempts = @ + 1]
               anew == [again EXCEPT !.start = clock]
    <3>1. call[h] \in Call
      BY DEF TypeOK
    <3>2. again.req = call[h].req /\ again.intent = call[h].intent
      BY <3>1 DEF Call
    <3>3. anew.req = again.req /\ anew.intent = again.intent
      BY DEF Call
    <3>4. h \in DOMAIN call
            /\ call'[h] = [anew EXCEPT !.challenge = IF pc[h] = "approving"
                                                     THEN challenges[call[h].intent].state
                                                     ELSE @]
      BY <1>5 DEF TypeOK, RetryLock
    <3>5. call'[h].req = anew.req /\ call'[h].intent = anew.intent
      BY <3>4
    <3>6. QED
      BY <1>5, <3>2, <3>3, <3>5 DEF RetryLock
  <2>2. QED
    BY <2>1 DEF LocksHeld
<1>6. ASSUME LockMandate(h)
      PROVE  Goal
  BY <1>6 DEF TypeOK, LockMandate, LocksHeld
<1>7. ASSUME CommitHold(h)
      PROVE  Goal
  <2>1. call[h].intent \in Intents
    BY <1>7, RequestType DEF CommitHold, LocksHeld
  <2>2. pc'[h] = "idle" \/ (pc'[h] = "settling" /\ call' = call)
    BY <1>7 DEF TypeOK, CommitHold, Leave
  <2>3. QED
    BY <2>1, <2>2
<1>8. ASSUME LockApproval(h) \/ Approve(h)
      PROVE  Goal
  BY <1>8 DEF TypeOK, LockApproval, Approve, LocksHeld
<1>9. ASSUME UnknownMandate(h) \/ CommitDeny(h) \/ CommitConflict(h) \/ RefuseApproval(h)
             \/ GiveUpLock(h) \/ Settle(h) \/ Crash(h)
      PROVE  Goal
  BY <1>2, <1>9 DEF TypeOK, UnknownMandate, CommitDeny, CommitConflict, RefuseApproval,
     GiveUpLock, Settle, Crash, Leave
<1>10. ASSUME NEW g \in Handlers \ {h},
              \/ \E r \in Requests, v \in Verifiers : Receive(g, r, v)
              \/ \E i \in Intents, b \in Answers : BeginApproval(g, i, b)
              \/ HandlerStep(g) \/ Crash(g)
       PROVE  Goal
  <2>1. pc'[h] = pc[h] /\ call'[h] = call[h]
    BY <1>10 DEF TypeOK, HandlerStep, Receive, BeginApproval, UnknownMandate, LockMandate,
       CommitDeny, CommitHold, CommitConflict, LockApproval, Approve, RefuseApproval, RetryLock,
       GiveUpLock, Settle, Crash, Leave
  <2>2. QED
    BY <1>1, <2>1
<1>11. ASSUME UNCHANGED locals
       PROVE  Goal
  BY <1>1, <1>11 DEF locals
<1>12. ASSUME \/ (\E m \in Mandates : Revoke(m))
              \/ ExpireMandates \/ ScanChallenges \/ ScanReservations \/ WorkerCrash
              \/ (\E i \in Intents : \/ ExpireChallenge(i) \/ Reap(i)
                                    \/ captureReservation(i) \/ releaseSettled(i))
              \/ Tick \/ UNCHANGED vars
       PROVE  Goal
  BY <1>11, <1>12 DEF Revoke, ExpireMandates, ScanChallenges, ScanReservations,
     WorkerCrash, ExpireChallenge, Reap, captureReservation, releaseSettled, Tick, vars
<1>13. QED
  BY <1>3, <1>4, <1>5, <1>6, <1>7, <1>8, <1>9, <1>10, <1>12 DEF Next, HandlerStep

(* An approval that is past the lock wait after a step has just taken the  *)
(* lock, or had it already; then its mandate's state did not change, and   *)
(* no row it locks was released but by settlement.                         *)
LEMMA GrantingStep ==
  ASSUME TypeOK, LocksHeld, [Next]_vars, NEW h \in Handlers, pc'[h] = "granting"
  PROVE  \/ LockApproval(h)
         \/ LET m == reservations[call[h].intent].mandate
            IN  /\ pc[h] = "granting" /\ call'[h] = call[h]
                /\ lock'[m] = h /\ mandates'[m] = mandates[m]
<1> DEFINE m == reservations[call[h].intent].mandate
           Kept == /\ pc[h] = "granting" /\ call'[h] = call[h]
                   /\ lock'[m] = h /\ mandates'[m] = mandates[m]
<1>1. pc[h] = "granting" => m \in Mandates /\ lock[m] = h /\ h # None
  BY Assumption DEF Assumption, LocksHeld
<1>2. ASSUME NEW g \in Handlers,
             \/ \E r \in Requests, v \in Verifiers : Receive(g, r, v)
             \/ \E i \in Intents, b \in Answers : BeginApproval(g, i, b)
             \/ UnknownMandate(g) \/ RefuseApproval(g)
             \/ RetryLock(g) \/ GiveUpLock(g) \/ Settle(g)
      PROVE  Kept
  <2>1. UNCHANGED <<lock, mandates>>
    BY <1>2 DEF Receive, BeginApproval, UnknownMandate, RefuseApproval,
       RetryLock, GiveUpLock, Settle, tables
  <2>2. g # h
    BY <1>2 DEF TypeOK, Receive, BeginApproval, UnknownMandate, RefuseApproval,
       RetryLock, GiveUpLock, Settle, Leave, Blocked
  <2>3. pc'[h] = pc[h] /\ call'[h] = call[h]
    BY <1>2, <2>2 DEF TypeOK, Receive, BeginApproval, UnknownMandate, RefuseApproval,
       RetryLock, GiveUpLock, Settle, Leave
  <2>4. QED
    BY <1>1, <2>1, <2>3
<1>3. ASSUME NEW g \in Handlers, NEW k, lock' = [lock EXCEPT ![k] = g], lock[k] = None,
             g # h, pc'[h] = pc[h], call'[h] = call[h], UNCHANGED mandates
      PROVE  Kept
  <2>1. k # m
    BY <1>1, <1>3
  <2>2. QED
    BY <1>1, <1>3, <2>1 DEF TypeOK
<1>4. ASSUME NEW g \in Handlers, NEW k, lock' = [lock EXCEPT ![k] = None], lock[k] = g,
             g # h, pc'[h] = pc[h], call'[h] = call[h], UNCHANGED mandates
      PROVE  Kept
  <2>1. k # m
    BY <1>1, <1>4
  <2>2. QED
    BY <1>1, <1>4, <2>1 DEF TypeOK
<1>5. ASSUME NEW g \in Handlers, LockMandate(g)
      PROVE  Kept
  <2>1. g # h /\ pc'[h] = pc[h] /\ call'[h] = call[h] /\ UNCHANGED mandates
    BY <1>5 DEF TypeOK, LockMandate, tables
  <2>2. QED
    BY <1>3, <1>5, <2>1 DEF LockMandate, Free
<1>6. ASSUME NEW g \in Handlers, LockApproval(g), g # h
      PROVE  Kept
  <2>1. pc'[h] = pc[h] /\ call'[h] = call[h] /\ UNCHANGED mandates
    BY <1>6 DEF TypeOK, LockApproval, tables
  <2>2. QED
    BY <1>3, <1>6, <2>1 DEF LockApproval, Free
<1>7. ASSUME NEW g \in Handlers, CommitDeny(g) \/ CommitHold(g) \/ CommitConflict(g)
      PROVE  Kept
  <2>1. pc[g] = "locked" /\ lock[call[g].req.mandate] = g
    BY <1>7 DEF CommitDeny, CommitHold, CommitConflict, LocksHeld
  <2>2. g # h
    BY <1>7 DEF TypeOK, CommitDeny, CommitHold, CommitConflict, Leave
  <2>3. pc'[h] = pc[h] /\ call'[h] = call[h] /\ UNCHANGED mandates
    BY <1>7, <2>2 DEF TypeOK, CommitDeny, CommitHold, CommitConflict, Leave, tables
  <2>4. lock' = [lock EXCEPT ![call[g].req.mandate] = None]
    BY <1>7 DEF CommitDeny, CommitHold, CommitConflict
  <2>5. QED
    BY <1>4, <2>1, <2>2, <2>3, <2>4
<1>8. ASSUME NEW g \in Handlers, Approve(g)
      PROVE  Kept
  <2>1. g # h /\ pc'[h] = pc[h] /\ call'[h] = call[h] /\ UNCHANGED mandates
    BY <1>8 DEF TypeOK, Approve
  <2>2. lock[reservations[call[g].intent].mandate] = g
    BY <1>8 DEF Approve, LocksHeld
  <2>3. QED
    BY <1>4, <1>8, <2>1, <2>2 DEF Approve
<1>9. ASSUME NEW g \in Handlers, Crash(g)
      PROVE  Kept
  <2>1. g # h
    BY <1>9 DEF TypeOK, Crash, Leave
  <2>2. pc'[h] = pc[h] /\ call'[h] = call[h]
    BY <1>9, <2>1 DEF TypeOK, Crash, Leave
  <2>3. QED
    BY <1>1, <1>9, <2>1, <2>2 DEF Crash, tables
<1>10. ASSUME NEW k \in Mandates, Revoke(k)
       PROVE  Kept
  <2>1. UNCHANGED <<locals, lock>>
    BY <1>10 DEF Revoke
  <2>2. k # m
    BY <1>1, <1>10, <2>1 DEF Revoke, Free, locals
  <2>3. QED
    BY <1>1, <1>10, <2>1, <2>2 DEF TypeOK, Revoke, locals
<1>11. ASSUME ExpireMandates
       PROVE  Kept
  <2>1. UNCHANGED <<locals, lock>>
    BY <1>11 DEF ExpireMandates
  <2>2. ~Due(m)
    BY <1>1, <1>11, <2>1 DEF ExpireMandates, Free, locals
  <2>3. QED
    BY <1>1, <1>11, <2>1, <2>2 DEF ExpireMandates, locals
<1>12. ASSUME \/ ScanChallenges \/ ScanReservations \/ WorkerCrash
              \/ (\E i \in Intents : \/ ExpireChallenge(i) \/ Reap(i)
                                    \/ captureReservation(i) \/ releaseSettled(i))
              \/ Tick \/ UNCHANGED vars
       PROVE  Kept
  <2>1. UNCHANGED <<locals, lock, mandates>>
    BY <1>12 DEF ScanChallenges, ScanReservations, WorkerCrash, ExpireChallenge, Reap,
       captureReservation, releaseSettled, Tick, vars, tables
  <2>2. QED
    BY <1>1, <2>1 DEF locals
<1> HIDE DEF Kept
<1>13. ASSUME NEW g \in Handlers, HandlerStep(g)
       PROVE  LockApproval(h) \/ Kept
  BY <1>2, <1>5, <1>6, <1>7, <1>8, <1>13 DEF HandlerStep
<1>14. LockApproval(h) \/ Kept
  BY <1>2, <1>9, <1>10, <1>11, <1>12, <1>13 DEF Next
<1>15. QED
  BY <1>14 DEF Kept

(* A handler that is to commit an approval has a reservation to commit it  *)
(* on, which keeps its mandate.                                            *)
LEMMA GrantedRow ==
  ASSUME TypeOK, LocksHeld, [Next]_vars, NEW h \in Handlers, pc[h] = "granting"
  PROVE  /\ call[h].intent \in Intents /\ reservations[call[h].intent] # NoRow
         /\ reservations'[call[h].intent].mandate = reservations[call[h].intent].mandate
<1>1. call[h].intent \in Intents /\ reservations[call[h].intent].mandate \in Mandates
  BY DEF LocksHeld
<1>2. reservations[call[h].intent] # NoRow
  BY <1>1, Assumption DEF Assumption, NoRow
<1>3. QED
  BY <1>1, <1>2, RowKept

(* Every step keeps lock holders and their pending nonces apart. *)
LEMMA LocksHeldStep ==
  ASSUME TypeOK, LocksHeld, RowsOwned, [Next]_vars
  PROVE  LocksHeld'
<1>1. ASSUME NEW h \in Handlers, pc'[h] = "locked"
      PROVE  /\ call'[h].req.mandate \in Mandates
             /\ lock'[call'[h].req.mandate] = h
             /\ \A g \in Handlers \ {h} : pc'[g] = "locked" =>
                  call'[g].req.nonce # call'[h].req.nonce
  <2>1. CASE LockMandate(h)
    <3>1. /\ call' = call /\ call[h].req.mandate \in Mandates
          /\ lock'[call[h].req.mandate] = h
      BY <2>1 DEF TypeOK, LockMandate
    <3>2. ASSUME NEW g \in Handlers \ {h}, pc'[g] = "locked"
          PROVE  call'[g].req.nonce # call'[h].req.nonce
      <4>1. pc[g] = "locked"
        BY <2>1, <3>2 DEF TypeOK, LockMandate
      <4>2. QED
        BY <2>1, <3>1, <4>1 DEF LockMandate, NonceContended
    <3>3. QED
      BY <3>1, <3>2
  <2>2. CASE ~LockMandate(h)
    <3>1. /\ pc[h] = "locked" /\ call'[h] = call[h]
          /\ lock'[call[h].req.mandate] = h /\ call[h].req.mandate \in Mandates
      BY <1>1, <2>2, LockedStep DEF LocksHeld
    <3>2. ASSUME NEW g \in Handlers \ {h}, pc'[g] = "locked"
          PROVE  call'[g].req.nonce # call'[h].req.nonce
      <4>1. CASE LockMandate(g)
        <5>1. call' = call /\ ~NonceContended(g)
          BY <4>1 DEF LockMandate
        <5>2. QED
          BY <3>1, <5>1 DEF NonceContended
      <4>2. CASE ~LockMandate(g)
        <5>1. pc[g] = "locked" /\ call'[g] = call[g]
          BY <3>2, <4>2, LockedStep
        <5>2. QED
          BY <3>1, <5>1 DEF LocksHeld
      <4>3. QED
        BY <4>1, <4>2
    <3>3. QED
      BY <3>1, <3>2
  <2>3. QED
    BY <2>1, <2>2
<1>2. ASSUME NEW h \in Handlers, pc'[h] = "granting"
      PROVE  LET m == reservations'[call'[h].intent].mandate
             IN  m \in Mandates /\ lock'[m] = h
  <2>1. CASE LockApproval(h)
    <3>1. reservations[call[h].intent].state = "held" /\ call[h].intent \in Intents
      BY <2>1, ApprovalPasses DEF LockApproval, LocksHeld
    <3>2. reservations[call[h].intent].mandate \in Mandates
      BY <3>1 DEF RowsOwned, Counts
    <3>3. QED
      BY <2>1, <3>2 DEF TypeOK, LockApproval, tables
  <2>2. CASE ~LockApproval(h)
    <3>1. /\ pc[h] = "granting" /\ call'[h] = call[h]
          /\ lock'[reservations[call[h].intent].mandate] = h
      BY <1>2, <2>2, GrantingStep
    <3>2. reservations'[call[h].intent].mandate = reservations[call[h].intent].mandate
      BY <3>1, GrantedRow
    <3>3. QED
      BY <3>1, <3>2 DEF LocksHeld
  <2>3. QED
    BY <2>1, <2>2
<1>3. QED
  BY <1>1, <1>2, WorkStep DEF LocksHeld
-----------------------------------------------------------------------------
(* The reads made under the lock stay valid. *)

(* The model's sums, as sums over the table. *)
LEMMA SumsOfTable ==
  /\ \A m, start :
       /\ sumReservedAndCaptured(m, start) =
            Total(AmountIn(reservations),
                  CountedIn(reservations, m, start - Terms[m].window))
       /\ countReservationsLastHour(m, start) =
            Cardinality(CountedIn(reservations, m, start - Hour))
  /\ \A m, t, width : InWindow(m, t, width) = WindowIn(reservations, m, t, width)
  /\ Amounts = AmountIn(reservations)
  BY DEF sumReservedAndCaptured, countReservationsLastHour, InWindow, Amounts, AmountIn,
     CountedSince, CountedIn, WindowIn

(* Every step keeps counted rows owned by a mandate. *)
LEMMA RowsOwnedStep ==
  ASSUME TypeOK, TypeOK', LocksHeld, RowsOwned, [Next]_vars
  PROVE  RowsOwned'
<1>1. \A i \in Intents : reservations'[i].mandate \in {None} \cup Mandates
  BY DEF TypeOK, Row
<1>2. None \notin Mandates
  BY Assumption DEF Assumption
<1>3. NoNewRow(None, reservations, reservations')
  <2>1. \A h \in Handlers : CommitHold(h) => call[h].req.mandate \in Mandates
    BY DEF CommitHold, LocksHeld
  <2>2. QED
    BY <1>2, <2>1, RowsStep
<1>4. QED
  BY <1>1, <1>2, <1>3 DEF RowsOwned, NoNewRow, Counts

(* No step makes what a lock holder has read too small or stale. *)
LEMMA ReadsStep ==
  ASSUME TypeOK, TypeOK', LocksHeld, ReadsStayValid, [Next]_vars
  PROVE  ReadsStayValid'
<1> SUFFICES ASSUME NEW h \in Handlers, pc'[h] = "locked"
             PROVE  LET r == call'[h].req
                    IN  /\ read'[h].state = mandates'[r.mandate]
                        /\ read'[h].fresh => nonces'[r.nonce] = None
                        /\ Total(AmountIn(reservations'),
                                 CountedIn(reservations', r.mandate,
                                           call'[h].start - Terms[r.mandate].window))
                              <= read'[h].sum
                        /\ Cardinality(CountedIn(reservations', r.mandate,
                                                 call'[h].start - Hour))
                              <= read'[h].count
  BY DEF ReadsStayValid, sumReservedAndCaptured, countReservationsLastHour, Amounts,
     AmountIn, CountedSince, CountedIn
<1> DEFINE m == call[h].req.mandate
           start == call[h].start
           width == Terms[m].window
<1>1. CASE LockMandate(h)
  <2>1. /\ call' = call /\ mandates' = mandates /\ nonces' = nonces
        /\ reservations' = reservations
    BY <1>1 DEF LockMandate, tables
  <2>2. read'[h] = [state    |-> mandates[m],
                    fresh    |-> nonces[call[h].req.nonce] = None,
                    consumed |-> quotes[call[h].req.quote] # None,
                    sum      |-> sumReservedAndCaptured(m, start),
                    count    |-> countReservationsLastHour(m, start),
                    seen     |-> hasCapturedAtMerchant(m, call[h].req.merchant)]
    BY <1>1 DEF TypeOK, LockMandate
  <2>3. /\ sumReservedAndCaptured(m, start) \in Nat
        /\ countReservationsLastHour(m, start) \in Nat
    BY SumType
  <2>4. /\ Total(AmountIn(reservations), CountedIn(reservations, m, start - width))
             = sumReservedAndCaptured(m, start)
        /\ Cardinality(CountedIn(reservations, m, start - Hour))
             = countReservationsLastHour(m, start)
    BY SumsOfTable
  <2>5. /\ read'[h].state = mandates[m]
        /\ read'[h].fresh = (nonces[call[h].req.nonce] = None)
        /\ read'[h].sum = sumReservedAndCaptured(m, start)
        /\ read'[h].count = countReservationsLastHour(m, start)
    BY <2>2
  <2>6. /\ sumReservedAndCaptured(m, start) <= read'[h].sum
        /\ countReservationsLastHour(m, start) <= read'[h].count
    BY <2>3, <2>5
  <2>7. QED
    BY <2>1, <2>4, <2>5, <2>6
<1>2. CASE ~LockMandate(h)
  <2>1. /\ pc[h] = "locked" /\ call'[h] = call[h] /\ read'[h] = read[h]
        /\ mandates'[m] = mandates[m]
        /\ nonces'[call[h].req.nonce] = nonces[call[h].req.nonce]
    BY <1>2, LockedStep
  <2>2. m \in Mandates /\ lock[m] = h
    BY <2>1 DEF LocksHeld
  <2>3. NoNewRow(m, reservations, reservations')
    <3>1. ASSUME NEW g \in Handlers, CommitHold(g), call[g].req.mandate = m
          PROVE  FALSE
      <4>1. g = h
        BY <2>2, <3>1 DEF CommitHold, LocksHeld
      <4>2. QED
        BY <3>1, <4>1 DEF TypeOK, CommitHold, Leave
    <3>2. QED
      BY <2>2, <3>1, RowsStep
  <2>4. /\ read[h].state = mandates[m]
        /\ read[h].fresh => nonces[call[h].req.nonce] = None
        /\ sumReservedAndCaptured(m, start) <= read[h].sum
        /\ countReservationsLastHour(m, start) <= read[h].count
    BY <2>1 DEF ReadsStayValid
  <2>5. reservations \in [Intents -> Row] /\ reservations' \in [Intents -> Row]
    BY DEF TypeOK
  <2>6. /\ Total(AmountIn(reservations'), CountedIn(reservations', m, start - width))
              <= Total(AmountIn(reservations), CountedIn(reservations, m, start - width))
        /\ Cardinality(CountedIn(reservations', m, start - Hour))
              <= Cardinality(CountedIn(reservations, m, start - Hour))
    BY <2>3, <2>5, SumsFall
  <2>7. /\ sumReservedAndCaptured(m, start) \in Nat
        /\ countReservationsLastHour(m, start) \in Nat
        /\ read[h].sum \in Nat /\ read[h].count \in Nat
    BY SumType DEF TypeOK, Read
  <2>8. /\ Total(AmountIn(reservations'), CountedIn(reservations', m, start - width)) \in Nat
        /\ Cardinality(CountedIn(reservations', m, start - Hour)) \in Nat
    <3>1. /\ IsFiniteSet(CountedIn(reservations', m, start - width))
          /\ IsFiniteSet(CountedIn(reservations', m, start - Hour))
      BY Assumption, FS_Subset DEF Assumption, CountedIn
    <3>2. \A i \in CountedIn(reservations', m, start - width) :
             AmountIn(reservations')[i] \in Nat
      BY <2>5 DEF CountedIn, AmountIn, Row
    <3>3. QED
      BY <3>1, <3>2, TotalType, FS_CardinalityType
  <2>9. /\ Total(AmountIn(reservations), CountedIn(reservations, m, start - width))
             = sumReservedAndCaptured(m, start)
        /\ Cardinality(CountedIn(reservations, m, start - Hour))
             = countReservationsLastHour(m, start)
    BY SumsOfTable
  <2>10. /\ Total(AmountIn(reservations'), CountedIn(reservations', m, start - width))
               <= read[h].sum
         /\ Cardinality(CountedIn(reservations', m, start - Hour)) <= read[h].count
    BY <2>4, <2>6, <2>7, <2>8, <2>9
  <2>11. QED
    BY <2>1, <2>4, <2>10
<1>3. QED
  BY <1>1, <1>2
-----------------------------------------------------------------------------
(* What the row a hold inserts has been checked against. *)

(* A hold is inserted only when both limits admitted what was read. *)
LEMMA HoldIsChecked ==
  ASSUME TypeOK, LocksHeld, ReadsStayValid, NEW h \in Handlers, CommitHold(h)
  PROVE  LET r == call[h].req
             start == call[h].start
         IN  /\ mandates[r.mandate] = "live"
             /\ call[h].now < Terms[r.mandate].notAfter
             /\ reservations[r.intent] = NoRow
             /\ sumReservedAndCaptured(r.mandate, start) + r.amount
                   <= Terms[r.mandate].cumulative
             /\ countReservationsLastHour(r.mandate, start) < Terms[r.mandate].velocity
<1> DEFINE r == call[h].req
           f == Facts(h)
<1>1. pc[h] = "locked" /\ Verdict(f) # "DENY" /\ ~WriteConflict(h)
  BY DEF CommitHold
<1>2. /\ f.stateless = call[h].stateless /\ f.mandateState = read[h].state
      /\ f.now = call[h].now /\ f.terms = Terms[r.mandate]
      /\ f.sum = read[h].sum /\ f.amount = r.amount /\ f.count = read[h].count
  BY DEF Facts
<1>3. StatelessDenies(f)
  <2>1. call[h].stateless \in {NoFailure} \cup StatelessCodes
    BY DEF TypeOK, Call
  <2>2. QED
    BY <1>2, <2>1 DEF StatelessDenies, StatelessCodes, VerdictFor, StepUpCodes
<1> HIDE DEF f
<1>4. /\ f.mandateState = "live" /\ f.now < f.terms.notAfter
      /\ f.sum + f.amount <= f.terms.cumulative
      /\ f.count < f.terms.velocity
  BY <1>1, <1>3, NotDeniedFacts
<1>5. /\ read[h].state = mandates[r.mandate]
      /\ sumReservedAndCaptured(r.mandate, call[h].start) <= read[h].sum
      /\ countReservationsLastHour(r.mandate, call[h].start) <= read[h].count
  BY <1>1 DEF ReadsStayValid
<1>6. /\ sumReservedAndCaptured(r.mandate, call[h].start) \in Nat
      /\ countReservationsLastHour(r.mandate, call[h].start) \in Nat
      /\ read[h].sum \in Nat /\ read[h].count \in Nat
  BY SumType DEF TypeOK, Read
<1>7. /\ r \in Requests /\ r.mandate \in Mandates /\ call[h].intent = r.intent
      /\ r.amount \in Nat
  BY <1>1, RequestType DEF LocksHeld
<1>8. Terms[r.mandate].cumulative \in Nat /\ Terms[r.mandate].velocity \in Nat
  BY <1>7, TermsType
<1>9. reservations[r.intent] = NoRow
  BY <1>1, <1>7 DEF WriteConflict
<1>10. sumReservedAndCaptured(r.mandate, call[h].start) + r.amount
         <= Terms[r.mandate].cumulative
  BY <1>2, <1>4, <1>5, <1>6, <1>7, <1>8
<1>11. countReservationsLastHour(r.mandate, call[h].start) < Terms[r.mandate].velocity
  BY <1>2, <1>4, <1>5, <1>6, <1>8
<1>12. QED
  BY <1>2, <1>4, <1>5, <1>9, <1>10, <1>11
-----------------------------------------------------------------------------
(* The caps. *)

(* A window holds finitely many rows. *)
LEMMA WindowFinite ==
  ASSUME NEW rows \in [Intents -> Row], NEW m, NEW t, NEW width
  PROVE  /\ Total(AmountIn(rows), WindowIn(rows, m, t, width)) \in Nat
         /\ Cardinality(WindowIn(rows, m, t, width)) \in Nat
<1>1. IsFiniteSet(WindowIn(rows, m, t, width))
  BY Assumption, FS_Subset DEF Assumption, WindowIn, CountedIn
<1>2. \A i \in WindowIn(rows, m, t, width) : AmountIn(rows)[i] \in Nat
  BY DEF WindowIn, CountedIn, AmountIn, Row
<1>3. QED
  BY <1>1, <1>2, TotalType, FS_CardinalityType

(* What the table counts since any moment sums to a natural number. *)
LEMMA CountedTotal ==
  ASSUME NEW rows \in [Intents -> Row], NEW m, NEW since
  PROVE  /\ Total(AmountIn(rows), CountedIn(rows, m, since)) \in Nat
         /\ Cardinality(CountedIn(rows, m, since)) \in Nat
<1>1. IsFiniteSet(CountedIn(rows, m, since))
  BY Assumption, FS_Subset DEF Assumption, CountedIn
<1>2. \A i \in CountedIn(rows, m, since) : AmountIn(rows)[i] \in Nat
  BY DEF CountedIn, AmountIn, Row
<1>3. QED
  BY <1>1, <1>2, TotalType, FS_CardinalityType

(* Every step keeps every window within the cap and the velocity. *)
LEMMA CapsStep ==
  ASSUME TypeOK, TypeOK', LocksHeld, ReadsStayValid, CumulativeCap, VelocityCap, [Next]_vars
  PROVE  CumulativeCap' /\ VelocityCap'
<1> SUFFICES ASSUME NEW m \in Mandates, NEW t \in 0..MaxClock
             PROVE  /\ Total(AmountIn(reservations'),
                             WindowIn(reservations', m, t, Terms[m].window))
                          <= Terms[m].cumulative
                    /\ Cardinality(WindowIn(reservations', m, t, Hour))
                          <= Terms[m].velocity
  BY DEF CumulativeCap, VelocityCap, InWindow, Amounts, CountedSince, AmountIn, WindowIn,
     CountedIn
<1> DEFINE width == Terms[m].window
           before == reservations
           after == reservations'
<1>1. before \in [Intents -> Row] /\ after \in [Intents -> Row]
  BY DEF TypeOK
<1>2. /\ Terms[m].cumulative \in Nat /\ Terms[m].velocity \in Nat /\ width \in Nat
      /\ Hour \in Nat /\ t \in Nat
  BY TermsType, Assumption DEF Assumption
<1>3. /\ Total(AmountIn(before), WindowIn(before, m, t, width)) <= Terms[m].cumulative
      /\ Cardinality(WindowIn(before, m, t, Hour)) <= Terms[m].velocity
  BY SumsOfTable DEF CumulativeCap, VelocityCap
<1>4. /\ Total(AmountIn(before), WindowIn(before, m, t, width)) \in Nat
      /\ Total(AmountIn(after), WindowIn(after, m, t, width)) \in Nat
      /\ Cardinality(WindowIn(before, m, t, Hour)) \in Nat
      /\ Cardinality(WindowIn(after, m, t, Hour)) \in Nat
  BY <1>1, WindowFinite
<1>5. CASE NoNewRow(m, before, after)
  <2>1. /\ Total(AmountIn(after), WindowIn(after, m, t, width))
              <= Total(AmountIn(before), WindowIn(before, m, t, width))
        /\ Cardinality(WindowIn(after, m, t, Hour))
              <= Cardinality(WindowIn(before, m, t, Hour))
    BY <1>1, <1>5, WindowsFall
  <2>2. QED
    BY <1>2, <1>3, <1>4, <2>1
<1>6. ASSUME NEW h \in Handlers, CommitHold(h), call[h].req.mandate = m
      PROVE  /\ Total(AmountIn(after), WindowIn(after, m, t, width)) <= Terms[m].cumulative
             /\ Cardinality(WindowIn(after, m, t, Hour)) <= Terms[m].velocity
  <2> DEFINE r == call[h].req
             i == r.intent
             start == call[h].start
             row == after[i]
             sum == Total(AmountIn(before), CountedIn(before, m, start - width))
             count == Cardinality(CountedIn(before, m, start - Hour))
  <2>1. i \in Intents /\ r.amount \in Nat
    BY <1>6, RequestType DEF CommitHold, LocksHeld
  <2>2. row.mandate = m /\ row.amount = r.amount /\ row.created = start
    BY <1>6, <2>1 DEF TypeOK, CommitHold
  <2>3. after = [before EXCEPT ![i] = row]
    BY <1>1, <1>6 DEF CommitHold
  <2>4. /\ before[i] = NoRow
        /\ sum + r.amount <= Terms[m].cumulative
        /\ count < Terms[m].velocity
    BY <1>6, HoldIsChecked, SumsOfTable
  <2>5. sum \in Nat /\ count \in Nat
    BY <1>1, CountedTotal
  <2>6. ~Counts(before[i]) /\ row \in Row
    BY <1>1, <2>1, <2>4 DEF NoRow, Counts
  <2>7. ASSUME NEW w, i \notin WindowIn(after, m, t, w)
        PROVE  /\ Total(AmountIn(after), WindowIn(after, m, t, w))
                     <= Total(AmountIn(before), WindowIn(before, m, t, w))
               /\ Cardinality(WindowIn(after, m, t, w))
                     <= Cardinality(WindowIn(before, m, t, w))
    <3>1. \A j \in Intents \ {i} : after[j] = before[j]
      BY <1>1, <2>3
    <3>2. /\ WindowIn(after, m, t, w) \subseteq WindowIn(before, m, t, w)
          /\ WindowIn(before, m, t, w) \subseteq Intents
          /\ \A j \in WindowIn(after, m, t, w) : after[j].amount = before[j].amount
      BY <2>7, <3>1 DEF WindowIn, CountedIn
    <3>3. QED
      BY <1>1, <3>2, FewerRows
  <2>8. ASSUME NEW w \in Nat, i \in WindowIn(after, m, t, w)
        PROVE  /\ Total(AmountIn(after), WindowIn(after, m, t, w))
                     <= Total(AmountIn(before), CountedIn(before, m, start - w)) + r.amount
               /\ Cardinality(WindowIn(after, m, t, w))
                     <= Cardinality(CountedIn(before, m, start - w)) + 1
    <3> HIDE DEF row, before, after, i
    <3>1. i \in WindowIn([before EXCEPT ![i] = row], m, t, w)
      BY <2>3, <2>8
    <3>2. LET new == [before EXCEPT ![i] = row]
              S == CountedIn(before, m, row.created - w)
          IN  /\ Total(AmountIn(new), WindowIn(new, m, t, w))
                    <= Total(AmountIn(before), S) + row.amount
              /\ Cardinality(WindowIn(new, m, t, w)) <= Cardinality(S) + 1
      BY <1>1, <1>2, <2>1, <2>6, <3>1, InsertedWindow
    <3>3. QED
      BY <2>2, <2>3, <3>2
  <2> HIDE DEF sum, count, row, before, after, i
  <2>9. Total(AmountIn(after), WindowIn(after, m, t, width)) <= Terms[m].cumulative
    <3>1. CASE i \in WindowIn(after, m, t, width)
      <4>1. Total(AmountIn(after), WindowIn(after, m, t, width)) <= sum + r.amount
        BY <1>2, <2>8, <3>1 DEF sum
      <4>2. QED
        BY <1>2, <1>4, <2>1, <2>4, <2>5, <4>1
    <3>2. CASE i \notin WindowIn(after, m, t, width)
      <4>1. Total(AmountIn(after), WindowIn(after, m, t, width))
              <= Total(AmountIn(before), WindowIn(before, m, t, width))
        BY <2>7, <3>2
      <4>2. QED
        BY <1>2, <1>3, <1>4, <4>1
    <3>3. QED
      BY <3>1, <3>2
  <2>10. Cardinality(WindowIn(after, m, t, Hour)) <= Terms[m].velocity
    <3>1. CASE i \in WindowIn(after, m, t, Hour)
      <4>1. Cardinality(WindowIn(after, m, t, Hour)) <= count + 1
        BY <1>2, <2>8, <3>1 DEF count
      <4>2. QED
        BY <1>2, <1>4, <2>4, <2>5, <4>1
    <3>2. CASE i \notin WindowIn(after, m, t, Hour)
      <4>1. Cardinality(WindowIn(after, m, t, Hour))
              <= Cardinality(WindowIn(before, m, t, Hour))
        BY <2>7, <3>2
      <4>2. QED
        BY <1>2, <1>3, <1>4, <4>1
    <3>3. QED
      BY <3>1, <3>2
  <2>11. QED
    BY <2>9, <2>10
<1>7. QED
  BY <1>5, <1>6, RowsStep
-----------------------------------------------------------------------------
(* What an approval was decided on stays valid. *)

(* No step takes away what an approval was decided on.                     *)
LEMMA GrantsStep ==
  ASSUME TypeOK, LocksHeld, GrantsStayValid, [Next]_vars
  PROVE  GrantsStayValid'
<1> SUFFICES ASSUME NEW h \in Handlers, pc'[h] = "granting"
             PROVE  LET i == call'[h].intent
                        row == reservations'[i]
                    IN  /\ call'[h].approve
                        /\ call'[h].now < challenges'[i].expires
                        /\ mandates'[row.mandate] = "live"
                        /\ call'[h].now < Terms[row.mandate].notAfter
                        /\ \/ Counts(row)
                           \/ /\ i \in ordered'
                              /\ row.state = "released" /\ row.reason = "payment_failed"
  BY DEF GrantsStayValid, Accounted, Counts
<1>1. CASE LockApproval(h)
  <2>1. UNCHANGED <<call, tables>> /\ checkApproval(h) = "OK-000"
    BY <1>1 DEF LockApproval
  <2>2. Counts(reservations[call[h].intent])
    BY <2>1, ApprovalPasses DEF Counts
  <2>3. QED
    BY <2>1, <2>2, ApprovalPasses DEF tables
<1>2. CASE ~LockApproval(h)
  <2> DEFINE i == call[h].intent
             m == reservations[i].mandate
  <2>1. pc[h] = "granting" /\ call'[h] = call[h] /\ mandates'[m] = mandates[m]
    BY <1>2, GrantingStep
  <2>2. /\ i \in Intents /\ reservations[i] # NoRow
        /\ reservations'[i].mandate = m
    BY <2>1, GrantedRow
  <2>3. /\ call[h].approve /\ call[h].now < challenges[i].expires
        /\ mandates[m] = "live" /\ call[h].now < Terms[m].notAfter
        /\ Accounted(i)
    BY <2>1 DEF GrantsStayValid
  <2>4. \A g \in Handlers : CommitHold(g) => call[g].req.intent # i
    BY <2>2, InsertedOnce
  <2>5. challenges'[i].expires = challenges[i].expires
    BY <2>2, <2>4, ReaperStep
  <2>6. ~Free(m)
    BY <2>1, Assumption DEF Assumption, Free, LocksHeld
  <2>7. ordered \subseteq ordered'
    BY ReaperStep DEF Settle
  <2>8. \/ Counts(reservations'[i])
        \/ /\ i \in ordered'
           /\ reservations'[i].state = "released"
           /\ reservations'[i].reason = "payment_failed"
    <3>1. reservations[i] \in Row
      BY <2>2 DEF TypeOK
    <3>2. CASE reservations'[i] = reservations[i]
      BY <2>3, <2>7, <3>2 DEF Accounted
    <3>3. CASE i \in ordered /\ reservations'[i] = Released(reservations[i], "payment_failed")
      <4>1. /\ Released(reservations[i], "payment_failed").state = "released"
            /\ Released(reservations[i], "payment_failed").reason = "payment_failed"
        BY <3>1 DEF Released, Row
      <4>2. QED
        BY <2>7, <3>3, <4>1
    <3>4. CASE reservations'[i] = [reservations[i] EXCEPT !.state = "captured"]
      BY <3>1, <3>4 DEF Row, Counts
    <3>5. ~Reap(i)
      BY <2>6 DEF Reap
    <3>6. QED
      BY <2>2, <2>4, <2>6, <3>2, <3>3, <3>4, <3>5, RowMoves
  <2>9. QED
    BY <2>1, <2>2, <2>3, <2>5, <2>8
<1>3. QED
  BY <1>1, <1>2

-----------------------------------------------------------------------------
(* The clock and the calls in flight. *)

(* Every step keeps calls within their time in flight. *)
LEMMA InFlightStep ==
  ASSUME TypeOK, LocksHeld, InFlight, [Next]_vars
  PROVE  InFlight'
<1> SUFFICES ASSUME NEW h \in Handlers, pc'[h] # "idle"
             PROVE  call'[h].now <= clock' /\ clock' <= call'[h].now + MaxInFlight
  BY DEF InFlight
<1> DEFINE Goal == call'[h].now <= clock' /\ clock' <= call'[h].now + MaxInFlight
<1>1. clock \in Nat /\ MaxInFlight \in Nat /\ call[h].now \in Nat
  BY Assumption DEF Assumption, TypeOK, Call
<1>2. ASSUME pc[h] # "idle", call'[h].now = call[h].now, clock' = clock
      PROVE  Goal
  BY <1>2 DEF InFlight
<1>3. ASSUME call'[h].now = clock, clock' = clock
      PROVE  Goal
  BY <1>1, <1>3
<1>4. ASSUME NEW r \in Requests, NEW v \in Verifiers, Receive(h, r, v)
      PROVE  Goal
  BY <1>3, <1>4 DEF TypeOK, Receive, NoCall
<1>5. ASSUME NEW i \in Intents, NEW b \in Answers, BeginApproval(h, i, b)
      PROVE  Goal
  BY <1>3, <1>5 DEF TypeOK, BeginApproval, NoCall
<1>6. CASE RetryLock(h)
  <2> DEFINE again == [call[h] EXCEPT !.attempts = @ + 1]
             anew == [again EXCEPT !.start = clock]
  <2>1. call[h] \in Call
    BY DEF TypeOK
  <2>2. again.now = call[h].now
    BY <2>1 DEF Call
  <2>3. anew.now = again.now
    OBVIOUS
  <2>4. h \in DOMAIN call
          /\ call'[h] = [anew EXCEPT !.challenge = IF pc[h] = "approving"
                                                   THEN challenges[call[h].intent].state
                                                   ELSE @]
    BY <1>6 DEF TypeOK, RetryLock
  <2>5. call'[h].now = anew.now
    BY <2>4
  <2>6. QED
    BY <1>2, <1>6, <2>2, <2>3, <2>5 DEF RetryLock, Blocked
<1>7. CASE UnknownMandate(h) \/ CommitDeny(h) \/ CommitConflict(h) \/ RefuseApproval(h)
           \/ GiveUpLock(h) \/ Settle(h) \/ Crash(h)
  BY <1>7 DEF TypeOK, UnknownMandate, CommitDeny, CommitConflict, RefuseApproval,
     GiveUpLock, Settle, Crash, Leave
<1>8. CASE LockMandate(h) \/ CommitHold(h) \/ LockApproval(h) \/ Approve(h)
  BY <1>2, <1>8 DEF TypeOK, LockMandate, CommitHold, LockApproval, Approve, Leave
<1>9. ASSUME NEW g \in Handlers \ {h},
             \/ \E r \in Requests, v \in Verifiers : Receive(g, r, v)
             \/ \E i \in Intents, b \in Answers : BeginApproval(g, i, b)
             \/ HandlerStep(g) \/ Crash(g)
      PROVE  Goal
  <2>1. pc'[h] = pc[h] /\ call'[h] = call[h] /\ clock' = clock
    BY <1>9 DEF TypeOK, HandlerStep, Receive, BeginApproval, UnknownMandate, LockMandate,
       CommitDeny, CommitHold, CommitConflict, LockApproval, Approve, RefuseApproval, RetryLock,
       GiveUpLock, Settle, Crash, Leave
  <2>2. QED
    BY <1>2, <2>1
<1>10. CASE Tick
  <2>1. pc[h] # "idle" /\ call'[h] = call[h] /\ clock' = clock + 1
    BY <1>10 DEF Tick, locals
  <2>2. clock < call[h].now + MaxInFlight /\ call[h].now <= clock
    BY <1>10, <2>1 DEF Tick, InFlight
  <2>3. QED
    BY <1>1, <2>1, <2>2
<1>11. ASSUME \/ (\E m \in Mandates : Revoke(m))
              \/ ExpireMandates \/ ScanChallenges \/ ScanReservations \/ WorkerCrash
              \/ (\E i \in Intents : \/ ExpireChallenge(i) \/ Reap(i)
                                    \/ captureReservation(i) \/ releaseSettled(i))
              \/ UNCHANGED vars
       PROVE  Goal
  <2>1. UNCHANGED <<locals, clock>>
    BY <1>11 DEF Revoke, ExpireMandates, ScanChallenges, ScanReservations,
       WorkerCrash, ExpireChallenge, Reap, captureReservation, releaseSettled, vars
  <2>2. QED
    BY <1>2, <2>1 DEF locals
<1>12. QED
  BY <1>4, <1>5, <1>6, <1>7, <1>8, <1>9, <1>10, <1>11 DEF Next, HandlerStep
-----------------------------------------------------------------------------
(* The inductive invariant, and what follows from it. *)

(* The inductive invariant holds initially. *)
LEMMA InitIInv ==
  ASSUME Init
  PROVE  IInv
<1>1. TypeOK
  BY TypeInit
<1>2. \A h \in Handlers : pc[h] = "idle"
  BY DEF Init
<1>3. LocksHeld /\ ReadsStayValid /\ GrantsStayValid /\ InFlight
  BY <1>2 DEF LocksHeld, ReadsStayValid, GrantsStayValid, InFlight
<1>4. RowsOwned
  BY DEF Init, RowsOwned, NoRow, Counts
<1>5. CumulativeCap /\ VelocityCap
  <2> SUFFICES ASSUME NEW m \in Mandates, NEW t \in 0..MaxClock
               PROVE  /\ Total(Amounts, InWindow(m, t, Terms[m].window))
                            <= Terms[m].cumulative
                      /\ Cardinality(InWindow(m, t, Hour)) <= Terms[m].velocity
    BY DEF CumulativeCap, VelocityCap
  <2>1. \A width : InWindow(m, t, width) = {}
    BY Assumption DEF Assumption, Init, NoRow, InWindow, CountedSince, Counts
  <2>2. Total(Amounts, {}) = 0 /\ Cardinality({}) = 0
    BY FS_EmptySet DEF Total
  <2>3. InWindow(m, t, Terms[m].window) = {} /\ InWindow(m, t, Hour) = {}
    BY <2>1
  <2>4. 0 <= Terms[m].cumulative /\ 0 <= Terms[m].velocity
    BY TermsType
  <2>5. QED
    BY <2>2, <2>3, <2>4
<1>6. QED
  BY <1>1, <1>3, <1>4, <1>5 DEF IInv

(* Every step preserves the inductive invariant. *)
LEMMA StepIInv ==
  ASSUME IInv, [Next]_vars
  PROVE  IInv'
<1>1. TypeOK'
  BY TypeStep DEF IInv
<1>2. LocksHeld'
  BY LocksHeldStep DEF IInv
<1>3. ReadsStayValid'
  BY <1>1, ReadsStep DEF IInv
<1>4. InFlight'
  BY InFlightStep DEF IInv
<1>5. CumulativeCap' /\ VelocityCap'
  BY <1>1, CapsStep DEF IInv
<1>6. RowsOwned'
  BY <1>1, RowsOwnedStep DEF IInv
<1>7. GrantsStayValid'
  BY GrantsStep DEF IInv
<1>8. QED
  BY <1>1, <1>2, <1>3, <1>4, <1>5, <1>6, <1>7 DEF IInv

(* IInv holds in every reachable state. *)
THEOREM Invariance == Spec => []IInv
<1>1. Init => IInv
  BY InitIInv
<1>2. IInv /\ [Next]_vars => IInv'
  BY StepIInv
<1>3. QED
  BY <1>1, <1>2, PTL DEF Spec

(* The state of the kernel, its tables and its jobs is well typed. *)
THEOREM TypeCorrect == Spec => []TypeOK
<1>1. IInv => TypeOK
  BY DEF IInv
<1>2. QED
  BY <1>1, Invariance, PTL

(* What a transaction read under the row lock is still true, on the safe   *)
(* side, when it commits.                                                  *)
THEOREM ReadsValid == Spec => []ReadsStayValid
<1>1. IInv => ReadsStayValid
  BY DEF IInv
<1>2. QED
  BY <1>1, Invariance, PTL

(* What an approval was decided on is still true when it commits, or the   *)
(* purchase was executed already and its payment failed.                   *)
THEOREM GrantsValid == Spec => []GrantsStayValid
<1>1. IInv => GrantsStayValid
  BY DEF IInv
<1>2. QED
  BY <1>1, Invariance, PTL

(* No rolling window of a mandate ever holds or captures more than its     *)
(* cumulative limit (LMT-002).                                             *)
THEOREM CapHolds == Spec => []CumulativeCap
<1>1. IInv => CumulativeCap
  BY DEF IInv
<1>2. QED
  BY <1>1, Invariance, PTL

(* No hour of a mandate ever has more counted purchases than its velocity  *)
(* (LMT-003).                                                              *)
THEOREM VelocityHolds == Spec => []VelocityCap
<1>1. IInv => VelocityCap
  BY DEF IInv
<1>2. QED
  BY <1>1, Invariance, PTL
-----------------------------------------------------------------------------
(* What a step may never do. *)

(* A new hold is the work of a committing authorisation, a new ALLOW that  *)
(* of one or of an accepted approval.                                      *)
LEMMA SpendingSteps ==
  ASSUME IInv, [Next]_vars, NEW i \in Intents, NewAllow(i) \/ NewHold(i)
  PROVE  \/ \E h \in Handlers : CommitHold(h) /\ call[h].req.intent = i
         \/ \E h \in Handlers : Approve(h) /\ call[h].intent = i
<1> DEFINE Goal == \/ \E h \in Handlers : CommitHold(h) /\ call[h].req.intent = i
                   \/ \E h \in Handlers : Approve(h) /\ call[h].intent = i
<1>1. allows[i] \in Nat /\ TypeOK /\ LocksHeld
  BY DEF IInv, TypeOK
<1>2. ASSUME allows'[i] = allows[i], reservations'[i] = reservations[i]
      PROVE  FALSE
  BY <1>1, <1>2 DEF NewAllow, NewHold
<1>3. ASSUME UNCHANGED allows, NEW j \in Intents, reservations[j] # NoRow,
             \A k \in Intents \ {j} : reservations'[k] = reservations[k]
      PROVE  FALSE
  BY <1>1, <1>3 DEF NewAllow, NewHold
<1>4. ~Counts(NoRow) /\ NoRow.state # "held"
  BY DEF NoRow, Counts
<1>5. ASSUME UNCHANGED allows, NEW j \in Intents, NEW reason \in Reasons,
             releaseReservation(j, reason)
      PROVE  FALSE
  BY <1>1, <1>2, <1>3, <1>4, <1>5 DEF TypeOK, releaseReservation
<1>6. ASSUME NEW h \in Handlers, CommitHold(h)
      PROVE  Goal
  <2> DEFINE j == call[h].req.intent
  <2>1. j \in Intents
    BY <1>1, <1>6, RequestType DEF CommitHold, LocksHeld
  <2>2. \A k \in Intents \ {j} : /\ reservations'[k] = reservations[k]
                                /\ allows'[k] = allows[k]
    BY <1>1, <1>6, <2>1 DEF TypeOK, CommitHold
  <2>3. QED
    BY <1>2, <1>6, <2>2
<1>7. ASSUME NEW h \in Handlers, Approve(h)
      PROVE  Goal
  <2>1. \A k \in Intents \ {call[h].intent} : /\ reservations'[k] = reservations[k]
                                             /\ allows'[k] = allows[k]
    BY <1>1, <1>7 DEF TypeOK, Approve
  <2>2. QED
    BY <1>2, <1>7, <2>1
<1>8. ASSUME NEW h \in Handlers, RefuseApproval(h)
      PROVE  FALSE
  <2> DEFINE j == call[h].intent
  <2>1. j \in Intents /\ UNCHANGED allows
    BY <1>1, <1>8 DEF RefuseApproval, LocksHeld
  <2>2. CASE reservations[j].state = "held"
    <3>1. \A k \in Intents \ {j} : reservations'[k] = reservations[k]
      BY <1>1, <1>8 DEF TypeOK, RefuseApproval
    <3>2. QED
      BY <1>3, <1>4, <2>1, <2>2, <3>1
  <2>3. CASE reservations[j].state # "held"
    BY <1>1, <1>2, <1>8, <2>1, <2>3 DEF TypeOK, RefuseApproval
  <2>4. QED
    BY <2>2, <2>3
<1>9. ASSUME NEW j \in Intents, captureReservation(j)
      PROVE  FALSE
  <2>1. \A k \in Intents \ {j} : reservations'[k] = reservations[k]
    BY <1>1, <1>9 DEF TypeOK, captureReservation
  <2>2. QED
    BY <1>3, <1>4, <1>9, <2>1 DEF captureReservation
<1>10. ASSUME NEW j \in Intents, ExpireChallenge(j) \/ Reap(j) \/ releaseSettled(j)
       PROVE  FALSE
  <2>1. /\ UNCHANGED allows
        /\ \/ UNCHANGED reservations
           \/ \E reason \in Reasons : releaseReservation(j, reason)
    BY <1>10 DEF ExpireChallenge, Reap, releaseSettled, Reasons
  <2>2. QED
    BY <1>2, <1>5, <2>1
<1>11. ASSUME NEW h \in Handlers,
              \/ \E r \in Requests, v \in Verifiers : Receive(h, r, v)
              \/ \E k \in Intents, b \in Answers : BeginApproval(h, k, b)
              \/ UnknownMandate(h) \/ LockMandate(h) \/ CommitDeny(h) \/ CommitConflict(h)
              \/ LockApproval(h) \/ RetryLock(h) \/ GiveUpLock(h) \/ Settle(h)
              \/ Crash(h)
       PROVE  FALSE
  <2>1. UNCHANGED <<allows, reservations>>
    BY <1>11 DEF Receive, BeginApproval, UnknownMandate, LockMandate, CommitDeny,
       CommitConflict, LockApproval, RetryLock, GiveUpLock, Settle, Crash, tables
  <2>2. QED
    BY <1>2, <2>1
<1>12. ASSUME \/ \E k \in Mandates : Revoke(k)
              \/ ExpireMandates \/ ScanChallenges \/ ScanReservations \/ WorkerCrash
              \/ Tick \/ UNCHANGED vars
       PROVE  FALSE
  <2>1. UNCHANGED <<allows, reservations>>
    BY <1>12 DEF Revoke, ExpireMandates, ScanChallenges, ScanReservations,
       WorkerCrash, Tick, tables, vars
  <2>2. QED
    BY <1>2, <2>1
<1>13. QED
  BY <1>6, <1>7, <1>8, <1>9, <1>10, <1>11, <1>12 DEF Next, HandlerStep

(* When such a step commits, the mandate is live in the database, its term *)
(* had not ended when the call arrived, and the amount is counted, or was  *)
(* spent already.                                                          *)
LEMMA SpendingIsBacked ==
  ASSUME IInv, [Next]_vars, NEW i \in Intents, NewAllow(i) \/ NewHold(i)
  PROVE  /\ reservations'[i].mandate \in Mandates
         /\ mandates[reservations'[i].mandate] = "live"
         /\ Accounted(i)'
         /\ \E h \in Handlers :
              pc[h] # "idle" /\ call[h].now < Terms[reservations'[i].mandate].notAfter
<1>1. ASSUME NEW h \in Handlers, CommitHold(h), call[h].req.intent = i
      PROVE  /\ reservations'[i].mandate \in Mandates
             /\ mandates[reservations'[i].mandate] = "live"
             /\ Accounted(i)'
             /\ pc[h] # "idle" /\ call[h].now < Terms[reservations'[i].mandate].notAfter
  <2>1. /\ reservations'[i].mandate = call[h].req.mandate
        /\ call[h].req.mandate \in Mandates /\ reservations'[i].state = "held"
    BY <1>1 DEF IInv, TypeOK, LocksHeld, CommitHold
  <2>2. /\ mandates[call[h].req.mandate] = "live"
        /\ call[h].now < Terms[call[h].req.mandate].notAfter
    BY <1>1, HoldIsChecked DEF IInv
  <2>3. QED
    BY <1>1, <2>1, <2>2 DEF CommitHold, Accounted, Counts
<1>2. ASSUME NEW h \in Handlers, Approve(h), call[h].intent = i
      PROVE  /\ reservations'[i].mandate \in Mandates
             /\ mandates[reservations'[i].mandate] = "live"
             /\ Accounted(i)'
             /\ pc[h] # "idle" /\ call[h].now < Terms[reservations'[i].mandate].notAfter
  BY <1>2 DEF Approve, IInv, LocksHeld, GrantsStayValid, Accounted
<1>3. QED
  BY <1>1, <1>2, SpendingSteps

(* No step spends on a revoked or expired mandate. *)
THEOREM RevocationHolds == Spec => NoSpendAfterRevoke
<1>1. IInv /\ [Next]_vars =>
        [\A i \in Intents : NewAllow(i) \/ NewHold(i) =>
            mandates[reservations'[i].mandate] = "live"]_vars
  BY SpendingIsBacked
<1>2. QED
  BY <1>1, Invariance, PTL DEF Spec, NoSpendAfterRevoke

(* An ALLOW is only committed on an amount the cap counts, or on one that  *)
(* was executed already and whose payment failed.                          *)
THEOREM AllowedIsCounted == Spec => AllowIsCounted
<1>1. IInv /\ [Next]_vars =>
        [\A i \in Intents : NewAllow(i) => Accounted(i)']_vars
  BY SpendingIsBacked
<1>2. QED
  BY <1>1, Invariance, PTL DEF Spec, AllowIsCounted

(* An ALLOW outlives the mandate by less than a call may be in flight. *)
THEOREM ValidityHolds == Spec => AllowNearValidity
<1>1. ASSUME IInv, [Next]_vars, NEW i \in Intents, NewAllow(i)
      PROVE  clock < Terms[reservations'[i].mandate].notAfter + MaxInFlight
  <2> DEFINE end == Terms[reservations'[i].mandate].notAfter
  <2>1. PICK h \in Handlers : pc[h] # "idle" /\ call[h].now < end
    BY <1>1, SpendingIsBacked
  <2>2. clock <= call[h].now + MaxInFlight
    BY <1>1, <2>1 DEF IInv, InFlight
  <2>3. clock \in Nat /\ call[h].now \in Nat /\ MaxInFlight \in Nat
    BY <1>1, Assumption DEF Assumption, IInv, TypeOK, Call
  <2>4. reservations'[i].mandate \in Mandates
    BY <1>1, SpendingIsBacked
  <2>5. end \in Int
    BY <2>4, TermsType
  <2> HIDE DEF end
  <2>6. clock < end + MaxInFlight
    BY <2>1, <2>2, <2>3, <2>5
  <2>7. QED
    BY <2>6 DEF end
<1>2. IInv /\ [Next]_vars =>
        [\A i \in Intents : NewAllow(i) =>
            clock < Terms[reservations'[i].mandate].notAfter + MaxInFlight]_vars
  BY <1>1
<1>3. QED
  BY <1>2, Invariance, PTL DEF Spec, AllowNearValidity
-----------------------------------------------------------------------------
(* Single use: what backs a reservation. *)

(* A request without a stateless failure asks for what its quote says. *)
LEMMA StatelessPasses ==
  ASSUME NEW r, NEW now, runStatelessChecks(r, now) = NoFailure
  PROVE  /\ QuoteTerms[r.quote].mandate = r.mandate
         /\ QuoteTerms[r.quote].amount = r.amount
<1> DEFINE quote == QuoteTerms[r.presented]
           checks ==
        << Check(r.agent \in Registered, "SEC-002"),
           Check(r.signed, "INT-001"),
           Check(now < r.expires, "INT-002"),
           Check(now < quote.expires, "INT-002"),
           Check(quote.mandate = r.mandate, "INT-004"),
           Check(r.amount = quote.amount, "INT-003"),
           Check(r.basket = quote.basket, "INT-003"),
           Check(r.quote = r.presented, "INT-004") >>
<1>1. DOMAIN checks = 1..8
  OBVIOUS
<1>2. \A n \in 1..8 : checks[n].code # NoFailure
  BY DEF Check, NoFailure
<1>3. runStatelessChecks(r, now) = FoldChecks(checks, NoFailure)
  BY DEF runStatelessChecks
<1>4. /\ checks[5].passed = (quote.mandate = r.mandate)
      /\ checks[6].passed = (r.amount = quote.amount)
      /\ checks[8].passed = (r.quote = r.presented)
  BY DEF Check
<1>5. \A n \in 1..8 : checks[n].passed
  <2> HIDE DEF checks
  <2>1. FoldChecks(checks, NoFailure) = NoFailure
    BY <1>3
  <2>2. DOMAIN checks \subseteq Nat /\ \A n \in DOMAIN checks : checks[n].code # NoFailure
    BY <1>1, <1>2
  <2>3. \A n \in DOMAIN checks : checks[n].passed
    BY <2>1, <2>2, FoldPasses
  <2>4. QED
    BY <1>1, <2>3
<1>6. checks[5].passed /\ checks[6].passed /\ checks[8].passed
  BY <1>5
<1>7. QED
  BY <1>4, <1>6

(* A nonce stays with the intent it was burned for. *)
LEMMA NoncesKept ==
  ASSUME IInv, [Next]_vars, NEW n \in Nonces, nonces[n] # None
  PROVE  nonces'[n] = nonces[n]
<1>1. TypeOK /\ LocksHeld /\ ReadsStayValid
  BY DEF IInv
<1>2. ASSUME NEW h \in Handlers, pc[h] = "locked", Burn(h)
      PROVE  nonces'[n] = nonces[n]
  <2>1. read[h].fresh => nonces[call[h].req.nonce] = None
    BY <1>1, <1>2 DEF ReadsStayValid
  <2>2. QED
    BY <1>1, <1>2, <2>1 DEF TypeOK, Burn
<1>3. ASSUME NEW h \in Handlers, CommitDeny(h) \/ CommitHold(h)
      PROVE  nonces'[n] = nonces[n]
  BY <1>2, <1>3 DEF CommitDeny, CommitHold
<1>4. ASSUME NEW h \in Handlers,
             \/ \E r \in Requests, v \in Verifiers : Receive(h, r, v)
             \/ \E k \in Intents, b \in Answers : BeginApproval(h, k, b)
             \/ UnknownMandate(h) \/ LockMandate(h) \/ CommitConflict(h)
             \/ LockApproval(h) \/ Approve(h) \/ RefuseApproval(h) \/ RetryLock(h)
             \/ GiveUpLock(h) \/ Settle(h) \/ Crash(h)
      PROVE  nonces'[n] = nonces[n]
  BY <1>4 DEF Receive, BeginApproval, UnknownMandate, LockMandate, CommitConflict,
     LockApproval, Approve, RefuseApproval, RetryLock, GiveUpLock, Settle, Crash, tables
<1>5. ASSUME \/ \E k \in Mandates : Revoke(k)
             \/ ExpireMandates \/ ScanChallenges \/ ScanReservations \/ WorkerCrash
             \/ (\E i \in Intents : \/ ExpireChallenge(i) \/ Reap(i)
                                   \/ captureReservation(i) \/ releaseSettled(i))
             \/ Tick \/ UNCHANGED vars
      PROVE  nonces'[n] = nonces[n]
  BY <1>5 DEF Revoke, ExpireMandates, ScanChallenges, ScanReservations, WorkerCrash,
     ExpireChallenge, Reap, captureReservation, releaseSettled, Tick, tables, vars
<1>6. QED
  BY <1>3, <1>4, <1>5 DEF Next, HandlerStep

(* Only CommitHold consumes a quote. *)
LEMMA QuotesStep ==
  ASSUME [Next]_vars
  PROVE  quotes' = quotes \/ \E h \in Handlers : CommitHold(h)
<1>1. ASSUME NEW h \in Handlers,
             \/ \E r \in Requests, v \in Verifiers : Receive(h, r, v)
             \/ \E k \in Intents, b \in Answers : BeginApproval(h, k, b)
             \/ UnknownMandate(h) \/ LockMandate(h) \/ CommitDeny(h) \/ CommitConflict(h)
             \/ LockApproval(h) \/ Approve(h) \/ RefuseApproval(h) \/ RetryLock(h)
             \/ GiveUpLock(h) \/ Settle(h) \/ Crash(h)
      PROVE  quotes' = quotes
  BY <1>1 DEF Receive, BeginApproval, UnknownMandate, LockMandate, CommitDeny,
     CommitConflict, LockApproval, Approve, RefuseApproval, RetryLock, GiveUpLock,
     Settle, Crash, tables
<1>2. ASSUME \/ \E k \in Mandates : Revoke(k)
             \/ ExpireMandates \/ ScanChallenges \/ ScanReservations \/ WorkerCrash
             \/ (\E i \in Intents : \/ ExpireChallenge(i) \/ Reap(i)
                                   \/ captureReservation(i) \/ releaseSettled(i))
             \/ Tick \/ UNCHANGED vars
      PROVE  quotes' = quotes
  BY <1>2 DEF Revoke, ExpireMandates, ScanChallenges, ScanReservations, WorkerCrash,
     ExpireChallenge, Reap, captureReservation, releaseSettled, Tick, tables, vars
<1>3. QED
  BY <1>1, <1>2 DEF Next, HandlerStep

(* A retried transaction keeps the request, its checks and its clock. *)
LEMMA RetriedCall ==
  ASSUME TypeOK, NEW h \in Handlers, RetryLock(h)
  PROVE  /\ pc'[h] = pc[h]
         /\ call'[h].req = call[h].req /\ call'[h].intent = call[h].intent
         /\ call'[h].stateless = call[h].stateless
         /\ call'[h].now = call[h].now /\ call'[h].start = clock
<1> DEFINE again == [call[h] EXCEPT !.attempts = @ + 1]
           anew == [again EXCEPT !.start = clock]
<1>1. call[h] \in Call
  BY DEF TypeOK
<1>2. /\ again.req = call[h].req /\ again.intent = call[h].intent
      /\ again.stateless = call[h].stateless /\ again.now = call[h].now
  BY <1>1 DEF Call
<1>3. /\ anew.req = again.req /\ anew.intent = again.intent
      /\ anew.stateless = again.stateless /\ anew.now = again.now
  OBVIOUS
<1>4. "start" \in DOMAIN again
  BY <1>1 DEF Call
<1>5. anew.start = clock
  BY <1>4
<1>6. h \in DOMAIN call
        /\ call'[h] = [anew EXCEPT !.challenge = IF pc[h] = "approving"
                                                 THEN challenges[call[h].intent].state
                                                 ELSE @]
  BY DEF TypeOK, RetryLock
<1>7. /\ call'[h].req = anew.req /\ call'[h].intent = anew.intent
      /\ call'[h].stateless = anew.stateless /\ call'[h].now = anew.now
      /\ call'[h].start = anew.start
  BY <1>6
<1> HIDE DEF again, anew
<1>8. QED
  BY <1>2, <1>3, <1>5, <1>7 DEF RetryLock

(* How the call of one handler changes: it begins, is retried, goes on, or *)
(* the handler is idle after the step.                                     *)
LEMMA CallStep ==
  ASSUME TypeOK, [Next]_vars, NEW h \in Handlers, pc'[h] # "idle"
  PROVE  \/ \E r \in Requests, v \in Verifiers : Receive(h, r, v)
         \/ \E i \in Intents, b \in Answers : BeginApproval(h, i, b)
         \/ RetryLock(h)
         \/ (LockMandate(h) \/ CommitHold(h) \/ LockApproval(h) \/ Approve(h))
              /\ call'[h] = call[h]
         \/ pc'[h] = pc[h] /\ call'[h] = call[h]
<1> DEFINE Same == pc'[h] = pc[h] /\ call'[h] = call[h]
<1>1. ASSUME NEW g \in Handlers \ {h},
             \/ \E r \in Requests, v \in Verifiers : Receive(g, r, v)
             \/ \E i \in Intents, b \in Answers : BeginApproval(g, i, b)
             \/ HandlerStep(g) \/ Crash(g)
      PROVE  Same
  BY <1>1 DEF TypeOK, HandlerStep, Receive, BeginApproval, UnknownMandate, LockMandate,
     CommitDeny, CommitHold, CommitConflict, LockApproval, Approve, RefuseApproval, RetryLock,
     GiveUpLock, Settle, Crash, Leave
<1>2. ASSUME UnknownMandate(h) \/ CommitDeny(h) \/ CommitConflict(h) \/ RefuseApproval(h)
             \/ GiveUpLock(h) \/ Settle(h) \/ Crash(h)
      PROVE  FALSE
  BY <1>2 DEF TypeOK, UnknownMandate, CommitDeny, CommitConflict, RefuseApproval,
     GiveUpLock, Settle, Crash, Leave
<1>3. ASSUME LockMandate(h) \/ CommitHold(h) \/ LockApproval(h) \/ Approve(h)
      PROVE  call'[h] = call[h]
  BY <1>3 DEF TypeOK, LockMandate, CommitHold, LockApproval, Approve, Leave
<1>4. ASSUME \/ (\E m \in Mandates : Revoke(m))
             \/ ExpireMandates \/ ScanChallenges \/ ScanReservations \/ WorkerCrash
             \/ (\E i \in Intents : \/ ExpireChallenge(i) \/ Reap(i)
                                   \/ captureReservation(i) \/ releaseSettled(i))
             \/ Tick \/ UNCHANGED vars
      PROVE  Same
  <2>1. UNCHANGED locals
    BY <1>4 DEF Revoke, ExpireMandates, ScanChallenges, ScanReservations, WorkerCrash,
       ExpireChallenge, Reap, captureReservation, releaseSettled, Tick, vars
  <2>2. QED
    BY <2>1 DEF locals
<1> HIDE DEF Same
<1>5. \/ \E r \in Requests, v \in Verifiers : Receive(h, r, v)
      \/ \E i \in Intents, b \in Answers : BeginApproval(h, i, b)
      \/ RetryLock(h)
      \/ (LockMandate(h) \/ CommitHold(h) \/ LockApproval(h) \/ Approve(h))
              /\ call'[h] = call[h]
      \/ Same
  BY <1>1, <1>2, <1>3, <1>4 DEF Next, HandlerStep
<1>6. QED
  BY <1>5 DEF Same

(* Every step keeps the outcome of the stateless checks. *)
LEMMA StatelessStep ==
  ASSUME TypeOK, StatelessKept, [Next]_vars
  PROVE  StatelessKept'
<1> SUFFICES ASSUME NEW h \in Handlers, pc'[h] \in {"waiting", "locked"}
             PROVE  call'[h].stateless = runStatelessChecks(call'[h].req, call'[h].now)
  BY DEF StatelessKept, runStatelessChecks
<1> DEFINE Goal == call'[h].stateless = runStatelessChecks(call'[h].req, call'[h].now)
<1>1. ASSUME NEW r \in Requests, NEW v \in Verifiers, Receive(h, r, v)
      PROVE  Goal
  <2>1. call'[h] = [NoCall EXCEPT !.req = r, !.intent = r.intent, !.verifier = v,
                          !.stateless = runStatelessChecks(r, clock), !.now = clock,
                          !.start = clock, !.attempts = 1]
    BY <1>1 DEF TypeOK, Receive
  <2>2. /\ call'[h].req = r /\ call'[h].now = clock
        /\ call'[h].stateless = runStatelessChecks(r, clock)
    BY <2>1 DEF NoCall
  <2>3. QED
    BY <2>2
<1>2. ASSUME NEW i \in Intents, NEW b \in Answers, BeginApproval(h, i, b)
      PROVE  FALSE
  BY <1>2 DEF TypeOK, BeginApproval
<1>3. CASE RetryLock(h)
  <2>1. /\ pc[h] \in {"waiting", "locked"} /\ call'[h].req = call[h].req
        /\ call'[h].stateless = call[h].stateless /\ call'[h].now = call[h].now
    BY <1>3, RetriedCall
  <2>2. QED
    BY <2>1 DEF StatelessKept
<1>4. ASSUME call'[h] = call[h], pc[h] \in {"waiting", "locked"}
      PROVE  Goal
  BY <1>4 DEF StatelessKept
<1>5. CASE LockMandate(h) /\ call'[h] = call[h]
  BY <1>4, <1>5 DEF LockMandate
<1>6. CASE CommitHold(h) \/ LockApproval(h) \/ Approve(h)
  BY <1>6 DEF TypeOK, CommitHold, LockApproval, Approve, Leave
<1>7. QED
  BY <1>1, <1>2, <1>3, <1>4, <1>5, <1>6, CallStep

(* A hold is only inserted for what its quote says, and burns its nonce.   *)
LEMMA HoldIsQuoted ==
  ASSUME TypeOK, LocksHeld, StatelessKept, NEW h \in Handlers, CommitHold(h)
  PROVE  LET r == call[h].req
         IN  /\ QuoteTerms[r.quote].mandate = r.mandate
             /\ QuoteTerms[r.quote].amount = r.amount
             /\ r.quote \in Quotes /\ r.nonce \in Nonces
             /\ nonces'[r.nonce] = r.intent
             /\ quotes' = [quotes EXCEPT ![r.quote] = r.intent]
             /\ reservations'[r.intent].mandate = r.mandate
             /\ reservations'[r.intent].amount = r.amount
             /\ reservations'[r.intent].state = "held"
<1> DEFINE r == call[h].req
           f == Facts(h)
<1>1. pc[h] = "locked" /\ Verdict(f) # "DENY" /\ Burn(h)
  BY DEF CommitHold
<1>2. f.stateless = call[h].stateless /\ f.nonceSpent = ~read[h].fresh
  BY DEF Facts
<1>3. StatelessDenies(f)
  <2>1. call[h].stateless \in {NoFailure} \cup StatelessCodes
    BY DEF TypeOK, Call
  <2>2. QED
    BY <1>2, <2>1 DEF StatelessDenies, StatelessCodes, VerdictFor, StepUpCodes
<1> HIDE DEF f
<1>4. f.stateless = NoFailure /\ ~f.nonceSpent
  BY <1>1, <1>3, NotDeniedFacts
<1>5. runStatelessChecks(r, call[h].now) = NoFailure
  BY <1>1, <1>2, <1>4 DEF StatelessKept
<1>6. QuoteTerms[r.quote].mandate = r.mandate /\ QuoteTerms[r.quote].amount = r.amount
  BY <1>5, StatelessPasses
<1>7. /\ r \in Requests /\ call[h].intent = r.intent /\ r.intent \in Intents
      /\ r.quote \in Quotes /\ r.nonce \in Nonces
  BY InsertedOnce, Assumption DEF Assumption
<1>8. nonces'[r.nonce] = r.intent
  <2>1. read[h].fresh
    BY <1>2, <1>4
  <2>2. QED
    BY <1>1, <1>7, <2>1 DEF Burn, TypeOK
<1>9. /\ quotes' = [quotes EXCEPT ![r.quote] = r.intent]
      /\ reservations'[r.intent].mandate = r.mandate
      /\ reservations'[r.intent].amount = r.amount
      /\ reservations'[r.intent].state = "held"
  BY <1>7 DEF CommitHold, TypeOK
<1>10. QED
  BY <1>6, <1>7, <1>8, <1>9

Backed(i) ==
  /\ \E n \in Nonces : nonces[n] = i
  /\ \E q \in Quotes : /\ quotes[q] = i
                       /\ QuoteTerms[q].mandate = reservations[i].mandate
                       /\ QuoteTerms[q].amount = reservations[i].amount
                       /\ \A p \in Quotes : quotes[p] = i => p = q

(* What backs a reservation backs it for good, and a consumed quote has    *)
(* paid for one.                                                           *)
LEMMA BackedStep ==
  ASSUME BackedInv, [Next]_vars
  PROVE  HoldIsBacked'
<1>1. TypeOK /\ LocksHeld /\ StatelessKept /\ HoldIsBacked
  BY DEF BackedInv, IInv
<1>2. None \notin Intents
  BY Assumption DEF Assumption
<1>3. ASSUME NEW i \in Intents, reservations[i] # NoRow, NEW n \in Nonces, nonces[n] = i
      PROVE  nonces'[n] = i
  BY <1>2, <1>3, NoncesKept DEF BackedInv
<1>4. ASSUME NEW h \in Handlers, CommitHold(h)
      PROVE  HoldIsBacked'
  <2> DEFINE r == call[h].req
  <2>1. /\ r.intent \in Intents /\ reservations[r.intent] = NoRow
        /\ quotes[r.quote] = None
    BY <1>1, <1>4, InsertedOnce
  <2>2. /\ QuoteTerms[r.quote].mandate = r.mandate /\ QuoteTerms[r.quote].amount = r.amount
        /\ r.quote \in Quotes /\ r.nonce \in Nonces /\ nonces'[r.nonce] = r.intent
        /\ quotes' = [quotes EXCEPT ![r.quote] = r.intent]
        /\ reservations'[r.intent].mandate = r.mandate
        /\ reservations'[r.intent].amount = r.amount
        /\ reservations'[r.intent].state = "held"
    BY <1>1, <1>4, HoldIsQuoted
  <2>3. \A q \in Quotes : quotes[q] # r.intent
    BY <1>1, <1>2, <2>1 DEF HoldIsBacked
  <2>4. /\ quotes'[r.quote] = r.intent
        /\ \A q \in Quotes \ {r.quote} : quotes'[q] = quotes[q]
    BY <1>1, <2>2 DEF TypeOK
  <2>5. \A i \in Intents \ {r.intent} : reservations'[i] = reservations[i]
    BY <1>1, <1>4, <2>1 DEF TypeOK, CommitHold
  <2>6. reservations'[r.intent] # NoRow
    BY <2>2 DEF NoRow
  <2>7. ASSUME NEW i \in Intents, reservations'[i] # NoRow
        PROVE  Backed(i)'
    <3>1. CASE i = r.intent
      BY <2>2, <2>3, <2>4, <3>1 DEF Backed
    <3>2. CASE i # r.intent
      <4>1. reservations[i] # NoRow /\ reservations'[i] = reservations[i]
        BY <2>5, <2>7, <3>2
      <4>2. Backed(i)
        BY <1>1, <4>1 DEF HoldIsBacked, Backed
      <4>3. \E n \in Nonces : nonces'[n] = i
        BY <1>3, <4>1, <4>2 DEF Backed
      <4>4. PICK q \in Quotes : /\ quotes[q] = i
                               /\ QuoteTerms[q].mandate = reservations[i].mandate
                               /\ QuoteTerms[q].amount = reservations[i].amount
                               /\ \A p \in Quotes : quotes[p] = i => p = q
        BY <4>2 DEF Backed
      <4>5. q # r.quote
        BY <1>2, <2>1, <4>4
      <4>6. quotes'[q] = i /\ \A p \in Quotes : quotes'[p] = i => p = q
        BY <2>4, <3>2, <4>4, <4>5
      <4>7. QED
        BY <4>1, <4>3, <4>4, <4>6 DEF Backed
    <3>3. QED
      BY <3>1, <3>2
  <2>8. ASSUME NEW q \in Quotes, quotes'[q] # None
        PROVE  reservations'[quotes'[q]] # NoRow
    <3>1. CASE q = r.quote
      BY <2>4, <2>6, <3>1
    <3>2. CASE q # r.quote
      <4>1. quotes[q] # None /\ quotes'[q] = quotes[q] /\ quotes[q] \in Intents
        BY <1>1, <2>4, <2>8, <3>2 DEF TypeOK
      <4>2. reservations[quotes[q]] # NoRow
        BY <1>1, <4>1 DEF HoldIsBacked
      <4>3. QED
        BY <2>1, <2>5, <4>1, <4>2
    <3>3. QED
      BY <3>1, <3>2
  <2>9. QED
    BY <2>7, <2>8 DEF HoldIsBacked, Backed
<1>5. ASSUME \A h \in Handlers : ~CommitHold(h)
      PROVE  HoldIsBacked'
  <2>1. quotes' = quotes
    BY <1>5, QuotesStep
  <2>2. ASSUME NEW i \in Intents, reservations'[i] # NoRow
        PROVE  Backed(i)'
    <3>1. reservations[i] # NoRow
      <4>1. ~Counts(NoRow) /\ NoRow.state # "held"
        BY DEF NoRow, Counts
      <4>2. QED
        BY <1>1, <1>5, <2>2, <4>1, RowMoves
    <3>2. /\ reservations'[i].mandate = reservations[i].mandate
          /\ reservations'[i].amount = reservations[i].amount
      BY <1>1, <3>1, RowKept
    <3>3. Backed(i)
      BY <1>1, <3>1 DEF HoldIsBacked, Backed
    <3>4. \E n \in Nonces : nonces'[n] = i
      BY <1>3, <3>1, <3>3 DEF Backed
    <3>5. QED
      BY <2>1, <3>2, <3>3, <3>4 DEF Backed
  <2>3. ASSUME NEW q \in Quotes, quotes'[q] # None
        PROVE  reservations'[quotes'[q]] # NoRow
    <3>1. quotes[q] # None /\ quotes'[q] = quotes[q] /\ quotes[q] \in Intents
      BY <1>1, <2>1, <2>3 DEF TypeOK
    <3>2. reservations[quotes[q]] # NoRow
      BY <1>1, <3>1 DEF HoldIsBacked
    <3>3. QED
      BY <1>1, <3>1, <3>2, RowKept
  <2>4. QED
    BY <2>2, <2>3 DEF HoldIsBacked, Backed
<1>6. QED
  BY <1>4, <1>5

(* Every reservation is backed by one consumed quote of its own mandate    *)
(* and amount and by a nonce burned for its intent (INV-06, INV-14).       *)
THEOREM BackedHolds == Spec => []HoldIsBacked
<1>1. Init => BackedInv
  <2> SUFFICES ASSUME Init PROVE BackedInv
    OBVIOUS
  <2>1. IInv
    BY InitIInv
  <2>2. StatelessKept
    BY DEF Init, StatelessKept
  <2>3. HoldIsBacked
    BY DEF Init, HoldIsBacked
  <2>4. QED
    BY <2>1, <2>2, <2>3 DEF BackedInv
<1>2. BackedInv /\ [Next]_vars => BackedInv'
  <2> SUFFICES ASSUME BackedInv, [Next]_vars PROVE BackedInv'
    OBVIOUS
  <2>1. IInv'
    BY StepIInv DEF BackedInv
  <2>2. StatelessKept'
    BY StatelessStep DEF BackedInv, IInv
  <2>3. HoldIsBacked'
    BY BackedStep
  <2>4. QED
    BY <2>1, <2>2, <2>3 DEF BackedInv
<1>3. BackedInv => HoldIsBacked
  BY DEF BackedInv
<1>4. QED
  BY <1>1, <1>2, <1>3, PTL DEF Spec
-----------------------------------------------------------------------------
(* The reaper and the executor. *)

(* The clock, the TTLs and the times a handler and a row carry. *)
LEMMA Times ==
  ASSUME TypeOK
  PROVE  /\ clock \in Nat /\ MaxInFlight \in Nat
         /\ ReservationTtl \in Nat /\ ChallengeTtl \in Nat
         /\ \A h \in Handlers : call[h].now \in Nat /\ call[h].start \in Nat
         /\ \A i \in Intents : reservations[i].created \in Nat /\ challenges[i].expires \in Nat
  BY Assumption DEF Assumption, TypeOK, Call, Row, Challenge

(* Every step keeps a transaction's begin after its call's arrival. *)
LEMMA StartsStep ==
  ASSUME TypeOK, InFlight, StartsAfterEntry, [Next]_vars
  PROVE  StartsAfterEntry'
<1> SUFFICES ASSUME NEW h \in Handlers, pc'[h] # "idle"
             PROVE  call'[h].now <= call'[h].start
  BY DEF StartsAfterEntry
<1> DEFINE Goal == call'[h].now <= call'[h].start
<1>1. clock \in Nat
  BY Times
<1>2. ASSUME pc[h] # "idle", call'[h] = call[h]
      PROVE  Goal
  BY <1>2 DEF StartsAfterEntry
<1>3. ASSUME NEW r \in Requests, NEW v \in Verifiers, Receive(h, r, v)
      PROVE  Goal
  <2>1. call'[h].now = clock /\ call'[h].start = clock
    BY <1>3 DEF TypeOK, Receive, NoCall
  <2>2. QED
    BY <1>1, <2>1
<1>4. ASSUME NEW i \in Intents, NEW b \in Answers, BeginApproval(h, i, b)
      PROVE  Goal
  <2>1. call'[h].now = clock /\ call'[h].start = clock
    BY <1>4 DEF TypeOK, BeginApproval, NoCall
  <2>2. QED
    BY <1>1, <2>1
<1>5. CASE RetryLock(h)
  <2>1. pc[h] # "idle" /\ call'[h].now = call[h].now /\ call'[h].start = clock
    BY <1>5, RetriedCall DEF RetryLock, Blocked
  <2>2. call[h].now <= clock
    BY <2>1 DEF InFlight
  <2>3. QED
    BY <2>1, <2>2
<1>6. CASE (LockMandate(h) \/ CommitHold(h) \/ LockApproval(h) \/ Approve(h))
              /\ call'[h] = call[h]
  BY <1>2, <1>6 DEF LockMandate, CommitHold, LockApproval, Approve
<1>7. CASE pc'[h] = pc[h] /\ call'[h] = call[h]
  BY <1>2, <1>7
<1>8. QED
  BY <1>3, <1>4, <1>5, <1>6, <1>7, CallStep

(* Every step keeps challenges on holds that are as young.                 *)
LEMMA ChallengesStep ==
  ASSUME TypeOK, TypeOK', LocksHeld, StartsAfterEntry, ChallengesOnHolds, [Next]_vars
  PROVE  ChallengesOnHolds'
<1> SUFFICES ASSUME NEW i \in Intents, challenges'[i].expires # 0
             PROVE  /\ reservations'[i].state # "none"
                    /\ challenges'[i].expires <= reservations'[i].created + ChallengeTtl
  BY DEF ChallengesOnHolds, Reserved
<1>1. CASE challenges'[i].expires = challenges[i].expires
  <2>1. /\ reservations[i].state # "none"
        /\ challenges[i].expires <= reservations[i].created + ChallengeTtl
    BY <1>1 DEF ChallengesOnHolds, Reserved
  <2>2. reservations[i] # NoRow
    BY <2>1 DEF NoRow
  <2>3. reservations'[i].state # "none" /\ reservations'[i].created = reservations[i].created
    BY <2>1, <2>2, RowKept
  <2>4. QED
    BY <1>1, <2>1, <2>3
<1>2. ASSUME NEW h \in Handlers, CommitHold(h), call[h].req.intent = i,
             challenges'[i].expires = call[h].now + ChallengeTtl
      PROVE  /\ reservations'[i].state # "none"
             /\ challenges'[i].expires <= reservations'[i].created + ChallengeTtl
  <2>1. reservations'[i].state = "held" /\ reservations'[i].created = call[h].start
    BY <1>2 DEF CommitHold, TypeOK
  <2>2. call[h].now <= call[h].start
    BY <1>2 DEF CommitHold, StartsAfterEntry
  <2>3. call[h].now \in Nat /\ call[h].start \in Nat /\ ChallengeTtl \in Nat
    BY Times
  <2>4. QED
    BY <1>2, <2>1, <2>2, <2>3
<1>3. QED
  BY <1>1, <1>2, ReaperStep

(* Every step keeps the hold of a handler that is to settle. *)
LEMMA SettlesHoldStep ==
  ASSUME TypeOK, LocksHeld, GrantsStayValid, SettlesHold, [Next]_vars
  PROVE  SettlesHold'
<1> SUFFICES ASSUME NEW h \in Handlers, pc'[h] = "settling"
             PROVE  reservations'[call'[h].intent].state # "none"
  BY DEF SettlesHold, Reserved
<1> DEFINE i == call[h].intent
<1>1. ASSUME \/ \E r \in Requests, v \in Verifiers : Receive(h, r, v)
             \/ \E k \in Intents, b \in Answers : BeginApproval(h, k, b)
             \/ LockMandate(h) \/ LockApproval(h)
      PROVE  FALSE
  BY <1>1 DEF TypeOK, Receive, BeginApproval, LockMandate, LockApproval
<1>2. ASSUME RetryLock(h)
      PROVE  FALSE
  BY <1>2 DEF RetryLock, Blocked
<1>3. CASE CommitHold(h) /\ call'[h] = call[h]
  <2>1. call[h].req.intent = i /\ i \in Intents
    BY <1>3, InsertedOnce
  <2>2. reservations'[i].state = "held"
    BY <1>3, <2>1 DEF CommitHold, TypeOK
  <2>3. QED
    BY <1>3, <2>2
<1>4. CASE Approve(h) /\ call'[h] = call[h]
  <2>1. UNCHANGED reservations /\ Accounted(i)
    BY <1>4 DEF Approve, GrantsStayValid
  <2>2. reservations[i].state # "none"
    BY <2>1 DEF Accounted, Counts
  <2>3. QED
    BY <1>4, <2>1, <2>2
<1>5. CASE pc'[h] = pc[h] /\ call'[h] = call[h]
  <2>1. i \in Intents /\ reservations[i].state # "none"
    BY <1>5 DEF LocksHeld, SettlesHold, Reserved
  <2>2. reservations[i] # NoRow
    BY <2>1 DEF NoRow
  <2>3. QED
    BY <1>5, <2>1, <2>2, RowKept
<1>6. QED
  BY <1>1, <1>2, <1>3, <1>4, <1>5, CallStep

(* Every step keeps a handler that is to settle in time for its hold.      *)
LEMMA SettlesStep ==
  ASSUME TtlsApart, TypeOK, LocksHeld, GrantsStayValid, StartsAfterEntry, ChallengesOnHolds,
         SettlesHold, SettlesInTime, [Next]_vars
  PROVE  SettlesInTime'
<1> SUFFICES ASSUME NEW h \in Handlers, pc'[h] = "settling"
             PROVE  call'[h].now + MaxInFlight
                      <= reservations'[call'[h].intent].created + ReservationTtl
  BY DEF SettlesInTime
<1> DEFINE i == call[h].intent
           now == call[h].now
<1>1. ASSUME \/ \E r \in Requests, v \in Verifiers : Receive(h, r, v)
             \/ \E k \in Intents, b \in Answers : BeginApproval(h, k, b)
             \/ LockMandate(h) \/ LockApproval(h)
      PROVE  FALSE
  BY <1>1 DEF TypeOK, Receive, BeginApproval, LockMandate, LockApproval
<1>2. ASSUME RetryLock(h)
      PROVE  FALSE
  BY <1>2 DEF RetryLock, Blocked
<1>3. CASE CommitHold(h) /\ call'[h] = call[h]
  <2>1. call[h].req.intent = i /\ i \in Intents
    BY <1>3, InsertedOnce
  <2>2. reservations'[i].state = "held" /\ reservations'[i].created = call[h].start
    BY <1>3, <2>1 DEF CommitHold, TypeOK
  <2>3. now <= call[h].start
    BY <1>3 DEF CommitHold, StartsAfterEntry
  <2>4. /\ now \in Nat /\ call[h].start \in Nat
        /\ MaxInFlight \in Nat /\ ReservationTtl \in Nat
    BY Times
  <2>5. now + MaxInFlight <= call[h].start + ReservationTtl
    BY <2>3, <2>4 DEF TtlsApart
  <2>6. QED
    BY <1>3, <2>2, <2>5
<1>4. CASE Approve(h) /\ call'[h] = call[h]
  <2>1. i \in Intents /\ UNCHANGED reservations
    BY <1>4 DEF Approve, LocksHeld
  <2>2. now < challenges[i].expires
    BY <1>4 DEF Approve, GrantsStayValid
  <2>3. /\ now \in Nat /\ challenges[i].expires \in Nat /\ reservations[i].created \in Nat
        /\ MaxInFlight \in Nat /\ ReservationTtl \in Nat /\ ChallengeTtl \in Nat
    BY <2>1, Times
  <2>4. challenges[i].expires <= reservations[i].created + ChallengeTtl
    BY <2>1, <2>2, <2>3 DEF ChallengesOnHolds
  <2>5. now + MaxInFlight <= reservations[i].created + ReservationTtl
    BY <2>2, <2>3, <2>4 DEF TtlsApart
  <2>6. QED
    BY <1>4, <2>1, <2>2, <2>5
<1>5. CASE pc'[h] = pc[h] /\ call'[h] = call[h]
  <2>1. /\ i \in Intents /\ reservations[i].state # "none"
        /\ now + MaxInFlight <= reservations[i].created + ReservationTtl
    BY <1>5 DEF LocksHeld, SettlesHold, SettlesInTime, Reserved
  <2>2. reservations[i] # NoRow
    BY <2>1 DEF NoRow
  <2>3. reservations'[i].state # "none" /\ reservations'[i].created = reservations[i].created
    BY <2>1, <2>2, RowKept
  <2>4. QED
    BY <1>5, <2>1, <2>3
<1>6. QED
  BY <1>1, <1>2, <1>3, <1>4, <1>5, CallStep

(* A stale reservation stays stale. *)
LEMMA StaysStale ==
  ASSUME TypeOK, LocksHeld, [Next]_vars, NEW i \in Intents, Reserved(i), Stale(i)
  PROVE  Reserved(i)' /\ Stale(i)'
<1>1. reservations[i] # NoRow /\ reservations[i].state # "none"
  BY DEF Reserved, NoRow
<1>2. reservations'[i].state # "none" /\ reservations'[i].created = reservations[i].created
  BY <1>1, RowKept
<1>3. clock \in Nat /\ reservations[i].created \in Nat /\ ReservationTtl \in Nat
  BY Times
<1>4. clock' = clock \/ clock' = clock + 1
  BY ReaperStep
<1>5. reservations[i].created + ReservationTtl < clock'
  BY <1>3, <1>4 DEF Stale
<1>6. QED
  BY <1>2, <1>5 DEF Reserved, Stale

(* A row that becomes marked as reaped was on the reaper's list and had no *)
(* order.                                                                  *)
LEMMA MarkedByReaper ==
  ASSUME TypeOK, LocksHeld, [Next]_vars, NEW i \in Intents,
         reservations'[i].reason = "reaped", reservations[i].reason # "reaped"
  PROVE  i \in reaping /\ i \notin ordered /\ UNCHANGED <<clock, ordered>>
<1>1. CASE reservations[i] # NoRow
  <2>1. Reap(i) /\ i \notin ordered
    BY <1>1, RowKept
  <2>2. QED
    BY <2>1 DEF Reap
<1>2. CASE reservations[i] = NoRow
  <2>1. ~Counts(reservations[i]) /\ reservations[i].state # "held"
    BY <1>2 DEF NoRow, Counts
  <2>2. ASSUME NEW h \in Handlers, CommitHold(h), call[h].req.intent = i
        PROVE  FALSE
    <3>1. reservations'[i].reason = "none"
      BY <2>2 DEF CommitHold, TypeOK
    <3>2. QED
      BY <3>1
  <2>3. reservations'[i] = reservations[i]
    BY <2>1, <2>2, RowMoves
  <2>4. QED
    BY <2>3
<1>3. QED
  BY <1>1, <1>2

(* Every step keeps the reaper to stale rows without an order, and the     *)
(* executor off the rows that were reaped.                                 *)
LEMMA ReapStep ==
  ASSUME TypeOK, LocksHeld, InFlight, TooLateToExecute, SettlesInTime,
         ReapedNeverExecuted, [Next]_vars
  PROVE  TooLateToExecute' /\ ReapedNeverExecuted'
<1>1. ASSUME NEW i \in reaping'
      PROVE  Reserved(i)' /\ Stale(i)'
  <2>1. CASE i \in reaping
    <3>1. i \in Intents /\ Reserved(i) /\ Stale(i)
      BY <2>1 DEF TooLateToExecute, TypeOK
    <3>2. QED
      BY <3>1, StaysStale
  <2>2. CASE i \notin reaping
    <3>1. ScanReservations
      BY <1>1, <2>2, ReaperStep
    <3>2. /\ i \in Intents /\ reservations[i].state = "held"
          /\ reservations[i].created < clock - ReservationTtl
      BY <1>1, <2>2, <3>1 DEF ScanReservations
    <3>3. clock \in Nat /\ reservations[i].created \in Nat /\ ReservationTtl \in Nat
      BY <3>2, Times
    <3>4. Reserved(i) /\ Stale(i)
      BY <3>2, <3>3 DEF Reserved, Stale
    <3>5. QED
      BY <3>2, <3>4, StaysStale
  <2>3. QED
    BY <2>1, <2>2
<1>2. ASSUME NEW i \in Intents, reservations'[i].reason = "reaped"
      PROVE  Reserved(i)' /\ Stale(i)' /\ i \notin ordered'
  <2>1. CASE reservations[i].reason = "reaped"
    <3>1. Reserved(i) /\ Stale(i) /\ i \notin ordered
      BY <2>1 DEF TooLateToExecute, ReapedNeverExecuted
    <3>2. ASSUME NEW h \in Handlers, Settle(h), call[h].intent = i
          PROVE  FALSE
      <4>1. pc[h] = "settling"
        BY <3>2 DEF Settle
      <4>2. /\ call[h].now + MaxInFlight <= reservations[i].created + ReservationTtl
            /\ clock <= call[h].now + MaxInFlight
        BY <3>2, <4>1 DEF SettlesInTime, InFlight
      <4>3. /\ clock \in Nat /\ reservations[i].created \in Nat /\ ReservationTtl \in Nat
            /\ call[h].now \in Nat /\ MaxInFlight \in Nat
        BY Times
      <4>4. QED
        BY <3>1, <4>2, <4>3 DEF Stale
    <3>3. i \notin ordered'
      <4>1. \A h \in Handlers : Settle(h) => ordered' = ordered \cup {call[h].intent}
        BY DEF Settle
      <4>2. QED
        BY <3>1, <3>2, <4>1, ReaperStep
    <3>4. QED
      BY <3>1, <3>3, StaysStale
  <2>2. CASE reservations[i].reason # "reaped"
    <3>1. i \in reaping /\ i \notin ordered'
      BY <1>2, <2>2, MarkedByReaper
    <3>2. Reserved(i) /\ Stale(i)
      BY <3>1 DEF TooLateToExecute
    <3>3. QED
      BY <3>1, <3>2, StaysStale
  <2>3. QED
    BY <2>1, <2>2
<1>3. QED
  BY <1>1, <1>2 DEF TooLateToExecute, ReapedNeverExecuted, Reserved, Stale

(* When a call, and an answer to a challenge, end before the hold is stale *)
(* -- as five and fifteen minutes do --, an intent whose reservation was   *)
(* reaped is never executed (INV-20).                                      *)
THEOREM ReapedHolds ==
  ASSUME TtlsApart
  PROVE  Spec => []ReapedNeverExecuted
<1>1. Init => ReapInv
  <2> SUFFICES ASSUME Init PROVE ReapInv
    OBVIOUS
  <2>1. IInv
    BY InitIInv
  <2>2. TooLateToExecute /\ ReapedNeverExecuted
    BY DEF Init, TooLateToExecute, ReapedNeverExecuted, NoRow
  <2>3. SettlesHold /\ SettlesInTime /\ StartsAfterEntry
    BY DEF Init, SettlesHold, SettlesInTime, StartsAfterEntry
  <2>4. ChallengesOnHolds
    BY DEF Init, ChallengesOnHolds, NoChallenge
  <2>5. QED
    BY <2>1, <2>2, <2>3, <2>4 DEF ReapInv
<1>2. ReapInv /\ [Next]_vars => ReapInv'
  <2> SUFFICES ASSUME ReapInv, [Next]_vars PROVE ReapInv'
    OBVIOUS
  <2>1. IInv' /\ TypeOK'
    BY StepIInv DEF ReapInv, IInv
  <2>2. /\ TypeOK /\ LocksHeld /\ GrantsStayValid /\ InFlight
        /\ SettlesHold /\ TooLateToExecute
        /\ SettlesInTime /\ ChallengesOnHolds /\ StartsAfterEntry /\ ReapedNeverExecuted
    BY DEF ReapInv, IInv
  <2>3. TooLateToExecute' /\ ReapedNeverExecuted'
    BY <2>2, ReapStep
  <2>4. SettlesHold' /\ SettlesInTime'
    BY <2>2, SettlesHoldStep, SettlesStep
  <2>5. ChallengesOnHolds'
    BY <2>1, <2>2, ChallengesStep
  <2>6. StartsAfterEntry'
    BY <2>2, StartsStep
  <2>7. QED
    BY <2>1, <2>3, <2>4, <2>5, <2>6 DEF ReapInv
<1>3. ReapInv => ReapedNeverExecuted
  BY DEF ReapInv
<1>4. QED
  BY <1>1, <1>2, <1>3, PTL DEF Spec
-----------------------------------------------------------------------------
(* The holds the two halves of the kernel agreed on. *)

(* A step writes at most one reservation. *)
LEMMA OneRow ==
  ASSUME TypeOK, LocksHeld, [Next]_vars
  PROVE  \/ UNCHANGED reservations
         \/ \E j \in Intents : \A i \in Intents \ {j} : reservations'[i] = reservations[i]
<1> DEFINE Single(j) == \A i \in Intents \ {j} : reservations'[i] = reservations[i]
<1>1. ASSUME NEW h \in Handlers, CommitHold(h)
      PROVE  call[h].req.intent \in Intents /\ Single(call[h].req.intent)
  <2>1. call[h].req.intent \in Intents
    BY <1>1, InsertedOnce
  <2>2. QED
    BY <1>1, <2>1 DEF TypeOK, CommitHold
<1>2. ASSUME NEW h \in Handlers, RefuseApproval(h)
      PROVE  call[h].intent \in Intents /\ Single(call[h].intent)
  BY <1>2 DEF TypeOK, RefuseApproval, LocksHeld
<1>3. ASSUME NEW j \in Intents, NEW reason, releaseReservation(j, reason)
      PROVE  Single(j)
  BY <1>3 DEF TypeOK, releaseReservation
<1>4. ASSUME NEW j \in Intents, ExpireChallenge(j) \/ releaseSettled(j)
      PROVE  Single(j)
  BY <1>3, <1>4 DEF ExpireChallenge, releaseSettled
<1>5. ASSUME NEW j \in Intents, Reap(j)
      PROVE  UNCHANGED reservations \/ Single(j)
  BY <1>3, <1>5 DEF Reap
<1>6. ASSUME NEW j \in Intents, captureReservation(j)
      PROVE  Single(j)
  BY <1>6 DEF TypeOK, captureReservation
<1>7. ASSUME NEW h \in Handlers,
             \/ \E r \in Requests, v \in Verifiers : Receive(h, r, v)
             \/ \E k \in Intents, b \in Answers : BeginApproval(h, k, b)
             \/ UnknownMandate(h) \/ LockMandate(h) \/ CommitDeny(h) \/ CommitConflict(h)
             \/ LockApproval(h) \/ Approve(h) \/ RetryLock(h) \/ GiveUpLock(h)
             \/ Settle(h) \/ Crash(h)
      PROVE  UNCHANGED reservations
  BY <1>7 DEF Receive, BeginApproval, UnknownMandate, LockMandate, CommitDeny,
     CommitConflict, LockApproval, Approve, RetryLock, GiveUpLock, Settle, Crash, tables
<1>8. ASSUME \/ \E k \in Mandates : Revoke(k)
             \/ ExpireMandates \/ ScanChallenges \/ ScanReservations \/ WorkerCrash
             \/ Tick \/ UNCHANGED vars
      PROVE  UNCHANGED reservations
  BY <1>8 DEF Revoke, ExpireMandates, ScanChallenges, ScanReservations,
     WorkerCrash, Tick, tables, vars
<1> HIDE DEF Single
<1>9. UNCHANGED reservations \/ \E j \in Intents : Single(j)
  BY <1>1, <1>2, <1>4, <1>5, <1>6, <1>7, <1>8 DEF Next, HandlerStep
<1>10. QED
  BY <1>9 DEF Single

States == [i \in Intents |-> reservations[i].state]

(* A step that changes a row's state makes, captures or releases a hold. *)
LEMMA StatesStep ==
  ASSUME TypeOK, LocksHeld, [Next]_vars
  PROVE  \/ States' = States
         \/ \E i \in Intents :
              \/ States[i] = "none" /\ States' = [States EXCEPT ![i] = "held"]
              \/ /\ States[i] = "held" /\ i \in ordered
                 /\ States' = [States EXCEPT ![i] = "captured"]
              \/ /\ States[i] \in {"held", "captured"}
                 /\ States' = [States EXCEPT ![i] = "released"]
<1> DEFINE Goal == \/ States' = States
                   \/ \E i \in Intents :
                        \/ States[i] = "none" /\ States' = [States EXCEPT ![i] = "held"]
                        \/ /\ States[i] = "held" /\ i \in ordered
                           /\ States' = [States EXCEPT ![i] = "captured"]
                        \/ /\ States[i] \in {"held", "captured"}
                           /\ States' = [States EXCEPT ![i] = "released"]
<1>1. CASE UNCHANGED reservations
  BY <1>1 DEF States
<1>2. ASSUME NEW j \in Intents,
             \A i \in Intents \ {j} : reservations'[i] = reservations[i]
      PROVE  Goal
  <2>1. reservations[j] \in Row
    BY DEF TypeOK
  <2>2. States' = [States EXCEPT ![j] = reservations'[j].state]
    BY <1>2 DEF States
  <2>3. States[j] = reservations[j].state
    BY DEF States
  <2>4. CASE reservations'[j] = reservations[j]
    <3>1. States' = States
      BY <1>2, <2>4 DEF States
    <3>2. QED
      BY <3>1
  <2>5. ASSUME NEW h \in Handlers, CommitHold(h), call[h].req.intent = j
        PROVE  Goal
    <3>1. reservations'[j].state = "held"
      BY <2>5 DEF CommitHold, TypeOK
    <3>2. States[j] = "none"
      BY <2>3, <2>5, InsertedOnce DEF NoRow
    <3>3. QED
      BY <2>2, <3>1, <3>2
  <2>6. ASSUME Counts(reservations[j]), NEW reason \in Reasons,
               reservations'[j] = Released(reservations[j], reason)
        PROVE  Goal
    <3>1. reservations'[j].state = "released"
      BY <2>1, <2>6, ReleasedRow
    <3>2. States[j] \in {"held", "captured"}
      BY <2>3, <2>6 DEF Counts
    <3>3. QED
      BY <2>2, <3>1, <3>2
  <2>7. ASSUME reservations[j].state = "held", j \in ordered,
               reservations'[j] = [reservations[j] EXCEPT !.state = "captured"]
        PROVE  Goal
    <3>1. reservations'[j].state = "captured"
      BY <2>1, <2>7 DEF Row
    <3>2. QED
      BY <2>2, <2>3, <2>7, <3>1
  <2>8. {"step_up_abandoned", "payment_failed", "reaped"} \subseteq Reasons
    BY DEF Reasons
  <2> HIDE DEF Goal
  <2>9. QED
    BY <2>4, <2>5, <2>6, <2>7, <2>8, RowMoves
<1>3. QED
  BY <1>1, <1>2, OneRow

(* The authorisation half implements the holds the kernel's halves agreed  *)
(* on: each decision, approval, hand-over, revocation, job and settlement  *)
(* write is one of their steps, or nothing to them.                        *)
THEOREM AuthorizationKeepsHolds == Spec => HoldSpec
<1>1. Init => IInv /\ SettlesHold /\ Holds!HoldInit
  <2> SUFFICES ASSUME Init PROVE IInv /\ SettlesHold /\ Holds!HoldInit
    OBVIOUS
  <2>1. IInv
    BY InitIInv
  <2>2. SettlesHold
    BY DEF Init, SettlesHold
  <2>3. Holds!HoldInit
    BY DEF Init, Holds!HoldInit, NoRow
  <2>4. QED
    BY <2>1, <2>2, <2>3
<1>2. IInv /\ SettlesHold /\ [Next]_vars => IInv' /\ SettlesHold'
  BY StepIInv, SettlesHoldStep DEF IInv
<1>3. ASSUME IInv, SettlesHold, [Next]_vars
      PROVE  [Holds!HoldNext]_<<States, ordered>>
  <2>1. TypeOK /\ LocksHeld
    BY <1>3 DEF IInv
  <2>2. CASE ordered' = ordered /\ States' = States
    BY <2>2
  <2>3. CASE ordered' = ordered /\ States' # States
    BY <1>3, <2>1, <2>3, StatesStep
    DEF Holds!HoldNext, Holds!Reserve, Holds!Capture, Holds!Release, States
  <2>4. CASE ordered' # ordered
    <3>1. PICK h \in Handlers : Settle(h) /\ UNCHANGED reservations
      BY <1>3, <2>1, <2>4, ReaperStep
    <3>2. /\ pc[h] = "settling" /\ call[h].intent \in Intents
          /\ ordered' = ordered \cup {call[h].intent}
      BY <2>1, <3>1 DEF Settle, LocksHeld
    <3>3. States[call[h].intent] # "none" /\ States' = States
      BY <1>3, <3>1, <3>2 DEF SettlesHold, Reserved, States
    <3>4. Holds!Claim(call[h].intent)
      BY <3>2, <3>3 DEF Holds!Claim, States
    <3>5. QED
      BY <3>2, <3>4 DEF Holds!HoldNext
  <2>5. QED
    BY <2>2, <2>3, <2>4
<1>4. QED
  BY <1>1, <1>2, <1>3, PTL DEF Spec, HoldSpec, Holds!HoldSpec, States

(* Above the silent threshold nothing is allowed without a human. *)
THEOREM LargeSpendIsAsked == Spec => LargeNeedsHuman
<1>1. ASSUME IInv, [Next]_vars, NEW i \in Intents, NewAllow(i)
      PROVE  \/ reservations'[i].amount <= Terms[reservations'[i].mandate].silentThreshold
             \/ \E h \in Handlers : /\ pc[h] = "granting" /\ call[h].intent = i
                                    /\ call[h].approve
  <2>1. TypeOK /\ LocksHeld
    BY <1>1 DEF IInv
  <2>2. ASSUME NEW h \in Handlers, CommitHold(h), call[h].req.intent = i
        PROVE  reservations'[i].amount <= Terms[reservations'[i].mandate].silentThreshold
    <3> DEFINE f == Facts(h)
    <3>1. /\ f.stateless = call[h].stateless /\ f.amount = call[h].req.amount
          /\ f.terms = Terms[call[h].req.mandate]
      BY DEF Facts
    <3>2. StatelessDenies(f)
      <4>1. call[h].stateless \in {NoFailure} \cup StatelessCodes
        BY <2>1 DEF TypeOK, Call
      <4>2. QED
        BY <3>1, <4>1 DEF StatelessDenies, StatelessCodes, VerdictFor, StepUpCodes
    <3>3. allows' # allows
      BY <1>1, <2>1 DEF NewAllow, TypeOK
    <3>4. Verdict(f) # "DENY" /\ Verdict(f) # "STEP_UP"
      BY <2>2, <3>3 DEF CommitHold
    <3> HIDE DEF f
    <3>5. Verdict(f) = "ALLOW"
      BY <3>4 DEF Verdict, VerdictFor
    <3>6. Passes(f, 18)
      BY <3>2, <3>5, AllowPasses DEF RuleCount
    <3>7. f.amount <= f.terms.silentThreshold
      BY <3>6 DEF Passes, Checks, Check, Silent
    <3>8. /\ reservations'[i].amount = call[h].req.amount
          /\ reservations'[i].mandate = call[h].req.mandate
      BY <2>1, <2>2 DEF CommitHold, TypeOK
    <3>9. QED
      BY <3>1, <3>7, <3>8
  <2>3. ASSUME NEW h \in Handlers, Approve(h), call[h].intent = i
        PROVE  pc[h] = "granting" /\ call[h].intent = i /\ call[h].approve
    BY <1>1, <2>3 DEF Approve, IInv, GrantsStayValid
  <2>4. QED
    BY <1>1, <2>2, <2>3, SpendingSteps
<1>2. IInv /\ [Next]_vars =>
        [\A i \in Intents : NewAllow(i) =>
            \/ reservations'[i].amount <= Terms[reservations'[i].mandate].silentThreshold
            \/ \E h \in Handlers : /\ pc[h] = "granting" /\ call[h].intent = i
                                   /\ call[h].approve]_vars
  BY <1>1
<1>3. QED
  BY <1>2, Invariance, PTL DEF Spec, LargeNeedsHuman
=============================================================================
