--------------------------- MODULE ConsentTheorems ---------------------------
(***************************************************************************)
(* Proofs about the grant flow and the setup of an instrument, for any     *)
(* requests, submissions, bindings, visits and bounds.                     *)
(***************************************************************************)
EXTENDS Instrument, TLAPS

(* What each operation of a request leaves alone. *)
LEMMA RequestMoves ==
  ASSUME NEW r \in Requests, RequestStep(r)
  PROVE  UNCHANGED <<submissions, persons, events, mandates>>
  BY DEF RequestStep, requestConsent, bindConsentRefs, sendOtp, Lapse,
         AnswerExpired, AnswerWrong

(* Types are kept by every operation on a request ... *)
LEMMA TypeOfRequests ==
  ASSUME ConsentTypeOK, NEW r \in Requests, RequestStep(r)
  PROVE  ConsentTypeOK'
<1> USE DEF ConsentTypeOK, Request
<1>1. CASE \E referral \in Referrals : requestConsent(r, referral)
  <2>1. PICK referral \in Referrals : requestConsent(r, referral)
    BY <1>1
  <2>2. /\ referral[1] \in Refs \cup {None}
        /\ referral[2] \in Refs \cup {None}
    <3>1. referral \in (Refs \cup {None}) \X (Refs \cup {None})
      BY ConsentAssumption
    <3>2. QED
      BY <3>1
  <2> DEFINE row == [NoRequest EXCEPT !.state = "pending",
                       !.customer_ref = referral[1], !.fulfilment_ref = referral[2]]
  <2>3. row \in Request
    BY <2>2 DEF NoRequest
  <2>4. requests' = [requests EXCEPT ![r] = row]
    BY <2>1 DEF requestConsent
  <2> HIDE DEF row
  <2>5. requests' \in [Requests -> Request]
    <3> HIDE DEF Request
    <3> QED
      BY <2>3, <2>4
  <2>6. QED
    BY <2>1, <2>5 DEF requestConsent
<1>2. CASE \E binding \in Bindings : bindConsentRefs(r, binding)
  <2>1. PICK binding \in Bindings : bindConsentRefs(r, binding)
    BY <1>2
  <2> DEFINE row == [requests[r] EXCEPT !.customer_ref = binding[1],
                                        !.fulfilment_ref = binding[2]]
  <2>2. row \in Request
    <3>1. binding \in Refs \X Refs
      BY ConsentAssumption
    <3>2. binding[1] \in Refs \cup {None} /\ binding[2] \in Refs \cup {None}
      BY <3>1
    <3>3. requests[r] \in Request
      OBVIOUS
    <3> HIDE DEF ConsentTypeOK
    <3>4. QED
      BY <3>2, <3>3
  <2>3. requests' = [requests EXCEPT ![r] = row]
    BY <2>1 DEF bindConsentRefs
  <2> HIDE DEF row, Request
  <2>4. QED
    BY <2>1, <2>2, <2>3 DEF bindConsentRefs
<1>3. CASE sendOtp(r)
  <2> DEFINE row == [requests[r] EXCEPT !.state = "otp_sent", !.otp = TRUE,
                                        !.lapsed = FALSE, !.attempts = 0]
  <2>2. row \in Request
    <3> DEFINE half == [requests[r] EXCEPT !.state = "otp_sent", !.otp = TRUE]
    <3>1. half \in Request
      OBVIOUS
    <3> HIDE DEF half
    <3>2. [half EXCEPT !.lapsed = FALSE, !.attempts = 0] \in Request
      BY <3>1
    <3>3. QED
      BY <3>2 DEF half
  <2>3. requests' = [requests EXCEPT ![r] = row]
    BY <1>3 DEF sendOtp
  <2> HIDE DEF row, Request
  <2>4. QED
    BY <1>3, <2>2, <2>3 DEF sendOtp
<1>4. CASE Lapse(r)
  BY <1>4 DEF Lapse
<1>5. CASE AnswerExpired(r)
  BY <1>5 DEF AnswerExpired
<1>6. CASE AnswerWrong(r)
  BY <1>6 DEF AnswerWrong
<1>7. QED
  BY <1>1, <1>2, <1>3, <1>4, <1>5, <1>6 DEF RequestStep

(* ... and by every step of a submission. *)
LEMMA TypeOfSubmissions ==
  ASSUME ConsentTypeOK, GrantInOrder, NEW s \in Submissions, SubmissionStep(s)
  PROVE  ConsentTypeOK'
<1> USE DEF ConsentTypeOK, InFlight
<1>1. CASE \E r \in Requests : AnswerRight(s, r)
  BY <1>1 DEF AnswerRight, Submission, Request
<1>2. CASE insertPseudonym(s)
  BY <1>2 DEF insertPseudonym, Submission
<1>3. CASE recordAuthEvent(s)
  BY <1>3 DEF recordAuthEvent, Submission
<1>4. CASE issue(s)
  BY <1>4 DEF issue, Submission, Mandate
<1>5. CASE finish(s)
  <2>1. submissions[s].request \in Requests
    BY <1>5 DEF finish, GrantInOrder
  <2> DEFINE q == submissions[s].request
             row == [requests[q] EXCEPT !.state = "granted", !.mandate_id = s]
  <2>2. requests' \in [Requests -> Request]
    <3>1. requests[q] \in Request
      BY <2>1
    <3>2. requests' = [requests EXCEPT ![q] = row]
      BY <1>5 DEF finish
    <3>3. row \in Request
      <4> HIDE DEF q
      <4> QED
        BY <3>1 DEF Request
    <3> HIDE DEF row, q
    <3>4. q \in Requests
      BY <2>1 DEF q
    <3>5. QED
      BY <3>2, <3>3, <3>4
  <2>3. QED
    BY <1>5, <2>2 DEF finish, Submission
<1>6. CASE CrashSubmission(s)
  BY <1>6 DEF CrashSubmission, Submission
<1>7. CASE revoke(s)
  BY <1>7 DEF revoke, Mandate
<1>8. QED
  BY <1>1, <1>2, <1>3, <1>4, <1>5, <1>6, <1>7 DEF SubmissionStep

(* What an operation on a request does to the requests, field by field. *)
LEMMA RequestFields ==
  ASSUME ConsentTypeOK, CountedAttempts, NEW r \in Requests, RequestStep(r)
  PROVE  /\ \A q \in Requests \ {r} : requests'[q] = requests[q]
         /\ requests'[r].state # "none"
         /\ requests'[r].state = "granted" => requests[r].state = "granted"
         /\ requests'[r].mandate_id \in {None, requests[r].mandate_id}
         /\ \/ requests'[r].mandate_id = requests[r].mandate_id
            \/ requests[r].state = "none"
         /\ \/ /\ requests'[r].customer_ref = requests[r].customer_ref
               /\ requests'[r].fulfilment_ref = requests[r].fulfilment_ref
            \/ requests[r].state = "none"
            \/ requests[r].customer_ref = None /\ requests'[r].customer_ref # None
         /\ requests[r].state \in {"granted", "expired"} =>
              requests'[r].state \in {"granted", "expired"}
<1> USE DEF ConsentTypeOK, Request
<1>1. CASE \E referral \in Referrals : requestConsent(r, referral)
  BY <1>1 DEF requestConsent, NoRequest
<1>2. CASE \E binding \in Bindings : bindConsentRefs(r, binding)
  <2>1. PICK binding \in Bindings : bindConsentRefs(r, binding)
    BY <1>2
  <2>2. binding[1] # None
    BY ConsentAssumption
  <2>3. QED
    BY <2>1, <2>2 DEF bindConsentRefs, Undecided
<1>3. CASE sendOtp(r)
  BY <1>3 DEF sendOtp, Undecided
<1>4. CASE Lapse(r)
  <2>1. requests[r].state # "none"
    BY <1>4 DEF Lapse, CountedAttempts
  <2>2. QED
    BY <1>4, <2>1 DEF Lapse
<1>5. CASE AnswerExpired(r)
  BY <1>5 DEF AnswerExpired
<1>6. CASE AnswerWrong(r)
  BY <1>6 DEF AnswerWrong, Answerable
<1>7. QED
  BY <1>1, <1>2, <1>3, <1>4, <1>5, <1>6 DEF RequestStep

LEMMA RequestKeeps ==
  ASSUME ConsentInv, NEW r \in Requests, RequestStep(r)
  PROVE  GrantInOrder' /\ MandatesHaveEvents' /\ NeverRedirected'
<1>1. UNCHANGED <<submissions, persons, events, mandates>>
  BY RequestMoves
<1>2. ConsentTypeOK'
  BY TypeOfRequests DEF ConsentInv
<1>3. /\ \A q \in Requests \ {r} : requests'[q] = requests[q]
      /\ requests'[r].state # "none"
      /\ requests'[r].state = "granted" => requests[r].state = "granted"
      /\ requests'[r].mandate_id \in {None, requests[r].mandate_id}
      /\ \/ requests'[r].mandate_id = requests[r].mandate_id
         \/ requests[r].state = "none"
      /\ \/ /\ requests'[r].customer_ref = requests[r].customer_ref
            /\ requests'[r].fulfilment_ref = requests[r].fulfilment_ref
         \/ requests[r].state = "none"
         \/ requests[r].customer_ref = None /\ requests'[r].customer_ref # None
  BY RequestFields DEF ConsentInv
<1>4. \A q \in Requests : requests[q].state # "none" => requests'[q].state # "none"
  BY <1>3
<1>5. GrantInOrder'
  BY <1>1, <1>4 DEF ConsentInv, GrantInOrder
<1>6. MandatesHaveEvents'
  BY <1>1, <1>3 DEF ConsentInv, MandatesHaveEvents
<1>7. NeverRedirected'
  <2>2. ASSUME NEW row, NEW q \in Requests, requests[q].state # "none", SameRefs(row, q)
        PROVE  SameRefs(row, q)'
    BY <1>3, <2>2 DEF SameRefs
  <2>3. ASSUME NEW s \in Submissions
        PROVE  /\ submissions[s].pc # "idle" =>
                    /\ submissions[s].request \in Requests
                    /\ requests[submissions[s].request].state # "none"
               /\ mandates[s].request # None =>
                    /\ mandates[s].request \in Requests
                    /\ requests[mandates[s].request].state # "none"
    <3>1. NoMandate.request = None
      BY DEF NoMandate
    <3>2. QED
      BY <3>1 DEF ConsentInv, GrantInOrder, ConsentTypeOK, Submission
  <2>4. QED
    BY <1>1, <2>2, <2>3 DEF ConsentInv, NeverRedirected
<1>8. QED
  BY <1>5, <1>6, <1>7

(* What a step of a submission does to the requests: only the last one     *)
(* marks one, with its own mandate, and no other field is touched.         *)
LEMMA SubmissionFields ==
  ASSUME ConsentTypeOK, GrantInOrder, NEW s \in Submissions, SubmissionStep(s)
  PROVE  /\ \A r \in Requests :
              /\ requests'[r].customer_ref = requests[r].customer_ref
              /\ requests'[r].fulfilment_ref = requests[r].fulfilment_ref
              /\ requests'[r].otp = requests[r].otp
              /\ requests'[r].attempts = requests[r].attempts
              /\ \/ requests'[r] = requests[r]
                 \/ /\ submissions[s].pc = "issued" /\ submissions[s].request = r
                    /\ requests'[r].state = "granted" /\ requests'[r].mandate_id = s
         /\ UNCHANGED <<sent, wrong>>
<1> USE DEF ConsentTypeOK, Request
<1>1. CASE \E r \in Requests : AnswerRight(s, r)
  BY <1>1 DEF AnswerRight
<1>2. CASE insertPseudonym(s)
  BY <1>2 DEF insertPseudonym
<1>3. CASE recordAuthEvent(s)
  BY <1>3 DEF recordAuthEvent
<1>4. CASE issue(s)
  BY <1>4 DEF issue
<1>5. CASE finish(s)
  BY <1>5 DEF finish
<1>6. CASE CrashSubmission(s)
  BY <1>6 DEF CrashSubmission
<1>7. CASE revoke(s)
  BY <1>7 DEF revoke
<1>8. QED
  BY <1>1, <1>2, <1>3, <1>4, <1>5, <1>6, <1>7 DEF SubmissionStep

(* What it does to the submissions and to what they have committed. *)
LEMMA SubmissionOthers ==
  ASSUME ConsentTypeOK, NEW s \in Submissions, SubmissionStep(s)
  PROVE  /\ \A t \in Submissions \ {s} :
              /\ submissions'[t] = submissions[t] /\ persons'[t] = persons[t]
              /\ mandates'[t] = mandates[t]
         /\ events \subseteq events'
<1> USE DEF ConsentTypeOK
<1>1. CASE \E r \in Requests : AnswerRight(s, r)
  BY <1>1 DEF AnswerRight
<1>2. CASE insertPseudonym(s)
  BY <1>2 DEF insertPseudonym
<1>3. CASE recordAuthEvent(s)
  BY <1>3 DEF recordAuthEvent
<1>4. CASE issue(s)
  BY <1>4 DEF issue
<1>5. CASE finish(s)
  BY <1>5 DEF finish
<1>6. CASE CrashSubmission(s)
  BY <1>6 DEF CrashSubmission
<1>7. CASE revoke(s)
  BY <1>7 DEF revoke
<1>8. QED
  BY <1>1, <1>2, <1>3, <1>4, <1>5, <1>6, <1>7 DEF SubmissionStep

(* The mandate of a submission, and the submission itself, after its step. *)
LEMMA SubmissionOwn ==
  ASSUME ConsentInv, NEW s \in Submissions, SubmissionStep(s)
  PROVE  LET sub == submissions[s]
             row == mandates[s]
         IN  /\ sub'.pc # "idle" =>
                  sub'.request \in Requests /\ requests[sub'.request].state # "none"
             /\ sub'.pc \in {"named", "verified", "issued", "done"} =>
                  persons'[s] = sub'.request
             /\ sub'.pc \in {"verified", "issued", "done"} => s \in events'
             /\ sub'.pc \in {"issued", "done"} => row'.request = sub'.request
             /\ sub'.pc \in {"idle", "checked", "named", "verified"} => row' = NoMandate
             /\ row' # NoMandate => row'.request = sub'.request
             /\ row'.request # None => s \in events' /\ persons'[s] = row'.request
             /\ row.request # None => row'.request = row.request
<1>0. /\ submissions[s] \in Submission /\ mandates[s] \in Mandate
      /\ requests \in [Requests -> Request] /\ submissions \in [Submissions -> Submission]
      /\ mandates \in [Submissions -> Mandate] /\ None \notin Requests
      /\ persons \in [Submissions -> Requests \cup {None}]
  BY ConsentAssumption DEF ConsentInv, ConsentTypeOK
<1>1. LET sub == submissions[s]
      IN  /\ sub.pc # "idle" =>
               sub.request \in Requests /\ requests[sub.request].state # "none"
          /\ sub.pc \in {"named", "verified", "issued", "done"} =>
               persons[s] = sub.request
          /\ sub.pc \in {"verified", "issued", "done"} => s \in events
          /\ sub.pc \in {"issued", "done"} => mandates[s].request = sub.request
          /\ sub.pc \in {"idle", "checked", "named", "verified"} => mandates[s] = NoMandate
          /\ mandates[s] # NoMandate => mandates[s].request = sub.request
          /\ mandates[s].request # None => s \in events /\ persons[s] = mandates[s].request
  BY DEF ConsentInv, GrantInOrder, MandatesHaveEvents
<1>2. NoMandate.request = None
  BY DEF NoMandate
<1>3. CASE \E r \in Requests : AnswerRight(s, r)
  BY <1>0, <1>1, <1>2, <1>3 DEF AnswerRight, Answerable
<1>4. CASE insertPseudonym(s)
  BY <1>0, <1>1, <1>2, <1>4 DEF insertPseudonym, Submission
<1>5. CASE recordAuthEvent(s)
  BY <1>0, <1>1, <1>2, <1>5 DEF recordAuthEvent, Submission
<1>6. CASE issue(s)
  BY <1>0, <1>1, <1>2, <1>6 DEF issue, Submission, Mandate
<1>7. CASE finish(s)
  BY <1>0, <1>1, <1>2, <1>7 DEF finish, Submission
<1>8. CASE CrashSubmission(s)
  BY <1>0, <1>1, <1>2, <1>8 DEF CrashSubmission, Submission, InFlight
<1>9. CASE revoke(s)
  BY <1>0, <1>1, <1>2, <1>9 DEF revoke, Mandate, NoMandate
<1>10. QED
  BY <1>3, <1>4, <1>5, <1>6, <1>7, <1>8, <1>9 DEF SubmissionStep

(* A submission carries the request's ids, and hands them to its mandate. *)
LEMMA SubmissionRefs ==
  ASSUME ConsentInv, NEW s \in Submissions, SubmissionStep(s)
  PROVE  /\ mandates'[s].request # None =>
              \/ SameRefs(mandates[s], mandates[s].request) /\ mandates[s].request # None
                   /\ mandates'[s].customer_ref = mandates[s].customer_ref
                   /\ mandates'[s].fulfilment_ref = mandates[s].fulfilment_ref
                   /\ mandates'[s].request = mandates[s].request
              \/ SameRefs(submissions[s], submissions[s].request) /\ submissions[s].pc # "idle"
                   /\ mandates'[s].customer_ref = submissions[s].customer_ref
                   /\ mandates'[s].fulfilment_ref = submissions[s].fulfilment_ref
                   /\ mandates'[s].request = submissions[s].request
         /\ \/ /\ submissions[s].pc # "idle"
               /\ submissions'[s].customer_ref = submissions[s].customer_ref
               /\ submissions'[s].fulfilment_ref = submissions[s].fulfilment_ref
               /\ submissions'[s].request = submissions[s].request
            \/ submissions'[s] = submissions[s]
            \/ /\ submissions'[s].request \in Requests
               /\ submissions'[s].customer_ref = requests[submissions'[s].request].customer_ref
               /\ submissions'[s].fulfilment_ref = requests[submissions'[s].request].fulfilment_ref
<1>0. /\ submissions[s] \in Submission /\ mandates[s] \in Mandate
      /\ submissions \in [Submissions -> Submission]
      /\ mandates \in [Submissions -> Mandate]
  BY DEF ConsentInv, ConsentTypeOK
<1>1. /\ mandates[s].request # None => SameRefs(mandates[s], mandates[s].request)
      /\ submissions[s].pc # "idle" => SameRefs(submissions[s], submissions[s].request)
  BY DEF ConsentInv, NeverRedirected
<1>3. CASE \E r \in Requests : AnswerRight(s, r)
  BY <1>0, <1>1, <1>3 DEF AnswerRight
<1>4. CASE insertPseudonym(s)
  BY <1>0, <1>1, <1>4 DEF insertPseudonym
<1>5. CASE recordAuthEvent(s)
  BY <1>0, <1>1, <1>5 DEF recordAuthEvent
<1>6. CASE issue(s)
  BY <1>0, <1>1, <1>6 DEF issue
<1>7. CASE finish(s)
  BY <1>0, <1>1, <1>7 DEF finish
<1>8. CASE CrashSubmission(s)
  BY <1>0, <1>1, <1>8 DEF CrashSubmission, InFlight
<1>9. CASE revoke(s)
  BY <1>0, <1>1, <1>9 DEF revoke
<1>10. QED
  BY <1>3, <1>4, <1>5, <1>6, <1>7, <1>8, <1>9 DEF SubmissionStep

LEMMA SubmissionKeeps ==
  ASSUME ConsentInv, NEW s \in Submissions, SubmissionStep(s)
  PROVE  GrantInOrder' /\ MandatesHaveEvents' /\ NeverRedirected'
<1>1. /\ \A r \in Requests :
           /\ requests'[r].customer_ref = requests[r].customer_ref
           /\ requests'[r].fulfilment_ref = requests[r].fulfilment_ref
           /\ \/ requests'[r] = requests[r]
              \/ /\ submissions[s].pc = "issued" /\ submissions[s].request = r
                 /\ requests'[r].state = "granted" /\ requests'[r].mandate_id = s
  BY SubmissionFields DEF ConsentInv
<1>2. /\ \A t \in Submissions \ {s} :
           /\ submissions'[t] = submissions[t] /\ persons'[t] = persons[t]
           /\ mandates'[t] = mandates[t]
      /\ events \subseteq events'
  BY SubmissionOthers DEF ConsentInv
<1>3. \A r \in Requests : requests[r].state # "none" => requests'[r].state # "none"
  BY <1>1
<1>4. GrantInOrder'
  BY <1>2, <1>3, SubmissionOwn DEF ConsentInv, GrantInOrder
<1>5. MandatesHaveEvents'
  <2>1. \A t \in Submissions :
          /\ mandates'[t].request # None => t \in events' /\ persons'[t] = mandates'[t].request
          /\ mandates[t].request # None => mandates'[t].request = mandates[t].request
    BY <1>2, SubmissionOwn DEF ConsentInv, MandatesHaveEvents
  <2>2. ASSUME NEW r \in Requests
        PROVE  /\ requests'[r].state = "granted" => requests'[r].mandate_id # None
               /\ requests'[r].mandate_id # None =>
                    mandates'[requests'[r].mandate_id].request = r
    <3>1. /\ requests[r].state = "granted" => requests[r].mandate_id # None
          /\ requests[r].mandate_id # None =>
               mandates[requests[r].mandate_id].request = r
          /\ requests[r].mandate_id \in Submissions \cup {None}
          /\ None \notin Requests /\ None \notin Submissions
          /\ submissions[s].pc = "issued" => mandates[s].request = submissions[s].request
      BY ConsentAssumption DEF ConsentInv, ConsentTypeOK, Request, MandatesHaveEvents, GrantInOrder
    <3>2. CASE requests'[r] = requests[r]
      BY <2>1, <3>1, <3>2
    <3>3. CASE /\ submissions[s].pc = "issued" /\ submissions[s].request = r
               /\ requests'[r].state = "granted" /\ requests'[r].mandate_id = s
      BY <2>1, <3>1, <3>3
    <3>4. QED
      BY <1>1, <3>2, <3>3
  <2>3. QED
    BY <2>1, <2>2 DEF MandatesHaveEvents
<1>6. NeverRedirected'
  <2>1. ASSUME NEW t \in Submissions \ {s}
        PROVE  /\ mandates'[t].request # None => SameRefs(mandates[t], mandates[t].request)'
               /\ submissions'[t].pc # "idle" => SameRefs(submissions[t], submissions[t].request)'
    <3>1. /\ mandates[t].request # None => mandates[t].request \in Requests
          /\ submissions[t].pc # "idle" => submissions[t].request \in Requests
      BY DEF ConsentInv, ConsentTypeOK, GrantInOrder, Mandate
    <3>2. QED
      BY <1>1, <1>2, <3>1 DEF ConsentInv, NeverRedirected, SameRefs
  <2>2. /\ mandates'[s].request # None => SameRefs(mandates[s], mandates[s].request)'
        /\ submissions'[s].pc # "idle" => SameRefs(submissions[s], submissions[s].request)'
    <3>1. /\ mandates[s].request # None => mandates[s].request \in Requests
          /\ submissions[s].pc # "idle" => submissions[s].request \in Requests
      BY DEF ConsentInv, ConsentTypeOK, GrantInOrder, Mandate
    <3>2. /\ mandates[s].request # None => SameRefs(mandates[s], mandates[s].request)
          /\ submissions[s].pc # "idle" => SameRefs(submissions[s], submissions[s].request)
      BY DEF ConsentInv, NeverRedirected
    <3>3. mandates'[s].request # None => SameRefs(mandates[s], mandates[s].request)'
      BY <1>1, <3>1, SubmissionRefs DEF SameRefs
    <3>4. submissions'[s].pc # "idle" => SameRefs(submissions[s], submissions[s].request)'
      BY <1>1, <3>1, <3>2, SubmissionRefs, SubmissionOwn DEF SameRefs
    <3>5. QED
      BY <3>3, <3>4
  <2>3. QED
    BY <2>1, <2>2 DEF NeverRedirected
<1>7. QED
  BY <1>4, <1>5, <1>6

(* One more code of a request allows MaxAttempts more wrong answers. *)
LEMMA OneMoreCode ==
  ASSUME NEW n \in Nat, n # 0
  PROVE  /\ MaxAttempts * n \in Nat
         /\ MaxAttempts * (n - 1) \in Nat
         /\ MaxAttempts * n = MaxAttempts * (n - 1) + MaxAttempts
  BY ConsentAssumption

(* Wrong answers are counted on the request whose code they miss. *)
LEMMA AttemptsKept ==
  ASSUME ConsentInv, [ConsentNext]_consents
  PROVE  CountedAttempts'
<1>0. /\ requests \in [Requests -> Request] /\ sent \in [Requests -> Nat]
      /\ wrong \in [Requests -> Nat] /\ MaxAttempts \in Nat /\ CountedAttempts
      /\ \A q \in Requests : requests[q].attempts \in Nat
      /\ \A q \in Requests : requests[q] \in Request
  BY ConsentAssumption DEF ConsentInv, ConsentTypeOK, Request
<1>1. ASSUME NEW r \in Requests, RequestStep(r) PROVE CountedAttempts'
  <2>1. ASSUME requests'[r].attempts <= MaxAttempts,
               requests'[r].otp <=> sent'[r] # 0,
               requests'[r].state \in {"none", "pending"} => ~requests'[r].otp,
               IF sent'[r] = 0
               THEN wrong'[r] = 0 /\ requests'[r].attempts = 0
               ELSE wrong'[r] <= MaxAttempts * (sent'[r] - 1) + requests'[r].attempts,
               \A q \in Requests \ {r} : /\ requests'[q] = requests[q]
                                          /\ sent'[q] = sent[q] /\ wrong'[q] = wrong[q]
        PROVE  CountedAttempts'
    BY <1>0, <2>1 DEF CountedAttempts
  <2>2. /\ requests[r].attempts <= MaxAttempts
        /\ requests[r].otp <=> sent[r] # 0
        /\ requests[r].state \in {"none", "pending"} => ~requests[r].otp
        /\ IF sent[r] = 0
           THEN wrong[r] = 0 /\ requests[r].attempts = 0
           ELSE wrong[r] <= MaxAttempts * (sent[r] - 1) + requests[r].attempts
    BY <1>0 DEF CountedAttempts
  <2>3. CASE \E referral \in Referrals : requestConsent(r, referral)
    <3>1. /\ requests[r].state = "none"
          /\ requests'[r].attempts = 0 /\ requests'[r].otp = FALSE
          /\ \A q \in Requests \ {r} : requests'[q] = requests[q]
          /\ sent' = sent /\ wrong' = wrong
      BY <1>0, <2>3 DEF requestConsent, NoRequest
    <3>2. QED
      BY <1>0, <2>1, <2>2, <3>1
  <2>4. CASE \E binding \in Bindings : bindConsentRefs(r, binding)
    <3>1. /\ requests'[r].attempts = requests[r].attempts /\ requests'[r].otp = requests[r].otp
          /\ requests'[r].state = requests[r].state
          /\ \A q \in Requests \ {r} : requests'[q] = requests[q]
          /\ sent' = sent /\ wrong' = wrong
      BY <1>0, <2>4 DEF bindConsentRefs, Request
    <3>2. QED
      BY <1>0, <2>1, <2>2, <3>1
  <2>5. CASE sendOtp(r)
    <3>1. /\ requests'[r].attempts = 0 /\ requests'[r].otp = TRUE
          /\ requests'[r].state = "otp_sent"
          /\ \A q \in Requests \ {r} : requests'[q] = requests[q] /\ sent'[q] = sent[q]
          /\ sent'[r] = sent[r] + 1 /\ wrong' = wrong
      BY <1>0, <2>5 DEF sendOtp, Request
    <3>2. sent[r] \in Nat /\ wrong[r] \in Nat /\ requests[r].attempts \in Nat
      BY <1>0
    <3>3. sent'[r] # 0 /\ sent'[r] - 1 = sent[r]
      BY <3>1, <3>2
    <3>4. CASE sent[r] = 0
      <4>1. wrong'[r] <= MaxAttempts * (sent'[r] - 1) + requests'[r].attempts
        BY <1>0, <2>2, <3>1, <3>3, <3>4
      <4>2. QED
        BY <1>0, <2>1, <3>1, <3>3, <4>1
    <3>5. CASE sent[r] # 0
      <4> DEFINE a == MaxAttempts * sent[r]
                 b == MaxAttempts * (sent[r] - 1)
      <4>1. a \in Nat /\ b \in Nat /\ a = b + MaxAttempts
        BY <3>2, <3>5, OneMoreCode
      <4>2. wrong[r] <= b + requests[r].attempts
        BY <2>2, <3>5
      <4>3. MaxAttempts * (sent'[r] - 1) = a
        BY <3>3
      <4> HIDE DEF a, b
      <4>4. wrong[r] <= a
        BY <1>0, <2>2, <3>2, <4>1, <4>2
      <4>5. wrong'[r] <= MaxAttempts * (sent'[r] - 1) + requests'[r].attempts
        BY <1>0, <3>1, <3>2, <4>1, <4>3, <4>4
      <4>6. QED
        BY <1>0, <2>1, <3>1, <3>3, <4>5
    <3>6. QED
      BY <3>4, <3>5
  <2>6. CASE Lapse(r)
    <3>1. /\ requests'[r].attempts = requests[r].attempts /\ requests'[r].otp = requests[r].otp
          /\ requests'[r].state = requests[r].state
          /\ \A q \in Requests \ {r} : requests'[q] = requests[q]
          /\ sent' = sent /\ wrong' = wrong
      BY <1>0, <2>6 DEF Lapse, Request
    <3>2. QED
      BY <1>0, <2>1, <2>2, <3>1
  <2>7. CASE AnswerExpired(r)
    <3>1. /\ requests'[r].attempts = requests[r].attempts /\ requests'[r].otp = requests[r].otp
          /\ requests'[r].state = "expired"
          /\ \A q \in Requests \ {r} : requests'[q] = requests[q]
          /\ sent' = sent /\ wrong' = wrong
      BY <1>0, <2>7 DEF AnswerExpired, Request
    <3>2. QED
      BY <1>0, <2>1, <2>2, <3>1
  <2>8. CASE AnswerWrong(r)
    <3>1. /\ requests'[r].attempts = requests[r].attempts + 1
          /\ requests[r].attempts < MaxAttempts /\ requests[r].otp
          /\ requests'[r].otp = requests[r].otp
          /\ requests'[r].state = requests[r].state
          /\ \A q \in Requests \ {r} : requests'[q] = requests[q] /\ wrong'[q] = wrong[q]
          /\ sent' = sent /\ wrong'[r] = wrong[r] + 1
      BY <1>0, <2>8 DEF AnswerWrong, Answerable, Request
    <3>2. sent[r] \in Nat /\ wrong[r] \in Nat /\ requests[r].attempts \in Nat /\ sent[r] # 0
      BY <1>0, <2>2, <3>1
    <3> DEFINE b == MaxAttempts * (sent[r] - 1)
    <3>3. b \in Nat
      BY <3>2, OneMoreCode
    <3>4. wrong[r] <= b + requests[r].attempts
      BY <2>2, <3>2
    <3>5. MaxAttempts * (sent'[r] - 1) = b
      BY <3>1
    <3> HIDE DEF b
    <3>6. wrong'[r] <= b + requests'[r].attempts
      BY <3>1, <3>2, <3>3, <3>4
    <3>7. wrong'[r] <= MaxAttempts * (sent'[r] - 1) + requests'[r].attempts
      BY <3>5, <3>6
    <3>8. requests'[r].attempts <= MaxAttempts
      BY <1>0, <3>1, <3>2
    <3>9. QED
      BY <1>0, <2>1, <2>2, <3>1, <3>2, <3>7, <3>8
  <2>9. QED
    BY <1>1, <2>3, <2>4, <2>5, <2>6, <2>7, <2>8 DEF RequestStep
<1>2. ASSUME NEW s \in Submissions, SubmissionStep(s) PROVE CountedAttempts'
  <2>1. \A r \in Requests :
          /\ requests'[r].otp = requests[r].otp
          /\ requests'[r].attempts = requests[r].attempts
          /\ requests'[r] = requests[r] \/ requests'[r].state = "granted"
    BY <1>2, SubmissionFields DEF ConsentInv
  <2>2. UNCHANGED <<sent, wrong>>
    BY <1>2, SubmissionFields DEF ConsentInv
  <2>3. QED
    BY <1>0, <2>1, <2>2 DEF CountedAttempts
<1>3. CASE UNCHANGED consents
  BY <1>0, <1>3 DEF CountedAttempts, consents
<1>4. QED
  BY <1>1, <1>2, <1>3 DEF ConsentNext

LEMMA ConsentInitial == ConsentInit => ConsentInv
<1> SUFFICES ASSUME ConsentInit PROVE ConsentInv
  OBVIOUS
<1>0. None \notin Requests /\ None \notin Submissions
  BY ConsentAssumption
<1> USE <1>0 DEF ConsentInit
<1>1. ConsentTypeOK
  BY DEF ConsentTypeOK, NoRequest, NoSubmission, NoMandate, Request, Submission, Mandate
<1>2. GrantInOrder
  BY DEF GrantInOrder, NoRequest, NoSubmission, NoMandate
<1>3. MandatesHaveEvents /\ NeverRedirected
  BY DEF MandatesHaveEvents, NeverRedirected, NoRequest, NoSubmission, NoMandate
<1>4. CountedAttempts
  <2>1. \A r \in Requests : /\ sent[r] = 0 /\ wrong[r] = 0
                            /\ requests[r].attempts = 0 /\ requests[r].otp = FALSE
    BY DEF NoRequest
  <2>2. 0 <= MaxAttempts
    BY ConsentAssumption
  <2> HIDE DEF ConsentInit
  <2>3. QED
    BY <2>1, <2>2 DEF CountedAttempts
<1>5. QED
  BY <1>1, <1>2, <1>3, <1>4 DEF ConsentInv

LEMMA ConsentKept ==
  ASSUME ConsentInv, [ConsentNext]_consents
  PROVE  ConsentInv'
<1>1. CountedAttempts'
  BY AttemptsKept
<1>2. ASSUME NEW r \in Requests, RequestStep(r) PROVE ConsentInv'
  BY <1>1, <1>2, TypeOfRequests, RequestKeeps DEF ConsentInv
<1>3. ASSUME NEW s \in Submissions, SubmissionStep(s) PROVE ConsentInv'
  BY <1>1, <1>3, TypeOfSubmissions, SubmissionKeeps DEF ConsentInv
<1>4. CASE UNCHANGED consents
  <2>1. /\ requests' = requests /\ submissions' = submissions /\ persons' = persons
        /\ events' = events /\ mandates' = mandates /\ sent' = sent /\ wrong' = wrong
    BY <1>4 DEF consents
  <2>2. ConsentTypeOK'
    BY <2>1 DEF ConsentInv, ConsentTypeOK
  <2>3. GrantInOrder'
    BY <2>1 DEF ConsentInv, GrantInOrder
  <2>4. MandatesHaveEvents' /\ NeverRedirected'
    BY <2>1 DEF ConsentInv, MandatesHaveEvents, NeverRedirected, SameRefs
  <2>5. QED
    BY <1>1, <2>2, <2>3, <2>4 DEF ConsentInv
<1>5. QED
  BY <1>2, <1>3, <1>4 DEF ConsentNext

(* The grant flow keeps ConsentInv, for any number of requests and of      *)
(* submissions that race and die: the conjuncts say what a submission has  *)
(* committed, that a mandate rests on an auth event of its person, that    *)
(* what of its request's ids it has, and how wrong answers are counted.    *)
THEOREM ConsentIsKept == ConsentSpec => []ConsentInv
<1>1. ConsentInit => ConsentInv
  BY ConsentInitial
<1>2. ConsentInv /\ [ConsentNext]_consents => ConsentInv'
  BY ConsentKept
<1>3. QED
  BY <1>1, <1>2, PTL DEF ConsentSpec
-----------------------------------------------------------------------------
(* A decided request with no grant on its way stays so in every step ... *)
LEMMA ClosedStays ==
  ASSUME ConsentInv, [ConsentNext]_consents, NEW r \in Requests, Closed(r)
  PROVE  Closed(r)' /\ MandatesOf(r)' = MandatesOf(r)
<1>0. /\ requests[r].state \in {"granted", "expired"}
      /\ \A t \in Submissions : submissions[t].request = r => submissions[t].pc \notin InFlight
      /\ None \notin Requests
  BY ConsentAssumption DEF Closed
<1>1. ASSUME NEW q \in Requests, RequestStep(q)
      PROVE  Closed(r)' /\ MandatesOf(r)' = MandatesOf(r)
  <2>1. UNCHANGED <<submissions, mandates>>
    BY <1>1, RequestMoves
  <2>2. requests'[r].state \in {"granted", "expired"}
    BY <1>0, <1>1, RequestFields DEF ConsentInv
  <2>3. QED
    BY <1>0, <2>1, <2>2 DEF Closed, MandatesOf
<1>2. ASSUME NEW s \in Submissions, SubmissionStep(s)
      PROVE  Closed(r)' /\ MandatesOf(r)' = MandatesOf(r)
  <2>1. requests'[r].state \in {"granted", "expired"}
    BY <1>0, <1>2, SubmissionFields DEF ConsentInv
  <2>2. \A t \in Submissions \ {s} : submissions'[t] = submissions[t] /\ mandates'[t] = mandates[t]
    BY <1>2, SubmissionOthers DEF ConsentInv
  <2>3. /\ submissions'[s].request = r => submissions'[s].pc \notin InFlight
        /\ mandates'[s].request = r <=> mandates[s].request = r
    <3>0. /\ submissions[s] \in Submission /\ mandates[s] \in Mandate
          /\ submissions \in [Submissions -> Submission]
          /\ mandates \in [Submissions -> Mandate]
          /\ submissions[s].request = r => submissions[s].pc \notin InFlight
          /\ submissions[s].pc \in {"idle", "checked", "named", "verified"} =>
               mandates[s].request = None
      BY <1>0 DEF ConsentInv, ConsentTypeOK, GrantInOrder, NoMandate
    <3>1. CASE \E q \in Requests : AnswerRight(s, q)
      <4>1. PICK q \in Requests : AnswerRight(s, q)
        BY <3>1
      <4>2. q # r
        BY <1>0, <4>1 DEF AnswerRight, Answerable
      <4>3. QED
        BY <3>0, <4>1, <4>2 DEF AnswerRight
    <3>2. CASE insertPseudonym(s)
      BY <3>0, <3>2 DEF insertPseudonym, InFlight
    <3>3. CASE recordAuthEvent(s)
      BY <3>0, <3>3 DEF recordAuthEvent, InFlight
    <3>4. CASE issue(s)
      BY <1>0, <3>0, <3>4 DEF issue, InFlight
    <3>5. CASE finish(s)
      BY <3>0, <3>5 DEF finish, InFlight
    <3>6. CASE CrashSubmission(s)
      BY <3>0, <3>6 DEF CrashSubmission, InFlight
    <3>7. CASE revoke(s)
      BY <3>0, <3>7 DEF revoke
    <3>8. QED
      BY <1>2, <3>1, <3>2, <3>3, <3>4, <3>5, <3>6, <3>7 DEF SubmissionStep
  <2>4. QED
    BY <1>0, <2>1, <2>2, <2>3 DEF Closed, MandatesOf
<1>3. CASE UNCHANGED consents
  BY <1>0, <1>3 DEF Closed, MandatesOf, consents
<1>4. QED
  BY <1>1, <1>2, <1>3 DEF ConsentNext

(* ... and the attempts of a request are bounded by the codes sent. *)
LEMMA CountedBounds == ConsentInv => GuessesBounded
<1> SUFFICES ASSUME ConsentInv, NEW r \in Requests
             PROVE  wrong[r] <= MaxAttempts * sent[r]
  BY DEF GuessesBounded
<1>1. /\ sent[r] \in Nat /\ wrong[r] \in Nat /\ requests[r].attempts \in Nat
      /\ MaxAttempts \in Nat
  BY ConsentAssumption DEF ConsentInv, ConsentTypeOK, Request
<1>2. /\ requests[r].attempts <= MaxAttempts
      /\ IF sent[r] = 0
         THEN wrong[r] = 0 /\ requests[r].attempts = 0
         ELSE wrong[r] <= MaxAttempts * (sent[r] - 1) + requests[r].attempts
  BY DEF ConsentInv, CountedAttempts
<1>3. CASE sent[r] = 0
  BY <1>1, <1>2, <1>3
<1>4. CASE sent[r] # 0
  <2> DEFINE a == MaxAttempts * sent[r]
             b == MaxAttempts * (sent[r] - 1)
  <2>1. a \in Nat /\ b \in Nat /\ a = b + MaxAttempts
    BY <1>1, <1>4, OneMoreCode
  <2>2. wrong[r] <= b + requests[r].attempts
    BY <1>2, <1>4
  <2> HIDE DEF a, b
  <2>3. wrong[r] <= a
    BY <1>1, <1>2, <2>1, <2>2
  <2>4. QED
    BY <2>3 DEF a
<1>5. QED
  BY <1>3, <1>4
-----------------------------------------------------------------------------
LEMMA InstrumentInitial == Init => IInv
<1> SUFFICES ASSUME Init PROVE IInv
  OBVIOUS
<1>1. ConsentInv
  BY ConsentInitial DEF Init
<1>2. InstrumentTypeOK /\ VisitsAgree /\ AttachedIsConfirmed
  BY DEF Init, InstrumentTypeOK, VisitsAgree, AttachedIsConfirmed, NoInstrument, NoVisit
<1>3. QED
  BY <1>1, <1>2 DEF IInv

(* The customer the rail is asked for carries the mandate it is for. *)
LEMMA ShopperOfMandate ==
  ASSUME ConsentInv, NEW s \in Submissions
  PROVE  Shopper(s) \in Customers /\ Shopper(s).email = s
<1>1. Contact(s) \in Requests \cup {None}
  BY DEF ConsentInv, ConsentTypeOK, Contact, Mandate
<1>2. QED
  BY <1>1 DEF Shopper, Customers

(* A visit keeps the instruments right, whatever became of its mandate     *)
(* meanwhile.                                                              *)
LEMMA VisitKeeps ==
  ASSUME IInv, UNCHANGED consents, NEW v \in Visits, VisitStep(v)
  PROVE  InstrumentTypeOK' /\ VisitsAgree' /\ AttachedIsConfirmed'
<1> DEFINE Attached == [customer : Customers \cup {None}, token : Customers \cup {None}]
           Visit == [pc : {"idle", "begin", "created", "complete", "confirmed", "done"},
                     mandate : Submissions \cup {None},
                     customer : Customers \cup {None}]
<1>0. /\ instruments \in [Submissions -> Attached] /\ visits \in [Visits -> Visit]
      /\ tokens \subseteq setups /\ setups \subseteq Customers
      /\ None \notin Customers /\ VisitsAgree /\ AttachedIsConfirmed
  BY InstrumentAssumption DEF IInv, InstrumentTypeOK
<1> DEFINE Fits(visit, made, ok) ==
             visit.pc \notin {"idle", "done"} =>
               /\ visit.mandate \in Submissions
               /\ visit.customer \in Customers
               /\ visit.customer.email = visit.mandate
               /\ visit.pc \in {"created", "complete", "confirmed"} => visit.customer \in made
               /\ visit.pc = "confirmed" => visit.customer \in ok
           Sound(row, s, made, ok) ==
             /\ row.customer # None => row.customer.email = s /\ row.customer \in made
             /\ row.token # None =>
                  row.customer # None /\ row.token.email = s /\ row.token \in ok
<1>1. Fits(visits[v], setups, tokens)
  BY <1>0 DEF VisitsAgree
<1>2. ASSUME NEW visit \in Visit, Fits(visit, setups', tokens'),
             visits' = [visits EXCEPT ![v] = visit],
             setups \subseteq setups', tokens \subseteq tokens'
      PROVE  visits' \in [Visits -> Visit] /\ VisitsAgree'
  <2>1. visits' \in [Visits -> Visit]
    BY <1>0, <1>2
  <2>2. \A w \in Visits : Fits(visits'[w], setups', tokens')
    BY <1>0, <1>2 DEF VisitsAgree
  <2>3. QED
    BY <2>1, <2>2 DEF VisitsAgree
<1>3. ASSUME NEW s \in Submissions, NEW row \in Attached, Sound(row, s, setups, tokens),
             instruments' = [instruments EXCEPT ![s] = row], UNCHANGED <<setups, tokens>>
      PROVE  instruments' \in [Submissions -> Attached] /\ AttachedIsConfirmed'
  <2>1. \A t \in Submissions : Sound(instruments'[t], t, setups, tokens)
    BY <1>0, <1>3 DEF AttachedIsConfirmed
  <2>2. QED
    BY <1>0, <1>3, <2>1 DEF AttachedIsConfirmed
<1>4. ASSUME UNCHANGED <<instruments, tokens>>, setups \subseteq setups'
      PROVE  instruments' \in [Submissions -> Attached] /\ AttachedIsConfirmed'
  BY <1>0, <1>4 DEF AttachedIsConfirmed
<1>5. EndedVisit \in Visit /\ Fits(EndedVisit, setups', tokens') /\ visits[v] \in Visit
  BY <1>0 DEF EndedVisit, NoVisit
<1>6. ASSUME visits' \in [Visits -> Visit], instruments' \in [Submissions -> Attached],
             tokens' \subseteq setups', setups' \subseteq Customers
      PROVE  InstrumentTypeOK'
  BY <1>6 DEF InstrumentTypeOK
<1>7. CASE \E s \in Submissions : beginInstrumentSetup(v, s)
  <2>1. PICK s \in Submissions : beginInstrumentSetup(v, s)
    BY <1>7
  <2> DEFINE visit == [pc |-> "begin", mandate |-> s, customer |-> Shopper(s)]
  <2>2. Shopper(s) \in Customers /\ Shopper(s).email = s
    BY ShopperOfMandate DEF IInv
  <2>3. visit \in Visit /\ Fits(visit, setups', tokens')
    BY <2>2
  <2>4. visits' = [visits EXCEPT ![v] = visit] /\ UNCHANGED <<instruments, setups, tokens>>
    BY <2>1 DEF beginInstrumentSetup
  <2> HIDE DEF visit, Visit, Attached, Fits
  <2>5. QED
    BY <1>0, <1>2, <1>4, <1>6, <2>3, <2>4
<1>8. CASE \E s \in Submissions : completeInstrumentSetup(v, s)
  <2>1. PICK s \in Submissions : completeInstrumentSetup(v, s)
    BY <1>8
  <2> DEFINE visit == [pc |-> "complete", mandate |-> s, customer |-> instruments[s].customer]
  <2>2. UNCHANGED <<instruments, setups, tokens>> /\ visits' = [visits EXCEPT ![v] = visit]
    BY <2>1 DEF completeInstrumentSetup
  <2>3. visit \in Visit /\ Fits(visit, setups', tokens')
    BY <1>0, <2>1, <2>2 DEF completeInstrumentSetup, AttachedIsConfirmed
  <2> HIDE DEF visit, Visit, Attached, Fits
  <2>4. QED
    BY <1>0, <1>2, <1>4, <1>6, <2>2, <2>3
<1>9. CASE MandateSetup(v)
  <2> DEFINE visit == [visits[v] EXCEPT !.pc = "created"]
  <2>1. /\ UNCHANGED <<instruments, tokens>> /\ visits' = [visits EXCEPT ![v] = visit]
        /\ setups' = setups \cup {visits[v].customer} /\ visits[v].pc = "begin"
    BY <1>9 DEF MandateSetup
  <2>2. visit \in Visit /\ Fits(visit, setups', tokens') /\ setups' \subseteq Customers
    BY <1>0, <1>1, <1>5, <2>1
  <2> HIDE DEF visit, Visit, Attached, Fits
  <2>3. QED
    BY <1>0, <1>2, <1>4, <1>6, <2>1, <2>2
<1>10. CASE StoreCustomer(v)
  <2> DEFINE s == visits[v].mandate
             row == [instruments[s] EXCEPT !.customer = visits[v].customer]
  <2>1. /\ UNCHANGED <<setups, tokens>> /\ visits' = [visits EXCEPT ![v] = EndedVisit]
        /\ instruments' = [instruments EXCEPT ![s] = row] /\ visits[v].pc = "created"
    BY <1>10 DEF StoreCustomer
  <2>2. s \in Submissions /\ visits[v].customer \in setups /\ visits[v].customer.email = s
    BY <1>1, <2>1
  <2>3. row \in Attached /\ Sound(row, s, setups, tokens)
    <3> HIDE DEF s
    <3>1. instruments[s] \in Attached /\ Sound(instruments[s], s, setups, tokens)
      BY <1>0, <2>2 DEF AttachedIsConfirmed
    <3>2. QED
      BY <1>0, <2>2, <3>1
  <2> HIDE DEF s, row, Visit, Attached, Fits, Sound
  <2>4. QED
    BY <1>0, <1>2, <1>3, <1>5, <1>6, <2>1, <2>2, <2>3
<1>11. CASE FindToken(v)
  <2> DEFINE visit == [visits[v] EXCEPT !.pc = "confirmed"]
  <2>1. /\ UNCHANGED <<instruments, setups, tokens>> /\ visits[v].pc = "complete"
        /\ \/ visits[v].customer \in tokens /\ visits' = [visits EXCEPT ![v] = visit]
           \/ visits' = [visits EXCEPT ![v] = EndedVisit]
    BY <1>11 DEF FindToken
  <2>2. visit \in Visit /\ (visits[v].customer \in tokens => Fits(visit, setups', tokens'))
    BY <1>0, <1>1, <1>5, <2>1
  <2> HIDE DEF visit, Visit, Attached, Fits
  <2>3. QED
    BY <1>0, <1>2, <1>4, <1>5, <1>6, <2>1, <2>2
<1>12. CASE attachPaymentInstrument(v)
  <2> DEFINE s == visits[v].mandate
             row == [customer |-> visits[v].customer, token |-> visits[v].customer]
  <2>1. /\ UNCHANGED <<setups, tokens>> /\ visits' = [visits EXCEPT ![v] = EndedVisit]
        /\ instruments' = [instruments EXCEPT ![s] = row] /\ visits[v].pc = "confirmed"
    BY <1>12 DEF attachPaymentInstrument
  <2>2. /\ s \in Submissions /\ visits[v].customer \in tokens
        /\ visits[v].customer.email = s
    BY <1>1, <2>1
  <2>3. row \in Attached /\ Sound(row, s, setups, tokens)
    BY <1>0, <2>2
  <2> HIDE DEF s, row, Visit, Attached, Fits, Sound
  <2>4. QED
    BY <1>0, <1>2, <1>3, <1>5, <1>6, <2>1, <2>2, <2>3
<1>13. CASE CrashVisit(v)
  <2>1. /\ UNCHANGED <<instruments, setups, tokens>> /\ visits' = [visits EXCEPT ![v] = EndedVisit]
    BY <1>13 DEF CrashVisit
  <2> HIDE DEF Visit, Attached, Fits
  <2>2. QED
    BY <1>0, <1>2, <1>4, <1>5, <1>6, <2>1
<1>14. QED
  BY <1>7, <1>8, <1>9, <1>10, <1>11, <1>12, <1>13 DEF VisitStep

LEMMA InstrumentKept ==
  ASSUME IInv, [Next]_vars
  PROVE  IInv'
<1>1. CASE ConsentNext /\ UNCHANGED payments
  <2>1. ConsentInv'
    BY <1>1, ConsentKept DEF IInv
  <2>2. InstrumentTypeOK' /\ VisitsAgree' /\ AttachedIsConfirmed'
    BY <1>1 DEF IInv, InstrumentTypeOK, VisitsAgree, AttachedIsConfirmed, payments
  <2>3. QED
    BY <2>1, <2>2 DEF IInv
<1>2. ASSUME UNCHANGED consents, NEW v \in Visits, VisitStep(v) PROVE IInv'
  <2>1. ConsentInv'
    BY <1>2, ConsentKept DEF IInv
  <2>2. QED
    BY <1>2, <2>1, VisitKeeps DEF IInv
<1>3. ASSUME UNCHANGED consents, NEW customer \in setups, BankConfirms(customer) PROVE IInv'
  <2>1. ConsentInv'
    BY <1>3, ConsentKept DEF IInv
  <2>2. InstrumentTypeOK' /\ VisitsAgree' /\ AttachedIsConfirmed'
    BY <1>3 DEF IInv, InstrumentTypeOK, VisitsAgree, AttachedIsConfirmed, BankConfirms
  <2>3. QED
    BY <2>1, <2>2 DEF IInv
<1>4. CASE UNCHANGED vars
  <2>1. ConsentInv'
    BY <1>4, ConsentKept DEF IInv, vars
  <2>2. InstrumentTypeOK' /\ VisitsAgree' /\ AttachedIsConfirmed'
    BY <1>4 DEF IInv, InstrumentTypeOK, VisitsAgree, AttachedIsConfirmed, vars, payments
  <2>3. QED
    BY <2>1, <2>2 DEF IInv
<1>5. QED
  BY <1>1, <1>2, <1>3, <1>4 DEF Next

(* The grant flow and the setup of instruments together keep IInv, the     *)
(* types of both among it, however their calls interleave and die.         *)
THEOREM InstrumentIsKept == Spec => []IInv
<1>1. Init => IInv
  BY InstrumentInitial
<1>2. IInv /\ [Next]_vars => IInv'
  BY InstrumentKept
<1>3. QED
  BY <1>1, <1>2, PTL DEF Spec

(* Over all the codes a request was sent, wrong answers are at most        *)
(* MaxAttempts for each: racing answers share the counter, and only a new  *)
(* code resets it.                                                         *)
THEOREM GuessesAreBounded == Spec => []GuessesBounded
<1>1. IInv => GuessesBounded
  BY CountedBounds DEF IInv
<1>2. QED
  BY <1>1, InstrumentIsKept, PTL

(* A mandate that names a shopper delivers where its request says, for     *)
(* good, however often the merchant binds and whoever submits the code;    *)
(* one that names none does until the merchant names the request's.        *)
THEOREM GrantsAreNotRedirected == Spec => []NeverRedirected
<1>1. IInv => NeverRedirected
  BY DEF IInv, ConsentInv
<1>2. QED
  BY <1>1, InstrumentIsKept, PTL

(* What is attached to a mandate a bank confirmed for it. *)
THEOREM AttachmentsAreConfirmed == Spec => []AttachedIsConfirmed
<1>1. IInv => AttachedIsConfirmed
  BY DEF IInv
<1>2. QED
  BY <1>1, InstrumentIsKept, PTL

(* A request that is decided, with no grant of it in progress, is decided  *)
(* for good and yields no further mandate.                                 *)
THEOREM DecisionsAreFinal == Spec => ClosedForGood
<1>1. IInv /\ [Next]_vars =>
        [\A r \in Requests : Closed(r) => Closed(r)' /\ MandatesOf(r)' = MandatesOf(r)]_consents
  <2>1. IInv /\ [Next]_vars => [ConsentNext]_consents
    BY DEF Next, vars
  <2>2. QED
    BY <2>1, ClosedStays DEF IInv
<1>2. QED
  BY <1>1, InstrumentIsKept, PTL DEF Spec, ClosedForGood
=============================================================================
