------------------------------- MODULE Consent -------------------------------
(***************************************************************************)
(* The grant flow: from an agent's request to a mandate.                   *)
(*                                                                         *)
(*   requestConsent    the agent's request, with or without the merchant's *)
(*                     ids for the shopper and the address;                *)
(*   bindConsentRefs   the merchant names them while nothing is decided;   *)
(*   sendOtp           every view of the consent screen sends a code;      *)
(*   verifyAndGrant    a code is checked in one transaction; a pseudonym,  *)
(*                     an auth event, the mandate and the mark on the      *)
(*                     request follow, each committed by itself.           *)
(*                                                                         *)
(* Submissions of a code run concurrently and may die between two commits. *)
(* The ids a submission draws (pseudonym, event, mandate) are named by the *)
(* submission.  An answer is right or wrong; a code that another one has   *)
(* replaced is a wrong answer.  MaxSends bounds the codes of a request.    *)
(***************************************************************************)
EXTENDS Naturals

CONSTANTS
  Requests,
  Submissions,   \* calls of verifyAndGrant whose code is right
  Refs,          \* the merchant's ids, of shoppers and of addresses
  Bindings,      \* a shopper and an address the merchant may name
  Referrals,     \* what a request for consent may carry already, or None
  MaxAttempts,   \* wrong answers a code survives (5)
  MaxSends,
  None

ASSUME ConsentAssumption ==
  /\ Bindings \subseteq Refs \X Refs
  /\ Referrals \subseteq (Refs \cup {None}) \X (Refs \cup {None})
  /\ MaxAttempts \in Nat \ {0} /\ MaxSends \in Nat
  /\ None \notin Requests \cup Submissions \cup Refs

VARIABLES
  requests,      \* consent_requests
  submissions,   \* the calls of verifyAndGrant in progress
  persons,       \* pseudonym_map: whose contact a pseudonym stands for
  events,        \* auth_events
  mandates,
  sent, wrong    \* history: codes sent and wrong answers given, by request

consents == <<requests, submissions, persons, events, mandates, sent, wrong>>

NoRequest == [state |-> "none", otp |-> FALSE, lapsed |-> FALSE, attempts |-> 0,
              customer_ref |-> None, fulfilment_ref |-> None, mandate_id |-> None]
NoMandate == [request |-> None, state |-> "none", customer_ref |-> None,
              fulfilment_ref |-> None]
NoSubmission == [pc |-> "idle", request |-> None, customer_ref |-> None,
                 fulfilment_ref |-> None]

ConsentInit ==
  /\ requests = [r \in Requests |-> NoRequest]
  /\ submissions = [s \in Submissions |-> NoSubmission]
  /\ persons = [s \in Submissions |-> None]
  /\ events = {}
  /\ mandates = [s \in Submissions |-> NoMandate]
  /\ sent = [r \in Requests |-> 0]
  /\ wrong = [r \in Requests |-> 0]
-----------------------------------------------------------------------------
requestConsent(r, referral) ==
  /\ requests[r].state = "none"
  /\ requests' = [requests EXCEPT ![r] =
       [NoRequest EXCEPT !.state = "pending", !.customer_ref = referral[1],
                         !.fulfilment_ref = referral[2]]]
  /\ UNCHANGED <<submissions, persons, events, mandates, sent, wrong>>

Undecided(r) == requests[r].state \in {"pending", "otp_sent"}

(* Mutant: who is approving may be named again. *)
bindAgain(r, binding) ==
  /\ Undecided(r)
  /\ requests' = [requests EXCEPT ![r] =
       [@ EXCEPT !.customer_ref = binding[1], !.fulfilment_ref = binding[2]]]
  /\ UNCHANGED <<submissions, persons, events, mandates, sent, wrong>>
(* BOUND; the other outcomes change nothing.                               *)
bindConsentRefs(r, binding) ==
  /\ Undecided(r)
  /\ requests[r].customer_ref = None
  /\ requests' = [requests EXCEPT ![r] =
       [@ EXCEPT !.customer_ref = binding[1], !.fulfilment_ref = binding[2]]]
  /\ UNCHANGED <<submissions, persons, events, mandates, sent, wrong>>

(* Mutant: a code is sent whatever has become of the request. *)
sendOtpAlways(r) ==
  /\ requests[r].state # "none" /\ sent[r] < MaxSends
  /\ requests' = [requests EXCEPT ![r] =
       [@ EXCEPT !.state = "otp_sent", !.otp = TRUE, !.lapsed = FALSE, !.attempts = 0]]
  /\ sent' = [sent EXCEPT ![r] = @ + 1]
  /\ UNCHANGED <<submissions, persons, events, mandates, wrong>>
sendOtp(r) ==
  /\ Undecided(r) /\ sent[r] < MaxSends
  /\ requests' = [requests EXCEPT ![r] =
       [@ EXCEPT !.state = "otp_sent", !.otp = TRUE, !.lapsed = FALSE, !.attempts = 0]]
  /\ sent' = [sent EXCEPT ![r] = @ + 1]
  /\ UNCHANGED <<submissions, persons, events, mandates, wrong>>

(* otp_expires_at passes.                                                  *)
Lapse(r) ==
  /\ requests[r].otp /\ ~requests[r].lapsed
  /\ requests' = [requests EXCEPT ![r].lapsed = TRUE]
  /\ UNCHANGED <<submissions, persons, events, mandates, sent, wrong>>
-----------------------------------------------------------------------------
(* verifyAndGrant: the transaction that holds the row.  NOT_FOUND, when no *)
(* code was ever sent, changes nothing.                                    *)
Answerable(r) ==
  /\ requests[r].state = "otp_sent"
  /\ ~requests[r].lapsed
  /\ requests[r].attempts < MaxAttempts

(* Whatever the request was, granted included, it is expired now.          *)
AnswerExpired(r) ==
  /\ requests[r].otp
  /\ ~Answerable(r)
  /\ requests' = [requests EXCEPT ![r].state = "expired"]
  /\ UNCHANGED <<submissions, persons, events, mandates, sent, wrong>>

(* Mutant: a wrong answer is not counted. *)
AnswerUncounted(r) ==
  /\ requests[r].otp /\ Answerable(r)
  /\ wrong' = [wrong EXCEPT ![r] = @ + 1]
  /\ UNCHANGED <<requests, submissions, persons, events, mandates, sent>>
AnswerWrong(r) ==
  /\ requests[r].otp /\ Answerable(r)
  /\ requests' = [requests EXCEPT ![r].attempts = @ + 1]
  /\ wrong' = [wrong EXCEPT ![r] = @ + 1]
  /\ UNCHANGED <<submissions, persons, events, mandates, sent>>

(* The request stays as it is; its ids are what the mandate will carry.    *)
AnswerRight(s, r) ==
  /\ submissions[s].pc = "idle"
  /\ requests[r].otp /\ Answerable(r)
  /\ submissions' = [submissions EXCEPT ![s] =
       [pc |-> "checked", request |-> r,
        customer_ref |-> requests[r].customer_ref,
        fulfilment_ref |-> requests[r].fulfilment_ref]]
  /\ UNCHANGED <<requests, persons, events, mandates, sent, wrong>>

insertPseudonym(s) ==
  /\ submissions[s].pc = "checked"
  /\ submissions' = [submissions EXCEPT ![s].pc = "named"]
  /\ persons' = [persons EXCEPT ![s] = submissions[s].request]
  /\ UNCHANGED <<requests, events, mandates, sent, wrong>>

recordAuthEvent(s) ==
  /\ submissions[s].pc = "named"
  /\ submissions' = [submissions EXCEPT ![s].pc = "verified"]
  /\ events' = events \cup {s}
  /\ UNCHANGED <<requests, persons, mandates, sent, wrong>>

issue(s) ==
  /\ submissions[s].pc = "verified"
  /\ submissions' = [submissions EXCEPT ![s].pc = "issued"]
  /\ mandates' = [mandates EXCEPT ![s] =
       [request |-> submissions[s].request, state |-> "live",
        customer_ref |-> submissions[s].customer_ref,
        fulfilment_ref |-> submissions[s].fulfilment_ref]]
  /\ UNCHANGED <<requests, persons, events, sent, wrong>>

(* Mutant: the request is marked before its mandate exists. *)
finishEarly(s) ==
  /\ submissions[s].pc = "verified"
  /\ submissions' = [submissions EXCEPT ![s].pc = "done"]
  /\ requests' = [requests EXCEPT ![submissions[s].request] =
       [@ EXCEPT !.state = "granted", !.mandate_id = s]]
  /\ UNCHANGED <<persons, events, mandates, sent, wrong>>
(* Whatever the request has become, and whichever mandate it names.        *)
finish(s) ==
  /\ submissions[s].pc = "issued"
  /\ submissions' = [submissions EXCEPT ![s].pc = "done"]
  /\ requests' = [requests EXCEPT ![submissions[s].request] =
       [@ EXCEPT !.state = "granted", !.mandate_id = s]]
  /\ UNCHANGED <<persons, events, mandates, sent, wrong>>

InFlight == {"checked", "named", "verified", "issued"}

(* The process dies, or a commit fails: what is committed stays.           *)
CrashSubmission(s) ==
  /\ submissions[s].pc \in InFlight
  /\ submissions' = [submissions EXCEPT ![s].pc = "dead"]
  /\ UNCHANGED <<requests, persons, events, mandates, sent, wrong>>

revoke(s) ==
  /\ mandates[s].state = "live"
  /\ mandates' = [mandates EXCEPT ![s].state = "revoked"]
  /\ UNCHANGED <<requests, submissions, persons, events, sent, wrong>>
-----------------------------------------------------------------------------
RequestStep(r) ==
  \/ \E referral \in Referrals : requestConsent(r, referral)
  \/ \E binding \in Bindings : bindConsentRefs(r, binding)
  \/ sendOtp(r) \/ Lapse(r) \/ AnswerExpired(r) \/ AnswerWrong(r)

SubmissionStep(s) ==
  \/ \E r \in Requests : AnswerRight(s, r)
  \/ insertPseudonym(s) \/ recordAuthEvent(s) \/ issue(s) \/ finish(s)
  \/ CrashSubmission(s) \/ revoke(s)

ConsentNext ==
  \/ \E r \in Requests : RequestStep(r)
  \/ \E s \in Submissions : SubmissionStep(s)

ConsentSpec == ConsentInit /\ [][ConsentNext]_consents
-----------------------------------------------------------------------------
Request == [state : {"none", "pending", "otp_sent", "granted", "expired"},
            otp : BOOLEAN, lapsed : BOOLEAN, attempts : Nat,
            customer_ref : Refs \cup {None},
            fulfilment_ref : Refs \cup {None},
            mandate_id : Submissions \cup {None}]
Submission == [pc : InFlight \cup {"idle", "done", "dead"},
               request : Requests \cup {None},
               customer_ref : Refs \cup {None},
               fulfilment_ref : Refs \cup {None}]
Mandate == [request : Requests \cup {None}, state : {"none", "live", "revoked"},
            customer_ref : Refs \cup {None},
            fulfilment_ref : Refs \cup {None}]

ConsentTypeOK ==
  /\ requests \in [Requests -> Request]
  /\ submissions \in [Submissions -> Submission]
  /\ persons \in [Submissions -> Requests \cup {None}]
  /\ events \subseteq Submissions
  /\ mandates \in [Submissions -> Mandate]
  /\ sent \in [Requests -> Nat]
  /\ wrong \in [Requests -> Nat]

(* What a call in progress has committed, at each step of it.              *)
GrantInOrder ==
  \A s \in Submissions :
    LET sub == submissions[s]
    IN  /\ sub.pc # "idle" =>
             sub.request \in Requests /\ requests[sub.request].state # "none"
        /\ sub.pc \in {"named", "verified", "issued", "done"} =>
             persons[s] = sub.request
        /\ sub.pc \in {"verified", "issued", "done"} => s \in events
        /\ sub.pc \in {"issued", "done"} => mandates[s].request = sub.request
        /\ sub.pc \in {"idle", "checked", "named", "verified"} => mandates[s] = NoMandate
        /\ mandates[s] # NoMandate => mandates[s].request = sub.request

(* INV-13: every mandate rests on an auth event of its own, of the person  *)
(* whose contact was sent the code; and a granted request names a mandate  *)
(* that was issued for it.                                                 *)
MandatesHaveEvents ==
  /\ \A s \in Submissions :
       mandates[s].request # None =>
         s \in events /\ persons[s] = mandates[s].request
  /\ \A r \in Requests :
       /\ requests[r].state = "granted" => requests[r].mandate_id # None
       /\ requests[r].mandate_id # None =>
            mandates[requests[r].mandate_id].request = r

(* The goods of a mandate go where its request said when the code was      *)
(* checked.  A request names its shopper once ("Only accepted before the   *)
(* grant exists"), so a mandate, or a check on its way to one, that names  *)
(* a shopper has the request's two ids for good.  One that names none has  *)
(* them until the merchant binds, which a bind after the check still may:  *)
(* an address the request came with alone is then the mandate's only.      *)
SameRefs(row, r) ==
  \/ /\ row.customer_ref = requests[r].customer_ref
     /\ row.fulfilment_ref = requests[r].fulfilment_ref
  \/ row.customer_ref = None /\ requests[r].customer_ref # None

NeverRedirected ==
  \A s \in Submissions :
    /\ mandates[s].request # None => SameRefs(mandates[s], mandates[s].request)
    /\ submissions[s].pc # "idle" => SameRefs(submissions[s], submissions[s].request)

(* No code of a request, whoever answers and however the answers race, is  *)
(* answered wrongly more often than a code survives, over all codes sent.  *)
CountedAttempts ==
  \A r \in Requests :
    /\ requests[r].attempts <= MaxAttempts
    /\ requests[r].otp <=> sent[r] # 0
    /\ requests[r].state \in {"none", "pending"} => ~requests[r].otp
    /\ IF sent[r] = 0
       THEN wrong[r] = 0 /\ requests[r].attempts = 0
       ELSE wrong[r] <= MaxAttempts * (sent[r] - 1) + requests[r].attempts
GuessesBounded == \A r \in Requests : wrong[r] <= MaxAttempts * sent[r]

(* A decided request with no grant on its way: neither another view of the *)
(* screen nor another answer brings it back, and it yields no mandate.     *)
Closed(r) ==
  /\ requests[r].state \in {"granted", "expired"}
  /\ \A s \in Submissions :
       submissions[s].request = r => submissions[s].pc \notin InFlight
MandatesOf(r) == {s \in Submissions : mandates[s].request = r}

ClosedForGood ==
  [][\A r \in Requests :
       Closed(r) => Closed(r)' /\ MandatesOf(r)' = MandatesOf(r)]_consents

ConsentInv ==
  /\ ConsentTypeOK
  /\ GrantInOrder
  /\ MandatesHaveEvents
  /\ NeverRedirected
  /\ CountedAttempts
=============================================================================
