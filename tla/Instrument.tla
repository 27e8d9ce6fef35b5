----------------------------- MODULE Instrument ------------------------------
(***************************************************************************)
(* A way to pay for a mandate that exists: beginInstrumentSetup has the    *)
(* rail create a customer and an order for the shopper's bank to confirm,  *)
(* completeInstrumentSetup asks the rail for the token the bank made and   *)
(* attaches it.  Each reads the mandate, calls the rail through the        *)
(* executor, and writes the mandate in a later transaction.                *)
(*                                                                         *)
(* The rail returns an existing customer for the same email and contact.   *)
(* The email is made from the mandate, the contact is read from the        *)
(* request that names the mandate and empty when none does.  A token is    *)
(* named by the customer it belongs to.  A visit is one call of one of the *)
(* two; MaxSetups bounds the customers.                                    *)
(***************************************************************************)
EXTENDS Consent, FiniteSets

CONSTANTS
  Begins,      \* calls of beginInstrumentSetup
  Completes,   \* and of completeInstrumentSetup
  MaxSetups    \* customers created at the rail

Visits == Begins \cup Completes
Customers == [email : Submissions, contact : Requests \cup {None}]

ASSUME InstrumentAssumption == None \notin Customers

VARIABLES
  instruments,   \* mandates.payment_customer_ref and payment_token_ref
  visits,
  setups,        \* rail: customers with an order the bank may confirm
  tokens         \* rail: customers whose bank has

payments == <<instruments, visits, setups, tokens>>
vars == <<consents, payments>>

NoInstrument == [customer |-> None, token |-> None]
NoVisit == [pc |-> "idle", mandate |-> None, customer |-> None]
EndedVisit == [NoVisit EXCEPT !.pc = "done"]

Init ==
  /\ ConsentInit
  /\ instruments = [s \in Submissions |-> NoInstrument]
  /\ visits = [v \in Visits |-> NoVisit]
  /\ setups = {}
  /\ tokens = {}
-----------------------------------------------------------------------------
(* LEFT JOIN consent_requests ON mandate_id: the contact of the request    *)
(* that names the mandate.                                                 *)
Contact(s) ==
  IF \E r \in Requests : requests[r].mandate_id = s
  THEN mandates[s].request ELSE None

Shopper(s) == [email |-> s, contact |-> Contact(s)]

beginInstrumentSetup(v, s) ==
  /\ v \in Begins
  /\ visits[v].pc = "idle"
  /\ mandates[s].state = "live"
  /\ visits' = [visits EXCEPT ![v] =
                  [pc |-> "begin", mandate |-> s, customer |-> Shopper(s)]]
  /\ UNCHANGED <<instruments, setups, tokens>>

(* The rail has the customer and the order, whether or not the answer      *)
(* arrives.                                                                *)
MandateSetup(v) ==
  /\ visits[v].pc = "begin"
  /\ visits[v].customer \in setups \/ Cardinality(setups) < MaxSetups
  /\ visits' = [visits EXCEPT ![v].pc = "created"]
  /\ setups' = setups \cup {visits[v].customer}
  /\ UNCHANGED <<instruments, tokens>>

StoreCustomer(v) ==
  /\ visits[v].pc = "created"
  /\ visits' = [visits EXCEPT ![v] = EndedVisit]
  /\ instruments' = [instruments EXCEPT ![visits[v].mandate].customer = visits[v].customer]
  /\ UNCHANGED <<setups, tokens>>

completeInstrumentSetup(v, s) ==
  /\ v \in Completes
  /\ visits[v].pc = "idle"
  /\ mandates[s].state = "live"
  /\ instruments[s].customer # None
  /\ visits' = [visits EXCEPT ![v] =
                  [pc |-> "complete", mandate |-> s,
                   customer |-> instruments[s].customer]]
  /\ UNCHANGED <<instruments, setups, tokens>>

(* Mutant: the page's word that the bank approved is enough. *)
BelievePage(v) ==
  /\ visits[v].pc = "complete"
  /\ visits' = [visits EXCEPT ![v].pc = "confirmed"]
  /\ UNCHANGED <<instruments, setups, tokens>>
(* NOT_YET ends the call.                                                  *)
FindToken(v) ==
  /\ visits[v].pc = "complete"
  /\ visits' = IF visits[v].customer \in tokens
               THEN [visits EXCEPT ![v].pc = "confirmed"]
               ELSE [visits EXCEPT ![v] = EndedVisit]
  /\ UNCHANGED <<instruments, setups, tokens>>

(* The mandate is not read again: it may be revoked by now, and may name   *)
(* another customer.                                                       *)
attachPaymentInstrument(v) ==
  /\ visits[v].pc = "confirmed"
  /\ visits' = [visits EXCEPT ![v] = EndedVisit]
  /\ instruments' = [instruments EXCEPT ![visits[v].mandate] =
                       [customer |-> visits[v].customer, token |-> visits[v].customer]]
  /\ UNCHANGED <<setups, tokens>>

CrashVisit(v) ==
  /\ visits[v].pc \notin {"idle", "done"}
  /\ visits' = [visits EXCEPT ![v] = EndedVisit]
  /\ UNCHANGED <<instruments, setups, tokens>>

BankConfirms(customer) ==
  /\ customer \in setups
  /\ tokens' = tokens \cup {customer}
  /\ UNCHANGED <<instruments, visits, setups>>
-----------------------------------------------------------------------------
VisitStep(v) ==
  \/ \E s \in Submissions : beginInstrumentSetup(v, s) \/ completeInstrumentSetup(v, s)
  \/ MandateSetup(v) \/ StoreCustomer(v) \/ FindToken(v)
  \/ attachPaymentInstrument(v) \/ CrashVisit(v)

Next ==
  \/ ConsentNext /\ UNCHANGED payments
  \/ /\ \/ \E v \in Visits : VisitStep(v)
        \/ \E customer \in setups : BankConfirms(customer)
     /\ UNCHANGED consents

Spec == Init /\ [][Next]_vars
-----------------------------------------------------------------------------
InstrumentTypeOK ==
  /\ instruments \in [Submissions -> [customer : Customers \cup {None},
                                      token : Customers \cup {None}]]
  /\ visits \in [Visits -> [pc : {"idle", "begin", "created", "complete", "confirmed", "done"},
                            mandate : Submissions \cup {None},
                            customer : Customers \cup {None}]]
  /\ tokens \subseteq setups
  /\ setups \subseteq Customers

(* A visit acts for the mandate whose customer it carries, and has what it *)
(* carries from the rail.                                                  *)
VisitsAgree ==
  \A v \in Visits :
    LET visit == visits[v]
    IN  visit.pc \notin {"idle", "done"} =>
          /\ visit.mandate \in Submissions
          /\ visit.customer \in Customers
          /\ visit.customer.email = visit.mandate
          /\ visit.pc \in {"created", "complete", "confirmed"} =>
               visit.customer \in setups
          /\ visit.pc = "confirmed" => visit.customer \in tokens

(* "A page cannot assert that a bank approved anything": whatever is       *)
(* attached to a mandate, by a completion that set-ups of the same mandate *)
(* overtake, a bank confirmed for a customer of that very mandate.         *)
AttachedIsConfirmed ==
  \A s \in Submissions :
    /\ instruments[s].customer # None =>
         instruments[s].customer.email = s /\ instruments[s].customer \in setups
    /\ instruments[s].token # None =>
         /\ instruments[s].customer # None
         /\ instruments[s].token.email = s
         /\ instruments[s].token \in tokens

IInv == ConsentInv /\ InstrumentTypeOK /\ VisitsAgree /\ AttachedIsConfirmed
=============================================================================
