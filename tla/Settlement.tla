----------------------------- MODULE Settlement -----------------------------
(***************************************************************************)
(* From a committed ALLOW to money that moved, or did not:                 *)
(*                                                                         *)
(*   execute             claim the order row, search the rail when one is  *)
(*                       already there, create, charge, record;            *)
(*   ingestWebhook       claim the event and read the rail, apply, tell    *)
(*                       the merchant;                                     *)
(*   reconcileAmbiguous  scan, read the rail for each order, resolve;      *)
(*   compensateRevoked   scan, ask for a refund, release.                  *)
(*                                                                         *)
(* Each call to the rail lies between two transactions.  A call may fail,  *)
(* lose its answer, or be carried out after the caller gave up; an event   *)
(* is delivered any number of times, in any order.  MaxCalls, MaxCrashes   *)
(* bound the runs.                                                         *)
(***************************************************************************)
EXTENDS Naturals, Sequences, FiniteSets

CONSTANTS
  Intents, Mandates,
  MandateOf,        \* the mandate an intent spends from
  Executors, Hooks, Ticks, Compensators,   \* concurrent runs of the four
  RecentWindow,     \* how many rail orders a search looks at
  MaxCalls,         \* calls of execute for one intent
  MaxCrashes,       \* processes that die
  None

ASSUME Assumption ==
  /\ MandateOf \in [Intents -> Mandates]
  /\ RecentWindow \in Nat /\ MaxCalls \in Nat /\ MaxCrashes \in Nat
  /\ None \notin Intents

VARIABLES
  orders,      \* orders, by intent (UNIQUE): state, rail order id, payment
  holds,       \* reservations.state, by intent
  revoked,     \* revoked mandates
  refunds,     \* intents with a row in refunds
  told,        \* intents the merchant recorded as an order
  aged,        \* orders older than reconcileMaxAgeMs
  calls,       \* how often execute was called
  crashes,
  rail,        \* the rail's orders, oldest first; the index is the id
  landing,     \* creates the caller gave up on and the rail may still do
  asked,       \* rail orders somebody holds the means to pay
  refunded,    \* rail orders whose payment was returned
  events,      \* webhook events the rail emitted
  claims,      \* webhook_events
  exec, hook, tick, comp   \* where each run is, with what it read

ours    == <<orders, holds, revoked, refunds, told, aged, calls, crashes>>
theirs  == <<rail, landing, asked, refunded, events>>
runs    == <<exec, hook, tick, comp>>
vars    == <<ours, theirs, claims, runs>>
-----------------------------------------------------------------------------
Pending == {"SUBMITTING", "SUBMITTED", "AMBIGUOUS"}

NoOrder == [state |-> "none", rail |-> 0, payment |-> 0]
NoExec  == [pc |-> "idle", intent |-> None, token |-> FALSE, rail |-> 0,
            state |-> "none"]
NoHook  == [pc |-> "idle", event |-> None, intent |-> None, status |-> "none"]
NoTick  == [pc |-> "idle", snapshot |-> {}, intent |-> None, expired |-> FALSE,
            status |-> "none", rail |-> 0, payment |-> 0]
NoComp  == [pc |-> "idle", intent |-> None, payment |-> 0]

Init ==
  /\ orders = [i \in Intents |-> NoOrder]
  /\ holds = [i \in Intents |-> "none"]
  /\ revoked = {} /\ refunds = {} /\ told = {} /\ aged = {} /\ claims = {}
  /\ calls = [i \in Intents |-> 0]
  /\ crashes = 0
  /\ rail = <<>>
  /\ landing = {} /\ asked = {} /\ refunded = {} /\ events = {}
  /\ exec = [h \in Executors |-> NoExec]
  /\ hook = [w \in Hooks |-> NoHook]
  /\ tick = [t \in Ticks |-> NoTick]
  /\ comp = [c \in Compensators |-> NoComp]
-----------------------------------------------------------------------------
(* The rail. *)

Created(i) == [intent |-> i, status |-> "created"]

(* The oldest order of the newest page whose notes carry the intent.       *)
Matches(i) ==
  {r \in DOMAIN rail : rail[r].intent = i /\ r + RecentWindow > Len(rail)}
findOrderByIntent(i) ==
  IF Matches(i) = {} THEN 0
  ELSE CHOOSE r \in Matches(i) : \A s \in Matches(i) : r <= s

(* Mutant: an attempt at a payment counts as one. *)
IsPaidOrTried(status) == status \in {"attempted", "paid"}
IsPaid(status) == status = "paid"

Payable(r) == rail[r].status \in {"created", "attempted"}

PaidAt(r) ==
  /\ rail' = [rail EXCEPT ![r].status = "paid"]
  /\ events' = events \cup {<<r, "payment.captured">>}

(* A create whose caller timed out is carried out after all. *)
LateCreate(i) ==
  /\ i \in landing
  /\ landing' = landing \ {i}
  /\ rail' = Append(rail, Created(i))
  /\ UNCHANGED <<ours, asked, refunded, events, claims, runs>>

(* The pay page: an order that is neither captured nor failed and has a    *)
(* rail id can be paid, also after the page was opened.                    *)
OpenPayPage(i) ==
  /\ orders[i].rail # 0
  /\ orders[i].state \notin {"CAPTURED", "FAILED"}
  /\ orders[i].rail \notin asked
  /\ asked' = asked \cup {orders[i].rail}
  /\ UNCHANGED <<ours, rail, landing, refunded, events, claims, runs>>

(* The payment succeeds, or an attempt at it fails. *)
Pay(r) ==
  /\ r \in asked
  /\ Payable(r)
  /\ \/ PaidAt(r)
     \/ \E s \in {"attempted", "failed"} :
          /\ rail[r].status = "created"
          /\ rail' = [rail EXCEPT ![r].status = s]
          /\ events' = events \cup {<<r, "payment.failed">>}
  /\ UNCHANGED <<ours, landing, asked, refunded, claims, runs>>
-----------------------------------------------------------------------------
(* The authorisation side, as far as this module can see it: a hold, its   *)
(* release by an answer to a challenge or by a job, and a revocation.      *)

Allow(i) ==
  /\ holds[i] = "none"
  /\ holds' = [holds EXCEPT ![i] = "held"]
  /\ UNCHANGED <<orders, revoked, refunds, told, aged, calls, crashes, theirs,
                 claims, runs>>

Abandon(i) ==
  /\ holds[i] = "held"
  /\ holds' = [holds EXCEPT ![i] = "released"]
  /\ UNCHANGED <<orders, revoked, refunds, told, aged, calls, crashes, theirs,
                 claims, runs>>

Revoke(m) ==
  /\ m \notin revoked
  /\ revoked' = revoked \cup {m}
  /\ UNCHANGED <<orders, holds, refunds, told, aged, calls, crashes, theirs,
                 claims, runs>>

(* Mutant: the capture does not look at the state of the hold. *)
captureAnyReservation(i) == holds' = [holds EXCEPT ![i] = "captured"]
captureReservation(i) ==
  holds' = [holds EXCEPT ![i] = IF @ = "held" THEN "captured" ELSE @]

releaseReservation(i) ==
  holds' = [holds EXCEPT ![i] = IF @ \in {"held", "captured"} THEN "released"
                                ELSE @]

(* setOrderState: no guard on the state it overwrites, and COALESCE on ids.*)
setOrderState(i, state, railId, payment) ==
  orders' = [orders EXCEPT ![i] =
    [state   |-> state,
     rail    |-> IF railId = 0 THEN @.rail ELSE railId,
     payment |-> IF payment = 0 THEN @.payment ELSE payment]]
-----------------------------------------------------------------------------
(* execute *)

(* Mutant: the row is inserted after the call, by recordExecution. *)
ExecuteUnclaimed(h, i, token) ==
  /\ exec[h].pc = "idle"
  /\ holds[i] # "none"
  /\ calls[i] < MaxCalls /\ i \notin aged
  /\ orders[i].state \in {"none", "SUBMITTING"}
  /\ calls' = [calls EXCEPT ![i] = @ + 1]
  /\ exec' = [exec EXCEPT ![h] =
       [NoExec EXCEPT !.intent = i, !.token = token,
          !.pc = IF orders[i].state = "none" THEN "creating" ELSE "searching"]]
  /\ UNCHANGED <<orders, holds, revoked, refunds, told, aged, crashes, theirs,
                 claims, hook, tick, comp>>

(* The claim: the first call inserts the order row, a call that finds it   *)
(* in SUBMITTING searches the rail, any other returns what it found.       *)
Execute(h, i, token) ==
  /\ exec[h].pc = "idle"
  /\ holds[i] # "none"
  /\ calls[i] < MaxCalls /\ i \notin aged
  /\ orders[i].state \in {"none", "SUBMITTING"}
  /\ calls' = [calls EXCEPT ![i] = @ + 1]
  /\ exec' = [exec EXCEPT ![h] =
       [NoExec EXCEPT !.intent = i, !.token = token,
          !.pc = IF orders[i].state = "none" THEN "creating" ELSE "searching"]]
  /\ orders' = [orders EXCEPT ![i].state = "SUBMITTING"]
  /\ UNCHANGED <<holds, revoked, refunds, told, aged, crashes, theirs, claims,
                 hook, tick, comp>>

(* An order that is found is adopted; a search that fails counts as none.  *)
Search(h) ==
  LET found == findOrderByIntent(exec[h].intent)
  IN  /\ exec[h].pc = "searching"
      /\ \/ /\ found # 0
            /\ exec' = [exec EXCEPT ![h].pc = "recording", ![h].rail = found,
                 ![h].state = IF IsPaid(rail[found].status) THEN "CAPTURED"
                              ELSE "SUBMITTED"]
         \/ exec' = [exec EXCEPT ![h].pc = "creating"]
      /\ UNCHANGED <<ours, theirs, claims, hook, tick, comp>>

(* The rail creates and answers; creates and the answer is lost; does not  *)
(* (yet) create and there is no answer; or refuses.                        *)
CreateOrder(h) ==
  LET i == exec[h].intent
      answered == /\ rail' = Append(rail, Created(i))
                  /\ exec' = [exec EXCEPT ![h].rail = Len(rail) + 1,
                       ![h].state = "SUBMITTED",
                       ![h].pc = IF exec[h].token THEN "charging" ELSE "recording"]
                  /\ UNCHANGED landing
      ended(state) == exec' = [exec EXCEPT ![h].pc = "recording",
                                           ![h].state = state]
  IN  /\ exec[h].pc = "creating"
      /\ \/ answered
         \/ /\ rail' = Append(rail, Created(i))
            /\ ended("AMBIGUOUS")
            /\ UNCHANGED landing
         \/ /\ landing' \in {landing, landing \cup {i}}
            /\ ended("AMBIGUOUS")
            /\ UNCHANGED rail
         \/ /\ ended("FAILED")
            /\ UNCHANGED <<rail, landing>>
      /\ UNCHANGED <<ours, asked, refunded, events, claims, hook, tick, comp>>

(* A debit of the instrument is captured; or it is refused, accepted or    *)
(* not answered, and in the last two cases it may be captured later.       *)
ChargeToken(h) ==
  LET r == exec[h].rail
  IN  /\ exec[h].pc = "charging"
      /\ \/ /\ Payable(r)
            /\ PaidAt(r)
            /\ exec' = [exec EXCEPT ![h].pc = "recording"]
            /\ UNCHANGED asked
         \/ /\ asked' \in {asked, asked \cup {r}}
            /\ \E s \in {"SUBMITTED", "AMBIGUOUS"} :
                 exec' = [exec EXCEPT ![h].pc = "recording", ![h].state = s]
            /\ UNCHANGED <<rail, events>>
      /\ UNCHANGED <<ours, landing, refunded, claims, hook, tick, comp>>

recordExecution(h) ==
  LET i == exec[h].intent
  IN  /\ exec[h].pc = "recording"
      /\ setOrderState(i, exec[h].state, exec[h].rail, 0)
      /\ IF exec[h].state = "FAILED" THEN releaseReservation(i)
         ELSE UNCHANGED holds
      /\ exec' = [exec EXCEPT ![h] = NoExec]
      /\ UNCHANGED <<revoked, refunds, told, aged, calls, crashes, theirs, claims,
                     hook, tick, comp>>

(* The process dies, or recordExecution fails and is only logged. *)
CrashExecutor(h) ==
  /\ exec[h].pc # "idle"
  /\ crashes < MaxCrashes
  /\ crashes' = crashes + 1
  /\ exec' = [exec EXCEPT ![h] = NoExec]
  /\ UNCHANGED <<orders, holds, revoked, refunds, told, aged, calls, theirs,
                 claims, hook, tick, comp>>
-----------------------------------------------------------------------------
(* ingestWebhook *)

OrdersWith(r) == {i \in Intents : orders[i].rail = r}

(* A second delivery waits for the key a first one inserted.               *)
EventContended(w, e) ==
  \E v \in Hooks \ {w} : hook[v].pc = "applying" /\ hook[v].event = e

(* No order carries the rail id: the claim commits all the same.           *)
UnknownOrder(w, e) ==
  /\ hook[w].pc = "idle"
  /\ e \in events \ claims
  /\ ~EventContended(w, e)
  /\ OrdersWith(e[1]) = {}
  /\ claims' = claims \cup {e}
  /\ UNCHANGED <<ours, theirs, runs>>

(* The order is found and the rail is read, in an open transaction that    *)
(* locks neither the order nor the mandate.  A read that fails rolls back. *)
ReceiveEvent(w, e) ==
  /\ hook[w].pc = "idle"
  /\ e \in events \ claims
  /\ ~EventContended(w, e)
  /\ \E i \in OrdersWith(e[1]) :
       hook' = [hook EXCEPT ![w] = [pc |-> "applying", event |-> e, intent |-> i,
                                    status |-> rail[e[1]].status]]
  /\ UNCHANGED <<ours, theirs, claims, exec, tick, comp>>

(* Mutant: the merchant is told of every event that was applied. *)
AlwaysTell(captured, i) == [NoHook EXCEPT !.pc = "telling", !.intent = i]
(* After the commit, a capture is passed on to the merchant. *)
ThenTell(captured, i) ==
  IF captured THEN [NoHook EXCEPT !.pc = "telling", !.intent = i] ELSE NoHook

ApplyEvent(w) ==
  LET i == hook[w].intent
      captured == IsPaid(hook[w].status)
  IN  /\ hook[w].pc = "applying"
      /\ claims' = claims \cup {hook[w].event}
      /\ setOrderState(i, IF captured THEN "CAPTURED" ELSE "FAILED", 0,
                       hook[w].event[1])
      /\ IF captured THEN captureReservation(i) ELSE releaseReservation(i)
      /\ hook' = [hook EXCEPT ![w] = ThenTell(captured, i)]
      /\ UNCHANGED <<revoked, refunds, told, aged, calls, crashes, theirs, exec,
                     tick, comp>>

(* onCaptured: the merchant records the order, or cannot be reached. *)
Fulfil(i) == told' \in {told, told \cup {i}}

TellFromHook(w) ==
  /\ hook[w].pc = "telling"
  /\ Fulfil(hook[w].intent)
  /\ hook' = [hook EXCEPT ![w] = NoHook]
  /\ UNCHANGED <<orders, holds, revoked, refunds, aged, calls, crashes, theirs,
                 claims, exec, tick, comp>>

CrashHook(w) ==
  /\ hook[w].pc # "idle"
  /\ crashes < MaxCrashes
  /\ crashes' = crashes + 1
  /\ hook' = [hook EXCEPT ![w] = NoHook]
  /\ UNCHANGED <<orders, holds, revoked, refunds, told, aged, calls, theirs,
                 claims, exec, tick, comp>>
-----------------------------------------------------------------------------
(* reconcileAmbiguous *)

(* Time passes while nobody touches the order: an executor call lasts      *)
(* seconds and an order is given up after a day.                           *)
Age(i) ==
  /\ orders[i].state \in Pending
  /\ i \notin aged
  /\ \A h \in Executors : exec[h].intent # i
  /\ aged' = aged \cup {i}
  /\ landing' = landing \ {i}
  /\ UNCHANGED <<orders, holds, revoked, refunds, told, calls, crashes, rail, asked,
                 refunded, events, claims, runs>>

(* Mutant: the scan of migration 003, from before SUBMITTING existed. *)
ScanSubmitted(i) == orders[i].state \in {"SUBMITTED", "AMBIGUOUS"}
ToReconcile(i) == orders[i].state \in Pending

Scanned == {[intent |-> i, rail |-> orders[i].rail, expired |-> i \in aged] :
              i \in {k \in Intents : ToReconcile(k)}}

ScanOrders(t) ==
  /\ tick[t].pc = "idle"
  /\ Scanned # {}
  /\ tick' = [tick EXCEPT ![t] = [NoTick EXCEPT !.pc = "reading",
                                                !.snapshot = Scanned]]
  /\ UNCHANGED <<ours, theirs, claims, exec, hook, comp>>

(* An order with a rail id is fetched, and its payment with it; one        *)
(* without is searched for, and adopted if found: a list names no payment. *)
(* A read that fails leaves the status unknown.                            *)
ReadRail(t, o) ==
  LET found == findOrderByIntent(o.intent)
      seen == [NoTick EXCEPT !.pc = "resolving", !.status = "unknown",
                             !.snapshot = tick[t].snapshot \ {o},
                             !.intent = o.intent, !.expired = o.expired]
  IN  /\ tick[t].pc = "reading"
      /\ \/ tick' = [tick EXCEPT ![t] = seen]
         \/ /\ o.rail # 0
            /\ tick' = [tick EXCEPT ![t] =
                 [seen EXCEPT !.status = rail[o.rail].status, !.payment = o.rail]]
         \/ /\ o.rail = 0
            /\ found # 0
            /\ tick' = [tick EXCEPT ![t] =
                 [seen EXCEPT !.pc = "adopting", !.status = rail[found].status,
                              !.rail = found]]
      /\ UNCHANGED <<ours, theirs, claims, exec, hook, comp>>

(* SUBMITTED and the rail id, in a transaction of its own. *)
Adopt(t) ==
  /\ tick[t].pc = "adopting"
  /\ setOrderState(tick[t].intent, "SUBMITTED", tick[t].rail, 0)
  /\ tick' = [tick EXCEPT ![t].pc = "resolving"]
  /\ UNCHANGED <<holds, revoked, refunds, told, aged, calls, crashes, theirs,
                 claims, exec, hook, comp>>

Done(t) == [NoTick EXCEPT !.snapshot = tick[t].snapshot,
                          !.pc = IF tick[t].snapshot = {} THEN "idle" ELSE "reading"]

(* Under the mandate row lock, from what was scanned and read before it.   *)
Resolve(t) ==
  LET i == tick[t].intent
      resolved(state) ==
        setOrderState(i, state, 0, IF state = "CAPTURED" THEN tick[t].payment ELSE 0)
  IN  /\ tick[t].pc = "resolving"
      /\ \/ /\ IsPaid(tick[t].status)
            /\ resolved("CAPTURED")
            /\ captureReservation(i)
            /\ tick' = [tick EXCEPT ![t].pc = "telling"]
         \/ /\ tick[t].status = "failed"
            /\ resolved("FAILED")
            /\ releaseReservation(i)
            /\ tick' = [tick EXCEPT ![t] = Done(t)]
         \/ /\ tick[t].status \notin {"paid", "failed"}
            /\ tick[t].expired
            /\ resolved("FAILED_UNRESOLVED")
            /\ releaseReservation(i)
            /\ tick' = [tick EXCEPT ![t] = Done(t)]
         \/ /\ tick[t].status \notin {"paid", "failed"}
            /\ ~tick[t].expired
            /\ tick' = [tick EXCEPT ![t] = Done(t)]
            /\ UNCHANGED <<orders, holds>>
      /\ UNCHANGED <<revoked, refunds, told, aged, calls, crashes, theirs, claims,
                     exec, hook, comp>>

TellFromTick(t) ==
  /\ tick[t].pc = "telling"
  /\ Fulfil(tick[t].intent)
  /\ tick' = [tick EXCEPT ![t] = Done(t)]
  /\ UNCHANGED <<orders, holds, revoked, refunds, aged, calls, crashes, theirs,
                 claims, exec, hook, comp>>

CrashTick(t) ==
  /\ tick[t].pc # "idle"
  /\ crashes < MaxCrashes
  /\ crashes' = crashes + 1
  /\ tick' = [tick EXCEPT ![t] = NoTick]
  /\ UNCHANGED <<orders, holds, revoked, refunds, told, aged, calls, theirs,
                 claims, exec, hook, comp>>
-----------------------------------------------------------------------------
(* compensateRevoked and the executor's refund *)

(* Mutant: every captured order is refunded. *)
CompensableUnrevoked(i) == orders[i].state = "CAPTURED" /\ i \notin refunds
Compensable(i) ==
  /\ MandateOf[i] \in revoked
  /\ orders[i].state = "CAPTURED"
  /\ i \notin refunds

ScanRevoked(c, i) ==
  /\ comp[c].pc = "idle"
  /\ Compensable(i)
  /\ comp' = [comp EXCEPT ![c] = [NoComp EXCEPT !.pc = "asking", !.intent = i]]
  /\ UNCHANGED <<ours, theirs, claims, exec, hook, tick>>

(* The refund row, or nothing when the order's payment is not known. *)
AskRefund(c) ==
  LET i == comp[c].intent
  IN  /\ comp[c].pc = "asking"
      /\ IF orders[i].payment = 0
         THEN /\ comp' = [comp EXCEPT ![c].pc = "releasing"]
              /\ UNCHANGED refunds
         ELSE /\ comp' = [comp EXCEPT ![c].pc = "refunding",
                                      ![c].payment = orders[i].payment]
              /\ refunds' = refunds \cup {i}
      /\ UNCHANGED <<orders, holds, revoked, told, aged, calls, crashes, theirs,
                     claims, exec, hook, tick>>

(* The rail returns a payment at most once; the call may fail. *)
CreateRefund(c) ==
  /\ comp[c].pc = "refunding"
  /\ \/ /\ rail[comp[c].payment].status = "paid"
        /\ refunded' = refunded \cup {comp[c].payment}
     \/ UNCHANGED refunded
  /\ comp' = [comp EXCEPT ![c].pc = "releasing"]
  /\ UNCHANGED <<ours, rail, landing, asked, events, claims, exec, hook, tick>>

(* Whatever the refund's outcome, the hold is released. *)
ReleaseRefunded(c) ==
  /\ comp[c].pc = "releasing"
  /\ releaseReservation(comp[c].intent)
  /\ comp' = [comp EXCEPT ![c] = NoComp]
  /\ UNCHANGED <<orders, revoked, refunds, told, aged, calls, crashes, theirs,
                 claims, exec, hook, tick>>

CrashCompensator(c) ==
  /\ comp[c].pc # "idle"
  /\ crashes < MaxCrashes
  /\ crashes' = crashes + 1
  /\ comp' = [comp EXCEPT ![c] = NoComp]
  /\ UNCHANGED <<orders, holds, revoked, refunds, told, aged, calls, theirs,
                 claims, exec, hook, tick>>
-----------------------------------------------------------------------------
ExecutorStep(h) == \/ Search(h) \/ CreateOrder(h) \/ ChargeToken(h)
                   \/ recordExecution(h)
HookStep(w) == ApplyEvent(w) \/ TellFromHook(w)
TickStep(t) == \/ ScanOrders(t) \/ \E o \in tick[t].snapshot : ReadRail(t, o)
               \/ Adopt(t) \/ Resolve(t) \/ TellFromTick(t)
CompStep(c) == AskRefund(c) \/ CreateRefund(c) \/ ReleaseRefunded(c)

Next ==
  \/ \E i \in Intents : \/ Allow(i) \/ Abandon(i) \/ OpenPayPage(i)
                        \/ LateCreate(i) \/ Age(i)
  \/ \E m \in Mandates : Revoke(m)
  \/ \E r \in DOMAIN rail : Pay(r)
  \/ \E h \in Executors : \/ \E i \in Intents, b \in BOOLEAN : Execute(h, i, b)
                          \/ ExecutorStep(h) \/ CrashExecutor(h)
  \/ \E w \in Hooks : \/ \E e \in events : UnknownOrder(w, e) \/ ReceiveEvent(w, e)
                      \/ HookStep(w) \/ CrashHook(w)
  \/ \E t \in Ticks : TickStep(t) \/ CrashTick(t)
  \/ \E c \in Compensators : \/ \E i \in Intents : ScanRevoked(c, i)
                             \/ CompStep(c) \/ CrashCompensator(c)

Spec == Init /\ [][Next]_vars
-----------------------------------------------------------------------------
OrderStates == Pending \cup {"none", "CAPTURED", "FAILED", "FAILED_UNRESOLVED"}
RailStates == {"created", "attempted", "failed", "paid"}
Ids == Nat \ {0}
Event == Ids \X {"payment.captured", "payment.failed"}

HoldStates == {"none", "held", "captured", "released"}
OrderRow == [state : OrderStates, rail : {0} \cup Ids, payment : {0} \cup Ids]
RailRow  == [intent : Intents, status : RailStates]
ExecRun  == [pc : {"idle", "searching", "creating", "charging", "recording"},
             intent : Intents \cup {None}, token : BOOLEAN, rail : {0} \cup Ids,
             state : {"none", "SUBMITTED", "AMBIGUOUS", "CAPTURED", "FAILED"}]
HookRun  == [pc : {"idle", "applying", "telling"}, event : Event \cup {None},
             intent : Intents \cup {None}, status : {"none"} \cup RailStates]
ScanRow  == [intent : Intents, rail : {0} \cup Ids, expired : BOOLEAN]
TickRun  == [pc : {"idle", "reading", "adopting", "resolving", "telling"},
             snapshot : SUBSET ScanRow,
             intent : Intents \cup {None}, expired : BOOLEAN,
             status : {"none", "unknown"} \cup RailStates,
             rail : {0} \cup Ids, payment : {0} \cup Ids]
CompRun  == [pc : {"idle", "asking", "refunding", "releasing"},
             intent : Intents \cup {None}, payment : {0} \cup Ids]

RowTypes ==
  /\ revoked \subseteq Mandates
  /\ refunds \subseteq Intents /\ told \subseteq Intents /\ aged \subseteq Intents
  /\ calls \in [Intents -> 0..MaxCalls]
  /\ crashes \in 0..MaxCrashes
RailTypes ==
  /\ rail \in Seq(RailRow)
  /\ landing \subseteq Intents
  /\ asked \subseteq DOMAIN rail /\ refunded \subseteq DOMAIN rail
  /\ events \subseteq Event /\ claims \subseteq events
TypeOK ==
  /\ orders \in [Intents -> OrderRow]
  /\ holds \in [Intents -> HoldStates]
  /\ RowTypes
  /\ RailTypes
  /\ exec \in [Executors -> ExecRun]
  /\ hook \in [Hooks -> HookRun]
  /\ tick \in [Ticks -> TickRun]
  /\ comp \in [Compensators -> CompRun]

(* The rail orders of an intent that took money. *)
PaidOrders(i) == {r \in DOMAIN rail : rail[r].intent = i /\ rail[r].status = "paid"}

(* An order is captured, and a hold with it, only when the rail took the   *)
(* money of that intent: by webhook, by reconciliation or by adoption, the *)
(* payload alone is never trusted (reconciler.service.ts:20).              *)
CapturedMeansPaid ==
  \A i \in Intents : orders[i].state = "CAPTURED" \/ holds[i] = "captured" =>
                       PaidOrders(i) # {}

(* The merchant is told of an order only after it was paid: no goods leave *)
(* for a payment that failed, whichever path tells it.                     *)
ToldMeansPaid == \A i \in told : PaidOrders(i) # {}

(* The claim is committed before the rail is called: without an order row  *)
(* there is no rail order, nor a call that may still make one, so the      *)
(* reaper may release the hold (migrations/008_submitting_state.sql:6).    *)
NoRowNoCall ==
  /\ \A r \in DOMAIN rail : orders[rail[r].intent].state # "none"
  /\ \A i \in landing : orders[i].state # "none"

(* What the tables say of the rail, and what a run read of it before its   *)
(* last transaction, stays true: ids belong to the intent, and a payment   *)
(* is never undone.                                                        *)
IdOf(i, r) == r = 0 \/ (r \in DOMAIN rail /\ rail[r].intent = i)
RowsKnow ==
  /\ \A i \in Intents : IdOf(i, orders[i].rail) /\ IdOf(i, orders[i].payment)
  /\ \A e \in events : /\ e[1] \in DOMAIN rail
                       /\ e[2] = "payment.captured" => rail[e[1]].status = "paid"
ExecKnows(h) == exec[h].pc # "idle" =>
  LET i == exec[h].intent
  IN  /\ i \in Intents
      /\ orders[i].state # "none"
      /\ IdOf(i, exec[h].rail)
      /\ exec[h].pc \in {"charging", "recording"} => exec[h].state # "none"
      /\ exec[h].pc = "charging" => exec[h].rail # 0
      /\ exec[h].state = "CAPTURED" => PaidOrders(i) # {}
HookKnows(w) == hook[w].pc # "idle" =>
  LET i == hook[w].intent
  IN  /\ i \in Intents
      /\ hook[w].pc = "applying" => /\ hook[w].event \in events
                                    /\ IdOf(i, hook[w].event[1])
      /\ hook[w].status = "paid" \/ hook[w].pc = "telling" => PaidOrders(i) # {}
TickKnows(t) ==
  /\ \A o \in tick[t].snapshot : /\ orders[o.intent].state # "none"
                                 /\ IdOf(o.intent, o.rail)
  /\ tick[t].pc \notin {"idle", "reading"} =>
       LET i == tick[t].intent
       IN  /\ i \in Intents
           /\ orders[i].state # "none"
           /\ IdOf(i, tick[t].rail) /\ IdOf(i, tick[t].payment)
           /\ tick[t].status = "paid" \/ tick[t].pc = "telling" =>
                PaidOrders(i) # {}
CompKnows(c) == comp[c].pc # "idle" =>
  LET i == comp[c].intent
  IN  /\ i \in Intents
      /\ MandateOf[i] \in revoked
      /\ comp[c].pc = "refunding" => /\ i \in refunds
                                     /\ comp[c].payment # 0
                                     /\ IdOf(i, comp[c].payment)
RunsKnow == /\ \A h \in Executors : ExecKnows(h)
            /\ \A w \in Hooks : HookKnows(w)
            /\ \A t \in Ticks : TickKnows(t)
            /\ \A c \in Compensators : CompKnows(c)

(* INV-15: at any time at most one transaction applies an event, and none  *)
(* applies it after it was claimed.                                        *)
EventAppliedOnce ==
  \A w \in Hooks : hook[w].pc = "applying" =>
    /\ hook[w].event \notin claims
    /\ \A v \in Hooks \ {w} : hook[v].pc = "applying" =>
                                 hook[v].event # hook[w].event

(* Money goes back only for a purchase that was captured under a mandate   *)
(* that was revoked, and leaves a refund row behind.                       *)
RefundBacked ==
  \A r \in refunded : /\ rail[r].status = "paid"
                      /\ rail[r].intent \in refunds
                      /\ MandateOf[rail[r].intent] \in revoked

(* The inductive invariant that holds them together. *)
IInv == /\ TypeOK /\ NoRowNoCall /\ RowsKnow /\ RunsKnow /\ EventAppliedOnce
        /\ CapturedMeansPaid /\ ToldMeansPaid /\ RefundBacked

(* An order that has no result yet gets one (the worker's header: every    *)
(* non-terminal state has a job that resolves it).                         *)
OrderResolves ==
  \A i \in Intents : orders[i].state \in Pending ~> orders[i].state \notin Pending

(* The reservations and the claims, seen as the kernel's two halves agreed.*)
Holds == INSTANCE Hold WITH
  hold <- holds, claimed <- {i \in Intents : orders[i].state # "none"}
HoldSpec == Holds!HoldSpec

(* A replayed execution is a no-op and not a second payment                *)
(* (executor.service.ts:167).                                              *)
PaidOnce == \A i \in Intents : Cardinality(PaidOrders(i)) <= 1

(* Every process goes on, time passes, and what dies is restarted.         *)
Fairness ==
  /\ \A h \in Executors : WF_vars(ExecutorStep(h))
  /\ \A w \in Hooks : WF_vars(HookStep(w))
  /\ \A t \in Ticks : WF_vars(TickStep(t))
  /\ \A i \in Intents : WF_vars(Age(i))

FairSpec == Spec /\ Fairness
=============================================================================
