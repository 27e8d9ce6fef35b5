-------------------------- MODULE SettlementTheorems --------------------------
(***************************************************************************)
(* The safety of settlement for every number of intents, of executor calls,*)
(* webhook deliveries and jobs that overlap, every window and bound.       *)
(*                                                                         *)
(* IInv is inductive because what a run remembers of the rail stays true   *)
(* whatever the others do meanwhile: rail orders keep their intent, what   *)
(* was paid stays paid, an order row stays, revocations and refunds too    *)
(* (Better).  So a run that acts on an old answer is late but not wrong.   *)
(***************************************************************************)
EXTENDS Settlement, SequenceTheorems, WellFoundedInduction, TLAPS

(* A non-empty set of naturals has a least element. *)
LEMMA LeastElement ==
  ASSUME NEW S, S \subseteq Nat, S # {}
  PROVE  \E x \in S : \A y \in S : x <= y
<1>1. \E x \in S : \A y \in S : <<y, x>> \notin OpToRel(<, Nat)
  BY NatLessThanWellFounded, WFMin
<1>2. PICK x \in S : \A y \in S : <<y, x>> \notin OpToRel(<, Nat)
  BY <1>1
<1>3. \A y \in S : ~(y < x)
  BY <1>2 DEF OpToRel
<1>4. QED
  BY <1>3

-----------------------------------------------------------------------------
(* The rail. *)

(* A created order is appended: the others keep their index. *)
LEMMA AppendedOrder ==
  ASSUME rail \in Seq(RailRow), NEW i \in Intents, rail' = Append(rail, Created(i))
  PROVE  /\ rail' \in Seq(RailRow)
         /\ Len(rail) + 1 \in Ids
         /\ DOMAIN rail' = DOMAIN rail \cup {Len(rail) + 1}
         /\ \A r \in DOMAIN rail : rail'[r] = rail[r]
         /\ rail'[Len(rail) + 1] = Created(i)
<1>1. Created(i) \in RailRow
  BY DEF Created, RailRow, RailStates
<1>2. /\ rail' \in Seq(RailRow)
      /\ Len(rail') = Len(rail) + 1
      /\ \A r \in 1..Len(rail) : rail'[r] = rail[r]
      /\ rail'[Len(rail) + 1] = Created(i)
  BY <1>1, AppendProperties
<1>3. Len(rail) \in Nat /\ DOMAIN rail = 1..Len(rail) /\ DOMAIN rail' = 1..Len(rail')
  BY <1>2, LenProperties
<1>4. QED
  BY <1>2, <1>3 DEF Ids

(* A payment changes the status of one order and nothing else. *)
LEMMA StatusChanged ==
  ASSUME rail \in Seq(RailRow), NEW r \in DOMAIN rail, NEW s \in RailStates,
         rail' = [rail EXCEPT ![r].status = s]
  PROVE  /\ rail' \in Seq(RailRow)
         /\ DOMAIN rail' = DOMAIN rail
         /\ \A q \in DOMAIN rail : /\ rail'[q].intent = rail[q].intent
                                   /\ q # r => rail'[q].status = rail[q].status
         /\ rail'[r].status = s
<1>1. DOMAIN rail = 1..Len(rail) /\ rail[r] \in RailRow
  BY LenProperties, ElementOfSeq
<1>2. [rail[r] EXCEPT !.status = s] \in RailRow
  BY <1>1 DEF RailRow
<1>3. rail' = [rail EXCEPT ![r] = [rail[r] EXCEPT !.status = s]]
  OBVIOUS
<1>4. /\ rail' \in Seq(RailRow)
      /\ Len(rail') = Len(rail)
      /\ \A q \in 1..Len(rail) :
           rail'[q] = IF q = r THEN [rail[r] EXCEPT !.status = s] ELSE rail[q]
  BY <1>1, <1>2, <1>3, ExceptSeq
<1>5. DOMAIN rail' = 1..Len(rail')
  BY <1>4, LenProperties
<1>6. QED
  BY <1>1, <1>4, <1>5 DEF RailRow

(* A search returns an order of the intent it searches. *)
LEMMA FoundIsOurs ==
  ASSUME rail \in Seq(RailRow), NEW i, findOrderByIntent(i) # 0
  PROVE  /\ findOrderByIntent(i) \in DOMAIN rail
         /\ rail[findOrderByIntent(i)].intent = i
         /\ findOrderByIntent(i) \in Ids
<1>1. DOMAIN rail = 1..Len(rail) /\ Len(rail) \in Nat
  BY LenProperties
<1>2. Matches(i) \subseteq Nat /\ Matches(i) # {}
  BY <1>1 DEF Matches, findOrderByIntent
<1>3. findOrderByIntent(i) \in Matches(i)
  BY <1>2, LeastElement DEF findOrderByIntent
<1>4. QED
  BY <1>1, <1>3 DEF Matches, Ids

(* The rail answers for each of its orders with one of four states. *)
LEMMA RailAnswers ==
  ASSUME rail \in Seq(RailRow), NEW r \in DOMAIN rail
  PROVE  rail[r].intent \in Intents /\ rail[r].status \in RailStates /\ r \in Ids
<1>1. DOMAIN rail = 1..Len(rail) /\ Len(rail) \in Nat
  BY LenProperties
<1>2. rail[r] \in RailRow
  BY <1>1, ElementOfSeq
<1>3. QED
  BY <1>1, <1>2 DEF RailRow, Ids
-----------------------------------------------------------------------------
(* Which actions change what. *)

(* An executor call moves by one of its own steps. *)
LEMMA ExecMoves ==
  ASSUME [Next]_vars
  PROVE  \/ UNCHANGED exec
         \/ \E h \in Executors : \E i \in Intents : \E b \in BOOLEAN : Execute(h, i, b)
         \/ \E h \in Executors : Search(h)
         \/ \E h \in Executors : CreateOrder(h)
         \/ \E h \in Executors : ChargeToken(h)
         \/ \E h \in Executors : recordExecution(h)
         \/ \E h \in Executors : CrashExecutor(h)
  BY DEF Next, ExecutorStep, HookStep, TickStep, CompStep, vars, ours, theirs, runs,
    Allow, Abandon, OpenPayPage, LateCreate, Age, Revoke, Pay,
    UnknownOrder, ReceiveEvent, ApplyEvent, TellFromHook, CrashHook,
    ScanOrders, ReadRail, Adopt, Resolve, TellFromTick, CrashTick,
    ScanRevoked, AskRefund, CreateRefund, ReleaseRefunded,
    CrashCompensator

(* A delivery moves, and an event is claimed, by a step of a delivery. *)
LEMMA HookMoves ==
  ASSUME [Next]_vars
  PROVE  \/ UNCHANGED <<hook, claims>>
         \/ \E w \in Hooks : \E e \in events : UnknownOrder(w, e)
         \/ \E w \in Hooks : \E e \in events : ReceiveEvent(w, e)
         \/ \E w \in Hooks : ApplyEvent(w)
         \/ \E w \in Hooks : TellFromHook(w)
         \/ \E w \in Hooks : CrashHook(w)
<1>1. \/ UNCHANGED hook
      \/ \E w \in Hooks : \E e \in events : ReceiveEvent(w, e)
      \/ \E w \in Hooks : ApplyEvent(w)
      \/ \E w \in Hooks : TellFromHook(w)
      \/ \E w \in Hooks : CrashHook(w)
  BY DEF Next, ExecutorStep, HookStep, TickStep, CompStep, vars, ours, theirs, runs,
    Allow, Abandon, OpenPayPage, LateCreate, Age, Revoke, Pay, Execute,
    Search, CreateOrder, ChargeToken, recordExecution, CrashExecutor,
    UnknownOrder, ScanOrders, ReadRail, Adopt, Resolve, TellFromTick,
    CrashTick, ScanRevoked, AskRefund, CreateRefund, ReleaseRefunded,
    CrashCompensator
<1>2. \/ UNCHANGED claims
      \/ \E w \in Hooks : \E e \in events : UnknownOrder(w, e)
      \/ \E w \in Hooks : ApplyEvent(w)
  BY DEF Next, ExecutorStep, HookStep, TickStep, CompStep, vars, ours, theirs, runs,
    Allow, Abandon, OpenPayPage, LateCreate, Age, Revoke, Pay, Execute,
    Search, CreateOrder, ChargeToken, recordExecution, CrashExecutor,
    ReceiveEvent, TellFromHook, CrashHook, ScanOrders, ReadRail, Adopt,
    Resolve, TellFromTick, CrashTick, ScanRevoked, AskRefund,
    CreateRefund, ReleaseRefunded, CrashCompensator
<1>3. QED
  BY <1>1, <1>2

(* A run of the reconciler moves by one of its own steps. *)
LEMMA TickMoves ==
  ASSUME [Next]_vars
  PROVE  \/ UNCHANGED tick
         \/ \E t \in Ticks : ScanOrders(t)
         \/ \E t \in Ticks : \E o \in tick[t].snapshot : ReadRail(t, o)
         \/ \E t \in Ticks : Adopt(t)
         \/ \E t \in Ticks : Resolve(t)
         \/ \E t \in Ticks : TellFromTick(t)
         \/ \E t \in Ticks : CrashTick(t)
  BY DEF Next, ExecutorStep, HookStep, TickStep, CompStep, vars, ours, theirs, runs,
    Allow, Abandon, OpenPayPage, LateCreate, Age, Revoke, Pay, Execute,
    Search, CreateOrder, ChargeToken, recordExecution, CrashExecutor,
    UnknownOrder, ReceiveEvent, ApplyEvent, TellFromHook, CrashHook,
    ScanRevoked, AskRefund, CreateRefund, ReleaseRefunded,
    CrashCompensator

(* A run of the compensator moves, and money is returned, by one of its own steps. *)
LEMMA CompMoves ==
  ASSUME [Next]_vars
  PROVE  \/ UNCHANGED <<comp, refunds, refunded>>
         \/ \E c \in Compensators : \E i \in Intents : ScanRevoked(c, i)
         \/ \E c \in Compensators : AskRefund(c)
         \/ \E c \in Compensators : CreateRefund(c)
         \/ \E c \in Compensators : ReleaseRefunded(c)
         \/ \E c \in Compensators : CrashCompensator(c)
<1>1. \/ UNCHANGED comp
      \/ \E c \in Compensators : \E i \in Intents : ScanRevoked(c, i)
      \/ \E c \in Compensators : AskRefund(c)
      \/ \E c \in Compensators : CreateRefund(c)
      \/ \E c \in Compensators : ReleaseRefunded(c)
      \/ \E c \in Compensators : CrashCompensator(c)
  BY DEF Next, ExecutorStep, HookStep, TickStep, CompStep, vars, ours, theirs, runs,
    Allow, Abandon, OpenPayPage, LateCreate, Age, Revoke, Pay, Execute,
    Search, CreateOrder, ChargeToken, recordExecution, CrashExecutor,
    UnknownOrder, ReceiveEvent, ApplyEvent, TellFromHook, CrashHook,
    ScanOrders, ReadRail, Adopt, Resolve, TellFromTick, CrashTick
<1>2. \/ UNCHANGED refunds
      \/ \E c \in Compensators : AskRefund(c)
  BY DEF Next, ExecutorStep, HookStep, TickStep, CompStep, vars, ours, theirs, runs,
    Allow, Abandon, OpenPayPage, LateCreate, Age, Revoke, Pay, Execute,
    Search, CreateOrder, ChargeToken, recordExecution, CrashExecutor,
    UnknownOrder, ReceiveEvent, ApplyEvent, TellFromHook, CrashHook,
    ScanOrders, ReadRail, Adopt, Resolve, TellFromTick, CrashTick,
    ScanRevoked, CreateRefund, ReleaseRefunded, CrashCompensator
<1>3. \/ UNCHANGED refunded
      \/ \E c \in Compensators : CreateRefund(c)
  BY DEF Next, ExecutorStep, HookStep, TickStep, CompStep, vars, ours, theirs, runs,
    Allow, Abandon, OpenPayPage, LateCreate, Age, Revoke, Pay, Execute,
    Search, CreateOrder, ChargeToken, recordExecution, CrashExecutor,
    UnknownOrder, ReceiveEvent, ApplyEvent, TellFromHook, CrashHook,
    ScanOrders, ReadRail, Adopt, Resolve, TellFromTick, CrashTick,
    ScanRevoked, AskRefund, ReleaseRefunded, CrashCompensator
<1>4. QED
  BY <1>1, <1>2, <1>3

(* Who writes an order. *)
LEMMA OrderMoves ==
  ASSUME [Next]_vars
  PROVE  \/ UNCHANGED orders
         \/ \E h \in Executors : \E i \in Intents : \E b \in BOOLEAN : Execute(h, i, b)
         \/ \E h \in Executors : recordExecution(h)
         \/ \E w \in Hooks : ApplyEvent(w)
         \/ \E t \in Ticks : Adopt(t)
         \/ \E t \in Ticks : Resolve(t)
  BY DEF Next, ExecutorStep, HookStep, TickStep, CompStep, vars, ours, theirs, runs,
    Allow, Abandon, OpenPayPage, LateCreate, Age, Revoke, Pay, Search,
    CreateOrder, ChargeToken, CrashExecutor, UnknownOrder,
    ReceiveEvent, TellFromHook, CrashHook, ScanOrders, ReadRail,
    TellFromTick, CrashTick, ScanRevoked, AskRefund, CreateRefund,
    ReleaseRefunded, CrashCompensator

(* Who writes a reservation. *)
LEMMA HoldMoves ==
  ASSUME [Next]_vars
  PROVE  \/ UNCHANGED holds
         \/ \E i \in Intents : Allow(i)
         \/ \E i \in Intents : Abandon(i)
         \/ \E h \in Executors : recordExecution(h)
         \/ \E w \in Hooks : ApplyEvent(w)
         \/ \E t \in Ticks : Resolve(t)
         \/ \E c \in Compensators : ReleaseRefunded(c)
  BY DEF Next, ExecutorStep, HookStep, TickStep, CompStep, vars, ours, theirs, runs,
    OpenPayPage, LateCreate, Age, Revoke, Pay, Execute, Search,
    CreateOrder, ChargeToken, CrashExecutor, UnknownOrder,
    ReceiveEvent, TellFromHook, CrashHook, ScanOrders, ReadRail, Adopt,
    TellFromTick, CrashTick, ScanRevoked, AskRefund, CreateRefund,
    CrashCompensator

(* Who makes the rail move. *)
LEMMA RailMoves ==
  ASSUME [Next]_vars
  PROVE  \/ UNCHANGED <<rail, landing, asked, events>>
         \/ \E i \in Intents : OpenPayPage(i)
         \/ \E i \in Intents : LateCreate(i)
         \/ \E i \in Intents : Age(i)
         \/ \E r \in DOMAIN rail : Pay(r)
         \/ \E h \in Executors : CreateOrder(h)
         \/ \E h \in Executors : ChargeToken(h)
<1>1. \/ UNCHANGED rail
      \/ \E i \in Intents : LateCreate(i)
      \/ \E r \in DOMAIN rail : Pay(r)
      \/ \E h \in Executors : CreateOrder(h)
      \/ \E h \in Executors : ChargeToken(h)
  BY DEF Next, ExecutorStep, HookStep, TickStep, CompStep, vars, ours, theirs, runs,
    Allow, Abandon, OpenPayPage, Age, Revoke, Execute, Search,
    recordExecution, CrashExecutor, UnknownOrder, ReceiveEvent,
    ApplyEvent, TellFromHook, CrashHook, ScanOrders, ReadRail, Adopt,
    Resolve, TellFromTick, CrashTick, ScanRevoked, AskRefund,
    CreateRefund, ReleaseRefunded, CrashCompensator
<1>2. \/ UNCHANGED landing
      \/ \E i \in Intents : LateCreate(i)
      \/ \E i \in Intents : Age(i)
      \/ \E h \in Executors : CreateOrder(h)
  BY DEF Next, ExecutorStep, HookStep, TickStep, CompStep, vars, ours, theirs, runs,
    Allow, Abandon, OpenPayPage, Revoke, Pay, Execute, Search,
    ChargeToken, recordExecution, CrashExecutor, UnknownOrder,
    ReceiveEvent, ApplyEvent, TellFromHook, CrashHook, ScanOrders,
    ReadRail, Adopt, Resolve, TellFromTick, CrashTick, ScanRevoked,
    AskRefund, CreateRefund, ReleaseRefunded, CrashCompensator
<1>3. \/ UNCHANGED asked
      \/ \E i \in Intents : OpenPayPage(i)
      \/ \E h \in Executors : ChargeToken(h)
  BY DEF Next, ExecutorStep, HookStep, TickStep, CompStep, vars, ours, theirs, runs,
    Allow, Abandon, LateCreate, Age, Revoke, Pay, Execute, Search,
    CreateOrder, recordExecution, CrashExecutor, UnknownOrder,
    ReceiveEvent, ApplyEvent, TellFromHook, CrashHook, ScanOrders,
    ReadRail, Adopt, Resolve, TellFromTick, CrashTick, ScanRevoked,
    AskRefund, CreateRefund, ReleaseRefunded, CrashCompensator
<1>4. \/ UNCHANGED events
      \/ \E r \in DOMAIN rail : Pay(r)
      \/ \E h \in Executors : ChargeToken(h)
  BY DEF Next, ExecutorStep, HookStep, TickStep, CompStep, vars, ours, theirs, runs,
    Allow, Abandon, OpenPayPage, LateCreate, Age, Revoke, Execute,
    Search, CreateOrder, recordExecution, CrashExecutor, UnknownOrder,
    ReceiveEvent, ApplyEvent, TellFromHook, CrashHook, ScanOrders,
    ReadRail, Adopt, Resolve, TellFromTick, CrashTick, ScanRevoked,
    AskRefund, CreateRefund, ReleaseRefunded, CrashCompensator
<1>5. QED
  BY <1>1, <1>2, <1>3, <1>4

(* Who revokes. *)
LEMMA RevokedMoves ==
  ASSUME [Next]_vars
  PROVE  \/ UNCHANGED revoked
         \/ \E m \in Mandates : Revoke(m)
  BY DEF Next, ExecutorStep, HookStep, TickStep, CompStep, vars, ours, theirs, runs,
    Allow, Abandon, OpenPayPage, LateCreate, Age, Pay, Execute, Search,
    CreateOrder, ChargeToken, recordExecution, CrashExecutor,
    UnknownOrder, ReceiveEvent, ApplyEvent, TellFromHook, CrashHook,
    ScanOrders, ReadRail, Adopt, Resolve, TellFromTick, CrashTick,
    ScanRevoked, AskRefund, CreateRefund, ReleaseRefunded,
    CrashCompensator

(* Who tells the merchant. *)
LEMMA ToldMoves ==
  ASSUME [Next]_vars
  PROVE  \/ UNCHANGED told
         \/ \E w \in Hooks : TellFromHook(w)
         \/ \E t \in Ticks : TellFromTick(t)
  BY DEF Next, ExecutorStep, HookStep, TickStep, CompStep, vars, ours, theirs, runs,
    Allow, Abandon, OpenPayPage, LateCreate, Age, Revoke, Pay, Execute,
    Search, CreateOrder, ChargeToken, recordExecution, CrashExecutor,
    UnknownOrder, ReceiveEvent, ApplyEvent, CrashHook, ScanOrders,
    ReadRail, Adopt, Resolve, CrashTick, ScanRevoked, AskRefund,
    CreateRefund, ReleaseRefunded, CrashCompensator

(* Time passes by a step of its own. *)
LEMMA AgedMoves ==
  ASSUME [Next]_vars
  PROVE  \/ UNCHANGED aged
         \/ \E i \in Intents : Age(i)
  BY DEF Next, ExecutorStep, HookStep, TickStep, CompStep, vars, ours, theirs, runs,
    Allow, Abandon, OpenPayPage, LateCreate, Revoke, Pay, Execute,
    Search, CreateOrder, ChargeToken, recordExecution, CrashExecutor,
    UnknownOrder, ReceiveEvent, ApplyEvent, TellFromHook, CrashHook,
    ScanOrders, ReadRail, Adopt, Resolve, TellFromTick, CrashTick,
    ScanRevoked, AskRefund, CreateRefund, ReleaseRefunded,
    CrashCompensator

(* Only a claim counts as a call. *)
LEMMA CallsMoves ==
  ASSUME [Next]_vars
  PROVE  \/ UNCHANGED calls
         \/ \E h \in Executors : \E i \in Intents : \E b \in BOOLEAN : Execute(h, i, b)
  BY DEF Next, ExecutorStep, HookStep, TickStep, CompStep, vars, ours, theirs, runs,
    Allow, Abandon, OpenPayPage, LateCreate, Age, Revoke, Pay, Search,
    CreateOrder, ChargeToken, recordExecution, CrashExecutor,
    UnknownOrder, ReceiveEvent, ApplyEvent, TellFromHook, CrashHook,
    ScanOrders, ReadRail, Adopt, Resolve, TellFromTick, CrashTick,
    ScanRevoked, AskRefund, CreateRefund, ReleaseRefunded,
    CrashCompensator

(* Four kinds of process die. *)
LEMMA CrashesMoves ==
  ASSUME [Next]_vars
  PROVE  \/ UNCHANGED crashes
         \/ \E h \in Executors : CrashExecutor(h)
         \/ \E w \in Hooks : CrashHook(w)
         \/ \E t \in Ticks : CrashTick(t)
         \/ \E c \in Compensators : CrashCompensator(c)
  BY DEF Next, ExecutorStep, HookStep, TickStep, CompStep, vars, ours, theirs, runs,
    Allow, Abandon, OpenPayPage, LateCreate, Age, Revoke, Pay, Execute,
    Search, CreateOrder, ChargeToken, recordExecution, UnknownOrder,
    ReceiveEvent, ApplyEvent, TellFromHook, ScanOrders, ReadRail,
    Adopt, Resolve, TellFromTick, ScanRevoked, AskRefund, CreateRefund,
    ReleaseRefunded
-----------------------------------------------------------------------------
(* The rail's orders. *)

(* Rail orders keep their intent and their payment, and a new one belongs  *)
(* to an intent with an order row.                                         *)
LEMMA RailStep ==
  ASSUME IInv, [Next]_vars
  PROVE  /\ rail' \in Seq(RailRow)
         /\ \A r \in DOMAIN rail :
              /\ r \in DOMAIN rail'
              /\ rail'[r].intent = rail[r].intent
              /\ rail[r].status = "paid" => rail'[r].status = "paid"
         /\ \A r \in DOMAIN rail' \ DOMAIN rail :
              /\ rail'[r].intent \in Intents
              /\ orders[rail'[r].intent].state # "none"
<1> DEFINE Goal == /\ rail' \in Seq(RailRow)
                   /\ \A r \in DOMAIN rail :
                        /\ r \in DOMAIN rail'
                        /\ rail'[r].intent = rail[r].intent
                        /\ rail[r].status = "paid" => rail'[r].status = "paid"
                   /\ \A r \in DOMAIN rail' \ DOMAIN rail :
                        /\ rail'[r].intent \in Intents
                        /\ orders[rail'[r].intent].state # "none"
<1>0. rail \in Seq(RailRow)
  BY DEF IInv, TypeOK, RailTypes
<1>1. ASSUME NEW i \in Intents, rail' = Append(rail, Created(i)),
             orders[i].state # "none"
      PROVE  Goal
  BY <1>0, <1>1, AppendedOrder DEF Created
<1>2. ASSUME NEW r \in DOMAIN rail, NEW s \in RailStates, Payable(r),
             rail' = [rail EXCEPT ![r].status = s]
      PROVE  Goal
  BY <1>0, <1>2, StatusChanged DEF Payable
<1>3. ASSUME NEW i \in Intents, LateCreate(i) PROVE Goal
  BY <1>1, <1>3 DEF LateCreate, IInv, NoRowNoCall
<1>4. ASSUME NEW r \in DOMAIN rail, Pay(r) PROVE Goal
  BY <1>2, <1>4 DEF Pay, PaidAt, RailStates
<1>5. ASSUME NEW h \in Executors, CreateOrder(h) PROVE Goal
  <2>1. exec[h].intent \in Intents /\ orders[exec[h].intent].state # "none"
    BY <1>5 DEF CreateOrder, IInv, RunsKnow, ExecKnows
  <2>2. rail' = Append(rail, Created(exec[h].intent)) \/ rail' = rail
    BY <1>5 DEF CreateOrder
  <2>3. QED
    BY <1>0, <1>1, <2>1, <2>2
<1>6. ASSUME NEW h \in Executors, ChargeToken(h) PROVE Goal
  <2>1. exec[h].rail \in DOMAIN rail
    BY <1>6 DEF ChargeToken, IInv, RunsKnow, ExecKnows, IdOf
  <2>2. QED
    BY <1>0, <1>2, <1>6, <2>1 DEF ChargeToken, PaidAt, RailStates
<1>7. ASSUME rail' = rail PROVE Goal
  BY <1>0, <1>7
<1>8. QED
  BY <1>3, <1>4, <1>5, <1>6, <1>7, RailMoves DEF OpenPayPage, Age

(* What every run may rely on while the others go on. *)
Better ==
  /\ \A r \in DOMAIN rail : /\ r \in DOMAIN rail'
                            /\ rail'[r].intent = rail[r].intent
                            /\ rail[r].status = "paid" => rail'[r].status = "paid"
  /\ \A i \in Intents : orders[i].state # "none" => orders'[i].state # "none"
  /\ revoked \subseteq revoked' /\ refunds \subseteq refunds'
  /\ events \subseteq events'

(* Only an intent of this kernel is written, and never back to no row. *)
LEMMA OrderWrite ==
  ASSUME IInv, NEW i \in Intents, NEW state \in OrderStates \ {"none"},
         NEW r \in {0} \cup Ids, NEW p \in {0} \cup Ids,
         setOrderState(i, state, r, p)
  PROVE  /\ orders' \in [Intents -> OrderRow]
         /\ \A k \in Intents \ {i} : orders'[k] = orders[k]
         /\ orders'[i].state = state
         /\ orders'[i].rail = IF r = 0 THEN orders[i].rail ELSE r
         /\ orders'[i].payment = IF p = 0 THEN orders[i].payment ELSE p
  BY DEF IInv, TypeOK, OrderRow, setOrderState

(* An executor call records for its own intent. *)
LEMMA RecordWrite ==
  ASSUME IInv, NEW h \in Executors, recordExecution(h)
  PROVE  /\ exec[h].intent \in Intents
         /\ exec[h].state \in OrderStates \ {"none"}
         /\ exec[h].rail \in {0} \cup Ids
         /\ setOrderState(exec[h].intent, exec[h].state, exec[h].rail, 0)
  BY DEF IInv, TypeOK, ExecRun, RunsKnow, ExecKnows, recordExecution, OrderStates, Pending

(* A delivery writes the order of its event. *)
LEMMA ApplyWrite ==
  ASSUME IInv, NEW w \in Hooks, ApplyEvent(w)
  PROVE  /\ hook[w].intent \in Intents
         /\ hook[w].event \in events
         /\ hook[w].event[1] \in Ids
         /\ \E state \in {"CAPTURED", "FAILED"} :
              setOrderState(hook[w].intent, state, 0, hook[w].event[1])
  BY DEF IInv, TypeOK, RailTypes, Event, RunsKnow, HookKnows, ApplyEvent

(* A run of the reconciler writes the order it is at. *)
LEMMA AdoptWrite ==
  ASSUME IInv, NEW t \in Ticks, Adopt(t)
  PROVE  /\ tick[t].intent \in Intents
         /\ tick[t].rail \in {0} \cup Ids
         /\ setOrderState(tick[t].intent, "SUBMITTED", tick[t].rail, 0)
  BY DEF IInv, TypeOK, TickRun, RunsKnow, TickKnows, Adopt

LEMMA ResolveWrite ==
  ASSUME IInv, NEW t \in Ticks, Resolve(t)
  PROVE  /\ tick[t].intent \in Intents
         /\ \/ orders' = orders
            \/ \E state \in {"CAPTURED", "FAILED", "FAILED_UNRESOLVED"} :
                 \E p \in {0, tick[t].payment} :
                   /\ p \in {0} \cup Ids
                   /\ setOrderState(tick[t].intent, state, 0, p)
<1>1. tick[t].intent \in Intents /\ tick[t].payment \in {0} \cup Ids
  BY DEF IInv, TypeOK, TickRun, RunsKnow, TickKnows, Resolve
<1>2. QED
  BY <1>1 DEF Resolve

(* Whatever writes an order keeps its row. *)
LEMMA OrderStep ==
  ASSUME IInv, [Next]_vars
  PROVE  /\ orders' \in [Intents -> OrderRow]
         /\ \A i \in Intents : orders[i].state # "none" => orders'[i].state # "none"
<1> DEFINE Goal == /\ orders' \in [Intents -> OrderRow]
                   /\ \A i \in Intents :
                        orders[i].state # "none" => orders'[i].state # "none"
<1>1. ASSUME NEW i \in Intents, NEW state \in OrderStates \ {"none"},
             NEW r \in {0} \cup Ids, NEW p \in {0} \cup Ids,
             setOrderState(i, state, r, p)
      PROVE  Goal
  BY <1>1, OrderWrite
<1>2. ASSUME NEW h \in Executors, NEW i \in Intents, NEW b \in BOOLEAN,
             Execute(h, i, b)
      PROVE  Goal
  BY <1>2 DEF Execute, IInv, TypeOK, OrderRow, OrderStates, Pending
<1>3. ASSUME NEW h \in Executors, recordExecution(h) PROVE Goal
  BY <1>1, <1>3, RecordWrite
<1>4. ASSUME NEW w \in Hooks, ApplyEvent(w) PROVE Goal
  BY <1>1, <1>4, ApplyWrite DEF OrderStates
<1>5. ASSUME NEW t \in Ticks, Adopt(t) PROVE Goal
  BY <1>1, <1>5, AdoptWrite DEF OrderStates, Pending
<1>6. ASSUME NEW t \in Ticks, Resolve(t) PROVE Goal
  <2>1. CASE orders' = orders
    BY <2>1 DEF IInv, TypeOK
  <2>2. CASE orders' # orders
    BY <1>1, <1>6, <2>2, ResolveWrite DEF OrderStates
  <2>3. QED
    BY <2>1, <2>2
<1>7. ASSUME orders' = orders PROVE Goal
  BY <1>7 DEF IInv, TypeOK
<1>8. QED
  BY <1>2, <1>3, <1>4, <1>5, <1>6, <1>7, OrderMoves

(* Events are emitted and never taken back; revocations and refunds stay.  *)
LEMMA BetterStep ==
  ASSUME IInv, [Next]_vars
  PROVE  Better
<1>1. events \subseteq events'
  BY RailMoves DEF LateCreate, Pay, PaidAt, CreateOrder, ChargeToken, OpenPayPage, Age
<1>2. refunds \subseteq refunds'
  BY CompMoves DEF ScanRevoked, AskRefund, CreateRefund, ReleaseRefunded,
    CrashCompensator, ours
<1>3. revoked \subseteq revoked'
  BY RevokedMoves DEF Revoke
<1>4. QED
  BY <1>1, <1>2, <1>3, RailStep, OrderStep DEF Better
-----------------------------------------------------------------------------
(* What a run knows. *)

(* What was read of the rail stays true. *)
LEMMA IdStays ==
  ASSUME Better, NEW i, NEW r, IdOf(i, r)
  PROVE  r = 0 \/ (r \in DOMAIN rail' /\ rail'[r].intent = i)
  BY DEF Better, IdOf

LEMMA PaidStays ==
  ASSUME Better, NEW i, PaidOrders(i) # {}
  PROVE  \E r \in DOMAIN rail' : rail'[r].intent = i /\ rail'[r].status = "paid"
  BY DEF Better, PaidOrders

(* A run that does not move knows what it knew. *)
LEMMA ExecFrame ==
  ASSUME Better, NEW h \in Executors, ExecKnows(h), exec'[h] = exec[h]
  PROVE  ExecKnows(h)'
  BY IdStays, PaidStays DEF ExecKnows, IdOf, PaidOrders, Better

LEMMA HookFrame ==
  ASSUME Better, NEW w \in Hooks, HookKnows(w), hook'[w] = hook[w]
  PROVE  HookKnows(w)'
  BY IdStays, PaidStays DEF HookKnows, IdOf, PaidOrders, Better

LEMMA TickFrame ==
  ASSUME Better, NEW t \in Ticks, TickKnows(t), tick'[t] = tick[t],
         tick[t].snapshot \subseteq ScanRow
  PROVE  TickKnows(t)'
<1>1. \A o \in tick'[t].snapshot : /\ orders'[o.intent].state # "none"
                                   /\ IdOf(o.intent, o.rail)'
  BY IdStays DEF TickKnows, IdOf, Better, ScanRow
<1>2. QED
  BY <1>1, IdStays, PaidStays DEF TickKnows, IdOf, PaidOrders, Better

LEMMA CompFrame ==
  ASSUME Better, NEW c \in Compensators, CompKnows(c), comp'[c] = comp[c]
  PROVE  CompKnows(c)'
  BY IdStays DEF CompKnows, IdOf, Better

(* Only the run that moves has to be looked at. *)
LEMMA ExecWrite ==
  ASSUME IInv, Better, NEW h \in Executors, NEW run \in ExecRun,
         exec' = [exec EXCEPT ![h] = run], ExecKnows(h)'
  PROVE  exec' \in [Executors -> ExecRun] /\ \A k \in Executors : ExecKnows(k)'
<1>1. exec \in [Executors -> ExecRun] /\ \A k \in Executors : ExecKnows(k)
  BY DEF IInv, TypeOK, RunsKnow
<1>2. exec' \in [Executors -> ExecRun]
  BY <1>1
<1>3. \A k \in Executors \ {h} : ExecKnows(k)'
  BY <1>1, ExecFrame
<1>4. QED
  BY <1>2, <1>3

LEMMA HookWrite ==
  ASSUME IInv, Better, NEW w \in Hooks, NEW run \in HookRun,
         hook' = [hook EXCEPT ![w] = run], HookKnows(w)'
  PROVE  hook' \in [Hooks -> HookRun] /\ \A k \in Hooks : HookKnows(k)'
<1>1. hook \in [Hooks -> HookRun] /\ \A k \in Hooks : HookKnows(k)
  BY DEF IInv, TypeOK, RunsKnow
<1>2. hook' \in [Hooks -> HookRun]
  BY <1>1
<1>3. \A k \in Hooks \ {w} : HookKnows(k)'
  BY <1>1, HookFrame
<1>4. QED
  BY <1>2, <1>3

LEMMA TickWrite ==
  ASSUME IInv, Better, NEW t \in Ticks, NEW run \in TickRun,
         tick' = [tick EXCEPT ![t] = run], TickKnows(t)'
  PROVE  tick' \in [Ticks -> TickRun] /\ \A k \in Ticks : TickKnows(k)'
<1>1. tick \in [Ticks -> TickRun] /\ \A k \in Ticks : TickKnows(k)
  BY DEF IInv, TypeOK, RunsKnow
<1>2. tick' \in [Ticks -> TickRun]
  BY <1>1
<1>3. \A k \in Ticks : tick[k].snapshot \subseteq ScanRow
  BY <1>1 DEF TickRun
<1>4. \A k \in Ticks \ {t} : TickKnows(k)'
  BY <1>1, <1>3, TickFrame
<1>5. QED
  BY <1>2, <1>4

LEMMA CompWrite ==
  ASSUME IInv, Better, NEW c \in Compensators, NEW run \in CompRun,
         comp' = [comp EXCEPT ![c] = run], CompKnows(c)'
  PROVE  comp' \in [Compensators -> CompRun] /\ \A k \in Compensators : CompKnows(k)'
<1>1. comp \in [Compensators -> CompRun] /\ \A k \in Compensators : CompKnows(k)
  BY DEF IInv, TypeOK, RunsKnow
<1>2. comp' \in [Compensators -> CompRun]
  BY <1>1
<1>3. \A k \in Compensators \ {c} : CompKnows(k)'
  BY <1>1, CompFrame
<1>4. QED
  BY <1>2, <1>3

(* An executor call knows whose order it makes and which rail order is its.*)
LEMMA ExecStep ==
  ASSUME IInv, [Next]_vars
  PROVE  exec' \in [Executors -> ExecRun] /\ \A k \in Executors : ExecKnows(k)'
<1> DEFINE Goal == /\ exec' \in [Executors -> ExecRun]
                   /\ \A k \in Executors : ExecKnows(k)'
<1>0. Better /\ rail \in Seq(RailRow) /\ rail' \in Seq(RailRow)
  BY BetterStep, RailStep DEF IInv, TypeOK, RailTypes
<1>1. /\ exec \in [Executors -> ExecRun] /\ orders \in [Intents -> OrderRow]
      /\ \A k \in Executors : ExecKnows(k)
  BY DEF IInv, TypeOK, RunsKnow
<1>2. NoExec \in ExecRun
  BY DEF NoExec, ExecRun
<1>3. ASSUME NEW h \in Executors, exec' = [exec EXCEPT ![h] = NoExec]
      PROVE  Goal
  <2>1. ExecKnows(h)'
    BY <1>1, <1>3 DEF ExecKnows, NoExec
  <2>2. QED
    BY <1>0, <1>2, <1>3, <2>1, ExecWrite
<1>4. ASSUME NEW h \in Executors, NEW i \in Intents, NEW b \in BOOLEAN,
             Execute(h, i, b)
      PROVE  Goal
  <2> DEFINE run == [NoExec EXCEPT !.intent = i, !.token = b,
                !.pc = IF orders[i].state = "none" THEN "creating" ELSE "searching"]
  <2>1. exec' = [exec EXCEPT ![h] = run] /\ orders'[i].state = "SUBMITTING"
    BY <1>1, <1>4 DEF Execute, OrderRow
  <2>2. run \in ExecRun
    BY DEF NoExec, ExecRun
  <2>3. ExecKnows(h)'
    BY <1>1, <2>1 DEF ExecKnows, NoExec, IdOf
  <2>4. QED
    BY <1>0, <2>1, <2>2, <2>3, ExecWrite
<1>5. ASSUME NEW h \in Executors, Search(h) PROVE Goal
  <2> DEFINE i == exec[h].intent
             found == findOrderByIntent(i)
             foundRun == [exec[h] EXCEPT !.pc = "recording", !.rail = found,
                !.state = IF IsPaid(rail[found].status) THEN "CAPTURED" ELSE "SUBMITTED"]
             lostRun == [exec[h] EXCEPT !.pc = "creating"]
  <2>1. /\ exec[h] \in ExecRun /\ i \in Intents /\ orders[i].state # "none"
        /\ exec[h].rail = 0 \/ IdOf(i, exec[h].rail)
        /\ exec[h].state = "CAPTURED" => PaidOrders(i) # {}
    BY <1>1, <1>5 DEF Search, ExecKnows
  <2>2. UNCHANGED <<orders, rail>>
    BY <1>5 DEF Search, ours, theirs
  <2>3. CASE found # 0 /\ exec' = [exec EXCEPT ![h] = foundRun]
    <3>1. found \in DOMAIN rail /\ rail[found].intent = i /\ found \in Ids
      BY <1>0, <2>3, FoundIsOurs
    <3>2. foundRun \in ExecRun
      BY <2>1, <3>1 DEF ExecRun
    <3>3. IsPaid(rail[found].status) => PaidOrders(i) # {}
      BY <3>1 DEF IsPaid, PaidOrders
    <3>4. ExecKnows(h)'
      <4>1. exec'[h] = foundRun
        BY <1>1, <2>3
      <4>2. /\ foundRun.pc = "recording" /\ foundRun.intent = i /\ foundRun.rail = found
            /\ foundRun.state = IF IsPaid(rail[found].status) THEN "CAPTURED"
                                ELSE "SUBMITTED"
        BY <2>1 DEF ExecRun
      <4> HIDE DEF foundRun
      <4>3. QED
        BY <2>1, <2>2, <3>1, <3>3, <4>1, <4>2 DEF ExecKnows, IdOf, PaidOrders
    <3>5. QED
      BY <1>0, <2>3, <3>2, <3>4, ExecWrite
  <2>4. CASE exec' = [exec EXCEPT ![h] = lostRun]
    <3>1. lostRun \in ExecRun
      BY <2>1 DEF ExecRun
    <3>2. ExecKnows(h)'
      BY <1>1, <2>1, <2>2, <2>4 DEF ExecKnows, ExecRun, IdOf, PaidOrders
    <3>3. QED
      BY <1>0, <2>4, <3>1, <3>2, ExecWrite
  <2>5. QED
    BY <1>5, <2>3, <2>4 DEF Search
<1>6. ASSUME NEW h \in Executors, CreateOrder(h) PROVE Goal
  <2> DEFINE i == exec[h].intent
  <2>1. /\ exec[h] \in ExecRun /\ i \in Intents /\ orders[i].state # "none"
        /\ IdOf(i, exec[h].rail)
        /\ exec[h].state = "CAPTURED" => PaidOrders(i) # {}
    BY <1>1, <1>6 DEF CreateOrder, ExecKnows
  <2>2. UNCHANGED orders
    BY <1>6 DEF CreateOrder, ours
  <2>3. ASSUME rail' = Append(rail, Created(i)),
               NEW pc \in {"charging", "recording"},
               exec' = [exec EXCEPT ![h].rail = Len(rail) + 1,
                          ![h].state = "SUBMITTED", ![h].pc = pc]
        PROVE  Goal
    <3> DEFINE run == [exec[h] EXCEPT !.rail = Len(rail) + 1, !.state = "SUBMITTED",
                                      !.pc = pc]
    <3>1. /\ Len(rail) + 1 \in Ids
          /\ Len(rail) + 1 \in DOMAIN rail'
          /\ rail'[Len(rail) + 1].intent = i
      BY <1>0, <2>1, <2>3, AppendedOrder DEF Created
    <3>2. exec' = [exec EXCEPT ![h] = run]
      BY <1>1, <2>3 DEF ExecRun
    <3>3. /\ run \in ExecRun /\ run.pc = pc /\ run.intent = i
          /\ run.rail = Len(rail) + 1 /\ run.state = "SUBMITTED"
      BY <2>1, <3>1 DEF ExecRun
    <3> HIDE DEF run
    <3>4. exec'[h] = run
      BY <1>1, <3>2
    <3>5. ExecKnows(h)'
      BY <2>1, <2>2, <3>1, <3>3, <3>4 DEF ExecKnows, IdOf, Ids
    <3>6. QED
      BY <1>0, <3>2, <3>3, <3>5, ExecWrite
  <2>4. ASSUME NEW state \in {"AMBIGUOUS", "FAILED"},
               exec' = [exec EXCEPT ![h].pc = "recording", ![h].state = state]
        PROVE  Goal
    <3> DEFINE run == [exec[h] EXCEPT !.pc = "recording", !.state = state]
    <3>1. exec' = [exec EXCEPT ![h] = run]
      BY <1>1, <2>4 DEF ExecRun
    <3>2. /\ run \in ExecRun /\ run.pc = "recording" /\ run.intent = i
          /\ run.rail = exec[h].rail /\ run.state = state
      BY <2>1 DEF ExecRun
    <3> HIDE DEF run
    <3>3. exec'[h] = run
      BY <1>1, <3>1
    <3>4. ExecKnows(h)'
      BY <1>0, <2>1, <2>2, <3>2, <3>3, IdStays DEF ExecKnows, IdOf
    <3>5. QED
      BY <1>0, <3>1, <3>2, <3>4, ExecWrite
  <2>5. QED
    BY <1>6, <2>3, <2>4 DEF CreateOrder
<1>7. ASSUME NEW h \in Executors, ChargeToken(h) PROVE Goal
  <2> DEFINE i == exec[h].intent
  <2>1. /\ exec[h] \in ExecRun /\ i \in Intents /\ orders[i].state # "none"
        /\ IdOf(i, exec[h].rail) /\ exec[h].state # "none"
        /\ exec[h].state = "CAPTURED" => PaidOrders(i) # {}
    BY <1>1, <1>7 DEF ChargeToken, ExecKnows
  <2>2. UNCHANGED orders
    BY <1>7 DEF ChargeToken, ours
  <2>3. ASSUME NEW state \in {exec[h].state, "SUBMITTED", "AMBIGUOUS"},
               exec' = [exec EXCEPT ![h] = [exec[h] EXCEPT !.pc = "recording",
                                                           !.state = state]]
        PROVE  Goal
    <3> DEFINE run == [exec[h] EXCEPT !.pc = "recording", !.state = state]
    <3>1. /\ run \in ExecRun /\ run.pc = "recording" /\ run.intent = i
          /\ run.rail = exec[h].rail /\ run.state = state
      BY <2>1 DEF ExecRun
    <3>2. exec'[h] = run
      BY <1>1, <2>3
    <3> HIDE DEF run
    <3>3. ExecKnows(h)'
      <4>1. \/ exec[h].rail = 0
            \/ exec[h].rail \in DOMAIN rail' /\ rail'[exec[h].rail].intent = i
        BY <1>0, <2>1, IdStays
      <4>2. ASSUME state = "CAPTURED"
            PROVE  \E r \in DOMAIN rail' : rail'[r].intent = i /\ rail'[r].status = "paid"
        BY <1>0, <2>1, <4>2, PaidStays
      <4>3. state # "none"
        BY <2>1
      <4>4. QED
        BY <2>1, <2>2, <3>1, <3>2, <4>1, <4>2, <4>3 DEF ExecKnows, IdOf, PaidOrders
    <3>4. exec' = [exec EXCEPT ![h] = run]
      BY <2>3 DEF run
    <3>5. QED
      BY <1>0, <3>1, <3>3, <3>4, ExecWrite
  <2>4. CASE exec' = [exec EXCEPT ![h].pc = "recording"]
    <3>1. [exec[h] EXCEPT !.pc = "recording"] =
            [exec[h] EXCEPT !.pc = "recording", !.state = exec[h].state]
      BY <2>1 DEF ExecRun
    <3>2. exec' = [exec EXCEPT ![h] = [exec[h] EXCEPT !.pc = "recording"]]
      BY <1>1, <2>4 DEF ExecRun
    <3>3. QED
      BY <2>3, <3>1, <3>2
  <2>5. ASSUME NEW state \in {"SUBMITTED", "AMBIGUOUS"},
               exec' = [exec EXCEPT ![h].pc = "recording", ![h].state = state]
        PROVE  Goal
    <3>1. exec' = [exec EXCEPT ![h] = [exec[h] EXCEPT !.pc = "recording",
                                                      !.state = state]]
      BY <1>1, <2>5 DEF ExecRun
    <3>2. QED
      BY <2>3, <3>1
  <2>6. QED
    BY <1>7, <2>4, <2>5 DEF ChargeToken
<1>8. ASSUME UNCHANGED exec PROVE Goal
  BY <1>0, <1>1, <1>8, ExecFrame
<1>9. QED
  BY <1>3, <1>4, <1>5, <1>6, <1>7, <1>8, ExecMoves DEF recordExecution, CrashExecutor

(* A delivery knows that its event names an order of its intent, and an    *)
(* answer "paid" of the rail still holds when it is applied and told.      *)
LEMMA HookStepKnows ==
  ASSUME IInv, [Next]_vars
  PROVE  hook' \in [Hooks -> HookRun] /\ \A k \in Hooks : HookKnows(k)'
<1> DEFINE Goal == /\ hook' \in [Hooks -> HookRun]
                   /\ \A k \in Hooks : HookKnows(k)'
<1>0. Better
  BY BetterStep
<1>1. /\ hook \in [Hooks -> HookRun] /\ orders \in [Intents -> OrderRow]
      /\ \A k \in Hooks : HookKnows(k)
  BY DEF IInv, TypeOK, RunsKnow
<1>2. NoHook \in HookRun
  BY DEF NoHook, HookRun
<1>3. ASSUME NEW w \in Hooks, hook' = [hook EXCEPT ![w] = NoHook]
      PROVE  Goal
  <2>1. HookKnows(w)'
    BY <1>1, <1>3 DEF HookKnows, NoHook
  <2>2. QED
    BY <1>0, <1>2, <1>3, <2>1, HookWrite
<1>4. ASSUME NEW w \in Hooks, NEW e \in events, ReceiveEvent(w, e) PROVE Goal
  <2>1. PICK i \in OrdersWith(e[1]) :
          hook' = [hook EXCEPT ![w] = [pc |-> "applying", event |-> e, intent |-> i,
                                       status |-> rail[e[1]].status]]
    BY <1>4 DEF ReceiveEvent
  <2> DEFINE run == [pc |-> "applying", event |-> e, intent |-> i,
                     status |-> rail[e[1]].status]
  <2>2. i \in Intents /\ orders[i].rail = e[1] /\ e \in Event /\ e[1] # 0
    BY <2>1 DEF OrdersWith, IInv, TypeOK, RailTypes, Event, Ids
  <2>3. e[1] \in DOMAIN rail /\ rail[e[1]].intent = i
    BY <2>2 DEF IInv, RowsKnow, IdOf
  <2>4. rail[e[1]].status \in RailStates
    BY <2>3, RailAnswers DEF IInv, TypeOK, RailTypes
  <2>5. run \in HookRun
    BY <2>2, <2>4 DEF HookRun
  <2>6. UNCHANGED <<rail, events>>
    BY <1>4 DEF ReceiveEvent, theirs
  <2>7. HookKnows(w)'
    <3>1. hook'[w] = run
      BY <1>1, <2>1
    <3>2. QED
      BY <2>2, <2>3, <2>6, <3>1 DEF HookKnows, IdOf, PaidOrders
  <2>8. QED
    BY <1>0, <2>1, <2>5, <2>7, HookWrite
<1>5. ASSUME NEW w \in Hooks, ApplyEvent(w) PROVE Goal
  <2> DEFINE i == hook[w].intent
             run == ThenTell(IsPaid(hook[w].status), i)
  <2>1. /\ i \in Intents
        /\ hook[w].status = "paid" => PaidOrders(i) # {}
        /\ UNCHANGED rail
        /\ hook' = [hook EXCEPT ![w] = run]
    BY <1>1, <1>5 DEF ApplyEvent, HookKnows, theirs
  <2>2. /\ run \in HookRun
        /\ run.pc \in {"idle", "telling"}
        /\ run.pc # "idle" => run.intent = i /\ hook[w].status = "paid"
        /\ run.status = "none"
    BY <2>1 DEF ThenTell, NoHook, HookRun, IsPaid
  <2>3. HookKnows(w)'
    <3>1. hook'[w] = run
      BY <1>1, <2>1
    <3> HIDE DEF run
    <3>2. QED
      BY <2>1, <2>2, <3>1 DEF HookKnows, PaidOrders
  <2>4. QED
    BY <1>0, <2>1, <2>2, <2>3, HookWrite
<1>6. ASSUME UNCHANGED hook PROVE Goal
  BY <1>0, <1>1, <1>6, HookFrame
<1>7. QED
  BY <1>3, <1>4, <1>5, <1>6, HookMoves DEF TellFromHook, CrashHook, UnknownOrder, runs

(* A run of the reconciler knows whose orders it scanned and what the rail *)
(* said of the one it is at.                                               *)
LEMMA TickStepKnows ==
  ASSUME IInv, [Next]_vars
  PROVE  tick' \in [Ticks -> TickRun] /\ \A k \in Ticks : TickKnows(k)'
<1> DEFINE Goal == /\ tick' \in [Ticks -> TickRun]
                   /\ \A k \in Ticks : TickKnows(k)'
<1>0. Better /\ rail \in Seq(RailRow)
  BY BetterStep DEF IInv, TypeOK, RailTypes
<1>1. /\ tick \in [Ticks -> TickRun] /\ orders \in [Intents -> OrderRow]
      /\ \A k \in Ticks : TickKnows(k) /\ tick[k].snapshot \subseteq ScanRow
  BY DEF IInv, TypeOK, RunsKnow, TickRun
<1>2. ASSUME NEW t \in Ticks, NEW run \in TickRun,
             tick' = [tick EXCEPT ![t] = run],
             run.snapshot \subseteq tick[t].snapshot,
             run.pc \in {"idle", "reading"}
      PROVE  Goal
  <2>1. tick'[t] = run
    BY <1>1, <1>2
  <2>2. \A o \in run.snapshot : /\ orders'[o.intent].state # "none"
                                /\ IdOf(o.intent, o.rail)'
    BY <1>0, <1>1, <1>2, IdStays DEF TickKnows, IdOf, Better, ScanRow
  <2>3. TickKnows(t)'
    BY <1>2, <2>1, <2>2 DEF TickKnows
  <2>4. QED
    BY <1>0, <1>2, <2>3, TickWrite
<1>3. ASSUME NEW t \in Ticks, tick' = [tick EXCEPT ![t] = Done(t)] PROVE Goal
  <2>1. Done(t) \in TickRun
    BY <1>1 DEF Done, NoTick, TickRun
  <2>2. Done(t).snapshot = tick[t].snapshot /\ Done(t).pc \in {"idle", "reading"}
    BY DEF Done, NoTick
  <2>3. QED
    BY <1>2, <1>3, <2>1, <2>2
<1>4. ASSUME NEW t \in Ticks, ScanOrders(t) PROVE Goal
  <2> DEFINE run == [NoTick EXCEPT !.pc = "reading", !.snapshot = Scanned]
  <2>1. UNCHANGED <<orders, rail>> /\ tick' = [tick EXCEPT ![t] = run]
    BY <1>4 DEF ScanOrders, ours, theirs
  <2>2. \A o \in Scanned : /\ o \in ScanRow /\ orders[o.intent].state # "none"
                           /\ IdOf(o.intent, o.rail)
    <3>1. TAKE o \in Scanned
    <3>2. PICK i \in Intents :
            /\ orders[i].state \in Pending
            /\ o = [intent |-> i, rail |-> orders[i].rail, expired |-> i \in aged]
      BY DEF Scanned, ToReconcile
    <3>3. orders[i] \in OrderRow /\ IdOf(i, orders[i].rail)
      BY <1>1 DEF IInv, RowsKnow
    <3>4. QED
      BY <3>2, <3>3 DEF ScanRow, OrderRow, Pending
  <2>3. run \in TickRun /\ run.pc = "reading" /\ run.snapshot = Scanned
    BY <2>2 DEF NoTick, TickRun
  <2>4. TickKnows(t)'
    <3>1. tick'[t] = run
      BY <1>1, <2>1
    <3> HIDE DEF run
    <3>2. \A o \in run.snapshot : /\ orders'[o.intent].state # "none"
                                  /\ IdOf(o.intent, o.rail)'
      BY <2>1, <2>2, <2>3 DEF IdOf
    <3>3. QED
      BY <2>3, <3>1, <3>2 DEF TickKnows
  <2>5. QED
    BY <1>0, <2>1, <2>3, <2>4, TickWrite
<1>5. ASSUME NEW t \in Ticks, NEW o \in tick[t].snapshot, ReadRail(t, o) PROVE Goal
  <2> DEFINE i == o.intent
             found == findOrderByIntent(i)
  <2>1. /\ o \in ScanRow /\ i \in Intents /\ orders[i].state # "none"
        /\ IdOf(i, o.rail) /\ o.rail \in {0} \cup Ids /\ o.expired \in BOOLEAN
    BY <1>1 DEF TickKnows, ScanRow
  <2>2. UNCHANGED <<orders, rail>>
    BY <1>5 DEF ReadRail, ours, theirs
  <2>3. ASSUME NEW run \in TickRun, tick' = [tick EXCEPT ![t] = run],
               run.pc \in {"adopting", "resolving"}, run.intent = i,
               run.snapshot \subseteq tick[t].snapshot,
               IdOf(i, run.rail), IdOf(i, run.payment),
               run.status = "paid" => PaidOrders(i) # {}
        PROVE  Goal
    <3>1. tick'[t] = run
      BY <1>1, <2>3
    <3>2. \A q \in run.snapshot : /\ orders'[q.intent].state # "none"
                                  /\ IdOf(q.intent, q.rail)'
      BY <1>1, <2>2, <2>3 DEF TickKnows, IdOf
    <3>3. TickKnows(t)'
      BY <2>1, <2>2, <2>3, <3>1, <3>2 DEF TickKnows, IdOf, PaidOrders
    <3>4. QED
      BY <1>0, <2>3, <3>3, TickWrite
  <2> DEFINE seen == [NoTick EXCEPT !.pc = "resolving", !.status = "unknown",
                        !.snapshot = tick[t].snapshot \ {o},
                        !.intent = i, !.expired = o.expired]
  <2>4. /\ seen \in TickRun /\ seen.pc = "resolving" /\ seen.intent = i
        /\ seen.snapshot = tick[t].snapshot \ {o} /\ seen.status = "unknown"
        /\ seen.rail = 0 /\ seen.payment = 0
    BY <1>1, <2>1 DEF NoTick, TickRun
  <2>5. \/ tick' = [tick EXCEPT ![t] = seen]
        \/ /\ o.rail # 0
           /\ tick' = [tick EXCEPT ![t] =
                [seen EXCEPT !.status = rail[o.rail].status, !.payment = o.rail]]
        \/ /\ found # 0
           /\ tick' = [tick EXCEPT ![t] =
                [seen EXCEPT !.pc = "adopting", !.status = rail[found].status,
                             !.rail = found]]
    BY <1>5 DEF ReadRail
  <2> HIDE DEF seen
  <2>6. CASE tick' = [tick EXCEPT ![t] = seen]
    BY <2>3, <2>4, <2>6 DEF IdOf
  <2>7. ASSUME o.rail # 0,
               tick' = [tick EXCEPT ![t] =
                 [seen EXCEPT !.status = rail[o.rail].status, !.payment = o.rail]]
        PROVE  Goal
    <3> DEFINE run == [seen EXCEPT !.status = rail[o.rail].status,
                                   !.payment = o.rail]
    <3>1. o.rail \in DOMAIN rail /\ rail[o.rail].intent = i
      BY <2>1, <2>7 DEF IdOf
    <3>2. rail[o.rail].status \in RailStates /\ o.rail \in Ids
      BY <1>0, <3>1, RailAnswers
    <3>3. /\ run \in TickRun /\ run.pc = "resolving" /\ run.intent = i
          /\ run.snapshot \subseteq tick[t].snapshot
          /\ run.rail = 0 /\ run.payment = o.rail
          /\ run.status = rail[o.rail].status
      BY <2>4, <3>2 DEF TickRun
    <3>4. rail[o.rail].status = "paid" => PaidOrders(i) # {}
      BY <3>1 DEF PaidOrders
    <3>5. tick' = [tick EXCEPT ![t] = run]
      BY <2>7
    <3> HIDE DEF run
    <3>6. QED
      BY <2>3, <3>1, <3>3, <3>4, <3>5 DEF IdOf
  <2>8. ASSUME found # 0,
               tick' = [tick EXCEPT ![t] =
                 [seen EXCEPT !.pc = "adopting", !.status = rail[found].status,
                              !.rail = found]]
        PROVE  Goal
    <3> DEFINE run == [seen EXCEPT !.pc = "adopting", !.rail = found,
                                   !.status = rail[found].status]
    <3>1. found \in DOMAIN rail /\ rail[found].intent = i /\ found \in Ids
      BY <1>0, <2>8, FoundIsOurs
    <3>2. rail[found].status \in RailStates
      BY <1>0, <3>1, RailAnswers
    <3>3. /\ run \in TickRun /\ run.pc = "adopting" /\ run.intent = i
          /\ run.snapshot \subseteq tick[t].snapshot
          /\ run.rail = found /\ run.payment = 0
          /\ run.status = rail[found].status
      BY <2>4, <3>1, <3>2 DEF TickRun
    <3>4. rail[found].status = "paid" => PaidOrders(i) # {}
      BY <3>1 DEF PaidOrders
    <3>5. tick' = [tick EXCEPT ![t] = run]
      BY <2>4, <2>8 DEF TickRun
    <3> HIDE DEF run
    <3>6. QED
      BY <2>3, <3>1, <3>3, <3>4, <3>5 DEF IdOf
  <2>9. QED
    BY <2>5, <2>6, <2>7, <2>8
<1>6. ASSUME NEW t \in Ticks, NEW pc \in {"resolving", "telling"},
             tick' = [tick EXCEPT ![t].pc = pc],
             tick[t].pc \in {"adopting", "resolving"},
             pc = "telling" => tick[t].status = "paid"
      PROVE  Goal
  <2> DEFINE run == [tick[t] EXCEPT !.pc = pc]
             i == tick[t].intent
  <2>1. tick' = [tick EXCEPT ![t] = run]
    BY <1>1, <1>6 DEF TickRun
  <2>2. /\ i \in Intents /\ orders[i].state # "none"
        /\ IdOf(i, tick[t].rail) /\ IdOf(i, tick[t].payment)
        /\ tick[t].status = "paid" => PaidOrders(i) # {}
    BY <1>1, <1>6 DEF TickKnows
  <2>3. /\ run \in TickRun /\ run.pc = pc /\ run.intent = i /\ run.rail = tick[t].rail
        /\ run.payment = tick[t].payment /\ run.status = tick[t].status
        /\ run.snapshot = tick[t].snapshot
    BY <1>1 DEF TickRun
  <2>4. tick'[t] = run
    BY <1>1, <2>1
  <2> HIDE DEF run
  <2>5. \A o \in run.snapshot : /\ orders'[o.intent].state # "none"
                                /\ IdOf(o.intent, o.rail)'
    BY <1>0, <1>1, <2>3, IdStays DEF TickKnows, IdOf, Better, ScanRow
  <2>6. TickKnows(t)'
    <3>1. orders'[i].state # "none"
      BY <1>0, <2>2 DEF Better
    <3>2. \/ run.rail = 0
          \/ run.rail \in DOMAIN rail' /\ rail'[run.rail].intent = i
      BY <1>0, <2>2, <2>3, IdStays
    <3>3. \/ run.payment = 0
          \/ run.payment \in DOMAIN rail' /\ rail'[run.payment].intent = i
      BY <1>0, <2>2, <2>3, IdStays
    <3>4. ASSUME run.status = "paid" \/ run.pc = "telling"
          PROVE  \E r \in DOMAIN rail' : rail'[r].intent = i /\ rail'[r].status = "paid"
      BY <1>0, <1>6, <2>2, <2>3, <3>4, PaidStays
    <3>5. QED
      BY <2>2, <2>3, <2>4, <2>5, <3>1, <3>2, <3>3, <3>4
      DEF TickKnows, IdOf, PaidOrders
  <2>7. QED
    BY <1>0, <2>1, <2>3, <2>6, TickWrite
<1>7. ASSUME NEW t \in Ticks, Resolve(t) PROVE Goal
  BY <1>3, <1>6, <1>7 DEF Resolve, IsPaid
<1>8. ASSUME NEW t \in Ticks, CrashTick(t) PROVE Goal
  <2>1. NoTick \in TickRun /\ NoTick.snapshot = {} /\ NoTick.pc = "idle"
    BY DEF NoTick, TickRun
  <2>2. QED
    BY <1>2, <1>8, <2>1 DEF CrashTick
<1>9. ASSUME UNCHANGED tick PROVE Goal
  BY <1>0, <1>1, <1>9, TickFrame
<1>10. QED
  BY <1>3, <1>4, <1>5, <1>6, <1>7, <1>8, <1>9, TickMoves DEF Adopt, TellFromTick

(* A run of the compensator works on a purchase of a revoked mandate, and  *)
(* the row of the refund it asks for is there before the rail is called.   *)
LEMMA CompStepKnows ==
  ASSUME IInv, [Next]_vars
  PROVE  comp' \in [Compensators -> CompRun] /\ \A k \in Compensators : CompKnows(k)'
<1> DEFINE Goal == /\ comp' \in [Compensators -> CompRun]
                   /\ \A k \in Compensators : CompKnows(k)'
<1>0. Better
  BY BetterStep
<1>1. /\ comp \in [Compensators -> CompRun] /\ orders \in [Intents -> OrderRow]
      /\ \A k \in Compensators : CompKnows(k)
  BY DEF IInv, TypeOK, RunsKnow
<1>2. NoComp \in CompRun
  BY DEF NoComp, CompRun
<1>3. ASSUME NEW c \in Compensators, comp' = [comp EXCEPT ![c] = NoComp]
      PROVE  Goal
  <2>1. CompKnows(c)'
    BY <1>1, <1>3 DEF CompKnows, NoComp
  <2>2. QED
    BY <1>0, <1>2, <1>3, <2>1, CompWrite
<1>4. ASSUME NEW c \in Compensators, NEW i \in Intents, ScanRevoked(c, i) PROVE Goal
  <2> DEFINE run == [NoComp EXCEPT !.pc = "asking", !.intent = i]
  <2>1. /\ run \in CompRun /\ run.pc = "asking" /\ run.intent = i
        /\ comp' = [comp EXCEPT ![c] = run]
        /\ MandateOf[i] \in revoked'
    BY <1>4 DEF ScanRevoked, Compensable, NoComp, CompRun, ours
  <2>2. comp'[c] = run
    BY <1>1, <2>1
  <2> HIDE DEF run
  <2>3. CompKnows(c)'
    BY <2>1, <2>2 DEF CompKnows
  <2>4. QED
    BY <1>0, <2>1, <2>3, CompWrite
<1>5. ASSUME NEW c \in Compensators, comp[c].pc # "idle",
             NEW pc \in {"releasing", "refunding"}, NEW p \in {0} \cup Ids,
             comp' = [comp EXCEPT ![c].pc = pc, ![c].payment = p],
             pc = "refunding" => /\ comp[c].intent \in refunds'
                                 /\ p # 0
                                 /\ IdOf(comp[c].intent, p)
      PROVE  Goal
  <2> DEFINE run == [comp[c] EXCEPT !.pc = pc, !.payment = p]
             i == comp[c].intent
  <2>1. /\ run \in CompRun /\ run.pc = pc /\ run.intent = i /\ run.payment = p
    BY <1>1 DEF CompRun
  <2>2. comp' = [comp EXCEPT ![c] = run]
    BY <1>1, <1>5 DEF CompRun
  <2>3. comp'[c] = run
    BY <1>1, <2>2
  <2> HIDE DEF run
  <2>4. i \in Intents /\ MandateOf[i] \in revoked'
    BY <1>0, <1>1, <1>5 DEF CompKnows, Better
  <2>5. ASSUME pc = "refunding"
        PROVE  /\ i \in refunds' /\ p # 0
               /\ p = 0 \/ (p \in DOMAIN rail' /\ rail'[p].intent = i)
    BY <1>0, <1>5, <2>5, IdStays
  <2>6. CompKnows(c)'
    BY <2>1, <2>3, <2>4, <2>5 DEF CompKnows, IdOf
  <2>7. QED
    BY <1>0, <2>1, <2>2, <2>6, CompWrite
<1>6. ASSUME NEW c \in Compensators, comp[c].pc # "idle",
             comp' = [comp EXCEPT ![c].pc = "releasing"]
      PROVE  Goal
  <2>1. comp[c] \in CompRun /\ comp[c].payment \in {0} \cup Ids
    BY <1>1 DEF CompRun
  <2>2. [comp[c] EXCEPT !.pc = "releasing"] =
          [comp[c] EXCEPT !.pc = "releasing", !.payment = comp[c].payment]
    BY <2>1 DEF CompRun
  <2>3. comp' = [comp EXCEPT ![c].pc = "releasing", ![c].payment = comp[c].payment]
    BY <1>1, <1>6, <2>2 DEF CompRun
  <2>4. QED
    BY <1>5, <1>6, <2>1, <2>3
<1>7. ASSUME NEW c \in Compensators, AskRefund(c) PROVE Goal
  <2>1. comp[c].pc = "asking" /\ comp[c].intent \in Intents
    BY <1>1, <1>7 DEF AskRefund, CompKnows
  <2>2. /\ orders[comp[c].intent].payment \in {0} \cup Ids
        /\ IdOf(comp[c].intent, orders[comp[c].intent].payment)
    BY <1>1, <2>1 DEF OrderRow, IInv, RowsKnow
  <2>3. CASE comp' = [comp EXCEPT ![c].pc = "releasing"]
    BY <1>6, <2>1, <2>3
  <2>4. CASE /\ orders[comp[c].intent].payment # 0
             /\ comp' = [comp EXCEPT ![c].pc = "refunding",
                                     ![c].payment = orders[comp[c].intent].payment]
             /\ refunds' = refunds \cup {comp[c].intent}
    BY <1>5, <2>1, <2>2, <2>4
  <2>5. QED
    BY <1>7, <2>3, <2>4 DEF AskRefund
<1>8. ASSUME NEW c \in Compensators, CreateRefund(c) PROVE Goal
  BY <1>6, <1>8 DEF CreateRefund
<1>9. ASSUME UNCHANGED comp PROVE Goal
  BY <1>0, <1>1, <1>9, CompFrame
<1>10. QED
  BY <1>3, <1>4, <1>7, <1>8, <1>9, CompMoves DEF ReleaseRefunded, CrashCompensator
-----------------------------------------------------------------------------
(* What the tables and the rail say of each other. *)

(* A rail id or a payment in an order row belongs to its intent, whoever   *)
(* wrote it and however late.                                              *)
LEMMA OrderIdsStep ==
  ASSUME IInv, [Next]_vars
  PROVE  \A k \in Intents : IdOf(k, orders[k].rail)' /\ IdOf(k, orders[k].payment)'
<1> DEFINE Goal == \A k \in Intents : /\ IdOf(k, orders[k].rail)'
                                      /\ IdOf(k, orders[k].payment)'
           Ours(k, x) == x = 0 \/ (x \in DOMAIN rail' /\ rail'[x].intent = k)
<1>0. /\ Better
      /\ orders \in [Intents -> OrderRow]
      /\ \A k \in Intents : IdOf(k, orders[k].rail) /\ IdOf(k, orders[k].payment)
  BY BetterStep DEF IInv, TypeOK, RowsKnow
<1>1. \A k \in Intents : Ours(k, orders[k].rail) /\ Ours(k, orders[k].payment)
  BY <1>0, IdStays
<1>2. ASSUME NEW i \in Intents, NEW state \in OrderStates \ {"none"},
             NEW r \in {0} \cup Ids, NEW p \in {0} \cup Ids,
             setOrderState(i, state, r, p), IdOf(i, r), IdOf(i, p)
      PROVE  Goal
  <2>1. Ours(i, r) /\ Ours(i, p)
    BY <1>0, <1>2, IdStays
  <2>2. /\ \A k \in Intents \ {i} : orders'[k] = orders[k]
        /\ orders'[i].rail = IF r = 0 THEN orders[i].rail ELSE r
        /\ orders'[i].payment = IF p = 0 THEN orders[i].payment ELSE p
    BY <1>2, OrderWrite
  <2>3. \A k \in Intents : Ours(k, orders'[k].rail) /\ Ours(k, orders'[k].payment)
    BY <1>1, <2>1, <2>2
  <2>4. QED
    BY <2>3 DEF IdOf
<1>3. ASSUME NEW h \in Executors, NEW i \in Intents, NEW b \in BOOLEAN,
             Execute(h, i, b)
      PROVE  Goal
  <2>1. \A k \in Intents : /\ orders'[k].rail = orders[k].rail
                           /\ orders'[k].payment = orders[k].payment
    BY <1>0, <1>3 DEF Execute, OrderRow
  <2>2. QED
    BY <1>1, <2>1 DEF IdOf
<1>4. ASSUME NEW h \in Executors, recordExecution(h) PROVE Goal
  <2>1. IdOf(exec[h].intent, exec[h].rail) /\ IdOf(exec[h].intent, 0)
    BY <1>4 DEF recordExecution, IInv, RunsKnow, ExecKnows, IdOf
  <2>2. QED
    BY <1>2, <1>4, <2>1, RecordWrite
<1>5. ASSUME NEW w \in Hooks, ApplyEvent(w) PROVE Goal
  <2>1. IdOf(hook[w].intent, hook[w].event[1]) /\ IdOf(hook[w].intent, 0)
    BY <1>5 DEF ApplyEvent, IInv, RunsKnow, HookKnows, IdOf
  <2>2. QED
    BY <1>2, <1>5, <2>1, ApplyWrite DEF OrderStates
<1>6. ASSUME NEW t \in Ticks, Adopt(t) PROVE Goal
  <2>1. IdOf(tick[t].intent, tick[t].rail) /\ IdOf(tick[t].intent, 0)
    BY <1>6 DEF Adopt, IInv, RunsKnow, TickKnows, IdOf
  <2>2. QED
    BY <1>2, <1>6, <2>1, AdoptWrite DEF OrderStates, Pending
<1>7. ASSUME NEW t \in Ticks, Resolve(t) PROVE Goal
  <2>1. IdOf(tick[t].intent, tick[t].payment) /\ IdOf(tick[t].intent, 0)
    BY <1>7 DEF Resolve, IInv, RunsKnow, TickKnows, IdOf
  <2>2. CASE orders' = orders
    BY <1>1, <2>2 DEF IdOf
  <2>3. CASE orders' # orders
    BY <1>2, <1>7, <2>1, <2>3, ResolveWrite DEF OrderStates
  <2>4. QED
    BY <2>2, <2>3
<1>8. ASSUME orders' = orders PROVE Goal
  BY <1>1, <1>8 DEF IdOf
<1>9. QED
  BY <1>3, <1>4, <1>5, <1>6, <1>7, <1>8, OrderMoves

(* An event names an order of the rail, and a capture one that is paid. *)
LEMMA EventsStep ==
  ASSUME IInv, [Next]_vars
  PROVE  /\ events' \subseteq Event
         /\ \A e \in events' :
              /\ e[1] \in DOMAIN rail'
              /\ e[2] = "payment.captured" => rail'[e[1]].status = "paid"
<1> DEFINE Tells(e) == /\ e \in Event
                       /\ e[1] \in DOMAIN rail'
                       /\ e[2] = "payment.captured" => rail'[e[1]].status = "paid"
<1>1. rail \in Seq(RailRow) /\ Better
  BY BetterStep DEF IInv, TypeOK, RailTypes
<1>2. \A e \in events : Tells(e)
  BY <1>1 DEF IInv, TypeOK, RailTypes, RowsKnow, Better
<1>3. ASSUME NEW r \in DOMAIN rail, PaidAt(r) PROVE \A e \in events' : Tells(e)
  <2>1. r \in Ids
    BY <1>1, RailAnswers
  <2>2. r \in DOMAIN rail' /\ rail'[r].status = "paid"
    BY <1>1, <1>3, StatusChanged DEF PaidAt, RailStates
  <2>3. Tells(<<r, "payment.captured">>)
    BY <2>1, <2>2 DEF Event
  <2>4. QED
    BY <1>2, <1>3, <2>3 DEF PaidAt
<1>4. ASSUME NEW r \in DOMAIN rail, events' = events \cup {<<r, "payment.failed">>}
      PROVE  \A e \in events' : Tells(e)
  <2>1. r \in Ids /\ r \in DOMAIN rail'
    BY <1>1, RailAnswers DEF Better
  <2>2. Tells(<<r, "payment.failed">>)
    BY <2>1 DEF Event
  <2>3. QED
    BY <1>2, <1>4, <2>2
<1>5. ASSUME NEW r \in DOMAIN rail, Pay(r) PROVE \A e \in events' : Tells(e)
  BY <1>3, <1>4, <1>5 DEF Pay
<1>6. ASSUME NEW h \in Executors, ChargeToken(h) PROVE \A e \in events' : Tells(e)
  <2>1. exec[h].rail \in DOMAIN rail
    BY <1>6 DEF ChargeToken, IInv, RunsKnow, ExecKnows, IdOf
  <2>2. QED
    BY <1>2, <1>3, <1>6, <2>1 DEF ChargeToken
<1>7. ASSUME UNCHANGED events PROVE \A e \in events' : Tells(e)
  BY <1>2, <1>7
<1>8. \A e \in events' : Tells(e)
  BY <1>5, <1>6, <1>7, RailMoves DEF OpenPayPage, LateCreate, Age, CreateOrder
<1>9. QED
  BY <1>8

(* The other sets of the rail: creates still under way are of orders with  *)
(* a row, and what can be paid, was returned or was claimed is known.      *)
LEMMA LandingStep ==
  ASSUME IInv, [Next]_vars
  PROVE  landing' \subseteq Intents /\ \A i \in landing' : orders'[i].state # "none"
<1>1. landing \subseteq Intents /\ \A i \in landing : orders[i].state # "none"
  BY DEF IInv, TypeOK, RailTypes, NoRowNoCall
<1>2. Better
  BY BetterStep
<1>3. \/ landing' \subseteq landing
      \/ \E h \in Executors : CreateOrder(h)
  BY RailMoves DEF OpenPayPage, LateCreate, Age, Pay, ChargeToken
<1>4. ASSUME NEW h \in Executors, CreateOrder(h)
      PROVE  landing' \subseteq Intents /\ \A i \in landing' : orders[i].state # "none"
  <2>1. exec[h].intent \in Intents /\ orders[exec[h].intent].state # "none"
    BY <1>4 DEF CreateOrder, IInv, RunsKnow, ExecKnows
  <2>2. landing' \subseteq landing \cup {exec[h].intent}
    BY <1>4 DEF CreateOrder
  <2>3. QED
    BY <1>1, <2>1, <2>2
<1>5. landing' \subseteq Intents /\ \A i \in landing' : orders[i].state # "none"
  BY <1>1, <1>3, <1>4
<1>6. QED
  BY <1>2, <1>5 DEF Better

LEMMA AskedStep ==
  ASSUME IInv, [Next]_vars
  PROVE  asked' \subseteq DOMAIN rail'
<1>1. asked \subseteq DOMAIN rail /\ DOMAIN rail \subseteq DOMAIN rail'
  BY BetterStep DEF IInv, TypeOK, RailTypes, Better
<1>2. ASSUME NEW i \in Intents, OpenPayPage(i) PROVE asked' \subseteq DOMAIN rail
  BY <1>1, <1>2 DEF OpenPayPage, IInv, RowsKnow, IdOf
<1>3. ASSUME NEW h \in Executors, ChargeToken(h) PROVE asked' \subseteq DOMAIN rail
  BY <1>1, <1>3 DEF ChargeToken, IInv, RunsKnow, ExecKnows, IdOf
<1>4. UNCHANGED asked \/ asked' \subseteq DOMAIN rail
  BY <1>2, <1>3, RailMoves DEF LateCreate, Age, Pay, CreateOrder
<1>5. QED
  BY <1>1, <1>4

LEMMA ClaimsStep ==
  ASSUME IInv, [Next]_vars
  PROVE  claims' \subseteq events'
<1>1. claims \subseteq events /\ events \subseteq events'
  BY BetterStep DEF IInv, TypeOK, RailTypes, Better
<1>2. ASSUME NEW w \in Hooks, ApplyEvent(w) PROVE claims' \subseteq events
  BY <1>1, <1>2, ApplyWrite DEF ApplyEvent
<1>3. UNCHANGED claims \/ claims' \subseteq events
  BY <1>1, <1>2, HookMoves DEF UnknownOrder, ReceiveEvent, TellFromHook, CrashHook
<1>4. QED
  BY <1>1, <1>3

(* Every rail order is of an intent with an order row. *)
LEMMA NoRowNoCallStep ==
  ASSUME IInv, [Next]_vars
  PROVE  NoRowNoCall'
<1>1. Better
  BY BetterStep
<1>2. rail \in Seq(RailRow) /\ \A r \in DOMAIN rail : orders[rail[r].intent].state # "none"
  BY DEF IInv, TypeOK, RailTypes, NoRowNoCall
<1>3. \A r \in DOMAIN rail : rail[r].intent \in Intents
  BY <1>2, RailAnswers
<1>4. \A r \in DOMAIN rail' : /\ rail'[r].intent \in Intents
                             /\ orders[rail'[r].intent].state # "none"
  BY <1>1, <1>2, <1>3, RailStep DEF Better
<1>5. QED
  BY <1>1, <1>4, LandingStep DEF NoRowNoCall, Better

(* One delivery at a time applies an event that nobody applied. *)
LEMMA EventAppliedOnceStep ==
  ASSUME IInv, [Next]_vars
  PROVE  EventAppliedOnce'
<1> DEFINE Goal == EventAppliedOnce'
<1>1. EventAppliedOnce /\ hook \in [Hooks -> HookRun]
  BY DEF IInv, TypeOK
<1>2. ASSUME NEW w \in Hooks, NEW run \in HookRun, run.pc # "applying",
             hook' = [hook EXCEPT ![w] = run], claims' = claims
      PROVE  Goal
  <2>1. hook'[w] = run /\ \A v \in Hooks \ {w} : hook'[v] = hook[v]
    BY <1>1, <1>2
  <2>2. QED
    BY <1>1, <1>2, <2>1 DEF EventAppliedOnce
<1>3. ASSUME NEW w \in Hooks, NEW e \in events, UnknownOrder(w, e) PROVE Goal
  BY <1>1, <1>3 DEF UnknownOrder, EventContended, EventAppliedOnce, runs
<1>4. ASSUME NEW w \in Hooks, NEW e \in events, ReceiveEvent(w, e) PROVE Goal
  <2>1. /\ hook'[w].event = e /\ \A v \in Hooks \ {w} : hook'[v] = hook[v]
        /\ claims' = claims /\ e \notin claims /\ ~EventContended(w, e)
    BY <1>1, <1>4 DEF ReceiveEvent
  <2>2. QED
    BY <1>1, <2>1 DEF EventContended, EventAppliedOnce
<1>5. ASSUME NEW w \in Hooks, ApplyEvent(w) PROVE Goal
  <2>1. hook[w].pc = "applying" /\ claims' = claims \cup {hook[w].event}
    BY <1>5 DEF ApplyEvent
  <2>2. hook'[w].pc # "applying" /\ \A v \in Hooks \ {w} : hook'[v] = hook[v]
    BY <1>1, <1>5 DEF ApplyEvent, ThenTell, NoHook
  <2>3. QED
    BY <1>1, <2>1, <2>2 DEF EventAppliedOnce
<1>6. ASSUME NEW w \in Hooks, hook' = [hook EXCEPT ![w] = NoHook], claims' = claims
      PROVE  Goal
  BY <1>2, <1>6 DEF NoHook, HookRun
<1>7. ASSUME UNCHANGED <<hook, claims>> PROVE Goal
  BY <1>1, <1>7 DEF EventAppliedOnce
<1>8. QED
  BY <1>3, <1>4, <1>5, <1>6, <1>7, HookMoves DEF TellFromHook, CrashHook
-----------------------------------------------------------------------------
(* What the merchant, the ledger and the mandate's owner may rely on. *)

(* A payment is written as captured by three writers, and each knows of it.*)
LEMMA CapturedMeansPaidStep ==
  ASSUME IInv, [Next]_vars
  PROVE  CapturedMeansPaid'
<1> DEFINE Paid(i) == \E r \in DOMAIN rail' : rail'[r].intent = i
                                              /\ rail'[r].status = "paid"
           Known(i) == PaidOrders(i) # {}
<1>1. /\ \A i \in Intents : Known(i) => Paid(i)
      /\ CapturedMeansPaid /\ orders \in [Intents -> OrderRow]
      /\ holds \in [Intents -> HoldStates]
  BY BetterStep, PaidStays DEF IInv, TypeOK
<1>2. \A i \in Intents : orders[i].state = "CAPTURED" => Known(i)
  BY <1>1 DEF CapturedMeansPaid
<1>3. \A i \in Intents : holds[i] = "captured" => Known(i)
  BY <1>1 DEF CapturedMeansPaid
<1>4. ASSUME NEW w \in Hooks, ApplyEvent(w), IsPaid(hook[w].status)
      PROVE  Known(hook[w].intent)
  BY <1>4 DEF ApplyEvent, IsPaid, IInv, RunsKnow, HookKnows
<1>5. ASSUME NEW t \in Ticks, Resolve(t), IsPaid(tick[t].status)
      PROVE  Known(tick[t].intent)
  BY <1>5 DEF Resolve, IsPaid, IInv, RunsKnow, TickKnows
<1> HIDE DEF Known
<1>6. \A i \in Intents : orders'[i].state = "CAPTURED" => Known(i)
  <2> DEFINE Goal == \A i \in Intents : orders'[i].state = "CAPTURED" => Known(i)
  <2>1. ASSUME NEW i \in Intents, NEW state \in OrderStates \ {"none"},
               NEW r \in {0} \cup Ids, NEW p \in {0} \cup Ids,
               setOrderState(i, state, r, p), state = "CAPTURED" => Known(i)
        PROVE  Goal
    BY <1>2, <2>1, OrderWrite
  <2>2. ASSUME NEW h \in Executors, NEW i \in Intents, NEW b \in BOOLEAN,
               Execute(h, i, b)
        PROVE  Goal
    BY <1>1, <1>2, <2>2 DEF Execute, OrderRow
  <2>3. ASSUME NEW h \in Executors, recordExecution(h) PROVE Goal
    <3>1. exec[h].state = "CAPTURED" => Known(exec[h].intent)
      BY <2>3 DEF recordExecution, IInv, RunsKnow, ExecKnows, Known
    <3>2. QED
      BY <2>1, <2>3, <3>1, RecordWrite
  <2>4. ASSUME NEW w \in Hooks, ApplyEvent(w) PROVE Goal
    <3> DEFINE state == IF IsPaid(hook[w].status) THEN "CAPTURED" ELSE "FAILED"
    <3>1. setOrderState(hook[w].intent, state, 0, hook[w].event[1])
      BY <2>4 DEF ApplyEvent
    <3>2. state \in OrderStates \ {"none"} /\ 0 \in {0} \cup Ids
      BY DEF OrderStates
    <3>3. hook[w].intent \in Intents /\ hook[w].event[1] \in {0} \cup Ids
      BY <2>4, ApplyWrite
    <3>4. state = "CAPTURED" => Known(hook[w].intent)
      BY <1>4, <2>4
    <3> HIDE DEF state
    <3>5. QED
      BY <2>1, <3>1, <3>2, <3>3, <3>4
  <2>5. ASSUME NEW t \in Ticks, Adopt(t) PROVE Goal
    BY <2>1, <2>5, AdoptWrite DEF OrderStates, Pending
  <2>6. ASSUME NEW t \in Ticks, Resolve(t) PROVE Goal
    <3>1. tick[t].intent \in Intents /\ tick[t].payment \in {0} \cup Ids
      BY <2>6 DEF IInv, TypeOK, TickRun, RunsKnow, TickKnows, Resolve
    <3>2. CASE IsPaid(tick[t].status)
      BY <1>2, <1>5, <2>1, <2>6, <3>1, <3>2 DEF Resolve, OrderStates, IsPaid
    <3>3. CASE ~IsPaid(tick[t].status)
      BY <1>2, <2>1, <2>6, <3>1, <3>3 DEF Resolve, OrderStates, IsPaid
    <3>4. QED
      BY <3>2, <3>3
  <2>7. ASSUME orders' = orders PROVE Goal
    BY <1>2, <2>7
  <2>8. QED
    BY <2>2, <2>3, <2>4, <2>5, <2>6, <2>7, OrderMoves
<1>7. \A i \in Intents : holds'[i] = "captured" => Known(i)
  <2> DEFINE Goal == \A i \in Intents : holds'[i] = "captured" => Known(i)
  <2>1. ASSUME NEW i \in Intents, Allow(i) \/ Abandon(i) \/ releaseReservation(i)
        PROVE  Goal
    BY <1>1, <1>3, <2>1 DEF Allow, Abandon, releaseReservation
  <2>2. ASSUME NEW i \in Intents, captureReservation(i), Known(i) PROVE Goal
    BY <1>1, <1>3, <2>2 DEF captureReservation
  <2>3. ASSUME holds' = holds PROVE Goal
    BY <1>3, <2>3
  <2>4. ASSUME NEW h \in Executors, recordExecution(h) PROVE Goal
    BY <2>1, <2>3, <2>4, RecordWrite DEF recordExecution
  <2>5. ASSUME NEW w \in Hooks, ApplyEvent(w) PROVE Goal
    BY <1>4, <2>1, <2>2, <2>5, ApplyWrite DEF ApplyEvent
  <2>6. ASSUME NEW t \in Ticks, Resolve(t) PROVE Goal
    BY <1>5, <2>1, <2>2, <2>3, <2>6, ResolveWrite DEF Resolve
  <2>7. ASSUME NEW c \in Compensators, ReleaseRefunded(c) PROVE Goal
    BY <2>1, <2>7 DEF ReleaseRefunded, IInv, RunsKnow, CompKnows
  <2>8. QED
    BY <2>1, <2>3, <2>4, <2>5, <2>6, <2>7, HoldMoves
<1>8. QED
  BY <1>1, <1>6, <1>7 DEF CapturedMeansPaid, PaidOrders

(* The merchant is told by a run that knows of the payment. *)
LEMMA ToldMeansPaidStep ==
  ASSUME IInv, [Next]_vars
  PROVE  told' \subseteq Intents /\ ToldMeansPaid'
<1>1. told \subseteq Intents /\ \A i \in told : PaidOrders(i) # {}
  BY DEF IInv, TypeOK, RowTypes, ToldMeansPaid
<1>2. ASSUME NEW w \in Hooks, TellFromHook(w)
      PROVE  hook[w].intent \in Intents /\ PaidOrders(hook[w].intent) # {}
  BY <1>2 DEF TellFromHook, IInv, RunsKnow, HookKnows
<1>3. ASSUME NEW t \in Ticks, TellFromTick(t)
      PROVE  tick[t].intent \in Intents /\ PaidOrders(tick[t].intent) # {}
  BY <1>3 DEF TellFromTick, IInv, RunsKnow, TickKnows
<1>4. told' \subseteq Intents /\ \A i \in told' : PaidOrders(i) # {}
  BY <1>1, <1>2, <1>3, ToldMoves DEF TellFromHook, TellFromTick, Fulfil
<1>5. \A i \in told' : \E r \in DOMAIN rail' : rail'[r].intent = i
                                               /\ rail'[r].status = "paid"
  BY <1>4, BetterStep, PaidStays
<1>6. QED
  BY <1>4, <1>5 DEF ToldMeansPaid, PaidOrders

(* Money goes back from the payment that was read with the refund's row.   *)
LEMMA RefundBackedStep ==
  ASSUME IInv, [Next]_vars
  PROVE  refunded' \subseteq DOMAIN rail' /\ RefundBacked'
<1> DEFINE Backed(r) == /\ r \in DOMAIN rail
                        /\ rail[r].status = "paid"
                        /\ rail[r].intent \in refunds
                        /\ MandateOf[rail[r].intent] \in revoked
<1>1. \A r \in refunded : Backed(r)
  BY DEF IInv, TypeOK, RailTypes, RefundBacked
<1>2. ASSUME NEW c \in Compensators, CreateRefund(c) PROVE \A r \in refunded' : Backed(r)
  <2> DEFINE p == comp[c].payment
  <2>1. /\ p \in DOMAIN rail /\ rail[p].intent = comp[c].intent
        /\ comp[c].intent \in refunds
        /\ MandateOf[comp[c].intent] \in revoked
    BY <1>2 DEF CreateRefund, IInv, RunsKnow, CompKnows, IdOf
  <2>2. refunded' = refunded \/ (rail[p].status = "paid" /\ refunded' = refunded \cup {p})
    BY <1>2 DEF CreateRefund
  <2>3. QED
    BY <1>1, <2>1, <2>2
<1>3. UNCHANGED refunded \/ \E c \in Compensators : CreateRefund(c)
  BY CompMoves DEF ScanRevoked, AskRefund, ReleaseRefunded, CrashCompensator, theirs
<1>4. \A r \in refunded' : Backed(r)
  BY <1>1, <1>2, <1>3
<1>5. QED
  BY <1>4, BetterStep DEF Better, RefundBacked

(* The rows that only count or mark. *)
LEMMA RowTypesStep ==
  ASSUME IInv, [Next]_vars
  PROVE  RowTypes'
<1>1. RowTypes /\ MaxCalls \in Nat /\ MaxCrashes \in Nat
  BY Assumption DEF IInv, TypeOK
<1>2. revoked' \subseteq Mandates
  BY <1>1, RevokedMoves DEF RowTypes, Revoke
<1>3. refunds' \subseteq Intents
  <2>1. ASSUME NEW c \in Compensators, AskRefund(c) PROVE refunds' \subseteq Intents
    BY <1>1, <2>1 DEF AskRefund, RowTypes, IInv, RunsKnow, CompKnows
  <2>2. UNCHANGED refunds \/ \E c \in Compensators : AskRefund(c)
    BY CompMoves DEF ScanRevoked, CreateRefund, ReleaseRefunded, CrashCompensator, ours
  <2>3. QED
    BY <1>1, <2>1, <2>2 DEF RowTypes
<1>4. aged' \subseteq Intents
  BY <1>1, AgedMoves DEF RowTypes, Age
<1>5. calls' \in [Intents -> 0..MaxCalls]
  <2>1. calls \in [Intents -> 0..MaxCalls]
    BY <1>1 DEF RowTypes
  <2>2. ASSUME NEW h \in Executors, NEW i \in Intents, NEW b \in BOOLEAN,
               Execute(h, i, b)
        PROVE  calls' \in [Intents -> 0..MaxCalls]
    <3>1. calls[i] < MaxCalls /\ calls' = [calls EXCEPT ![i] = @ + 1]
      BY <2>2 DEF Execute
    <3>2. calls[i] + 1 \in 0..MaxCalls
      BY <1>1, <2>1, <3>1
    <3>3. QED
      BY <2>1, <3>1, <3>2
  <2>3. QED
    BY <2>1, <2>2, CallsMoves
<1>6. crashes' \in 0..MaxCrashes
  BY <1>1, CrashesMoves DEF RowTypes, CrashExecutor, CrashHook, CrashTick,
    CrashCompensator
<1>7. QED
  BY <1>2, <1>3, <1>4, <1>5, <1>6, ToldMeansPaidStep DEF RowTypes

(* A reservation keeps one of its four states. *)
LEMMA HoldsStep ==
  ASSUME IInv, [Next]_vars
  PROVE  holds' \in [Intents -> HoldStates]
<1>1. holds \in [Intents -> HoldStates]
  BY DEF IInv, TypeOK
<1>2. ASSUME NEW i, \/ holds' = [holds EXCEPT ![i] = "held"]
                    \/ holds' = [holds EXCEPT ![i] = "released"]
                    \/ releaseReservation(i) \/ captureReservation(i)
      PROVE  holds' \in [Intents -> HoldStates]
  BY <1>1, <1>2 DEF HoldStates, releaseReservation, captureReservation
<1>3. QED
  BY <1>1, <1>2, HoldMoves DEF Allow, Abandon, recordExecution, ApplyEvent, Resolve,
    ReleaseRefunded
-----------------------------------------------------------------------------
(* The invariant. *)

LEMMA InitIInv == ASSUME Init PROVE IInv
<1>1. rail = <<>> /\ DOMAIN rail = {} /\ rail \in Seq(RailRow)
  <2>1. DOMAIN <<>> = 1..0
    OBVIOUS
  <2>2. QED
    BY <2>1 DEF Init
<1>2. TypeOK
  <2>1. /\ orders \in [Intents -> OrderRow]
        /\ holds \in [Intents -> HoldStates]
    BY DEF Init, NoOrder, OrderRow, OrderStates, HoldStates
  <2>2. RowTypes
    BY Assumption DEF Init, RowTypes
  <2>3. RailTypes
    BY <1>1 DEF Init, RailTypes
  <2>4. exec \in [Executors -> ExecRun] /\ hook \in [Hooks -> HookRun]
    BY DEF Init, NoExec, NoHook, ExecRun, HookRun
  <2>5. tick \in [Ticks -> TickRun] /\ comp \in [Compensators -> CompRun]
    BY DEF Init, NoTick, NoComp, TickRun, CompRun
  <2>6. QED
    BY <2>1, <2>2, <2>3, <2>4, <2>5 DEF TypeOK
<1>3. NoRowNoCall /\ EventAppliedOnce /\ ToldMeansPaid /\ RefundBacked
  BY <1>1 DEF Init, NoRowNoCall, EventAppliedOnce, ToldMeansPaid, RefundBacked, NoHook
<1>4. RowsKnow /\ CapturedMeansPaid
  BY DEF Init, RowsKnow, IdOf, CapturedMeansPaid, NoOrder
<1>5. RunsKnow
  BY DEF Init, RunsKnow, ExecKnows, HookKnows, TickKnows, CompKnows,
    NoExec, NoHook, NoTick, NoComp
<1>6. QED
  BY <1>2, <1>3, <1>4, <1>5 DEF IInv

LEMMA NextIInv == ASSUME IInv, [Next]_vars PROVE IInv'
<1>1. RailTypes'
  BY RailStep, LandingStep, AskedStep, RefundBackedStep, EventsStep, ClaimsStep
  DEF RailTypes
<1>2. TypeOK'
  BY <1>1, OrderStep, HoldsStep, RowTypesStep, ExecStep, HookStepKnows,
    TickStepKnows, CompStepKnows
  DEF TypeOK
<1>3. RowsKnow'
  BY OrderIdsStep, EventsStep DEF RowsKnow
<1>4. RunsKnow'
  BY ExecStep, HookStepKnows, TickStepKnows, CompStepKnows DEF RunsKnow
<1>5. QED
  BY <1>2, <1>3, <1>4, NoRowNoCallStep, EventAppliedOnceStep, CapturedMeansPaidStep,
    ToldMeansPaidStep, RefundBackedStep
  DEF IInv

(* What the tables and the runs say of the rail is true in every reachable *)
(* state, whatever overlaps, is lost or dies.                              *)
THEOREM SettlementInvariance == Spec => []IInv
<1>1. Init => IInv
  BY InitIInv
<1>2. IInv /\ [Next]_vars => IInv'
  BY NextIInv
<1>3. QED
  BY <1>1, <1>2, PTL DEF Spec

(* An order or a hold is captured only when the rail took the money of     *)
(* that intent (reconciler.service.ts:20).                                 *)
THEOREM CapturedIsPaid == Spec => []CapturedMeansPaid
<1>1. IInv => CapturedMeansPaid
  BY DEF IInv
<1>2. QED
  BY <1>1, SettlementInvariance, PTL

(* The merchant ships only what was paid, whichever path tells it. *)
THEOREM ToldIsPaid == Spec => []ToldMeansPaid
<1>1. IInv => ToldMeansPaid
  BY DEF IInv
<1>2. QED
  BY <1>1, SettlementInvariance, PTL

(* The rail is called only after the claim was committed                   *)
(* (migrations/008_submitting_state.sql:6).                                *)
THEOREM ClaimedBeforeCalled == Spec => []NoRowNoCall
<1>1. IInv => NoRowNoCall
  BY DEF IInv
<1>2. QED
  BY <1>1, SettlementInvariance, PTL

(* INV-15: a webhook event is applied once, however often it is delivered. *)
THEOREM EventsAppliedOnce == Spec => []EventAppliedOnce
<1>1. IInv => EventAppliedOnce
  BY DEF IInv
<1>2. QED
  BY <1>1, SettlementInvariance, PTL

(* Money goes back only for a purchase of a revoked mandate, and with a    *)
(* refund row (compensateRevoked).                                         *)
THEOREM RefundsAreBacked == Spec => []RefundBacked
<1>1. IInv => RefundBacked
  BY DEF IInv
<1>2. QED
  BY <1>1, SettlementInvariance, PTL
-----------------------------------------------------------------------------
(* Settlement keeps what the two halves of the kernel agreed on holds. *)

Claimed == {i \in Intents : orders[i].state # "none"}

(* Whatever is written to an order row that is there leaves the claims.    *)
LEMMA ClaimsKept ==
  ASSUME IInv, NEW i \in Intents, NEW state \in OrderStates \ {"none"},
         NEW r \in {0} \cup Ids, NEW p \in {0} \cup Ids,
         setOrderState(i, state, r, p), orders[i].state # "none"
  PROVE  Claimed' = Claimed
  BY OrderWrite DEF Claimed

(* A hold is captured or released for an order that was claimed before.    *)
LEMMA WritersClaimed ==
  ASSUME IInv
  PROVE  /\ \A h \in Executors : recordExecution(h) => orders[exec[h].intent].state # "none"
         /\ \A w \in Hooks : ApplyEvent(w) => orders[hook[w].intent].state # "none"
         /\ \A t \in Ticks : Resolve(t) \/ Adopt(t) => orders[tick[t].intent].state # "none"
<1>1. ASSUME NEW h \in Executors, recordExecution(h)
      PROVE  orders[exec[h].intent].state # "none"
  BY <1>1 DEF recordExecution, IInv, RunsKnow, ExecKnows
<1>2. ASSUME NEW w \in Hooks, ApplyEvent(w)
      PROVE  orders[hook[w].intent].state # "none"
  <2>1. hook[w].event[1] \in DOMAIN rail /\ rail[hook[w].event[1]].intent = hook[w].intent
    BY <1>2, ApplyWrite DEF ApplyEvent, IInv, RunsKnow, HookKnows, IdOf, Ids
  <2>2. QED
    BY <2>1 DEF IInv, NoRowNoCall
<1>3. ASSUME NEW t \in Ticks, Resolve(t) \/ Adopt(t)
      PROVE  orders[tick[t].intent].state # "none"
  BY <1>3 DEF Resolve, Adopt, IInv, RunsKnow, TickKnows
<1>4. QED
  BY <1>1, <1>2, <1>3

(* The claims grow by a claim of execute, for an intent that has a hold.   *)
LEMMA ClaimedStep ==
  ASSUME IInv, [Next]_vars
  PROVE  \/ Claimed' = Claimed
         \/ /\ UNCHANGED holds
            /\ \E i \in Intents : holds[i] # "none" /\ Claimed' = Claimed \cup {i}
<1>1. ASSUME NEW h \in Executors, NEW i \in Intents, NEW b \in BOOLEAN,
             Execute(h, i, b)
      PROVE  /\ UNCHANGED holds
             /\ holds[i] # "none" /\ Claimed' = Claimed \cup {i}
  BY <1>1 DEF Execute, Claimed, IInv, TypeOK, OrderRow
<1>2. ASSUME NEW h \in Executors, recordExecution(h) PROVE Claimed' = Claimed
  BY <1>2, RecordWrite, WritersClaimed, ClaimsKept
<1>3. ASSUME NEW w \in Hooks, ApplyEvent(w) PROVE Claimed' = Claimed
  BY <1>3, ApplyWrite, WritersClaimed, ClaimsKept DEF OrderStates
<1>4. ASSUME NEW t \in Ticks, Adopt(t) PROVE Claimed' = Claimed
  BY <1>4, AdoptWrite, WritersClaimed, ClaimsKept DEF OrderStates, Pending
<1>5. ASSUME NEW t \in Ticks, Resolve(t) PROVE Claimed' = Claimed
  <2>1. CASE orders' = orders
    BY <2>1 DEF Claimed
  <2>2. CASE orders' # orders
    BY <1>5, <2>2, ResolveWrite, WritersClaimed, ClaimsKept DEF OrderStates
  <2>3. QED
    BY <2>1, <2>2
<1>6. ASSUME orders' = orders PROVE Claimed' = Claimed
  BY <1>6 DEF Claimed
<1>7. QED
  BY <1>1, <1>2, <1>3, <1>4, <1>5, <1>6, OrderMoves

(* A step that writes a hold makes, captures or releases one. *)
LEMMA HoldStep ==
  ASSUME IInv, [Next]_vars
  PROVE  \/ UNCHANGED holds
         \/ \E i \in Intents :
              \/ holds[i] = "none" /\ holds' = [holds EXCEPT ![i] = "held"]
              \/ /\ holds[i] = "held" /\ i \in Claimed
                 /\ holds' = [holds EXCEPT ![i] = "captured"]
              \/ /\ holds[i] \in {"held", "captured"}
                 /\ holds' = [holds EXCEPT ![i] = "released"]
<1> DEFINE Step(i) ==
      \/ holds[i] = "none" /\ holds' = [holds EXCEPT ![i] = "held"]
      \/ /\ holds[i] = "held" /\ i \in Claimed
         /\ holds' = [holds EXCEPT ![i] = "captured"]
      \/ /\ holds[i] \in {"held", "captured"}
         /\ holds' = [holds EXCEPT ![i] = "released"]
<1>1. holds \in [Intents -> HoldStates]
  BY DEF IInv, TypeOK
<1>2. ASSUME NEW i \in Intents, releaseReservation(i) PROVE UNCHANGED holds \/ Step(i)
  BY <1>1, <1>2 DEF releaseReservation
<1>3. ASSUME NEW i \in Intents, captureReservation(i), orders[i].state # "none"
      PROVE  UNCHANGED holds \/ Step(i)
  BY <1>1, <1>3 DEF captureReservation, Claimed
<1>4. ASSUME NEW i \in Intents, Allow(i) \/ Abandon(i) PROVE Step(i)
  BY <1>4 DEF Allow, Abandon
<1>5. ASSUME NEW h \in Executors, recordExecution(h)
      PROVE  UNCHANGED holds \/ Step(exec[h].intent)
  BY <1>2, <1>5, RecordWrite DEF recordExecution
<1>6. ASSUME NEW w \in Hooks, ApplyEvent(w)
      PROVE  UNCHANGED holds \/ Step(hook[w].intent)
  BY <1>2, <1>3, <1>6, ApplyWrite, WritersClaimed DEF ApplyEvent
<1>7. ASSUME NEW t \in Ticks, Resolve(t)
      PROVE  UNCHANGED holds \/ Step(tick[t].intent)
  BY <1>2, <1>3, <1>7, ResolveWrite, WritersClaimed DEF Resolve
<1>8. ASSUME NEW c \in Compensators, ReleaseRefunded(c)
      PROVE  comp[c].intent \in Intents /\ (UNCHANGED holds \/ Step(comp[c].intent))
  BY <1>2, <1>8 DEF ReleaseRefunded, IInv, RunsKnow, CompKnows
<1> HIDE DEF Step
<1>9. UNCHANGED holds \/ \E i \in Intents : Step(i)
  BY <1>4, <1>5, <1>6, <1>7, <1>8, HoldMoves, RecordWrite, ApplyWrite, ResolveWrite
<1>10. QED
  BY <1>9 DEF Step

(* Settlement implements the holds the kernel's halves agreed on: every    *)
(* claim, capture and release of execute, the webhooks and the jobs is one *)
(* of theirs, or nothing to them.                                          *)
THEOREM SettlementKeepsHolds == Spec => HoldSpec
<1>1. Init => Holds!HoldInit
  BY DEF Init, Holds!HoldInit, NoOrder
<1>2. ASSUME IInv, [Next]_vars PROVE [Holds!HoldNext]_<<holds, Claimed>>
  <2>1. CASE Claimed' = Claimed /\ UNCHANGED holds
    BY <2>1
  <2>2. CASE Claimed' = Claimed /\ holds' # holds
    BY <1>2, <2>2, HoldStep
    DEF Holds!HoldNext, Holds!Reserve, Holds!Capture, Holds!Release, Claimed
  <2>3. CASE Claimed' # Claimed
    BY <1>2, <2>3, ClaimedStep DEF Holds!HoldNext, Holds!Claim, Claimed
  <2>4. QED
    BY <2>1, <2>2, <2>3
<1>3. QED
  BY <1>1, <1>2, SettlementInvariance, PTL DEF Spec, HoldSpec, Holds!HoldSpec, Claimed
=============================================================================
