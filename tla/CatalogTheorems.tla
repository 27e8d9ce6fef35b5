-------------------------- MODULE CatalogTheorems --------------------------
(***************************************************************************)
(* No two related feeds are on sale together.  The argument: a run that    *)
(* has written its whole feed holds the row of each of its products, so    *)
(* one that commits while another withdraws has no product in common with  *)
(* it; what else the other found on sale it still visits or holds.         *)
(***************************************************************************)
EXTENDS Catalog, TLAPS

LEMMA FeedTypes ==
  ASSUME NEW f \in Feeds
  PROVE  /\ Len(f) \in Nat /\ DOMAIN f = 1..Len(f)
         /\ \A n \in DOMAIN f : f[n] \in Offer
<1>1. f \in Seq(Offer)
  BY CatalogAssumption DEF CatalogAssumption
<1>. QED
  BY <1>1

LEMMA Bounds == MaxChanges \in Nat /\ MaxFailures \in Nat
  BY CatalogAssumption DEF CatalogAssumption

LEMMA RowTypes ==
  ASSUME NEW o \in Offer, o.price # Malformed
  PROVE  RowOf(o) \in Row
  BY DEF RowOf, Row, Offer, Active, Inactive

LEMMA NoSyncType ==
  /\ NoSync \in Run
  /\ NoSync.pc = "none" /\ NoSync.feed = << >> /\ NoSync.next = 1
  /\ NoSync.withdraw = {} /\ NoSync.held = {} /\ NoSync.waits = {}
  /\ NoSync.written = [p \in Skus |-> Inactive]
  BY DEF NoSync, Run, Row, Inactive
-----------------------------------------------------------------------------
(* The steps of a run, as what they make of its record. *)
LEMMA FetchRun ==
  ASSUME TypeOK, NEW s \in Syncs, Fetch(s)
  PROVE  /\ syncs'[s] \in Run
         /\ syncs' = [syncs EXCEPT ![s] = syncs'[s]]
         /\ syncs'[s].pc = "upserting" /\ syncs'[s].feed = feed /\ syncs'[s].next = 1
         /\ syncs'[s].withdraw = {} /\ syncs'[s].held = {}
         /\ syncs'[s].written = [p \in Skus |-> Inactive]
         /\ feed \in Feeds
<1>1. feed \in Feeds
  BY DEF TypeOK
<1>2. /\ syncs' = [syncs EXCEPT ![s] = syncs'[s]]
      /\ syncs'[s] = [NoSync EXCEPT !.pc = "upserting", !.feed = feed]
  BY DEF Fetch, TypeOK
<1>3. [NoSync EXCEPT !.pc = "upserting", !.feed = feed] \in Run
  BY <1>1, NoSyncType DEF Run
<1>4. /\ syncs'[s].pc = "upserting" /\ syncs'[s].feed = feed
      /\ syncs'[s].next = NoSync.next /\ syncs'[s].withdraw = NoSync.withdraw
      /\ syncs'[s].held = NoSync.held /\ syncs'[s].written = NoSync.written
  BY <1>2, NoSyncType DEF Run
<1>. QED
  BY <1>1, <1>2, <1>3, <1>4, NoSyncType

LEMMA UpsertRun ==
  ASSUME TypeOK, NEW s \in Syncs, Upsert(s)
  PROVE  /\ syncs'[s] \in Run
         /\ syncs' = [syncs EXCEPT ![s] = syncs'[s]]
         /\ syncs[s].feed \in Feeds
         /\ syncs[s].next \in DOMAIN syncs[s].feed
         /\ Current(s) \in Offer /\ Current(s).sku \in Skus
         /\ syncs'[s].pc = syncs[s].pc
         /\ syncs'[s].feed = syncs[s].feed
         /\ syncs'[s].next = syncs[s].next + 1
         /\ syncs'[s].withdraw = syncs[s].withdraw
         /\ syncs'[s].held = syncs[s].held \cup {Current(s).sku}
         /\ syncs'[s].written = [syncs[s].written EXCEPT ![Current(s).sku] = RowOf(Current(s))]
<1>1. syncs[s] \in Run /\ syncs[s].next \in DOMAIN syncs[s].feed
  BY DEF TypeOK, Upsert, Upserting
<1>2. syncs[s].feed \in Feeds
  BY <1>1 DEF Run
<1>3. Current(s) \in Offer /\ Current(s).sku \in Skus
  BY <1>1, <1>2, FeedTypes DEF Current, Offer
<1>4. RowOf(Current(s)) \in Row
  BY <1>3, RowTypes DEF Upsert
<1>5. syncs'[s] = [syncs[s] EXCEPT
        !.next = syncs[s].next + 1,
        !.waits = {},
        !.held = syncs[s].held \cup {Current(s).sku},
        !.written = [syncs[s].written EXCEPT ![Current(s).sku] = RowOf(Current(s))]]
  BY DEF TypeOK, Upsert
<1>6. syncs' = [syncs EXCEPT ![s] = syncs'[s]]
  BY DEF TypeOK, Upsert
<1>7. /\ syncs'[s].pc = syncs[s].pc
      /\ syncs'[s].feed = syncs[s].feed
      /\ syncs'[s].next = syncs[s].next + 1
      /\ syncs'[s].withdraw = syncs[s].withdraw
      /\ syncs'[s].held = syncs[s].held \cup {Current(s).sku}
      /\ syncs'[s].written = [syncs[s].written EXCEPT ![Current(s).sku] = RowOf(Current(s))]
  BY <1>1, <1>5 DEF Run
<1>8. [syncs[s].written EXCEPT ![Current(s).sku] = RowOf(Current(s))] \in [Skus -> Row]
  BY <1>1, <1>3, <1>4 DEF Run
<1>9. syncs'[s] \in Run
  <2>1. ASSUME NEW n \in Nat, NEW h \in SUBSET Skus, NEW w \in [Skus -> Row]
        PROVE  [syncs[s] EXCEPT !.next = n, !.waits = {}, !.held = h, !.written = w] \in Run
    BY <1>1 DEF Run
  <2>2. syncs[s].next + 1 \in Nat /\ syncs[s].held \cup {Current(s).sku} \in SUBSET Skus
    BY <1>1, <1>3 DEF Run
  <2>3. [syncs[s] EXCEPT
           !.next = syncs[s].next + 1,
           !.waits = {},
           !.held = syncs[s].held \cup {Current(s).sku},
           !.written = [syncs[s].written EXCEPT ![Current(s).sku] = RowOf(Current(s))]] \in Run
    BY <1>8, <2>1, <2>2, Zenon
  <2>. QED
    BY <1>5, <2>3, Zenon
<1>. QED
  BY <1>1, <1>2, <1>3, <1>6, <1>7, <1>9

LEMMA EndRun ==
  ASSUME TypeOK, NEW s \in Syncs, Reject(s) \/ EndInDeadlock(s) \/ Fail(s) \/ Commit(s)
  PROVE  /\ syncs'[s] \in Run
         /\ syncs' = [syncs EXCEPT ![s] = syncs'[s]]
         /\ syncs'[s] = NoSync
<1>1. syncs' = [syncs EXCEPT ![s] = syncs'[s]] /\ syncs'[s] = NoSync
  BY DEF TypeOK, Reject, EndInDeadlock, Fail, Commit
<1>. QED
  BY <1>1, NoSyncType

LEMMA BeginWithdrawRun ==
  ASSUME TypeOK, NEW s \in Syncs, BeginWithdraw(s)
  PROVE  /\ syncs'[s] \in Run
         /\ syncs' = [syncs EXCEPT ![s] = syncs'[s]]
         /\ syncs'[s].pc = "withdrawing"
         /\ syncs'[s].feed = syncs[s].feed
         /\ syncs'[s].next = syncs[s].next
         /\ syncs'[s].withdraw = {p \in Skus \ Listed(syncs[s].feed) : items[p].active}
         /\ syncs'[s].held = syncs[s].held
         /\ syncs'[s].written = syncs[s].written
<1>1. syncs[s] \in Run
  BY DEF TypeOK
<1>2. /\ syncs' = [syncs EXCEPT ![s] = syncs'[s]]
      /\ syncs'[s] = [syncs[s] EXCEPT !.pc = "withdrawing",
           !.withdraw = {p \in Skus \ Listed(syncs[s].feed) : items[p].active}]
  BY DEF TypeOK, BeginWithdraw
<1>3. {p \in Skus \ Listed(syncs[s].feed) : items[p].active} \in SUBSET Skus
  OBVIOUS
<1>4. syncs'[s] \in Run
  BY <1>1, <1>2, <1>3 DEF Run
<1>5. /\ syncs'[s].pc = "withdrawing"
      /\ syncs'[s].feed = syncs[s].feed
      /\ syncs'[s].next = syncs[s].next
      /\ syncs'[s].withdraw = {p \in Skus \ Listed(syncs[s].feed) : items[p].active}
      /\ syncs'[s].held = syncs[s].held
      /\ syncs'[s].written = syncs[s].written
  BY <1>1, <1>2 DEF Run
<1>. QED
  BY <1>2, <1>4, <1>5

LEMMA WithdrawRowRun ==
  ASSUME TypeOK, NEW s \in Syncs, NEW p \in Skus, WithdrawRow(s, p)
  PROVE  /\ syncs'[s] \in Run
         /\ syncs' = [syncs EXCEPT ![s] = syncs'[s]]
         /\ syncs'[s].pc = syncs[s].pc
         /\ syncs'[s].feed = syncs[s].feed
         /\ syncs'[s].next = syncs[s].next
         /\ syncs'[s].withdraw = syncs[s].withdraw \ {p}
         /\ syncs'[s].held = syncs[s].held \cup {x \in {p} : items[x].active}
         /\ syncs'[s].written = syncs[s].written
<1>1. syncs[s] \in Run
  BY DEF TypeOK
<1>2. /\ syncs' = [syncs EXCEPT ![s] = syncs'[s]]
      /\ syncs'[s] = [syncs[s] EXCEPT
           !.withdraw = syncs[s].withdraw \ {p},
           !.waits = {},
           !.held = syncs[s].held \cup {x \in {p} : items[x].active}]
  BY DEF TypeOK, WithdrawRow
<1>3. syncs'[s] \in Run
  <2>1. ASSUME NEW w \in SUBSET Skus, NEW h \in SUBSET Skus
        PROVE  [syncs[s] EXCEPT !.withdraw = w, !.waits = {}, !.held = h] \in Run
    BY <1>1 DEF Run
  <2>2. /\ syncs[s].withdraw \ {p} \in SUBSET Skus
        /\ syncs[s].held \cup {x \in {p} : items[x].active} \in SUBSET Skus
    BY <1>1 DEF Run
  <2>3. [syncs[s] EXCEPT
           !.withdraw = syncs[s].withdraw \ {p},
           !.waits = {},
           !.held = syncs[s].held \cup {x \in {p} : items[x].active}] \in Run
    BY <2>1, <2>2, Zenon
  <2>. QED
    BY <1>2, <2>3, Zenon
<1>4. /\ syncs'[s].pc = syncs[s].pc
      /\ syncs'[s].feed = syncs[s].feed
      /\ syncs'[s].next = syncs[s].next
      /\ syncs'[s].withdraw = syncs[s].withdraw \ {p}
      /\ syncs'[s].held = syncs[s].held \cup {x \in {p} : items[x].active}
      /\ syncs'[s].written = syncs[s].written
  BY <1>1, <1>2 DEF Run
<1>. QED
  BY <1>2, <1>3, <1>4

LEMMA WaitRun ==
  ASSUME TypeOK, NEW s \in Syncs, NEW p \in Skus, Wait(s, p)
  PROVE  /\ syncs'[s] \in Run
         /\ syncs' = [syncs EXCEPT ![s] = syncs'[s]]
         /\ syncs'[s].pc = syncs[s].pc
         /\ syncs'[s].feed = syncs[s].feed
         /\ syncs'[s].next = syncs[s].next
         /\ syncs'[s].withdraw = syncs[s].withdraw
         /\ syncs'[s].held = syncs[s].held
         /\ syncs'[s].written = syncs[s].written
<1>1. syncs[s] \in Run
  BY DEF TypeOK
<1>2. /\ syncs' = [syncs EXCEPT ![s] = syncs'[s]]
      /\ syncs'[s] = [syncs[s] EXCEPT !.waits = {p}]
  BY DEF TypeOK, Wait
<1>. QED
  BY <1>1, <1>2 DEF Run

LEMMA RunsType ==
  ASSUME TypeOK, NEW s \in Syncs, Fetch(s) \/ SyncStep(s) \/ EndInDeadlock(s) \/ Fail(s)
  PROVE  /\ syncs' \in [Syncs -> Run]
         /\ \A t \in Syncs \ {s} : syncs'[t] = syncs[t]
<1>1. syncs'[s] \in Run /\ syncs' = [syncs EXCEPT ![s] = syncs'[s]]
  BY FetchRun, UpsertRun, EndRun, BeginWithdrawRun, WithdrawRowRun, WaitRun DEF SyncStep
<1>. QED
  BY <1>1 DEF TypeOK
-----------------------------------------------------------------------------
LEMMA RunFrame ==
  ASSUME NEW s \in Syncs, Fetch(s) \/ SyncStep(s) \/ EndInDeadlock(s) \/ Fail(s)
  PROVE  /\ UNCHANGED <<feed, published, quotes, changes>>
         /\ (items' = items /\ source' = source) \/ Commit(s)
         /\ failures' = failures \/ (failures < MaxFailures /\ failures' = failures + 1)
<1>1. CASE Fetch(s)
  BY <1>1 DEF Fetch
<1>2. CASE Upsert(s)
  BY <1>2 DEF Upsert
<1>3. CASE Reject(s)
  BY <1>3 DEF Reject
<1>4. CASE BeginWithdraw(s)
  BY <1>4 DEF BeginWithdraw
<1>5. ASSUME NEW p \in Skus, WithdrawRow(s, p) \/ Wait(s, p)
      PROVE  UNCHANGED <<feed, published, items, source, quotes, changes, failures>>
  BY <1>5 DEF WithdrawRow, Wait
<1>6. CASE Commit(s)
  BY <1>6 DEF Commit
<1>7. CASE EndInDeadlock(s)
  BY <1>7 DEF EndInDeadlock
<1>8. CASE Fail(s)
  BY <1>8 DEF Fail
<1>. QED
  BY <1>1, <1>2, <1>3, <1>4, <1>5, <1>6, <1>7, <1>8 DEF SyncStep

LEMMA CommittedType ==
  ASSUME TypeOK, NEW s \in Syncs, Commit(s)
  PROVE  items' \in [Skus -> Row] /\ source' \in [Skus -> Feeds \cup {<< >>}]
<1>1. syncs[s].written \in [Skus -> Row] /\ syncs[s].feed \in Feeds \cup {<< >>}
  BY DEF TypeOK, Run
<1>. QED
  BY <1>1 DEF TypeOK, Commit

LEMMA QuotesType ==
  ASSUME TypeOK, NEW q \in Quotes, priceLines(q) \/ RefuseBasket(q) \/ insert(q)
  PROVE  quotes' \in [Quotes -> [state : {"none", "read", "stored"}, lines : Lines]]
<1>1. [p \in {p \in Basket[q] : items[p].active} |-> items[p]] \in Lines
  <2>. DEFINE P == {p \in Basket[q] : items[p].active}
  <2>1. P \in SUBSET Skus
    BY CatalogAssumption DEF CatalogAssumption
  <2>2. [p \in P |-> items[p]] \in [P -> Row]
    BY <2>1 DEF TypeOK
  <2>. QED
    BY <2>1, <2>2 DEF Lines
<1>2. NoQuote \in [state : {"none", "read", "stored"}, lines : Lines]
  <2>1. [p \in {} |-> Inactive] \in [{} -> Row] /\ {} \in SUBSET Skus
    OBVIOUS
  <2>. QED
    BY <2>1 DEF Lines, NoQuote
<1>. QED
  BY <1>1, <1>2 DEF TypeOK, priceLines, RefuseBasket, insert

LEMMA TypeStep ==
  ASSUME TypeOK, [Next]_vars
  PROVE  TypeOK'
<1>1. CASE ChangeFeed
  BY <1>1, Bounds DEF TypeOK, ChangeFeed
<1>2. ASSUME NEW s \in Syncs, Fetch(s) \/ SyncStep(s) \/ EndInDeadlock(s) \/ Fail(s)
      PROVE  TypeOK'
  <2>1. syncs' \in [Syncs -> Run]
    BY <1>2, RunsType
  <2>2. (items' = items /\ source' = source) \/ Commit(s)
    BY <1>2, RunFrame
  <2>3. UNCHANGED <<feed, published, quotes, changes>>
    BY <1>2, RunFrame
  <2>4. failures' \in 0..MaxFailures
    BY <1>2, RunFrame, Bounds DEF TypeOK
  <2>. QED
    BY <2>1, <2>2, <2>3, <2>4, CommittedType DEF TypeOK
<1>3. ASSUME NEW q \in Quotes, priceLines(q) \/ RefuseBasket(q) \/ insert(q)
      PROVE  TypeOK'
  <2>1. UNCHANGED <<feed, published, items, source, syncs, changes, failures>>
    BY <1>3 DEF priceLines, RefuseBasket, insert
  <2>. QED
    BY <1>3, <2>1, QuotesType DEF TypeOK
<1>4. CASE UNCHANGED vars
  BY <1>4 DEF vars, TypeOK
<1>. QED
  BY <1>1, <1>2, <1>3, <1>4 DEF Next
-----------------------------------------------------------------------------
LEMMA OneWriterStep ==
  ASSUME TypeOK, OneWriter, [Next]_vars
  PROVE  OneWriter'
<1>1. ASSUME NEW s \in Syncs, Fetch(s) \/ Reject(s) \/ EndInDeadlock(s) \/ Fail(s)
                             \/ Commit(s) \/ BeginWithdraw(s)
      PROVE  OneWriter'
  <2>1. \A t \in Syncs \ {s} : syncs'[t] = syncs[t]
    BY <1>1, RunsType DEF SyncStep
  <2>2. syncs'[s].held \in {{}, syncs[s].held}
    BY <1>1, FetchRun, EndRun, BeginWithdrawRun, NoSyncType
  <2>. QED
    BY <2>1, <2>2 DEF OneWriter, Holds
<1>2. ASSUME NEW s \in Syncs, Upsert(s)
      PROVE  OneWriter'
  <2>1. \A t \in Syncs \ {s} : syncs'[t] = syncs[t]
    BY <1>2, RunsType DEF SyncStep
  <2>2. syncs'[s].held = syncs[s].held \cup {Current(s).sku}
    BY <1>2, UpsertRun
  <2>3. \A t \in Syncs \ {s} : Current(s).sku \notin syncs[t].held
    BY <1>2 DEF Upsert, Granted, HeldByOther, Holds
  <2>. QED
    BY <2>1, <2>2, <2>3 DEF OneWriter, Holds
<1>3. ASSUME NEW s \in Syncs, NEW p \in Skus, WithdrawRow(s, p)
      PROVE  OneWriter'
  <2>1. \A t \in Syncs \ {s} : syncs'[t] = syncs[t]
    BY <1>3, RunsType DEF SyncStep
  <2>2. syncs'[s].held \subseteq syncs[s].held \cup {p}
    BY <1>3, WithdrawRowRun
  <2>3. \A t \in Syncs \ {s} : p \notin syncs[t].held
    BY <1>3 DEF WithdrawRow, Granted, HeldByOther, Holds
  <2>. QED
    BY <2>1, <2>2, <2>3 DEF OneWriter, Holds
<1>5. ASSUME NEW s \in Syncs, NEW p \in Skus, Wait(s, p)
      PROVE  OneWriter'
  <2>1. \A t \in Syncs \ {s} : syncs'[t] = syncs[t]
    BY <1>5, RunsType DEF SyncStep
  <2>2. syncs'[s].held = syncs[s].held
    BY <1>5, WaitRun
  <2>. QED
    BY <2>1, <2>2 DEF OneWriter, Holds
<1>4. CASE UNCHANGED syncs
  BY <1>4 DEF OneWriter, Holds
<1>. QED
  BY <1>1, <1>2, <1>3, <1>4, <1>5
     DEF Next, SyncStep, ChangeFeed, priceLines, RefuseBasket, insert, vars
-----------------------------------------------------------------------------
LEMMA OtherFrame ==
  /\ ChangeFeed => UNCHANGED <<items, source, syncs, quotes>> /\ published \subseteq published'
  /\ \A q \in Quotes : priceLines(q) \/ RefuseBasket(q) \/ insert(q) =>
       UNCHANGED <<items, source, syncs, published>>
  /\ UNCHANGED vars => UNCHANGED <<items, source, syncs, quotes, published>>
  BY DEF ChangeFeed, priceLines, RefuseBasket, insert, vars

(* What a run knows, step by step. *)
LEMMA KnownFeed ==
  ASSUME TypeOK, NEW s \in Syncs, RunKnows(s), syncs[s].pc # "none"
  PROVE  /\ syncs[s].feed \in Feeds /\ syncs[s].feed \in published
         /\ syncs[s].next \in 1..Len(syncs[s].feed) + 1
         /\ Len(syncs[s].feed) \in Nat /\ DOMAIN syncs[s].feed = 1..Len(syncs[s].feed)
         /\ \A n \in DOMAIN syncs[s].feed : syncs[s].feed[n].sku \in Skus
<1>1. syncs[s].feed \in Feeds /\ syncs[s].feed \in published
      /\ syncs[s].next \in 1..Len(syncs[s].feed) + 1
  BY DEF TypeOK, RunKnows
<1>. QED
  BY <1>1, FeedTypes DEF Offer

LEMMA RunKept ==
  ASSUME NEW t \in Syncs, RunKnows(t), syncs'[t] = syncs[t], items' = items,
         source' = source, published \subseteq published'
  PROVE  RunKnows(t)'
  BY DEF RunKnows, Disjoint

LEMMA NoRunKnows ==
  ASSUME NEW s \in Syncs, syncs'[s] = NoSync
  PROVE  RunKnows(s)'
  BY NoSyncType DEF RunKnows, Listed

LEMMA FetchKnows ==
  ASSUME TypeOK, NEW s \in Syncs, Fetch(s)
  PROVE  RunKnows(s)'
<1>1. feed \in Feeds /\ feed \in published /\ published' = published
  BY DEF TypeOK, Fetch
<1>2. 1 \in 1..Len(feed) + 1 /\ DOMAIN feed = 1..Len(feed) /\ Len(feed) \in Nat
  BY <1>1, FeedTypes
<1>. QED
  BY <1>1, <1>2, FetchRun DEF RunKnows

LEMMA UpsertKnows ==
  ASSUME TypeOK, NEW s \in Syncs, RunKnows(s), Upsert(s)
  PROVE  RunKnows(s)'
<1>. DEFINE f == syncs[s].feed
            k == syncs[s].next
<1>1. syncs[s].pc = "upserting" /\ k \in DOMAIN f /\ Current(s) = f[k]
  BY DEF Upsert, Upserting, Current
<1>2. /\ f \in Feeds /\ f \in published /\ Len(f) \in Nat /\ DOMAIN f = 1..Len(f)
      /\ \A n \in DOMAIN f : f[n].sku \in Skus
  BY <1>1, KnownFeed
<1>3. published' = published
  BY DEF Upsert
<1>4. k + 1 \in 1..Len(f) + 1
  BY <1>1, <1>2
<1>5. syncs[s].written \in [Skus -> Row]
  BY DEF TypeOK, Run
<1>6. \A n \in DOMAIN f : f[n].sku = f[k].sku => n = k
  BY <1>1, <1>2, CatalogAssumption DEF CatalogAssumption
<1>7. /\ syncs'[s].pc = "upserting" /\ syncs'[s].feed = f /\ syncs'[s].next = k + 1
      /\ syncs'[s].withdraw = syncs[s].withdraw
      /\ syncs'[s].held = syncs[s].held \cup {f[k].sku}
      /\ syncs'[s].written = [syncs[s].written EXCEPT ![f[k].sku] = RowOf(f[k])]
  BY <1>1, UpsertRun
<1>8. ASSUME NEW n \in DOMAIN f, n < k + 1
      PROVE  f[n].sku \in syncs'[s].held /\ syncs'[s].written[f[n].sku] = RowOf(f[n])
  <2>1. CASE n = k
    BY <2>1, <1>2, <1>5, <1>7
  <2>2. CASE n # k
    <3>1. n < k
      BY <2>2, <1>1, <1>2, <1>8
    <3>2. f[n].sku \in syncs[s].held /\ syncs[s].written[f[n].sku] = RowOf(f[n])
      BY <3>1 DEF RunKnows
    <3>3. f[n].sku # f[k].sku
      BY <2>2, <1>6
    <3>. QED
      BY <3>2, <3>3, <1>2, <1>5, <1>7
  <2>. QED
    BY <2>1, <2>2
<1>9. ASSUME NEW p \in Skus \ Listed(f)
      PROVE  syncs'[s].written[p] = Inactive
  <2>1. p # f[k].sku
    BY <1>1, <1>9 DEF Listed
  <2>2. syncs[s].written[p] = Inactive
    BY <1>9 DEF RunKnows
  <2>. QED
    BY <2>1, <2>2, <1>5, <1>7
<1>10. syncs[s].withdraw = {}
  BY <1>1 DEF RunKnows
<1>. HIDE DEF f, k
<1>. QED
  BY <1>2, <1>3, <1>4, <1>7, <1>8, <1>9, <1>10 DEF RunKnows

LEMMA BeginWithdrawKnows ==
  ASSUME TypeOK, NEW s \in Syncs, RunKnows(s), BeginWithdraw(s)
  PROVE  RunKnows(s)'
<1>1. items' = items /\ source' = source /\ published' = published
  BY DEF BeginWithdraw
<1>2. syncs[s].pc = "upserting" /\ syncs[s].next = Len(syncs[s].feed) + 1
  BY DEF BeginWithdraw
<1>. QED
  BY <1>1, <1>2, BeginWithdrawRun DEF RunKnows

LEMMA WithdrawRowKnows ==
  ASSUME TypeOK, NEW s \in Syncs, NEW p \in Skus, RunKnows(s), WithdrawRow(s, p)
  PROVE  RunKnows(s)'
<1>1. /\ items' = items /\ source' = source /\ published' = published
      /\ p \in syncs[s].withdraw
  BY DEF WithdrawRow
<1>2. syncs[s].pc \in {"none", "upserting", "withdrawing"}
  BY DEF TypeOK, Run
<1>3. syncs[s].pc = "withdrawing"
  BY <1>1, <1>2, NoSyncType DEF RunKnows
<1>. QED
  BY <1>1, <1>3, WithdrawRowRun DEF RunKnows, Disjoint

LEMMA WaitKnows ==
  ASSUME TypeOK, NEW s \in Syncs, NEW p \in Skus, RunKnows(s), Wait(s, p)
  PROVE  RunKnows(s)'
<1>1. items' = items /\ source' = source /\ published' = published
  BY DEF Wait
<1>2. syncs[s].pc # "none"
  <2>1. ASSUME syncs[s].pc = "none"
        PROVE  syncs[s].withdraw = {} /\ ~Upserting(s)
    BY <2>1, NoSyncType DEF RunKnows, Upserting
  <2>. QED
    BY <2>1 DEF Wait, Needs
<1>. QED
  BY <1>1, <1>2, WaitRun DEF RunKnows, Disjoint

(* A run that has written its whole feed holds the rows of its products,   *)
(* and they are as the feed says; elsewhere it writes inactive rows.       *)
LEMMA WholeFeed ==
  ASSUME TypeOK, NEW s \in Syncs, RunKnows(s), syncs[s].pc = "withdrawing",
         NEW f, f = syncs[s].feed
  PROVE  /\ f \in published /\ f \in Feeds
         /\ \A n \in DOMAIN f : /\ f[n].sku \in Skus /\ f[n].sku \in syncs[s].held
                                /\ syncs[s].written[f[n].sku] = RowOf(f[n])
         /\ \A p \in Listed(f) : p \in syncs[s].held
         /\ \A p \in Skus \ Listed(f) :
              /\ syncs[s].written[p] = Inactive
              /\ items[p].active => p \in syncs[s].withdraw \cup syncs[s].held
                                   \/ Disjoint(source[p], f)
<1>1. /\ f \in Feeds /\ f \in published /\ syncs[s].next = Len(f) + 1
      /\ Len(f) \in Nat /\ DOMAIN f = 1..Len(f)
      /\ \A n \in DOMAIN f : f[n].sku \in Skus
  BY KnownFeed DEF RunKnows
<1>2. \A n \in DOMAIN f : n < syncs[s].next
  BY <1>1
<1>3. \A n \in DOMAIN f : f[n].sku \in syncs[s].held /\ syncs[s].written[f[n].sku] = RowOf(f[n])
  BY <1>2 DEF RunKnows
<1>4. \A p \in Skus \ Listed(f) :
        /\ syncs[s].written[p] = Inactive
        /\ items[p].active => p \in syncs[s].withdraw \cup syncs[s].held
                             \/ Disjoint(source[p], f)
  BY DEF RunKnows
<1>. QED
  BY <1>1, <1>3, <1>4 DEF Listed

(* What a commit makes of the rows: those it held are its feed's.          *)
LEMMA CommittedRows ==
  ASSUME TypeOK, NEW s \in Syncs, Commit(s), NEW p \in Skus
  PROVE  /\ p \in syncs[s].held =>
              items'[p] = syncs[s].written[p] /\ source'[p] = syncs[s].feed
         /\ p \notin syncs[s].held => items'[p] = items[p] /\ source'[p] = source[p]
  BY DEF Commit, Holds

(* Of two runs that withdraw, one may commit: they share no product, so    *)
(* the other has nothing to do with the rows that it leaves on sale.       *)
LEMMA CommitKnows ==
  ASSUME TypeOK, OneWriter, NEW s \in Syncs, NEW t \in Syncs \ {s}, RunKnows(s), RunKnows(t),
         Commit(s)
  PROVE  RunKnows(t)'
<1>1. syncs[s].pc = "withdrawing" /\ published' = published
  BY DEF Commit
<1>2. syncs'[t] = syncs[t]
  BY RunsType DEF SyncStep
<1>3. CASE syncs[t].pc # "withdrawing"
  BY <1>1, <1>2, <1>3 DEF RunKnows
<1>4. CASE syncs[t].pc = "withdrawing"
  <2>1. Disjoint(syncs[s].feed, syncs[t].feed)
    <3>1. \A p \in Listed(syncs[s].feed) : p \in syncs[s].held /\ p \in Skus
      BY <1>1, WholeFeed DEF Listed
    <3>2. \A p \in Listed(syncs[t].feed) : p \in syncs[t].held
      BY <1>4, WholeFeed
    <3>. QED
      BY <3>1, <3>2 DEF Disjoint, OneWriter, Holds
  <2>2. ASSUME NEW p \in Skus \ Listed(syncs[t].feed), items'[p].active
        PROVE  p \in syncs[t].withdraw \cup syncs[t].held \/ Disjoint(source'[p], syncs[t].feed)
    <3>1. CASE p \in syncs[s].held
      BY <2>1, <3>1, CommittedRows
    <3>2. CASE p \notin syncs[s].held
      <4>1. items[p].active /\ source'[p] = source[p]
        BY <2>2, <3>2, CommittedRows
      <4>. QED
        BY <1>4, <4>1, WholeFeed
    <3>. QED
      BY <3>1, <3>2
  <2>. QED
    BY <1>1, <1>2, <1>4, <2>2 DEF RunKnows, Disjoint
<1>. QED
  BY <1>3, <1>4

LEMMA RunKnowsStep ==
  ASSUME TypeOK, OneWriter, \A s \in Syncs : RunKnows(s), [Next]_vars
  PROVE  \A s \in Syncs : RunKnows(s)'
<1>1. ASSUME NEW s \in Syncs, Fetch(s) \/ SyncStep(s) \/ EndInDeadlock(s) \/ Fail(s)
      PROVE  \A t \in Syncs : RunKnows(t)'
  <2>1. RunKnows(s)'
    BY <1>1, FetchKnows, UpsertKnows, BeginWithdrawKnows, WithdrawRowKnows, WaitKnows, NoRunKnows, EndRun
       DEF SyncStep
  <2>2. ASSUME NEW t \in Syncs \ {s}
        PROVE  RunKnows(t)'
    <3>1. syncs'[t] = syncs[t]
      BY <1>1, RunsType
    <3>2. published' = published /\ ((items' = items /\ source' = source) \/ Commit(s))
      BY <1>1, RunFrame
    <3>. QED
      BY <3>1, <3>2, RunKept, CommitKnows
  <2>. QED
    BY <2>1, <2>2
<1>2. ASSUME UNCHANGED <<items, source, syncs>>, published \subseteq published'
      PROVE  \A t \in Syncs : RunKnows(t)'
  BY <1>2, RunKept
<1>3. CASE ChangeFeed
  BY <1>2, <1>3, OtherFrame
<1>4. ASSUME NEW q \in Quotes, priceLines(q) \/ RefuseBasket(q) \/ insert(q)
      PROVE  \A t \in Syncs : RunKnows(t)'
  <2>1. UNCHANGED <<items, source, syncs>> /\ published \subseteq published'
    BY <1>4, OtherFrame
  <2>. QED
    BY <1>2, <2>1
<1>5. CASE UNCHANGED vars
  <2>1. UNCHANGED <<items, source, syncs>> /\ published \subseteq published'
    BY <1>5, OtherFrame
  <2>. QED
    BY <1>2, <2>1
<1>. QED
  BY <1>1, <1>3, <1>4, <1>5 DEF Next

(* The rows that a commit leaves on sale are its feed's, or of feeds that  *)
(* have no product in common with it.                                      *)
LEMMA CommitLeaves ==
  ASSUME TypeOK, NEW s \in Syncs, RunKnows(s), Commit(s), NEW f, f = syncs[s].feed,
         NEW p \in Skus, items'[p].active
  PROVE  \/ source'[p] = f /\ f \in published /\ FromFeed(items'[p], p, f)
         \/ /\ items'[p] = items[p] /\ source'[p] = source[p]
            /\ Disjoint(source[p], f) /\ p \notin Listed(f)
<1>1. syncs[s].pc = "withdrawing" /\ syncs[s].withdraw = {}
  BY DEF Commit
<1>2. CASE p \in syncs[s].held
  <2>1. items'[p] = syncs[s].written[p] /\ source'[p] = f
    BY <1>2, CommittedRows
  <2>2. p \in Listed(f)
    BY <1>1, <2>1, WholeFeed DEF Inactive
  <2>3. PICK n \in DOMAIN f : f[n].sku = p
    BY <2>2 DEF Listed
  <2>4. items'[p] = RowOf(f[n]) /\ f \in published
    BY <1>1, <2>1, <2>3, WholeFeed
  <2>5. FromFeed(items'[p], p, f)
    BY <2>3, <2>4 DEF RowOf, Inactive, FromFeed
  <2>. QED
    BY <2>1, <2>4, <2>5
<1>3. CASE p \notin syncs[s].held
  <2>1. items'[p] = items[p] /\ source'[p] = source[p]
    BY <1>3, CommittedRows
  <2>2. p \notin Listed(f)
    BY <1>1, <1>3, WholeFeed
  <2>3. Disjoint(source[p], f)
    BY <1>1, <1>3, <2>1, <2>2, WholeFeed
  <2>. QED
    BY <2>1, <2>2, <2>3
<1>. QED
  BY <1>2, <1>3

LEMMA CommitMixes ==
  ASSUME TypeOK, FeedsNeverMix, NEW s \in Syncs, RunKnows(s), Commit(s)
  PROVE  FeedsNeverMix'
<1>. DEFINE f == syncs[s].feed
<1>1. published' = published
  BY DEF Commit
<1>2. ASSUME NEW p \in Skus, items'[p].active
      PROVE  source'[p] \in published /\ FromFeed(items'[p], p, source'[p])
  BY <1>2, CommitLeaves DEF FeedsNeverMix
<1>3. ASSUME NEW p \in Skus, NEW r \in Skus, items'[p].active, items'[r].active
      PROVE  Apart(source'[p], source'[r])
  <2>1. source'[p] = f \/ (/\ items'[p] = items[p] /\ source'[p] = source[p]
                           /\ Disjoint(source[p], f))
    BY <1>3, CommitLeaves
  <2>2. source'[r] = f \/ (/\ items'[r] = items[r] /\ source'[r] = source[r]
                           /\ Disjoint(source[r], f))
    BY <1>3, CommitLeaves
  <2>. HIDE DEF f
  <2>. QED
    BY <1>3, <2>1, <2>2 DEF FeedsNeverMix, Apart, Disjoint
<1>. QED
  BY <1>1, <1>2, <1>3 DEF FeedsNeverMix, FromFeed, Apart, Disjoint

(* The catalog after a commit is the feed of the run that commits, when    *)
(* all feeds are related.                                                  *)
LEMMA CommitShows ==
  ASSUME TypeOK, FeedsNeverMix, Related, NEW s \in Syncs, RunKnows(s), Commit(s),
         NEW f, f = syncs[s].feed
  PROVE  Shows(f)' /\ f \in published
<1>1. syncs[s].pc = "withdrawing"
  BY DEF Commit
<1>2. f \in published
  BY <1>1, WholeFeed
<1>3. ASSUME NEW n \in DOMAIN f
      PROVE  items'[f[n].sku] = RowOf(f[n])
  <2>1. /\ f[n].sku \in Skus /\ f[n].sku \in syncs[s].held
        /\ syncs[s].written[f[n].sku] = RowOf(f[n])
    BY <1>1, WholeFeed
  <2>. QED
    BY <2>1, CommittedRows
<1>4. ASSUME NEW p \in Skus \ Listed(f), items'[p].active
      PROVE  FALSE
  <2>1. ~FromFeed(items'[p], p, f)
    BY <1>4 DEF FromFeed, Listed
  <2>2. items'[p] = items[p] /\ Disjoint(source[p], f)
    BY <1>4, <2>1, CommitLeaves
  <2>3. source[p] \in published
    BY <1>4, <2>2 DEF FeedsNeverMix
  <2>. QED
    BY <1>2, <2>2, <2>3 DEF Related
<1>. QED
  BY <1>2, <1>3, <1>4 DEF Shows

LEMMA FeedStep ==
  ASSUME TypeOK, FeedsNeverMix, CatalogIsOneFeed, \A s \in Syncs : RunKnows(s), [Next]_vars
  PROVE  FeedsNeverMix' /\ CatalogIsOneFeed'
<1>1. ASSUME items' = items, source' = source, published \subseteq published'
      PROVE  FeedsNeverMix' /\ CatalogIsOneFeed'
  <2>1. FeedsNeverMix'
    BY <1>1 DEF FeedsNeverMix, FromFeed, Apart, Disjoint
  <2>2. ASSUME Related' PROVE Related
    BY <1>1, <2>2 DEF Related, Disjoint
  <2>3. CatalogIsOneFeed'
    BY <1>1, <2>2 DEF CatalogIsOneFeed, Shows
  <2>. QED
    BY <2>1, <2>3
<1>2. ASSUME NEW s \in Syncs, Fetch(s) \/ SyncStep(s) \/ EndInDeadlock(s) \/ Fail(s)
      PROVE  FeedsNeverMix' /\ CatalogIsOneFeed'
  <2>1. published' = published /\ ((items' = items /\ source' = source) \/ Commit(s))
    BY <1>2, RunFrame
  <2>2. CASE Commit(s)
    <3>1. Related' => Related
      BY <2>1 DEF Related, Disjoint
    <3>2. CatalogIsOneFeed'
      BY <2>1, <2>2, <3>1, CommitShows DEF CatalogIsOneFeed
    <3>. QED
      BY <2>2, <3>2, CommitMixes
  <2>. QED
    BY <1>1, <2>1, <2>2
<1>3. CASE ChangeFeed
  BY <1>1, <1>3, OtherFrame
<1>4. ASSUME NEW q \in Quotes, priceLines(q) \/ RefuseBasket(q) \/ insert(q)
      PROVE  FeedsNeverMix' /\ CatalogIsOneFeed'
  <2>1. items' = items /\ source' = source /\ published' = published
    BY <1>4, OtherFrame
  <2>. QED
    BY <1>1, <2>1
<1>5. CASE UNCHANGED vars
  <2>1. items' = items /\ source' = source /\ published' = published
    BY <1>5, OtherFrame
  <2>. QED
    BY <1>1, <2>1
<1>. QED
  BY <1>2, <1>3, <1>4, <1>5 DEF Next
-----------------------------------------------------------------------------
(* One statement reads one committed catalog, and so what it mixes.        *)
LEMMA LinesOfCatalog ==
  ASSUME TypeOK, FeedsNeverMix, NEW q \in Quotes, priceLines(q)
  PROVE  /\ \E src \in [DOMAIN quotes'[q].lines -> published] : LinesFrom(q, src)'
         /\ DOMAIN quotes'[q].lines \subseteq Basket[q]
<1>1. PICK P : P = {p \in Basket[q] : items[p].active}
  OBVIOUS
<1>2. /\ quotes'[q].lines = [p \in P |-> items[p]]
      /\ P \subseteq Skus /\ P \subseteq Basket[q]
      /\ \A p \in P : items[p].active
  BY <1>1, CatalogAssumption DEF priceLines, TypeOK, CatalogAssumption
<1>3. PICK src : src = [p \in P |-> source[p]]
  OBVIOUS
<1>4. src \in [P -> published]
  BY <1>2, <1>3 DEF FeedsNeverMix
<1>5. \A p \in P : FromFeed(quotes'[q].lines[p], p, src[p])
  BY <1>2, <1>3 DEF FeedsNeverMix
<1>6. \A p, r \in P : Apart(src[p], src[r])
  BY <1>2, <1>3 DEF FeedsNeverMix
<1>7. LinesFrom(q, src)'
  BY <1>3, <1>5, <1>6 DEF LinesFrom, FromFeed, Apart, Disjoint
<1>. QED
  BY <1>2, <1>4, <1>7

LEMMA QuoteKept ==
  ASSUME NEW q \in Quotes, QuoteKnows(q), quotes'[q] = quotes[q], published \subseteq published'
  PROVE  QuoteKnows(q)'
<1>1. PICK src \in [DOMAIN quotes[q].lines -> published] : LinesFrom(q, src)
  BY DEF QuoteKnows
<1>2. src \in [DOMAIN quotes'[q].lines -> published']
  OBVIOUS
<1>3. LinesFrom(q, src)'
  BY <1>1 DEF LinesFrom, FromFeed, Apart, Disjoint
<1>4. /\ DOMAIN quotes'[q].lines \subseteq Basket[q]
      /\ quotes'[q].state = "stored" => Missing(q)' = {} /\ InScope(q)'
  BY DEF QuoteKnows, Missing, InScope
<1>. QED
  BY <1>2, <1>3, <1>4 DEF QuoteKnows

LEMMA QuoteStep ==
  ASSUME TypeOK, FeedsNeverMix, \A q \in Quotes : QuoteKnows(q), [Next]_vars
  PROVE  \A q \in Quotes : QuoteKnows(q)'
<1>1. ASSUME UNCHANGED quotes, published \subseteq published'
      PROVE  \A q \in Quotes : QuoteKnows(q)'
  BY <1>1, QuoteKept
<1>2. ASSUME NEW s \in Syncs, Fetch(s) \/ SyncStep(s) \/ EndInDeadlock(s) \/ Fail(s)
      PROVE  \A q \in Quotes : QuoteKnows(q)'
  <2>1. UNCHANGED <<quotes, published>>
    BY <1>2, RunFrame
  <2>. QED
    BY <1>1, <2>1
<1>3. CASE ChangeFeed
  BY <1>1, <1>3, OtherFrame
<1>4. ASSUME NEW q \in Quotes, priceLines(q) \/ RefuseBasket(q) \/ insert(q)
      PROVE  \A r \in Quotes : QuoteKnows(r)'
  <2>1. published' = published /\ \A r \in Quotes \ {q} : quotes'[r] = quotes[r]
    BY <1>4 DEF TypeOK, priceLines, RefuseBasket, insert
  <2>2. CASE priceLines(q)
    <3>1. quotes'[q].state = "read"
      BY <2>2 DEF TypeOK, priceLines
    <3>. QED
      BY <2>1, <2>2, <3>1, LinesOfCatalog, QuoteKept DEF QuoteKnows
  <2>3. CASE RefuseBasket(q)
    <3>1. quotes'[q].state = "none" /\ DOMAIN quotes'[q].lines = {}
      BY <2>3 DEF TypeOK, RefuseBasket, NoQuote
    <3>2. QuoteKnows(q)'
      <4>1. PICK src : src = [p \in {} |-> published]
        OBVIOUS
      <4>2. src \in [DOMAIN quotes'[q].lines -> published'] /\ DOMAIN src = {}
        BY <3>1, <4>1
      <4>3. LinesFrom(q, src)'
        BY <4>2 DEF LinesFrom
      <4>. QED
        BY <3>1, <4>2, <4>3 DEF QuoteKnows
    <3>. QED
      BY <2>1, <3>2, QuoteKept
  <2>4. CASE insert(q)
    <3>1. quotes'[q].lines = quotes[q].lines /\ Missing(q) = {} /\ InScope(q)
      BY <2>4 DEF TypeOK, insert
    <3>2. QuoteKnows(q)'
      <4>1. PICK src \in [DOMAIN quotes[q].lines -> published] : LinesFrom(q, src)
        BY DEF QuoteKnows
      <4>2. src \in [DOMAIN quotes'[q].lines -> published']
        BY <2>1, <3>1
      <4>3. LinesFrom(q, src)'
        BY <3>1, <4>1 DEF LinesFrom, FromFeed, Apart, Disjoint
      <4>4. /\ DOMAIN quotes'[q].lines \subseteq Basket[q]
            /\ Missing(q)' = {} /\ InScope(q)'
        BY <3>1 DEF QuoteKnows, Missing, InScope
      <4>. QED
        BY <4>2, <4>3, <4>4 DEF QuoteKnows
    <3>. QED
      BY <2>1, <3>2, QuoteKept
  <2>. QED
    BY <1>4, <2>2, <2>3, <2>4
<1>5. CASE UNCHANGED vars
  <2>1. UNCHANGED <<quotes, published>>
    BY <1>5, OtherFrame
  <2>. QED
    BY <1>1, <2>1
<1>. QED
  BY <1>2, <1>3, <1>4, <1>5 DEF Next
-----------------------------------------------------------------------------
LEMMA CatalogInit == Init => CatalogInv
<1>. SUFFICES ASSUME Init
              PROVE  CatalogInv
  OBVIOUS
<1>. USE DEF Init
<1>1. NoQuote \in [state : {"none", "read", "stored"}, lines : Lines]
  <2>1. [p \in {} |-> Inactive] \in [{} -> Row] /\ {} \in SUBSET Skus
    OBVIOUS
  <2>. QED
    BY <2>1 DEF Lines, NoQuote
<1>2. items \in [Skus -> Row]
  BY DEF Row
<1>3. TypeOK
  BY <1>1, <1>2, NoSyncType, Bounds DEF TypeOK
<1>4. OneWriter
  BY NoSyncType DEF OneWriter, Holds
<1>5. FeedsNeverMix /\ CatalogIsOneFeed
  BY DEF FeedsNeverMix, CatalogIsOneFeed, Inactive
<1>6. \A s \in Syncs : RunKnows(s)
  BY NoSyncType DEF RunKnows, Listed
<1>7. ASSUME NEW q \in Quotes
      PROVE  QuoteKnows(q)
  <2>1. PICK src : src = [p \in {} |-> published]
    OBVIOUS
  <2>2. /\ quotes[q].state = "none" /\ DOMAIN quotes[q].lines = {}
        /\ src \in [DOMAIN quotes[q].lines -> published] /\ DOMAIN src = {}
    BY <2>1 DEF NoQuote
  <2>3. LinesFrom(q, src)
    BY <2>2 DEF LinesFrom
  <2>. QED
    BY <2>2, <2>3 DEF QuoteKnows
<1>. QED
  BY <1>3, <1>4, <1>5, <1>6, <1>7 DEF CatalogInv

(* Every reachable state satisfies the invariant the run Catalog checks.   *)
THEOREM CatalogIsKept == Spec => []CatalogInv
<1>1. CatalogInv /\ [Next]_vars => CatalogInv'
  BY TypeStep, OneWriterStep, RunKnowsStep, FeedStep, QuoteStep DEF CatalogInv
<1>. QED
  BY <1>1, CatalogInit, PTL DEF Spec

(* However many runs overlap, with whatever answers, the empty one among   *)
(* them: two products on sale together are of one answer, or of two that   *)
(* have no product in common.                                              *)
THEOREM CatalogNeverMixes == Spec => []FeedsNeverMix
<1>1. CatalogInv => FeedsNeverMix
  BY DEF CatalogInv
<1>. QED
  BY <1>1, CatalogIsKept, PTL

(* And as long as every two answers given so far share a product, the      *)
(* whole catalog is one of them.                                           *)
THEOREM CatalogIsOneAnswer == Spec => []CatalogIsOneFeed
<1>1. CatalogInv => CatalogIsOneFeed
  BY DEF CatalogInv
<1>. QED
  BY <1>1, CatalogIsKept, PTL

(* A stored quote mixes no more than the catalog does: two of its lines    *)
(* are of one answer, or of two that have no product in common.            *)
THEOREM QuotesAreNotMixed == Spec => []QuotesNeverMix
<1>1. CatalogInv => QuotesNeverMix
  <2>. SUFFICES ASSUME CatalogInv, NEW q \in Quotes, quotes[q].state = "stored"
                PROVE  /\ \E src \in [Basket[q] -> published] : LinesFrom(q, src)
                       /\ \A p \in Basket[q] : quotes[q].lines[p].category \in Scope
    BY DEF QuotesNeverMix
  <2>1. DOMAIN quotes[q].lines = Basket[q] /\ InScope(q)
    BY DEF CatalogInv, QuoteKnows, Missing
  <2>2. \E src \in [DOMAIN quotes[q].lines -> published] : LinesFrom(q, src)
    BY DEF CatalogInv, QuoteKnows
  <2>. QED
    BY <2>1, <2>2 DEF InScope
<1>. QED
  BY <1>1, CatalogIsKept, PTL
=============================================================================
