------------------------------ MODULE Catalog ------------------------------
(***************************************************************************)
(* The priced catalog: catalog-sync.job.ts, which pulls the merchant's own *)
(* products into catalog_items, and priceBasket of quote.service.ts, which *)
(* prices from it.  The worker's interval starts a run every 30 s whether  *)
(* the one before has ended or not, so runs overlap; each holds the feed   *)
(* it fetched before its transaction and writes it row by row at READ      *)
(* COMMITTED.  A product's text is abstracted to whether injectionIn finds *)
(* an instruction in it, and a price the table refuses is Malformed.       *)
(***************************************************************************)
EXTENDS Naturals, Sequences

CONSTANTS Skus, Prices, Categories, Malformed,
          Feeds,        \* what the merchant's endpoint may answer
          Scope,        \* the categories of the mandate, scope.categories
          Syncs,        \* the runs of syncCatalog that may be open at once
          Quotes,       \* calls of priceBasket
          Basket,       \* the SKUs each of them asks for
          MaxChanges,   \* bound on the changes of the endpoint's answer
          MaxFailures   \* bound on the runs that die or time out

Offer == [sku : Skus, price : Prices \cup {Malformed}, category : Categories,
          suspect : BOOLEAN]

(* A feed names a product once (_id); it may be empty, as an answer        *)
(* without "products" is, and share no product with another.               *)
CatalogAssumption ==
  /\ Malformed \notin Prices
  /\ Feeds \subseteq Seq(Offer)
  /\ \A f \in Feeds : \A m, n \in DOMAIN f : f[m].sku = f[n].sku => m = n
  /\ Basket \in [Quotes -> SUBSET Skus]
  /\ MaxChanges \in Nat /\ MaxFailures \in Nat
ASSUME CatalogAssumption

VARIABLES feed,       \* what the endpoint answers now
          published,  \* history: every answer it has had
          items,      \* catalog_items, committed: the rows that are active
          source,     \* history: the feed of the run that wrote each row
          syncs,      \* each run: where it is, the feed it fetched, its writes
          quotes,     \* each pricing: the lines it read, and whether it stored them
          changes, failures

vars == <<feed, published, items, source, syncs, quotes, changes, failures>>

(* A row that is not active reads as no row: search, priceLines and the    *)
(* withdrawal all say "AND active", and the upsert sets every column.      *)
Inactive == [active |-> FALSE]
Active(price, category) == [active |-> TRUE, price |-> price, category |-> category]

Listed(f) == {f[n].sku : n \in DOMAIN f}

(* Mutant: the text is not scanned. *)
RowOfUnscanned(o) == Active(o.price, o.category)

RowOf(o) == IF o.suspect THEN Inactive ELSE Active(o.price, o.category)

NoSync == [pc |-> "none", feed |-> << >>, next |-> 1, withdraw |-> {},
           held |-> {}, waits |-> {}, written |-> [p \in Skus |-> Inactive]]
NoQuote == [state |-> "none", lines |-> [p \in {} |-> Inactive]]

Init ==
  /\ feed \in Feeds
  /\ published = {feed}
  /\ items = [p \in Skus |-> Inactive]
  /\ source = [p \in Skus |-> << >>]
  /\ syncs = [s \in Syncs |-> NoSync]
  /\ quotes = [q \in Quotes |-> NoQuote]
  /\ changes = 0
  /\ failures = 0
-----------------------------------------------------------------------------
(* The merchant edits products, withdraws some, lists others. *)
ChangeFeed ==
  /\ changes < MaxChanges
  /\ \E f \in Feeds \ {feed} : feed' = f /\ published' = published \cup {f}
  /\ changes' = changes + 1
  /\ UNCHANGED <<items, source, syncs, quotes, failures>>

(* The answer is read before the transaction begins.  An endpoint that     *)
(* fails or takes longer than 8 s ends the run with nothing changed.       *)
Fetch(s) ==
  /\ syncs[s].pc = "none"
  /\ syncs' = [syncs EXCEPT ![s] = [NoSync EXCEPT !.pc = "upserting", !.feed = feed]]
  /\ UNCHANGED <<feed, published, items, source, quotes, changes, failures>>

Holds(s, p) == p \in syncs[s].held
HeldByOther(s, p) == \E t \in Syncs \ {s} : Holds(t, p)

(* A row another transaction wrote is waited for, a new one too: the       *)
(* primary key is (merchant_id, sku).  When its writer ends, those who     *)
(* wait for it have it before anybody who comes then.                      *)
Granted(s, p) ==
  /\ ~HeldByOther(s, p)
  /\ syncs[s].waits = {} => \A t \in Syncs \ {s} : p \notin syncs[t].waits
  /\ syncs[s].waits \subseteq {p}

Current(s) == syncs[s].feed[syncs[s].next]
Upserting(s) == /\ syncs[s].pc = "upserting"
                /\ syncs[s].next \in DOMAIN syncs[s].feed

(* Mutant: each row is committed as it is written. *)
UpsertCommitted(s) ==
  /\ Upserting(s)
  /\ Current(s).price # Malformed
  /\ items' = [items EXCEPT ![Current(s).sku] = RowOf(Current(s))]
  /\ source' = [source EXCEPT ![Current(s).sku] = syncs[s].feed]
  /\ syncs' = [syncs EXCEPT ![s].next = @ + 1]
  /\ UNCHANGED <<feed, published, quotes, changes, failures>>

(* INSERT ... ON CONFLICT DO UPDATE of the next product of the loop. *)
Upsert(s) ==
  /\ Upserting(s)
  /\ Current(s).price # Malformed
  /\ Granted(s, Current(s).sku)
  /\ LET run == syncs[s]
     IN  syncs' = [syncs EXCEPT ![s] = [run EXCEPT
           !.next = run.next + 1,
           !.waits = {},
           !.held = run.held \cup {Current(s).sku},
           !.written = [run.written EXCEPT ![Current(s).sku] = RowOf(Current(s))]]]
  /\ UNCHANGED <<feed, published, items, source, quotes, changes, failures>>

(* BigInt of a price that is no number throws, catalog_price_nonneg        *)
(* refuses a negative one: the whole run is rolled back.                   *)
Reject(s) ==
  /\ Upserting(s)
  /\ Current(s).price = Malformed
  /\ syncs' = [syncs EXCEPT ![s] = NoSync]
  /\ UNCHANGED <<feed, published, items, source, quotes, changes, failures>>

(* Mutant: what the feed no longer lists is left as it was. *)
BeginWithdrawNothing(s) ==
  /\ syncs[s].pc = "upserting"
  /\ syncs[s].next = Len(syncs[s].feed) + 1
  /\ syncs' = [syncs EXCEPT ![s].pc = "withdrawing"]
  /\ UNCHANGED <<feed, published, items, source, quotes, changes, failures>>

(* The UPDATE that withdraws: its snapshot is taken after the loop, ...    *)
BeginWithdraw(s) ==
  /\ syncs[s].pc = "upserting"
  /\ syncs[s].next = Len(syncs[s].feed) + 1
  /\ syncs' = [syncs EXCEPT ![s] = [@ EXCEPT
       !.pc = "withdrawing",
       !.withdraw = {p \in Skus \ Listed(syncs[s].feed) : items[p].active}]]
  /\ UNCHANGED <<feed, published, items, source, quotes, changes, failures>>

(* ... and a row it had to wait for is looked at again: "active" may no    *)
(* longer hold of it.  What it writes there is what `written' says of a    *)
(* product the feed does not list, Inactive.                               *)
WithdrawRow(s, p) ==
  /\ p \in syncs[s].withdraw
  /\ Granted(s, p)
  /\ LET run == syncs[s]
     IN  syncs' = [syncs EXCEPT ![s] = [run EXCEPT
           !.withdraw = run.withdraw \ {p},
           !.waits = {},
           !.held = run.held \cup {x \in {p} : items[x].active}]]
  /\ UNCHANGED <<feed, published, items, source, quotes, changes, failures>>

Commit(s) ==
  /\ syncs[s].pc = "withdrawing"
  /\ syncs[s].withdraw = {}
  /\ items' = [p \in Skus |-> IF Holds(s, p) THEN syncs[s].written[p] ELSE items[p]]
  /\ source' = [p \in Skus |-> IF Holds(s, p) THEN syncs[s].feed ELSE source[p]]
  /\ syncs' = [syncs EXCEPT ![s] = NoSync]
  /\ UNCHANGED <<feed, published, quotes, changes, failures>>
-----------------------------------------------------------------------------
Needs(s) == IF Upserting(s) THEN {Current(s).sku} ELSE syncs[s].withdraw

Wait(s, p) ==
  /\ p \in Needs(s) /\ HeldByOther(s, p)
  /\ syncs[s].waits = {}
  /\ syncs' = [syncs EXCEPT ![s].waits = {p}]
  /\ UNCHANGED <<feed, published, items, source, quotes, changes, failures>>

(* Two runs that write the same products in another order wait for each    *)
(* other; Postgres ends one of them.                                       *)
WaitsFor(s, t) == s # t /\ \E p \in syncs[s].waits : Holds(t, p)
Deadlocked(s) ==
  \E D \in SUBSET Syncs : s \in D /\ \A t \in D : \E u \in D : WaitsFor(t, u)

EndInDeadlock(s) ==
  /\ Deadlocked(s)
  /\ syncs' = [syncs EXCEPT ![s] = NoSync]
  /\ UNCHANGED <<feed, published, items, source, quotes, changes, failures>>

(* The worker dies, the connection is lost, a statement times out. *)
Fail(s) ==
  /\ failures < MaxFailures
  /\ syncs[s].pc # "none"
  /\ syncs' = [syncs EXCEPT ![s] = NoSync]
  /\ failures' = failures + 1
  /\ UNCHANGED <<feed, published, items, source, quotes, changes>>
-----------------------------------------------------------------------------
(* priceBasket up to priceLines, one SELECT for the whole basket. *)
priceLines(q) ==
  /\ quotes[q].state = "none"
  /\ quotes' = [quotes EXCEPT ![q] =
       [state |-> "read", lines |-> [p \in {p \in Basket[q] : items[p].active} |-> items[p]]]]
  /\ UNCHANGED <<feed, published, items, source, syncs, changes, failures>>

Missing(q) == Basket[q] \ DOMAIN quotes[q].lines
InScope(q) == \A p \in DOMAIN quotes[q].lines : quotes[q].lines[p].category \in Scope

(* UnknownSkuError, QuoteOutOfScopeError. *)
RefuseBasket(q) ==
  /\ quotes[q].state = "read"
  /\ Missing(q) # {} \/ ~InScope(q)
  /\ quotes' = [quotes EXCEPT ![q] = NoQuote]
  /\ UNCHANGED <<feed, published, items, source, syncs, changes, failures>>

(* The signed quote; nothing about the catalog is looked at again. *)
insert(q) ==
  /\ quotes[q].state = "read"
  /\ Missing(q) = {} /\ InScope(q)
  /\ quotes' = [quotes EXCEPT ![q].state = "stored"]
  /\ UNCHANGED <<feed, published, items, source, syncs, changes, failures>>
-----------------------------------------------------------------------------
SyncStep(s) ==
  \/ Upsert(s) \/ Reject(s) \/ BeginWithdraw(s) \/ Commit(s)
  \/ \E p \in Skus : WithdrawRow(s, p) \/ Wait(s, p)

Next ==
  \/ ChangeFeed
  \/ \E s \in Syncs : Fetch(s) \/ SyncStep(s) \/ EndInDeadlock(s) \/ Fail(s)
  \/ \E q \in Quotes : priceLines(q) \/ RefuseBasket(q) \/ insert(q)

Spec == Init /\ [][Next]_vars

(* The interval fires again, the endpoint answers in the end, Postgres     *)
(* finds a deadlock, and of those who wait for a row each has it some day. *)
Fairness ==
  \A s \in Syncs : /\ WF_vars(Fetch(s))
                   /\ SF_vars(SyncStep(s))
                   /\ WF_vars(EndInDeadlock(s))

FairSpec == Spec /\ Fairness
-----------------------------------------------------------------------------
Row == {Inactive} \cup [active : {TRUE}, price : Prices, category : Categories]

Lines == UNION {[P -> Row] : P \in SUBSET Skus}

Run == [pc : {"none", "upserting", "withdrawing"}, feed : Feeds \cup {<< >>},
        next : Nat, withdraw : SUBSET Skus, held : SUBSET Skus, waits : SUBSET Skus,
        written : [Skus -> Row]]

TypeOK ==
  /\ feed \in published
  /\ published \subseteq Feeds
  /\ items \in [Skus -> Row]
  /\ source \in [Skus -> Feeds \cup {<< >>}]
  /\ syncs \in [Syncs -> Run]
  /\ quotes \in [Quotes -> [state : {"none", "read", "stored"}, lines : Lines]]
  /\ changes \in 0..MaxChanges
  /\ failures \in 0..MaxFailures

(* A row has one writer. *)
OneWriter == \A s, t \in Syncs : \A p \in Skus : Holds(s, p) /\ Holds(t, p) => s = t

Disjoint(f, g) == Listed(f) \cap Listed(g) = {}

(* What a run has written is what its feed says; one that withdraws has    *)
(* written every row of it, and what else is on sale it still has to visit *)
(* or already holds, unless a run whose feed shares no product with its    *)
(* own committed that row after the snapshot.                              *)
RunKnows(s) ==
  LET run == syncs[s]
  IN  /\ run.pc = "none" => run = NoSync
      /\ run.pc # "none" => run.feed \in published /\ run.next \in 1..Len(run.feed) + 1
      /\ \A n \in DOMAIN run.feed : n < run.next =>
           run.feed[n].sku \in run.held /\ run.written[run.feed[n].sku] = RowOf(run.feed[n])
      /\ \A p \in Skus \ Listed(run.feed) : run.written[p] = Inactive
      /\ run.pc = "upserting" => run.withdraw = {}
      /\ run.pc = "withdrawing" =>
           /\ run.next = Len(run.feed) + 1
           /\ \A p \in Skus \ Listed(run.feed) :
                items[p].active =>
                  p \in run.withdraw \cup run.held \/ Disjoint(source[p], run.feed)

(* The row is what the feed f says of the product p. *)
FromFeed(row, p, f) ==
  \E n \in DOMAIN f : /\ f[n].sku = p
                      /\ ~f[n].suspect
                      /\ row = Active(f[n].price, f[n].category)

(* Two answers of which products may be on sale together.                  *)
Apart(f, g) == f = g \/ Disjoint(f, g)

(* Though runs overlap, carry feeds of different age, deadlock and die,    *)
(* every product on sale is as some answer of the merchant lists it, and   *)
(* two of them come from one answer or from two without a common product.  *)
(* So beside a product of a feed nothing is on sale that this feed         *)
(* quarantined or priced otherwise, and what it does not list only by an   *)
(* answer that lists nothing of it (catalog-sync.job.ts:86-140).           *)
FeedsNeverMix ==
  /\ \A p \in Skus : items[p].active =>
       source[p] \in published /\ FromFeed(items[p], p, source[p])
  /\ \A p, r \in Skus : items[p].active /\ items[r].active => Apart(source[p], source[r])

(* The catalog offers what the feed f does. *)
Shows(f) ==
  /\ \A n \in DOMAIN f : items[f[n].sku] = RowOf(f[n])
  /\ \A p \in Skus \ Listed(f) : ~items[p].active

(* While every two answers the merchant has given share some product, the  *)
(* catalog is all of one answer, quarantined products left out, or still   *)
(* empty.                                                                  *)
Related == \A f, g \in published : ~Disjoint(f, g)
CatalogIsOneFeed ==
  Related => \/ \A p \in Skus : ~items[p].active
             \/ \E f \in published : Shows(f)

(* The lines of a quote, each as an answer lists it, these answers apart.  *)
LinesFrom(q, src) ==
  /\ \A p \in DOMAIN src : FromFeed(quotes[q].lines[p], p, src[p])
  /\ \A p, r \in DOMAIN src : Apart(src[p], src[r])

(* A stored quote has a line, within the mandate's categories, for each    *)
(* product of its basket, and prices no two of them from answers that have *)
(* a product in common: never at the old price of one and the new price of *)
(* another that an edit changed together (quote.service.ts:90-113).        *)
QuotesNeverMix ==
  \A q \in Quotes : quotes[q].state = "stored" =>
    /\ \E src \in [Basket[q] -> published] : LinesFrom(q, src)
    /\ \A p \in Basket[q] : quotes[q].lines[p].category \in Scope

(* What a pricing read.                                                    *)
QuoteKnows(q) ==
  /\ \E src \in [DOMAIN quotes[q].lines -> published] : LinesFrom(q, src)
  /\ DOMAIN quotes[q].lines \subseteq Basket[q]
  /\ quotes[q].state = "stored" => Missing(q) = {} /\ InScope(q)

CatalogInv ==
  /\ TypeOK /\ OneWriter /\ FeedsNeverMix /\ CatalogIsOneFeed
  /\ \A s \in Syncs : RunKnows(s)
  /\ \A q \in Quotes : QuoteKnows(q)

(* Once the merchant stops editing, the catalog is what the merchant       *)
(* lists and stays so, unless a price of it cannot be stored: then no run  *)
(* ever commits.                                                           *)
WellFormed(f) == \A n \in DOMAIN f : f[n].price # Malformed
CatalogConverges == <>[](WellFormed(feed) => Shows(feed))
=============================================================================
