# A TLA+ model of the AgentKit payment kernel

AgentKit lets an AI agent propose a purchase and lets a kernel the agent cannot
reach decide it. These modules model that decision and what runs beside it:
the nineteen policy rules, the locked authorisation transaction, human
approval of a step-up, revocation, the background jobs that release money
nobody will spend, settlement (the calls to the payment rail, its webhooks,
reconciliation and refunds), the hash-chained ledger all of them append to, the
consent flow a mandate comes from, the catalog the quotes are priced from, and the
MCP door with its rate limiter. Paths below are relative to the repository's parent:
the repository is `src/`, so its own source directory is `src/src/`.

## The system

Four processes share one Postgres database and no memory: the **kernel** (HTTP
and MCP), the **executor** (the only holder of the payment credential), the
**worker** (intervals), the **web** pages. Every transaction runs at READ
COMMITTED (`src/src/shared/db/transaction.ts`), so what keeps two of them apart
is a row lock, a unique constraint, a guard in an UPDATE, or nothing.

| component | state | operations | interacts through | hard behaviour | what makes it correct |
|---|---|---|---|---|---|
| Policy engine | none: a fold over nineteen checks | `evaluate`, `fold` | called by `runLocked` and the replay server | order of rules, inclusive and strict bounds, a verifier that is down | the first failure decides; a limit is never put to a human; the verifier only subtracts; less money is never refused where more passes |
| Authorisation | `intent_nonces`, `quotes.consumed_by`, `reservations`, `challenges`, decisions | `authorize`, `approveStepUp` | row lock on `mandates`; calls the verifier and the executor | waits and retries at the lock, stale clock and stale challenge, collisions on rows of other mandates, crashes before the executor call | caps and velocity in every window; single-use nonce and quote; no decision on a dead mandate; an ALLOW is backed by a counted hold, or one that was spent |
| Mandate | `mandates` | `issue`, `revoke`, `recordAuthEvent` | the same row lock | a revocation while a decision is being made | nothing is decided after a revocation commits |
| Expiry and reaper jobs | the rows a tick scanned | `expireMandates`, `expireChallenges`, `releaseStaleReservations` | one transaction per scanned row, under the row lock | the scan is stale when its row is visited; ticks overlap; the worker dies between two rows | reaped is never executed; a lost execution does not hold the cap for ever; an expired challenge was never approved |
| Executor and rail | `orders`, `executions`, rail orders and payments | `execute`, claim, create, charge, `recordExecution`, refund | HTTP to the rail; HTTP from the kernel | a timed-out create that reached the rail, a crash between rail and database, adoption of a found order | one rail order per intent; captured means paid; an order ends |
| Reconciler and settlement jobs | `orders`, `webhook_events`, `reservations` | webhook `ingest`, `applyEvent`, `reconcileAmbiguous`, `compensateRevoked` | the jobs take the row lock, a webhook only its event claim | webhooks duplicated, late, reordered, before the order is known; snapshots read before a rail call | an event applies once; captured, told and refunded mean paid; every order gets a result |
| Ledger | hash chains, one per mandate and per merchant; anchors | `append`, operations entries, `verifyChain`, `verifyAndAnchor` | appended inside the callers' transactions, with the row lock or without | two appends to one head; an insert that waits for another's key; an anchor taken across snapshots | each chain is a log of whole transactions that opens with its issue; it verifies at every moment; an anchored head stays on it; an edit is seen |
| Consent and instrument | `consent_requests`, `pseudonym_map`, `auth_events`, the payment columns of `mandates` | `requestConsent`, `bindConsentRefs`, `sendOtp`, `verifyAndGrant`, `beginInstrumentSetup`, `completeInstrumentSetup` | five commits per grant, calls to the rail between a read and a write | the same code answered twice, a crash half way, a code sent again, a binding that arrives during a check, two set-ups at once | a mandate rests on an auth event of its own; goods go to the shopper a check saw; guesses are bounded; a closed request yields nothing; what is attached a bank confirmed |
| Fulfilment and orders | merchant orders | fulfil after capture, `cancel` | HTTP to the merchant after commit | lost after the commit, repeated | the merchant hears only of captures (not of every one: the call is made once) |
| Rate limiter | `rate_limit_buckets` | `consume` | one row per key, shared by the instances | transactions whose clock is older than the row they lock; refusals, failures; rows hidden by row level security | never more than a bucket and the time it spans; never refused for less |
| MCP surface | `mcp_sessions`, the quote cache of each process | `handleMcp`, sessions, tools | charges `consume`, then calls quote and authorise | batches of one session at several instances, a cache read before an await, restarts | nothing a tool writes was free; a quote is bought once, by its session |
| Quote and catalog | `quotes`, `catalog_items` | `priceBasket`, search, `syncCatalog` | the worker writes the catalog from the merchant's endpoint, the kernel prices from it, `authorize` reads the quote | runs of the sync that overlap, carry feeds of different age, deadlock or are rejected half way; a quote of another mandate, expiry | what is on sale together, and what one quote prices, is of one answer of the merchant or of answers without a common product, nothing quarantined in it; the catalog ends as the last answer; INV-14: a quote is spent by its own mandate |
| Identity, agents | keys | lookup | read by `authorize` | none here | an unknown key buys nothing |
| Verifier | none | one model call | before the transaction | time-outs | only the outcome matters to the kernel |
| Merchant, dashboard, console, web, services, crypto, adapter, SDKs | registry, pages, routes | reads | | none modelled | |

`PROJECT.json` lists each of them with its sources and status, and the hazards
with the line where each bites.

## Modules

**`Policy`** — `src/src/modules/policy/policy.service.ts` and
`src/src/shared/reason-codes.ts`. `Checks(f)` is the list of the nineteen rules
on the facts `f`, each a condition and the code it fails with; `Reason(f)` is
the code of the first that fails and `Verdict(f)` what the code means. Amounts
are paise. The text of what a rule observed is left out.

**`PolicyFold`** — `fold` as the loop it is: one check at a time, collecting
the evaluated ones, returning early on a failure. `FoldIsReason` says that it
returns what `Policy` says, so the other modules may use the operator.

**`Paise`** — `SUM(amount_paise)` over a set of rows. It is written as the
number of (row, paisa) pairs, which needs no recursion, so that facts about it
follow from the library's theorems on cardinality. `MCAuthorization` checks on
every run that it is the sum of the amounts.

**`Authorization`** — the tables the row lock protects, the calls in flight
and the jobs. State and code:

| variable | code |
|---|---|
| `clock` | `Date.now()` and `now()` of the database, one clock; a tick is a unit of every TTL and window |
| `mandates` | `mandates.state` |
| `lock` | who holds `SELECT ... FOR UPDATE` on the mandate's row |
| `nonces`, `quotes` | the intent that burned a nonce, that consumed a quote |
| `reservations`, `challenges` | the rows of those tables, keyed by intent (UNIQUE) |
| `allows` | how many ALLOW decisions the ledger holds for an intent |
| `ordered` | the intents with a row in `orders` |
| `pc`, `call`, `read` | a handler's position, its arguments (with the clock it read and the transaction's start), and what it read under the lock |
| `expiring`, `reaping` | rows a job scanned and has not visited |

| action | code |
|---|---|
| `Receive` | `authorize` up to the transaction: stateless checks and the verifier, on the clock read on entry |
| `LockMandate` | `lockMandate`, `burnNonce` and the reads of `runLocked` |
| `CommitDeny`, `CommitHold`, `CommitConflict` | the decision and its writes; a conflict rolls everything back |
| `UnknownMandate`, `RetryLock`, `GiveUpLock` | no row; the retries of `withAuthorizationTransaction`; SYS-003 |
| `BeginApproval`, `LockApproval`, `Approve`, `RefuseApproval` | `approveStepUp`: the read before the lock; the lock and `checkApproval`; the writes and the commit, before which settlement may still touch the hold; a refusal |
| `Settle` | the executor's claim of the order row |
| `Crash` | a process that dies, a transaction that is rolled back, a call that is lost |
| `Revoke`, `ExpireMandates` | the mandate service and the first half of `expire.job.ts` |
| `ScanChallenges`, `ExpireChallenge`, `ScanReservations`, `Reap`, `WorkerCrash` | the two jobs that scan first and visit afterwards |
| `captureReservation`, `releaseSettled` | what settlement writes to a reservation, at any time after the order exists |

**`Hold`** — the abstract specification between the two halves: a hold is
reserved once, an order may claim it, only a claimed hold is captured, a
released one stays released. Both `Settlement` and `Authorization` implement it
(`HoldSpec`, with the hold and the claim read off the tables of each).

**`Settlement`** — from a committed ALLOW to money that moved, or did not.

| variable | code |
|---|---|
| `orders`, `holds`, `refunds` | `orders` (state, rail order id, payment id), `reservations.state`, the intents with a row in `refunds` |
| `revoked`, `told`, `aged` | revoked mandates; intents the merchant recorded; orders older than `reconcileMaxAgeMs` |
| `claims` | `webhook_events` |
| `rail`, `asked`, `refunded`, `events`, `landing` | the rail: its orders by age, the ones somebody can pay, the returned payments, the events it emitted, the creates its client gave up on |
| `exec`, `hook`, `tick`, `comp` | where each call of `execute`, each delivery, each run of the two jobs is, with what it read from the rail or scanned |
| `calls`, `crashes` | counters of the two bounds |

| action | code |
|---|---|
| `Execute`, `Search`, `CreateOrder`, `ChargeToken`, `recordExecution` | the transactions and rail calls of `executor.service.ts` `execute`, in this order; a token is an instrument attached to the mandate |
| `UnknownOrder`, `ReceiveEvent`, `ApplyEvent`, `TellFromHook` | `ingestWebhook`: the event claim and the read of the rail, the rest of the transaction, the merchant after it |
| `ScanOrders`, `ReadRail`, `Adopt`, `Resolve`, `TellFromTick` | `reconcileAmbiguous`, one order of the scan after another |
| `ScanRevoked`, `AskRefund`, `CreateRefund`, `ReleaseRefunded` | `compensateRevoked` and the executor's `refund` |
| `CrashExecutor`, `CrashHook`, `CrashTick`, `CrashCompensator` | a process that dies; a job whose run throws; a `recordExecution` that fails and is logged |
| `OpenPayPage`, `Pay`, `LateCreate` | the pay page, a payment, a create that timed out at the client and lands |
| `Allow`, `Abandon`, `Revoke`, `Age` | the other half of the kernel, and a day that passes |

**`ChainLog`** — the abstract ledger: each chain is a sequence that grows by all
the entries of one transaction at a time and opens with what may open it.

**`Ledger`** — `src/src/modules/ledger/`, every caller of `append` (listed as
`Programs`: the row each locks, the entries it writes, whether it sets
`chain_head_seq`), `verify-anchor.job.ts`.

| variable | code |
|---|---|
| `ledger` | the committed rows of each chain; a hash is the history it stands for |
| `rows`, `marked` | the mandates and merchants that exist, their `chain_head_seq` |
| `lock`, `txn` | row locks; each open transaction: its program, the head it read, what it wrote |
| `job`, `anchors` | the run of `verifyAndAnchor`, the rows of `ledger_anchor` |

| action | code |
|---|---|
| `Begin`, `LockRow` | `withAuthorizationTransaction`; `SELECT ... FOR UPDATE` on the mandate or the merchant, by the programs that do so |
| `readHead`, `insertEntry`, `RejectEntry` | the two statements of `append`; an insert waits for a key another transaction wrote and fails on a committed one, which rolls its transaction back |
| `Commit`, `Rollback` | all entries at once, or none |
| `listChainIds`, `VerifyNext`, `ReadVerifiedHead`, `InsertAnchor`, `CrashJob` | `verifyAndAnchor`, a snapshot per statement |

**`RateLimit`** — `src/src/modules/ratelimit/ratelimit.service.ts`. `consume`,
`insertBucket`, `lockBucket`, `Admit` or `Refuse` are the statements of one
transaction, `FailClosed` its failure; `buckets` the rows with their merchant,
`holder` who inserted or locked one, `calls` the transactions with the time they
began and what they found available, `admitted` the history of starts let through.
One tick refills one unit and a token is several units, which is the numeric
column without its fractions.

**`Mcp`** — extends `RateLimit` by `src/src/modules/mcp/`. `sessions`, `quotes` and
`holds` are tables, `quoteCache` is memory of an instance, `requests` the HTTP requests
in progress.

| action | code |
|---|---|
| `handleMcp`, `Initialize`, `CallTool`, `Unauthenticated`, `Shutdown`, `Respond` | `handleMcp`, one entry of a batch after another: session, charge |
| `Allowed` in the tools, `Turned` | the answer of `consume`: go on, or the entry is refused or failed |
| `createSession`, `revokeSession`, `Expire` | the rows of `mcp_sessions` |
| `priceBasket`, `remember` | `get_quote`: the row, then the cache of this instance |
| `purchase`, `authorize`, `deny`, `TellVerdict`, `ToolFailed` | the `purchase` tool: the cached quote, the commit of `authorize`, the cache again |
| `Restart` | a process of the kernel dies: its requests, its cache and its transactions are gone |

**`Consent`** — `src/src/modules/consent/consent.service.ts` with `issue` and `revoke` of the
mandate service.

| variable | code |
|---|---|
| `requests` | `consent_requests`: state, whether a code was sent, has lapsed, its wrong answers, the merchant's ids, the mandate |
| `submissions` | calls of `verifyAndGrant` whose code was right: what they read and how far they are |
| `persons`, `events`, `mandates` | `pseudonym_map`, `auth_events`, `mandates`, by the submission that inserts them |
| `sent`, `wrong` | history: codes sent, wrong answers given |

| action | code |
|---|---|
| `requestConsent`, `bindConsentRefs`, `sendOtp`, `Lapse` | the request until it is decided |
| `AnswerExpired`, `AnswerWrong`, `AnswerRight` | the first transaction of `verifyAndGrant`, under the request's row lock |
| `insertPseudonym`, `recordAuthEvent`, `issue`, `finish` | its four later commits, on what the first one read |
| `CrashSubmission`, `revoke` | a death between two of them; a revocation |

**`Instrument`** — extends `Consent` by `instrument.service.ts`. A visit is one call of
`beginInstrumentSetup` (the `Begins`) or of `completeInstrumentSetup` (the `Completes`), each
named for its read; `MandateSetup` and `FindToken` are the calls to the rail through the
executor, `StoreCustomer` and `attachPaymentInstrument` the later writes, `BankConfirms` the
shopper at their bank.

**`Catalog`** — `src/src/modules/jobs/catalog-sync.job.ts` and the pricing half of
`src/src/modules/quote/`. A product's text is only whether `injectionIn` finds an
instruction in it; a price the table refuses is `Malformed`.

| variable | code |
|---|---|
| `feed`, `published` | what the merchant's endpoint answers now; history: every answer it has had |
| `items`, `source` | the committed rows of `catalog_items` (one that is not active reads as none); history: the feed of the run that wrote each |
| `syncs` | the runs of `syncCatalog` in flight: the feed fetched, the product the loop is at, the rows written and held, the row waited for, the rows the withdrawal has yet to visit |
| `quotes` | calls of `priceBasket`: the lines read, whether the quote was stored |

| action | code |
|---|---|
| `Fetch` | the request to the endpoint, before the transaction |
| `Upsert`, `Reject` | one product of the loop: `INSERT ... ON CONFLICT DO UPDATE`, which waits for another run's row or key, or a price that fails and rolls the run back |
| `BeginWithdraw`, `WithdrawRow`, `Commit` | the UPDATE that withdraws: its snapshot, then each row, looked at again once its holder is gone; COMMIT |
| `Wait` | a statement that needs a row or key of another run queues for it; who waits has it before who comes later |
| `EndInDeadlock`, `Fail` | Postgres ends one of two runs that wait for each other; a run that dies or times out |
| `priceLines`, `RefuseBasket`, `insert` | the one SELECT of a basket, the refusals, the stored quote |
| `ChangeFeed` | the merchant edits what it lists |

**`MCAuthorization`**, **`MCPolicyFold`**, **`MCSettlement`**, **`MCLedger`**, **`MCMcp`**,
**`MCConsent`**, **`MCCatalog`** — the instances. **`PolicyTheorems`**,
**`PolicyFoldTheorems`**, **`AuthorizationTheorems`** (with what it needs of sums of amounts),
**`SettlementTheorems`**, **`LedgerTheorems`**, **`McpTheorems`** (the limiter and the door),
**`ConsentTheorems`**, **`CatalogTheorems`** — the proofs.

What the model leaves out of these lines, on purpose:

- The reads of `runLocked` are separate statements at READ COMMITTED. What
  each reads can only change, while the lock is held, by a capture or a release,
  and by other mandates' use of a nonce, a quote or an intent id; so they are
  one step, a release afterwards is allowed, and a quote taken after it was read is
  the conflict of `WriteConflict`.
- An insert of a nonce that another open transaction has inserted waits for it.
  That wait is modelled at the lock: `LockMandate` needs both free.
- Ledger entries are projected to the ALLOW decisions on an intent. Two
  transactions that collide on the chain roll one back: that is `Crash`.
- The transaction begins in the tick in which the call arrived, because the
  verifier's time-out is shorter than a tick; each retry begins at its own time.
- Every quote presented exists in the table, and `payment_failed` stands for
  the other reasons with which settlement releases a hold.
- `revoke` is exported by the mandate service and called by the tests only; it is an
  action that may happen at any time.

And of settlement:

- The rail is external. Its client sees four outcomes of a create: an answer, a
  lost answer, no answer (with or without an order that appears later) and a
  refusal. It returns a payment at most once and never undoes one. A payment is
  named by its rail order. `Matches` is the page of `RECENT_ORDER_WINDOW` newest orders,
  made small; a list names no payment, so an order that was found and paid has none
  and cannot be refunded.
- A delivery that finds the same event in another's open transaction waits for it
  (`EventContended`); a read that fails rolls the claim back and changes nothing.
- The rail's order is read inside that transaction, but nothing is locked, so the
  read and the write are two steps.
- `compensateRevoked` handles one order per run; a run may stall between the scan
  and the refund as long as it likes, which is what a longer list would do.
  Nothing reads the state of a refund row, so only its existence is kept.
- Two first calls of `execute` that both find no order row collide on
  `intent_id UNIQUE`; the second fails, which is the call that was not made.
- `cancel` accepts an order in state AUTHORISED only, and no code path inserts one.
- Ledger entries of settlement are transactions of `Ledger`.

And of the others:

- SHA-256 is injective and a signature is valid. `verifyChain` walks the rows in
  order of their sequence numbers and compares each number with its index, which is
  that numbers are unique and none is missing.
- In `Ledger` a transaction locks no rows but the mandate's or the merchant's. The others it
  writes before it appends (orders, reservations, challenges) are locked in that same
  order by every program, so they add waits but no cycle.
- `expireChallenges` and `releaseStaleReservations` append the same entry under the same
  lock: one program, `Reaped`. `compensateRevoked` is `Reconciled`.
- `chain_head_seq` is written and never read by a decision (`marked`).
- A code is right or wrong; one that a later code replaced is wrong. The links that
  guard the screens (`authorization-token.ts`) are valid.
- A wrong or an expired answer is one transaction, so it needs no submission of its own.
- At the MCP door a session is its agent and its agent's mandate; the tools that only
  read are not modelled.
- The withdrawal of a catalog sync visits its rows in any order, as a plan may. The mandate's
  categories are constant while a basket is priced: no code changes them.
- A feed names a product once: the shop's `_id`.
- A refusal of an approval is one step, its lock and commit included: the release it makes has
  its own guard (`state = 'held'`), and nothing turns a failed check into a passed one.

## Runs

| run | what it asks | instance |
|---|---|---|
| `PolicyFold` | Does the loop return what the operator says; can a denial become a step-up; can the verifier grant; is an allowed amount allowed with less? | amounts, sums and counts below, at and above each bound, both ends of the validity interval, and every combination of the identity, scope and freshness facts |
| `Authorize` | Do the limits hold however purchases interleave? Checks the inductive invariant of the proofs, `ReadsStayValid` with it. | purchases of 2, 1 and 1 against a cap of 2 per two ticks and one per tick: each limit refuses pairs the other lets pass; two handlers, two attempts at the lock, a reservation TTL of one tick so that the reaper interferes |
| `StepUp` | Does a purchase that waits for a human stay safe while its mandate expires or is revoked, its hold is reaped and its challenge swept, and do its reservations implement `Hold`? | one intent with a replay and a second quote, two handlers so that two answers race, a mandate that ends at tick 3 of 5, both answers, payments captured and failed meanwhile |
| `SharedRows` | Do the constraints replace the lock where two mandates meet? | two mandates, two nonces, intents and quotes shared, requests that are refused at each stage, both a verifier that proceeds and one that is down |
| `ReaperLiveness` | Does a lost execution give its amount back? | one purchase, silent or escalated, that may crash anywhere |
| `Settlement` | What do captured, told and refunded mean when executor calls, deliveries and a compensator overlap? | one intent, two calls, two deliveries, one compensator, one crash |
| `Reconcile` | Do the reservations implement `Hold` while the reconciler works on a stale scan, and does every order get a result? | one intent, one call, two deliveries, the reconciler, one crash, a search window of one order |
| `Ledger` | Do the table's keys keep the chains logs where the row lock does not? Does an anchor taken across snapshots hold? Does every append end? | one mandate's chain and the merchant's, two open transactions and four in all, one program of each shape (`Shapes`), one anchor |
| `Mcp` | Does the limiter keep its promise in both directions as the handlers drive it, and do the tools' effects stay within their charges? | two requests, two sessions, two instances, three buckets of one or two tokens, four entries, one tick, one quote, two intents; restarts, expiry and failures anywhere |
| `Consent` | What does a grant leave behind when answers race, processes die and the merchant binds late? | one request, which comes with an address alone or with a shopper alone; one binding, of another address; two right answers, one wrong answer per code, two codes; two set-ups and a completion, two customers at the rail |
| `Catalog` | Which answers can overlapping runs of the sync leave on sale together, or one quote be priced from? Does the catalog end as what the merchant lists? | two runs, two products, six feeds (either order, other prices and categories, a quarantined product, a malformed price, two that share no product, an empty one), two changes of the feed, one failure, a basket of both products |
| `PaidTwice` | A statement the code does not keep. | two calls |

In settlement `MaxCalls` is two because nothing but two racing approvals calls
`execute` twice; `MaxCrashes` is one since a crash loses one run's memory and the
tables do not remember it; one intent is enough because no step reads two intents'
rows, except a search whose window another intent's rail order fills, which is a
search that finds nothing. Runs of the same kind are symmetric in `Settlement`.

In `Ledger` two open transactions are enough because an insert waits for one writer and
`OneWriter` says there is never a second. Chains do not interact except in the job, which
treats one after another. `MaxBegun` is four so that an issue, a decision and an unlocked
capture can follow each other while another is open. In `Mcp` a bucket of two
tokens has a last token two requests can race for, and one tick suffices for a clock older
than the row (time enters only as a difference; the proofs have no bound on it). In `Consent` a submission reads its
request once and writes it once, so two of them show every overlap; `MaxAttempts` is one where
the code has five. Two set-ups and a completion are the fewest in which the customer a completion
read is replaced before it attaches: one mandate gets a second customer when the request comes
to name it between them. Sessions, instances, callers, submissions and set-ups are symmetric.

In `Catalog` two runs are the fewest that overlap, and what a third could add is proved away: a row
has one writer (`OneWriter`). `MaxChanges` is two, so that a run may carry the oldest of three
answers while the newest is committed; `MaxFailures` is one because a failure leaves nothing
behind; a deadlock is not counted by it. Two of the feeds list the same products in opposite
orders, without which there is no deadlock; two products are enough for that, and for feeds that
share one, share none or are empty. Both products are in one basket, since only lines of
different products can be of different answers.

The bounds name themselves: `LastArrival` stops new calls, `MaxClock` the
clock, `RetryAttempts` is `LOCK_RETRY_ATTEMPTS` made small, and the sets of
requests are given in `MCAuthorization`. Two handlers are enough for every
race the code has: a lock excludes pairs, and a third caller waits like the
second. Clocks run past every TTL, window and validity bound of their run, so
each row becomes stale, expired and out of its window at least once.
`MaxInFlight` is an assumption and not just a bound: the time between the
reading of the clock and the last write of a call is limited by the lock,
statement and HTTP time-outs, all in seconds, where the TTLs are minutes.
`AllowNearValidity` and `ReapedNeverExecuted` depend on it. Processes are symmetric
in `Authorize` (`HandlerSymmetry`), and no liveness is checked there.

`Tick` is blocked while a call is at its limit; `Crash`, `GiveUpLock` and the other
handler steps remain enabled, so this never stops the model.

### Properties

- `FoldIsReason`, `PermissionOnlyShrinks`: the loop of the policy engine, and that its rules, the
  verifier and each limit only take permission away: no step-up hides a denial
  (`StepUpMeansNoDenial`), no verifier outcome grants (`VerifierOnlySubtracts`), less money is never
  refused where more passes (`AllowedIsDownwardClosed`).
- `CumulativeCap`, `VelocityCap`: INV-05 and LMT-003, for **every** window and not
  only the one that ends now. A call sums from its transaction's start, which
  may be older than the last insert it waited for; the sum then covers more.
- `ReadsStayValid` (a part of `IInv`): why one lock is enough. What a holder read errs on the
  safe side until it commits.
- `HoldIsBacked`: one nonce and exactly one quote behind each hold, and no quote
  consumed for nothing.
- `NoSpendAfterRevoke`, `AllowNearValidity`: the mandate's state is read under
  the lock and is exact; its term is compared with a clock read earlier and is
  exact up to the time in flight.
- `GrantsStayValid`: what `checkApproval` found under the lock still holds when the approval
  commits. The reaper, the sweep, a refusal, a revocation and an expiry wait for the row; settlement
  does not, so of the hold it says `Accounted`: it counts, or it was executed already and its
  payment failed. `AllowIsCounted`: no decision to ALLOW without such a hold. Without the second
  half it is false; see "Seen while modelling".
- `ReapedNeverExecuted`: the executor takes no lock and does not look at the
  reservation. Only time separates it from the reaper: a step-up must be
  answered before its challenge expires and the call must end, all before the hold is
  stale, so it holds while `TtlsApart`: `MaxInFlight <= ReservationTtl` and
  `ChallengeTtl + MaxInFlight <= ReservationTtl + 1` (the code has 5 and 15 minutes, and calls
  that end in seconds). `StepUp` sits on that bound.
- `UnexecutedResolved`: under the worker's intervals a hold without an order ends.

- `CapturedMeansPaid`, `ToldMeansPaid`, `RefundBacked`: each path that says so
  (webhook, reconciliation, adoption by a replayed call; the two that tell the merchant;
  the compensator) rests on an answer of the rail that may be old by the time
  it is written.
- `HoldSpec`: whatever settlement does to a reservation, in whatever order, is a step
  of `Hold`; and so is whatever authorisation, the reaper and the challenge sweep do
  (the property of the same name in `StepUp`).
- `OrderResolves`: every order without a result gets one, also when the executor
  overwrites one with SUBMITTED.
- `IInv`: the invariant from which these follow, with what each run knows of the
  rail (`RowsKnow`, `RunsKnow`). Two of its parts are statements of their own: `NoRowNoCall`,
  what the reaper relies on (no order row, no rail order and no call that may still land), and
  `EventAppliedOnce`, INV-15 for deliveries that overlap.

- `ChainsVerify`, `LogSpec`: INV-11 at every moment, and no entry of a transaction
  lost, split or out of place, though webhooks and the executor append without the lock.
- `HolderLosesOnlyToUnlocked`: what the lock still gives: a decision never collides with a
  decision.
- `AnchorsHold`: a head anchored from two snapshots is an entry of the chain for good.
- `EditsDetected`: an edited entry with a successor is seen even if its hash was
  recomputed. The last entry of a chain is not: only an anchor covers it.
- `EveryAppendEnds`: waiting for a key and for a row never form a cycle.
- `AdmittedWithin`, `RefusedOnlyWhenSpent`: the limit from both sides, for every run of
  requests of a key. A clock that reaches the row late makes `tokens` smaller, not wrong.
- `EffectsAreCharged`, `BoughtOnceByItsSession`: the door's own promises, whatever fails.
- `NeverRedirected`: a mandate, or a check on its way to one, that names a shopper has both delivery
  ids of its request for good ("a compromised merchant must not be able to change one"); one that
  names none has them until the merchant binds a shopper to the request. The two ids are independent
  (`SameRefs` looks at both).
- `GuessesBounded`: at most `MaxAttempts` wrong answers per code sent, however they race.
- `ClosedForGood`: a decided request with no grant on its way stays decided and yields no
  other mandate.
- `AttachedIsConfirmed`: though set-ups of the same mandate overtake a completion and replace the
  customer it read, the token of a mandate was confirmed for a customer of that mandate.

- `FeedsNeverMix`: what is on sale is as some answer lists it, and two products are of one answer
  or of two that have no product in common. So no interleaving of the runs puts a product that a
  feed quarantines, or prices otherwise, on sale beside the others of that feed.
- `QuotesNeverMix`: the same of the lines of one quote, all in scope. It needs that a basket is read
  in one statement.
- `CatalogIsOneFeed` (a part of `CatalogInv`): while every two answers given so far share a product, the
  whole catalog is one of them. Of answers that share none this is false; see "Seen while modelling".
- `CatalogConverges`: an answer that lasts is what the catalog shows in the end, although an older
  one may be committed after it; unless a price of it cannot be stored.
- `CatalogInv`: the invariant of the proofs, with the types.

### Fairness

`ReaperLiveness` runs `FairSpec`. `WF(Tick)`: time passes.
`WF(ScanReservations)`: `setInterval` in `src/src/services/worker/main.ts` keeps
firing and a tick that throws is caught. `WF(HandlerStep(h))`: a handler runs
its next statement or its time-out. `SF(Reap(i))`: a row lock's queue is served in
order, so a job that keeps asking gets its turn. A crash of the worker is not
fair and can happen only until `LastArrival`: a worker that dies for ever
releases nothing.

`Reconcile` runs `FairSpec` of `Settlement`: weak fairness of each run's own next
step (its rail calls have time-outs, its transactions too; the interval fires
again), and of `Age`, a day passes. Neither a payment, a delivery nor an answer of the
rail is fair: `OrderResolves` holds even if every read fails. Crashes are
bounded.

`Catalog` runs `FairSpec`. `WF(Fetch)`: the interval of 30 s fires again and the endpoint answers in
the end. `SF(SyncStep)`: a run executes its next statement, and one that waits for a row gets it
when its holder ends, since a row's queue is served before who comes later (`Granted`); who of
several waiters is next is left open, so weak fairness would let two runs overtake a third for ever.
`WF(EndInDeadlock)`: Postgres looks for a deadlock after `deadlock_timeout`. Neither a change of the feed, a failure nor a pricing is fair.

`Ledger` runs `FairSpec`: weak fairness of each transaction's next statement. Postgres
carries a statement out once nothing it waits for is left, and `lock_timeout` would only
end the wait earlier. A rollback is not fair.

## Findings

One is a run whose property quotes the repository and fails.

- `PaidTwice`: a second call of `execute` that meets SUBMITTING takes a failed
  search, or one that is too early, for the absence of an order, creates
  another and charges it.

### Seen while modelling

The models show these too; they are statements of comments, of which no run is kept.

- `approveStepUp` reads the challenge before the lock and ignores what
  `resolveChallenge` returns (authorization.service.ts:528-542). Two approvals in flight both
  decide ALLOW on a "single-use challenge" (authorization.repository.ts:262).
  The executor's unique order row keeps it to one order row, but see `PaidTwice`.
- Such a second approval may also commit on a hold that is gone: the first is executed, its payment
  fails, and the webhook releases the hold (reconciler.service.ts:135), which takes no lock on the
  mandate, between the second one's check (authorization.service.ts:535, :610) and its
  commit. The comment of that check: "Authorising now would spend against a cap that no longer counts
  it" (:611-612). The ledger then has an ALLOW on a released hold.
- `expireChallenges` updates challenges from an older scan without a guard on
  their state (expire.job.ts:67-71). An approval that slipped in between is overwritten and
  its hold released, while its payment goes on; :37 calls it "A step-up nobody approved."
- A second answer to an approved challenge is refused, and the refusal releases the hold of
  the purchase the first one approved (authorization.service.ts:544-552), which :545 calls
  "only ever a placeholder".
- `applyEvent` reads the rail in a transaction that locks neither the order nor the mandate and
  writes the state without looking at the current one (reconciler.service.ts:122-136). A delivery of
  `payment.failed` that read the rail before the payment commits after the delivery of
  `payment.captured` that read it later: the captured order becomes FAILED, its hold is released, and
  no job scans FAILED. 003_commerce.sql:77 has no such edge ("CAPTURED | FAILED").
- `ledger.service.ts:7-11` says the row lock keeps two appenders from reading one tail; the
  webhook (reconciler.service.ts:138, :151) and the executor (executor.service.ts:91, :318) append
  without it. The keys of the table then fail one of the two, and its whole transaction is
  rolled back: the record of a payment by the executor is then lost and logged.
- A right code answered again after its grant sets the request to 'expired'
  (consent.service.ts:207-212), so `consentStatus` says `granted: false` of a live mandate.
- "Five wrong codes and the request is dead" (009_consent.sql:20): every view of the screen
  sends another code and resets the count (`GuessesBounded` has the factor).
- `bindConsentRefs` may answer BOUND while a grant that read the request earlier issues a
  mandate without those ids. A request may carry an address and no shopper
  (consent.validation.ts:9-10), and the binding tests only the shopper (consent.service.ts:375-381):
  bound after a check, it loses the address which the mandate of that check keeps, although such a
  binding is "Only accepted before the grant exists".
- `bucket_key` is the whole primary key of `rate_limit_buckets` (007_execution.sql:44) and row level
  security (:83-87) hides other merchants' rows. Where two merchants share a caller key
  (`unattributed`, one address) the second one's insert conflicts with a row its select does not see,
  and it is refused for ever, the lockout that ratelimit.service.ts:59-62 sets out to avoid.
- Two overlapping runs of the catalog sync whose feeds have no product in common (one may be
  the empty list that `body.products ?? []` makes of an odd answer, catalog-sync.job.ts:78) wait for
  no common row. Neither sees what the other inserted (:86-140), so both sets of products, or one and
  a part of the other, stay on sale until a later run, and one basket may be priced from both.
- A price that is no number fails the whole run (catalog-sync.job.ts:120), so a quarantine or
  a withdrawal in the same feed does not take effect while it is listed.
- The demonstration shop says that a repeated delivery "must not get two orders"
  (storefront/backend/routes/fulfilRoute.js:36-38) and looks before it inserts, without a unique
  index: two deliveries at once both insert. It is outside the modelled system.

## Proofs

**Authorisation.** For every set of mandates, handlers and requests and every bound that satisfies
`Assumption` (intents are finite, the terms and the requests have the types of the
validated input, `None` is not one of them):

- `Invariance`: `Spec => []IInv`, with `TypeCorrect`, `ReadsValid`, `CapHolds` and
  `VelocityHolds` as corollaries;
- `GrantsValid`: `GrantsStayValid`, which the invariant contains; `RevocationHolds`,
  `AllowedIsCounted`, `ValidityHolds`: the action properties of the runs, from the invariant;
- `BackedHolds`: `HoldIsBacked`; `LargeSpendIsAsked`: no ALLOW above the silent threshold but by
  an approval (`LargeNeedsHuman`);
- `ReapedHolds`: `ReapedNeverExecuted`, for TTLs that are `TtlsApart`;
- `AuthorizationKeepsHolds`: `Spec => HoldSpec`, the refinement of the abstract hold, with the
  intents handed to the executor as the claims.

The argument. `CumulativeCap` is not inductive: the step that inserts a row
knows only a sum it read earlier. `ReadsStayValid` says the rows that
count now, in the window of that read, sum to no more; it is preserved because a row is
inserted only by the holder of the lock (`LocksHeld`: one holder per mandate),
and everyone else's writes only remove rows from the windows of a mandate. The new row
is the youngest of every window that contains it, so such a window, without the
row, lies within the one that was read; hence sum + amount, which the rule
compared with the cap, bounds it (`TotalAdd`, `TotalMonotone`). `RowsOwned` says that a counted row has a mandate, so that
inserting for one leaves another's windows alone. `NotDeniedPasses` of
`PolicyTheorems` gives the facts the rules have established when the verdict is
not DENY: the mandate is live, the sum and the count are within bounds, the
term has not ended on the call's clock. `InFlight` bounds the distance of that
clock from the real one. `AllowPasses` gives all rules for an ALLOW, the threshold too.

`GrantsStayValid` is inductive with `LocksHeld`: a handler that is granting holds the mandate's row,
so a revocation, an expiry, a job or a refusal waits for it (`GrantingStep`), and its reservation
keeps its mandate (`GrantedRow`). What is left is settlement, which writes to a hold only when
its intent is in `ordered`; a row that was released is final. An ALLOW is committed by `CommitHold`,
with the hold, or by `Approve`, from a state of which this invariant speaks.

`HoldIsBacked` is inductive with one more fact: the checks that need no row were made on the
presented quote (`StatelessKept`), so the mandate and the amount of a row are the quote's. A second
hold cannot have the nonce, because `ReadsStayValid` keeps what the lock's holder read of it, nor
the quote, because the insert and the consumption are one commit (`WriteConflict`).

`ReapedNeverExecuted` compares two clocks. `ReapInv` says that what the reaper holds or has taken is
stale (`TooLateToExecute`), and that a call about to execute ends before its hold can be
(`SettlesInTime`), since the hold is as young as the call or as the challenge it answers in time
(`ChallengesOnHolds`). A row never gets younger, so stale is for good. Without `TtlsApart` it is
false: the hypothesis is what the code relies on without saying so.

**Policy.** For every set of facts of the validated types (`FactSetAssumption`): `FoldIsKept`
(`FoldInv`: the trace is the table of rules up to some rule, all before it passed, and an outcome is
the operator's), hence `FoldIsReasonHolds`, that the loop which returns early answers what
`Reason` says, and `PermissionOnlyShrinksHolds`. So the theorems about authorisation,
which evaluates the operator, are about the loop.

**Rate limiter and MCP door.** For every set of merchants, keys, requests and instances, any
bucket sizes with a token no larger than its bucket, and no bound on time (`RateLimitAssumption`,
`McpAssumption`: the three kinds the door charges have buckets):

- `LimitIsKept`: the limiter's `Spec => []LimitInv`; `McpIsKept`: the same with the door driving it,
  `McpSpec => []McpInv`;
- `AdmittedWithinHolds`, `RefusedOnlyWhenSpentHolds`: the limit from both sides;
- `EffectsAreChargedHolds`, `BoughtOnceHolds`: the door's promises.

The argument. `tokens` is only a number, and the promise is about all runs of requests of the past;
`BucketIsLog` ties the two. A bucket holds what a full one is left with after the admitted requests
since some point, and no more than for any other point: the minimum, as an upper and a
lower bound, which a refill and a spent token both preserve. The upper one gives `AdmittedWithin`; the
lower one names the run of requests that justifies a refusal. `HeldIsRead` says that who is about to write has
the row and has read what it holds. The door's effects cannot be counted against the log
directly, since a request is charged long before it has an effect: `PaidInAdvance` counts both the
effects and the requests that may still have one, and every step moves at most one
from the second set into the first. `CallsAsked` says whose charge a call is; `QuotesKnown` that a cached
quote is its session's and that no two requests have one intent.

**Settlement.** For every set of intents, of executor calls, deliveries, reconciler and
compensator runs, every search window and every bound (`Assumption`: each intent has
a mandate, the window and the bounds are naturals, `None` is no intent):

- `SettlementInvariance`: `Spec => []IInv`, with `CapturedIsPaid`, `ToldIsPaid`,
  `ClaimedBeforeCalled`, `EventsAppliedOnce` and `RefundsAreBacked` as corollaries;
- `SettlementKeepsHolds`: `Spec => HoldSpec`, the refinement of the abstract hold,
  with the order rows as the claims.

The argument. Every run acts on what it read before its last transaction, so no property
of the tables is inductive without what the runs remember (`ExecKnows`, `HookKnows`,
`TickKnows`, `CompKnows`) and what the rows say of the rail (`RowsKnow`). Those
facts survive everyone else's steps because each is of a kind that is never
undone: `Better` lists them (a rail order keeps its intent and its payment, an order
row stays, revocations, refunds and events stay) and `BetterStep` proves it of every
step. The `...Frame` lemmas then say that a run that does not move knows what it knew,
the `...Write` lemmas that only the run that moves has to be looked at. A rail
id belongs to the intent it was found for (`FoundIsOurs`), so "paid", whoever reads it, is
a payment of that intent. For the refinement, a capture or a release is of an order
with a row: a delivery finds its intent by a rail order, and `NoRowNoCall` says that
order's intent has one (`WritersClaimed`).

**Ledger.** For every set of mandates, merchants, transactions and programs and every bound
(`Assumption`):

- `LedgerIsKept`: `Spec => []IInv`; `LedgerVerifies`, `LedgerShowsEdits`, `AnchorsAreCommitted`
  and `HoldersLoseOnlyToUnlocked` from it;
- `LedgerImplementsLogs`: `Spec => LogSpec`, the refinement of `ChainLog`.

The argument. A transaction appends at a head it read earlier, so a row is right only as long as
that head is the last one. `PendingChained` and `HeadWasRead` say what an open transaction
knows: what it wrote continues the committed chain by the entries it has not left to write, and its
head was an entry. An insert that gets its key excludes every other writer of the chain
until it ends (`OneWriter`), since another one either waits for that key or collides with it. A
chain's numbers then have no gaps, so a commit adds whole suffixes, which is the step of `ChainLog`,
and `verifyChain` finds each link. `RowsHeld` keeps two holders of a row off one chain, so a
collision names a program that locks nothing; `HeadsCommitted` is what the job carries.

**Consent and instrument.** For every set of requests, submissions, merchant's ids, referrals, bindings,
set-ups and completions and every bound (`ConsentAssumption`: a binding has both ids, a referral
either or none; `InstrumentAssumption`: `None` is no customer):

- `ConsentIsKept`: `ConsentInv` of the consent flow alone; `InstrumentIsKept`: `Spec => []IInv`
  with the set-up of the instrument on top;
- `GuessesAreBounded`, `GrantsAreNotRedirected`, `AttachmentsAreConfirmed`, `DecisionsAreFinal`.

The argument. A submission acts on a request it read four commits ago. `CountedAttempts` ties the
attempts of a request to the codes sent; `GrantInOrder` says how far a submission's rows have got,
one per commit, so a mandate rests on its own auth event; `NeverRedirected` holds because a
binding changes only a request without a shopper, after which whoever read it earlier names none and
the request does. A visit
remembers a customer that the rail created for its mandate, and a token is found for that
customer; the column may by then name another, of the same mandate.

**Catalog.** For every set of products, feeds (empty and disjoint ones included), runs, quotes and
every bound (`CatalogAssumption`: a feed names a product once):

- `CatalogIsKept`: `Spec => []CatalogInv`; from it `CatalogNeverMixes` (`FeedsNeverMix`),
  `QuotesAreNotMixed` (`QuotesNeverMix`) and `CatalogIsOneAnswer` (`CatalogIsOneFeed`).

The argument. A run that withdraws has written its whole feed and holds those rows (`WholeFeed`), and
a row has one writer (`OneWriter`). So a run that commits meanwhile has no row of that feed: the two
share no product (`CommitKnows`). What a committing run does not hold it therefore knew at its
snapshot, and withdrew, or another run of a disjoint feed put it on sale since (`RunKnows`), which is
`FeedsNeverMix`. While all answers share a product the second cannot be, and the commit leaves one
answer. What a basket read was one committed state.

Every safety property of the passing runs, invariants, action properties and both refinements, is
proved. Only model-checked: the liveness properties (`UnexecutedResolved`, `OrderResolves`,
`EveryAppendEnds`, `CatalogConverges`), because fairness and ENABLED are outside the prover;
and the violation in `PaidTwice`, which is a behaviour. `Assumption`s are evaluated by TLC in each
run.

## Plan

1. *(done)* `Policy`, `PolicyFold`; `Paise`, `Authorization`; their proofs.
2. *(done)* `Hold`, `Settlement`; the proofs of its invariant and of its refinement of
   `Hold`.
3. *(done)* `ChainLog`, `Ledger`: appends with and without the row lock implement an append-only
   log; the anchor; their proofs.
4. *(done)* `Consent`, `Instrument`: the code, the grant in its commits, binding, the
   instrument; their proofs.
5. *(done)* `RateLimit`, `Mcp`: the bucket against the rate it promises, the door's charges.
6. *(done)* `Catalog`: the sync, pricing from what it leaves; their proofs.
7. *(done)* The proofs of the limiter and the door, of the loop of the policy engine, of
   `HoldIsBacked` and `ReapedNeverExecuted`; `Authorization` implements `Hold`.
8. To come: a second compensator; two intents and a window of one; the rotation of keys; from the
   proved invariants, what they say of the two halves together (an order that is captured was allowed).

Not modelled and not planned: hashing and signatures (a signature is valid or
not), pages, routing, the arithmetic of a basket, catalog search, SDKs, the adapter and the
demonstration shop; they keep no state the properties speak of, or are reads. Row level security
is modelled where rows of two merchants meet, in the rate limiter.
