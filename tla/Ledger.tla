------------------------------- MODULE Ledger -------------------------------
(***************************************************************************)
(* The hash chains of the ledger, one per mandate and one per merchant,    *)
(* and the job that anchors their heads.                                   *)
(*                                                                         *)
(* Every service appends inside a transaction of its own.  At READ         *)
(* COMMITTED a statement sees what is committed and what its transaction   *)
(* wrote; reading the head and inserting the next entry are two            *)
(* statements.  Some transactions hold the row of the mandate or the       *)
(* merchant meanwhile, the webhook and the executor do not: those are kept *)
(* apart by the two keys of the table.  An INSERT whose key another open   *)
(* transaction wrote waits for it; one whose key is committed fails and    *)
(* takes its transaction with it.                                          *)
(***************************************************************************)
EXTENDS Integers, Sequences, FiniteSets

CONSTANTS
  Mandates, Merchants,   \* chain ids: the rows the chains belong to
  Txns,                  \* transactions open at one time
  Running,               \* the programs that run
  MaxBegun,              \* transactions begun in all
  MaxAnchors,            \* runs of the anchor job that insert a row
  None

Chains == Mandates \cup Merchants
-----------------------------------------------------------------------------
(* The transactions that append: the row they lock, the kinds they append  *)
(* in order, and whether they set chain_head_seq.                          *)
Program(on, mode, kinds, marks) ==
  [on |-> on, mode |-> mode, kinds |-> kinds, marks |-> marks]

Issue       == Program("mandate", "create", <<"MANDATE_ISSUED">>, TRUE)
Hold        == Program("mandate", "lock", <<"INTENT", "DECISION", "RESERVATION">>, TRUE)
Deny        == Program("mandate", "lock", <<"INTENT", "DECISION">>, TRUE)
Approval    == Program("mandate", "lock", <<"DECISION">>, TRUE)
Revocation  == Program("mandate", "lock", <<"DECISION">>, TRUE)
Executed    == Program("mandate", "none", <<"API_CALL">>, FALSE)
Refused     == Program("mandate", "lock", <<"API_CALL", "RELEASE">>, FALSE)
RefusedLate == Program("mandate", "lock", <<"API_CALL">>, FALSE)
Captured    == Program("mandate", "none", <<"WEBHOOK", "EXECUTION_RESULT">>, FALSE)
Failed      == Program("mandate", "none", <<"WEBHOOK", "RELEASE">>, FALSE)
Refunded    == Program("mandate", "none", <<"REFUND">>, FALSE)
Reaped      == Program("mandate", "lock", <<"RELEASE">>, FALSE)
Cancelled   == Program("mandate", "lock", <<"RELEASE">>, FALSE)
Reconciled  == Program("mandate", "lock", <<"RECONCILE">>, FALSE)
Attached    == Program("mandate", "lock", <<"MANDATE_ISSUED">>, FALSE)
Operations  == Program("merchant", "lock", <<"DECISION">>, TRUE)
Impersonate == Program("merchant", "lock", <<"API_CALL">>, TRUE)

Programs == {Issue, Hold, Deny, Approval, Revocation, Executed, Refused,
             RefusedLate, Captured, Failed, Refunded, Reaped, Cancelled, Reconciled,
             Attached, Operations, Impersonate}

Kinds == {"MANDATE_ISSUED", "INTENT", "DECISION", "RESERVATION", "API_CALL",
          "WEBHOOK", "EXECUTION_RESULT", "RELEASE", "RECONCILE", "REFUND"}

ASSUME LedgerAssumption ==
  /\ Mandates \cap Merchants = {}
  /\ Running \subseteq Programs
  /\ MaxBegun \in Nat /\ MaxAnchors \in Nat
  /\ None \notin Txns \cup Chains
-----------------------------------------------------------------------------
VARIABLES
  ledger,    \* committed rows, by chain
  rows,      \* the mandates and merchants that exist
  marked,    \* chain_head_seq of their rows; -1 is NULL
  lock,      \* who holds a row FOR UPDATE
  txn,       \* the open transactions
  begun,
  job,       \* the run of the anchor job
  anchors    \* ledger_anchor.chain_heads

vars == <<ledger, rows, marked, lock, txn, begun, job, anchors>>

(* SHA-256 of the previous hash and the payload: equal only for equal      *)
(* arguments, so the history of kinds stands for it.  The sequence number  *)
(* in the payload is the length of that history.                           *)
GENESIS_PREV_HASH == <<>>
chainHash(prev, kind) == Append(prev, kind)

Row(seq, prev, kind) ==
  [seq |-> seq, prev |-> prev, hash |-> chainHash(prev, kind), kind |-> kind]

NoTip == [seq |-> -1, hash |-> GENESIS_PREV_HASH]

(* ORDER BY seq DESC LIMIT 1 *)
Tip(rs) ==
  IF rs = {} THEN NoTip
  ELSE LET r == CHOOSE r \in rs : \A s \in rs : s.seq <= r.seq
       IN  [seq |-> r.seq, hash |-> r.hash]

(* Mutant: each hash is derived from the entry's own prev_hash only. *)
verifyHashes(rs) == \A r \in rs : r.hash = chainHash(r.prev, r.kind)
(* INV-11: walk the entries in sequence order and derive every hash again. *)
(* Each entry sits at its own index exactly when no two share a sequence   *)
(* number and none below one is missing.                                   *)
verifyChain(rs) ==
  /\ \A r, s \in rs : r.seq = s.seq => r = s
  /\ \A r \in rs :
       /\ r.hash = chainHash(r.prev, r.kind)
       /\ IF r.seq = 0 THEN r.prev = GENESIS_PREV_HASH
          ELSE \E s \in rs : s.seq = r.seq - 1 /\ s.hash = r.prev

Idle == [pc |-> "idle", program |-> Issue, chain |-> None, head |-> NoTip,
         left |-> <<>>, written |-> {}]
Rest == [pc |-> "idle", left |-> {}, chain |-> None, heads |-> {}]

Init ==
  /\ ledger = [c \in Chains |-> {}]
  /\ rows = Merchants
  /\ marked = [c \in Chains |-> -1]
  /\ lock = [c \in Chains |-> None]
  /\ txn = [t \in Txns |-> Idle]
  /\ begun = 0
  /\ job = Rest
  /\ anchors = {}
-----------------------------------------------------------------------------
Open(t) == txn[t].pc # "idle"

(* A mandate's id is fresh, so nobody else creates its row. *)
MayStart(p, c) ==
  CASE p.on = "merchant"    -> c \in Merchants
    [] p.mode = "create"    -> /\ c \in Mandates \ rows
                               /\ \A u \in Txns : txn[u].chain # c
    [] OTHER                -> c \in Mandates \cap rows

Begin(t, p, c) ==
  /\ txn[t].pc = "idle"
  /\ begun < MaxBegun
  /\ MayStart(p, c)
  /\ txn' = [txn EXCEPT ![t] =
       [pc |-> IF p.mode = "lock" THEN "lock" ELSE "read", program |-> p,
        chain |-> c, head |-> NoTip, left |-> p.kinds, written |-> {}]]
  /\ begun' = begun + 1
  /\ UNCHANGED <<ledger, rows, marked, lock, job, anchors>>

(* Mutant: SELECT without FOR UPDATE. *)
SelectRow(t) ==
  /\ txn[t].pc = "lock"
  /\ txn' = [txn EXCEPT ![t].pc = "read"]
  /\ UNCHANGED <<ledger, rows, marked, lock, begun, job, anchors>>
(* SELECT ... FOR UPDATE, lockMandate, lockForRevoke, lockMerchant, or the *)
(* UPDATE of the mandate's row.                                            *)
LockRow(t) ==
  /\ txn[t].pc = "lock"
  /\ lock[txn[t].chain] = None
  /\ lock' = [lock EXCEPT ![txn[t].chain] = t]
  /\ txn' = [txn EXCEPT ![t].pc = "read"]
  /\ UNCHANGED <<ledger, rows, marked, begun, job, anchors>>

readHead(t) ==
  /\ txn[t].pc = "read"
  /\ txn' = [txn EXCEPT ![t] =
       [@ EXCEPT !.pc = "insert",
                 !.head = Tip(ledger[txn[t].chain] \cup txn[t].written)]]
  /\ UNCHANGED <<ledger, rows, marked, lock, begun, job, anchors>>

NextRow(t) == Row(txn[t].head.seq + 1, txn[t].head.hash, Head(txn[t].left))

(* Mutant: the table without its two keys. *)
CollideNever(r, rs) == FALSE
(* PRIMARY KEY (chain_id, seq), UNIQUE (chain_id, prev_hash) *)
Collide(r, rs) == \E s \in rs : s.seq = r.seq \/ s.prev = r.prev

(* Mutant: a key another transaction has not committed is no obstacle. *)
WaitsNever(t) == FALSE
(* Mutant: an append waits until it is the only one open on the chain. *)
WaitsForAll(t) == \E u \in Txns \ {t} : txn[u].chain = txn[t].chain
Waits(t) ==
  \E u \in Txns \ {t} :
    /\ txn[u].chain = txn[t].chain
    /\ Collide(NextRow(t), txn[u].written)

Taken(t) == Collide(NextRow(t), ledger[txn[t].chain] \cup txn[t].written)

(* Mutant: only the first entry of a transaction is written. *)
insertFirstEntry(t) ==
  /\ txn[t].pc = "insert"
  /\ ~Waits(t) /\ ~Taken(t)
  /\ txn' = [txn EXCEPT ![t] =
       [@ EXCEPT !.written = txn[t].written \cup {NextRow(t)}, !.left = <<>>,
                 !.pc = "commit"]]
  /\ UNCHANGED <<ledger, rows, marked, lock, begun, job, anchors>>
insertEntry(t) ==
  /\ txn[t].pc = "insert"
  /\ ~Waits(t) /\ ~Taken(t)
  /\ txn' = [txn EXCEPT ![t] =
       [@ EXCEPT !.written = txn[t].written \cup {NextRow(t)},
                 !.left = Tail(txn[t].left),
                 !.pc = IF Len(txn[t].left) = 1 THEN "commit" ELSE "read"]]
  /\ UNCHANGED <<ledger, rows, marked, lock, begun, job, anchors>>

Unlocked(t) == [c \in Chains |-> IF lock[c] = t THEN None ELSE lock[c]]

Rollback(t) ==
  /\ Open(t)
  /\ txn' = [txn EXCEPT ![t] = Idle]
  /\ lock' = Unlocked(t)
  /\ UNCHANGED <<ledger, rows, marked, begun, job, anchors>>

(* The key is taken: the error rolls the transaction back, and no caller   *)
(* tries it again.                                                         *)
RejectEntry(t) ==
  /\ txn[t].pc = "insert"
  /\ ~Waits(t) /\ Taken(t)
  /\ Rollback(t)

(* The writer sets chain_head_seq to the last entry it appended, where it  *)
(* does so at all.                                                         *)
Commit(t) ==
  LET c == txn[t].chain
      w == txn[t].written
  IN  /\ txn[t].pc = "commit"
      /\ ledger' = [ledger EXCEPT ![c] = @ \cup w]
      /\ rows' = rows \cup {c}
      /\ marked' = IF txn[t].program.marks
                   THEN [marked EXCEPT ![c] = Tip(w).seq] ELSE marked
      /\ txn' = [txn EXCEPT ![t] = Idle]
      /\ lock' = Unlocked(t)
      /\ UNCHANGED <<begun, job, anchors>>
-----------------------------------------------------------------------------
(* verifyAndAnchor: one transaction, a snapshot per statement.             *)
listChainIds ==
  /\ job.pc = "idle"
  /\ Cardinality(anchors) < MaxAnchors
  /\ job' = [Rest EXCEPT !.pc = "chains", !.left = {c \in Chains : ledger[c] # {}}]
  /\ UNCHANGED <<ledger, rows, marked, lock, txn, begun, anchors>>

(* A broken chain is reported and left out of the anchor. *)
VerifyNext(c) ==
  /\ job.pc = "chains"
  /\ c \in job.left
  /\ job' = [job EXCEPT !.left = @ \ {c},
                        !.pc = IF verifyChain(ledger[c]) THEN "verified" ELSE "chains",
                        !.chain = c]
  /\ UNCHANGED <<ledger, rows, marked, lock, txn, begun, anchors>>

(* Mutant: the head is read with rows that are not committed. *)
ReadDirtyHead ==
  LET h == Tip(ledger[job.chain] \cup
               UNION {txn[t].written : t \in {u \in Txns : txn[u].chain = job.chain}})
  IN  /\ job.pc = "verified"
      /\ job' = [job EXCEPT !.pc = "chains",
           !.heads = @ \cup {[chain |-> job.chain, seq |-> h.seq, hash |-> h.hash]}]
      /\ UNCHANGED <<ledger, rows, marked, lock, txn, begun, anchors>>
ReadVerifiedHead ==
  LET h == Tip(ledger[job.chain])
  IN  /\ job.pc = "verified"
      /\ job' = [job EXCEPT !.pc = "chains",
           !.heads = @ \cup {[chain |-> job.chain, seq |-> h.seq, hash |-> h.hash]}]
      /\ UNCHANGED <<ledger, rows, marked, lock, txn, begun, anchors>>

InsertAnchor ==
  /\ job.pc = "chains" /\ job.left = {}
  /\ anchors' = IF job.heads = {} THEN anchors ELSE anchors \cup {job.heads}
  /\ job' = Rest
  /\ UNCHANGED <<ledger, rows, marked, lock, txn, begun>>

CrashJob ==
  /\ job.pc # "idle"
  /\ job' = Rest
  /\ UNCHANGED <<ledger, rows, marked, lock, txn, begun, anchors>>
-----------------------------------------------------------------------------
Proceed(t) ==
  LockRow(t) \/ readHead(t) \/ insertEntry(t) \/ RejectEntry(t) \/ Commit(t)

Anchor == listChainIds \/ (\E c \in Chains : VerifyNext(c)) \/ ReadVerifiedHead
          \/ InsertAnchor \/ CrashJob

Next ==
  \/ \E t \in Txns :
       \/ \E p \in Running, c \in Chains : Begin(t, p, c)
       \/ Proceed(t)
       \/ Rollback(t)
  \/ Anchor

Spec == Init /\ [][Next]_vars

(* Postgres carries a statement out once nothing it waits for is left. *)
FairSpec == Spec /\ \A t \in Txns : WF_vars(Proceed(t))
-----------------------------------------------------------------------------
Histories == Seq(Kinds)
Rows == [seq : Nat, prev : Histories, hash : Histories, kind : Kinds]
Tips == [seq : Nat \cup {-1}, hash : Histories]
AnchoredHeads == [chain : Chains, seq : Nat, hash : Histories]
TxnStates == [pc : {"idle", "lock", "read", "insert", "commit"}, program : Programs,
              chain : Chains \cup {None}, head : Tips, left : Histories,
              written : SUBSET Rows]
JobStates == [pc : {"idle", "chains", "verified"}, left : SUBSET Chains,
              chain : Chains \cup {None}, heads : SUBSET AnchoredHeads]

TypeOK ==
  /\ ledger \in [Chains -> SUBSET Rows]
  /\ rows \subseteq Chains
  /\ marked \in [Chains -> Nat \cup {-1}]
  /\ lock \in [Chains -> Txns \cup {None}]
  /\ txn \in [Txns -> TxnStates]
  /\ begun \in 0 .. MaxBegun
  /\ job \in JobStates
  /\ anchors \subseteq SUBSET AnchoredHeads

(* A set of rows is a chain: the hash of each row is the history up to it, *)
(* one row per position, every row follows the one it names, one is last.  *)
Chained(rs) ==
  /\ \A r \in rs : r = Row(Len(r.prev), r.prev, r.kind)
  /\ \A r, s \in rs : r.seq = s.seq => r = s
  /\ \A r \in rs : r.seq > 0 => \E s \in rs : s.hash = r.prev
  /\ rs # {} => \E r \in rs : \A s \in rs : s.seq <= r.seq

(* INV-11 holds of every committed chain at every moment: no interleaving  *)
(* of appends, with the row lock or without, makes verifyChain report it.  *)
ChainsVerify == \A c \in Chains : verifyChain(ledger[c])

(* Every head of every anchor is an entry of its chain, and the chain up   *)
(* to it verifies, although the job verified and read it in two snapshots. *)
HeadHolds(h) ==
  /\ \E r \in ledger[h.chain] : r.seq = h.seq /\ r.hash = h.hash
  /\ verifyChain({r \in ledger[h.chain] : r.seq <= h.seq})
AnchorsHold == \A h \in UNION anchors : HeadHolds(h)

(* Replacing any entry that has a successor, its own hash included, is     *)
(* seen by verifyChain: what an entry is compared with is never its own.   *)
Edited(rs, r, k, h) == (rs \ {r}) \cup {[r EXCEPT !.kind = k, !.hash = h]}
EditsDetected ==
  \A c \in Chains : \A r, s \in ledger[c] :
    s.seq = r.seq + 1 =>
      \A k \in Kinds \ {r.kind} : \A h \in {r.hash, chainHash(r.prev, k)} :
        ~verifyChain(Edited(ledger[c], r, k, h))

(* What the row lock does give: the tail a holder of the row has read is   *)
(* overtaken only by entries of the programs that do not take it, so two   *)
(* decisions never collide, and nothing on a merchant's chain does.        *)
UnlockedKinds(c) ==
  {k \in Kinds : \E p \in Running :
     /\ p.mode = "none" /\ p.on = (IF c \in Merchants THEN "merchant" ELSE "mandate")
     /\ \E n \in DOMAIN p.kinds : p.kinds[n] = k}
HolderLosesOnlyToUnlocked ==
  \A t \in Txns :
    txn[t].pc = "insert" /\ txn[t].program.mode = "lock" =>
      \A r \in ledger[txn[t].chain] :
        r.seq > txn[t].head.seq => r.kind \in UnlockedKinds(txn[t].chain)

(* Entries of two transactions never mix, none is lost and a mandate's     *)
(* chain opens with its issue ("the chain exists from the moment the       *)
(* authority does"): the committed chains are the logs of ChainLog.        *)
History(c) == Tip(ledger[c]).hash
KindsOf == {p.kinds : p \in Running}
Logs == INSTANCE ChainLog WITH
          log <- [c \in Chains |-> History(c)], Batches <- KindsOf,
          Opening <- [c \in Chains |-> IF c \in Mandates THEN {Issue.kinds} ELSE KindsOf]
LogSpec == Logs!LogSpec

(* Every transaction that begins ends: two appenders never wait for each   *)
(* other, whichever of them holds the row.                                 *)
EveryAppendEnds == \A t \in Txns : Open(t) ~> ~Open(t)
-----------------------------------------------------------------------------
(* The inductive invariant. *)
Seen(t) == ledger[txn[t].chain] \cup txn[t].written

CommittedChained ==
  /\ \A c \in Chains : Chained(ledger[c])
  /\ \A m \in Mandates \cap rows : ledger[m] # {}

(* What a transaction wrote continues the committed chain, by the entries  *)
(* of its program that are not left.                                       *)
Continues(t) ==
  LET c == txn[t].chain
      p == txn[t].program
  IN  /\ c \in Chains
      /\ Chained(Seen(t))
      /\ \A r \in txn[t].written, s \in ledger[c] : s.seq < r.seq
      /\ Tip(Seen(t)).hash \o txn[t].left = History(c) \o p.kinds
      /\ p \in Running
      /\ c \in Mandates \ rows => p = Issue
      /\ txn[t].pc = "commit" <=> txn[t].left = <<>>
      /\ txn[t].pc = "commit" => txn[t].written # {}
PendingChained == \A t \in Txns : IF Open(t) THEN Continues(t) ELSE txn[t] = Idle

(* Only one open transaction has written to a chain. *)
OneWriter ==
  \A t, u \in Txns :
    t # u /\ txn[t].written # {} /\ txn[u].written # {}
      => txn[t].chain # txn[u].chain

(* A head that was read is an entry still, and the last one its own        *)
(* transaction sees once that has written.                                 *)
IsEntry(h, rs) == h = NoTip \/ \E r \in rs : h = [seq |-> r.seq, hash |-> r.hash]
HeadWasRead ==
  \A t \in Txns : txn[t].pc = "insert" =>
    /\ IsEntry(txn[t].head, Seen(t))
    /\ txn[t].written # {} => txn[t].head = Tip(Seen(t))

(* Who shares a chain: a mandate being created is nobody else's yet, and   *)
(* what locks the row holds it from then on.                               *)
Holds(t) ==
  LET c == txn[t].chain
      p == txn[t].program
  IN  /\ p.on = "merchant" <=> c \in Merchants
      /\ p.mode = "create" => c \in Mandates \ rows
      /\ p.mode = "create" => \A u \in Txns \ {t} : txn[u].chain # c
      /\ p.mode = "lock" /\ txn[t].pc # "lock" => lock[c] = t
      /\ \A r \in txn[t].written : \E n \in DOMAIN p.kinds : p.kinds[n] = r.kind
RowsHeld == \A t \in Txns : Open(t) => Holds(t)

(* The job carries entries of the chains it listed. *)
HeadsCommitted ==
  /\ \A c \in job.left : ledger[c] # {}
  /\ job.pc = "verified" => job.chain \in Chains /\ ledger[job.chain] # {}
  /\ \A h \in job.heads \cup UNION anchors :
       \E r \in ledger[h.chain] : r.seq = h.seq /\ r.hash = h.hash

IInv == /\ TypeOK /\ CommittedChained /\ PendingChained /\ OneWriter /\ HeadWasRead
        /\ RowsHeld /\ HeadsCommitted
=============================================================================
