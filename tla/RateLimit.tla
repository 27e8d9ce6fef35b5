------------------------------ MODULE RateLimit ------------------------------
(***************************************************************************)
(* LMT-005, the request rate limit: token buckets in a table the instances *)
(* of the kernel share.                                                    *)
(*                                                                         *)
(* consume runs one transaction: insert a full bucket unless the key has   *)
(* one, lock the row and compute what has accrued since refilled_at, write *)
(* the row back with one token less or without, commit.  now() is when the *)
(* transaction BEGAN, the row is read when its lock is granted, so clocks  *)
(* reach the row out of order.  The key is the whole primary key, while    *)
(* row level security shows a transaction the rows of its merchant only.   *)
(*                                                                         *)
(* One tick refills one unit; a token is the units that refill in the time *)
(* one token takes.  MaxTime bounds the clock.                             *)
(***************************************************************************)
EXTENDS Integers, Sequences

CONSTANTS
  Merchants,
  Kinds, Subjects,   \* a bucket key is `kind:subject'
  Charged,           \* <<merchant, key>>: whose requests charge which key
  BUCKETS,           \* by kind: the units of a full bucket and of a token
  Callers,           \* requests in progress at one time
  MaxTime,
  None

Keys == Kinds \X Subjects

ASSUME RateLimitAssumption ==
  /\ Charged \subseteq Merchants \X Keys
  /\ BUCKETS \in [Kinds -> [full : Nat, token : Nat \ {0}]]
  /\ \A kind \in Kinds : BUCKETS[kind].token <= BUCKETS[kind].full
  /\ MaxTime \in Nat
  /\ None \notin Callers \cup Merchants \cup Keys

Full(k) == BUCKETS[k[1]].full
Token(k) == BUCKETS[k[1]].token

VARIABLES
  clock,
  buckets,    \* rate_limit_buckets: the committed rows
  holder,     \* who has inserted or locked the row of a key
  calls,      \* the transactions in progress
  admitted    \* start times of the requests let through, in commit order

limits == <<clock, buckets, holder, calls, admitted>>

NoBucket == [merchant |-> None, tokens |-> 0, refilled_at |-> 0]
NewBucket(m, k, start) ==
  [merchant |-> m, tokens |-> Full(k), refilled_at |-> start]

NoCall == [pc |-> "idle", merchant |-> None, key |-> None, start |-> 0,
           available |-> 0]

Init ==
  /\ clock = 0
  /\ buckets = [k \in Keys |-> NoBucket]
  /\ holder = [k \in Keys |-> None]
  /\ calls = [c \in Callers |-> NoCall]
  /\ admitted = [x \in Merchants \X Keys |-> <<>>]
-----------------------------------------------------------------------------
Exists(k) == buckets[k].merchant # None

(* BEGIN *)
consume(c, m, k) ==
  /\ calls[c].pc = "idle"
  /\ <<m, k>> \in Charged
  /\ calls' = [calls EXCEPT ![c] = [pc |-> "insert", merchant |-> m, key |-> k,
                                    start |-> clock, available |-> 0]]
  /\ UNCHANGED <<clock, buckets, holder, admitted>>

(* INSERT ... ON CONFLICT DO NOTHING: a row of any merchant is a conflict, *)
(* and one that is not committed is waited for.                            *)
insertBucket(c) ==
  LET k == calls[c].key
  IN  /\ calls[c].pc = "insert"
      /\ Exists(k) \/ holder[k] = None
      /\ holder' = IF Exists(k) THEN holder ELSE [holder EXCEPT ![k] = c]
      /\ calls' = [calls EXCEPT ![c].pc = "select"]
      /\ UNCHANGED <<clock, buckets, admitted>>

(* The row the transaction sees: its own, or the committed one.            *)
Visible(c) ==
  LET k == calls[c].key
  IN  IF Exists(k) THEN buckets[k] ELSE NewBucket(calls[c].merchant, k, calls[c].start)

Accrued(b, k, start) ==
  LET tokens == b.tokens + (start - b.refilled_at)
  IN  IF tokens <= Full(k) THEN tokens ELSE Full(k)

(* Mutant: the row is read without its lock. *)
readBucket(c) ==
  LET k == calls[c].key
      b == Visible(c)
  IN  /\ calls[c].pc = "select"
      /\ IF b.merchant = calls[c].merchant
         THEN calls' = [calls EXCEPT ![c].pc = "update",
                                     ![c].available = Accrued(b, k, calls[c].start)]
         ELSE calls' = [calls EXCEPT ![c].pc = "update"]
      /\ UNCHANGED <<clock, buckets, holder, admitted>>
(* SELECT ... FOR UPDATE: what is not visible is not locked, and nothing   *)
(* is available from it.                                                   *)
lockBucket(c) ==
  LET k == calls[c].key
      b == Visible(c)
  IN  /\ calls[c].pc = "select"
      /\ IF b.merchant = calls[c].merchant
         THEN /\ holder[k] \in {c, None}
              /\ holder' = [holder EXCEPT ![k] = c]
              /\ calls' = [calls EXCEPT ![c].pc = "update",
                                        ![c].available = Accrued(b, k, calls[c].start)]
         ELSE /\ calls' = [calls EXCEPT ![c].pc = "update"]
              /\ UNCHANGED holder
      /\ UNCHANGED <<clock, buckets, admitted>>

Released(c) == [k \in Keys |-> IF holder[k] = c THEN None ELSE holder[k]]

(* UPDATE and COMMIT *)
Settle(c, left) ==
  LET k == calls[c].key
  IN  /\ buckets' = IF Visible(c).merchant = calls[c].merchant
                    THEN [buckets EXCEPT ![k] =
                           [merchant |-> calls[c].merchant, tokens |-> left,
                            refilled_at |-> calls[c].start]]
                    ELSE buckets
      /\ holder' = Released(c)

Admit(c) ==
  LET k == calls[c].key
  IN  /\ calls[c].pc = "update"
      /\ calls[c].available >= Token(k)
      /\ Settle(c, calls[c].available - Token(k))
      /\ calls' = [calls EXCEPT ![c].pc = "allowed"]
      /\ admitted' = [admitted EXCEPT ![<<calls[c].merchant, k>>] = Append(@, calls[c].start)]
      /\ UNCHANGED clock

(* Mutant: a refused request pays its token too. *)
RefuseCharged(c) ==
  /\ calls[c].pc = "update"
  /\ calls[c].available < Token(calls[c].key)
  /\ Settle(c, calls[c].available - Token(calls[c].key))
  /\ calls' = [calls EXCEPT ![c].pc = "refused"]
  /\ UNCHANGED <<clock, admitted>>
Refuse(c) ==
  /\ calls[c].pc = "update"
  /\ calls[c].available < Token(calls[c].key)
  /\ Settle(c, calls[c].available)
  /\ calls' = [calls EXCEPT ![c].pc = "refused"]
  /\ UNCHANGED <<clock, admitted>>

(* The pool, the database or the process fails: ROLLBACK, and the caller   *)
(* gets the error instead of an answer.                                    *)
FailClosed(c) ==
  /\ calls[c].pc \in {"insert", "select", "update"}
  /\ calls' = [calls EXCEPT ![c].pc = "failed"]
  /\ holder' = Released(c)
  /\ UNCHANGED <<clock, buckets, admitted>>

(* The handler has gone on with the answer. *)
Answered(c) ==
  /\ calls[c].pc \in {"allowed", "refused", "failed"}
  /\ calls' = [calls EXCEPT ![c] = NoCall]
  /\ UNCHANGED <<clock, buckets, holder, admitted>>

Tick ==
  /\ clock < MaxTime
  /\ clock' = clock + 1
  /\ UNCHANGED <<buckets, holder, calls, admitted>>
-----------------------------------------------------------------------------
Transact(c) == insertBucket(c) \/ lockBucket(c) \/ Admit(c) \/ Refuse(c)

LimitStep(c) ==
  \/ \E m \in Merchants, k \in Keys : consume(c, m, k)
  \/ Transact(c) \/ FailClosed(c) \/ Answered(c)

Next == Tick \/ \E c \in Callers : LimitStep(c)

Spec == Init /\ [][Next]_limits
-----------------------------------------------------------------------------
Row == [merchant : Merchants \cup {None}, tokens : Int, refilled_at : Nat]
Call == [pc : {"idle", "insert", "select", "update", "allowed", "refused", "failed"},
         merchant : Merchants \cup {None}, key : Keys \cup {None},
         start : Nat, available : Int]

LimitTypeOK ==
  /\ clock \in Nat
  /\ buckets \in [Keys -> Row]
  /\ holder \in [Keys -> Callers \cup {None}]
  /\ calls \in [Callers -> Call]
  /\ admitted \in [Merchants \X Keys -> Seq(Nat)]

(* What is left at a moment of a bucket that was full when request i of a  *)
(* log started: it refills since, and i and those after it are paid.       *)
Left(full, token, log, i, at) ==
  full + (at - log[i]) - token * (Len(log) - i + 1)

(* Any run of a log costs no more than one full bucket and what accrued    *)
(* between the starts of its first request and its last.                   *)
Fits(full, token, log) ==
  \A i, j \in 1 .. Len(log) :
    i <= j => token * (j - i + 1) <= full + (log[j] - log[i])

(* "Two concurrent requests cannot both see the last token": whichever     *)
(* requests of a key are let through, from any instances and with whatever *)
(* waits, any run of them fits in one bucket and the time it spans.        *)
AdmittedWithin ==
  \A m \in Merchants, k \in Keys : Fits(Full(k), Token(k), admitted[<<m, k>>])

(* From some admitted request on, those let through leave less than one    *)
(* token to a request that starts now.                                     *)
Spent(full, token, log, start) ==
  \E i \in 1 .. Len(log) : Left(full, token, log, i, start) < token

(* A request is refused only for what its own merchant's callers of that   *)
(* key were given: being refused costs nothing, and no order of starts,    *)
(* waits, failures and refusals loses time that accrued ("a client that    *)
(* kept retrying would never recover").                                    *)
RefusedOnlyWhenSpent ==
  [][\A c \in Callers :
       calls[c].pc # "refused" /\ calls'[c].pc = "refused" =>
         LET k == calls[c].key
         IN  Spent(Full(k), Token(k), admitted[<<calls[c].merchant, k>>],
                   calls[c].start)]_limits
-----------------------------------------------------------------------------
(* The inductive invariant. *)

(* A transaction that is about to write has the row to itself and has read *)
(* what it holds, unless the row is another merchant's.                    *)
HeldIsRead ==
  \A c \in Callers :
    /\ calls[c].pc # "idle" =>
         <<calls[c].merchant, calls[c].key>> \in Merchants \X Keys
    /\ calls[c].pc \in {"insert", "select"} => calls[c].available = 0
    /\ calls[c].pc = "select" => Exists(calls[c].key) \/ holder[calls[c].key] = c
    /\ calls[c].pc = "update" =>
         IF Visible(c).merchant = calls[c].merchant
         THEN /\ holder[calls[c].key] = c
              /\ calls[c].available = Accrued(Visible(c), calls[c].key, calls[c].start)
         ELSE calls[c].available = 0

(* What a bucket holds is what a full one is left with after the requests  *)
(* admitted since some i, and no more than after those since any other.    *)
Bounded(full, token, log, tokens, at) ==
  \A i \in 1 .. Len(log) : tokens <= Left(full, token, log, i, at)
Exact(full, token, log, tokens, at) ==
  \E i \in 1 .. Len(log) : tokens = Left(full, token, log, i, at)

BucketIsLog ==
  \A m \in Merchants, k \in Keys :
    LET b == buckets[k]
        log == admitted[<<m, k>>]
    IN  IF b.merchant = m
        THEN /\ Bounded(Full(k), Token(k), log, b.tokens, b.refilled_at)
             /\ Exact(Full(k), Token(k), log, b.tokens, b.refilled_at)
        ELSE log = <<>>

LimitInv == LimitTypeOK /\ HeldIsRead /\ BucketIsLog /\ AdmittedWithin
=============================================================================
