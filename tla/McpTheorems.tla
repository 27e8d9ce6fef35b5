------------------------------ MODULE McpTheorems ------------------------------
(***************************************************************************)
(* Proofs about the rate limit and the MCP door, for every number of       *)
(* merchants, keys, callers, sessions and instances, every bucket and      *)
(* every clock.                                                            *)
(*                                                                         *)
(* LimitInv is inductive: a row holds exactly what a bucket full at the    *)
(* start of some admitted request is left with, and no more than one full  *)
(* at any other, whichever order the starts reach it in.  So no run of     *)
(* admitted requests outgrows its bucket, and every refusal is explained   *)
(* by what was admitted.  Above it, each effect of a tool and each request *)
(* still entitled to one is counted against the log of its key.            *)
(***************************************************************************)
EXTENDS Mcp, SequenceTheorems, FiniteSetTheorems, TLAPS

-----------------------------------------------------------------------------
(* Arithmetic of one log.  F is a full bucket, T a token, `tokens' and     *)
(* `ref' the row, s the start of the request, a what it has available.     *)

(* The tokens of requests i to n; a name, so that arithmetic about what is *)
(* left need not look into a product.                                      *)
Cost(T, n, i) == T * (n - i + 1)

LEMMA OneMoreCosts ==
  ASSUME NEW T \in Int, NEW n \in Int, NEW i \in Int
  PROVE  /\ Cost(T, n, i) \in Int
         /\ Cost(T, n + 1, i) = Cost(T, n, i) + T
         /\ Cost(T, n, n) = T
  BY DEF Cost

LEMMA TokenTaken ==
  ASSUME NEW F \in Int, NEW T \in Int, NEW a \in Int, NEW s \in Int,
         NEW start \in Int, NEW cost \in Int
  PROVE  /\ a <= F + (s - start) - cost => a - T <= F + (s - start) - (cost + T)
         /\ a = F + (s - start) - cost => a - T = F + (s - start) - (cost + T)
         /\ T <= a /\ a <= F + (s - start) - cost => cost + T <= F + (s - start)
  OBVIOUS

(* A log of n start times; stated apart so that arithmetic about its       *)
(* entries need not look into it.                                          *)
Log(log, n) == log \in Seq(Nat) /\ n = Len(log) /\ n \in Nat

LEMMA LogFacts ==
  ASSUME NEW log \in Seq(Nat)
  PROVE  Log(log, Len(log))
  BY LenProperties DEF Log

(* When request i of a log started; a name too. *)
At(log, i) == log[i]

LEMMA LogEntry ==
  ASSUME NEW log, NEW n, NEW i, Log(log, n), i \in 1 .. n
  PROVE  At(log, i) \in Nat
  BY ElementOfSeq DEF Log, At

(* What a log leaves, in integers. *)
LEMMA LeftIs ==
  ASSUME NEW F, NEW T, NEW log, NEW n, NEW i, NEW s,
         F \in Int, T \in Int, Log(log, n), i \in 1 .. n, s \in Int
  PROVE  Left(F, T, log, i, s) = F + (s - At(log, i)) - Cost(T, n, i)
  BY DEF Left, Log, Cost, At

(* A request that starts at s has what the row held and what has accrued   *)
(* since, and what is left at s bounds it.                                 *)
LEMMA AccruedWithin ==
  ASSUME NEW F \in Int, NEW T \in Int, NEW log, NEW n \in Nat, Log(log, n),
         NEW tokens \in Int, NEW ref \in Int, NEW s \in Int, NEW a \in Int,
         a = IF tokens + (s - ref) <= F THEN tokens + (s - ref) ELSE F,
         Bounded(F, T, log, tokens, ref), Exact(F, T, log, tokens, ref)
  PROVE  /\ a <= F
         /\ Bounded(F, T, log, a, s)
         /\ a = F \/ (a = tokens + (s - ref) /\ Exact(F, T, log, a, s))
  <1>1. a <= F /\ a <= tokens + (s - ref) /\ (a = F \/ a = tokens + (s - ref))
    OBVIOUS
  <1>2. /\ \A i \in 1 .. n : tokens <= Left(F, T, log, i, ref)
        /\ \E i \in 1 .. n : tokens = Left(F, T, log, i, ref)
    BY DEF Bounded, Exact, Log
  <1>3. ASSUME NEW i \in 1 .. n
        PROVE  /\ a <= Left(F, T, log, i, s)
               /\ /\ a = tokens + (s - ref)
                  /\ tokens = Left(F, T, log, i, ref)
                  => a = Left(F, T, log, i, s)
    <2> DEFINE left == Left(F, T, log, i, ref)
               later == Left(F, T, log, i, s)
    <2>1. left \in Int /\ later = left + (s - ref)
      <3>1. Cost(T, n, i) \in Int
        BY OneMoreCosts
      <3>2. At(log, i) \in Nat
        BY LogEntry
      <3>3. left = F + (ref - At(log, i)) - Cost(T, n, i)
        BY LeftIs
      <3>4. later = F + (s - At(log, i)) - Cost(T, n, i)
        BY LeftIs
      <3> HIDE DEF left, later
      <3> QED  BY <3>1, <3>2, <3>3, <3>4
    <2>2. tokens <= left
      BY <1>2
    <2> HIDE DEF left, later
    <2>3. /\ a <= later
          /\ a = tokens + (s - ref) /\ tokens = left => a = later
      BY <1>1, <2>1, <2>2
    <2> QED  BY <2>3 DEF left, later
  <1>4. ASSUME a = tokens + (s - ref)
        PROVE  \E i \in 1 .. n : a = Left(F, T, log, i, s)
    BY <1>2, <1>3, <1>4
  <1>5. Bounded(F, T, log, a, s)
    BY <1>3 DEF Bounded, Log
  <1>6. ASSUME a = tokens + (s - ref)
        PROVE  Exact(F, T, log, a, s)
    BY <1>4, <1>6 DEF Exact, Log
  <1> QED  BY <1>1, <1>5, <1>6

Grown(new, log, n, s) ==
  /\ Log(new, n + 1)
  /\ \A i \in 1 .. n : At(new, i) = At(log, i)
  /\ At(new, n + 1) = s

LEMMA AppendedLog ==
  ASSUME NEW log, NEW n \in Nat, Log(log, n), NEW s \in Nat
  PROVE  Grown(Append(log, s), log, n, s)
  <1>1. /\ Append(log, s) \in Seq(Nat)
        /\ Len(Append(log, s)) = Len(log) + 1
        /\ \A i \in 1 .. Len(log) : Append(log, s)[i] = log[i]
        /\ Append(log, s)[Len(log) + 1] = s
    BY AppendProperties DEF Log
  <1> QED  BY <1>1 DEF Grown, Log, At

(* What the log with one more request leaves: a token less than before,    *)
(* and of a bucket full at the new start all but its token.                *)
LEMMA OlderLeft ==
  ASSUME NEW F, NEW T, NEW log, NEW n, NEW s, NEW new, NEW i,
         F \in Int, T \in Int, s \in Nat, Log(log, n), Grown(new, log, n, s),
         i \in 1 .. n
  PROVE  /\ Left(F, T, log, i, s) \in Int
         /\ Left(F, T, new, i, s) = Left(F, T, log, i, s) - T
  <1>1. /\ Log(new, n + 1) /\ At(new, i) = At(log, i)
        /\ n \in Nat /\ i \in 1 .. (n + 1)
    BY DEF Grown, Log
  <1>2. Cost(T, n, i) \in Int
    BY <1>1, OneMoreCosts
  <1>6. Cost(T, n + 1, i) = Cost(T, n, i) + T
    BY <1>1, OneMoreCosts
  <1>3. At(log, i) \in Nat
    BY LogEntry
  <1>4. Left(F, T, log, i, s) = F + (s - At(log, i)) - Cost(T, n, i)
    BY LeftIs
  <1>5. Left(F, T, new, i, s) = F + (s - At(new, i)) - Cost(T, n + 1, i)
    BY <1>1, LeftIs
  <1> QED  BY <1>1, <1>2, <1>3, <1>4, <1>5, <1>6

LEMMA NewestLeft ==
  ASSUME NEW F, NEW T, NEW log, NEW n, NEW s, NEW new,
         F \in Int, T \in Int, s \in Nat, Log(log, n), Grown(new, log, n, s)
  PROVE  Left(F, T, new, n + 1, s) = F - T
  <1>1. /\ Log(new, n + 1) /\ At(new, n + 1) = s
        /\ n + 1 \in Nat /\ n + 1 \in 1 .. (n + 1)
    BY DEF Grown, Log
  <1>2. Cost(T, n + 1, n + 1) = T
    BY <1>1, OneMoreCosts
  <1>3. Left(F, T, new, n + 1, s) = F + (s - At(new, n + 1)) - Cost(T, n + 1, n + 1)
    BY <1>1, LeftIs
  <1> QED  BY <1>1, <1>2, <1>3

(* One token is taken: the row again holds what the log leaves. *)
LEMMA AdmitLog ==
  ASSUME NEW F \in Int, NEW T \in Int, NEW log, NEW n \in Nat, Log(log, n),
         NEW s \in Nat, NEW new, Grown(new, log, n, s),
         NEW a \in Int, a <= F, Bounded(F, T, log, a, s),
         a = F \/ Exact(F, T, log, a, s)
  PROVE  Bounded(F, T, new, a - T, s) /\ Exact(F, T, new, a - T, s)
  <1>1. Log(new, n + 1) /\ n + 1 \in 1 .. (n + 1)
    BY DEF Grown
  <1>2. /\ Left(F, T, new, n + 1, s) = F - T
        /\ \A i \in 1 .. n : /\ Left(F, T, log, i, s) \in Int
                             /\ Left(F, T, new, i, s) = Left(F, T, log, i, s) - T
    <2>1. Left(F, T, new, n + 1, s) = F - T
      BY NewestLeft
    <2>2. ASSUME NEW i \in 1 .. n
          PROVE  Left(F, T, log, i, s) \in Int
      BY OlderLeft
    <2>3. ASSUME NEW i \in 1 .. n
          PROVE  Left(F, T, new, i, s) = Left(F, T, log, i, s) - T
      BY OlderLeft
    <2> QED  BY <2>1, <2>2, <2>3
  <1>3. /\ \A i \in 1 .. n : a <= Left(F, T, log, i, s)
        /\ a = F \/ \E i \in 1 .. n : a = Left(F, T, log, i, s)
    BY DEF Bounded, Exact, Log
  <1>4. ASSUME NEW i \in 1 .. (n + 1)  PROVE  a - T <= Left(F, T, new, i, s)
    <2>1. CASE i = n + 1
      BY <2>1, <1>2
    <2>2. CASE i \in 1 .. n
      BY <2>2, <1>2, <1>3
    <2> QED  BY <2>1, <2>2
  <1>5. \E i \in 1 .. (n + 1) : a - T = Left(F, T, new, i, s)
    <2>1. CASE a = F
      BY <2>1, <1>1, <1>2
    <2>2. CASE \E i \in 1 .. n : a = Left(F, T, log, i, s)
      <3>1. PICK i \in 1 .. n : a = Left(F, T, log, i, s)
        BY <2>2
      <3>2. i \in 1 .. (n + 1) /\ a - T = Left(F, T, new, i, s)
        BY <3>1, <1>2
      <3> QED  BY <3>2
    <2> QED  BY <2>1, <2>2, <1>3
  <1>6. Bounded(F, T, new, a - T, s)
    BY <1>1, <1>4 DEF Bounded, Log
  <1> QED  BY <1>1, <1>5, <1>6 DEF Exact, Log

(* The new start leaves every run of requests within the bound. *)
LEMMA AdmitFits ==
  ASSUME NEW F \in Int, NEW T \in Int, T <= F, NEW log, NEW n \in Nat, Log(log, n),
         NEW s \in Nat, NEW new, Grown(new, log, n, s),
         NEW a \in Int, T <= a, Bounded(F, T, log, a, s), Fits(F, T, log)
  PROVE  Fits(F, T, new)
  <1>1. /\ Log(new, n + 1) /\ At(new, n + 1) = s
        /\ \A i \in 1 .. n : At(new, i) = At(log, i)
    BY DEF Grown
  <1>2. \A i \in 1 .. n : a <= Left(F, T, log, i, s)
    BY DEF Bounded, Log
  <1>3. \A i, j \in 1 .. n : i <= j => Cost(T, j, i) <= F + (At(log, j) - At(log, i))
    BY DEF Fits, Log, Cost, At
  <1>4. ASSUME NEW i \in 1 .. (n + 1), NEW j \in 1 .. (n + 1), i <= j
        PROVE  Cost(T, j, i) <= F + (At(new, j) - At(new, i))
    <2>1. CASE j \in 1 .. n
      <3>1. i \in 1 .. n
        BY <2>1, <1>4
      <3>2. At(new, i) = At(log, i) /\ At(new, j) = At(log, j)
        BY <3>1, <2>1, <1>1
      <3> QED  BY <3>1, <3>2, <2>1, <1>3, <1>4
    <2>2. CASE j = n + 1 /\ i \in 1 .. n
      <3>1. Cost(T, n + 1, i) = Cost(T, n, i) + T
        BY <2>2, OneMoreCosts
      <3>2. Cost(T, n, i) \in Int
        BY <2>2, OneMoreCosts
      <3>7. At(log, i) \in Nat
        BY <2>2, LogEntry
      <3>6. Left(F, T, log, i, s) = F + (s - At(log, i)) - Cost(T, n, i)
        BY <2>2, LeftIs
      <3>3. At(new, i) = At(log, i) /\ At(new, j) = s
        BY <2>2, <1>1
      <3>4. a <= F + (s - At(log, i)) - Cost(T, n, i)
        BY <2>2, <1>2, <3>6
      <3>5. Cost(T, n, i) + T <= F + (s - At(log, i))
        BY <3>2, <3>4, <3>7, TokenTaken
      <3> QED  BY <3>1, <3>3, <3>5, <3>7, <2>2
    <2>3. CASE j = n + 1 /\ i = n + 1
      <3>1. Cost(T, n + 1, n + 1) = T
        BY OneMoreCosts
      <3>2. At(new, j) = s /\ At(new, i) = s
        BY <2>3, <1>1
      <3> QED  BY <3>1, <3>2, <2>3
    <2>4. \/ j \in 1 .. n
          \/ j = n + 1 /\ i \in 1 .. n
          \/ j = n + 1 /\ i = n + 1
      OBVIOUS
    <2> QED  BY <2>1, <2>2, <2>3, <2>4
  <1> QED  BY <1>1, <1>4 DEF Fits, Log, Cost, At
-----------------------------------------------------------------------------
(* The limiter, whoever drives it. *)

(* Full buckets and tokens are natural numbers, a token is worth something *)
(* and a full bucket holds one; None is nobody and nothing.                *)
LEMMA BucketTypes ==
  /\ \A k \in Keys : /\ Full(k) \in Nat /\ Token(k) \in Nat
                     /\ Token(k) # 0 /\ Token(k) <= Full(k)
  /\ None \notin Callers /\ None \notin Merchants /\ None \notin Keys
  <1>1. ASSUME NEW k \in Keys
        PROVE  k[1] \in Kinds
    BY <1>1 DEF Keys
  <1>2. ASSUME NEW kind \in Kinds
        PROVE  /\ BUCKETS[kind].full \in Nat /\ BUCKETS[kind].token \in Nat \ {0}
               /\ BUCKETS[kind].token <= BUCKETS[kind].full
    BY <1>2, RateLimitAssumption DEF RateLimitAssumption
  <1>3. None \notin Callers \cup Merchants \cup Keys
    BY RateLimitAssumption DEF RateLimitAssumption
  <1> QED  BY <1>1, <1>2, <1>3 DEF Full, Token

(* The transactions of the callers in D end without a trace. *)
Die(D) ==
  /\ calls' = [c \in Callers |-> IF c \in D THEN NoCall ELSE calls[c]]
  /\ holder' = [k \in Keys |-> IF holder[k] \in D THEN None ELSE holder[k]]
  /\ UNCHANGED <<clock, buckets, admitted>>

LimiterMoves ==
  \/ UNCHANGED limits
  \/ Tick
  \/ \E c \in Callers : LimitStep(c)
  \/ \E D \in SUBSET Callers : Die(D)

(* A handler moves the limiter only by the limiter's own steps; a restart  *)
(* ends what its instance had in progress.                                 *)
LEMMA HandlersMoveLimiter ==
  ASSUME [McpNext]_mcpVars
  PROVE  LimiterMoves
  <1> USE DEF LimiterMoves
  <1>1. ASSUME NEW c \in Callers, NEW m, NEW k, consume(c, m, k)
        PROVE  LimitStep(c)
    <2>1. <<m, k>> \in Merchants \X Keys
      BY <1>1, RateLimitAssumption DEF consume, RateLimitAssumption
    <2>2. m \in Merchants /\ k \in Keys
      BY <2>1
    <2> QED  BY <1>1, <2>2 DEF LimitStep
  <1>2. ASSUME Limiter  PROVE LimiterMoves
    BY <1>2 DEF Limiter, LimitStep
  <1>3. ASSUME NEW c \in Callers, Answered(c)  PROVE LimiterMoves
    BY <1>3 DEF LimitStep
  <1>4. ASSUME NEW n \in Instances, Restart(n)  PROVE LimiterMoves
    <2> DEFINE D == {c \in Callers : requests[c].at = n}
    <2>1. calls' = [c \in Callers |-> IF c \in D THEN NoCall ELSE calls[c]]
      BY <1>4 DEF Restart
    <2>2. holder' = [k \in Keys |-> IF holder[k] \in D THEN None ELSE holder[k]]
      <3>1. \A k \in Keys :
              (\E c \in Callers : holder[k] = c /\ requests[c].at = n) <=> holder[k] \in D
        OBVIOUS
      <3> QED  BY <1>4, <3>1 DEF Restart
    <2>3. Die(D)
      BY <1>4, <2>1, <2>2 DEF Restart, Die
    <2> QED  BY <2>3
  <1>5. ASSUME NEW c \in Callers,
               \/ Initialize(c)
               \/ \E tool \in {"get_quote", "purchase"} : CallTool(c, tool)
        PROVE  LimiterMoves
    <2>1. \E m, k : consume(c, m, k)
      BY <1>5 DEF Initialize, CallTool
    <2> QED  BY <1>1, <2>1
  <1>6. ASSUME NEW c \in Callers,
               \/ Turned(c) \/ Problem(c)
               \/ \E s \in Sessions : createSession(c, s)
               \/ \E q \in Quotes, a \in Sessions : priceBasket(c, q, a)
               \/ \E q \in Quotes, i \in Intents : purchase(c, q, i)
        PROVE  LimiterMoves
    BY <1>6, <1>3 DEF Turned, Problem, createSession, priceBasket, purchase, Allowed
  <1>7. ASSUME NEW c \in Callers,
               \/ \E n \in Instances, s \in Sessions : handleMcp(c, n, s)
               \/ Respond(c) \/ Unauthenticated(c) \/ Shutdown(c) \/ revokeSession(c)
               \/ remember(c) \/ authorize(c) \/ deny(c) \/ TellVerdict(c) \/ ToolFailed(c)
        PROVE  LimiterMoves
    BY <1>7 DEF handleMcp, Respond, Unauthenticated, Shutdown, revokeSession, remember,
         authorize, deny, TellVerdict, ToolFailed, BeginEntry
  <1>8. ASSUME \/ \E s \in Sessions : Expire(s)
               \/ UNCHANGED mcpVars
        PROVE  LimiterMoves
    BY <1>8 DEF Expire, mcpVars
  <1> QED
    BY <1>2, <1>4, <1>5, <1>6, <1>7, <1>8 DEF McpNext

(* What a transaction in progress works with is well typed. *)
LEMMA CallTypes ==
  ASSUME LimitTypeOK, HeldIsRead, NEW c \in Callers, calls[c].pc # "idle"
  PROVE  /\ calls[c].merchant \in Merchants /\ calls[c].key \in Keys
         /\ calls[c].start \in Nat /\ calls[c].available \in Int
         /\ Visible(c) \in [merchant : Merchants, tokens : Int, refilled_at : Nat]
         /\ Accrued(Visible(c), calls[c].key, calls[c].start) \in Int
  <1>1. calls[c] \in Call
    BY DEF LimitTypeOK
  <1>2. <<calls[c].merchant, calls[c].key>> \in Merchants \X Keys
    BY DEF HeldIsRead
  <1>3. /\ calls[c].merchant \in Merchants /\ calls[c].key \in Keys
        /\ calls[c].start \in Nat /\ calls[c].available \in Int
    BY <1>1, <1>2 DEF Call
  <1>4. Full(calls[c].key) \in Int
    BY <1>3, BucketTypes
  <1>5. buckets[calls[c].key] \in Row
    BY <1>3 DEF LimitTypeOK
  <1>6. Visible(c) \in [merchant : Merchants, tokens : Int, refilled_at : Nat]
    BY <1>3, <1>4, <1>5 DEF Visible, Exists, NewBucket, Row
  <1>7. Accrued(Visible(c), calls[c].key, calls[c].start) \in Int
    BY <1>3, <1>4, <1>6 DEF Accrued
  <1> QED  BY <1>3, <1>6, <1>7

LEMMA LimitTypeKept ==
  ASSUME LimitTypeOK, HeldIsRead, LimiterMoves
  PROVE  LimitTypeOK'
  <1>1. CASE UNCHANGED limits
    BY <1>1 DEF LimitTypeOK, limits
  <1>2. CASE Tick
    BY <1>2 DEF LimitTypeOK, Tick
  <1>3. ASSUME NEW D \in SUBSET Callers, Die(D)
        PROVE  LimitTypeOK'
    <2>1. NoCall \in Call
      BY DEF NoCall, Call
    <2> QED  BY <1>3, <2>1 DEF LimitTypeOK, Die
  <1>4. ASSUME NEW c \in Callers, LimitStep(c)
        PROVE  LimitTypeOK'
    <2> DEFINE k == calls[c].key
               m == calls[c].merchant
    <2>1. CASE \E mm \in Merchants, kk \in Keys : consume(c, mm, kk)
      <3>1. PICK mm \in Merchants, kk \in Keys : consume(c, mm, kk)
        BY <2>1
      <3>2. [pc |-> "insert", merchant |-> mm, key |-> kk, start |-> clock,
             available |-> 0] \in Call
        BY DEF LimitTypeOK, Call
      <3> QED  BY <3>1, <3>2 DEF consume, LimitTypeOK
    <2>2. ASSUME NEW p \in {"select", "update", "allowed", "refused", "failed"},
                 calls' = [calls EXCEPT ![c].pc = p]
          PROVE  calls' \in [Callers -> Call]
      BY <2>2 DEF LimitTypeOK, Call
    <2>3. Released(c) \in [Keys -> Callers \cup {None}]
      BY DEF Released, LimitTypeOK
    <2>4. CASE insertBucket(c)
      BY <2>2, <2>4 DEF insertBucket, LimitTypeOK
    <2>5. CASE lockBucket(c)
      <3>1. calls[c].pc # "idle"
        BY <2>5 DEF lockBucket
      <3>2. Accrued(Visible(c), k, calls[c].start) \in Int
        BY <3>1, CallTypes
      <3>3. calls' \in [Callers -> Call]
        <4>1. CASE Visible(c).merchant = m
          <5> DEFINE a == Accrued(Visible(c), k, calls[c].start)
                     locked == [calls[c] EXCEPT !.pc = "update", !.available = a]
          <5>1. calls[c] \in Call
            BY DEF LimitTypeOK
          <5>2. locked \in Call
            <6> HIDE DEF a
            <6> QED  BY <5>1, <3>2 DEF Call, a
          <5>3. calls' = [calls EXCEPT ![c] = locked]
            BY <2>5, <4>1 DEF lockBucket, LimitTypeOK
          <5> HIDE DEF locked
          <5> QED  BY <5>2, <5>3 DEF LimitTypeOK
        <4>2. CASE Visible(c).merchant # m
          BY <2>2, <2>5, <4>2 DEF lockBucket
        <4> QED  BY <4>1, <4>2
      <3>4. holder' \in [Keys -> Callers \cup {None}]
        BY <2>5 DEF lockBucket, LimitTypeOK
      <3> QED  BY <2>5, <3>3, <3>4 DEF lockBucket, LimitTypeOK
    <2>6. ASSUME NEW left \in Int, calls[c].pc = "update", Settle(c, left)
          PROVE  /\ buckets' \in [Keys -> Row]
                 /\ holder' \in [Keys -> Callers \cup {None}]
      <3>1. m \in Merchants /\ calls[c].start \in Nat
        BY <2>6, CallTypes
      <3>2. [merchant |-> m, tokens |-> left, refilled_at |-> calls[c].start] \in Row
        BY <3>1 DEF Row
      <3> QED  BY <2>3, <2>6, <3>2 DEF Settle, LimitTypeOK
    <2>7. CASE Admit(c)
      <3>1. /\ calls[c].available \in Int /\ k \in Keys /\ m \in Merchants
            /\ calls[c].start \in Nat
        BY <2>7, CallTypes DEF Admit
      <3>2. calls[c].available - Token(k) \in Int
        BY <3>1, BucketTypes
      <3>3. Append(admitted[<<m, k>>], calls[c].start) \in Seq(Nat)
        BY <3>1, AppendProperties DEF LimitTypeOK
      <3> QED  BY <2>2, <2>6, <2>7, <3>2, <3>3 DEF Admit, LimitTypeOK
    <2>8. CASE Refuse(c)
      <3>1. calls[c].available \in Int
        BY <2>8, CallTypes DEF Refuse
      <3> QED  BY <2>2, <2>6, <2>8, <3>1 DEF Refuse, LimitTypeOK
    <2>9. CASE FailClosed(c)
      BY <2>2, <2>3, <2>9 DEF FailClosed, LimitTypeOK
    <2>10. CASE Answered(c)
      <3>1. NoCall \in Call
        BY DEF NoCall, Call
      <3> QED  BY <2>10, <3>1 DEF Answered, LimitTypeOK
    <2> QED
      BY <1>4, <2>1, <2>4, <2>5, <2>7, <2>8, <2>9, <2>10 DEF LimitStep, Transact
  <1> QED  BY <1>1, <1>2, <1>3, <1>4 DEF LimiterMoves

-----------------------------------------------------------------------------
(* A transaction that is about to write has read what the row holds. *)

Reads(c) ==
  /\ calls[c].pc # "idle" =>
       <<calls[c].merchant, calls[c].key>> \in Merchants \X Keys
  /\ calls[c].pc \in {"insert", "select"} => calls[c].available = 0
  /\ calls[c].pc = "select" => Exists(calls[c].key) \/ holder[calls[c].key] = c
  /\ calls[c].pc = "update" =>
       IF Visible(c).merchant = calls[c].merchant
       THEN /\ holder[calls[c].key] = c
            /\ calls[c].available = Accrued(Visible(c), calls[c].key, calls[c].start)
       ELSE calls[c].available = 0

LEMMA HeldIsReads == HeldIsRead <=> \A c \in Callers : Reads(c)
  BY DEF HeldIsRead, Reads

(* Nothing that c relies on is changed: rows change their merchant never,  *)
(* and the rows c holds not at all.                                        *)
Untouched(c) ==
  /\ calls'[c] = calls[c]
  /\ \A k \in Keys : /\ holder[k] = c => holder'[k] = c /\ buckets'[k] = buckets[k]
                     /\ Exists(k) => buckets'[k].merchant = buckets[k].merchant

LEMMA UntouchedReads ==
  ASSUME NEW c \in Callers, Reads(c), Untouched(c)
  PROVE  Reads(c)'
  <1> DEFINE k == calls[c].key
             m == calls[c].merchant
  <1>1. calls'[c] = calls[c]
    BY DEF Untouched
  <1>2. CASE calls[c].pc \notin {"select", "update"}
    BY <1>1, <1>2 DEF Reads
  <1>3. CASE calls[c].pc \in {"select", "update"}
    <2>1. k \in Keys /\ m \in Merchants
      BY <1>3 DEF Reads
    <2>2. /\ holder[k] = c => holder'[k] = c /\ buckets'[k] = buckets[k]
          /\ Exists(k) => buckets'[k].merchant = buckets[k].merchant
      BY <2>1 DEF Untouched
    <2>3. Exists(k) => Exists(k)'
      BY <2>2, <1>1 DEF Exists
    <2>4. CASE calls[c].pc = "select"
      BY <1>1, <2>1, <2>2, <2>3, <2>4 DEF Reads
    <2>5. CASE calls[c].pc = "update" /\ Visible(c).merchant = m
      <3>1. holder[k] = c
        BY <2>5 DEF Reads
      <3>2. Visible(c)' = Visible(c)
        BY <1>1, <2>2, <3>1 DEF Visible, Exists, NewBucket, Full
      <3>3. Accrued(Visible(c), k, calls[c].start)' = Accrued(Visible(c), k, calls[c].start)
        BY <1>1, <3>2 DEF Accrued, Full
      <3> QED  BY <1>1, <2>1, <2>2, <2>5, <3>1, <3>2, <3>3 DEF Reads
    <2>6. CASE calls[c].pc = "update" /\ Visible(c).merchant # m
      <3>1. Exists(k)
        BY <2>6 DEF Visible, NewBucket
      <3>2. Visible(c)'.merchant = Visible(c).merchant
        BY <1>1, <2>2, <2>3, <3>1 DEF Visible
      <3> QED  BY <1>1, <2>1, <2>6, <3>2 DEF Reads
    <2> QED  BY <1>3, <2>4, <2>5, <2>6
  <1> QED  BY <1>2, <1>3

(* A step of one transaction leaves what the others rely on. *)
LEMMA OthersUntouched ==
  ASSUME LimitTypeOK, HeldIsRead, NEW c \in Callers, LimitStep(c),
         NEW d \in Callers, d # c
  PROVE  Untouched(d)
  <1>1. d # None /\ calls \in [Callers -> Call] /\ holder \in [Keys -> Callers \cup {None}]
    BY BucketTypes DEF LimitTypeOK
  <1> DEFINE k == calls[c].key
  <1>2. ASSUME UNCHANGED <<holder, buckets>>, calls'[d] = calls[d]
        PROVE  Untouched(d)
    BY <1>2 DEF Untouched
  <1>3. CASE \E mm \in Merchants, kk \in Keys : consume(c, mm, kk)
    BY <1>1, <1>2, <1>3 DEF consume
  <1>4. CASE insertBucket(c)
    <2>1. Exists(k) \/ holder[k] = None
      BY <1>4 DEF insertBucket
    <2>2. ASSUME NEW kk \in Keys, holder[kk] = d
          PROVE  holder'[kk] = d
      <3>1. CASE Exists(k)
        BY <1>4, <2>2, <3>1 DEF insertBucket
      <3>2. CASE ~Exists(k)
        BY <1>1, <1>4, <2>1, <2>2, <3>2 DEF insertBucket
      <3> QED  BY <3>1, <3>2
    <2> QED  BY <1>1, <1>4, <2>2 DEF insertBucket, Untouched
  <1>5. CASE lockBucket(c)
    <2>1. ASSUME NEW kk \in Keys, holder[kk] = d
          PROVE  holder'[kk] = d
      BY <1>1, <1>5, <2>1 DEF lockBucket
    <2>2. calls'[d] = calls[d]
      BY <1>1, <1>5 DEF lockBucket
    <2> QED  BY <1>5, <2>1, <2>2 DEF lockBucket, Untouched
  <1>6. ASSUME NEW kk \in Keys, holder[kk] = d
        PROVE  Released(c)[kk] = d
    BY <1>6 DEF Released
  <1>7. ASSUME NEW left, calls[c].pc = "update", Settle(c, left), calls'[d] = calls[d]
        PROVE  Untouched(d)
    <2>1. k \in Keys /\ (Visible(c).merchant = calls[c].merchant => holder[k] = c)
      BY <1>7 DEF HeldIsRead
    <2>2. ASSUME NEW kk \in Keys
          PROVE  /\ holder[kk] = d => buckets'[kk] = buckets[kk]
                 /\ Exists(kk) => buckets'[kk].merchant = buckets[kk].merchant
      <3>1. CASE Visible(c).merchant = calls[c].merchant /\ kk = k
        <4>1. holder[kk] # d
          BY <2>1, <3>1
        <4>2. buckets'[k].merchant = calls[c].merchant
          BY <1>7, <2>1, <3>1 DEF Settle, LimitTypeOK
        <4>3. Exists(k) => Visible(c) = buckets[k]
          BY DEF Visible
        <4> QED  BY <3>1, <4>1, <4>2, <4>3
      <3>2. CASE Visible(c).merchant = calls[c].merchant /\ kk # k
        BY <1>7, <3>2 DEF Settle, LimitTypeOK
      <3>3. CASE Visible(c).merchant # calls[c].merchant
        BY <1>7, <3>3 DEF Settle
      <3> QED  BY <3>1, <3>2, <3>3
    <2> QED  BY <1>6, <1>7, <2>2 DEF Settle, Untouched
  <1>8. CASE Admit(c)
    BY <1>1, <1>7, <1>8 DEF Admit
  <1>9. CASE Refuse(c)
    BY <1>1, <1>7, <1>9 DEF Refuse
  <1>10. CASE FailClosed(c)
    BY <1>1, <1>6, <1>10 DEF FailClosed, Untouched
  <1>11. CASE Answered(c)
    BY <1>1, <1>2, <1>11 DEF Answered
  <1> QED
    BY <1>3, <1>4, <1>5, <1>8, <1>9, <1>10, <1>11 DEF LimitStep, Transact

(* The transaction that steps has read what it relies on. *)
LEMMA OwnReads ==
  ASSUME LimitTypeOK, HeldIsRead, NEW c \in Callers, LimitStep(c)
  PROVE  Reads(c)'
  <1> DEFINE k == calls[c].key
             m == calls[c].merchant
  <1>1. calls \in [Callers -> Call] /\ holder \in [Keys -> Callers \cup {None}]
    BY DEF LimitTypeOK
  <1>2. CASE \E mm \in Merchants, kk \in Keys : consume(c, mm, kk)
    <2>1. PICK mm \in Merchants, kk \in Keys : consume(c, mm, kk)
      BY <1>2
    <2>2. calls'[c] = [pc |-> "insert", merchant |-> mm, key |-> kk, start |-> clock,
                       available |-> 0]
      BY <1>1, <2>1 DEF consume
    <2> QED  BY <2>2 DEF Reads
  <1>3. CASE insertBucket(c)
    <2>1. k \in Keys /\ m \in Merchants /\ calls[c].available = 0
      BY <1>3 DEF insertBucket, HeldIsRead
    <2>2. calls'[c] = [calls[c] EXCEPT !.pc = "select"]
      BY <1>1, <1>3 DEF insertBucket
    <2>3. /\ calls'[c].pc = "select" /\ calls'[c].key = k /\ calls'[c].merchant = m
          /\ calls'[c].available = 0
      BY <1>1, <2>1, <2>2 DEF Call
    <2>4. Exists(k)' \/ holder'[k] = c
      BY <1>1, <1>3, <2>1 DEF insertBucket, Exists
    <2>5. Exists(calls[c].key)' \/ holder'[calls'[c].key] = c
      BY <2>3, <2>4 DEF Exists
    <2> QED  BY <2>1, <2>3, <2>5 DEF Reads
  <1>4. CASE lockBucket(c)
    <2>1. k \in Keys /\ m \in Merchants /\ calls[c].available = 0
      BY <1>4 DEF lockBucket, HeldIsRead
    <2> DEFINE a == Accrued(Visible(c), k, calls[c].start)
    <2>2. CASE Visible(c).merchant = m
      <3>1. calls'[c] = [calls[c] EXCEPT !.pc = "update", !.available = a]
        BY <1>1, <1>4, <2>2 DEF lockBucket
      <3>2. /\ calls'[c].pc = "update" /\ calls'[c].key = k /\ calls'[c].merchant = m
            /\ calls'[c].available = a /\ calls'[c].start = calls[c].start
        <4> HIDE DEF a
        <4> QED  BY <1>1, <3>1 DEF Call
      <3>3. holder'[k] = c
        BY <1>1, <1>4, <2>1, <2>2 DEF lockBucket
      <3>4. Visible(c)' = Visible(c)
        BY <1>4, <3>2 DEF lockBucket, Visible, Exists, NewBucket, Full
      <3>5. Accrued(Visible(c), calls[c].key, calls[c].start)' = a
        BY <3>2, <3>4 DEF Accrued, Full
      <3> QED  BY <2>1, <2>2, <3>2, <3>3, <3>4, <3>5 DEF Reads
    <2>3. CASE Visible(c).merchant # m
      <3>1. calls'[c] = [calls[c] EXCEPT !.pc = "update"]
        BY <1>1, <1>4, <2>3 DEF lockBucket
      <3>2. /\ calls'[c].pc = "update" /\ calls'[c].key = k /\ calls'[c].merchant = m
            /\ calls'[c].available = 0 /\ calls'[c].start = calls[c].start
        BY <1>1, <2>1, <3>1 DEF Call
      <3>3. Visible(c)' = Visible(c)
        BY <1>4, <3>2 DEF lockBucket, Visible, Exists, NewBucket, Full
      <3> QED  BY <2>1, <2>3, <3>2, <3>3 DEF Reads
    <2> QED  BY <2>2, <2>3
  <1>5. ASSUME NEW p \in {"allowed", "refused", "failed"}, calls[c].pc # "idle",
               calls' = [calls EXCEPT ![c].pc = p]
        PROVE  Reads(c)'
    <2>1. calls'[c] = [calls[c] EXCEPT !.pc = p]
      BY <1>1, <1>5
    <2>2. calls'[c].pc = p /\ calls'[c].key = k /\ calls'[c].merchant = m
      BY <1>1, <2>1 DEF Call
    <2>3. <<m, k>> \in Merchants \X Keys
      BY <1>5 DEF HeldIsRead
    <2> QED  BY <2>2, <2>3 DEF Reads
  <1>6. CASE Admit(c) \/ Refuse(c) \/ FailClosed(c)
    BY <1>5, <1>6 DEF Admit, Refuse, FailClosed
  <1>7. CASE Answered(c)
    <2>1. calls'[c] = NoCall
      BY <1>1, <1>7 DEF Answered
    <2> QED  BY <2>1 DEF Reads, NoCall
  <1> QED
    BY <1>2, <1>3, <1>4, <1>6, <1>7 DEF LimitStep, Transact

LEMMA HeldIsReadKept ==
  ASSUME LimitTypeOK, HeldIsRead, LimiterMoves
  PROVE  HeldIsRead'
  <1> SUFFICES ASSUME NEW c \in Callers
               PROVE  Reads(c)'
    BY DEF HeldIsRead, Reads
  <1>1. Reads(c)
    BY HeldIsReads
  <1>2. CASE UNCHANGED limits \/ Tick
    BY <1>1, <1>2, UntouchedReads DEF limits, Tick, Untouched
  <1>3. ASSUME NEW D \in SUBSET Callers, Die(D)
        PROVE  Reads(c)'
    <2>1. CASE c \in D
      <3>1. calls'[c] = NoCall
        BY <1>3, <2>1 DEF Die
      <3> QED  BY <3>1 DEF Reads, NoCall
    <2>2. CASE c \notin D
      BY <1>1, <1>3, <2>2, UntouchedReads DEF Die, Untouched
    <2> QED  BY <2>1, <2>2
  <1>4. ASSUME NEW d \in Callers, LimitStep(d)
        PROVE  Reads(c)'
    BY <1>1, <1>4, OthersUntouched, UntouchedReads, OwnReads
  <1> QED  BY <1>2, <1>3, <1>4 DEF LimiterMoves
-----------------------------------------------------------------------------
(* A row holds what the log of its key leaves. *)

(* What a transaction about to write has available: less than a full       *)
(* bucket, no more than the log leaves at its start, and, unless the       *)
(* bucket is full, exactly that.                                           *)
LEMMA AvailableIsLeft ==
  ASSUME LimitTypeOK, HeldIsRead, BucketIsLog, NEW c \in Callers,
         calls[c].pc = "update", Visible(c).merchant = calls[c].merchant
  PROVE  LET k == calls[c].key
             log == admitted[<<calls[c].merchant, k>>]
             a == calls[c].available
         IN  /\ a <= Full(k)
             /\ Bounded(Full(k), Token(k), log, a, calls[c].start)
             /\ \/ a = Full(k)
                \/ Exact(Full(k), Token(k), log, a, calls[c].start)
  <1> DEFINE k == calls[c].key
             m == calls[c].merchant
             log == admitted[<<m, k>>]
             a == calls[c].available
             start == calls[c].start
             b == Visible(c)
  <1>1. /\ m \in Merchants /\ k \in Keys /\ start \in Nat /\ a \in Int
        /\ b \in [merchant : Merchants, tokens : Int, refilled_at : Nat]
    BY CallTypes
  <1>2. Full(k) \in Nat /\ Token(k) \in Nat /\ m # None
    BY <1>1, BucketTypes
  <1>3. log \in Seq(Nat)
    BY <1>1 DEF LimitTypeOK
  <1>4. a = Accrued(b, k, start)
    BY DEF HeldIsRead
  <1>5. CASE Exists(k)
    <2>1. b = buckets[k] /\ buckets[k].merchant = m
      BY <1>5 DEF Visible
    <2>2. /\ Bounded(Full(k), Token(k), log, b.tokens, b.refilled_at)
          /\ Exact(Full(k), Token(k), log, b.tokens, b.refilled_at)
      BY <1>1, <2>1 DEF BucketIsLog
    <2>3. PICK n \in Nat : Log(log, n)
      BY <1>3, LogFacts DEF Log
    <2>4. PICK F \in Int, T \in Int : F = Full(k) /\ T = Token(k)
      BY <1>2
    <2>5. PICK tokens \in Int, ref \in Int, s \in Int :
            tokens = b.tokens /\ ref = b.refilled_at /\ s = start
      BY <1>1
    <2>6. a = IF tokens + (s - ref) <= F THEN tokens + (s - ref) ELSE F
      BY <1>4, <2>4, <2>5 DEF Accrued
    <2>7. Bounded(F, T, log, tokens, ref) /\ Exact(F, T, log, tokens, ref)
      BY <2>2, <2>4, <2>5
    <2> HIDE DEF log, a, b, start
    <2>8. /\ a <= F
          /\ Bounded(F, T, log, a, s)
          /\ a = F \/ Exact(F, T, log, a, s)
      BY <1>1, <2>3, <2>6, <2>7, AccruedWithin DEF a
    <2> QED  BY <2>4, <2>5, <2>8 DEF log, a, start
  <1>6. CASE ~Exists(k)
    <2>1. b = NewBucket(m, k, start) /\ buckets[k].merchant # m
      BY <1>2, <1>6 DEF Visible, Exists
    <2>2. a = Full(k)
      BY <1>1, <1>2, <1>4, <2>1 DEF Accrued, NewBucket
    <2>3. log = <<>>
      BY <1>1, <2>1 DEF BucketIsLog
    <2>4. Bounded(Full(k), Token(k), log, a, start)
      BY <2>3 DEF Bounded
    <2> QED  BY <1>2, <2>2, <2>4
  <1> QED  BY <1>5, <1>6

(* Rows and logs as the writer of one leaves them. *)
Written(c, left, log) ==
  LET k == calls[c].key
      m == calls[c].merchant
  IN  /\ buckets' = [buckets EXCEPT ![k] = [merchant |-> m, tokens |-> left,
                                            refilled_at |-> calls[c].start]]
      /\ admitted' = [admitted EXCEPT ![<<m, k>>] = log]

LEMMA WrittenIsLog ==
  ASSUME LimitTypeOK, HeldIsRead, BucketIsLog, NEW c \in Callers,
         calls[c].pc = "update", Visible(c).merchant = calls[c].merchant,
         NEW left, NEW log, Written(c, left, log),
         LET k == calls[c].key
         IN  /\ Bounded(Full(k), Token(k), log, left, calls[c].start)
             /\ Exact(Full(k), Token(k), log, left, calls[c].start)
  PROVE  BucketIsLog'
  <1> DEFINE k == calls[c].key
             m == calls[c].merchant
             row == [merchant |-> m, tokens |-> left, refilled_at |-> calls[c].start]
  <1>1. m \in Merchants /\ k \in Keys /\ None \notin Merchants
    BY CallTypes, BucketTypes
  <1>2. buckets[k].merchant \in {None, m}
    BY DEF Visible, Exists
  <1>3. /\ buckets' = [buckets EXCEPT ![k] = row]
        /\ admitted' = [admitted EXCEPT ![<<m, k>>] = log]
        /\ DOMAIN buckets = Keys /\ DOMAIN admitted = Merchants \X Keys
    BY DEF Written, LimitTypeOK
  <1> SUFFICES ASSUME NEW mm \in Merchants, NEW kk \in Keys
               PROVE  LET b == buckets'[kk]
                          l == admitted'[<<mm, kk>>]
                      IN  IF b.merchant = mm
                          THEN /\ Bounded(Full(kk), Token(kk), l, b.tokens, b.refilled_at)
                               /\ Exact(Full(kk), Token(kk), l, b.tokens, b.refilled_at)
                          ELSE l = <<>>
    BY DEF BucketIsLog, Full, Token, Bounded, Exact, Left
  <1> HIDE DEF row
  <1>4. CASE mm = m /\ kk = k
    <2>1. buckets'[kk] = row /\ admitted'[<<mm, kk>>] = log
      BY <1>1, <1>3, <1>4
    <2>2. /\ row.merchant = m /\ row.tokens = left
          /\ row.refilled_at = calls[c].start
      BY DEF row
    <2> QED  BY <1>4, <2>1, <2>2
  <1>5. CASE mm # m /\ kk = k
    <2>1. buckets'[kk].merchant = m /\ admitted'[<<mm, kk>>] = admitted[<<mm, kk>>]
      BY <1>1, <1>3, <1>5 DEF row
    <2>2. buckets[kk].merchant # mm
      BY <1>1, <1>2, <1>5
    <2> QED  BY <1>5, <2>1, <2>2 DEF BucketIsLog
  <1>6. CASE kk # k
    <2>1. buckets'[kk] = buckets[kk] /\ admitted'[<<mm, kk>>] = admitted[<<mm, kk>>]
      BY <1>1, <1>3, <1>6
    <2> QED  BY <2>1 DEF BucketIsLog
  <1> QED  BY <1>4, <1>5, <1>6

(* An admission appends to the log of its key and takes a token. *)
LEMMA AdmitIsWritten ==
  ASSUME LimitTypeOK, HeldIsRead, BucketIsLog, NEW c \in Callers, Admit(c)
  PROVE  LET k == calls[c].key
             log == admitted[<<calls[c].merchant, k>>]
             new == Append(log, calls[c].start)
         IN  /\ calls[c].pc = "update" /\ Visible(c).merchant = calls[c].merchant
             /\ Written(c, calls[c].available - Token(k), new)
             /\ \E n \in Nat : Log(log, n) /\ Grown(new, log, n, calls[c].start)
  <1> DEFINE k == calls[c].key
             m == calls[c].merchant
             log == admitted[<<m, k>>]
  <1>1. calls[c].pc = "update" /\ calls[c].available >= Token(k)
    BY DEF Admit
  <1>2. m \in Merchants /\ k \in Keys /\ calls[c].start \in Nat
    BY <1>1, CallTypes
  <1>3. Token(k) \in Nat /\ Token(k) # 0
    BY <1>2, BucketTypes
  <1>4. Visible(c).merchant = m
    <2>1. calls[c].available # 0
      BY <1>1, <1>3
    <2> QED  BY <1>1, <2>1 DEF HeldIsRead
  <1>5. Written(c, calls[c].available - Token(k), Append(log, calls[c].start))
    BY <1>2, <1>4 DEF Admit, Settle, Written, LimitTypeOK
  <1>6. log \in Seq(Nat)
    BY <1>2 DEF LimitTypeOK
  <1>7. PICK n \in Nat : Log(log, n)
    BY <1>6, LogFacts DEF Log
  <1>8. Grown(Append(log, calls[c].start), log, n, calls[c].start)
    BY <1>2, <1>7, AppendedLog
  <1> QED  BY <1>1, <1>4, <1>5, <1>7, <1>8

LEMMA AdmitIsLog ==
  ASSUME LimitTypeOK, HeldIsRead, BucketIsLog, NEW c \in Callers, Admit(c)
  PROVE  BucketIsLog'
  <1> DEFINE k == calls[c].key
             m == calls[c].merchant
             a == calls[c].available
             s == calls[c].start
             log == admitted[<<m, k>>]
             new == Append(log, s)
  <1>1. /\ calls[c].pc = "update" /\ Visible(c).merchant = m
        /\ Written(c, a - Token(k), new)
        /\ \E n \in Nat : Log(log, n) /\ Grown(new, log, n, s)
    BY AdmitIsWritten
  <1>2. k \in Keys /\ a \in Int /\ s \in Nat
    BY <1>1, CallTypes
  <1>3. /\ a <= Full(k)
        /\ Bounded(Full(k), Token(k), log, a, s)
        /\ a = Full(k) \/ Exact(Full(k), Token(k), log, a, s)
    BY <1>1, AvailableIsLeft
  <1>4. PICK F \in Int, T \in Int : F = Full(k) /\ T = Token(k)
    BY <1>2, BucketTypes
  <1>5. PICK n \in Nat : Log(log, n) /\ Grown(new, log, n, s)
    BY <1>1
  <1>6. Bounded(F, T, new, a - T, s) /\ Exact(F, T, new, a - T, s)
    <2>1. /\ a <= F /\ Bounded(F, T, log, a, s)
          /\ a = F \/ Exact(F, T, log, a, s)
      BY <1>3, <1>4
    <2> HIDE DEF log, new, a, s
    <2> QED  BY <1>2, <1>5, <2>1, AdmitLog DEF a
  <1>7. Bounded(Full(k), Token(k), new, a - Token(k), s)
          /\ Exact(Full(k), Token(k), new, a - Token(k), s)
    BY <1>4, <1>6
  <1> QED  BY <1>1, <1>7, WrittenIsLog

(* A refusal writes down what has accrued, or, without a row that it sees, *)
(* nothing.                                                                *)
LEMMA RefuseIsExact ==
  ASSUME LimitTypeOK, HeldIsRead, BucketIsLog, NEW c \in Callers, Refuse(c),
         Visible(c).merchant = calls[c].merchant
  PROVE  LET k == calls[c].key
             log == admitted[<<calls[c].merchant, k>>]
         IN  /\ Bounded(Full(k), Token(k), log, calls[c].available, calls[c].start)
             /\ Exact(Full(k), Token(k), log, calls[c].available, calls[c].start)
  <1> DEFINE k == calls[c].key
  <1>1. calls[c].pc = "update" /\ calls[c].available < Token(k)
    BY DEF Refuse
  <1>2. k \in Keys /\ calls[c].available \in Int
    BY <1>1, CallTypes
  <1>3. calls[c].available # Full(k)
    BY <1>1, <1>2, BucketTypes
  <1> QED  BY <1>1, <1>3, AvailableIsLeft

LEMMA SameLogs ==
  ASSUME BucketIsLog, UNCHANGED <<buckets, admitted>>
  PROVE  BucketIsLog'
  <1> SUFFICES ASSUME NEW m \in Merchants, NEW k \in Keys
               PROVE  LET b == buckets'[k]
                          log == admitted'[<<m, k>>]
                      IN  IF b.merchant = m
                          THEN /\ Bounded(Full(k), Token(k), log, b.tokens, b.refilled_at)
                               /\ Exact(Full(k), Token(k), log, b.tokens, b.refilled_at)
                          ELSE log = <<>>
    BY DEF BucketIsLog, Full, Token, Bounded, Exact, Left
  <1>1. buckets' = buckets /\ admitted' = admitted
    OBVIOUS
  <1> QED  BY <1>1 DEF BucketIsLog

LEMMA RefuseIsLog ==
  ASSUME LimitTypeOK, HeldIsRead, BucketIsLog, NEW c \in Callers, Refuse(c)
  PROVE  BucketIsLog'
  <1> DEFINE k == calls[c].key
             m == calls[c].merchant
             log == admitted[<<m, k>>]
  <1>1. calls[c].pc = "update" /\ UNCHANGED admitted
    BY DEF Refuse
  <1>2. CASE Visible(c).merchant = m
    <2>1. admitted = [admitted EXCEPT ![<<m, k>>] = log]
      BY DEF LimitTypeOK
    <2>2. Written(c, calls[c].available, log)
      BY <1>1, <1>2, <2>1 DEF Refuse, Settle, Written
    <2> QED  BY <1>1, <1>2, <2>2, RefuseIsExact, WrittenIsLog
  <1>3. CASE Visible(c).merchant # m
    <2>1. UNCHANGED <<buckets, admitted>>
      BY <1>1, <1>3 DEF Refuse, Settle
    <2> QED  BY <2>1, SameLogs
  <1> QED  BY <1>2, <1>3

LEMMA BucketIsLogKept ==
  ASSUME LimitTypeOK, HeldIsRead, BucketIsLog, LimiterMoves
  PROVE  BucketIsLog'
  <1>1. ASSUME UNCHANGED <<buckets, admitted>>
        PROVE  BucketIsLog'
    BY <1>1, SameLogs
  <1>2. ASSUME NEW c \in Callers, LimitStep(c)
        PROVE  BucketIsLog'
    <2>1. CASE Admit(c)
      BY <2>1, AdmitIsLog
    <2>2. CASE Refuse(c)
      BY <2>2, RefuseIsLog
    <2>3. CASE \/ \E m \in Merchants, k \in Keys : consume(c, m, k)
               \/ insertBucket(c) \/ lockBucket(c) \/ FailClosed(c) \/ Answered(c)
      BY <1>1, <2>3 DEF consume, insertBucket, lockBucket, FailClosed, Answered
    <2> QED  BY <1>2, <2>1, <2>2, <2>3 DEF LimitStep, Transact
  <1>3. ASSUME UNCHANGED limits \/ Tick \/ \E D \in SUBSET Callers : Die(D)
        PROVE  BucketIsLog'
    BY <1>1, <1>3 DEF limits, Tick, Die
  <1> QED  BY <1>2, <1>3 DEF LimiterMoves

(* What an admission adds fits, and nothing else adds. *)
LEMMA AdmittedWithinKept ==
  ASSUME LimitTypeOK, HeldIsRead, BucketIsLog, AdmittedWithin, LimiterMoves
  PROVE  AdmittedWithin'
  <1> SUFFICES ASSUME NEW mm \in Merchants, NEW kk \in Keys
               PROVE  Fits(Full(kk), Token(kk), admitted'[<<mm, kk>>])
    BY DEF AdmittedWithin, Full, Token, Fits
  <1>1. ASSUME admitted' = admitted
        PROVE  Fits(Full(kk), Token(kk), admitted'[<<mm, kk>>])
    BY <1>1 DEF AdmittedWithin
  <1>2. ASSUME NEW c \in Callers, Admit(c)
        PROVE  Fits(Full(kk), Token(kk), admitted'[<<mm, kk>>])
    <2> DEFINE k == calls[c].key
               m == calls[c].merchant
               a == calls[c].available
               s == calls[c].start
               log == admitted[<<m, k>>]
               new == Append(log, s)
    <2>1. /\ calls[c].pc = "update" /\ Visible(c).merchant = m
          /\ Written(c, a - Token(k), new)
          /\ \E n \in Nat : Log(log, n) /\ Grown(new, log, n, s)
      BY <1>2, AdmitIsWritten
    <2>2. m \in Merchants /\ k \in Keys /\ a \in Int /\ s \in Nat /\ Token(k) <= a
      BY <1>2, <2>1, CallTypes DEF Admit
    <2>3. Bounded(Full(k), Token(k), log, a, s)
      BY <2>1, AvailableIsLeft
    <2>4. Fits(Full(k), Token(k), log)
      BY <2>2 DEF AdmittedWithin
    <2>5. PICK F \in Int, T \in Int : F = Full(k) /\ T = Token(k) /\ T <= F
      BY <2>2, BucketTypes
    <2>6. PICK n \in Nat : Log(log, n) /\ Grown(new, log, n, s)
      BY <2>1
    <2>7. Fits(F, T, new)
      <3>1. T <= a /\ Bounded(F, T, log, a, s) /\ Fits(F, T, log)
        BY <2>2, <2>3, <2>4, <2>5
      <3> HIDE DEF log, new, a, s
      <3> QED  BY <2>2, <2>5, <2>6, <3>1, AdmitFits DEF a
    <2>8. CASE mm = m /\ kk = k
      BY <2>1, <2>2, <2>5, <2>7, <2>8 DEF Written, LimitTypeOK
    <2>9. CASE <<mm, kk>> # <<m, k>>
      <3>1. admitted'[<<mm, kk>>] = admitted[<<mm, kk>>]
        BY <2>1, <2>9 DEF Written, LimitTypeOK
      <3> QED  BY <3>1 DEF AdmittedWithin
    <2> QED  BY <2>8, <2>9
  <1>3. ASSUME NEW c \in Callers, LimitStep(c), ~Admit(c)
        PROVE  admitted' = admitted
    BY <1>3 DEF LimitStep, Transact, consume, insertBucket, lockBucket, Refuse,
         FailClosed, Answered
  <1>4. ASSUME UNCHANGED limits \/ Tick \/ \E D \in SUBSET Callers : Die(D)
        PROVE  admitted' = admitted
    BY <1>4 DEF limits, Tick, Die
  <1> QED  BY <1>1, <1>2, <1>3, <1>4 DEF LimiterMoves

LEMMA LimitInvInit ==
  ASSUME Init
  PROVE  LimitInv
  <1>1. LimitTypeOK
    BY DEF Init, LimitTypeOK, NoBucket, Row, NoCall, Call
  <1>2. HeldIsRead
    BY DEF Init, HeldIsRead, NoCall
  <1>3. BucketIsLog /\ AdmittedWithin
    <2>1. ASSUME NEW m \in Merchants, NEW k \in Keys
          PROVE  /\ admitted[<<m, k>>] = <<>>
                 /\ buckets[k].merchant = None
                 /\ m # None
      BY BucketTypes DEF Init, NoBucket
    <2>2. ASSUME NEW F, NEW T
          PROVE  Fits(F, T, <<>>)
      BY DEF Fits
    <2> QED  BY <2>1, <2>2 DEF BucketIsLog, AdmittedWithin
  <1> QED  BY <1>1, <1>2, <1>3 DEF LimitInv

LEMMA LimitInvKept ==
  ASSUME LimitInv, LimiterMoves
  PROVE  LimitInv'
  BY LimitTypeKept, HeldIsReadKept, BucketIsLogKept, AdmittedWithinKept DEF LimitInv
-----------------------------------------------------------------------------
(* The door: types. *)

Requests ==
  [pc : {"idle", "entry", "createSession", "get_quote", "remember", "purchase",
         "authorize", "decided", "revoke"},
   at : Instances \cup {None}, session : Sessions \cup {None},
   quote : Quotes \cup {None}, intent : Intents \cup {None}]

(* A request goes on: its step changes its own record only. *)
LEMMA GotoType ==
  ASSUME McpTypeOK, NEW c \in Callers,
         NEW p \in {"entry", "createSession", "get_quote", "remember", "purchase",
                    "authorize", "decided", "revoke"},
         Goto(c, p)
  PROVE  /\ requests' \in [Callers -> Requests]
         /\ requests'[c] = [requests[c] EXCEPT !.pc = p]
         /\ \A d \in Callers \ {c} : requests'[d] = requests[d]
  <1>1. requests \in [Callers -> Requests]
    BY DEF McpTypeOK, Requests
  <1>2. [requests[c] EXCEPT !.pc = p] \in Requests
    BY <1>1 DEF Requests
  <1>3. requests' = [requests EXCEPT ![c] = [requests[c] EXCEPT !.pc = p]]
    BY <1>1 DEF Goto
  <1> QED  BY <1>1, <1>2, <1>3

LEMMA McpTypeKept ==
  ASSUME McpTypeOK, QuotesKnown, [McpNext]_mcpVars
  PROVE  McpTypeOK'
  <1> DEFINE Q == [mandate : Sessions \cup {None}, by : Sessions \cup {None},
                   consumed_by : Intents \cup {None}]
             H == [quote : Quotes \cup {None}, agent : Sessions \cup {None}]
             States == {"none", "live", "expired", "revoked"}
  <1>1. /\ sessions \in [Sessions -> States]
        /\ quotes \in [Quotes -> Q]
        /\ holds \in [Intents -> H]
        /\ quoteCache \in [Instances -> SUBSET (Sessions \X Quotes)]
        /\ requests \in [Callers -> Requests]
        /\ entries \in 0 .. MaxEntries
    BY DEF McpTypeOK, Requests
  <1>2. SUFFICES
          /\ sessions' \in [Sessions -> States]
          /\ quotes' \in [Quotes -> Q]
          /\ holds' \in [Intents -> H]
          /\ quoteCache' \in [Instances -> SUBSET (Sessions \X Quotes)]
          /\ requests' \in [Callers -> Requests]
          /\ entries' \in 0 .. MaxEntries
    BY DEF McpTypeOK, Requests
  <1>3. NoRequest \in Requests
    BY DEF NoRequest, Requests
  <1>4. ASSUME NEW c \in Callers,
               NEW p \in {"entry", "createSession", "get_quote", "remember", "purchase",
                          "authorize", "decided", "revoke"},
               Goto(c, p)
        PROVE  requests' \in [Callers -> Requests]
    BY <1>4, GotoType
  <1>5. ASSUME NEW c \in Callers, BeginEntry(c)
        PROVE  entries' \in 0 .. MaxEntries
    <2>1. MaxEntries \in Nat
      BY McpAssumption DEF McpAssumption
    <2> QED  BY <1>1, <1>5, <2>1 DEF BeginEntry
  <1>6. CASE UNCHANGED tools
    BY <1>1, <1>6 DEF tools
  <1>7. ASSUME NEW c \in Callers, NEW n \in Instances, NEW s \in Sessions,
               handleMcp(c, n, s)
        PROVE  requests' \in [Callers -> Requests]
    <2>1. [NoRequest EXCEPT !.pc = "entry", !.at = n, !.session = s] \in Requests
      BY DEF NoRequest, Requests
    <2> QED  BY <1>1, <1>7, <2>1 DEF handleMcp
  <1>8. ASSUME NEW c \in Callers, Respond(c)
        PROVE  requests' \in [Callers -> Requests]
    BY <1>1, <1>3, <1>8 DEF Respond
  <1>9. ASSUME NEW c \in Callers, requests' = Forgotten(c)
        PROVE  requests' \in [Callers -> Requests]
    <2>1. [requests[c] EXCEPT !.pc = "entry", !.quote = None, !.intent = None] \in Requests
      BY <1>1 DEF Requests
    <2>2. requests' = [requests EXCEPT ![c] =
            [requests[c] EXCEPT !.pc = "entry", !.quote = None, !.intent = None]]
      BY <1>1, <1>9 DEF Forgotten
    <2> QED  BY <1>1, <2>1, <2>2
  <1>10. CASE \E c \in Callers, n \in Instances, s \in Sessions : handleMcp(c, n, s)
    BY <1>1, <1>7, <1>10 DEF handleMcp
  <1>11. CASE \E c \in Callers : Respond(c)
    BY <1>1, <1>8, <1>11 DEF Respond
  <1>12. CASE \E c \in Callers : Initialize(c)
    BY <1>1, <1>4, <1>5, <1>12 DEF Initialize
  <1>13. CASE \E c \in Callers, tool \in {"get_quote", "purchase"} : CallTool(c, tool)
    BY <1>1, <1>4, <1>5, <1>13 DEF CallTool
  <1>14. CASE \E c \in Callers : Unauthenticated(c)
    BY <1>1, <1>5, <1>14 DEF Unauthenticated
  <1>15. CASE \E c \in Callers : Shutdown(c)
    BY <1>1, <1>4, <1>5, <1>15 DEF Shutdown
  <1>16. CASE \E c \in Callers : revokeSession(c)
    <2>1. PICK c \in Callers : revokeSession(c)
      BY <1>16
    <2>2. sessions' \in [Sessions -> States]
      BY <1>1, <2>1 DEF revokeSession
    <2> QED  BY <1>1, <1>4, <2>1, <2>2 DEF revokeSession
  <1>17. CASE \E c \in Callers : Turned(c)
    BY <1>1, <1>4, <1>17 DEF Turned
  <1>18. CASE \E c \in Callers, s \in Sessions : createSession(c, s)
    <2>1. PICK c \in Callers, s \in Sessions : createSession(c, s)
      BY <1>18
    <2>2. sessions' \in [Sessions -> States]
      BY <1>1, <2>1 DEF createSession
    <2> QED  BY <1>1, <1>4, <2>1, <2>2 DEF createSession
  <1>19. CASE \E c \in Callers, q \in Quotes, a \in Sessions : priceBasket(c, q, a)
    <2>1. PICK c \in Callers, q \in Quotes, a \in Sessions : priceBasket(c, q, a)
      BY <1>19
    <2>2. [mandate |-> a, by |-> requests[c].session, consumed_by |-> None] \in Q
      BY <1>1 DEF Requests
    <2>3. [requests[c] EXCEPT !.pc = "remember", !.quote = q] \in Requests
      BY <1>1 DEF Requests
    <2>4. requests' = [requests EXCEPT ![c] =
            [requests[c] EXCEPT !.pc = "remember", !.quote = q]]
      BY <1>1, <2>1 DEF priceBasket
    <2>5. requests' \in [Callers -> Requests]
      BY <1>1, <2>3, <2>4
    <2>6. quotes' \in [Quotes -> Q]
      BY <1>1, <2>1, <2>2 DEF priceBasket
    <2> QED  BY <1>1, <2>1, <2>5, <2>6 DEF priceBasket
  <1>20. CASE \E c \in Callers : remember(c)
    <2>1. PICK c \in Callers : remember(c)
      BY <1>20
    <2>2. requests[c].session \in Sessions /\ requests[c].quote \in Quotes
      BY <2>1 DEF remember, QuotesKnown
    <2> DEFINE n == requests[c].at
               x == <<requests[c].session, requests[c].quote>>
    <2>3. quoteCache' \in [Instances -> SUBSET (Sessions \X Quotes)]
      <3>1. PICK old \in SUBSET quoteCache[n] :
              quoteCache' = [quoteCache EXCEPT ![n] = (quoteCache[n] \ old) \cup {x}]
        BY <2>1 DEF remember
      <3>2. n \in Instances /\ x \in Sessions \X Quotes
        BY <2>1, <2>2 DEF remember, QuotesKnown
      <3>3. (quoteCache[n] \ old) \cup {x} \in SUBSET (Sessions \X Quotes)
        BY <1>1, <3>2
      <3> HIDE DEF n, x
      <3> QED  BY <1>1, <3>1, <3>3
    <2> QED  BY <1>1, <1>4, <2>1, <2>3 DEF remember
  <1>21. CASE \E c \in Callers, q \in Quotes, i \in Intents : purchase(c, q, i)
    <2>1. PICK c \in Callers, q \in Quotes, i \in Intents : purchase(c, q, i)
      BY <1>21
    <2>2. [requests[c] EXCEPT !.pc = "authorize", !.quote = q, !.intent = i] \in Requests
      BY <1>1 DEF Requests
    <2>3. requests' = [requests EXCEPT ![c] =
            [requests[c] EXCEPT !.pc = "authorize", !.quote = q, !.intent = i]]
      BY <1>1, <2>1 DEF purchase
    <2>4. requests' \in [Callers -> Requests]
      BY <1>1, <2>2, <2>3
    <2> QED  BY <1>1, <2>1, <2>4 DEF purchase
  <1>22. CASE \E c \in Callers : Problem(c) \/ deny(c)
    BY <1>1, <1>4, <1>22 DEF Problem, deny
  <1>23. CASE \E c \in Callers : authorize(c)
    <2>1. PICK c \in Callers : authorize(c)
      BY <1>23
    <2>2. /\ requests[c].intent \in Intents \cup {None}
          /\ requests[c].quote \in Quotes \cup {None}
          /\ requests[c].session \in Sessions \cup {None}
      BY <1>1 DEF Requests
    <2>3. quotes' \in [Quotes -> Q]
      BY <1>1, <2>1, <2>2 DEF authorize
    <2>4. [quote |-> requests[c].quote, agent |-> requests[c].session] \in H
      BY <2>2
    <2>5. holds' \in [Intents -> H]
      BY <1>1, <2>1, <2>4 DEF authorize
    <2> QED  BY <1>1, <1>4, <2>1, <2>3, <2>5 DEF authorize
  <1>24. CASE \E c \in Callers : TellVerdict(c)
    <2>1. PICK c \in Callers : TellVerdict(c)
      BY <1>24
    <2>2. quoteCache' \in [Instances -> SUBSET (Sessions \X Quotes)]
      BY <1>1, <2>1 DEF TellVerdict
    <2> QED  BY <1>1, <1>9, <2>1, <2>2 DEF TellVerdict
  <1>25. CASE \E c \in Callers : ToolFailed(c)
    BY <1>1, <1>9, <1>25 DEF ToolFailed
  <1>26. CASE \E s \in Sessions : Expire(s)
    BY <1>1, <1>26 DEF Expire
  <1>27. CASE \E n \in Instances : Restart(n)
    <2>1. PICK n \in Instances : Restart(n)
      BY <1>27
    <2>2. requests' \in [Callers -> Requests]
      BY <1>1, <1>3, <2>1 DEF Restart
    <2>3. quoteCache' \in [Instances -> SUBSET (Sessions \X Quotes)]
      BY <1>1, <2>1 DEF Restart
    <2> QED  BY <1>1, <2>1, <2>2, <2>3 DEF Restart
  <1> QED
    BY <1>6, <1>10, <1>11, <1>12, <1>13, <1>14, <1>15, <1>16, <1>17, <1>18, <1>19, <1>20,
       <1>21, <1>22, <1>23, <1>24, <1>25, <1>26, <1>27 DEF McpNext, Limiter, mcpVars
-----------------------------------------------------------------------------
(* The door: whose quote it is, and who bought it.                         *)

(* What any step may do to the quotes, the caches, the holds and the       *)
(* requests, as far as their owners are concerned; only purchase does more.*)
QuoteStep ==
  \A q \in Quotes :
    /\ quotes[q].by # None => quotes'[q].by = quotes[q].by
    /\ quotes[q].consumed_by # None => quotes'[q] = quotes[q]

CacheStep ==
  \A n \in Instances : \A x \in quoteCache'[n] :
    x \in quoteCache[n] \/ quotes'[x[2]].by = x[1]

HeldNow(c, i) ==
  /\ requests[c].pc = "authorize" /\ requests[c].intent = i
  /\ requests'[c].pc # "authorize"
  /\ holds'[i].quote \in Quotes /\ holds'[i].agent \in Sessions
  /\ quotes'[holds'[i].quote].consumed_by = i
  /\ quotes'[holds'[i].quote].by = holds'[i].agent
  /\ quotes'[holds'[i].quote].mandate = holds'[i].agent

HoldStep ==
  \A i \in Intents : holds'[i] = holds[i] \/ \E c \in Callers : HeldNow(c, i)

(* A request that is not about to decide holds no intent. *)
Calm(c) ==
  LET r == requests'[c]
  IN  /\ r.intent = None /\ r.pc \notin {"authorize", "decided"}
      /\ r.pc # "idle" => r.at \in Instances /\ r.session \in Sessions
      /\ r.pc = "remember" => r.quote \in Quotes /\ quotes'[r.quote].by = r.session

Decides(c) ==
  requests[c].pc = "authorize" /\ requests'[c] = [requests[c] EXCEPT !.pc = "decided"]

Follows(c) == requests'[c] = requests[c] \/ Calm(c) \/ Decides(c)

(* QuotesKnown of one request, and of two. *)
Known(c) ==
  LET r == requests[c]
  IN  /\ r.pc # "idle" => r.at \in Instances /\ r.session \in Sessions
      /\ r.pc \in {"remember", "authorize", "decided"} =>
           r.quote \in Quotes /\ quotes[r.quote].by = r.session
      /\ r.pc \in {"authorize", "decided"} <=> r.intent # None
      /\ r.pc = "authorize" => holds[r.intent] = NoHold

OneIntent(c, d) ==
  requests[c].intent = requests[d].intent /\ requests[c].intent # None => c = d

CacheKnown == \A n \in Instances : \A x \in quoteCache[n] : quotes[x[2]].by = x[1]

HoldsKnown ==
  \A i \in Intents : holds[i] # NoHold =>
    holds[i].quote \in Quotes /\ holds[i].agent \in Sessions

LEMMA QuotesKnownIs ==
  QuotesKnown <=> /\ CacheKnown /\ HoldsKnown
                  /\ \A c \in Callers : Known(c)
                  /\ \A c, d \in Callers : OneIntent(c, d)
  BY DEF QuotesKnown, CacheKnown, HoldsKnown, Known, OneIntent

LEMMA NoneIsNobody ==
  None \notin Sessions /\ None \notin Instances /\ None \notin Quotes /\ None \notin Intents
  <1>1. None \notin Sessions \cup Instances \cup Quotes \cup Intents
    BY McpAssumption DEF McpAssumption
  <1> QED  BY <1>1

LEMMA CacheKept ==
  ASSUME McpTypeOK, CacheKnown, QuoteStep, CacheStep
  PROVE  CacheKnown'
  <1> SUFFICES ASSUME NEW n \in Instances, NEW x \in quoteCache'[n]
               PROVE  quotes'[x[2]].by = x[1]
    BY DEF CacheKnown
  <1>1. CASE x \in quoteCache[n]
    <2>1. x \in Sessions \X Quotes
      BY <1>1 DEF McpTypeOK
    <2>2. x[1] \in Sessions /\ x[2] \in Quotes /\ quotes[x[2]].by = x[1]
      BY <1>1, <2>1 DEF CacheKnown
    <2> QED  BY <2>2, NoneIsNobody DEF QuoteStep
  <1> QED  BY <1>1 DEF CacheStep

LEMMA HoldsKept ==
  ASSUME HoldsKnown, BoughtOnceByItsSession, QuoteStep, HoldStep
  PROVE  HoldsKnown' /\ BoughtOnceByItsSession'
  <1>1. ASSUME NEW i \in Intents, holds'[i] # NoHold
        PROVE  /\ holds'[i].quote \in Quotes /\ holds'[i].agent \in Sessions
               /\ quotes'[holds'[i].quote].consumed_by = i
               /\ quotes'[holds'[i].quote].by = holds'[i].agent
               /\ quotes'[holds'[i].quote].mandate = holds'[i].agent
    <2>1. CASE holds'[i] = holds[i]
      <3> DEFINE q == holds[i].quote
      <3>1. holds[i].quote \in Quotes /\ holds[i].agent \in Sessions
        BY <1>1, <2>1 DEF HoldsKnown
      <3>2. /\ quotes[q].consumed_by = i
            /\ quotes[q].by = holds[i].agent /\ quotes[q].mandate = holds[i].agent
        BY <1>1, <2>1 DEF BoughtOnceByItsSession
      <3>3. quotes'[q] = quotes[q]
        BY <3>1, <3>2, NoneIsNobody DEF QuoteStep
      <3> QED  BY <2>1, <3>1, <3>2, <3>3
    <2>2. CASE \E c \in Callers : HeldNow(c, i)
      BY <2>2 DEF HeldNow
    <2> QED  BY <2>1, <2>2 DEF HoldStep
  <1>2. NoHold' = NoHold
    BY DEF NoHold
  <1> QED  BY <1>1, <1>2 DEF HoldsKnown, BoughtOnceByItsSession

LEMMA RequestsKept ==
  ASSUME McpTypeOK, \A c \in Callers : Known(c), \A c, d \in Callers : OneIntent(c, d),
         QuoteStep, HoldStep, \A c \in Callers : Follows(c)
  PROVE  /\ \A c \in Callers : Known(c)'
         /\ \A c, d \in Callers : OneIntent(c, d)'
  <1>1. NoHold' = NoHold
    BY DEF NoHold
  <1>2. ASSUME NEW c \in Callers, requests'[c] = requests[c]
        PROVE  Known(c)'
    <2> DEFINE r == requests[c]
    <2>1. Known(c)
      OBVIOUS
    <2>2. r.pc # "idle" => r.at \in Instances /\ r.session \in Sessions
      BY <2>1 DEF Known
    <2>3. r.pc \in {"authorize", "decided"} <=> r.intent # None
      BY <2>1 DEF Known
    <2>4. ASSUME r.pc \in {"remember", "authorize", "decided"}
          PROVE  r.quote \in Quotes /\ quotes'[r.quote].by = r.session
      <3>1. r.quote \in Quotes /\ quotes[r.quote].by = r.session /\ r.session \in Sessions
        BY <2>1, <2>4 DEF Known
      <3> QED  BY <3>1, NoneIsNobody DEF QuoteStep
    <2>5. ASSUME r.pc = "authorize"
          PROVE  holds'[r.intent] = NoHold
      <3>1. holds[r.intent] = NoHold /\ r.intent # None
        BY <2>1, <2>5 DEF Known
      <3>2. r.intent \in Intents
        BY <3>1 DEF McpTypeOK
      <3>3. ASSUME NEW d \in Callers, HeldNow(d, r.intent)
            PROVE  FALSE
        <4>1. c = d
          BY <3>1, <3>3 DEF HeldNow, OneIntent
        <4> QED  BY <1>2, <2>5, <3>3, <4>1 DEF HeldNow
      <3> QED  BY <3>1, <3>2, <3>3 DEF HoldStep
    <2> QED  BY <1>1, <1>2, <2>2, <2>3, <2>4, <2>5 DEF Known
  <1>3. ASSUME NEW c \in Callers, Calm(c)
        PROVE  Known(c)'
    BY <1>3 DEF Calm, Known
  <1>4. ASSUME NEW c \in Callers, Decides(c)
        PROVE  Known(c)'
    <2> DEFINE r == requests[c]
    <2>1. /\ r.at \in Instances /\ r.session \in Sessions /\ r.intent # None
          /\ r.quote \in Quotes /\ quotes[r.quote].by = r.session
      BY <1>4 DEF Decides, Known
    <2>2. quotes'[r.quote].by = r.session
      BY <2>1, NoneIsNobody DEF QuoteStep
    <2>3. r \in Requests
      BY DEF McpTypeOK, Requests
    <2>4. /\ requests'[c].pc = "decided" /\ requests'[c].at = r.at
          /\ requests'[c].session = r.session /\ requests'[c].quote = r.quote
          /\ requests'[c].intent = r.intent
      BY <1>4, <2>3 DEF Decides, Requests
    <2> QED  BY <2>1, <2>2, <2>4 DEF Known
  <1>5. ASSUME NEW c \in Callers
        PROVE  requests'[c].intent \in {None, requests[c].intent}
    <2>1. requests[c] \in Requests
      BY DEF McpTypeOK, Requests
    <2>2. Decides(c) => requests'[c].intent = requests[c].intent
      BY <2>1 DEF Decides, Requests
    <2> QED  BY <2>2 DEF Follows, Calm
  <1>6. ASSUME NEW c \in Callers, NEW d \in Callers
        PROVE  OneIntent(c, d)'
    BY <1>5 DEF OneIntent
  <1> QED  BY <1>2, <1>3, <1>4, <1>6 DEF Follows


LEMMA StepKeepsQuotes ==
  ASSUME McpTypeOK, QuotesKnown, BoughtOnceByItsSession,
         QuoteStep, CacheStep, HoldStep, \A c \in Callers : Follows(c)
  PROVE  QuotesKnown' /\ BoughtOnceByItsSession'
  <1>1. CacheKnown'
    BY QuotesKnownIs, CacheKept
  <1>2. HoldsKnown' /\ BoughtOnceByItsSession'
    BY QuotesKnownIs, HoldsKept
  <1>3. (\A c \in Callers : Known(c)') /\ (\A c, d \in Callers : OneIntent(c, d)')
    BY QuotesKnownIs, RequestsKept
  <1>4. QuotesKnown'
    BY <1>1, <1>2, <1>3 DEF QuotesKnown, CacheKnown, HoldsKnown, Known, OneIntent
  <1> QED  BY <1>2, <1>4

(* A step that leaves the shared rows alone and learns of no quote. *)
Quiet ==
  /\ UNCHANGED <<quotes, holds>>
  /\ \A n \in Instances : quoteCache'[n] \subseteq quoteCache[n]
  /\ \A c \in Callers : Follows(c)

LEMMA QuietKeepsQuotes ==
  ASSUME McpTypeOK, QuotesKnown, BoughtOnceByItsSession, Quiet
  PROVE  QuotesKnown' /\ BoughtOnceByItsSession'
  <1>1. quotes' = quotes /\ holds' = holds
    BY DEF Quiet
  <1>2. QuoteStep /\ HoldStep
    BY <1>1 DEF QuoteStep, HoldStep
  <1>3. CacheStep
    BY DEF Quiet, CacheStep
  <1>4. \A c \in Callers : Follows(c)
    BY DEF Quiet
  <1> QED  BY <1>2, <1>3, <1>4, StepKeepsQuotes

(* A request that goes on to a place where it holds nothing. *)
LEMMA GotoFollows ==
  ASSUME McpTypeOK, QuotesKnown, NEW c \in Callers,
         NEW p \in {"entry", "createSession", "get_quote", "purchase", "revoke"},
         requests[c].pc \notin {"idle", "authorize", "decided"}, Goto(c, p)
  PROVE  \A d \in Callers : Follows(d)
  <1>1. /\ requests'[c] = [requests[c] EXCEPT !.pc = p]
        /\ \A d \in Callers \ {c} : requests'[d] = requests[d]
    BY GotoType
  <1>2. requests[c] \in Requests
    BY DEF McpTypeOK, Requests
  <1>3. /\ requests[c].at \in Instances /\ requests[c].session \in Sessions
        /\ requests[c].intent = None
    BY DEF QuotesKnown
  <1>4. Calm(c)
    BY <1>1, <1>2, <1>3 DEF Calm, Requests
  <1> QED  BY <1>1, <1>4 DEF Follows

LEMMA ForgottenFollows ==
  ASSUME McpTypeOK, QuotesKnown, NEW c \in Callers,
         requests[c].pc # "idle", requests' = Forgotten(c)
  PROVE  \A d \in Callers : Follows(d)
  <1>1. requests[c] \in Requests /\ requests \in [Callers -> Requests]
    BY DEF McpTypeOK, Requests
  <1>2. requests' = [requests EXCEPT ![c] =
          [requests[c] EXCEPT !.pc = "entry", !.quote = None, !.intent = None]]
    BY <1>1 DEF Forgotten
  <1>3. requests'[c] = [requests[c] EXCEPT !.pc = "entry", !.quote = None, !.intent = None]
        /\ \A d \in Callers \ {c} : requests'[d] = requests[d]
    BY <1>1, <1>2
  <1>4. requests[c].at \in Instances /\ requests[c].session \in Sessions
    BY DEF QuotesKnown
  <1>5. Calm(c)
    BY <1>1, <1>3, <1>4 DEF Calm, Requests
  <1> QED  BY <1>3, <1>5 DEF Follows

(* Most of the door is quiet. *)
QuietHandler(c) ==
  \/ \E n \in Instances, s \in Sessions : handleMcp(c, n, s)
  \/ Respond(c) \/ Initialize(c) \/ Unauthenticated(c) \/ Shutdown(c)
  \/ \E tool \in {"get_quote", "purchase"} : CallTool(c, tool)
  \/ revokeSession(c) \/ Turned(c)
  \/ \E s \in Sessions : createSession(c, s)
  \/ Problem(c) \/ deny(c) \/ TellVerdict(c) \/ ToolFailed(c)

(* An answer is waited for in one of three places. *)
Asked(c) ==
  LET r == requests[c]
  IN  /\ calls[c].merchant = Merchant
      /\ \/ r.pc = "createSession" /\ calls[c].key = <<"session", "unattributed">>
         \/ r.pc = "get_quote" /\ calls[c].key = <<"quote", r.session>>
         \/ r.pc = "purchase" /\ calls[c].key = <<"mandate", r.session>>

LEMMA QuietHandlers ==
  ASSUME McpTypeOK, QuotesKnown, CallsAsked, NEW c \in Callers, QuietHandler(c)
  PROVE  Quiet
  <1>1. ASSUME UNCHANGED <<quotes, holds, quoteCache>>, \A d \in Callers : Follows(d)
        PROVE  Quiet
    BY <1>1 DEF Quiet
  <1>2. CASE \E n \in Instances, s \in Sessions : handleMcp(c, n, s)
    <2>1. PICK n \in Instances, s \in Sessions : handleMcp(c, n, s)
      BY <1>2
    <2>2. requests' = [requests EXCEPT ![c] =
                         [NoRequest EXCEPT !.pc = "entry", !.at = n, !.session = s]]
      BY <2>1 DEF handleMcp
    <2>3. requests'[c] = [NoRequest EXCEPT !.pc = "entry", !.at = n, !.session = s]
          /\ \A d \in Callers \ {c} : requests'[d] = requests[d]
      BY <2>2 DEF McpTypeOK
    <2>4. Calm(c)
      BY <2>3 DEF Calm, NoRequest
    <2> QED  BY <1>1, <2>1, <2>3, <2>4 DEF handleMcp, Follows
  <1>3. CASE Respond(c)
    <2>1. requests'[c] = NoRequest /\ \A d \in Callers \ {c} : requests'[d] = requests[d]
      BY <1>3 DEF Respond, McpTypeOK
    <2>2. Calm(c)
      BY <2>1 DEF Calm, NoRequest
    <2> QED  BY <1>1, <1>3, <2>1, <2>2 DEF Respond, Follows
  <1>4. CASE Unauthenticated(c)
    BY <1>1, <1>4 DEF Unauthenticated, Follows
  <1>5. CASE Initialize(c)
    <2>1. requests[c].pc = "entry" /\ Goto(c, "createSession")
      BY <1>5 DEF Initialize, BeginEntry
    <2> QED  BY <1>1, <1>5, <2>1, GotoFollows DEF Initialize
  <1>6. CASE Shutdown(c)
    <2>1. requests[c].pc = "entry" /\ Goto(c, "revoke")
      BY <1>6 DEF Shutdown, BeginEntry
    <2> QED  BY <1>1, <1>6, <2>1, GotoFollows DEF Shutdown
  <1>7. ASSUME NEW tool \in {"get_quote", "purchase"}, CallTool(c, tool)
        PROVE  Quiet
    <2>1. requests[c].pc = "entry" /\ Goto(c, tool)
      BY <1>7 DEF CallTool, BeginEntry
    <2> QED  BY <1>1, <1>7, <2>1, GotoFollows DEF CallTool
  <1>8. CASE revokeSession(c)
    <2>1. requests[c].pc = "revoke" /\ Goto(c, "entry")
      BY <1>8 DEF revokeSession
    <2> QED  BY <1>1, <1>8, <2>1, GotoFollows DEF revokeSession
  <1>9. CASE Turned(c)
    <2>1. requests[c].pc \in {"createSession", "get_quote", "purchase"} /\ Goto(c, "entry")
      BY <1>9 DEF Turned, CallsAsked
    <2> QED  BY <1>1, <1>9, <2>1, GotoFollows DEF Turned
  <1>10. CASE \E s \in Sessions : createSession(c, s)
    <2>1. requests[c].pc = "createSession" /\ Goto(c, "entry")
      BY <1>10 DEF createSession
    <2> QED  BY <1>1, <1>10, <2>1, GotoFollows DEF createSession
  <1>11. CASE Problem(c)
    <2>1. requests[c].pc \in {"createSession", "get_quote", "purchase"} /\ Goto(c, "entry")
      BY <1>11 DEF Problem
    <2> QED  BY <1>1, <1>11, <2>1, GotoFollows DEF Problem
  <1>12. CASE deny(c)
    <2>1. /\ requests'[c] = [requests[c] EXCEPT !.pc = "decided"]
          /\ \A d \in Callers \ {c} : requests'[d] = requests[d]
      BY <1>12, GotoType DEF deny
    <2> QED  BY <1>1, <1>12, <2>1 DEF deny, Follows, Decides
  <1>13. CASE TellVerdict(c)
    <2>1. \A d \in Callers : Follows(d)
      BY <1>13, ForgottenFollows DEF TellVerdict
    <2>2. \A n \in Instances : quoteCache'[n] \subseteq quoteCache[n]
      BY <1>13 DEF TellVerdict, McpTypeOK
    <2> QED  BY <1>13, <2>1, <2>2 DEF TellVerdict, Quiet
  <1>14. CASE ToolFailed(c)
    BY <1>1, <1>14, ForgottenFollows DEF ToolFailed
  <1> QED
    BY <1>2, <1>3, <1>4, <1>5, <1>6, <1>7, <1>8, <1>9, <1>10, <1>11, <1>12, <1>13, <1>14
       DEF QuietHandler

LEMMA QuietOthers ==
  ASSUME McpTypeOK, QuotesKnown,
         \/ Limiter \/ UNCHANGED mcpVars
         \/ \E s \in Sessions : Expire(s)
         \/ \E n \in Instances : Restart(n)
  PROVE  Quiet
  <1>1. CASE Limiter \/ UNCHANGED mcpVars
    BY <1>1 DEF Limiter, mcpVars, tools, Quiet, Follows
  <1>2. CASE \E s \in Sessions : Expire(s)
    BY <1>2 DEF Expire, Quiet, Follows
  <1>3. ASSUME NEW n \in Instances, Restart(n)
        PROVE  Quiet
    <2>1. \A m \in Instances : quoteCache'[m] \subseteq quoteCache[m]
      BY <1>3 DEF Restart, McpTypeOK
    <2>2. ASSUME NEW c \in Callers
          PROVE  Follows(c)
      <3>1. requests'[c] = requests[c] \/ requests'[c] = NoRequest
        BY <1>3 DEF Restart
      <3> QED  BY <3>1 DEF Follows, Calm, NoRequest
    <2> QED  BY <1>3, <2>1, <2>2 DEF Restart, Quiet
  <1> QED  BY <1>1, <1>2, <1>3


(* The steps that are not: a new quote, which nobody has bought; what an   *)
(* instance remembers; a new intent; a commit.                             *)
LEMMA PriceBasketKeepsQuotes ==
  ASSUME McpTypeOK, QuotesKnown, BoughtOnceByItsSession, NEW c \in Callers,
         NEW q \in Quotes, NEW a \in Sessions, priceBasket(c, q, a)
  PROVE  QuotesKnown' /\ BoughtOnceByItsSession'
  <1>1. /\ requests[c].pc = "get_quote" /\ quotes[q] = NoQuote
        /\ UNCHANGED <<holds, quoteCache>>
    BY DEF priceBasket
  <1>2. /\ quotes'[q].by = requests[c].session
        /\ \A r \in Quotes \ {q} : quotes'[r] = quotes[r]
    BY DEF priceBasket, McpTypeOK
  <1>3. quotes[q].by = None /\ quotes[q].consumed_by = None
    BY <1>1 DEF NoQuote
  <1>4. QuoteStep
    BY <1>2, <1>3 DEF QuoteStep
  <1>5. CacheStep /\ HoldStep
    BY <1>1 DEF CacheStep, HoldStep
  <1>6. ASSUME NEW d \in Callers
        PROVE  Follows(d)
    <2>1. requests[c] \in Requests /\ requests \in [Callers -> Requests]
      BY DEF McpTypeOK, Requests
    <2>2. requests' = [requests EXCEPT ![c] =
            [requests[c] EXCEPT !.pc = "remember", !.quote = q]]
      BY <2>1 DEF priceBasket
    <2>3. requests'[c] = [requests[c] EXCEPT !.pc = "remember", !.quote = q]
          /\ (d # c => requests'[d] = requests[d])
      BY <2>1, <2>2
    <2>4. /\ requests[c].at \in Instances /\ requests[c].session \in Sessions
          /\ requests[c].intent = None
      BY <1>1 DEF QuotesKnown
    <2>5. Calm(c)
      BY <1>2, <2>1, <2>3, <2>4 DEF Calm, Requests
    <2> QED  BY <2>3, <2>5 DEF Follows
  <1> QED  BY <1>4, <1>5, <1>6, StepKeepsQuotes

LEMMA RememberKeepsQuotes ==
  ASSUME McpTypeOK, QuotesKnown, BoughtOnceByItsSession, NEW c \in Callers, remember(c)
  PROVE  QuotesKnown' /\ BoughtOnceByItsSession'
  <1> DEFINE x == <<requests[c].session, requests[c].quote>>
             n == requests[c].at
  <1>1. /\ requests[c].pc = "remember" /\ Goto(c, "entry")
        /\ UNCHANGED <<quotes, holds>>
    BY DEF remember
  <1>2. PICK old \in SUBSET quoteCache[n] :
          quoteCache' = [quoteCache EXCEPT ![n] = (quoteCache[n] \ old) \cup {x}]
    BY DEF remember
  <1>3. quotes'[x[2]].by = x[1]
    BY <1>1 DEF QuotesKnown
  <1>4. CacheStep
    <2>1. ASSUME NEW m \in Instances, NEW y \in quoteCache'[m]
          PROVE  y \in quoteCache[m] \/ y = x
      BY <1>2, <2>1 DEF McpTypeOK
    <2> QED  BY <1>3, <2>1 DEF CacheStep
  <1>5. QuoteStep /\ HoldStep
    BY <1>1 DEF QuoteStep, HoldStep
  <1>6. \A d \in Callers : Follows(d)
    BY <1>1, GotoFollows
  <1> QED  BY <1>4, <1>5, <1>6, StepKeepsQuotes

LEMMA PurchaseKeepsQuotes ==
  ASSUME McpTypeOK, QuotesKnown, BoughtOnceByItsSession, NEW c \in Callers,
         NEW q \in Quotes, NEW i \in Intents, purchase(c, q, i)
  PROVE  QuotesKnown' /\ BoughtOnceByItsSession'
  <1>1. /\ UNCHANGED <<quotes, holds, quoteCache>>
        /\ requests[c].pc = "purchase" /\ Fresh(i) /\ Held(c, q)
    BY DEF purchase
  <1>2. requests[c] \in Requests /\ requests \in [Callers -> Requests]
    BY DEF McpTypeOK, Requests
  <1>3. requests' = [requests EXCEPT ![c] =
          [requests[c] EXCEPT !.pc = "authorize", !.quote = q, !.intent = i]]
    BY <1>2 DEF purchase
  <1>4. /\ requests'[c] = [requests[c] EXCEPT !.pc = "authorize", !.quote = q, !.intent = i]
        /\ \A d \in Callers \ {c} : requests'[d] = requests[d]
    BY <1>2, <1>3
  <1>5. /\ requests'[c].pc = "authorize" /\ requests'[c].at = requests[c].at
        /\ requests'[c].session = requests[c].session
        /\ requests'[c].quote = q /\ requests'[c].intent = i
    BY <1>2, <1>4 DEF Requests
  <1>6. CacheKnown' /\ HoldsKnown' /\ BoughtOnceByItsSession'
    BY <1>1, QuotesKnownIs DEF CacheKnown, HoldsKnown, BoughtOnceByItsSession, NoHold
  <1>7. Known(c)'
    <2>1. requests[c].at \in Instances /\ requests[c].session \in Sessions
      BY <1>1 DEF QuotesKnown
    <2>2. quotes[q].by = requests[c].session
      BY <1>1, <2>1 DEF Held, QuotesKnown
    <2>3. holds[i] = NoHold /\ i # None
      BY <1>1, NoneIsNobody DEF Fresh
    <2>4. NoHold' = NoHold
      BY DEF NoHold
    <2> QED  BY <1>1, <1>5, <2>1, <2>2, <2>3, <2>4 DEF Known
  <1>8. ASSUME NEW d \in Callers \ {c}
        PROVE  Known(d)'
    <2>1. Known(d)
      BY QuotesKnownIs
    <2> QED  BY <1>1, <1>4, <2>1 DEF Known, NoHold
  <1>9. ASSUME NEW d \in Callers, NEW e \in Callers
        PROVE  OneIntent(d, e)'
    <2>1. OneIntent(d, e)
      BY QuotesKnownIs
    <2>2. \A f \in Callers \ {c} : requests'[f].intent = requests[f].intent
                                   /\ requests[f].intent # i
      BY <1>1, <1>4 DEF Fresh
    <2>3. CASE d # c /\ e # c
      BY <2>1, <2>2, <2>3 DEF OneIntent
    <2>4. CASE d = c \/ e = c
      BY <1>5, <2>2, <2>4 DEF OneIntent
    <2> QED  BY <2>3, <2>4
  <1>10. QuotesKnown'
    BY <1>6, <1>7, <1>8, <1>9 DEF QuotesKnown, CacheKnown, HoldsKnown, Known, OneIntent
  <1> QED  BY <1>6, <1>10

LEMMA AuthorizeKeepsQuotes ==
  ASSUME McpTypeOK, QuotesKnown, BoughtOnceByItsSession, NEW c \in Callers, authorize(c)
  PROVE  QuotesKnown' /\ BoughtOnceByItsSession'
  <1> DEFINE q == requests[c].quote
             i == requests[c].intent
             s == requests[c].session
  <1>1. /\ requests[c].pc = "authorize" /\ Bindable(c) /\ Goto(c, "decided")
        /\ quotes' = [quotes EXCEPT ![q].consumed_by = i]
        /\ holds' = [holds EXCEPT ![i] = [quote |-> q, agent |-> s]]
        /\ UNCHANGED quoteCache
    BY DEF authorize
  <1>2. /\ q \in Quotes /\ quotes[q].by = s /\ s \in Sessions
        /\ i \in Intents
    BY <1>1 DEF QuotesKnown, McpTypeOK
  <1>3. quotes[q].mandate = s /\ quotes[q].consumed_by = None
    BY <1>1 DEF Bindable
  <1>4. /\ quotes'[q].consumed_by = i /\ quotes'[q].by = s /\ quotes'[q].mandate = s
        /\ \A r \in Quotes \ {q} : quotes'[r] = quotes[r]
    BY <1>1, <1>2, <1>3 DEF McpTypeOK
  <1>5. /\ holds'[i] = [quote |-> q, agent |-> s]
        /\ \A j \in Intents \ {i} : holds'[j] = holds[j]
    BY <1>1, <1>2 DEF McpTypeOK
  <1>6. /\ requests'[c] = [requests[c] EXCEPT !.pc = "decided"]
        /\ \A d \in Callers \ {c} : requests'[d] = requests[d]
    BY <1>1, GotoType
  <1>7. requests'[c].pc # "authorize"
    <2>1. requests[c] \in Requests
      BY DEF McpTypeOK, Requests
    <2> QED  BY <1>6, <2>1 DEF Requests
  <1>8. QuoteStep
    BY <1>2, <1>3, <1>4 DEF QuoteStep
  <1>9. CacheStep
    BY <1>1 DEF CacheStep
  <1>10. HeldNow(c, i)
    BY <1>1, <1>2, <1>4, <1>5, <1>7 DEF HeldNow
  <1>11. HoldStep
    BY <1>5, <1>10 DEF HoldStep
  <1>12. \A d \in Callers : Follows(d)
    BY <1>1, <1>6 DEF Follows, Decides
  <1> QED  BY <1>8, <1>9, <1>11, <1>12, StepKeepsQuotes

LEMMA QuotesKept ==
  ASSUME McpTypeOK, QuotesKnown, BoughtOnceByItsSession, CallsAsked, [McpNext]_mcpVars
  PROVE  QuotesKnown' /\ BoughtOnceByItsSession'
  <1>1. ASSUME NEW c \in Callers, QuietHandler(c)
        PROVE  QuotesKnown' /\ BoughtOnceByItsSession'
    BY <1>1, QuietHandlers, QuietKeepsQuotes
  <1>2. CASE \/ Limiter \/ UNCHANGED mcpVars
             \/ \E s \in Sessions : Expire(s)
             \/ \E n \in Instances : Restart(n)
    BY <1>2, QuietOthers, QuietKeepsQuotes
  <1>3. CASE \E c \in Callers : remember(c) \/ authorize(c)
    BY <1>3, RememberKeepsQuotes, AuthorizeKeepsQuotes
  <1>4. CASE \E c \in Callers, q \in Quotes, a \in Sessions : priceBasket(c, q, a)
    BY <1>4, PriceBasketKeepsQuotes
  <1>5. CASE \E c \in Callers, q \in Quotes, i \in Intents : purchase(c, q, i)
    BY <1>5, PurchaseKeepsQuotes
  <1> QED  BY <1>1, <1>2, <1>3, <1>4, <1>5 DEF McpNext, QuietHandler
-----------------------------------------------------------------------------
(* The door: whose call it is.                                             *)

LEMMA CallsAskedIs ==
  CallsAsked <=> /\ \A c \in Callers : calls[c].pc # "idle" => Asked(c)
                 /\ \A k \in Keys : buckets[k].merchant \in {None, Merchant}
  BY DEF CallsAsked, Asked

LEMMA RowsKept ==
  ASSUME LimitTypeOK, HeldIsRead, CallsAsked, LimiterMoves
  PROVE  \A k \in Keys : buckets'[k].merchant \in {None, Merchant}
  <1>1. ASSUME UNCHANGED buckets
        PROVE  \A k \in Keys : buckets'[k].merchant \in {None, Merchant}
    BY <1>1 DEF CallsAsked
  <1>2. ASSUME NEW c \in Callers, NEW left, calls[c].pc = "update", Settle(c, left)
        PROVE  \A k \in Keys : buckets'[k].merchant \in {None, Merchant}
    <2>1. calls[c].merchant = Merchant
      BY <1>2 DEF CallsAsked
    <2> QED  BY <1>1, <1>2, <2>1 DEF Settle, LimitTypeOK, CallsAsked
  <1>3. ASSUME NEW c \in Callers, LimitStep(c), ~Admit(c), ~Refuse(c)
        PROVE  UNCHANGED buckets
    BY <1>3 DEF LimitStep, Transact, consume, insertBucket, lockBucket, FailClosed, Answered
  <1>4. ASSUME UNCHANGED limits \/ Tick \/ \E D \in SUBSET Callers : Die(D)
        PROVE  UNCHANGED buckets
    BY <1>4 DEF limits, Tick, Die
  <1>5. ASSUME NEW c \in Callers, Admit(c) \/ Refuse(c)
        PROVE  \A k \in Keys : buckets'[k].merchant \in {None, Merchant}
    BY <1>2, <1>5 DEF Admit, Refuse
  <1> QED  BY <1>1, <1>3, <1>4, <1>5 DEF LimiterMoves


(* A handler changes its own request only. *)
LEMMA OwnRequestOnly ==
  ASSUME McpTypeOK, NEW c \in Callers,
         \/ QuietHandler(c) \/ remember(c) \/ authorize(c)
         \/ \E q \in Quotes, a \in Sessions : priceBasket(c, q, a)
         \/ \E q \in Quotes, i \in Intents : purchase(c, q, i)
  PROVE  \A d \in Callers \ {c} : requests'[d] = requests[d]
  <1>1. requests \in [Callers -> Requests]
    BY DEF McpTypeOK, Requests
  <1>2. ASSUME NEW p, Goto(c, p)
        PROVE  \A d \in Callers \ {c} : requests'[d] = requests[d]
    BY <1>1, <1>2 DEF Goto
  <1>3. ASSUME \/ \E n \in Instances, s \in Sessions : handleMcp(c, n, s)
               \/ Respond(c) \/ Unauthenticated(c)
        PROVE  \A d \in Callers \ {c} : requests'[d] = requests[d]
    BY <1>1, <1>3 DEF handleMcp, Respond, Unauthenticated
  <1>4. ASSUME \/ Initialize(c) \/ Shutdown(c) \/ revokeSession(c) \/ Turned(c)
               \/ \E tool \in {"get_quote", "purchase"} : CallTool(c, tool)
               \/ \E s \in Sessions : createSession(c, s)
               \/ Problem(c) \/ deny(c) \/ remember(c) \/ authorize(c)
        PROVE  \E p : Goto(c, p)
    BY <1>4 DEF Initialize, Shutdown, revokeSession, Turned, CallTool, createSession,
         Problem, deny, remember, authorize
  <1>5. ASSUME TellVerdict(c) \/ ToolFailed(c)
        PROVE  \A d \in Callers \ {c} : requests'[d] = requests[d]
    BY <1>1, <1>5 DEF TellVerdict, ToolFailed, Forgotten
  <1>6. ASSUME \/ \E q \in Quotes, a \in Sessions : priceBasket(c, q, a)
               \/ \E q \in Quotes, i \in Intents : purchase(c, q, i)
        PROVE  \A d \in Callers \ {c} : requests'[d] = requests[d]
    BY <1>1, <1>6 DEF priceBasket, purchase
  <1> QED  BY <1>2, <1>3, <1>4, <1>5, <1>6 DEF QuietHandler

(* What a handler does with the limiter: it asks, it takes the answer, or  *)
(* it is elsewhere.                                                        *)
LEMMA HandlersAsk ==
  ASSUME McpTypeOK, NEW c \in Callers,
         \/ QuietHandler(c) \/ remember(c) \/ authorize(c)
         \/ \E q \in Quotes, a \in Sessions : priceBasket(c, q, a)
         \/ \E q \in Quotes, i \in Intents : purchase(c, q, i)
  PROVE  \/ /\ UNCHANGED limits
            /\ requests[c].pc \notin {"createSession", "get_quote", "purchase"}
         \/ Answered(c)
         \/ /\ consume(c, Merchant, <<"session", "unattributed">>)
            /\ Goto(c, "createSession")
         \/ /\ consume(c, Merchant, <<"quote", requests[c].session>>)
            /\ Goto(c, "get_quote")
         \/ /\ consume(c, Merchant, <<"mandate", requests[c].session>>)
            /\ Goto(c, "purchase")
  <1>1. CASE \/ \E n \in Instances, s \in Sessions : handleMcp(c, n, s)
             \/ Respond(c) \/ Unauthenticated(c) \/ Shutdown(c) \/ revokeSession(c)
             \/ remember(c) \/ authorize(c) \/ deny(c) \/ TellVerdict(c) \/ ToolFailed(c)
    BY <1>1 DEF handleMcp, Respond, Unauthenticated, Shutdown, revokeSession, remember,
         authorize, deny, TellVerdict, ToolFailed, BeginEntry
  <1>2. CASE \/ Turned(c) \/ Problem(c)
             \/ \E s \in Sessions : createSession(c, s)
             \/ \E q \in Quotes, a \in Sessions : priceBasket(c, q, a)
             \/ \E q \in Quotes, i \in Intents : purchase(c, q, i)
    BY <1>2 DEF Turned, Problem, createSession, priceBasket, purchase, Allowed
  <1>3. CASE Initialize(c)
    BY <1>3 DEF Initialize
  <1>4. CASE CallTool(c, "get_quote")
    BY <1>4 DEF CallTool, bucketFor
  <1>5. CASE CallTool(c, "purchase")
    BY <1>5 DEF CallTool, bucketFor
  <1> QED  BY <1>1, <1>2, <1>3, <1>4, <1>5 DEF QuietHandler

LEMMA AskedKept ==
  ASSUME LimitTypeOK, McpTypeOK, CallsAsked, [McpNext]_mcpVars
  PROVE  \A c \in Callers : calls'[c].pc # "idle" => Asked(c)'
  <1>1. \A c \in Callers : calls[c].pc # "idle" => Asked(c)
    BY CallsAskedIs
  <1>2. ASSUME NEW c \in Callers,
               requests'[c] = requests[c], calls'[c].pc # "idle",
               /\ calls[c].pc # "idle" /\ calls'[c].merchant = calls[c].merchant
               /\ calls'[c].key = calls[c].key
        PROVE  Asked(c)'
    BY <1>1, <1>2 DEF Asked
  <1>3. CASE UNCHANGED mcpVars \/ \E s \in Sessions : Expire(s)
    BY <1>2, <1>3 DEF mcpVars, limits, tools, Expire
  <1>4. CASE Limiter
    <2>1. requests' = requests
      BY <1>4 DEF Limiter, tools
    <2>2. ASSUME NEW c \in Callers, calls'[c] # calls[c]
          PROVE  /\ calls[c].pc # "idle" /\ calls'[c].merchant = calls[c].merchant
                 /\ calls'[c].key = calls[c].key
      <3>1. PICK d \in Callers : Transact(d) \/ FailClosed(d)
        BY <1>4, <2>2 DEF Limiter, Tick
      <3>2. d = c
        BY <2>2, <3>1 DEF Transact, insertBucket, lockBucket, Admit, Refuse, FailClosed,
             LimitTypeOK
      <3>3. calls[c].pc \in {"insert", "select", "update"}
        BY <3>1, <3>2 DEF Transact, insertBucket, lockBucket, Admit, Refuse, FailClosed
      <3>4. calls[c] \in Call /\ calls \in [Callers -> Call]
        BY DEF LimitTypeOK
      <3>5. calls'[c].merchant = calls[c].merchant /\ calls'[c].key = calls[c].key
        <4>1. CASE insertBucket(c)
          BY <3>4, <4>1 DEF insertBucket, Call
        <4>2. CASE lockBucket(c)
          BY <3>4, <4>2 DEF lockBucket, Call
        <4>3. CASE Admit(c) \/ Refuse(c) \/ FailClosed(c)
          BY <3>4, <4>3 DEF Admit, Refuse, FailClosed, Call
        <4> QED  BY <3>1, <3>2, <4>1, <4>2, <4>3 DEF Transact
      <3> QED  BY <3>3, <3>5
    <2> QED  BY <1>2, <2>1, <2>2
  <1>5. ASSUME NEW n \in Instances, Restart(n), NEW c \in Callers, calls'[c].pc # "idle"
        PROVE  Asked(c)'
    <2>1. calls'[c] = calls[c] /\ requests'[c] = requests[c]
      BY <1>5 DEF Restart, NoCall
    <2> QED  BY <1>2, <1>5, <2>1
  <1>6. ASSUME NEW c \in Callers, NEW m, NEW k, NEW p, consume(c, m, k), Goto(c, p),
               m = Merchant,
               \/ p = "createSession" /\ k = <<"session", "unattributed">>
               \/ p = "get_quote" /\ k = <<"quote", requests[c].session>>
               \/ p = "purchase" /\ k = <<"mandate", requests[c].session>>
        PROVE  Asked(c)'
    <2>1. calls'[c].merchant = m /\ calls'[c].key = k
      BY <1>6 DEF consume, LimitTypeOK
    <2>2. requests'[c] = [requests[c] EXCEPT !.pc = p] /\ requests[c] \in Requests
      BY <1>6, GotoType DEF McpTypeOK, Requests
    <2>3. requests'[c].pc = p /\ requests'[c].session = requests[c].session
      BY <2>2 DEF Requests
    <2>4. Merchant' = Merchant
      OBVIOUS
    <2> QED  BY <1>6, <2>1, <2>3, <2>4 DEF Asked
  <1>7. ASSUME NEW c \in Callers,
               \/ QuietHandler(c) \/ remember(c) \/ authorize(c)
               \/ \E q \in Quotes, a \in Sessions : priceBasket(c, q, a)
               \/ \E q \in Quotes, i \in Intents : purchase(c, q, i),
               NEW d \in Callers, calls'[d].pc # "idle"
        PROVE  Asked(d)'
    <2>1. CASE d # c
      <3>1. requests'[d] = requests[d]
        BY <1>7, <2>1, OwnRequestOnly
      <3>2. calls'[d] = calls[d]
        <4>1. \/ UNCHANGED limits \/ Answered(c)
              \/ \E m, k : consume(c, m, k)
          BY <1>7, HandlersAsk
        <4> QED  BY <2>1, <4>1 DEF limits, Answered, consume, LimitTypeOK
      <3> QED  BY <1>2, <1>7, <3>1, <3>2
    <2>2. CASE d = c
      <3>1. CASE /\ UNCHANGED limits
                 /\ requests[c].pc \notin {"createSession", "get_quote", "purchase"}
        <4>1. calls[c].pc = "idle"
          BY <1>1, <3>1 DEF Asked
        <4> QED  BY <1>7, <2>2, <3>1, <4>1 DEF limits
      <3>2. CASE Answered(c)
        BY <1>7, <2>2, <3>2 DEF Answered, NoCall, LimitTypeOK
      <3>3. CASE \/ /\ consume(c, Merchant, <<"session", "unattributed">>)
                    /\ Goto(c, "createSession")
                 \/ /\ consume(c, Merchant, <<"quote", requests[c].session>>)
                    /\ Goto(c, "get_quote")
                 \/ /\ consume(c, Merchant, <<"mandate", requests[c].session>>)
                    /\ Goto(c, "purchase")
        BY <1>6, <2>2, <3>3
      <3> QED  BY <1>7, <3>1, <3>2, <3>3, HandlersAsk
    <2> QED  BY <2>1, <2>2
  <1> QED  BY <1>3, <1>4, <1>5, <1>7 DEF McpNext, QuietHandler

LEMMA CallsAskedKept ==
  ASSUME LimitTypeOK, HeldIsRead, McpTypeOK, CallsAsked, [McpNext]_mcpVars
  PROVE  CallsAsked'
  <1>1. \A k \in Keys : buckets'[k].merchant \in {None, Merchant}
    BY RowsKept, HandlersMoveLimiter
  <1>2. \A c \in Callers : calls'[c].pc # "idle" => Asked(c)'
    BY AskedKept
  <1> QED  BY <1>1, <1>2 DEF CallsAsked, Asked
-----------------------------------------------------------------------------
(* The door: what is paid for.                                             *)

(* n payments cover the effects in E and the rights to one in F. *)
Covers(E, F, n) ==
  /\ IsFiniteSet(E) /\ IsFiniteSet(F)
  /\ Cardinality(E) + Cardinality(F) <= n

LEMMA OneMore ==
  ASSUME NEW S, NEW x, IsFiniteSet(S)
  PROVE  IsFiniteSet(S \cup {x}) /\ Cardinality(S \cup {x}) <= Cardinality(S) + 1
  <1>1. IsFiniteSet(S \cup {x})
    BY FS_AddElement
  <1>2. Cardinality(S \cup {x}) = IF x \in S THEN Cardinality(S) ELSE Cardinality(S) + 1
    BY FS_AddElement
  <1>3. Cardinality(S) \in Nat
    BY FS_CardinalityType
  <1> QED  BY <1>1, <1>2, <1>3

LEMMA SmallerIsCovered ==
  ASSUME NEW E, NEW F, NEW E1, NEW F1, NEW n \in Nat, NEW n1 \in Nat,
         Covers(E, F, n), E1 \subseteq E, F1 \subseteq F, n <= n1
  PROVE  Covers(E1, F1, n1)
  <1>1. IsFiniteSet(E1) /\ Cardinality(E1) <= Cardinality(E)
    BY FS_Subset DEF Covers
  <1>2. IsFiniteSet(F1) /\ Cardinality(F1) <= Cardinality(F)
    BY FS_Subset DEF Covers
  <1>3. /\ Cardinality(E) \in Nat /\ Cardinality(F) \in Nat
        /\ Cardinality(E1) \in Nat /\ Cardinality(F1) \in Nat
    BY <1>1, <1>2, FS_CardinalityType DEF Covers
  <1> QED  BY <1>1, <1>2, <1>3 DEF Covers

(* A payment buys one right; a right spent buys one effect. *)
LEMMA PaidIsCovered ==
  ASSUME NEW E, NEW F, NEW E1, NEW F1, NEW n \in Nat, NEW n1 \in Nat, NEW c,
         Covers(E, F, n), E1 \subseteq E, F1 \subseteq F \cup {c}, n1 = n + 1
  PROVE  Covers(E1, F1, n1)
  <1>1. IsFiniteSet(F \cup {c}) /\ Cardinality(F \cup {c}) <= Cardinality(F) + 1
    BY OneMore DEF Covers
  <1>2. Covers(E, F \cup {c}, n1)
    <2>1. /\ Cardinality(E) \in Nat /\ Cardinality(F) \in Nat
          /\ Cardinality(F \cup {c}) \in Nat
      BY <1>1, FS_CardinalityType DEF Covers
    <2> QED  BY <1>1, <2>1 DEF Covers
  <1> QED  BY <1>2, SmallerIsCovered

LEMMA SpentIsCovered ==
  ASSUME NEW E, NEW F, NEW E1, NEW F1, NEW n \in Nat, NEW c, NEW x,
         Covers(E, F, n), c \in F, E1 \subseteq E \cup {x}, F1 \subseteq F \ {c}
  PROVE  Covers(E1, F1, n)
  <1>1. IsFiniteSet(E \cup {x}) /\ Cardinality(E \cup {x}) <= Cardinality(E) + 1
    BY OneMore DEF Covers
  <1>2. IsFiniteSet(F \ {c}) /\ Cardinality(F \ {c}) = Cardinality(F) - 1
    BY FS_RemoveElement DEF Covers
  <1>3. Covers(E \cup {x}, F \ {c}, n)
    <2>1. /\ Cardinality(E) \in Nat /\ Cardinality(F) \in Nat
          /\ Cardinality(E \cup {x}) \in Nat
      BY <1>1, FS_CardinalityType DEF Covers
    <2> QED  BY <1>1, <1>2, <2>1 DEF Covers
  <1> QED  BY <1>3, SmallerIsCovered

Payments(k) == Len(admitted[<<Merchant, k>>])

LEMMA PaidInAdvanceIs ==
  PaidInAdvance <=> \A k \in ChargedKeys : Covers(Effects(k), InFlight(k), Payments(k))
  BY DEF PaidInAdvance, Covers, Payments

LEMMA ChargedKeysAre ==
  \A k \in ChargedKeys :
    /\ k \in Keys /\ <<Merchant, k>> \in Merchants \X Keys
    /\ \/ k = <<"session", "unattributed">>
       \/ \E s \in Sessions : k = <<"quote", s>> \/ k = <<"mandate", s>>
  <1>1. /\ Merchant \in Merchants
        /\ "session" \in Kinds /\ "quote" \in Kinds /\ "mandate" \in Kinds
        /\ "unattributed" \in Subjects /\ Sessions \subseteq Subjects
    BY McpAssumption DEF McpAssumption
  <1> QED  BY <1>1 DEF ChargedKeys, Keys

LEMMA PaymentsType ==
  ASSUME LimitTypeOK
  PROVE  \A k \in ChargedKeys : Payments(k) \in Nat
  <1> SUFFICES ASSUME NEW k \in ChargedKeys
               PROVE  Payments(k) \in Nat
    OBVIOUS
  <1>1. admitted[<<Merchant, k>>] \in Seq(Nat)
    BY ChargedKeysAre DEF LimitTypeOK
  <1> QED  BY <1>1 DEF Payments

LEMMA EffectsAre ==
  ASSUME NEW x
  PROVE  /\ Effects(<<"session", "unattributed">>) = {s \in Sessions : sessions[s] # "none"}
         /\ Effects(<<"quote", x>>) = {q \in Quotes : quotes[q].by = x}
         /\ Effects(<<"mandate", x>>) = {i \in Intents : holds[i].agent = x}
  BY DEF Effects

(* No effect is new. *)
NoEffect ==
  /\ \A s \in Sessions : sessions'[s] # "none" => sessions[s] # "none"
  /\ \A q \in Quotes : quotes'[q].by = quotes[q].by
  /\ \A i \in Intents : holds'[i].agent = holds[i].agent

(* No right to an effect is new. *)
NoRight(c) ==
  /\ calls'[c].pc = "allowed" =>
       calls[c].pc = "allowed" /\ calls'[c].key = calls[c].key
  /\ requests'[c].pc = "authorize" =>
       requests[c].pc = "authorize" /\ requests'[c].session = requests[c].session

LEMMA EffectsKept ==
  ASSUME NoEffect, NEW k
  PROVE  Effects(k)' \subseteq Effects(k)
  BY DEF NoEffect, Effects

LEMMA RightsKept ==
  ASSUME \A c \in Callers : NoRight(c), NEW k
  PROVE  InFlight(k)' \subseteq InFlight(k)
  BY DEF NoRight, InFlight


LEMMA NothingNew ==
  ASSUME LimitTypeOK, PaidInAdvance, UNCHANGED admitted,
         \A k \in ChargedKeys : Effects(k)' \subseteq Effects(k),
         \A k \in ChargedKeys : InFlight(k)' \subseteq InFlight(k)
  PROVE  PaidInAdvance'
  <1> SUFFICES ASSUME NEW k \in ChargedKeys
               PROVE  Covers(Effects(k)', InFlight(k)', Payments(k)')
    BY DEF PaidInAdvance, Covers, Payments, ChargedKeys
  <1>1. Covers(Effects(k), InFlight(k), Payments(k))
    BY PaidInAdvanceIs
  <1>2. Payments(k)' = Payments(k) /\ Payments(k) \in Nat
    BY PaymentsType DEF Payments
  <1>3. Effects(k)' \subseteq Effects(k) /\ InFlight(k)' \subseteq InFlight(k)
    OBVIOUS
  <1> QED
    BY <1>1, <1>2, <1>3, SmallerIsCovered

LEMMA FreeIsCovered ==
  ASSUME LimitTypeOK, PaidInAdvance, NoEffect, \A c \in Callers : NoRight(c),
         UNCHANGED admitted
  PROVE  PaidInAdvance'
  BY EffectsKept, RightsKept, NothingNew

(* One request spends its right to an effect of key k on x. *)
LEMMA SpendIsCovered ==
  ASSUME LimitTypeOK, PaidInAdvance, UNCHANGED admitted,
         NEW c \in Callers, NEW key, NEW x, c \in InFlight(key),
         calls'[c].pc # "allowed", requests'[c].pc # "authorize",
         \A d \in Callers \ {c} : NoRight(d),
         Effects(key)' \subseteq Effects(key) \cup {x},
         \A k \in ChargedKeys \ {key} : Effects(k)' \subseteq Effects(k)
  PROVE  PaidInAdvance'
  <1> SUFFICES ASSUME NEW k \in ChargedKeys
               PROVE  Covers(Effects(k)', InFlight(k)', Payments(k)')
    BY DEF PaidInAdvance, Covers, Payments, ChargedKeys
  <1>1. Covers(Effects(k), InFlight(k), Payments(k))
    BY PaidInAdvanceIs
  <1>2. Payments(k)' = Payments(k) /\ Payments(k) \in Nat
    BY PaymentsType DEF Payments
  <1>3. InFlight(k)' \subseteq InFlight(k) \ {c}
    BY DEF NoRight, InFlight
  <1>4. CASE k = key
    <2>1. c \in InFlight(k) /\ Effects(k)' \subseteq Effects(k) \cup {x}
      BY <1>4
    <2> QED  BY <1>1, <1>2, <1>3, <2>1, SpentIsCovered
  <1>5. CASE k # key
    <2>1. Effects(k)' \subseteq Effects(k) /\ InFlight(k)' \subseteq InFlight(k)
      BY <1>3, <1>5
    <2> QED  BY <1>1, <1>2, <2>1, SmallerIsCovered
  <1> QED  BY <1>4, <1>5

LEMMA LimiterIsPaid ==
  ASSUME LimitTypeOK, McpTypeOK, CallsAsked, PaidInAdvance, Limiter
  PROVE  PaidInAdvance'
  <1>1. UNCHANGED <<sessions, quotes, holds, requests>>
    BY DEF Limiter, tools
  <1>2. NoEffect
    BY <1>1 DEF NoEffect
  <1>3. CASE Tick
    BY <1>1, <1>2, <1>3, FreeIsCovered DEF Tick, NoRight
  <1>4. ASSUME NEW c \in Callers, insertBucket(c) \/ lockBucket(c) \/ Refuse(c) \/ FailClosed(c)
        PROVE  PaidInAdvance'
    <2>1. UNCHANGED admitted
      BY <1>4 DEF insertBucket, lockBucket, Refuse, FailClosed
    <2>2. calls \in [Callers -> Call]
      BY DEF LimitTypeOK
    <2>3. \A d \in Callers \ {c} : calls'[d] = calls[d]
      BY <1>4, <2>2 DEF insertBucket, lockBucket, Refuse, FailClosed
    <2>4. calls'[c].pc # "allowed"
      <3>1. CASE insertBucket(c)
        BY <2>2, <3>1 DEF insertBucket, Call
      <3>2. CASE lockBucket(c)
        BY <2>2, <3>2 DEF lockBucket, Call
      <3>3. CASE Refuse(c) \/ FailClosed(c)
        BY <2>2, <3>3 DEF Refuse, FailClosed, Call
      <3> QED  BY <1>4, <3>1, <3>2, <3>3
    <2>5. \A d \in Callers : NoRight(d)
      BY <1>1, <2>3, <2>4 DEF NoRight
    <2> QED  BY <1>2, <2>1, <2>5, FreeIsCovered
  <1>5. ASSUME NEW c \in Callers, Admit(c)
        PROVE  PaidInAdvance'
    <2> SUFFICES ASSUME NEW k \in ChargedKeys
                 PROVE  Covers(Effects(k)', InFlight(k)', Payments(k)')
      BY DEF PaidInAdvance, Covers, Payments, ChargedKeys
    <2>1. calls[c].merchant = Merchant /\ calls \in [Callers -> Call]
      BY <1>5 DEF Admit, CallsAsked, LimitTypeOK
    <2>2. calls'[c].key = calls[c].key /\ \A d \in Callers \ {c} : calls'[d] = calls[d]
      BY <1>5, <2>1 DEF Admit, Call
    <2>3. Covers(Effects(k), InFlight(k), Payments(k))
      BY PaidInAdvanceIs
    <2>4. Payments(k) \in Nat
      BY PaymentsType
    <2>5. Effects(k)' \subseteq Effects(k)
      BY <1>2, EffectsKept
    <2>6. <<Merchant, k>> \in Merchants \X Keys /\ admitted \in [Merchants \X Keys -> Seq(Nat)]
      BY ChargedKeysAre DEF LimitTypeOK
    <2>7. CASE k = calls[c].key
      <3>1. InFlight(k)' \subseteq InFlight(k) \cup {c}
        BY <1>1, <2>2 DEF InFlight
      <3>2. admitted'[<<Merchant, k>>] = Append(admitted[<<Merchant, k>>], calls[c].start)
        BY <1>5, <2>1, <2>6, <2>7 DEF Admit
      <3>3. Payments(k)' = Payments(k) + 1
        <4>1. admitted[<<Merchant, k>>] \in Seq(Nat)
          BY <2>6
        <4>2. calls[c].start \in Nat
          BY <2>1 DEF Call
        <4> QED  BY <3>2, <4>1, <4>2 DEF Payments
      <3>4. Payments(k)' \in Nat
        BY <2>4, <3>3
      <3> QED  BY <2>3, <2>4, <2>5, <3>1, <3>3, <3>4, PaidIsCovered
    <2>8. CASE k # calls[c].key
      <3>1. InFlight(k)' \subseteq InFlight(k)
        BY <1>1, <2>2, <2>8 DEF InFlight
      <3>2. <<Merchant, k>> # <<calls[c].merchant, calls[c].key>>
        BY <2>8
      <3>3. admitted'[<<Merchant, k>>] = admitted[<<Merchant, k>>]
        BY <1>5, <2>6, <3>2 DEF Admit
      <3>4. Payments(k)' = Payments(k)
        BY <3>3 DEF Payments
      <3> QED  BY <2>3, <2>4, <2>5, <3>1, <3>4, SmallerIsCovered
    <2> QED  BY <2>7, <2>8
  <1> QED  BY <1>3, <1>4, <1>5 DEF Limiter, Transact

LEMMA OthersKeepRights ==
  ASSUME LimitTypeOK, McpTypeOK, NEW c \in Callers,
         \/ QuietHandler(c) \/ remember(c) \/ authorize(c)
         \/ \E q \in Quotes, a \in Sessions : priceBasket(c, q, a)
         \/ \E q \in Quotes, i \in Intents : purchase(c, q, i)
  PROVE  /\ \A d \in Callers \ {c} : NoRight(d)
         /\ UNCHANGED admitted
         /\ calls'[c].pc = "allowed" => UNCHANGED limits
  <1>1. \A d \in Callers \ {c} : requests'[d] = requests[d]
    BY OwnRequestOnly
  <1>2. UNCHANGED limits \/ Answered(c) \/ \E m, k : consume(c, m, k)
    BY HandlersAsk
  <1>3. CASE UNCHANGED limits
    BY <1>1, <1>3 DEF limits, NoRight
  <1>4. CASE Answered(c) \/ \E m, k : consume(c, m, k)
    <2>1. /\ \A d \in Callers \ {c} : calls'[d] = calls[d]
          /\ calls'[c].pc # "allowed" /\ UNCHANGED admitted
      <3>1. calls \in [Callers -> Call]
        BY DEF LimitTypeOK
      <3>2. CASE Answered(c)
        BY <3>1, <3>2 DEF Answered, NoCall
      <3>3. ASSUME NEW m, NEW k, consume(c, m, k)
            PROVE  /\ \A d \in Callers \ {c} : calls'[d] = calls[d]
                   /\ calls'[c].pc # "allowed" /\ UNCHANGED admitted
        BY <3>1, <3>3 DEF consume
      <3> QED  BY <1>4, <3>2, <3>3
    <2> QED  BY <1>1, <2>1 DEF NoRight
  <1> QED  BY <1>2, <1>3, <1>4


(* A handler that has no effect. *)
FreeHandler(c) ==
  \/ \E n \in Instances, s \in Sessions : handleMcp(c, n, s)
  \/ Respond(c) \/ Initialize(c) \/ Unauthenticated(c) \/ Shutdown(c)
  \/ \E tool \in {"get_quote", "purchase"} : CallTool(c, tool)
  \/ revokeSession(c) \/ Turned(c) \/ remember(c)
  \/ Problem(c) \/ deny(c) \/ TellVerdict(c) \/ ToolFailed(c)

LEMMA FreeHandlerIsPaid ==
  ASSUME LimitTypeOK, McpTypeOK, PaidInAdvance, NEW c \in Callers, FreeHandler(c)
  PROVE  PaidInAdvance'
  <1>1. QuietHandler(c) \/ remember(c)
    BY DEF FreeHandler, QuietHandler
  <1>2. /\ \A d \in Callers \ {c} : NoRight(d)
        /\ UNCHANGED admitted
        /\ calls'[c].pc = "allowed" => UNCHANGED limits
    BY <1>1, OthersKeepRights
  <1>3. NoEffect
    <2>1. UNCHANGED <<quotes, holds>>
      BY DEF FreeHandler, handleMcp, Respond, Initialize, Unauthenticated, Shutdown,
         CallTool, revokeSession, Turned, remember, Problem, deny, TellVerdict, ToolFailed
    <2>2. ASSUME NEW s \in Sessions, sessions'[s] # "none"
          PROVE  sessions[s] # "none"
      <3>1. CASE UNCHANGED sessions
        BY <2>2, <3>1
      <3>2. CASE revokeSession(c)
        BY <2>2, <3>2 DEF revokeSession, McpTypeOK
      <3> QED
        BY <3>1, <3>2 DEF FreeHandler, handleMcp, Respond, Initialize, Unauthenticated,
           Shutdown, CallTool, Turned, remember, Problem, deny, TellVerdict, ToolFailed
    <2> QED  BY <2>1, <2>2 DEF NoEffect
  <1>4. requests'[c].pc # "authorize" \/ requests'[c] = requests[c]
    <2>1. requests[c] \in Requests /\ requests \in [Callers -> Requests]
      BY DEF McpTypeOK, Requests
    <2>2. ASSUME NEW p \in {"entry", "createSession", "get_quote", "purchase", "decided",
                            "revoke"},
                 Goto(c, p)
          PROVE  requests'[c].pc # "authorize"
      <3>1. requests'[c] = [requests[c] EXCEPT !.pc = p]
        BY <2>2, GotoType
      <3> QED  BY <2>1, <2>2, <3>1 DEF Requests
    <2>3. CASE \E n \in Instances, s \in Sessions : handleMcp(c, n, s)
      BY <2>1, <2>3 DEF handleMcp, NoRequest
    <2>4. CASE Respond(c)
      BY <2>1, <2>4 DEF Respond, NoRequest
    <2>5. CASE Unauthenticated(c)
      BY <2>5 DEF Unauthenticated
    <2>6. CASE TellVerdict(c) \/ ToolFailed(c)
      <3>1. requests' = [requests EXCEPT ![c] =
              [requests[c] EXCEPT !.pc = "entry", !.quote = None, !.intent = None]]
        BY <2>1, <2>6 DEF TellVerdict, ToolFailed, Forgotten
      <3>2. requests'[c] = [requests[c] EXCEPT !.pc = "entry", !.quote = None, !.intent = None]
        BY <2>1, <3>1
      <3> QED  BY <2>1, <3>2 DEF Requests
    <2>7. CASE \/ Initialize(c) \/ Shutdown(c) \/ revokeSession(c) \/ Turned(c)
               \/ \E tool \in {"get_quote", "purchase"} : CallTool(c, tool)
               \/ remember(c) \/ Problem(c) \/ deny(c)
      BY <2>2, <2>7 DEF Initialize, Shutdown, revokeSession, Turned, CallTool, remember,
         Problem, deny
    <2> QED  BY <2>3, <2>4, <2>5, <2>6, <2>7 DEF FreeHandler
  <1>5. NoRight(c)
    BY <1>2, <1>4 DEF NoRight, limits
  <1> QED  BY <1>2, <1>3, <1>5, FreeIsCovered

LEMMA OthersArePaid ==
  ASSUME LimitTypeOK, McpTypeOK, PaidInAdvance,
         \/ UNCHANGED mcpVars
         \/ \E s \in Sessions : Expire(s)
         \/ \E n \in Instances : Restart(n)
  PROVE  PaidInAdvance'
  <1>1. CASE UNCHANGED mcpVars
    BY <1>1, FreeIsCovered DEF mcpVars, limits, tools, NoEffect, NoRight
  <1>2. ASSUME NEW s \in Sessions, Expire(s)
        PROVE  PaidInAdvance'
    <2>1. \A t \in Sessions : sessions'[t] # "none" => sessions[t] # "none"
      BY <1>2 DEF Expire, McpTypeOK
    <2> QED  BY <1>2, <2>1, FreeIsCovered DEF Expire, limits, NoEffect, NoRight
  <1>3. ASSUME NEW n \in Instances, Restart(n)
        PROVE  PaidInAdvance'
    <2>1. NoEffect /\ UNCHANGED admitted
      BY <1>3 DEF Restart, NoEffect
    <2>2. ASSUME NEW c \in Callers
          PROVE  NoRight(c)
      <3>1. calls'[c] = calls[c] \/ calls'[c] = NoCall
        BY <1>3 DEF Restart
      <3>2. requests'[c] = requests[c] \/ requests'[c] = NoRequest
        BY <1>3 DEF Restart
      <3> QED  BY <3>1, <3>2 DEF NoRight, NoCall, NoRequest
    <2> QED  BY <2>1, <2>2, FreeIsCovered
  <1> QED  BY <1>1, <1>2, <1>3

(* The three effects, and the purchase that keeps its right in the intent. *)
LEMMA AllowedIsRight ==
  ASSUME CallsAsked, NEW c \in Callers, Allowed(c), LimitTypeOK
  PROVE  /\ calls'[c].pc # "allowed"
         /\ c \in InFlight(calls[c].key)
         /\ requests[c].pc = "createSession" => calls[c].key = <<"session", "unattributed">>
         /\ requests[c].pc = "get_quote" => calls[c].key = <<"quote", requests[c].session>>
         /\ requests[c].pc = "purchase" => calls[c].key = <<"mandate", requests[c].session>>
  <1>1. calls[c].pc = "allowed" /\ Answered(c)
    BY DEF Allowed
  <1>2. calls'[c].pc # "allowed"
    BY <1>1 DEF Answered, NoCall, LimitTypeOK
  <1>3. c \in InFlight(calls[c].key)
    BY <1>1 DEF InFlight
  <1> QED  BY <1>1, <1>2, <1>3 DEF CallsAsked

LEMMA CreateSessionIsPaid ==
  ASSUME LimitTypeOK, McpTypeOK, CallsAsked, PaidInAdvance, NEW c \in Callers,
         NEW s \in Sessions, createSession(c, s)
  PROVE  PaidInAdvance'
  <1> DEFINE key == <<"session", "unattributed">>
  <1>1. /\ requests[c].pc = "createSession" /\ Allowed(c) /\ Goto(c, "entry")
        /\ UNCHANGED <<quotes, holds>>
        /\ \A t \in Sessions \ {s} : sessions'[t] = sessions[t]
    BY DEF createSession, McpTypeOK
  <1>2. calls'[c].pc # "allowed" /\ c \in InFlight(key)
    BY <1>1, AllowedIsRight
  <1>3. requests'[c].pc # "authorize"
    BY <1>1, GotoType DEF McpTypeOK
  <1>4. UNCHANGED admitted /\ \A d \in Callers \ {c} : NoRight(d)
    BY OthersKeepRights DEF QuietHandler
  <1>5. Effects(key)' \subseteq Effects(key) \cup {s}
    BY <1>1 DEF Effects
  <1>6. ASSUME NEW k \in ChargedKeys \ {key}
        PROVE  Effects(k)' \subseteq Effects(k)
    BY <1>1, <1>6 DEF Effects
  <1> HIDE DEF key
  <1> QED  BY <1>2, <1>3, <1>4, <1>5, <1>6, SpendIsCovered

LEMMA PriceBasketIsPaid ==
  ASSUME LimitTypeOK, McpTypeOK, CallsAsked, PaidInAdvance, NEW c \in Callers,
         NEW q \in Quotes, NEW a \in Sessions, priceBasket(c, q, a)
  PROVE  PaidInAdvance'
  <1>0. PICK key, sess : key = <<"quote", sess>> /\ sess = requests[c].session
    OBVIOUS
  <1>1. /\ requests[c].pc = "get_quote" /\ Allowed(c)
        /\ UNCHANGED <<sessions, holds>>
        /\ quotes'[q].by = requests[c].session
        /\ \A r \in Quotes \ {q} : quotes'[r] = quotes[r]
    BY DEF priceBasket, McpTypeOK
  <1>2. calls'[c].pc # "allowed" /\ c \in InFlight(key)
    BY <1>0, <1>1, AllowedIsRight
  <1>3. requests'[c].pc # "authorize"
    <2>1. requests[c] \in Requests /\ requests \in [Callers -> Requests]
      BY DEF McpTypeOK, Requests
    <2>2. requests' = [requests EXCEPT ![c] =
            [requests[c] EXCEPT !.pc = "remember", !.quote = q]]
      BY <2>1 DEF priceBasket
    <2>3. requests'[c] = [requests[c] EXCEPT !.pc = "remember", !.quote = q]
      BY <2>1, <2>2
    <2> QED  BY <2>1, <2>3 DEF Requests
  <1>4. UNCHANGED admitted /\ \A d \in Callers \ {c} : NoRight(d)
    BY OthersKeepRights
  <1>5. Effects(key)' \subseteq Effects(key) \cup {q}
    BY <1>0, <1>1 DEF Effects
  <1>6. ASSUME NEW k \in ChargedKeys \ {key}
        PROVE  Effects(k)' \subseteq Effects(k)
    <2>1. k # <<"quote", quotes'[q].by>>
      BY <1>0, <1>1, <1>6
    <2> QED  BY <1>1, <2>1 DEF Effects
  <1> QED  BY <1>2, <1>3, <1>4, <1>5, <1>6, SpendIsCovered

LEMMA AuthorizeIsPaid ==
  ASSUME LimitTypeOK, McpTypeOK, QuotesKnown, CallsAsked, PaidInAdvance,
         NEW c \in Callers, authorize(c)
  PROVE  PaidInAdvance'
  <1>0. PICK key, i, sess :
          /\ key = <<"mandate", sess>> /\ sess = requests[c].session
          /\ i = requests[c].intent
    OBVIOUS
  <1> DEFINE q == requests[c].quote
  <1>1. /\ requests[c].pc = "authorize" /\ Goto(c, "decided")
        /\ UNCHANGED <<limits, sessions>>
        /\ quotes' = [quotes EXCEPT ![q].consumed_by = i]
        /\ holds' = [holds EXCEPT ![i] = [quote |-> q, agent |-> requests[c].session]]
    BY <1>0 DEF authorize
  <1>2. q \in Quotes /\ i \in Intents
    BY <1>0, <1>1 DEF QuotesKnown, McpTypeOK
  <1>3. /\ \A r \in Quotes : quotes'[r].by = quotes[r].by
        /\ holds'[i].agent = requests[c].session
        /\ \A j \in Intents \ {i} : holds'[j] = holds[j]
    BY <1>1, <1>2 DEF McpTypeOK
  <1>4. calls'[c].pc # "allowed"
    BY <1>1 DEF CallsAsked, limits
  <1>5. c \in InFlight(key)
    BY <1>0, <1>1 DEF InFlight
  <1>6. requests'[c].pc # "authorize"
    <2>1. requests'[c] = [requests[c] EXCEPT !.pc = "decided"] /\ requests[c] \in Requests
      BY <1>1, GotoType DEF McpTypeOK, Requests
    <2> QED  BY <2>1 DEF Requests
  <1>7. UNCHANGED admitted /\ \A d \in Callers \ {c} : NoRight(d)
    BY OthersKeepRights
  <1>8. Effects(key)' \subseteq Effects(key) \cup {i}
    BY <1>0, <1>1, <1>3 DEF Effects
  <1>9. ASSUME NEW k \in ChargedKeys \ {key}
        PROVE  Effects(k)' \subseteq Effects(k)
    <2>1. k # <<"mandate", holds'[i].agent>>
      BY <1>0, <1>3, <1>9
    <2> QED  BY <1>1, <1>3, <2>1 DEF Effects
  <1> QED  BY <1>4, <1>5, <1>6, <1>7, <1>8, <1>9, SpendIsCovered

LEMMA PurchaseIsPaid ==
  ASSUME LimitTypeOK, McpTypeOK, CallsAsked, PaidInAdvance, NEW c \in Callers,
         NEW q \in Quotes, NEW i \in Intents, purchase(c, q, i)
  PROVE  PaidInAdvance'
  <1> DEFINE key == <<"mandate", requests[c].session>>
  <1>1. /\ requests[c].pc = "purchase" /\ Allowed(c)
        /\ UNCHANGED <<sessions, quotes, holds>>
    BY DEF purchase
  <1>2. calls'[c].pc # "allowed" /\ c \in InFlight(key)
    BY <1>1, AllowedIsRight
  <1>3. requests'[c].session = requests[c].session
    <2>1. requests[c] \in Requests /\ requests \in [Callers -> Requests]
      BY DEF McpTypeOK, Requests
    <2>2. requests' = [requests EXCEPT ![c] =
            [requests[c] EXCEPT !.pc = "authorize", !.quote = q, !.intent = i]]
      BY <2>1 DEF purchase
    <2>3. requests'[c] = [requests[c] EXCEPT !.pc = "authorize", !.quote = q, !.intent = i]
      BY <2>1, <2>2
    <2> QED  BY <2>1, <2>3 DEF Requests
  <1>4. UNCHANGED admitted /\ \A d \in Callers \ {c} : NoRight(d)
    BY OthersKeepRights
  <1>5. NoEffect
    BY <1>1 DEF NoEffect
  <1>6. ASSUME NEW k
        PROVE  InFlight(k)' \subseteq InFlight(k)
    <2>1. ASSUME c \in InFlight(k)'
          PROVE  c \in InFlight(k)
      <3>1. k = key
        BY <1>2, <1>3, <2>1 DEF InFlight
      <3> QED  BY <1>2, <3>1
    <2>2. ASSUME NEW d \in Callers \ {c}, d \in InFlight(k)'
          PROVE  d \in InFlight(k)
      BY <1>4, <2>2 DEF InFlight, NoRight
    <2> QED  BY <2>1, <2>2 DEF InFlight
  <1> QED  BY <1>4, <1>5, <1>6, EffectsKept, NothingNew

LEMMA PaidInAdvanceKept ==
  ASSUME LimitTypeOK, McpTypeOK, QuotesKnown, CallsAsked, PaidInAdvance,
         [McpNext]_mcpVars
  PROVE  PaidInAdvance'
  <1>1. CASE Limiter
    BY <1>1, LimiterIsPaid
  <1>2. CASE \/ UNCHANGED mcpVars
             \/ \E s \in Sessions : Expire(s)
             \/ \E n \in Instances : Restart(n)
    BY <1>2, OthersArePaid
  <1>3. ASSUME NEW c \in Callers, FreeHandler(c)
        PROVE  PaidInAdvance'
    BY <1>3, FreeHandlerIsPaid
  <1>4. ASSUME NEW c \in Callers,
               \/ \E s \in Sessions : createSession(c, s)
               \/ \E q \in Quotes, a \in Sessions : priceBasket(c, q, a)
               \/ \E q \in Quotes, i \in Intents : purchase(c, q, i)
               \/ authorize(c)
        PROVE  PaidInAdvance'
    BY <1>4, CreateSessionIsPaid, PriceBasketIsPaid, PurchaseIsPaid, AuthorizeIsPaid
  <1> QED  BY <1>1, <1>2, <1>3, <1>4 DEF McpNext, FreeHandler
-----------------------------------------------------------------------------
LEMMA McpInvInit ==
  ASSUME McpInit
  PROVE  McpInv
  <1>1. LimitInv
    BY LimitInvInit DEF McpInit
  <1>2. McpTypeOK
    <2>1. MaxEntries \in Nat
      BY McpAssumption DEF McpAssumption
    <2> QED  BY <2>1 DEF McpInit, McpTypeOK, NoQuote, NoHold, NoRequest
  <1>3. QuotesKnown /\ BoughtOnceByItsSession
    BY DEF McpInit, QuotesKnown, BoughtOnceByItsSession, NoHold, NoRequest
  <1>4. CallsAsked
    BY DEF McpInit, Init, CallsAsked, NoCall, NoBucket
  <1>5. PaidInAdvance
    <2> SUFFICES ASSUME NEW k \in ChargedKeys
                 PROVE  Covers(Effects(k), InFlight(k), Payments(k))
      BY PaidInAdvanceIs
    <2>1. InFlight(k) = {}
      BY DEF McpInit, Init, InFlight, NoCall, NoRequest
    <2>2. Effects(k) = {}
      <3>1. k # <<"quote", None>> /\ k # <<"mandate", None>>
        BY NoneIsNobody DEF ChargedKeys
      <3> QED  BY <3>1 DEF McpInit, Effects, NoQuote, NoHold
    <2>3. Payments(k) \in Nat
      BY <1>1, PaymentsType DEF LimitInv
    <2> QED  BY <2>1, <2>2, <2>3, FS_EmptySet DEF Covers
  <1> QED  BY <1>1, <1>2, <1>3, <1>4, <1>5 DEF McpInv

LEMMA McpInvKept ==
  ASSUME McpInv, [McpNext]_mcpVars
  PROVE  McpInv'
  <1>1. /\ McpTypeOK /\ LimitInv /\ QuotesKnown /\ BoughtOnceByItsSession
        /\ CallsAsked /\ PaidInAdvance /\ LimitTypeOK /\ HeldIsRead
    BY DEF McpInv, LimitInv
  <1>2. LimitInv'
    BY <1>1, HandlersMoveLimiter, LimitInvKept
  <1>3. McpTypeOK'
    BY <1>1, McpTypeKept
  <1>4. QuotesKnown' /\ BoughtOnceByItsSession'
    BY <1>1, QuotesKept
  <1>5. CallsAsked'
    BY <1>1, CallsAskedKept
  <1>6. PaidInAdvance'
    BY <1>1, PaidInAdvanceKept
  <1> QED  BY <1>2, <1>3, <1>4, <1>5, <1>6 DEF McpInv
-----------------------------------------------------------------------------
(* The limiter by itself, whichever merchants charge whichever keys: the   *)
(* rows stay the balance of the logs, every writer has read the row it     *)
(* writes, and no run of admitted requests outgrows its bucket.            *)
THEOREM LimitIsKept == Spec => []LimitInv
  <1>1. ASSUME [Next]_limits
        PROVE  LimiterMoves
    BY <1>1 DEF Next, LimiterMoves
  <1>2. LimitInv /\ [Next]_limits => LimitInv'
    BY <1>1, LimitInvKept
  <1> QED  BY <1>2, LimitInvInit, PTL DEF Spec

(* The same of the limiter as the handlers, the failures and the restarts  *)
(* of several instances drive it, and with it what the door keeps.         *)
THEOREM McpIsKept == McpSpec => []McpInv
  BY McpInvInit, McpInvKept, PTL DEF McpSpec

(* consume: no two requests see the last token, whatever order their       *)
(* transactions start, wait and commit in.                                 *)
THEOREM AdmittedWithinHolds == McpSpec => []AdmittedWithin
  <1>1. McpInv => AdmittedWithin
    BY DEF McpInv, LimitInv
  <1> QED  BY <1>1, McpIsKept, PTL

(* A quote is bought once, by the session it was priced for, whatever the  *)
(* instances remember and however often a client asks.                     *)
THEOREM BoughtOnceHolds == McpSpec => []BoughtOnceByItsSession
  <1>1. McpInv => BoughtOnceByItsSession
    BY DEF McpInv
  <1> QED  BY <1>1, McpIsKept, PTL

(* No session, quote or hold without a token: not after a failure, a       *)
(* restart or a retry.                                                     *)
THEOREM EffectsAreChargedHolds == McpSpec => []EffectsAreCharged
  <1>1. ASSUME McpInv
        PROVE  EffectsAreCharged
    <2>1. PaidInAdvance
      BY <1>1 DEF McpInv
    <2>2. ASSUME NEW k \in ChargedKeys
          PROVE  Cardinality(Effects(k)) <= Len(admitted[<<Merchant, k>>])
      <3>1. Covers(Effects(k), InFlight(k), Payments(k))
        BY <2>1, PaidInAdvanceIs
      <3>2. Payments(k) \in Nat
        BY <1>1, PaymentsType DEF McpInv, LimitInv
      <3>3. Cardinality(Effects(k)) \in Nat /\ Cardinality(InFlight(k)) \in Nat
        BY <3>1, FS_CardinalityType DEF Covers
      <3>4. Cardinality(Effects(k)) <= Payments(k)
        BY <3>1, <3>2, <3>3 DEF Covers
      <3> QED  BY <3>4 DEF Payments
    <2>3. Cardinality({s \in Sessions : sessions[s] # "none"})
            <= Len(admitted[<<Merchant, <<"session", "unattributed">>>>])
      <3>1. <<"session", "unattributed">> \in ChargedKeys
        BY DEF ChargedKeys
      <3> QED  BY <2>2, <3>1, EffectsAre
    <2>4. ASSUME NEW s \in Sessions
          PROVE  /\ Cardinality({q \in Quotes : quotes[q].by = s})
                      <= Len(admitted[<<Merchant, <<"quote", s>>>>])
                 /\ Cardinality({i \in Intents : holds[i].agent = s})
                      <= Len(admitted[<<Merchant, <<"mandate", s>>>>])
      <3>1. <<"quote", s>> \in ChargedKeys /\ <<"mandate", s>> \in ChargedKeys
        BY DEF ChargedKeys
      <3> QED  BY <2>2, <3>1, EffectsAre
    <2> QED  BY <2>3, <2>4 DEF EffectsAreCharged
  <1> QED  BY <1>1, McpIsKept, PTL

(* Behind the door a caller is refused only for what the callers of its    *)
(* own merchant and key were given.                                        *)
LEMMA RefusedIsSpent ==
  ASSUME McpInv, [McpNext]_mcpVars, NEW c \in Callers,
         calls[c].pc # "refused", calls'[c].pc = "refused"
  PROVE  LET k == calls[c].key
         IN  Spent(Full(k), Token(k), admitted[<<calls[c].merchant, k>>], calls[c].start)
  <1> DEFINE k == calls[c].key
             log == admitted[<<calls[c].merchant, k>>]
  <1>1. LimitTypeOK /\ HeldIsRead /\ BucketIsLog /\ CallsAsked
    BY DEF McpInv, LimitInv
  <1>2. Refuse(c)
    <2>1. calls \in [Callers -> Call]
      BY <1>1 DEF LimitTypeOK
    <2>2. CASE UNCHANGED limits \/ Tick \/ \E D \in SUBSET Callers : Die(D)
      BY <2>2 DEF limits, Tick, Die, NoCall
    <2>3. ASSUME NEW d \in Callers, LimitStep(d)
          PROVE  Refuse(c)
      <3>1. CASE \E m \in Merchants, key \in Keys : consume(d, m, key)
        BY <2>1, <3>1 DEF consume
      <3>2. CASE insertBucket(d)
        BY <2>1, <3>2 DEF insertBucket, Call
      <3>3. CASE lockBucket(d)
        BY <2>1, <3>3 DEF lockBucket, Call
      <3>4. CASE Admit(d) \/ FailClosed(d)
        BY <2>1, <3>4 DEF Admit, FailClosed, Call
      <3>5. CASE Answered(d)
        BY <2>1, <3>5 DEF Answered, NoCall
      <3>6. CASE Refuse(d)
        <4>1. d = c
          BY <2>1, <3>6 DEF Refuse
        <4> QED  BY <3>6, <4>1
      <3> QED  BY <2>3, <3>1, <3>2, <3>3, <3>4, <3>5, <3>6 DEF LimitStep, Transact
    <2> QED  BY <2>2, <2>3, HandlersMoveLimiter DEF LimiterMoves
  <1>3. calls[c].pc = "update" /\ calls[c].available < Token(k)
    BY <1>2 DEF Refuse
  <1>4. calls[c].merchant = Merchant /\ k \in Keys
    BY <1>1, <1>3, CallTypes DEF CallsAsked
  <1>5. Visible(c).merchant = calls[c].merchant
    BY <1>1, <1>4 DEF Visible, Exists, NewBucket, CallsAsked
  <1>6. Exact(Full(k), Token(k), log, calls[c].available, calls[c].start)
    BY <1>1, <1>2, <1>5, RefuseIsExact
  <1> HIDE DEF log
  <1>7. Spent(Full(k), Token(k), log, calls[c].start)
    BY <1>3, <1>6 DEF Exact, Spent
  <1> QED  BY <1>7 DEF log

THEOREM RefusedOnlyWhenSpentHolds == McpSpec => RefusedOnlyWhenSpent
  <1>1. ASSUME McpInv, [McpNext]_mcpVars
        PROVE  [\A c \in Callers :
                  calls[c].pc # "refused" /\ calls'[c].pc = "refused" =>
                    LET k == calls[c].key
                    IN  Spent(Full(k), Token(k), admitted[<<calls[c].merchant, k>>],
                              calls[c].start)]_limits
    BY <1>1, RefusedIsSpent
  <1> QED  BY <1>1, McpIsKept, PTL DEF McpSpec, RefusedOnlyWhenSpent
=============================================================================
