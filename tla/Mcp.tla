--------------------------------- MODULE Mcp ---------------------------------
(***************************************************************************)
(* The MCP door: handleMcp works through the entries of a request in order *)
(* and charges each to a bucket of RateLimit before its tool runs.         *)
(* Sessions, quotes and buckets are rows that all instances of the kernel  *)
(* share; the quotes a session may buy by id are kept in the memory of the *)
(* instance that priced them.  Every await lets other requests in, and an  *)
(* instance may die at any of them.                                        *)
(*                                                                         *)
(* The tools modelled are those that write here: initialize, get_quote,    *)
(* purchase, shutdown.  What authorize decides is in Authorization; here   *)
(* it is one commit.  MaxEntries bounds the requests' entries in all.      *)
(***************************************************************************)
EXTENDS RateLimit, FiniteSets

CONSTANTS
  Merchant,      \* the tenant the API key resolved to
  Sessions,      \* session ids; each has one agent, which holds one mandate
  Instances,     \* processes of the kernel
  Quotes, Intents,
  MaxEntries

ASSUME McpAssumption ==
  /\ Merchant \in Merchants
  /\ {"session", "quote", "mandate"} \subseteq Kinds
  /\ Sessions \cup {"unattributed"} \subseteq Subjects
  /\ None \notin Sessions \cup Instances \cup Quotes \cup Intents
  /\ MaxEntries \in Nat

VARIABLES
  sessions,      \* mcp_sessions
  quotes,        \* quotes: the agent of the mandate priced for, consumed_by
  holds,         \* reservations, by intent
  quoteCache,    \* per instance
  requests,      \* the HTTP requests in progress
  entries        \* entries begun in all

tools == <<sessions, quotes, holds, quoteCache, requests, entries>>
mcpVars == <<limits, tools>>

NoQuote == [mandate |-> None, by |-> None, consumed_by |-> None]
NoHold == [quote |-> None, agent |-> None]
NoRequest == [pc |-> "idle", at |-> None, session |-> None, quote |-> None,
              intent |-> None]

McpInit ==
  /\ Init
  /\ sessions = [s \in Sessions |-> "none"]
  /\ quotes = [q \in Quotes |-> NoQuote]
  /\ holds = [i \in Intents |-> NoHold]
  /\ quoteCache = [n \in Instances |-> {}]
  /\ requests = [c \in Callers |-> NoRequest]
  /\ entries = 0
-----------------------------------------------------------------------------
Goto(c, pc) == requests' = [requests EXCEPT ![c].pc = pc]

(* A request arrives at an instance, with the session id in its header. *)
handleMcp(c, n, s) ==
  /\ requests[c].pc = "idle"
  /\ requests' = [requests EXCEPT ![c] = [NoRequest EXCEPT
                    !.pc = "entry", !.at = n, !.session = s]]
  /\ UNCHANGED <<limits, sessions, quotes, holds, quoteCache, entries>>

Respond(c) ==
  /\ requests[c].pc = "entry"
  /\ requests' = [requests EXCEPT ![c] = NoRequest]
  /\ UNCHANGED <<limits, sessions, quotes, holds, quoteCache, entries>>

BeginEntry(c) ==
  /\ requests[c].pc = "entry"
  /\ entries < MaxEntries
  /\ entries' = entries + 1

(* callerKey: one subject for all callers unless a proxy names them. *)
Initialize(c) ==
  /\ BeginEntry(c)
  /\ consume(c, Merchant, <<"session", "unattributed">>)
  /\ Goto(c, "createSession")
  /\ UNCHANGED <<sessions, quotes, holds, quoteCache>>

(* resolveSession: unknown, expired and revoked get one answer, which ends *)
(* the entry.  Nothing is shared between it and the BEGIN of consume.      *)
Live(c) == sessions[requests[c].session] = "live"

bucketFor(tool) == IF tool = "get_quote" THEN "quote" ELSE "mandate"

CallTool(c, tool) ==
  /\ BeginEntry(c)
  /\ Live(c)
  /\ consume(c, Merchant, <<bucketFor(tool), requests[c].session>>)
  /\ Goto(c, tool)
  /\ UNCHANGED <<sessions, quotes, holds, quoteCache>>

Unauthenticated(c) ==
  /\ BeginEntry(c)
  /\ ~Live(c)
  /\ UNCHANGED <<limits, sessions, quotes, holds, quoteCache, requests>>

Shutdown(c) ==
  /\ BeginEntry(c)
  /\ Live(c)
  /\ Goto(c, "revoke")
  /\ UNCHANGED <<limits, sessions, quotes, holds, quoteCache>>

(* UPDATE ... WHERE revoked_at IS NULL *)
revokeSession(c) ==
  /\ requests[c].pc = "revoke"
  /\ sessions' = [sessions EXCEPT ![requests[c].session] =
                    IF @ \in {"live", "expired"} THEN "revoked" ELSE @]
  /\ Goto(c, "entry")
  /\ UNCHANGED <<limits, quotes, holds, quoteCache, entries>>
-----------------------------------------------------------------------------
(* The answer of consume. *)
Turned(c) ==
  /\ calls[c].pc \in {"refused", "failed"}
  /\ Answered(c)
  /\ Goto(c, "entry")
  /\ UNCHANGED <<sessions, quotes, holds, quoteCache, entries>>

(* Mutant: the limiter opens when its own storage fails. *)
AllowedOrFailed(c) == calls[c].pc \in {"allowed", "failed"} /\ Answered(c)
Allowed(c) == calls[c].pc = "allowed" /\ Answered(c)

createSession(c, s) ==
  /\ requests[c].pc = "createSession"
  /\ sessions[s] = "none"
  /\ Allowed(c)
  /\ sessions' = [sessions EXCEPT ![s] = "live"]
  /\ Goto(c, "entry")
  /\ UNCHANGED <<quotes, holds, quoteCache, entries>>

(* priceBasket: for whatever mandate the caller names, its own or not. *)
priceBasket(c, q, agent) ==
  /\ requests[c].pc = "get_quote"
  /\ quotes[q] = NoQuote
  /\ Allowed(c)
  /\ quotes' = [quotes EXCEPT ![q] = [mandate |-> agent, by |-> requests[c].session,
                                      consumed_by |-> None]]
  /\ requests' = [requests EXCEPT ![c].pc = "remember", ![c].quote = q]
  /\ UNCHANGED <<sessions, holds, quoteCache, entries>>

(* What is older than QUOTE_CACHE_TTL_MS goes as another quote comes. *)
remember(c) ==
  LET n == requests[c].at
  IN  /\ requests[c].pc = "remember"
      /\ \E old \in SUBSET quoteCache[n] :
           quoteCache' = [quoteCache EXCEPT ![n] =
             (@ \ old) \cup {<<requests[c].session, requests[c].quote>>}]
      /\ Goto(c, "entry")
      /\ UNCHANGED <<limits, sessions, quotes, holds, entries>>

(* Mutant: the cache is asked for the quote whoever holds it. *)
HeldByAnyone(c, q) == \E s \in Sessions : <<s, q>> \in quoteCache[requests[c].at]
Held(c, q) == <<requests[c].session, q>> \in quoteCache[requests[c].at]

Fresh(i) == holds[i] = NoHold /\ \A c \in Callers : requests[c].intent # i

(* A new intent with a new nonce, whoever else is buying the same quote. *)
purchase(c, q, i) ==
  /\ requests[c].pc = "purchase"
  /\ Fresh(i)
  /\ Held(c, q)
  /\ Allowed(c)
  /\ requests' = [requests EXCEPT ![c].pc = "authorize", ![c].quote = q,
                                  ![c].intent = i]
  /\ UNCHANGED <<sessions, quotes, holds, quoteCache, entries>>

(* The tool has nothing to work on: no such mandate or product, or no such *)
(* quote in this process.                                                  *)
Problem(c) ==
  /\ requests[c].pc \in {"createSession", "get_quote", "purchase"}
  /\ Allowed(c)
  /\ Goto(c, "entry")
  /\ UNCHANGED <<sessions, quotes, holds, quoteCache, entries>>

(* Mutant: UPDATE quotes without consumed_at IS NULL. *)
BindableAgain(c) == quotes[requests[c].quote].mandate = requests[c].session
(* The commit of authorize with verdict ALLOW or STEP_UP: the agent is the *)
(* mandate's, the quote was issued to that mandate and is not consumed.    *)
Bindable(c) ==
  LET q == requests[c].quote
  IN  quotes[q].mandate = requests[c].session /\ quotes[q].consumed_by = None

authorize(c) ==
  LET q == requests[c].quote
      i == requests[c].intent
  IN  /\ requests[c].pc = "authorize"
      /\ Bindable(c)
      /\ quotes' = [quotes EXCEPT ![q].consumed_by = i]
      /\ holds' = [holds EXCEPT ![i] = [quote |-> q, agent |-> requests[c].session]]
      /\ Goto(c, "decided")
      /\ UNCHANGED <<limits, sessions, quoteCache, entries>>

deny(c) ==
  /\ requests[c].pc = "authorize"
  /\ Goto(c, "decided")
  /\ UNCHANGED <<limits, sessions, quotes, holds, quoteCache, entries>>

Forgotten(c) == [requests EXCEPT ![c].pc = "entry", ![c].quote = None,
                                 ![c].intent = None]

TellVerdict(c) ==
  LET n == requests[c].at
  IN  /\ requests[c].pc = "decided"
      /\ quoteCache' = [quoteCache EXCEPT ![n] =
                          @ \ {<<requests[c].session, requests[c].quote>>}]
      /\ requests' = Forgotten(c)
      /\ UNCHANGED <<limits, sessions, quotes, holds, entries>>

(* authorize threw, before its commit or after it: the quote stays in the  *)
(* cache and the client may ask again.                                     *)
ToolFailed(c) ==
  /\ requests[c].pc \in {"authorize", "decided"}
  /\ requests' = Forgotten(c)
  /\ UNCHANGED <<limits, sessions, quotes, holds, quoteCache, entries>>
-----------------------------------------------------------------------------
Expire(s) ==
  /\ sessions[s] = "live"
  /\ sessions' = [sessions EXCEPT ![s] = "expired"]
  /\ UNCHANGED <<limits, quotes, holds, quoteCache, requests, entries>>

(* A process of the kernel dies and is started again. *)
Restart(n) ==
  /\ quoteCache' = [quoteCache EXCEPT ![n] = {}]
  /\ requests' = [c \in Callers |-> IF requests[c].at = n THEN NoRequest ELSE requests[c]]
  /\ calls' = [c \in Callers |-> IF requests[c].at = n THEN NoCall ELSE calls[c]]
  /\ holder' = [k \in Keys |->
                  IF \E c \in Callers : holder[k] = c /\ requests[c].at = n
                  THEN None ELSE holder[k]]
  /\ UNCHANGED <<clock, buckets, admitted, sessions, quotes, holds, entries>>

Limiter ==
  /\ Tick \/ \E c \in Callers : Transact(c) \/ FailClosed(c)
  /\ UNCHANGED tools

McpNext ==
  \/ Limiter
  \/ \E c \in Callers :
       \/ \E n \in Instances, s \in Sessions : handleMcp(c, n, s)
       \/ Respond(c) \/ Initialize(c) \/ Unauthenticated(c) \/ Shutdown(c)
       \/ \E tool \in {"get_quote", "purchase"} : CallTool(c, tool)
       \/ revokeSession(c) \/ Turned(c)
       \/ \E s \in Sessions : createSession(c, s)
       \/ \E q \in Quotes, a \in Sessions : priceBasket(c, q, a)
       \/ remember(c)
       \/ \E q \in Quotes, i \in Intents : purchase(c, q, i)
       \/ Problem(c) \/ authorize(c) \/ deny(c) \/ TellVerdict(c) \/ ToolFailed(c)
  \/ \E s \in Sessions : Expire(s)
  \/ \E n \in Instances : Restart(n)

McpSpec == McpInit /\ [][McpNext]_mcpVars
-----------------------------------------------------------------------------
McpTypeOK ==
  /\ sessions \in [Sessions -> {"none", "live", "expired", "revoked"}]
  /\ quotes \in [Quotes -> [mandate : Sessions \cup {None}, by : Sessions \cup {None},
                            consumed_by : Intents \cup {None}]]
  /\ holds \in [Intents -> [quote : Quotes \cup {None}, agent : Sessions \cup {None}]]
  /\ quoteCache \in [Instances -> SUBSET (Sessions \X Quotes)]
  /\ requests \in [Callers ->
       [pc : {"idle", "entry", "createSession", "get_quote", "remember", "purchase",
              "authorize", "decided", "revoke"},
        at : Instances \cup {None}, session : Sessions \cup {None},
        quote : Quotes \cup {None}, intent : Intents \cup {None}]]
  /\ entries \in 0 .. MaxEntries

(* Nothing a tool leaves behind was free: there are no more sessions than  *)
(* admitted initializes, and no more quotes or holds of an agent than      *)
(* admitted calls of it, whatever failed, restarted or was retried.        *)
EffectsAreCharged ==
  LET charged(kind, s) == Len(admitted[<<Merchant, <<kind, s>>>>])
  IN  /\ Cardinality({s \in Sessions : sessions[s] # "none"})
           <= charged("session", "unattributed")
      /\ \A s \in Sessions :
           /\ Cardinality({q \in Quotes : quotes[q].by = s}) <= charged("quote", s)
           /\ Cardinality({i \in Intents : holds[i].agent = s}) <= charged("mandate", s)

(* A quote is bought once, however many requests, instances and retries    *)
(* find it, by the session it was priced for and on that agent's mandate.  *)
BoughtOnceByItsSession ==
  \A i \in Intents : holds[i] # NoHold =>
    LET q == holds[i].quote
    IN  /\ quotes[q].consumed_by = i
        /\ quotes[q].by = holds[i].agent
        /\ quotes[q].mandate = holds[i].agent
-----------------------------------------------------------------------------
(* What the two properties above need of the caches and of the requests    *)
(* that hold a quote: who it was priced for, and that an intent is new.    *)
QuotesKnown ==
  /\ \A n \in Instances : \A x \in quoteCache[n] : quotes[x[2]].by = x[1]
  /\ \A i \in Intents : holds[i] # NoHold =>
       holds[i].quote \in Quotes /\ holds[i].agent \in Sessions
  /\ \A c \in Callers :
       LET r == requests[c]
       IN  /\ r.pc # "idle" => r.at \in Instances /\ r.session \in Sessions
           /\ r.pc \in {"remember", "authorize", "decided"} =>
                r.quote \in Quotes /\ quotes[r.quote].by = r.session
           /\ r.pc \in {"authorize", "decided"} <=> r.intent # None
           /\ r.pc = "authorize" => holds[r.intent] = NoHold
  /\ \A c, d \in Callers :
       requests[c].intent = requests[d].intent /\ requests[c].intent # None => c = d

(* A call is one the tool waiting for it has asked for, and the rows are   *)
(* those of the merchant they all charge.                                  *)
CallsAsked ==
  /\ \A c \in Callers : calls[c].pc # "idle" =>
       LET r == requests[c]
       IN  /\ calls[c].merchant = Merchant
           /\ \/ r.pc = "createSession" /\ calls[c].key = <<"session", "unattributed">>
              \/ r.pc = "get_quote" /\ calls[c].key = <<"quote", r.session>>
              \/ r.pc = "purchase" /\ calls[c].key = <<"mandate", r.session>>
  /\ \A k \in Keys : buckets[k].merchant \in {None, Merchant}

(* What a key has paid for: the effects it is charged for and the requests *)
(* let through that may still have theirs.                                 *)
ChargedKeys == {<<"session", "unattributed">>} \cup ({"quote", "mandate"} \X Sessions)

Effects(k) ==
  {s \in Sessions : k = <<"session", "unattributed">> /\ sessions[s] # "none"}
  \cup {q \in Quotes : k = <<"quote", quotes[q].by>>}
  \cup {i \in Intents : k = <<"mandate", holds[i].agent>>}

InFlight(k) ==
  {c \in Callers : \/ calls[c].pc = "allowed" /\ calls[c].key = k
                   \/ requests[c].pc = "authorize" /\ k = <<"mandate", requests[c].session>>}

PaidInAdvance ==
  \A k \in ChargedKeys :
    /\ IsFiniteSet(Effects(k)) /\ IsFiniteSet(InFlight(k))
    /\ Cardinality(Effects(k)) + Cardinality(InFlight(k)) <= Len(admitted[<<Merchant, k>>])

(* The limiter keeps its invariant as the handlers, the failures and the   *)
(* restarts of several instances drive it, and the door keeps its own.     *)
McpInv ==
  /\ McpTypeOK /\ LimitInv
  /\ QuotesKnown /\ BoughtOnceByItsSession
  /\ CallsAsked /\ PaidInAdvance
=============================================================================
