--------------------------- MODULE LedgerTheorems ----------------------------
(***************************************************************************)
(* Proofs about the hash chains, for any mandates, merchants, transactions *)
(* and programs running.                                                   *)
(***************************************************************************)
EXTENDS Ledger, SequenceTheorems, WellFoundedInduction, TLAPS

(* A non-empty set of naturals has a least element. *)
LEMMA LeastElement ==
  ASSUME NEW S, S \subseteq Nat, S # {}
  PROVE  \E x \in S : \A y \in S : x <= y
<1>1. \E x \in S : \A y \in S : <<y, x>> \notin OpToRel(<, Nat)
  BY NatLessThanWellFounded, WFMin
<1>2. PICK x \in S : \A y \in S : <<y, x>> \notin OpToRel(<, Nat)
  BY <1>1
<1>3. \A y \in S : ~(y < x)
  BY <1>2 DEF OpToRel
<1>4. QED
  BY <1>3

(* Hashes: what is appended can be read off, and nothing else is equal. *)
LEMMA HashFacts ==
  ASSUME NEW h \in Histories, NEW k \in Kinds
  PROVE  /\ chainHash(h, k) \in Histories
         /\ Len(h) \in Nat
         /\ Len(chainHash(h, k)) = Len(h) + 1
         /\ chainHash(h, k) # GENESIS_PREV_HASH
         /\ \A g \in Histories, j \in Kinds :
              chainHash(h, k) = chainHash(g, j) => h = g /\ k = j
<1>1. /\ Append(h, k) \in Seq(Kinds) /\ Append(h, k) # <<>>
      /\ Len(Append(h, k)) = Len(h) + 1
  BY AppendProperties DEF Histories
<1>2. Len(h) \in Nat
  BY LenProperties DEF Histories
<1>3. \A g \in Histories, j \in Kinds : Append(h, k) = Append(g, j) => h = g /\ k = j
  BY AppendInjective DEF Histories
<1>4. QED
  BY <1>1, <1>2, <1>3 DEF chainHash, GENESIS_PREV_HASH, Histories

LEMMA GenesisFacts ==
  /\ GENESIS_PREV_HASH \in Histories
  /\ Len(GENESIS_PREV_HASH) = 0
  /\ \A h \in Histories : Len(h) = 0 => h = GENESIS_PREV_HASH
<1>1. /\ <<>> \in Seq(Kinds) /\ Len(<<>>) = 0
      /\ \A seq \in Seq(Kinds) : seq # <<>> => Len(seq) \in Nat \ {0}
  BY EmptySeq
<1>2. QED
  BY <1>1 DEF GENESIS_PREV_HASH, Histories

(* The fields of a row that is one. *)
LEMMA RowFields ==
  ASSUME NEW rs \in SUBSET Rows, Chained(rs), NEW r \in rs
  PROVE  /\ r.seq \in Nat /\ r.prev \in Histories /\ r.hash \in Histories /\ r.kind \in Kinds
         /\ r.seq = Len(r.prev) /\ r.hash = chainHash(r.prev, r.kind)
         /\ Len(r.hash) = r.seq + 1
         /\ r = Row(r.seq, r.prev, r.kind)
<1>1. /\ r.seq \in Nat /\ r.prev \in Histories /\ r.hash \in Histories /\ r.kind \in Kinds
  BY DEF Rows
<1>2. r = Row(Len(r.prev), r.prev, r.kind)
  BY DEF Chained
<1>3. r.seq = Len(r.prev) /\ r.hash = chainHash(r.prev, r.kind)
  BY <1>2 DEF Row
<1>4. QED
  BY <1>1, <1>2, <1>3, HashFacts

(* The last row is unique, and Tip names it. *)
LEMMA TipIsLast ==
  ASSUME NEW rs \in SUBSET Rows, Chained(rs)
  PROVE  /\ rs = {} => Tip(rs) = NoTip
         /\ rs # {} => \E r \in rs : /\ \A s \in rs : s.seq <= r.seq
                                     /\ Tip(rs) = [seq |-> r.seq, hash |-> r.hash]
         /\ \A s \in rs : s.seq <= Tip(rs).seq
         /\ Tip(rs) \in Tips
         /\ Len(Tip(rs).hash) = Tip(rs).seq + 1
         /\ Tip(rs).hash = GENESIS_PREV_HASH <=> rs = {}
<1>1. CASE rs = {}
  <2>1. Tip(rs) = NoTip
    BY <1>1 DEF Tip
  <2>2. NoTip.seq = -1 /\ NoTip.hash = GENESIS_PREV_HASH /\ NoTip \in Tips
    BY GenesisFacts DEF NoTip, Tips
  <2>3. QED
    BY <1>1, <2>1, <2>2, GenesisFacts
<1>2. CASE rs # {}
  <2> DEFINE r == CHOOSE r \in rs : \A s \in rs : s.seq <= r.seq
  <2>1. \E q \in rs : \A s \in rs : s.seq <= q.seq
    BY <1>2 DEF Chained
  <2>2. r \in rs /\ \A s \in rs : s.seq <= r.seq
    BY <2>1
  <2>3. Tip(rs) = [seq |-> r.seq, hash |-> r.hash]
    BY <1>2 DEF Tip
  <2> HIDE DEF r
  <2>4. /\ r.seq \in Nat /\ r.hash \in Histories /\ Len(r.hash) = r.seq + 1
    BY <2>2, RowFields
  <2>5. r.hash # GENESIS_PREV_HASH
    BY <2>4, GenesisFacts
  <2>6. Tip(rs).seq = r.seq /\ Tip(rs).hash = r.hash /\ Tip(rs) \in Tips
    BY <2>3, <2>4 DEF Tips
  <2>7. QED
    BY <1>2, <2>2, <2>3, <2>4, <2>5, <2>6
<1>3. QED
  BY <1>1, <1>2

(* Appending after the last row gives a chain whose last row is the new    *)
(* one.                                                                    *)
LEMMA AppendedIsChained ==
  ASSUME NEW rs \in SUBSET Rows, Chained(rs), NEW k \in Kinds
  PROVE  LET n == Row(Tip(rs).seq + 1, Tip(rs).hash, k)
         IN  /\ n \in Rows
             /\ n.seq = Tip(rs).seq + 1 /\ n.prev = Tip(rs).hash /\ n.kind = k
             /\ n.hash = chainHash(Tip(rs).hash, k)
             /\ Chained(rs \cup {n})
             /\ Tip(rs \cup {n}) = [seq |-> n.seq, hash |-> n.hash]
             /\ \A s \in rs : s.seq < n.seq
<1> DEFINE n == Row(Tip(rs).seq + 1, Tip(rs).hash, k)
<1>1. /\ Tip(rs).seq \in Nat \cup {-1} /\ Tip(rs).hash \in Histories
      /\ Len(Tip(rs).hash) = Tip(rs).seq + 1 /\ \A s \in rs : s.seq <= Tip(rs).seq
  BY TipIsLast DEF Tips
<1>2. /\ n.seq = Tip(rs).seq + 1 /\ n.prev = Tip(rs).hash /\ n.kind = k
      /\ n.hash = chainHash(Tip(rs).hash, k) /\ n = Row(Len(n.prev), n.prev, n.kind)
  BY <1>1 DEF Row
<1>3. n \in Rows /\ n.seq \in Nat
  <2>1. chainHash(Tip(rs).hash, k) \in Histories /\ Tip(rs).seq + 1 \in Nat
    BY <1>1, HashFacts
  <2>2. QED
    BY <1>1, <2>1 DEF Row, Rows
<1> HIDE DEF n
<1>4. \A s \in rs : s.seq \in Nat /\ s.seq < n.seq
  BY <1>1, <1>2, RowFields
<1>5. Chained(rs \cup {n})
  <2>1. \A r \in rs \cup {n} : r = Row(Len(r.prev), r.prev, r.kind)
    BY <1>2 DEF Chained
  <2>2. \A r, s \in rs \cup {n} : r.seq = s.seq => r = s
    BY <1>3, <1>4 DEF Chained
  <2>3. \A r \in rs \cup {n} : r.seq > 0 => \E s \in rs \cup {n} : s.hash = r.prev
    <3>1. n.seq > 0 => \E s \in rs : s.hash = n.prev
      <4>1. CASE rs = {}
        BY <1>2, <4>1, TipIsLast DEF NoTip
      <4>2. CASE rs # {}
        <5>1. PICK r \in rs : Tip(rs) = [seq |-> r.seq, hash |-> r.hash]
          BY <4>2, TipIsLast
        <5>2. r.hash = n.prev
          BY <1>2, <5>1
        <5>3. QED
          BY <5>2
      <4>3. QED
        BY <4>1, <4>2
    <3>2. QED
      BY <3>1 DEF Chained
  <2>4. \A s \in rs \cup {n} : s.seq <= n.seq
    BY <1>3, <1>4
  <2>5. QED
    BY <2>1, <2>2, <2>3, <2>4 DEF Chained
<1>6. Tip(rs \cup {n}) = [seq |-> n.seq, hash |-> n.hash]
  <2>1. PICK r \in rs \cup {n} : /\ \A s \in rs \cup {n} : s.seq <= r.seq
                                 /\ Tip(rs \cup {n}) = [seq |-> r.seq, hash |-> r.hash]
    BY <1>3, <1>5, TipIsLast
  <2>2. r = n
    BY <1>3, <1>4, <2>1
  <2>3. QED
    BY <2>1, <2>2
<1>7. QED
  BY <1>2, <1>3, <1>4, <1>5, <1>6 DEF n

(* A head of a chain that no row follows is its last: the numbers of a     *)
(* chain have no gaps.                                                     *)
LEMMA NoGaps ==
  ASSUME NEW rs \in SUBSET Rows, Chained(rs), NEW h,
         IsEntry(h, rs),
         \A s \in rs : s.seq # h.seq + 1
  PROVE  h = Tip(rs)
<1>1. h.seq \in Nat \cup {-1}
  BY RowFields DEF NoTip, IsEntry
<1> DEFINE Later == {s.seq : s \in {r \in rs : r.seq > h.seq}}
<1>2. Later = {}
  <2> SUFFICES ASSUME Later # {} PROVE FALSE
    OBVIOUS
  <2>1. Later \subseteq Nat
    BY RowFields
  <2>2. PICK n \in Later : \A m \in Later : n <= m
    <3> HIDE DEF Later
    <3> QED
      BY <2>1, LeastElement
  <2>3. PICK s \in rs : s.seq = n /\ n > h.seq
    BY <2>2
  <2>4. /\ s.seq \in Nat /\ s.prev \in Histories /\ s.seq = Len(s.prev) /\ s.seq > h.seq
    BY <2>3, RowFields
  <2>5. s.seq > h.seq + 1 /\ s.seq > 0
    BY <1>1, <2>3, <2>4
  <2>6. PICK q \in rs : q.hash = s.prev
    BY <2>5 DEF Chained
  <2>7. q.seq \in Nat /\ q.seq + 1 = s.seq
    BY <2>4, <2>6, RowFields
  <2>8. q.seq > h.seq
    BY <1>1, <2>4, <2>5, <2>7
  <2>9. q.seq \in Later
    BY <2>8
  <2>10. n <= q.seq
    BY <2>2, <2>9
  <2>11. QED
    BY <2>3, <2>4, <2>7, <2>10
<1>3. ASSUME NEW s \in rs PROVE s.seq <= h.seq
  <2>1. s.seq \in Nat
    BY RowFields
  <2>2. ~(s.seq > h.seq)
    BY <1>2
  <2>3. QED
    BY <1>1, <2>1, <2>2
<1>4. CASE rs = {}
  BY <1>4, TipIsLast DEF IsEntry
<1>5. CASE rs # {}
  <2>1. PICK r \in rs : /\ \A s \in rs : s.seq <= r.seq
                        /\ Tip(rs) = [seq |-> r.seq, hash |-> r.hash]
    BY <1>5, TipIsLast
  <2>2. r.seq \in Nat /\ r.seq <= h.seq
    BY <1>3, <2>1, RowFields
  <2>3. h # NoTip
    BY <2>2 DEF NoTip
  <2>4. PICK q \in rs : h = [seq |-> q.seq, hash |-> q.hash]
    BY <2>3 DEF IsEntry
  <2>5. q.seq \in Nat /\ h.seq = q.seq /\ q.seq <= r.seq
    BY <2>1, <2>4, RowFields
  <2>6. q = r
    BY <2>2, <2>5 DEF Chained
  <2>7. QED
    BY <2>1, <2>4, <2>6
<1>6. QED
  BY <1>4, <1>5

(* A chain verifies. *)
LEMMA ChainedVerifies ==
  ASSUME NEW rs \in SUBSET Rows, Chained(rs)
  PROVE  verifyChain(rs)
<1>1. \A r, s \in rs : r.seq = s.seq => r = s
  BY DEF Chained
<1>2. ASSUME NEW r \in rs
      PROVE  /\ r.hash = chainHash(r.prev, r.kind)
             /\ IF r.seq = 0 THEN r.prev = GENESIS_PREV_HASH
                ELSE \E s \in rs : s.seq = r.seq - 1 /\ s.hash = r.prev
  <2>1. /\ r.seq \in Nat /\ r.prev \in Histories /\ r.seq = Len(r.prev)
        /\ r.hash = chainHash(r.prev, r.kind)
    BY RowFields
  <2>2. r.seq = 0 => r.prev = GENESIS_PREV_HASH
    BY <2>1, GenesisFacts
  <2>3. ASSUME r.seq # 0
        PROVE  \E s \in rs : s.seq = r.seq - 1 /\ s.hash = r.prev
    <3>1. PICK s \in rs : s.hash = r.prev
      BY <2>1, <2>3 DEF Chained
    <3>2. s.seq \in Nat /\ s.seq + 1 = r.seq
      BY <2>1, <3>1, RowFields
    <3>3. QED
      BY <2>1, <3>1, <3>2
  <2>4. QED
    BY <2>1, <2>2, <2>3
<1>3. QED
  BY <1>1, <1>2 DEF verifyChain

(* The rows up to one of a chain are a chain. *)
LEMMA PrefixIsChained ==
  ASSUME NEW rs \in SUBSET Rows, Chained(rs), NEW q \in rs
  PROVE  Chained({r \in rs : r.seq <= q.seq})
<1> DEFINE up == {r \in rs : r.seq <= q.seq}
<1>1. \A r \in up : r = Row(Len(r.prev), r.prev, r.kind)
  BY DEF Chained
<1>2. \A r, s \in up : r.seq = s.seq => r = s
  BY DEF Chained
<1>3. ASSUME NEW r \in up, r.seq > 0 PROVE \E s \in up : s.hash = r.prev
  <2>1. PICK s \in rs : s.hash = r.prev
    BY <1>3 DEF Chained
  <2>2. /\ s.seq \in Nat /\ Len(s.hash) = s.seq + 1 /\ r.seq \in Nat
        /\ r.seq = Len(r.prev) /\ q.seq \in Nat
    BY RowFields
  <2>3. s.seq <= q.seq
    BY <2>1, <2>2
  <2>4. QED
    BY <2>1, <2>3
<1>4. q \in up /\ \A s \in up : s.seq <= q.seq
  BY RowFields
<1> HIDE DEF up
<1>5. Chained(up)
  BY <1>1, <1>2, <1>3, <1>4 DEF Chained
<1>6. QED
  BY <1>5 DEF up

(* Two rows of a chain, one right after the other: the second names the    *)
(* hash of the first.                                                      *)
LEMMA FollowerNames ==
  ASSUME NEW rs \in SUBSET Rows, Chained(rs), NEW r \in rs, NEW s \in rs,
         s.seq = r.seq + 1
  PROVE  s.prev = r.hash
<1>1. r.seq \in Nat /\ s.seq \in Nat /\ s.seq = Len(s.prev)
  BY RowFields
<1>2. PICK q \in rs : q.hash = s.prev
  BY <1>1 DEF Chained
<1>3. q.seq \in Nat /\ Len(q.hash) = q.seq + 1
  BY RowFields
<1>4. q.seq = r.seq
  BY <1>1, <1>2, <1>3
<1>5. q = r
  BY <1>4 DEF Chained
<1>6. QED
  BY <1>2, <1>5

(* An entry that is followed cannot be replaced unseen. *)
LEMMA EditIsSeen ==
  ASSUME NEW rs \in SUBSET Rows, Chained(rs), NEW r \in rs, NEW s \in rs,
         s.seq = r.seq + 1, NEW k \in Kinds, k # r.kind,
         NEW h \in {r.hash, chainHash(r.prev, k)}
  PROVE  ~verifyChain(Edited(rs, r, k, h))
<1> DEFINE e == [r EXCEPT !.kind = k, !.hash = h]
<1>1. /\ r.seq \in Nat /\ r.prev \in Histories /\ r.kind \in Kinds
      /\ r.hash = chainHash(r.prev, r.kind) /\ s.seq \in Nat /\ s.prev = r.hash
  BY RowFields, FollowerNames
<1>2. chainHash(r.prev, k) # r.hash
  BY <1>1, HashFacts
<1>3. e.seq = r.seq /\ e.prev = r.prev /\ e.kind = k /\ e.hash = h
  <2>1. r \in Rows
    OBVIOUS
  <2>2. QED
    BY <2>1 DEF Rows
<1>4. Edited(rs, r, k, h) = (rs \ {r}) \cup {e}
  BY DEF Edited
<1> HIDE DEF e
<1>5. SUFFICES ASSUME verifyChain((rs \ {r}) \cup {e}) PROVE FALSE
  BY <1>4
<1>6. /\ \A p, q \in (rs \ {r}) \cup {e} : p.seq = q.seq => p = q
      /\ e.hash = chainHash(e.prev, e.kind)
      /\ s \in (rs \ {r}) \cup {e}
      /\ s.seq # 0 => \E q \in (rs \ {r}) \cup {e} : q.seq = s.seq - 1 /\ q.hash = s.prev
  <2>1. s # r
    BY <1>1
  <2>2. QED
    BY <1>5, <2>1 DEF verifyChain
<1>7. h = chainHash(r.prev, k)
  BY <1>3, <1>6
<1>8. PICK q \in (rs \ {r}) \cup {e} : q.seq = s.seq - 1 /\ q.hash = s.prev
  BY <1>1, <1>6
<1>9. q = e
  BY <1>1, <1>3, <1>6, <1>8
<1>10. QED
  BY <1>1, <1>2, <1>3, <1>7, <1>8, <1>9

(* What is left of a batch after its next entry is appended. *)
LEMMA NextOfBatch ==
  ASSUME NEW h \in Histories, NEW left \in Histories, left # <<>>
  PROVE  /\ Head(left) \in Kinds /\ Tail(left) \in Histories
         /\ chainHash(h, Head(left)) \o Tail(left) = h \o left
         /\ Tail(left) = <<>> <=> Len(left) = 1
         /\ Head(left) = left[1]
<1> DEFINE k == Head(left)
           rest == Tail(left)
<1>1. /\ k \in Kinds /\ rest \in Seq(Kinds) /\ Len(rest) = Len(left) - 1
      /\ \A i \in 1 .. Len(rest) : rest[i] = left[i + 1]
      /\ Len(left) \in Nat /\ Len(left) > 0 /\ k = left[1]
  BY HeadTailProperties, EmptySeq, LenProperties DEF Histories
<1> HIDE DEF k, rest
<1>2. rest = <<>> <=> Len(left) = 1
  <2>1. Len(rest) = 0 <=> Len(left) = 1
    BY <1>1
  <2>2. Len(<<>>) = 0 /\ (rest # <<>> => Len(rest) \in Nat \ {0})
    BY <1>1, EmptySeq
  <2>3. QED
    BY <2>1, <2>2
<1>3. /\ <<k>> \in Seq(Kinds) /\ Append(h, k) = h \o <<k>>
  BY <1>1, AppendIsConcat DEF Histories
<1>4. <<k>> \o rest = left
  <2>1. /\ <<k>> \o rest \in Seq(Kinds) /\ Len(<<k>> \o rest) = 1 + Len(rest)
        /\ \A i \in 1 .. 1 + Len(rest) :
             (<<k>> \o rest)[i] = IF i <= 1 THEN <<k>>[i] ELSE rest[i - 1]
    BY <1>1, <1>3, ConcatProperties
  <2>2. \A i \in 1 .. Len(left) : (<<k>> \o rest)[i] = left[i]
    <3> TAKE i \in 1 .. Len(left)
    <3>1. CASE i = 1
      BY <1>1, <2>1, <3>1
    <3>2. CASE i # 1
      <4>1. i - 1 \in 1 .. Len(rest) /\ i \in 1 .. 1 + Len(rest)
        BY <1>1, <3>2
      <4>2. QED
        BY <1>1, <2>1, <3>2, <4>1
    <3>3. QED
      BY <3>1, <3>2
  <2> DEFINE whole == <<k>> \o rest
  <2>3. whole \in Seq(Kinds) /\ left \in Seq(Kinds) /\ Len(whole) = Len(left)
    BY <1>1, <2>1 DEF Histories
  <2>4. \A i \in 1 .. Len(whole) : whole[i] = left[i]
    BY <2>2, <2>3
  <2> HIDE DEF whole
  <2>5. whole = left
    BY <2>3, <2>4, SeqEqual
  <2>6. QED
    BY <2>5 DEF whole
<1>5. (h \o <<k>>) \o rest = h \o (<<k>> \o rest)
  BY <1>1, <1>3, ConcatAssociative DEF Histories
<1>6. QED
  BY <1>1, <1>2, <1>3, <1>4, <1>5 DEF chainHash, Histories, k, rest
-----------------------------------------------------------------------------
LEMMA ProgramFacts ==
  ASSUME NEW p \in Programs
  PROVE  /\ p.kinds \in Histories /\ p.kinds # <<>>
         /\ p.on \in {"mandate", "merchant"} /\ p.mode \in {"create", "lock", "none"}
         /\ p.mode = "create" <=> p = Issue
         /\ p.mode = "create" => p.on = "mandate"
<1>1. /\ <<"MANDATE_ISSUED">> \in Seq(Kinds)
      /\ <<"INTENT", "DECISION", "RESERVATION">> \in Seq(Kinds)
      /\ <<"INTENT", "DECISION">> \in Seq(Kinds)
      /\ <<"DECISION">> \in Seq(Kinds) /\ <<"API_CALL">> \in Seq(Kinds)
      /\ <<"API_CALL", "RELEASE">> \in Seq(Kinds)
      /\ <<"WEBHOOK", "EXECUTION_RESULT">> \in Seq(Kinds)
      /\ <<"WEBHOOK", "RELEASE">> \in Seq(Kinds) /\ <<"REFUND">> \in Seq(Kinds)
      /\ <<"RELEASE">> \in Seq(Kinds) /\ <<"RECONCILE">> \in Seq(Kinds)
  BY DEF Kinds
<1>2. p.kinds \in Histories /\ p.kinds # <<>>
  <2>1. CASE p = Issue
    <3>1. p.kinds = <<"MANDATE_ISSUED">>
      BY <2>1 DEF Issue, Program
    <3>2. QED
      BY <1>1, <3>1 DEF Histories
  <2>2. CASE p = Hold
    <3>1. p.kinds = <<"INTENT", "DECISION", "RESERVATION">>
      BY <2>2 DEF Hold, Program
    <3>2. QED
      BY <1>1, <3>1 DEF Histories
  <2>3. CASE p = Deny
    <3>1. p.kinds = <<"INTENT", "DECISION">>
      BY <2>3 DEF Deny, Program
    <3>2. QED
      BY <1>1, <3>1 DEF Histories
  <2>4. CASE p = Approval
    <3>1. p.kinds = <<"DECISION">>
      BY <2>4 DEF Approval, Program
    <3>2. QED
      BY <1>1, <3>1 DEF Histories
  <2>5. CASE p = Revocation
    <3>1. p.kinds = <<"DECISION">>
      BY <2>5 DEF Revocation, Program
    <3>2. QED
      BY <1>1, <3>1 DEF Histories
  <2>6. CASE p = Executed
    <3>1. p.kinds = <<"API_CALL">>
      BY <2>6 DEF Executed, Program
    <3>2. QED
      BY <1>1, <3>1 DEF Histories
  <2>7. CASE p = Refused
    <3>1. p.kinds = <<"API_CALL", "RELEASE">>
      BY <2>7 DEF Refused, Program
    <3>2. QED
      BY <1>1, <3>1 DEF Histories
  <2>8. CASE p = RefusedLate
    <3>1. p.kinds = <<"API_CALL">>
      BY <2>8 DEF RefusedLate, Program
    <3>2. QED
      BY <1>1, <3>1 DEF Histories
  <2>9. CASE p = Captured
    <3>1. p.kinds = <<"WEBHOOK", "EXECUTION_RESULT">>
      BY <2>9 DEF Captured, Program
    <3>2. QED
      BY <1>1, <3>1 DEF Histories
  <2>10. CASE p = Failed
    <3>1. p.kinds = <<"WEBHOOK", "RELEASE">>
      BY <2>10 DEF Failed, Program
    <3>2. QED
      BY <1>1, <3>1 DEF Histories
  <2>11. CASE p = Refunded
    <3>1. p.kinds = <<"REFUND">>
      BY <2>11 DEF Refunded, Program
    <3>2. QED
      BY <1>1, <3>1 DEF Histories
  <2>12. CASE p = Reaped
    <3>1. p.kinds = <<"RELEASE">>
      BY <2>12 DEF Reaped, Program
    <3>2. QED
      BY <1>1, <3>1 DEF Histories
  <2>13. CASE p = Cancelled
    <3>1. p.kinds = <<"RELEASE">>
      BY <2>13 DEF Cancelled, Program
    <3>2. QED
      BY <1>1, <3>1 DEF Histories
  <2>14. CASE p = Reconciled
    <3>1. p.kinds = <<"RECONCILE">>
      BY <2>14 DEF Reconciled, Program
    <3>2. QED
      BY <1>1, <3>1 DEF Histories
  <2>15. CASE p = Attached
    <3>1. p.kinds = <<"MANDATE_ISSUED">>
      BY <2>15 DEF Attached, Program
    <3>2. QED
      BY <1>1, <3>1 DEF Histories
  <2>16. CASE p = Operations
    <3>1. p.kinds = <<"DECISION">>
      BY <2>16 DEF Operations, Program
    <3>2. QED
      BY <1>1, <3>1 DEF Histories
  <2>17. CASE p = Impersonate
    <3>1. p.kinds = <<"API_CALL">>
      BY <2>17 DEF Impersonate, Program
    <3>2. QED
      BY <1>1, <3>1 DEF Histories
  <2>18. QED
    BY <2>1, <2>2, <2>3, <2>4, <2>5, <2>6, <2>7, <2>8, <2>9, <2>10, <2>11, <2>12, <2>13, <2>14, <2>15, <2>16, <2>17 DEF Programs
<1>3. /\ p.on \in {"mandate", "merchant"} /\ p.mode \in {"create", "lock", "none"}
      /\ p.mode = "create" <=> p = Issue
      /\ p.mode = "create" => p.on = "mandate"
  BY DEF Programs, Program, Issue, Hold, Deny, Approval, Revocation, Executed, Refused,
     RefusedLate, Captured, Failed, Refunded, Reaped, Cancelled, Reconciled, Attached,
     Operations, Impersonate
<1>4. QED
  BY <1>2, <1>3

(* Types and what a transaction sees. *)
LEMMA Typed ==
  ASSUME IInv, NEW t \in Txns
  PROVE  /\ txn[t] \in TxnStates /\ txn[t].written \in SUBSET Rows
         /\ txn[t].program \in Programs /\ txn[t].head \in Tips
         /\ txn[t].left \in Histories
         /\ \A c \in Chains : ledger[c] \in SUBSET Rows /\ Chained(ledger[c])
         /\ Open(t) => /\ Seen(t) \in SUBSET Rows /\ Continues(t) /\ Holds(t)
                       /\ txn[t].chain \in Chains
<1>1. /\ txn[t] \in TxnStates /\ \A c \in Chains : ledger[c] \in SUBSET Rows /\ Chained(ledger[c])
      /\ Open(t) => Continues(t) /\ Holds(t)
  BY DEF IInv, TypeOK, CommittedChained, PendingChained, RowsHeld
<1>2. /\ txn[t].written \in SUBSET Rows /\ txn[t].program \in Programs
      /\ txn[t].head \in Tips /\ txn[t].left \in Histories
  BY <1>1 DEF TxnStates
<1>3. Open(t) => txn[t].chain \in Chains /\ Seen(t) \in SUBSET Rows
  BY <1>1, <1>2 DEF Continues, Seen
<1>4. QED
  BY <1>1, <1>2, <1>3

(* A step that changes one transaction and commits nothing keeps the       *)
(* invariant when it keeps what is said of that transaction.               *)
LEMMA OnlyOne ==
  ASSUME IInv, NEW t \in Txns, NEW row \in TxnStates,
         txn' = [txn EXCEPT ![t] = row],
         UNCHANGED <<ledger, rows, marked, job, anchors>>,
         lock' \in [Chains -> Txns \cup {None}], begun' \in 0 .. MaxBegun,
         \A u \in Txns \ {t}, c \in Chains : lock[c] = u => lock'[c] = u,
         row.pc = "idle" => row = Idle,
         row.pc # "idle" => Continues(t)' /\ Holds(t)',
         row.pc = "insert" => IsEntry(row.head, Seen(t)')
           /\ (row.written # {} => row.head = Tip(Seen(t)')),
         row.written # {} => \A u \in Txns \ {t} :
           txn[u].written # {} => txn[u].chain # row.chain,
         \A u \in Txns \ {t} :
           Open(u) /\ txn[u].program.mode = "create" => row.chain # txn[u].chain
  PROVE  IInv'
<1>0. txn \in [Txns -> TxnStates]
  BY DEF IInv, TypeOK
<1>1. txn'[t] = row /\ \A u \in Txns \ {t} : txn'[u] = txn[u]
  BY <1>0
<1>2. TypeOK'
  BY <1>0 DEF IInv, TypeOK
<1>3. CommittedChained'
  BY DEF IInv, CommittedChained
<1>4. PendingChained'
  <2>1. ASSUME NEW u \in Txns \ {t}, Open(u)' PROVE Continues(u)'
    <3>1. Continues(u) /\ txn'[u] = txn[u]
      BY <1>1, <2>1 DEF IInv, PendingChained, Open
    <3>2. Seen(u)' = Seen(u) /\ History(txn[u].chain)' = History(txn[u].chain)
      BY <3>1 DEF Seen, History
    <3>3. QED
      BY <3>1, <3>2 DEF Continues
  <2>2. ASSUME NEW u \in Txns \ {t}, ~Open(u)' PROVE txn'[u] = Idle
    BY <1>1, <2>2 DEF IInv, PendingChained, Open
  <2>3. Open(t)' <=> row.pc # "idle"
    BY <1>1 DEF Open
  <2>4. QED
    BY <1>1, <2>1, <2>2, <2>3 DEF PendingChained
<1>5. OneWriter'
  BY <1>1 DEF IInv, OneWriter
<1>6. HeadWasRead'
  <2>1. ASSUME NEW u \in Txns \ {t}, txn'[u].pc = "insert"
        PROVE  IsEntry(txn[u].head, Seen(u))' /\ (txn'[u].written # {} => txn'[u].head = Tip(Seen(u))')
    BY <1>1, <2>1 DEF IInv, HeadWasRead, Seen
  <2>2. QED
    BY <1>1, <2>1 DEF HeadWasRead
<1>7. RowsHeld'
  <2>1. ASSUME NEW u \in Txns \ {t}, Open(u)' PROVE Holds(u)'
    <3>1. Open(u) /\ Holds(u) /\ txn[u].chain \in Chains /\ txn'[u] = txn[u]
      BY <1>1, <2>1, Typed DEF Open
    <3>2. QED
      BY <1>1, <2>1, <3>1 DEF Holds
  <2>2. Open(t)' => Holds(t)'
    BY <1>1 DEF Open
  <2>3. QED
    BY <2>1, <2>2 DEF RowsHeld
<1>8. HeadsCommitted'
  BY DEF IInv, HeadsCommitted
<1>9. QED
  BY <1>2, <1>3, <1>4, <1>5, <1>6, <1>7, <1>8 DEF IInv

LEMMA BeginKeeps ==
  ASSUME IInv, NEW t \in Txns, NEW p \in Running, NEW c \in Chains, Begin(t, p, c)
  PROVE  IInv'
<1> DEFINE row == [pc |-> IF p.mode = "lock" THEN "lock" ELSE "read", program |-> p,
                   chain |-> c, head |-> NoTip, left |-> p.kinds, written |-> {}]
<1>1. /\ txn' = [txn EXCEPT ![t] = row] /\ MayStart(p, c)
      /\ begun < MaxBegun /\ begun' = begun + 1
      /\ UNCHANGED <<ledger, rows, marked, lock, job, anchors>>
  BY DEF Begin
<1>2. /\ p \in Programs /\ p.kinds \in Histories /\ p.kinds # <<>>
      /\ p.on \in {"mandate", "merchant"} /\ p.mode \in {"create", "lock", "none"}
      /\ p.mode = "create" <=> p = Issue
      /\ p.mode = "create" => p.on = "mandate"
  BY LedgerAssumption, ProgramFacts
<1>3. row \in TxnStates
  <2>1. NoTip \in Tips
    BY GenesisFacts DEF NoTip, Tips
  <2>2. QED
    BY <1>2, <2>1 DEF TxnStates
<1>4. txn \in [Txns -> TxnStates] /\ lock \in [Chains -> Txns \cup {None}]
      /\ begun \in 0 .. MaxBegun /\ MaxBegun \in Nat
  BY LedgerAssumption DEF IInv, TypeOK
<1>5. /\ row.pc \in {"lock", "read"} /\ row.program = p /\ row.chain = c
      /\ row.left = p.kinds /\ row.written = {}
      /\ p.mode = "lock" => row.pc = "lock"
  OBVIOUS
<1> HIDE DEF row
<1>6. txn'[t] = row /\ \A u \in Txns \ {t} : txn'[u] = txn[u]
  BY <1>1, <1>4
<1>7. /\ p.on = "merchant" => c \in Merchants
      /\ p.mode = "create" => c \in Mandates \ rows /\ \A u \in Txns : txn[u].chain # c
      /\ p.mode # "create" /\ p.on = "mandate" => c \in Mandates \cap rows
      /\ p.on = "merchant" <=> c \in Merchants
  BY <1>1, <1>2, LedgerAssumption DEF MayStart
<1>8. Continues(t)'
  <2>1. Seen(t)' = ledger[c]
    BY <1>1, <1>5, <1>6 DEF Seen
  <2>2. Chained(ledger[c])
    BY Typed
  <2>3. c \in Mandates \ rows => p = Issue
    BY <1>2, <1>7, LedgerAssumption
  <2>4. Tip(Seen(t))'.hash \o row.left = History(c)' \o p.kinds
    BY <1>1, <1>5, <2>1 DEF History
  <2>5. QED
    BY <1>1, <1>2, <1>5, <1>6, <2>1, <2>2, <2>3, <2>4 DEF Continues
<1>9. Holds(t)'
  BY <1>1, <1>5, <1>6, <1>7 DEF Holds
<1>10. ASSUME NEW u \in Txns \ {t}, Open(u), txn[u].program.mode = "create"
       PROVE  row.chain # txn[u].chain
  <2>1. txn[u].chain \in Mandates \ rows
    BY <1>10, Typed DEF Holds
  <2>2. QED
    BY <1>2, <1>5, <1>7, <2>1, LedgerAssumption
<1>11. begun' \in 0 .. MaxBegun
  BY <1>1, <1>4
<1>12. QED
  BY <1>1, <1>3, <1>4, <1>5, <1>8, <1>9, <1>10, <1>11, OnlyOne

LEMMA LockRowKeeps ==
  ASSUME IInv, NEW t \in Txns, LockRow(t)
  PROVE  IInv'
<1> DEFINE row == [txn[t] EXCEPT !.pc = "read"]
<1>0. /\ txn[t] \in TxnStates /\ Continues(t) /\ Holds(t) /\ txn[t].chain \in Chains
      /\ txn \in [Txns -> TxnStates] /\ lock \in [Chains -> Txns \cup {None}]
      /\ begun \in 0 .. MaxBegun /\ None \notin Txns /\ Open(t)
      /\ txn[t].pc = "lock" /\ lock[txn[t].chain] = None
      /\ txn' = [txn EXCEPT ![t] = row] /\ lock' = [lock EXCEPT ![txn[t].chain] = t]
      /\ UNCHANGED <<ledger, rows, marked, begun, job, anchors>>
  BY LedgerAssumption, Typed DEF IInv, TypeOK, LockRow, Open
<1>1. /\ row \in TxnStates /\ row.pc = "read" /\ row.program = txn[t].program
      /\ row.chain = txn[t].chain /\ row.left = txn[t].left
      /\ row.written = txn[t].written
  BY <1>0 DEF TxnStates
<1> HIDE DEF row
<1>2. txn'[t] = row /\ \A u \in Txns \ {t} : txn'[u] = txn[u]
  BY <1>0
<1>3. Continues(t)'
  BY <1>0, <1>1, <1>2 DEF Continues, Seen, History
<1>4. Holds(t)'
  BY <1>0, <1>1, <1>2 DEF Holds
<1>5. row.written # {} => \A u \in Txns \ {t} : txn[u].written # {} => txn[u].chain # row.chain
  BY <1>1 DEF IInv, OneWriter
<1>6. \A u \in Txns \ {t} : Open(u) /\ txn[u].program.mode = "create" => row.chain # txn[u].chain
  BY <1>1, Typed DEF Holds
<1>7. /\ lock' \in [Chains -> Txns \cup {None}] /\ begun' \in 0 .. MaxBegun
      /\ \A u \in Txns \ {t}, c \in Chains : lock[c] = u => lock'[c] = u
  BY <1>0
<1>8. txn' = [txn EXCEPT ![t] = row] /\ UNCHANGED <<ledger, rows, marked, job, anchors>>
  BY <1>0
<1>9. row \in TxnStates /\ row.pc # "insert" /\ row.pc # "idle"
  BY <1>1
<1>10. QED
  BY <1>3, <1>4, <1>5, <1>6, <1>7, <1>8, <1>9, OnlyOne

LEMMA ReadHeadKeeps ==
  ASSUME IInv, NEW t \in Txns, readHead(t)
  PROVE  IInv'
<1> DEFINE row == [txn[t] EXCEPT !.pc = "insert", !.head = Tip(Seen(t))]
<1>0. /\ txn[t] \in TxnStates /\ Continues(t) /\ Holds(t) /\ txn[t].chain \in Chains
      /\ Seen(t) \in SUBSET Rows /\ Chained(Seen(t))
      /\ txn \in [Txns -> TxnStates] /\ lock \in [Chains -> Txns \cup {None}]
      /\ begun \in 0 .. MaxBegun /\ Open(t) /\ txn[t].pc = "read"
      /\ txn' = [txn EXCEPT ![t] = row]
      /\ UNCHANGED <<ledger, rows, marked, lock, begun, job, anchors>>
  BY Typed DEF IInv, TypeOK, readHead, Open, Seen, Continues
<1>1. Tip(Seen(t)) \in Tips /\ IsEntry(Tip(Seen(t)), Seen(t))
  BY <1>0, TipIsLast DEF IsEntry
<1>2. /\ row \in TxnStates /\ row.pc = "insert" /\ row.program = txn[t].program
      /\ row.chain = txn[t].chain /\ row.left = txn[t].left
      /\ row.written = txn[t].written /\ row.head = Tip(Seen(t))
  BY <1>0, <1>1 DEF TxnStates
<1> HIDE DEF row
<1>3. txn'[t] = row /\ \A u \in Txns \ {t} : txn'[u] = txn[u]
  BY <1>0
<1>4. Seen(t)' = Seen(t)
  BY <1>0, <1>2, <1>3 DEF Seen
<1>5. Continues(t)'
  BY <1>0, <1>2, <1>3, <1>4 DEF Continues, History
<1>6. Holds(t)'
  BY <1>0, <1>2, <1>3 DEF Holds
<1>7. row.written # {} => \A u \in Txns \ {t} : txn[u].written # {} => txn[u].chain # row.chain
  BY <1>2 DEF IInv, OneWriter
<1>8. \A u \in Txns \ {t} : Open(u) /\ txn[u].program.mode = "create" => row.chain # txn[u].chain
  BY <1>2, Typed DEF Holds
<1>9. QED
  BY <1>0, <1>1, <1>2, <1>4, <1>5, <1>6, <1>7, <1>8, OnlyOne

LEMMA RollbackKeeps ==
  ASSUME IInv, NEW t \in Txns, Rollback(t)
  PROVE  IInv'
<1>0. /\ txn \in [Txns -> TxnStates] /\ lock \in [Chains -> Txns \cup {None}]
      /\ begun \in 0 .. MaxBegun /\ txn' = [txn EXCEPT ![t] = Idle] /\ lock' = Unlocked(t)
      /\ UNCHANGED <<ledger, rows, marked, begun, job, anchors>>
  BY DEF IInv, TypeOK, Rollback
<1>1. Idle \in TxnStates /\ Idle.pc = "idle" /\ Idle.written = {} /\ Idle.chain = None
  <2>1. NoTip \in Tips /\ <<>> \in Histories
    BY GenesisFacts DEF NoTip, Tips, GENESIS_PREV_HASH
  <2>2. Issue \in Programs
    BY DEF Programs
  <2>3. QED
    BY <2>1, <2>2 DEF Idle, TxnStates
<1>2. /\ lock' \in [Chains -> Txns \cup {None}]
      /\ \A u \in Txns \ {t}, c \in Chains : lock[c] = u => lock'[c] = u
  BY <1>0 DEF Unlocked
<1>4. ASSUME NEW u \in Txns \ {t}, Open(u) PROVE Idle.chain # txn[u].chain
  BY <1>1, <1>4, Typed, LedgerAssumption
<1>5. begun' \in 0 .. MaxBegun /\ Idle.pc # "insert"
  BY <1>0, <1>1
<1>6. txn' = [txn EXCEPT ![t] = Idle] /\ UNCHANGED <<ledger, rows, marked, job, anchors>>
  BY <1>0
<1>7. Idle \in TxnStates /\ Idle.written = {} /\ Idle.pc = "idle"
  BY <1>1
<1>8. \A u \in Txns \ {t} :
        Open(u) /\ txn[u].program.mode = "create" => Idle.chain # txn[u].chain
  BY <1>4
<1>9. QED
  BY <1>2, <1>5, <1>6, <1>7, <1>8, OnlyOne

(* The next entry of a transaction is one of its program's kinds. *)
LEMMA NextKind ==
  ASSUME NEW a \in Histories, NEW left \in Histories, left # <<>>,
         NEW h \in Histories, NEW kinds \in Histories,
         a \o left = h \o kinds, Len(h) <= Len(a)
  PROVE  \E n \in DOMAIN kinds : kinds[n] = left[1]
<1>1. /\ Len(a) \in Nat /\ Len(h) \in Nat /\ Len(left) \in Nat /\ Len(kinds) \in Nat
      /\ DOMAIN kinds = 1 .. Len(kinds) /\ Len(left) > 0
  BY LenProperties, EmptySeq DEF Histories
<1>2. /\ Len(a \o left) = Len(a) + Len(left)
      /\ \A i \in 1 .. Len(a) + Len(left) :
           (a \o left)[i] = IF i <= Len(a) THEN a[i] ELSE left[i - Len(a)]
  BY ConcatProperties DEF Histories
<1>3. /\ Len(h \o kinds) = Len(h) + Len(kinds)
      /\ \A i \in 1 .. Len(h) + Len(kinds) :
           (h \o kinds)[i] = IF i <= Len(h) THEN h[i] ELSE kinds[i - Len(h)]
  BY ConcatProperties DEF Histories
<1> DEFINE whole == a \o left
           i == Len(a) + 1
<1>4. /\ i \in 1 .. Len(a) + Len(left) /\ i \in 1 .. Len(h) + Len(kinds)
      /\ ~(i <= Len(a)) /\ ~(i <= Len(h)) /\ i - Len(a) = 1
      /\ i - Len(h) \in 1 .. Len(kinds)
  <2>1. Len(a) + Len(left) = Len(h) + Len(kinds)
    BY <1>2, <1>3
  <2>2. QED
    BY <1>1, <2>1
<1> HIDE DEF i
<1>5. whole[i] = left[1] /\ whole[i] = kinds[i - Len(h)]
  <2>1. whole[i] = left[i - Len(a)]
    BY <1>2, <1>4
  <2>2. whole[i] = kinds[i - Len(h)]
    BY <1>3, <1>4
  <2>3. QED
    BY <1>4, <2>1, <2>2
<1>6. QED
  BY <1>1, <1>4, <1>5

(* A transaction whose insert neither waits nor fails has read the last    *)
(* entry it can see.                                                       *)
LEMMA HeadIsTip ==
  ASSUME IInv, NEW t \in Txns, txn[t].pc = "insert", ~Taken(t)
  PROVE  txn[t].head = Tip(Seen(t))
<1>1. /\ Seen(t) \in SUBSET Rows /\ Chained(Seen(t)) /\ IsEntry(txn[t].head, Seen(t))
  BY Typed DEF IInv, HeadWasRead, Continues, Open
<1>2. NextRow(t).seq = txn[t].head.seq + 1
  BY DEF NextRow, Row
<1>3. \A s \in Seen(t) : s.seq # txn[t].head.seq + 1
  BY <1>2 DEF Taken, Collide, Seen
<1>4. QED
  BY <1>1, <1>3, NoGaps

(* Nobody else has written to its chain: the entry it inserts is the one   *)
(* the other would have written first.                                     *)
LEMMA OnlyWriter ==
  ASSUME IInv, NEW t \in Txns, txn[t].pc = "insert", ~Waits(t), ~Taken(t),
         NEW u \in Txns \ {t}, txn[u].written # {}
  PROVE  txn[u].chain # txn[t].chain
<1> SUFFICES ASSUME txn[u].chain = txn[t].chain PROVE FALSE
  OBVIOUS
<1> DEFINE c == txn[t].chain
<1>1. txn[t].written = {}
  BY DEF IInv, OneWriter
<1>2. Open(t) /\ c \in Chains /\ ledger[c] \in SUBSET Rows /\ Chained(ledger[c])
  BY Typed DEF Open
<1>3. Open(u)
  BY DEF IInv, PendingChained, Idle
<1>4. /\ Seen(u) \in SUBSET Rows /\ Chained(Seen(u)) /\ Seen(u) = ledger[c] \cup txn[u].written
      /\ \A r \in txn[u].written, s \in ledger[c] : s.seq < r.seq
      /\ txn[u].written \in SUBSET Rows
  BY <1>3, Typed DEF Continues, Seen
<1>5. txn[t].head = Tip(ledger[c])
  BY <1>1, HeadIsTip DEF Seen
<1>6. IsEntry(txn[t].head, Seen(u)) /\ \A s \in ledger[c] : s.seq <= txn[t].head.seq
  BY <1>2, <1>4, <1>5, TipIsLast DEF IsEntry
<1>7. txn[t].head # Tip(Seen(u))
  <2>1. PICK r \in txn[u].written : TRUE
    OBVIOUS
  <2>2. r \in Seen(u) /\ r.seq <= Tip(Seen(u)).seq /\ r.seq \in Nat
    BY <1>4, <2>1, TipIsLast, RowFields
  <2>3. CASE ledger[c] = {}
    <3>1. txn[t].head.hash = GENESIS_PREV_HASH
      BY <1>2, <1>5, <2>3, TipIsLast
    <3>2. Tip(Seen(u)).hash # GENESIS_PREV_HASH
      BY <1>4, <2>2, TipIsLast
    <3>3. QED
      BY <3>1, <3>2
  <2>4. CASE ledger[c] # {}
    <3>1. PICK q \in ledger[c] : Tip(ledger[c]) = [seq |-> q.seq, hash |-> q.hash]
      BY <1>2, <2>4, TipIsLast
    <3>2. q.seq \in Nat /\ txn[t].head.seq = q.seq /\ q.seq < r.seq
      BY <1>2, <1>4, <1>5, <2>1, <3>1, RowFields
    <3>3. Tip(Seen(u)).seq \in Int
      BY <1>4, TipIsLast DEF Tips
    <3>4. QED
      BY <2>2, <3>2, <3>3
  <2>5. QED
    BY <2>3, <2>4
<1>8. PICK s \in Seen(u) : s.seq = txn[t].head.seq + 1
  BY <1>4, <1>6, <1>7, NoGaps
<1>9. s \in txn[u].written
  <2>1. txn[t].head.seq \in Int
    BY Typed DEF Tips
  <2>2. QED
    BY <1>4, <1>6, <1>8, <2>1
<1>10. NextRow(t).seq = txn[t].head.seq + 1
  BY DEF NextRow, Row
<1>11. QED
  BY <1>8, <1>9, <1>10 DEF Waits, Collide

LEMMA InsertKeeps ==
  ASSUME IInv, NEW t \in Txns, insertEntry(t)
  PROVE  IInv'
<1> DEFINE c == txn[t].chain
           left == txn[t].left
           k == Head(left)
           n == NextRow(t)
           next == IF Len(left) = 1 THEN "commit" ELSE "read"
           row == [txn[t] EXCEPT !.written = txn[t].written \cup {n}, !.left = Tail(left),
                                !.pc = next]
<1>0. /\ txn[t] \in TxnStates /\ Continues(t) /\ Holds(t) /\ c \in Chains
      /\ Seen(t) \in SUBSET Rows /\ Chained(Seen(t)) /\ Open(t)
      /\ left \in Histories /\ txn[t].written \in SUBSET Rows
      /\ ledger[c] \in SUBSET Rows /\ Chained(ledger[c])
      /\ txn[t].program \in Programs
  BY Typed DEF insertEntry, Open, Continues
<1>1. /\ txn \in [Txns -> TxnStates] /\ lock \in [Chains -> Txns \cup {None}]
      /\ begun \in 0 .. MaxBegun /\ txn[t].pc = "insert" /\ ~Waits(t) /\ ~Taken(t)
      /\ UNCHANGED <<ledger, rows, marked, lock, begun, job, anchors>>
  BY DEF IInv, TypeOK, insertEntry
<1>2. txn' = [txn EXCEPT ![t] = row]
  BY DEF insertEntry
<1>3. left # <<>>
  BY <1>0, <1>1 DEF Continues
<1>4. /\ k \in Kinds /\ Tail(left) \in Histories /\ k = left[1]
      /\ Tail(left) = <<>> <=> Len(left) = 1
      /\ \A h \in Histories : chainHash(h, k) \o Tail(left) = h \o left
  BY <1>0, <1>3, NextOfBatch
<1>5. n = Row(Tip(Seen(t)).seq + 1, Tip(Seen(t)).hash, k)
  BY <1>1, HeadIsTip DEF NextRow
<1>6. /\ n \in Rows /\ n.kind = k /\ n.hash = chainHash(Tip(Seen(t)).hash, k)
      /\ Chained(Seen(t) \cup {n})
      /\ Tip(Seen(t) \cup {n}) = [seq |-> n.seq, hash |-> n.hash]
      /\ \A s \in Seen(t) : s.seq < n.seq
  BY <1>0, <1>4, <1>5, AppendedIsChained
<1>7. next \in {"commit", "read"} /\ (next = "commit" <=> Len(left) = 1)
  OBVIOUS
<1>8. /\ row \in TxnStates /\ row.pc = next /\ row.program = txn[t].program
      /\ row.chain = c /\ row.left = Tail(left) /\ row.written = txn[t].written \cup {n}
  <2> DEFINE half == [txn[t] EXCEPT !.written = txn[t].written \cup {n}, !.left = Tail(left)]
  <2> HIDE DEF n, next, k
  <2>1. /\ half \in TxnStates /\ half.program = txn[t].program /\ half.chain = c
        /\ half.left = Tail(left) /\ half.written = txn[t].written \cup {n}
    <3>1. Tail(left) \in Histories /\ txn[t].written \cup {n} \in SUBSET Rows
      BY <1>0, <1>4, <1>6
    <3>2. QED
      BY <1>0, <3>1 DEF TxnStates
  <2> HIDE DEF half
  <2>2. LET whole == [half EXCEPT !.pc = next]
        IN  /\ whole \in TxnStates /\ whole.pc = next /\ whole.program = half.program
            /\ whole.chain = half.chain /\ whole.left = half.left
            /\ whole.written = half.written
    BY <1>7, <2>1 DEF TxnStates
  <2>3. row = [half EXCEPT !.pc = next]
    BY DEF half
  <2> HIDE DEF row
  <2>4. QED
    BY <2>1, <2>2, <2>3
<1> HIDE DEF row, n, k, next
<1>9. txn'[t] = row /\ \A u \in Txns \ {t} : txn'[u] = txn[u]
  BY <1>1, <1>2
<1>10. Seen(t)' = Seen(t) \cup {n}
  BY <1>1, <1>8, <1>9 DEF Seen
<1>11. Continues(t)'
  <2>1. /\ Tip(Seen(t)).hash \o left = History(c) \o txn[t].program.kinds
        /\ txn[t].program \in Running
        /\ c \in Mandates \ rows => txn[t].program = Issue
        /\ \A r \in txn[t].written, s \in ledger[c] : s.seq < r.seq
    BY <1>0 DEF Continues
  <2>2. Tip(Seen(t)).hash \in Histories
    BY <1>0, TipIsLast DEF Tips
  <2>3. Tip(Seen(t) \cup {n}).hash \o Tail(left) = History(c) \o txn[t].program.kinds
    <3> DEFINE a == Tip(Seen(t)).hash
    <3> HIDE DEF a
    <3>1. chainHash(a, k) \o Tail(left) = a \o left
      BY <1>4, <2>2 DEF a
    <3>2. Tip(Seen(t) \cup {n}).hash = chainHash(a, k)
      BY <1>6 DEF a
    <3>3. QED
      BY <2>1, <3>1, <3>2 DEF a
  <2>4. \A r \in txn[t].written \cup {n}, s \in ledger[c] : s.seq < r.seq
    BY <1>6, <2>1 DEF Seen
  <2>5. \A d \in Chains : Tip(ledger'[d]).hash = History(d)
    BY <1>1 DEF History
  <2>6. row.pc = "commit" <=> row.left = <<>>
    BY <1>4, <1>7, <1>8
  <2> HIDE DEF c, left
  <2>7. txn'[t].chain = c /\ txn'[t].program = txn[t].program /\ txn'[t].left = Tail(left)
        /\ txn'[t].written = txn[t].written \cup {n} /\ txn'[t].written # {}
        /\ (txn'[t].pc = "commit" <=> txn'[t].left = <<>>)
    BY <1>8, <1>9, <2>6
  <2>8. ledger' = ledger /\ rows' = rows
    BY <1>1
  <2>9. Tip(Seen(t))'.hash \o txn'[t].left
          = Tip(ledger'[txn'[t].chain]).hash \o txn'[t].program.kinds
    BY <1>0, <1>10, <2>3, <2>5, <2>7
  <2>10. QED
    BY <1>0, <1>6, <1>10, <2>1, <2>4, <2>7, <2>8, <2>9 DEF Continues, History
<1>12. Holds(t)'
  <2>1. Len(History(c)) <= Len(Tip(Seen(t)).hash)
    <3>1. /\ Tip(ledger[c]).seq \in Int /\ Tip(Seen(t)).seq \in Int
          /\ Len(Tip(ledger[c]).hash) = Tip(ledger[c]).seq + 1
          /\ Len(Tip(Seen(t)).hash) = Tip(Seen(t)).seq + 1
          /\ \A s \in Seen(t) : s.seq <= Tip(Seen(t)).seq
      BY <1>0, TipIsLast DEF Tips
    <3>2. Tip(ledger[c]).seq <= Tip(Seen(t)).seq
      <4>1. CASE ledger[c] = {}
        <5>1. Tip(ledger[c]).seq = -1
          BY <1>0, <4>1, TipIsLast DEF NoTip
        <5>2. Tip(Seen(t)).seq \in Nat \cup {-1}
          BY <1>0, TipIsLast DEF Tips
        <5>3. QED
          BY <5>1, <5>2
      <4>2. CASE ledger[c] # {}
        <5>1. PICK q \in ledger[c] : Tip(ledger[c]) = [seq |-> q.seq, hash |-> q.hash]
          BY <1>0, <4>2, TipIsLast
        <5>2. q \in Seen(t)
          BY DEF Seen
        <5>3. QED
          BY <3>1, <5>1, <5>2
      <4>3. QED
        BY <4>1, <4>2
    <3>3. QED
      BY <3>1, <3>2 DEF History
  <2>2. Tip(Seen(t)).hash \in Histories /\ History(c) \in Histories
    BY <1>0, TipIsLast DEF Tips, History
  <2>3. txn[t].program.kinds \in Histories
    BY <1>0, ProgramFacts
  <2>4. Tip(Seen(t)).hash \o left = History(c) \o txn[t].program.kinds
    BY <1>0 DEF Continues
  <2>5. \E m \in DOMAIN txn[t].program.kinds : txn[t].program.kinds[m] = k
    <3> DEFINE a == Tip(Seen(t)).hash
               h == History(c)
               kinds == txn[t].program.kinds
    <3>1. a \in Histories /\ h \in Histories /\ kinds \in Histories /\ left \in Histories
      BY <1>0, <2>2, <2>3
    <3>2. a \o left = h \o kinds /\ Len(h) <= Len(a) /\ left # <<>>
      BY <1>3, <2>1, <2>4
    <3> HIDE DEF a, h, kinds, left
    <3>3. \E m \in DOMAIN kinds : kinds[m] = left[1]
      BY <3>1, <3>2, NextKind
    <3>4. QED
      BY <1>4, <3>3 DEF kinds
  <2>6. txn[t].program.mode = "lock" => lock[c] = t
    BY <1>0, <1>1 DEF Holds
  <2>7. QED
    BY <1>0, <1>1, <1>6, <1>8, <1>9, <2>5, <2>6 DEF Holds
<1>13. \A u \in Txns \ {t} : txn[u].written # {} => txn[u].chain # row.chain
  BY <1>1, <1>8, OnlyWriter
<1>14. \A u \in Txns \ {t} : Open(u) /\ txn[u].program.mode = "create" => row.chain # txn[u].chain
  BY <1>8, Typed DEF Holds
<1>15. row \in TxnStates /\ row.pc # "insert" /\ row.pc # "idle"
  BY <1>7, <1>8
<1>16. UNCHANGED <<ledger, rows, marked, job, anchors>>
  BY <1>1
<1>17. /\ lock' \in [Chains -> Txns \cup {None}] /\ begun' \in 0 .. MaxBegun
       /\ \A u \in Txns \ {t}, d \in Chains : lock[d] = u => lock'[d] = u
  BY <1>1
<1>18. QED
  BY <1>2, <1>11, <1>12, <1>13, <1>14, <1>15, <1>16, <1>17, OnlyOne

(* What a commit appends to its chain, and what it is then. *)
LEMMA CommitFacts ==
  ASSUME IInv, NEW t \in Txns, Commit(t), NEW c \in Chains, c = txn[t].chain
  PROVE  /\ ledger' = [ledger EXCEPT ![c] = Seen(t)]
         /\ Seen(t) \in SUBSET Rows /\ Chained(Seen(t)) /\ ledger[c] \subseteq Seen(t)
         /\ txn[t].written # {}
         /\ Tip(txn[t].written).seq \in Nat
         /\ Tip(Seen(t)).hash = History(c) \o txn[t].program.kinds
         /\ rows' = rows \cup {c} /\ txn' = [txn EXCEPT ![t] = Idle] /\ lock' = Unlocked(t)
         /\ UNCHANGED <<begun, job, anchors>>
<1>1. /\ txn[t].pc = "commit" /\ ledger' = [ledger EXCEPT ![c] = Seen(t)]
      /\ rows' = rows \cup {c} /\ txn' = [txn EXCEPT ![t] = Idle] /\ lock' = Unlocked(t)
      /\ UNCHANGED <<begun, job, anchors>>
  BY DEF Commit, Seen
<1>2. /\ Seen(t) \in SUBSET Rows /\ Continues(t) /\ txn[t].written \in SUBSET Rows
  BY <1>1, Typed DEF Open
<1>3. /\ Chained(Seen(t)) /\ txn[t].written # {} /\ txn[t].left = <<>>
      /\ \A r \in txn[t].written, s \in ledger[c] : s.seq < r.seq
      /\ Tip(Seen(t)).hash \o txn[t].left = History(c) \o txn[t].program.kinds
  BY <1>1, <1>2 DEF Continues
<1>4. Tip(txn[t].written).seq \in Nat
  <2> DEFINE w == txn[t].written
             top == CHOOSE r \in w : \A s \in w : s.seq <= r.seq
  <2>1. PICK r \in Seen(t) : \A s \in Seen(t) : s.seq <= r.seq
    BY <1>2, <1>3, TipIsLast DEF Seen
  <2>2. PICK q \in w : TRUE
    BY <1>3
  <2>3. q.seq \in Nat /\ r.seq \in Nat /\ q.seq <= r.seq
    BY <1>2, <1>3, <2>1, <2>2, RowFields DEF Seen
  <2>4. r \in w
    <3>1. r \notin ledger[c]
      BY <1>3, <2>2, <2>3
    <3>2. QED
      BY <3>1 DEF Seen
  <2>5. top \in w
    <3>1. \A s \in w : s.seq <= r.seq
      BY <2>1 DEF Seen
    <3>2. QED
      BY <2>4, <3>1
  <2> HIDE DEF top
  <2>6. top.seq \in Nat
    BY <1>2, <2>5 DEF Rows
  <2>7. Tip(w).seq = top.seq
    BY <1>3 DEF Tip, top
  <2>8. QED
    BY <2>6, <2>7
<1>5. Tip(Seen(t)).hash \o <<>> = Tip(Seen(t)).hash
  <2>1. Tip(Seen(t)).hash \in Histories
    BY <1>2, <1>3, TipIsLast DEF Tips
  <2>2. QED
    BY <2>1, ConcatEmptySeq DEF Histories
<1>6. QED
  BY <1>1, <1>2, <1>3, <1>4, <1>5 DEF Seen

LEMMA CommitKeeps ==
  ASSUME IInv, NEW t \in Txns, Commit(t)
  PROVE  IInv'
<1>0. PICK c \in Chains : c = txn[t].chain
  BY Typed DEF Commit, Open
<1>1. /\ ledger' = [ledger EXCEPT ![c] = Seen(t)]
      /\ Seen(t) \in SUBSET Rows /\ Chained(Seen(t)) /\ ledger[c] \subseteq Seen(t)
      /\ txn[t].written # {}
      /\ Tip(txn[t].written).seq \in Nat
      /\ rows' = rows \cup {c} /\ txn' = [txn EXCEPT ![t] = Idle] /\ lock' = Unlocked(t)
      /\ UNCHANGED <<begun, job, anchors>>
  BY <1>0, CommitFacts
<1>2. /\ ledger \in [Chains -> SUBSET Rows] /\ txn \in [Txns -> TxnStates]
      /\ lock \in [Chains -> Txns \cup {None}] /\ marked \in [Chains -> Nat \cup {-1}]
      /\ rows \subseteq Chains
  BY DEF IInv, TypeOK
<1>3. /\ ledger'[c] = Seen(t) /\ \A d \in Chains \ {c} : ledger'[d] = ledger[d]
      /\ \A d \in Chains : ledger[d] \subseteq ledger'[d]
      /\ txn'[t] = Idle /\ \A u \in Txns \ {t} : txn'[u] = txn[u]
      /\ \A u \in Txns \ {t}, d \in Chains : lock[d] = u => lock'[d] = u
      /\ lock' \in [Chains -> Txns \cup {None}]
  BY <1>1, <1>2 DEF Unlocked
<1>4. Idle \in TxnStates /\ Idle.pc = "idle" /\ Idle.chain = None /\ Idle.written = {}
  <2>1. NoTip \in Tips /\ <<>> \in Histories
    BY GenesisFacts DEF NoTip, Tips, GENESIS_PREV_HASH
  <2>2. Issue \in Programs
    BY DEF Programs
  <2>3. QED
    BY <2>1, <2>2 DEF Idle, TxnStates
<1>5. TypeOK'
  <2>1. marked' \in [Chains -> Nat \cup {-1}]
    <3>1. marked' = IF txn[t].program.marks
                    THEN [marked EXCEPT ![c] = Tip(txn[t].written).seq] ELSE marked
      BY <1>0 DEF Commit
    <3>2. QED
      BY <1>1, <1>2, <3>1
  <2>2. ledger' \in [Chains -> SUBSET Rows] /\ txn' \in [Txns -> TxnStates] /\ rows' \subseteq Chains
    BY <1>1, <1>2, <1>4
  <2>3. begun' \in 0 .. MaxBegun /\ job' \in JobStates /\ anchors' \subseteq SUBSET AnchoredHeads
    BY <1>1 DEF IInv, TypeOK
  <2>4. QED
    BY <1>3, <2>1, <2>2, <2>3 DEF TypeOK
<1>6. CommittedChained'
  <2>1. \A d \in Chains : Chained(ledger'[d])
    BY <1>1, <1>3 DEF IInv, CommittedChained
  <2>2. ledger'[c] # {}
    BY <1>1, <1>3 DEF Seen
  <2>3. \A m \in Mandates \cap rows' : ledger'[m] # {}
    BY <1>1, <1>3, <2>2 DEF IInv, CommittedChained, Chains
  <2>4. QED
    BY <2>1, <2>3 DEF CommittedChained
<1>7. ASSUME NEW u \in Txns \ {t}, txn[u].chain = c PROVE txn[u].written = {}
  BY <1>0, <1>1, <1>7 DEF IInv, OneWriter
<1>8. ASSUME NEW u \in Txns \ {t}, Open(u)
      PROVE  /\ txn[u].chain # c => Seen(u)' = Seen(u)
             /\ txn[u].chain = c => Seen(u)' = Seen(t) /\ Seen(u) = ledger[c]
             /\ Seen(u) \subseteq Seen(u)'
  BY <1>1, <1>3, <1>7, <1>8, Typed DEF Seen
<1>9. PendingChained'
  <2>1. ASSUME NEW u \in Txns \ {t}, Open(u) PROVE Continues(u)'
    <3>1. /\ Continues(u) /\ txn[u].chain \in Chains /\ txn[u].left \in Histories
          /\ txn[u].program.kinds \in Histories
      BY <2>1, Typed, ProgramFacts
    <3>2. CASE txn[u].chain # c
      <4>1. Seen(u)' = Seen(u) /\ ledger'[txn[u].chain] = ledger[txn[u].chain]
        BY <1>3, <1>8, <2>1, <3>1, <3>2
      <4>2. txn[u].chain \in Mandates \ rows' => txn[u].chain \in Mandates \ rows
        BY <1>1
      <4>3. QED
        BY <1>3, <3>1, <4>1, <4>2 DEF Continues, History
    <3>3. CASE txn[u].chain = c
      <4>1. /\ Seen(u)' = Seen(t) /\ Seen(u) = ledger[c] /\ txn[u].written = {}
            /\ ledger'[c] = Seen(t)
        BY <1>3, <1>7, <1>8, <2>1, <3>3
      <4>2. txn[u].left = txn[u].program.kinds
        <5> DEFINE h == History(c)
                   left == txn[u].left
                   kinds == txn[u].program.kinds
        <5>1. h \in Histories
          BY Typed, TipIsLast DEF History, Tips
        <5>2. h \o left = h \o kinds
          BY <3>1, <3>3, <4>1 DEF Continues, History
        <5> HIDE DEF h, left, kinds
        <5>3. left \in Seq(Kinds) /\ kinds \in Seq(Kinds) /\ h \in Seq(Kinds)
          BY <3>1, <5>1 DEF left, kinds, Histories
        <5>4. left = kinds
          BY <5>2, <5>3, ConcatSimplifications
        <5>5. QED
          BY <5>4 DEF left, kinds
      <4>3. txn[u].chain \in Mandates \ rows' => txn[u].chain \in Mandates \ rows
        BY <1>1
      <4>4. /\ txn[u].program \in Running
            /\ txn[u].chain \in Mandates \ rows => txn[u].program = Issue
            /\ txn[u].pc = "commit" <=> txn[u].left = <<>>
            /\ txn[u].pc = "commit" => txn[u].written # {}
        BY <3>1 DEF Continues
      <4>5. QED
        BY <1>1, <1>3, <3>1, <3>3, <4>1, <4>2, <4>3, <4>4 DEF Continues, History
    <3>4. QED
      BY <3>2, <3>3
  <2>2. \A u \in Txns \ {t} : (Open(u)' <=> Open(u)) /\ (~Open(u) => txn'[u] = Idle)
    BY <1>3 DEF IInv, PendingChained, Open
  <2>3. ~Open(t)'
    BY <1>3, <1>4 DEF Open
  <2>4. QED
    BY <1>3, <2>1, <2>2, <2>3 DEF PendingChained
<1>10. OneWriter'
  BY <1>3, <1>4 DEF IInv, OneWriter
<1>11. HeadWasRead'
  <2>1. ASSUME NEW u \in Txns \ {t}, txn[u].pc = "insert"
        PROVE  IsEntry(txn[u].head, Seen(u)') /\ (txn[u].written # {} => txn[u].head = Tip(Seen(u)'))
    <3>1. Open(u)
      BY <2>1 DEF Open
    <3>2. IsEntry(txn[u].head, Seen(u)) /\ (txn[u].written # {} => txn[u].head = Tip(Seen(u)))
      BY <2>1 DEF IInv, HeadWasRead
    <3>3. txn[u].written # {} => Seen(u)' = Seen(u)
      BY <1>7, <1>8, <3>1
    <3>4. QED
      BY <1>8, <3>1, <3>2, <3>3 DEF IsEntry
  <2>2. QED
    BY <1>3, <1>4, <2>1 DEF HeadWasRead
<1>12. RowsHeld'
  <2>1. ASSUME NEW u \in Txns \ {t}, Open(u) PROVE Holds(u)'
    <3>1. Holds(u) /\ txn[u].chain \in Chains /\ txn'[u] = txn[u] /\ None \notin Chains
      BY <1>3, <2>1, Typed, LedgerAssumption
    <3>2. txn[u].program.mode = "create" => txn[u].chain \in Mandates \ rows'
      BY <1>0, <1>1, <3>1 DEF Holds
    <3>3. txn[u].program.mode = "create" => \A v \in Txns \ {u} : txn'[v].chain # txn[u].chain
      BY <1>3, <1>4, <3>1 DEF Holds
    <3>4. QED
      BY <1>3, <3>1, <3>2, <3>3 DEF Holds
  <2>2. \A u \in Txns : Open(u)' => u # t /\ Open(u)
    BY <1>3, <1>4 DEF Open
  <2>3. QED
    BY <2>1, <2>2 DEF RowsHeld
<1>13. HeadsCommitted'
  <2>1. \A h \in job.heads \cup UNION anchors : h.chain \in Chains
    BY DEF IInv, TypeOK, JobStates, AnchoredHeads
  <2>2. job' = job /\ anchors' = anchors /\ job \in JobStates
    BY <1>1 DEF IInv, TypeOK
  <2>3. QED
    BY <1>3, <2>1, <2>2 DEF IInv, HeadsCommitted, JobStates
<1>14. QED
  BY <1>5, <1>6, <1>9, <1>10, <1>11, <1>12, <1>13 DEF IInv

(* The job writes only to its own state and to the anchors. *)
LEMMA AnchorKeeps ==
  ASSUME IInv, Anchor
  PROVE  IInv'
<1>0. /\ job \in JobStates /\ anchors \subseteq SUBSET AnchoredHeads
      /\ \A c \in Chains : ledger[c] \in SUBSET Rows /\ Chained(ledger[c])
      /\ \A c \in job.left : ledger[c] # {}
      /\ job.pc = "verified" => job.chain \in Chains /\ ledger[job.chain] # {}
      /\ \A h \in job.heads \cup UNION anchors :
           \E r \in ledger[h.chain] : r.seq = h.seq /\ r.hash = h.hash
  BY DEF IInv, TypeOK, CommittedChained, HeadsCommitted
<1>1. ASSUME UNCHANGED <<ledger, rows, marked, lock, txn, begun>>, job' \in JobStates,
             anchors' \subseteq SUBSET AnchoredHeads, HeadsCommitted'
      PROVE  IInv'
  <2>1. /\ ledger' = ledger /\ rows' = rows /\ marked' = marked /\ lock' = lock
        /\ txn' = txn /\ begun' = begun
    BY <1>1
  <2>2. TypeOK' /\ CommittedChained' /\ OneWriter'
    BY <1>1, <2>1 DEF IInv, TypeOK, CommittedChained, OneWriter
  <2>3. PendingChained' /\ HeadWasRead'
    BY <2>1 DEF IInv, PendingChained, HeadWasRead, Open, Continues, Seen, History
  <2>4. RowsHeld'
    BY <2>1 DEF IInv, RowsHeld, Holds, Open
  <2>5. QED
    BY <1>1, <2>2, <2>3, <2>4 DEF IInv
<1>2. CASE listChainIds
  <2>1. /\ job'.heads = {} /\ job'.left = {c \in Chains : ledger[c] # {}}
        /\ job'.pc = "chains" /\ job' \in JobStates
    BY <1>0, <1>2 DEF listChainIds, Rest, JobStates
  <2>2. HeadsCommitted'
    BY <1>0, <1>2, <2>1 DEF listChainIds, HeadsCommitted
  <2>3. QED
    BY <1>0, <1>1, <1>2, <2>1, <2>2 DEF listChainIds
<1>3. CASE \E c \in Chains : VerifyNext(c)
  <2>1. PICK c \in Chains : VerifyNext(c)
    BY <1>3
  <2>2. /\ job' \in JobStates /\ job'.heads = job.heads /\ job'.left \subseteq job.left
        /\ job'.chain = c /\ ledger[c] # {}
        /\ UNCHANGED <<ledger, rows, marked, lock, txn, begun, anchors>>
    <3> DEFINE next == IF verifyChain(ledger[c]) THEN "verified" ELSE "chains"
               rest == job.left \ {c}
    <3>1. next \in {"verified", "chains"} /\ rest \in SUBSET Chains
      BY <1>0 DEF JobStates
    <3>2. job' = [job EXCEPT !.left = rest, !.pc = next, !.chain = c]
      BY <2>1 DEF VerifyNext
    <3>3. c \in job.left /\ UNCHANGED <<ledger, rows, marked, lock, txn, begun, anchors>>
      BY <2>1 DEF VerifyNext
    <3> HIDE DEF next
    <3>4. QED
      BY <1>0, <3>1, <3>2, <3>3 DEF JobStates
  <2>3. HeadsCommitted'
    BY <1>0, <2>2 DEF HeadsCommitted
  <2>4. QED
    BY <1>0, <1>1, <2>2, <2>3
<1>4. CASE ReadVerifiedHead
  <2> DEFINE c == job.chain
             h == Tip(ledger[c])
             head == [chain |-> c, seq |-> h.seq, hash |-> h.hash]
  <2>1. /\ job.pc = "verified" /\ job' = [job EXCEPT !.pc = "chains", !.heads = job.heads \cup {head}]
        /\ UNCHANGED <<ledger, rows, marked, lock, txn, begun, anchors>>
    BY <1>4 DEF ReadVerifiedHead
  <2>2. PICK r \in ledger[c] : h = [seq |-> r.seq, hash |-> r.hash]
    BY <1>0, <2>1, TipIsLast
  <2>3. head \in AnchoredHeads /\ head.chain = c /\ head.seq = r.seq /\ head.hash = r.hash
    <3>1. r.seq \in Nat /\ r.hash \in Histories
      BY <1>0, <2>1, <2>2, RowFields
    <3>2. h.seq = r.seq /\ h.hash = r.hash
      BY <2>2
    <3> HIDE DEF h
    <3>3. QED
      BY <1>0, <2>1, <3>1, <3>2 DEF AnchoredHeads
  <2> HIDE DEF head, h
  <2>4. /\ job' \in JobStates /\ job'.heads = job.heads \cup {head} /\ job'.left = job.left
        /\ job'.pc = "chains"
    BY <1>0, <2>1, <2>3 DEF JobStates
  <2>5. HeadsCommitted'
    BY <1>0, <2>1, <2>2, <2>3, <2>4 DEF HeadsCommitted
  <2>6. QED
    BY <1>0, <1>1, <2>1, <2>4, <2>5
<1>5. Rest \in JobStates /\ Rest.left = {} /\ Rest.heads = {} /\ Rest.pc = "idle"
  BY DEF Rest, JobStates
<1>6. CASE InsertAnchor
  <2>1. /\ job' = Rest /\ anchors' \subseteq SUBSET AnchoredHeads
        /\ UNION anchors' \subseteq job.heads \cup UNION anchors
        /\ UNCHANGED <<ledger, rows, marked, lock, txn, begun>>
    BY <1>0, <1>6 DEF InsertAnchor, JobStates
  <2>2. HeadsCommitted'
    BY <1>0, <1>5, <2>1 DEF HeadsCommitted
  <2>3. QED
    BY <1>1, <1>5, <2>1, <2>2
<1>7. CASE CrashJob
  <2>1. job' = Rest /\ UNCHANGED <<ledger, rows, marked, lock, txn, begun, anchors>>
    BY <1>7 DEF CrashJob
  <2>2. HeadsCommitted'
    BY <1>0, <1>5, <2>1 DEF HeadsCommitted
  <2>3. QED
    BY <1>0, <1>1, <1>5, <2>1, <2>2
<1>8. QED
  BY <1>2, <1>3, <1>4, <1>6, <1>7 DEF Anchor
-----------------------------------------------------------------------------
LEMMA LedgerInitial == Init => IInv
<1> SUFFICES ASSUME Init PROVE IInv
  OBVIOUS
<1>1. /\ ledger = [c \in Chains |-> {}] /\ rows = Merchants /\ marked = [c \in Chains |-> -1]
      /\ lock = [c \in Chains |-> None] /\ txn = [t \in Txns |-> Idle]
      /\ begun = 0 /\ job = Rest /\ anchors = {}
  BY DEF Init
<1>2. Idle \in TxnStates /\ Idle.pc = "idle" /\ Idle.written = {}
  <2>1. NoTip \in Tips /\ <<>> \in Histories
    BY GenesisFacts DEF NoTip, Tips, GENESIS_PREV_HASH
  <2>2. Issue \in Programs
    BY DEF Programs
  <2>3. QED
    BY <2>1, <2>2 DEF Idle, TxnStates
<1>3. Rest \in JobStates /\ Rest.left = {} /\ Rest.heads = {} /\ Rest.pc = "idle"
  BY DEF Rest, JobStates
<1>4. TypeOK
  BY <1>1, <1>2, <1>3, LedgerAssumption DEF TypeOK, Chains
<1>5. CommittedChained
  BY <1>1, LedgerAssumption DEF CommittedChained, Chained
<1>6. \A t \in Txns : txn[t] = Idle /\ ~Open(t)
  BY <1>1, <1>2 DEF Open
<1>7. PendingChained /\ RowsHeld
  BY <1>6 DEF PendingChained, RowsHeld
<1>8. OneWriter /\ HeadWasRead
  BY <1>2, <1>6 DEF OneWriter, HeadWasRead
<1>9. HeadsCommitted
  BY <1>1, <1>3 DEF HeadsCommitted
<1>10. QED
  BY <1>4, <1>5, <1>7, <1>8, <1>9 DEF IInv

LEMMA LedgerKept ==
  ASSUME IInv, [Next]_vars
  PROVE  IInv'
<1>1. ASSUME NEW t \in Txns, NEW p \in Running, NEW c \in Chains, Begin(t, p, c)
      PROVE  IInv'
  BY <1>1, BeginKeeps
<1>2. ASSUME NEW t \in Txns, Proceed(t) PROVE IInv'
  <2>1. RejectEntry(t) => Rollback(t)
    BY DEF RejectEntry
  <2>2. QED
    BY <1>2, <2>1, LockRowKeeps, ReadHeadKeeps, InsertKeeps, RollbackKeeps, CommitKeeps
       DEF Proceed
<1>3. ASSUME NEW t \in Txns, Rollback(t) PROVE IInv'
  BY <1>3, RollbackKeeps
<1>4. CASE Anchor
  BY <1>4, AnchorKeeps
<1>5. CASE UNCHANGED vars
  <2>1. /\ ledger' = ledger /\ rows' = rows /\ marked' = marked /\ lock' = lock
        /\ txn' = txn /\ begun' = begun /\ job' = job /\ anchors' = anchors
    BY <1>5 DEF vars
  <2>2. TypeOK' /\ CommittedChained' /\ OneWriter' /\ HeadsCommitted'
    BY <2>1 DEF IInv, TypeOK, CommittedChained, OneWriter, HeadsCommitted
  <2>3. PendingChained' /\ HeadWasRead'
    BY <2>1 DEF IInv, PendingChained, HeadWasRead, Open, Continues, Seen, History
  <2>4. RowsHeld'
    BY <2>1 DEF IInv, RowsHeld, Holds, Open
  <2>5. QED
    BY <2>2, <2>3, <2>4 DEF IInv
<1>6. QED
  BY <1>1, <1>2, <1>3, <1>4, <1>5 DEF Next

(* The invariant of the chains, types among it: the committed rows of a    *)
(* chain are a chain, what each open transaction wrote continues it, at    *)
(* most one of them has written, and what the job carries is committed.    *)
THEOREM LedgerIsKept == Spec => []IInv
<1>1. Init => IInv
  BY LedgerInitial
<1>2. IInv /\ [Next]_vars => IInv'
  BY LedgerKept
<1>3. QED
  BY <1>1, <1>2, PTL DEF Spec

(* INV-11: no interleaving of appends, with the row lock or without it,    *)
(* commits a chain that verifyChain reports as broken.                     *)
THEOREM LedgerVerifies == Spec => []ChainsVerify
<1>1. IInv => ChainsVerify
  BY ChainedVerifies DEF IInv, TypeOK, CommittedChained, ChainsVerify
<1>2. QED
  BY <1>1, LedgerIsKept, PTL

(* An entry that has a successor cannot be replaced, its own hash          *)
(* included, without verifyChain reporting it.                             *)
THEOREM LedgerShowsEdits == Spec => []EditsDetected
<1>1. IInv => EditsDetected
  <2> SUFFICES ASSUME IInv, NEW c \in Chains, NEW r \in ledger[c], NEW s \in ledger[c],
                      s.seq = r.seq + 1, NEW k \in Kinds \ {r.kind},
                      NEW h \in {r.hash, chainHash(r.prev, k)}
               PROVE  ~verifyChain(Edited(ledger[c], r, k, h))
    BY DEF EditsDetected
  <2>1. ledger[c] \in SUBSET Rows /\ Chained(ledger[c])
    BY DEF IInv, TypeOK, CommittedChained
  <2>2. QED
    BY <2>1, EditIsSeen
<1>2. QED
  BY <1>1, LedgerIsKept, PTL

(* Whatever is anchored is committed and verifies up to the anchored head. *)
THEOREM AnchorsAreCommitted == Spec => []AnchorsHold
<1>1. IInv => AnchorsHold
  <2> SUFFICES ASSUME IInv, NEW h \in UNION anchors PROVE HeadHolds(h)
    BY DEF AnchorsHold
  <2>1. h.chain \in Chains
    BY DEF IInv, TypeOK, AnchoredHeads
  <2> DEFINE rs == ledger[h.chain]
  <2>2. rs \in SUBSET Rows /\ Chained(rs)
    BY <2>1 DEF IInv, TypeOK, CommittedChained
  <2>3. PICK q \in rs : q.seq = h.seq /\ q.hash = h.hash
    BY DEF IInv, HeadsCommitted
  <2> DEFINE up == {r \in rs : r.seq <= q.seq}
  <2>4. Chained(up) /\ up \in SUBSET Rows
    BY <2>2, PrefixIsChained
  <2> HIDE DEF up
  <2>5. verifyChain(up)
    BY <2>4, ChainedVerifies
  <2>6. QED
    BY <2>3, <2>5 DEF HeadHolds, up
<1>2. QED
  BY <1>1, LedgerIsKept, PTL
-----------------------------------------------------------------------------
(* Only a commit changes the history of a chain, of the one it appends to. *)
LEMMA CommitIsBatch ==
  ASSUME IInv, NEW t \in Txns, Commit(t)
  PROVE  [Logs!LogNext]_([c \in Chains |-> History(c)])
<1>0. PICK c \in Chains : c = txn[t].chain
  BY Typed DEF Commit, Open
<1>1. /\ ledger' = [ledger EXCEPT ![c] = Seen(t)]
      /\ Tip(Seen(t)).hash = History(c) \o txn[t].program.kinds
  BY <1>0, CommitFacts
<1>2. ledger \in [Chains -> SUBSET Rows] /\ Continues(t) /\ Chained(ledger[c])
  BY <1>0, Typed DEF Commit, Open, IInv, TypeOK
<1> DEFINE b == txn[t].program.kinds
           log == [d \in Chains |-> History(d)]
           opening == [d \in Chains |-> IF d \in Mandates THEN {Issue.kinds} ELSE KindsOf]
<1>3. b \in KindsOf
  BY <1>2 DEF Continues, KindsOf
<1>4. log[c] = <<>> => b \in opening[c]
  <2>1. History(c) = GENESIS_PREV_HASH => ledger[c] = {}
    BY <1>2, TipIsLast DEF History
  <2>2. ledger[c] = {} /\ c \in Mandates => c \notin rows
    BY DEF IInv, CommittedChained
  <2>3. c \in Mandates \ rows => b = Issue.kinds
    BY <1>0, <1>2 DEF Continues
  <2>4. QED
    BY <1>3, <2>1, <2>2, <2>3 DEF GENESIS_PREV_HASH
<1>5. [d \in Chains |-> Tip(ledger'[d]).hash] = [log EXCEPT ![c] = log[c] \o b]
  <2>1. \A d \in Chains : ledger'[d] = IF d = c THEN Seen(t) ELSE ledger[d]
    BY <1>1, <1>2
  <2>2. \A d \in Chains : Tip(ledger'[d]).hash = IF d = c THEN log[c] \o b ELSE log[d]
    <3>1. \A d \in Chains : log[d] = Tip(ledger[d]).hash
      BY DEF History
    <3>2. Tip(Seen(t)).hash = log[c] \o b
      BY <1>1
    <3> HIDE DEF log, b
    <3>3. QED
      BY <2>1, <3>1, <3>2
  <2> HIDE DEF b
  <2>3. QED
    BY <2>2
<1>6. \E d \in Chains : \E e \in KindsOf :
        /\ log[d] = <<>> => e \in opening[d]
        /\ [x \in Chains |-> Tip(ledger'[x]).hash] = [log EXCEPT ![d] = log[d] \o e]
  BY <1>3, <1>4, <1>5
<1>7. Logs!LogNext
  BY <1>6 DEF Logs!LogNext, Logs!CommitBatch, History
<1>8. QED
  BY <1>7

LEMMA StepIsBatch ==
  ASSUME IInv, [Next]_vars
  PROVE  [Logs!LogNext]_([c \in Chains |-> History(c)])
<1>1. ASSUME UNCHANGED ledger
      PROVE  UNCHANGED [c \in Chains |-> History(c)]
  BY <1>1 DEF History
<1>2. ASSUME NEW t \in Txns, Commit(t)
      PROVE  [Logs!LogNext]_([c \in Chains |-> History(c)])
  BY <1>2, CommitIsBatch
<1>3. ASSUME NEW t \in Txns, Proceed(t), ~Commit(t) PROVE UNCHANGED ledger
  BY <1>3 DEF Proceed, LockRow, readHead, insertEntry, RejectEntry, Rollback
<1>4. ASSUME NEW t \in Txns, Rollback(t) PROVE UNCHANGED ledger
  BY <1>4 DEF Rollback
<1>5. ASSUME NEW t \in Txns, NEW p \in Running, NEW c \in Chains, Begin(t, p, c)
      PROVE  UNCHANGED ledger
  BY <1>5 DEF Begin
<1>6. Anchor => UNCHANGED ledger
  BY DEF Anchor, listChainIds, VerifyNext, ReadVerifiedHead, InsertAnchor, CrashJob
<1>7. UNCHANGED vars => UNCHANGED ledger
  BY DEF vars
<1>8. QED
  BY <1>1, <1>2, <1>3, <1>4, <1>5, <1>6, <1>7 DEF Next

(* The committed chains are the logs of ChainLog: a transaction's entries  *)
(* appear together, in order, at the end of its chain or not at all, and   *)
(* the first of a mandate's are its issue.                                 *)
THEOREM LedgerImplementsLogs == Spec => LogSpec
<1>1. Init => Logs!LogInit
  <2> SUFFICES ASSUME Init PROVE Logs!LogInit
    OBVIOUS
  <2>1. \A c \in Chains : History(c) = <<>>
    BY DEF Init, History, Tip, NoTip, GENESIS_PREV_HASH
  <2>2. QED
    BY <2>1 DEF Logs!LogInit
<1>2. IInv /\ [Next]_vars => [Logs!LogNext]_([c \in Chains |-> History(c)])
  BY StepIsBatch
<1>3. QED
  BY <1>1, <1>2, LedgerIsKept, PTL DEF Spec, LogSpec, Logs!LogSpec

(* Who commits to a chain while another holds its row does not lock it. *)
LEMMA CommitsBesideHolder ==
  ASSUME IInv, NEW u \in Txns, Commit(u), NEW t \in Txns \ {u}, txn[t].pc = "insert",
         txn[t].program.mode = "lock", txn[u].chain = txn[t].chain,
         NEW r \in txn[u].written
  PROVE  r.kind \in UnlockedKinds(txn[t].chain)
<1> DEFINE p == txn[u].program
           c == txn[t].chain
<1>1. /\ Holds(t) /\ Holds(u) /\ txn[u].pc = "commit" /\ c \in Chains
      /\ txn[u].written \in SUBSET Rows /\ p \in Programs /\ p \in Running
  BY Typed DEF Commit, Open, Continues
<1>2. lock[c] = t
  BY <1>1 DEF Holds
<1>3. p.mode # "lock" /\ p.mode # "create"
  BY <1>1, <1>2 DEF Holds
<1>4. p.mode = "none" /\ p.on = (IF c \in Merchants THEN "merchant" ELSE "mandate")
  BY <1>1, <1>3, ProgramFacts DEF Holds
<1>5. \E n \in DOMAIN p.kinds : p.kinds[n] = r.kind
  BY <1>1 DEF Holds
<1>6. r.kind \in Kinds
  BY <1>1 DEF Rows
<1>7. QED
  BY <1>1, <1>4, <1>5, <1>6 DEF UnlockedKinds

(* The head a holder of the row has read is overtaken only by entries of   *)
(* programs that do not lock it.                                           *)
THEOREM HoldersLoseOnlyToUnlocked == Spec => []HolderLosesOnlyToUnlocked
<1>1. Init => HolderLosesOnlyToUnlocked
  BY DEF Init, Idle, HolderLosesOnlyToUnlocked
<1>2. ASSUME IInv, IInv', HolderLosesOnlyToUnlocked, [Next]_vars
      PROVE  HolderLosesOnlyToUnlocked'
  <2> SUFFICES ASSUME NEW t \in Txns, txn'[t].pc = "insert", txn'[t].program.mode = "lock",
                      NEW r \in ledger'[txn'[t].chain], r.seq > txn'[t].head.seq
               PROVE  r.kind \in UnlockedKinds(txn'[t].chain)
    BY DEF HolderLosesOnlyToUnlocked, UnlockedKinds
  <2>0. txn \in [Txns -> TxnStates] /\ ledger \in [Chains -> SUBSET Rows]
    BY <1>2 DEF IInv, TypeOK
  <2>1. ASSUME txn'[t] = txn[t], UNCHANGED ledger
        PROVE  r.kind \in UnlockedKinds(txn'[t].chain)
    BY <1>2, <2>1 DEF HolderLosesOnlyToUnlocked
  <2>2. ASSUME NEW u \in Txns, NEW p \in Running, NEW c \in Chains, Begin(u, p, c)
        PROVE  r.kind \in UnlockedKinds(txn'[t].chain)
    <3>1. u # t
      BY <2>0, <2>2 DEF Begin
    <3>2. QED
      BY <2>0, <2>1, <2>2, <3>1 DEF Begin
  <2>3. ASSUME NEW u \in Txns, LockRow(u)
        PROVE  r.kind \in UnlockedKinds(txn'[t].chain)
    <3>1. u # t
      BY <2>0, <2>3 DEF LockRow, TxnStates
    <3>2. QED
      BY <2>0, <2>1, <2>3, <3>1 DEF LockRow
  <2>4. ASSUME NEW u \in Txns, readHead(u)
        PROVE  r.kind \in UnlockedKinds(txn'[t].chain)
    <3>1. CASE u = t
      <4>1. /\ txn'[t].head = Tip(Seen(t)) /\ txn'[t].chain = txn[t].chain /\ ledger' = ledger
            /\ Open(t)
        BY <2>0, <2>4, <3>1 DEF readHead, Seen, Open, TxnStates
      <4>2. Seen(t) \in SUBSET Rows /\ Chained(Seen(t)) /\ r \in Seen(t)
        BY <1>2, <4>1, Typed DEF Continues, Seen
      <4>3. r.seq <= Tip(Seen(t)).seq /\ Tip(Seen(t)).seq \in Int /\ r.seq \in Int
        BY <4>2, TipIsLast, RowFields DEF Tips
      <4>4. QED
        BY <4>1, <4>3
    <3>2. CASE u # t
      BY <2>0, <2>1, <2>4, <3>2 DEF readHead
    <3>3. QED
      BY <3>1, <3>2
  <2>5. ASSUME NEW u \in Txns, insertEntry(u)
        PROVE  r.kind \in UnlockedKinds(txn'[t].chain)
    <3>1. u # t
      <4> DEFINE next == IF Len(txn[u].left) = 1 THEN "commit" ELSE "read"
      <4>1. txn' = [txn EXCEPT ![u] = [txn[u] EXCEPT
              !.written = txn[u].written \cup {NextRow(u)}, !.left = Tail(txn[u].left),
              !.pc = next]]
        BY <2>5 DEF insertEntry
      <4>2. next # "insert"
        OBVIOUS
      <4> HIDE DEF next
      <4>3. txn'[u].pc = next
        BY <2>0, <4>1 DEF TxnStates
      <4>4. QED
        BY <4>2, <4>3
    <3>2. QED
      BY <2>0, <2>1, <2>5, <3>1 DEF insertEntry
  <2>6. ASSUME NEW u \in Txns, Rollback(u)
        PROVE  r.kind \in UnlockedKinds(txn'[t].chain)
    <3>1. u # t
      BY <2>0, <2>6 DEF Rollback, Idle
    <3>2. QED
      BY <2>0, <2>1, <2>6, <3>1 DEF Rollback
  <2>7. ASSUME NEW u \in Txns, Commit(u)
        PROVE  r.kind \in UnlockedKinds(txn'[t].chain)
    <3>1. u # t
      BY <2>0, <2>7 DEF Commit, Idle
    <3>2. txn'[t] = txn[t]
      BY <2>0, <2>7, <3>1 DEF Commit
    <3>3. PICK c \in Chains : c = txn[u].chain
      BY <1>2, <2>7, Typed DEF Commit, Open
    <3>4. txn[t].chain \in Chains
      BY <1>2, <3>2, Typed DEF Open
    <3>5. ledger' = [ledger EXCEPT ![c] = ledger[c] \cup txn[u].written]
      BY <2>7, <3>3 DEF Commit
    <3>6. r \in ledger[txn[t].chain] \/ (r \in txn[u].written /\ txn[t].chain = c)
      BY <2>0, <3>2, <3>4, <3>5
    <3>7. CASE r \in ledger[txn[t].chain]
      BY <1>2, <3>2, <3>7 DEF HolderLosesOnlyToUnlocked
    <3>8. CASE r \in txn[u].written /\ txn[t].chain = c
      BY <1>2, <2>7, <3>1, <3>2, <3>3, <3>8, CommitsBesideHolder
    <3>9. QED
      BY <3>6, <3>7, <3>8
  <2>8. Anchor => txn' = txn /\ ledger' = ledger
    BY DEF Anchor, listChainIds, VerifyNext, ReadVerifiedHead, InsertAnchor, CrashJob
  <2>9. UNCHANGED vars => txn' = txn /\ ledger' = ledger
    BY DEF vars
  <2>10. \A u \in Txns : RejectEntry(u) => Rollback(u)
    BY DEF RejectEntry
  <2>11. QED
    BY <1>2, <2>1, <2>2, <2>3, <2>4, <2>5, <2>6, <2>7, <2>8, <2>9, <2>10 DEF Next, Proceed
<1>3. QED
  BY <1>1, <1>2, LedgerIsKept, PTL DEF Spec
=============================================================================
