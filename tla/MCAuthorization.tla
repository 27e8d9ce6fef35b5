--------------------------- MODULE MCAuthorization ---------------------------
(***************************************************************************)
(* Instances of Authorization.  Amounts are in units of the smallest       *)
(* purchase; the agent, merchant, basket and category are the good ones    *)
(* except in the requests built to be refused.                             *)
(***************************************************************************)
EXTENDS Authorization, TLC

CONSTANTS m1, m2, i1, i2, i3, q1, q2, q3, n1, n2, n3

MCTerms(notAfter, cap, velocity, silent) ==
  [agent |-> "a1", authEvent |-> TRUE, notBefore |-> 0, notAfter |-> notAfter,
   perTransaction |-> 2, cumulative |-> cap, velocity |-> velocity, window |-> 2,
   silentThreshold |-> silent, merchants |-> {"shop"}, categories |-> {"food"}]

MCQuote(m, amount, expires) ==
  [mandate |-> m, amount |-> amount, expires |-> expires, basket |-> "b",
   categories |-> {"food"}]

MCRequest(i, m, q, n, amount) ==
  [intent |-> i, mandate |-> m, quote |-> q, presented |-> q, nonce |-> n,
   agent |-> "a1", signed |-> TRUE, merchant |-> "shop", amount |-> amount,
   basket |-> "b", expires |-> 9]

HandlerSymmetry == Permutations(Handlers)

Sets == INSTANCE FiniteSetsExt

(* Total, which counts paisa by paisa, is the sum of the rows' amounts. *)
ASSUME TotalIsSum ==
  \A amount \in [{i1, i2, i3} -> 0..3], rows \in SUBSET {i1, i2, i3} :
    Total(amount, rows) = Sets!MapThenSumSet(LAMBDA k : amount[k], rows)

(* Three purchases of 2, 1 and 1 against a cap of 2 in two ticks and one   *)
(* per tick: each limit refuses pairs the other lets pass.  The amounts    *)
(* are silent and the merchant is known, so none needs a human.            *)
RaceTerms == [m \in Mandates |-> MCTerms(9, 2, 1, 2)]
RaceQuotes == [q \in Quotes |-> MCQuote(m1, IF q = q1 THEN 2 ELSE 1, 9)]
RacePast == {<<m1, "shop">>}
RaceRequests ==
  {MCRequest(i1, m1, q1, n1, 2), MCRequest(i2, m1, q2, n2, 1),
   MCRequest(i3, m1, q3, n3, 1)}

(* A purchase over the silent threshold on a mandate that expires; it is   *)
(* replayed with its nonce, and with a fresh nonce and a second quote.     *)
StepUpTerms == [m \in Mandates |-> MCTerms(3, 2, 2, 0)]
StepUpQuotes == [q \in Quotes |-> MCQuote(m1, 1, 9)]
StepUpRequests ==
  {MCRequest(i1, m1, q1, n1, 1), MCRequest(i1, m1, q2, n1, 1),
   MCRequest(i1, m1, q2, n2, 1)}

(* Two mandates, a nonce and an intent id shared across them, a quote of   *)
(* one presented for the other, a stored quote that is not the presented   *)
(* one, a wrong amount, an unknown mandate and a bad signature.  Only m1   *)
(* has bought at the shop before, and m2 starts one tick later.            *)
SharedTerms ==
  (m1 :> MCTerms(9, 2, 2, 1)) @@ (m2 :> [MCTerms(9, 2, 2, 1) EXCEPT !.notBefore = 1])
SharedQuotes == (q1 :> MCQuote(m1, 1, 2)) @@ (q2 :> MCQuote(m2, 2, 9))
SharedRequests ==
  {MCRequest(i1, m1, q1, n1, 1), MCRequest(i2, m2, q2, n1, 2),
   MCRequest(i1, m2, q2, n2, 2), MCRequest(i2, m2, q1, n2, 1),
   [MCRequest(i2, m1, q2, n2, 1) EXCEPT !.presented = q1],
   MCRequest(i2, m1, q1, n2, 2), MCRequest(i1, "unknown", q1, n2, 1),
   [MCRequest(i2, m1, q1, n2, 1) EXCEPT !.signed = FALSE]}

(* One purchase, escalated when the shop is new to the mandate.            *)
OneRequest == {MCRequest(i1, m1, q1, n1, 1)}
FirstPurchase == {}
=============================================================================
