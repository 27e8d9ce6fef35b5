------------------------------- MODULE Paise --------------------------------
(***************************************************************************)
(* SELECT SUM(amount_paise) over a set of rows.  The sum is counted paisa  *)
(* by paisa: row k contributes the pairs <<k, 1>>, ..., <<k, amount[k]>>,  *)
(* and the total is the number of pairs.  It is the same number as folding *)
(* + over the rows (MCAuthorization assumes so, and TLC evaluates it on    *)
(* every table of three rows), without a recursion: what adding or removing*)
(* a row does to it follows from the theorems about finite sets            *)
(* (module AuthorizationTheorems).                                         *)
(***************************************************************************)
EXTENDS Integers, FiniteSets

PaiseOf(amount, k) == {k} \X (1..amount[k])

Total(amount, rows) == Cardinality(UNION {PaiseOf(amount, k) : k \in rows})
=============================================================================
