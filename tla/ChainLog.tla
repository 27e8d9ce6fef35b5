------------------------------ MODULE ChainLog ------------------------------
(***************************************************************************)
(* What the ledger promises its readers: each chain is a log, it opens     *)
(* with what may open it, and it changes only when a transaction commits,  *)
(* by all the entries of that transaction at its end, next to each other.  *)
(***************************************************************************)
EXTENDS Sequences

CONSTANTS Chains, Batches, Opening

VARIABLE log

LogInit == log = [c \in Chains |-> <<>>]

CommitBatch(c) ==
  \E b \in Batches :
    /\ log[c] = <<>> => b \in Opening[c]
    /\ log' = [log EXCEPT ![c] = @ \o b]

LogNext == \E c \in Chains : CommitBatch(c)

LogSpec == LogInit /\ [][LogNext]_log
=============================================================================
