------------------------------ MODULE MCConsent ------------------------------
(***************************************************************************)
(* An instance of Instrument, and with it of Consent.                      *)
(***************************************************************************)
EXTENDS Instrument, TLC

CONSTANTS s1, s2, v1, v2, v3, p1, a1, a2

(* A request comes with an address alone, which is not the one the         *)
(* merchant may name, or with a shopper alone.                             *)
MCReferrals == {<<None, a2>>, <<p1, None>>}
MCBindings == {<<p1, a1>>}

(* Nothing tells submissions and set-ups apart but their names.            *)
Interchangeable == Permutations(Submissions) \cup Permutations(Begins)
=============================================================================
