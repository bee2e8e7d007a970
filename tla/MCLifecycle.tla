----------------------------- MODULE MCLifecycle -----------------------------
(***************************************************************************)
(* Two TLDs, two machine labels and two team root contents, one of them good  *)
(* for the suffix.                                                           *)
(***************************************************************************)
EXTENDS Lifecycle

MCScope == [r \in Roots |-> IF r = "wide" THEN {} ELSE PeerSuffixes]
MCUnder == {<<"s1", "lan">>}
=============================================================================
