-------------------------- MODULE MCSignatureRace --------------------------
(***************************************************************************)
(* SignatureRace for TLC: two providers; each kind meets another, and the  *)
(* one that reads batches meets one that does not and itself.              *)
(***************************************************************************)
EXTENDS SignatureRace, TLC

CONSTANTS p1, p2

TwoProviders == {p1, p2}
Pair(k1, k2) == (p1 :> k1) @@ (p2 :> k2)
KindPairs ==
  {Pair("thor", "shredstream"), Pair("shredstream", "shredstream"),
   Pair("arpc", "shreder"), Pair("jetstream", "thor")}
=============================================================================
