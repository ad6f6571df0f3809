---------------------------- MODULE MCLandingBook ----------------------------
(***************************************************************************)
(* A small instance of LandingBook and of the report on it for TLC: three  *)
(* endpoints, one of which sends twice, and two round ids.                 *)
(***************************************************************************)
EXTENDS LandingSummary, TLC

CONSTANTS s1, s2, s3, s4

MCSignatures == {s1, s2, s3, s4}

\* One endpoint is named "rpc|fra", the others as in example.config.toml.
BarredNames == {<<"rpc", "fra">>, <<"jito">>, <<"soyas">>}
BarredProviderOf ==
  (s1 :> <<"rpc", "fra">>) @@ (s2 :> <<"jito">>) @@ (s3 :> <<"jito">>)
    @@ (s4 :> <<"soyas">>)
=============================================================================
