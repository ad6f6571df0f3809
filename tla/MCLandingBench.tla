--------------------------- MODULE MCLandingBench ---------------------------
(***************************************************************************)
(* Small instances of LandingBench for TLC: two or three endpoints.        *)
(***************************************************************************)
EXTENDS LandingBench, TLC

CONSTANTS rpc, jito, soyas

MCEndpoints == {rpc, jito}
ThreeEndpoints == {rpc, jito, soyas}
DistinctNames == (rpc :> <<"rpc">>) @@ (jito :> <<"jito">>)
ThreeNames == DistinctNames @@ (soyas :> <<"soyas">>)
=============================================================================
