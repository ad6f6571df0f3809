------------------------------ MODULE MCStartUp ------------------------------
(***************************************************************************)
(* StartUp for TLC: every configuration of one endpoint, with the settings *)
(* outside the endpoints good, and some of none or two endpoints or with   *)
(* bad settings.                                                           *)
(***************************************************************************)
EXTENDS StartUp, TLC

AnyEndpoint ==
  [name : {<<"rpc">>, <<"rpc", "fra">>}, kind : {"rpc", "custom", "soyas"},
   tip_lamports : {0, 5}, tip_wallet : {None, "good", "bad"},
   api_key : {None, "good", "bad"}]
With(key, account, fee, endpoints) ==
  [private_key |-> key, nonce_account |-> account, prio_fee |-> fee,
   endpoint |-> endpoints]

Rpc    == RpcEndpoint("rpc")
Custom == [Rpc EXCEPT !.name = <<"jito">>, !.kind = "custom",
                      !.tip_lamports = 5, !.tip_wallet = "good"]
Soyas  == [Custom EXCEPT !.name = <<"soyas">>, !.kind = "soyas", !.api_key = "good"]

MCConfigurations ==
  {With("good", "good", 1, <<e>>) : e \in AnyEndpoint}
    \cup {With("good", "good", fee, es) : fee \in {-1, 0, 1},
            es \in {<<>>, <<Rpc, Custom>>, <<Soyas, Rpc>>, <<Custom, Custom>>,
                    <<Rpc, [Soyas EXCEPT !.tip_wallet = "bad"]>>}}
    \cup {With("bad", "good", 0, <<Rpc>>), With("good", "bad", 0, <<Rpc>>)}
=============================================================================
