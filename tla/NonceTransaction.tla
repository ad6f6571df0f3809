--------------------------- MODULE NonceTransaction ---------------------------
(***************************************************************************)
(* The transaction each endpoint is sent, as functions: what               *)
(* validate_config asks of a configuration, what build_instructions makes  *)
(* of an endpoint of it, and what extract_memo finds in it again when the  *)
(* transaction comes back on the stream.                                   *)
(*                                                                         *)
(* Addresses, keys and api keys are "good" (they parse) or "bad"; an       *)
(* absent Option is None and lamports are small numbers.                   *)
(***************************************************************************)
EXTENDS Integers, Sequences, FiniteSets, MemoTag

None == "none"

\* config::Endpoint and the part of config::Config that decides anything
\* before the first round.  No tip_lamports is 0: both uses of the Option
\* treat the two alike.
Endpoint ==
  [name : Seq(STRING), kind : {"rpc", "custom", "soyas"}, tip_lamports : Nat,
   tip_wallet : {None, "good", "bad"}, api_key : {None, "good", "bad"}]
Configuration ==
  [private_key : {"good", "bad"}, nonce_account : {"good", "bad"},
   prio_fee : Int, endpoint : Seq(Endpoint)]

Tips(endpoint) == endpoint.kind \in {"custom", "soyas"}

\* validate_config: one endpoint at least, and what each kind must set.
WalletUnchecked(endpoint) ==
  CASE endpoint.kind = "rpc"    -> TRUE
    [] endpoint.kind = "custom" -> endpoint.tip_lamports > 0
    [] endpoint.kind = "soyas"  -> endpoint.api_key # None /\ endpoint.tip_lamports > 0
Complete(endpoint) ==
  CASE endpoint.kind = "rpc"    -> TRUE
    [] endpoint.kind = "custom" -> /\ endpoint.tip_lamports > 0
                                   /\ endpoint.tip_wallet # None
    [] endpoint.kind = "soyas"  -> /\ endpoint.api_key # None
                                   /\ endpoint.tip_lamports > 0
                                   /\ endpoint.tip_wallet # None

ValidConfig(config) ==
  /\ config.endpoint # <<>>
  /\ \A i \in DOMAIN config.endpoint : Complete(config.endpoint[i])
-----------------------------------------------------------------------------
(***************************************************************************)
(* build_instructions                                                      *)
(***************************************************************************)
Instruction(program, op, data) == [program |-> program, op |-> op, data |-> data]

AdvanceNonce == <<Instruction("system", "advance_nonce", <<>>)>>

\* Price and limit go together.
ComputeBudget(prio_fee) ==
  IF prio_fee > 0
  THEN <<Instruction("compute_budget", "price", <<prio_fee>>),
         Instruction("compute_budget", "limit", <<>>)>>
  ELSE <<>>

\* random_ix_payload: blake3 of the provider, the clock and RANDOM_COUNTER,
\* taken as injective.
WithoutCounter(provider, clock, counter) == Tagged(provider, <<provider, clock>>)
RandomPayload(provider, clock, counter) ==
  Tagged(provider, <<provider, clock, counter>>)

Memo(payload) == <<Instruction("memo", "memo", payload)>>

\* The tip, or the error that keeps the transaction from being built.
Tip(endpoint) ==
  IF Tips(endpoint) /\ endpoint.tip_lamports > 0
  THEN <<Instruction("system", "transfer", <<endpoint.tip_wallet, endpoint.tip_lamports>>)>>
  ELSE <<>>
TipError(endpoint) ==
  CASE Tips(endpoint) /\ endpoint.tip_lamports > 0 /\ endpoint.tip_wallet = None ->
         "missing tip_wallet"
    [] Tips(endpoint) /\ endpoint.tip_lamports > 0 /\ endpoint.tip_wallet = "bad" ->
         "invalid tip_wallet"
    [] OTHER -> None

BuildInstructions(endpoint, prio_fee, payload) ==
  AdvanceNonce \o ComputeBudget(prio_fee) \o Memo(payload) \o Tip(endpoint)

\* Message::new (external) lists the accounts once each, program ids among
\* them, and instructions refer to their program by its index there.
Message(instructions, nonce_hash) ==
  LET programs == {instructions[i].program : i \in DOMAIN instructions}
      keys     == CHOOSE k \in [1..Cardinality(programs) -> programs] :
                    \A program \in programs : \E i \in DOMAIN k : k[i] = program
  IN [recent_blockhash |-> nonce_hash,
      account_keys     |-> keys,
      instructions     |-> [i \in DOMAIN instructions |->
        [program_id_index |-> CHOOSE j \in DOMAIN keys : keys[j] = instructions[i].program,
         op               |-> instructions[i].op,
         data             |-> instructions[i].data]]]
-----------------------------------------------------------------------------
\* extract_memo: the data of the first instruction of the memo program, if
\* any.  (An index outside the keys is passed over, as is data that is not
\* UTF-8: our messages have neither.)
FirstInstruction(message) == <<message.instructions[1].data>>
ExtractMemo(message) ==
  LET memos == {i \in DOMAIN message.instructions :
                 LET index == message.instructions[i].program_id_index
                 IN index \in DOMAIN message.account_keys /\ message.account_keys[index] = "memo"}
      first == CHOOSE i \in memos : \A j \in memos : i <= j
  IN IF memos = {} THEN <<>> ELSE <<message.instructions[first].data>>
=============================================================================
