------------------------------- MODULE MemoTag -------------------------------
(***************************************************************************)
(* The tag by which a landed transaction is attributed: random_ix_payload  *)
(* puts "name|random" into a memo instruction, record_landing takes the    *)
(* part before the first bar out again.                                    *)
(*                                                                         *)
(* A name or memo is the sequence of its segments between '|' (<<"rpc">>   *)
(* for a name without one): the bar is the only character on which the     *)
(* program branches.  The random part is base58, which has no bar.         *)
(***************************************************************************)
EXTENDS Sequences

\* format!("{provider}|{random}")
Tagged(provider, random) == Append(provider, random)

\* memo.split_once('|'), or the whole memo when it has no bar.
ObservedProvider(memo) == <<memo[1]>>
=============================================================================
