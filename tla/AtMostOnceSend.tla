--------------------------- MODULE AtMostOnceSend ---------------------------
(***************************************************************************)
(* What a caller of SoyasClient::send_transaction may rely on: the server  *)
(* gets a transaction at most once although the client retries, and never  *)
(* after the call returned an error.  An Ok promises no arrival.           *)
(***************************************************************************)
EXTENDS Naturals

CONSTANT Sends

VARIABLES
  outcome,  \* send -> "pending", "ok" or "err"
  copies    \* send -> how many copies the server has read

vars == <<outcome, copies>>

Init ==
  /\ outcome = [s \in Sends |-> "pending"]
  /\ copies = [s \in Sends |-> 0]

Arrive(s) ==
  /\ outcome[s] # "err"
  /\ copies[s] = 0
  /\ copies' = [copies EXCEPT ![s] = 1]
  /\ UNCHANGED outcome

ReturnOk(s) ==
  /\ outcome[s] = "pending"
  /\ outcome' = [outcome EXCEPT ![s] = "ok"]
  /\ UNCHANGED copies

ReturnErr(s) ==
  /\ outcome[s] = "pending"
  /\ copies[s] = 0
  /\ outcome' = [outcome EXCEPT ![s] = "err"]
  /\ UNCHANGED copies

Next == \E s \in Sends : Arrive(s) \/ ReturnOk(s) \/ ReturnErr(s)

Spec == Init /\ [][Next]_vars
=============================================================================
