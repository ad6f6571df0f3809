---------------------------- MODULE LandingLedger ----------------------------
(***************************************************************************)
(* What a LandingBook promises, without maps, channels or clocks: a        *)
(* transaction is registered at most once, leaves the pending set at most  *)
(* once, and the tally of its endpoint grows by one exactly when it leaves *)
(* as won.                                                                 *)
(***************************************************************************)
EXTENDS Naturals

CONSTANTS Signatures, Names, ProviderOf

VARIABLES
  pending,    \* registered, outcome open
  won,        \* credited to their endpoint
  forfeited,  \* given up: observed, but not credited
  wins        \* tally per endpoint name

ledgerVars == <<pending, won, forfeited, wins>>

Init ==
  /\ pending = {}
  /\ won = {}
  /\ forfeited = {}
  /\ wins = [p \in Names |-> 0]

Enter(s) ==
  /\ s \notin pending \cup won \cup forfeited
  /\ pending' = pending \cup {s}
  /\ UNCHANGED <<won, forfeited, wins>>

Win(s) ==
  /\ s \in pending
  /\ pending' = pending \ {s}
  /\ won' = won \cup {s}
  /\ wins' = [wins EXCEPT ![ProviderOf[s]] = @ + 1]
  /\ UNCHANGED forfeited

Forfeit(s) ==
  /\ s \in pending
  /\ pending' = pending \ {s}
  /\ forfeited' = forfeited \cup {s}
  /\ UNCHANGED <<won, wins>>

Next == \E s \in Signatures : Enter(s) \/ Win(s) \/ Forfeit(s)

Spec == Init /\ [][Next]_ledgerVars
=============================================================================
