-------------------------- MODULE GovernedEffects --------------------------
(***************************************************************************)
(* What the broker promises, without flows, capabilities, ledgers or       *)
(* crashes: a request id is claimed before it runs, it is claimed and run  *)
(* at most once, and nothing runs between a kill and the next boot.        *)
(***************************************************************************)
EXTENDS Naturals

CONSTANT Requests

VARIABLES
  claimed,  \* request ids that may never start again
  runs,     \* how often each request id had its effect
  fenced    \* a kill is in force

vars == <<claimed, runs, fenced>>

Init ==
  /\ claimed = {}
  /\ runs = [r \in Requests |-> 0]
  /\ fenced = FALSE

Claim(r) ==
  /\ r \notin claimed /\ ~fenced
  /\ claimed' = claimed \cup {r}
  /\ UNCHANGED <<runs, fenced>>

Run(r) ==
  /\ r \in claimed /\ runs[r] = 0 /\ ~fenced
  /\ runs' = [runs EXCEPT ![r] = 1]
  /\ UNCHANGED <<claimed, fenced>>

Fence == fenced' = TRUE /\ UNCHANGED <<claimed, runs>>
Boot  == fenced' = FALSE /\ UNCHANGED <<claimed, runs>>

Next == (\E r \in Requests : Claim(r) \/ Run(r)) \/ Fence \/ Boot

Spec == Init /\ [][Next]_vars
=============================================================================
