------------------------------ MODULE MCBroker ------------------------------
(* Small instances of Broker for TLC. *)
EXTENDS BrokerRefinement, FiniteSets, TLC

CONSTANTS r1, r2, f1, f2, c1, c2

Symmetry == Permutations(Requests) \cup Permutations(Flows)
              \cup Permutations(Caps)

(* Bound: one flow has expired at most, and a boot that has come upon a    *)
(* failure, a suspension or a revocation is not followed further once it   *)
(* has two flows.  The states at the bound are checked.                    *)
OneTroubleAtATime ==
  /\ Cardinality(expired) <= 1
  /\ phase = "up" /\ (~Guard \/ op.pc = "revoke") =>
       Cardinality({f \in Flows : flows[f].st # "none"}) <= 1
=============================================================================
