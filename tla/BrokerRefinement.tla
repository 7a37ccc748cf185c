-------------------------- MODULE BrokerRefinement --------------------------
(***************************************************************************)
(* Broker implements GovernedEffects: a request id is claimed when its     *)
(* request_executed record is on disk, and it runs when a tool does.       *)
(* MemoryIsReplay relates the broker's memory to a replay of the ledger.   *)
(***************************************************************************)
EXTENDS Broker

ClaimedIds == {r \in Requests : Claimed(r)}

Promise == INSTANCE GovernedEffects
             WITH claimed <- ClaimedIds, runs <- effects, fenced <- fenced

(* Every behaviour of the broker, crashes, failing logs and kills included, *)
(* is one of at-most-once, claim-before-run effects (broker.rs:571-779).    *)
ImplementsPromise == Promise!Spec

(* What a boot rebuilds from a log: no flow, no capability and no request  *)
(* id to start with, then one record after the other.  Rebuilt(log)[n] is   *)
(* the memory after the first n records.                                   *)
Blank == [flows |-> [f \in Flows |-> NoFlowRec],
          caps |-> [c \in Caps |-> NoCapRec], executed |-> {}]

Replayed(mem, rec) == [flows |-> ReplayFlow(mem.flows, rec),
                       caps |-> ReplayCap(mem.caps, rec),
                       executed |-> ReplayExecuted(mem.executed, rec)]

Rebuilt(log) ==
  LET mem[n \in 0 .. Len(log)] ==
        IF n = 0 THEN Blank ELSE Replayed(mem[n - 1], log[n])
  IN  mem

Restored == Rebuilt(wal)[Len(wal)]

(* A flow restores as memory has it, except for one that was purged.       *)
Restores(f) ==
  \/ flows[f] = Restored.flows[f]
  \/ /\ f \in expired
     /\ flows[f].st = DENIED /\ Restored.flows[f].st = PENDING

(* Between calls, a boot from the present ledger would restore exactly the *)
(* memory of the running broker, so a crash loses nothing but the call it  *)
(* interrupts.  The one difference the code leaves: a flow purged at its   *)
(* expiry is not logged, and restores as pending (approval.rs:364-371).    *)
MemoryIsReplay ==
  MayCall /\ walOk /\ recoveryOk =>
    /\ caps = Restored.caps
    /\ executed = Restored.executed
    /\ \A f \in Flows : Restores(f)
=============================================================================
