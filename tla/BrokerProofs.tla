---------------------------- MODULE BrokerProofs ----------------------------
(***************************************************************************)
(* Theorems about Broker, for every set of requests, flows and             *)
(* capabilities, any number of crashes and any pattern of log failures:    *)
(* the types; a request id has at most one effect, and its claim is on the *)
(* ledger before it; an effect under a flow has a logged approval; nothing *)
(* runs after a kill; a flow is granted one capability over all boots; a   *)
(* denial that was returned is final as long as the ledger takes every     *)
(* append; the broker implements GovernedEffects; and between calls its    *)
(* memory is what a boot would rebuild from the ledger.                    *)
(***************************************************************************)
EXTENDS BrokerRefinement, FiniteSetTheorems, SequenceTheorems, TLAPS

(* The groups of variables an action leaves alone.                         *)
USE NoneAssumption, BoundAssumption DEF
  vars, host, health, memory, history,
  PENDING, AUTHORIZED, EXECUTING, COMPLETED, UNKNOWN, DENIED

(* What one append may do to the ledger: nothing, or one more record at    *)
(* its end; and an append that reports success has stored its record.      *)
LEMMA WalEmitEffect ==
  ASSUME NEW rec, WalEmit(rec), walOk \in BOOLEAN
  PROVE  /\ wal' = wal \/ wal' = Append(wal, rec)
         /\ walOk' \in BOOLEAN
         /\ walOk' => walOk /\ wal' = Append(wal, rec)
<1>1. wal' = wal \/ wal' = Append(wal, rec)
  BY DEF WalEmit
<1>2. walOk' \in BOOLEAN
  BY DEF WalEmit
<1>3. walOk' => walOk /\ wal' = Append(wal, rec)
  BY Zenon DEF WalEmit
<1> QED BY <1>1, <1>2, <1>3

(* The ledger keeps its type when it grows by a well-formed record.        *)
LEMMA WalType ==
  ASSUME NEW rec \in WalRec, WellFormed(rec), WalEmit(rec),
         WalTyped, walOk \in BOOLEAN
  PROVE  WalTyped' /\ walOk' \in BOOLEAN
<1> USE DEF WalTyped
<1>1. CASE wal' = wal
  BY <1>1, WalEmitEffect
<1>2. CASE wal' = Append(wal, rec)
  <2>1. wal' \in Seq(WalRec) /\ Len(wal') = Len(wal) + 1
    BY <1>2
  <2>2. ASSUME NEW i \in DOMAIN wal' PROVE WellFormed(wal'[i])
    BY <1>2, <2>1
  <2> QED BY <2>1, <2>2, WalEmitEffect
<1> QED BY <1>1, <1>2, WalEmitEffect

(* An append never loses a record.                                         *)
LEMMA WalGrows ==
  ASSUME NEW rec, WalEmit(rec), wal \in Seq(WalRec), walOk \in BOOLEAN,
         NEW old, Logged(old)
  PROVE  Logged(old)'
<1>1. PICK i \in DOMAIN wal : wal[i] = old
  BY DEF Logged
<1>2. i \in DOMAIN wal' /\ wal'[i] = wal[i]
  <2>1. CASE wal' = wal
    BY <2>1
  <2>2. CASE wal' = Append(wal, rec)
    BY <2>2
  <2> QED BY <2>1, <2>2, WalEmitEffect
<1> QED BY <1>1, <1>2 DEF Logged

(* The record of a successful append is on the ledger.                     *)
LEMMA WalStores ==
  ASSUME NEW rec, WalEmit(rec), walOk', wal \in Seq(WalRec),
         walOk \in BOOLEAN
  PROVE  Logged(rec)'
<1>1. wal' = Append(wal, rec)
  BY WalEmitEffect
<1>2. Len(wal) + 1 \in DOMAIN wal' /\ wal'[Len(wal) + 1] = rec
  BY <1>1
<1> QED BY <1>2 DEF Logged

(* The eight kinds of record have the type of a record.                    *)
LEMMA RecordTyping ==
  LET Good(rec) == rec \in WalRec /\ WellFormed(rec)
  IN  /\ \A f \in Flows, r \in Requests : Good(FlowRequest(f, r))
      /\ \A f \in Flows, s \in FlowStates :
           Good(FlowResolution(f, s)) /\ Good(FlowOutcome(f, s))
      /\ \A f \in Flows : Good(FlowExecuting(f))
      /\ \A f \in Flows \cup {NoFlow}, c \in Caps, r \in Requests :
           Good(CapIssued(c, r, f))
      /\ \A c \in Caps, r \in Requests :
           Good(CapUsed(c, r)) /\ Good(CapRevoked(c, r))
      /\ \A r \in Requests : Good(RequestExecuted(r))
BY DEF Rec, WalRec, WellFormed, RecordTypes, FlowStates, FlowRequest,
       FlowResolution, FlowExecuting, FlowOutcome, CapIssued, CapUsed,
       CapRevoked, RequestExecuted

-----------------------------------------------------------------------------
(* Type correctness.  The parts of the type are disturbed by few actions   *)
(* each, so a step proves only the parts its action writes.                *)
LEMMA KeptWal == ASSUME WalTyped, UNCHANGED wal PROVE WalTyped'
BY DEF WalTyped

(* Memory keeps its type in a step that does not write it: a refused call, *)
(* an audit record.                                                        *)
LEMMA KeptMemory == ASSUME MemoryTyped, UNCHANGED memory PROVE MemoryTyped'
BY DEF MemoryTyped

(* So does the call in flight, in a step of another thread.                *)
LEMMA KeptCall == ASSUME CallTyped, UNCHANGED op PROVE CallTyped'
BY DEF CallTyped

(* A call that gives the lock back leaves the idle call behind.            *)
LEMMA ReleasedCall == ASSUME Release PROVE CallTyped'
BY DEF Release, CallTyped, Idle, CallStages, Outcomes

(* The history keeps its type while no tool runs and no flow is denied.    *)
LEMMA KeptHistory ==
  ASSUME HistoryTyped, UNCHANGED <<expired, effects, ran, denied>>
  PROVE  HistoryTyped'
BY DEF HistoryTyped

(* An audit append leaves the log open or closed.                          *)
LEMMA AuditType ==
  ASSUME auditOk \in BOOLEAN, AuditEmit PROVE auditOk' \in BOOLEAN
BY DEF AuditEmit

(* A decision keeps the type of the flows it purges and sets.               *)
LEMMA ResolvedType ==
  ASSUME MemoryTyped, NEW f \in Flows, NEW s \in FlowStates,
         flows[f].st = PENDING, flows' = Resolved(f, s),
         UNCHANGED <<caps, executed>>
  PROVE  MemoryTyped'
BY DEF MemoryTyped, Resolved, Purge, FlowRec, FlowStates

(* The three ways a capability's record changes keep its type.             *)
LEMMA CapMarkType ==
  ASSUME NEW k \in CapRec
  PROVE  /\ [k EXCEPT !.used = TRUE] \in CapRec
         /\ [k EXCEPT !.revoked = TRUE] \in CapRec
         /\ [k EXCEPT !.used = TRUE].rid = k.rid
         /\ [k EXCEPT !.used = TRUE].st = k.st
         /\ [k EXCEPT !.revoked = TRUE].rid = k.rid
         /\ [k EXCEPT !.revoked = TRUE].st = k.st
BY DEF CapRec

(* The record that issuing a capability stores is a capability.            *)
LEMMA CapIssueType ==
  ASSUME NEW r \in Requests, NEW f \in Flows \cup {NoFlow}
  PROVE  LET k == [NoCapRec EXCEPT !.st = "issued", !.rid = r, !.flow = f]
         IN  k \in CapRec /\ k.rid = r /\ k.st = "issued"
BY DEF CapRec, NoCapRec

(* Setting one well-typed capability keeps the type of all of them.        *)
LEMMA CapsType ==
  ASSUME NEW cs \in [Caps -> CapRec],
         \A c \in Caps : cs[c].st = "issued" => cs[c].rid \in Requests,
         NEW c \in Caps, NEW k \in CapRec,
         k.st = "issued" => k.rid \in Requests
  PROVE  /\ [cs EXCEPT ![c] = k] \in [Caps -> CapRec]
         /\ \A d \in Caps : [cs EXCEPT ![c] = k][d].st = "issued"
              => [cs EXCEPT ![c] = k][d].rid \in Requests
OBVIOUS

(* Replaying a well-formed record rebuilds well-typed memory.              *)
LEMMA ReplayType ==
  ASSUME MemoryTyped, NEW rec \in WalRec, WellFormed(rec),
         flows' = ReplayFlow(flows, rec), caps' = ReplayCap(caps, rec),
         executed' = ReplayExecuted(executed, rec)
  PROVE  MemoryTyped'
<1> USE DEF MemoryTyped, WellFormed, WalRec
<1>1. flows' \in [Flows -> FlowRec]
  BY DEF ReplayFlow, FlowRec, FlowStates
<1>2. \A f \in Flows : flows'[f].st # "none" => flows'[f].rid \in Requests
  BY DEF ReplayFlow, FlowRec, FlowStates
<1>3. /\ caps' \in [Caps -> CapRec]
      /\ \A c \in Caps : caps'[c].st = "issued" => caps'[c].rid \in Requests
  <2>1. CASE rec.t = "capability_issued"
    <3> DEFINE k == [NoCapRec EXCEPT !.st = "issued", !.rid = rec.rid,
                                     !.flow = rec.flow]
    <3>1. k \in CapRec /\ k.rid \in Requests
      BY <2>1, CapIssueType
    <3>2. caps' = [caps EXCEPT ![rec.cap] = k]
      BY <2>1 DEF ReplayCap
    <3> HIDE DEF k
    <3> QED BY <2>1, <3>1, <3>2, CapsType
  <2>2. CASE rec.t = "capability_used" /\ caps[rec.cap].st = "issued"
    <3> DEFINE k == [caps[rec.cap] EXCEPT !.used = TRUE]
    <3>1. k \in CapRec /\ k.rid \in Requests
      BY <2>2, CapMarkType
    <3>2. caps' = [caps EXCEPT ![rec.cap] = k]
      BY <2>2 DEF ReplayCap
    <3> HIDE DEF k
    <3> QED BY <2>2, <3>1, <3>2, CapsType
  <2>3. CASE rec.t = "capability_revoked" /\ caps[rec.cap].st = "issued"
    <3> DEFINE k == [caps[rec.cap] EXCEPT !.revoked = TRUE]
    <3>1. k \in CapRec /\ k.rid \in Requests
      BY <2>3, CapMarkType
    <3>2. caps' = [caps EXCEPT ![rec.cap] = k]
      BY <2>3 DEF ReplayCap
    <3> HIDE DEF k
    <3> QED BY <2>3, <3>1, <3>2, CapsType
  <2>4. CASE /\ rec.t # "capability_issued"
             /\ rec.t = "capability_used" => caps[rec.cap].st # "issued"
             /\ rec.t = "capability_revoked" => caps[rec.cap].st # "issued"
    BY <2>4 DEF ReplayCap
  <2> QED BY <2>1, <2>2, <2>3, <2>4
<1>4. executed' \subseteq Requests
  BY DEF ReplayExecuted
<1> QED BY <1>1, <1>2, <1>3, <1>4

(* Before the first boot the state is well typed: no flow, no capability,  *)
(* an empty ledger.                                                        *)
THEOREM TypeInit == Init => TypeOK
<1> SUFFICES ASSUME Init PROVE TypeOK
  OBVIOUS
<1> USE DEF Init
<1>1. HostTyped
  <2>1. /\ walOk \in BOOLEAN /\ auditOk \in BOOLEAN /\ recoveryOk \in BOOLEAN
        /\ suspended \in BOOLEAN /\ fenced \in BOOLEAN
    BY Zenon
  <2> QED BY <2>1 DEF HostTyped
<1>2. WalTyped
  BY DEF WalTyped
<1>3. MemoryTyped
  BY DEF MemoryTyped, NoFlowRec, NoCapRec, FlowRec, CapRec
<1>4. CallTyped
  BY DEF CallTyped, Idle, CallStages, Outcomes
<1>5. HistoryTyped
  BY DEF HistoryTyped
<1> QED BY <1>1, <1>2, <1>3, <1>4, <1>5 DEF TypeOK

(* Every step of the broker, the operator, the watchdog and the process    *)
(* keeps the type.                                                         *)
THEOREM TypeStep == TypeOK /\ [Next]_vars => TypeOK'
<1> SUFFICES ASSUME TypeOK, [Next]_vars PROVE TypeOK'
  OBVIOUS
<1> USE DEF TypeOK
<1>1. ASSUME Refuse PROVE TypeOK'
  <2>1. HostTyped'
    BY <1>1, AuditType DEF Refuse, HostTyped
  <2> QED
    BY <1>1, <2>1, KeptWal, KeptMemory, KeptCall, KeptHistory DEF Refuse
<1>2. ASSUME NEW r \in Requests, ProposeAllowed(r) PROVE TypeOK'
  <2>1. HostTyped'
    BY <1>2 DEF ProposeAllowed, HostTyped, NoWal
  <2>2. CallTyped'
    BY <1>2 DEF ProposeAllowed, CallTyped, Idle, CallStages, Outcomes
  <2> QED
    BY <1>2, <2>1, <2>2, KeptWal, KeptMemory, KeptHistory
    DEF ProposeAllowed, NoWal
<1>3. ASSUME NEW r \in Requests, NEW f \in Flows, ProposeForApproval(r, f)
      PROVE  TypeOK'
  <2>1. HostTyped'
    BY <1>3 DEF ProposeForApproval, HostTyped, NoWal
  <2>2. CallTyped'
    BY <1>3 DEF ProposeForApproval, CallTyped, Idle, CallStages, Outcomes
  <2>3. MemoryTyped'
    BY <1>3 DEF ProposeForApproval, MemoryTyped, FlowRec, FlowStates
  <2> QED
    BY <1>3, <2>1, <2>2, <2>3, KeptWal, KeptHistory
    DEF ProposeForApproval, NoWal
<1>4. ASSUME NEW f \in Flows, ResolveUndecided(f) PROVE TypeOK'
  <2>1. HostTyped'
    BY <1>4, AuditType DEF ResolveUndecided, HostTyped, NoWal
  <2>2. MemoryTyped'
    BY <1>4 DEF ResolveUndecided, MemoryTyped, Purge, FlowRec, FlowStates
  <2> QED
    BY <1>4, <2>1, <2>2, KeptWal, KeptCall, KeptHistory
    DEF ResolveUndecided, NoWal
<1>5. ASSUME NEW f \in Flows, Approve(f) PROVE TypeOK'
  <2>1. HostTyped'
    BY <1>5 DEF Approve, HostTyped, NoWal
  <2>2. MemoryTyped'
    BY <1>5, ResolvedType DEF Approve, FlowStates
  <2>3. CallTyped'
    BY <1>5 DEF Approve, CallTyped, MemoryTyped, Idle, CallStages, Outcomes
  <2> QED
    BY <1>5, <2>1, <2>2, <2>3, KeptWal, KeptHistory DEF Approve, NoWal
<1>6. ASSUME NEW f \in Flows, Deny(f) PROVE TypeOK'
  <2>1. HostTyped'
    BY <1>6 DEF Deny, HostTyped, NoWal
  <2>2. MemoryTyped'
    BY <1>6, ResolvedType DEF Deny, FlowStates
  <2>3. CallTyped'
    BY <1>6 DEF Deny, CallTyped, MemoryTyped, Idle, CallStages, Outcomes
  <2> QED
    BY <1>6, <2>1, <2>2, <2>3, KeptWal, KeptHistory DEF Deny, NoWal
<1>7. ASSUME NEW f \in Flows, Expire(f) PROVE TypeOK'
  <2>1. HostTyped' /\ HistoryTyped'
    BY <1>7 DEF Expire, HostTyped, HistoryTyped
  <2> QED
    BY <1>7, <2>1, KeptWal, KeptMemory, KeptCall DEF Expire
<1>8. ASSUME Suspend \/ RevokeBegin PROVE TypeOK'
  <2>1. CASE Suspend
    <3>1. HostTyped'
      BY <2>1, AuditType DEF Suspend, HostTyped, NoWal
    <3> QED
      BY <2>1, <3>1, KeptWal, KeptMemory, KeptCall, KeptHistory
      DEF Suspend, NoWal
  <2>2. CASE RevokeBegin
    <3>1. HostTyped'
      BY <2>2 DEF RevokeBegin, HostTyped, NoWal
    <3>2. CallTyped'
      BY <2>2 DEF RevokeBegin, CallTyped, Idle, CallStages, Outcomes
    <3> QED
      BY <2>2, <3>1, <3>2, KeptWal, KeptMemory, KeptHistory
      DEF RevokeBegin, NoWal
  <2> QED BY <1>8, <2>1, <2>2
<1>9. ASSUME NoteRequest PROVE TypeOK'
  <2>1. WalTyped' /\ walOk' \in BOOLEAN
    BY <1>9, WalType, RecordTyping DEF NoteRequest, CallTyped, HostTyped
  <2>2. HostTyped'
    BY <1>9, <2>1, AuditType DEF NoteRequest, HostTyped
  <2> QED
    BY <1>9, <2>1, <2>2, KeptMemory, ReleasedCall, KeptHistory
    DEF NoteRequest
<1>10. ASSUME NoteDenied PROVE TypeOK'
  <2>1. WalTyped' /\ walOk' \in BOOLEAN
    BY <1>10, WalType, RecordTyping
    DEF NoteDenied, CallTyped, HostTyped, FlowStates
  <2>2. HostTyped'
    BY <1>10, <2>1, AuditType DEF NoteDenied, HostTyped
  <2>3. HistoryTyped'
    BY <1>10 DEF NoteDenied, HistoryTyped, CallTyped
  <2> QED
    BY <1>10, <2>1, <2>2, <2>3, KeptMemory, ReleasedCall DEF NoteDenied
<1>11. ASSUME NoteApproved PROVE TypeOK'
  <2>1. WalTyped' /\ walOk' \in BOOLEAN
    BY <1>11, WalType, RecordTyping
    DEF NoteApproved, CallTyped, HostTyped, FlowStates
  <2>2. HostTyped'
    BY <1>11, <2>1 DEF NoteApproved, HostTyped
  <2>3. CallTyped'
    BY <1>11 DEF NoteApproved, CallTyped, Goto, CallStages
  <2> QED
    BY <1>11, <2>1, <2>2, <2>3, KeptMemory, KeptHistory DEF NoteApproved
<1>12. ASSUME NEW c \in Caps, Store(c) PROVE TypeOK'
  <2>1. CASE auditOk'
    <3>1. WalTyped' /\ walOk' \in BOOLEAN
      BY <1>12, <2>1, WalType, RecordTyping
      DEF Store, CallTyped, HostTyped
    <3>2. HostTyped'
      BY <1>12, <3>1, AuditType DEF Store, HostTyped
    <3>3. MemoryTyped'
      <4> DEFINE k == [NoCapRec EXCEPT !.st = "issued", !.rid = op.rid,
                                       !.flow = op.flow]
      <4>1. k \in CapRec /\ k.rid \in Requests
        BY <1>12, CapIssueType DEF Store, CallTyped
      <4>2. caps' = [caps EXCEPT ![c] = k] /\ UNCHANGED <<flows, executed>>
        BY <1>12, <2>1 DEF Store
      <4> HIDE DEF k
      <4> QED BY <4>1, <4>2, CapsType DEF MemoryTyped
    <3>4. CallTyped'
      BY <1>12, <2>1 DEF Store, CallTyped, CallStages
    <3> QED
      BY <1>12, <3>1, <3>2, <3>3, <3>4, KeptHistory DEF Store
  <2>2. CASE ~auditOk'
    <3>1. HostTyped'
      BY <1>12, <2>2, AuditType DEF Store, HostTyped, NoWal
    <3> QED
      BY <1>12, <2>2, <3>1, KeptWal, KeptMemory, ReleasedCall, KeptHistory
      DEF Store, NoWal
  <2> QED BY <2>1, <2>2
<1>13. ASSUME ValidateRefused \/ StartRefused PROVE TypeOK'
  <2>1. HostTyped'
    BY <1>13, AuditType DEF ValidateRefused, StartRefused, HostTyped, NoWal
  <2> QED
    BY <1>13, <2>1, KeptWal, KeptMemory, ReleasedCall, KeptHistory
    DEF ValidateRefused, StartRefused, NoWal
<1>14. ASSUME Consume PROVE TypeOK'
  <2>1. WalTyped' /\ walOk' \in BOOLEAN
    BY <1>14, WalType, RecordTyping DEF Consume, CallTyped, HostTyped
  <2>2. HostTyped'
    BY <1>14, <2>1 DEF Consume, HostTyped
  <2>3. MemoryTyped'
    <3> DEFINE k == [caps[op.cap] EXCEPT !.used = TRUE]
    <3>1. op.cap \in Caps /\ caps[op.cap] \in CapRec
      BY <1>14 DEF Consume, MemoryTyped, CallTyped
    <3>2. k \in CapRec /\ (k.st = "issued" => k.rid \in Requests)
      BY <3>1, CapMarkType DEF MemoryTyped
    <3>3. caps' = [caps EXCEPT ![op.cap] = k] /\ UNCHANGED flows
      BY <1>14 DEF Consume
    <3>4. executed' \subseteq Requests
      BY <1>14 DEF Consume, MemoryTyped, CallTyped
    <3> HIDE DEF k
    <3> QED BY <3>1, <3>2, <3>3, <3>4, CapsType DEF MemoryTyped
  <2>4. CallTyped'
    BY <1>14 DEF Consume, CallTyped, Goto, CallStages
  <2> QED
    BY <1>14, <2>1, <2>2, <2>3, <2>4, KeptHistory DEF Consume
<1>15. ASSUME NoteExecuted PROVE TypeOK'
  <2>1. WalTyped' /\ walOk' \in BOOLEAN
    BY <1>15, WalType, RecordTyping DEF NoteExecuted, CallTyped, HostTyped
  <2>2. HostTyped'
    BY <1>15, <2>1 DEF NoteExecuted, HostTyped
  <2>3. CallTyped'
    BY <1>15 DEF NoteExecuted, CallTyped, Goto, CallStages
  <2> QED
    BY <1>15, <2>1, <2>2, <2>3, KeptMemory, KeptHistory DEF NoteExecuted
<1>16. ASSUME StartExecution PROVE TypeOK'
  <2>1. WalTyped' /\ walOk' \in BOOLEAN /\ MemoryTyped'
    <3>1. CASE op.flow \in Flows /\ flows[op.flow].st = AUTHORIZED
      <4>1. WalTyped' /\ walOk' \in BOOLEAN
        BY <1>16, <3>1, WalType, RecordTyping
        DEF StartExecution, FlowStates, HostTyped
      <4>2. MemoryTyped'
        BY <1>16, <3>1 DEF StartExecution, MemoryTyped, FlowRec, FlowStates
      <4> QED BY <4>1, <4>2
    <3>2. CASE ~(op.flow \in Flows /\ flows[op.flow].st = AUTHORIZED)
      BY <1>16, <3>2, KeptWal, KeptMemory DEF StartExecution, NoWal, HostTyped
    <3> QED BY <3>1, <3>2
  <2>2. HostTyped'
    BY <1>16, <2>1, AuditType DEF StartExecution, HostTyped
  <2>3. CallTyped'
    BY <1>16 DEF StartExecution, CallTyped, Goto, CallStages
  <2> QED
    BY <1>16, <2>1, <2>2, <2>3, KeptHistory DEF StartExecution
<1>17. ASSUME NEW res \in Outcomes, Effect(res) PROVE TypeOK'
  <2>1. HostTyped'
    BY <1>17 DEF Effect, HostTyped, NoWal
  <2>2. CallTyped'
    BY <1>17 DEF Effect, CallTyped, CallStages
  <2>3. HistoryTyped'
    BY <1>17 DEF Effect, HistoryTyped, CallTyped
  <2> QED
    BY <1>17, <2>1, <2>2, <2>3, KeptWal, KeptMemory DEF Effect, NoWal
<1>18. ASSUME NoteOutcome PROVE TypeOK'
  <2>1. WalTyped' /\ walOk' \in BOOLEAN /\ MemoryTyped'
    <3>1. CASE op.flow \in Flows /\ flows[op.flow].st = EXECUTING
      <4>1. WalTyped' /\ walOk' \in BOOLEAN
        BY <1>18, <3>1, WalType, RecordTyping
        DEF NoteOutcome, CallTyped, Outcomes, FlowStates, HostTyped
      <4>2. MemoryTyped'
        BY <1>18, <3>1 DEF NoteOutcome, CallTyped, Outcomes, MemoryTyped,
           FlowRec, FlowStates
      <4> QED BY <4>1, <4>2
    <3>2. CASE ~(op.flow \in Flows /\ flows[op.flow].st = EXECUTING)
      BY <1>18, <3>2, KeptWal, KeptMemory DEF NoteOutcome, NoWal, HostTyped
    <3> QED BY <3>1, <3>2
  <2>2. HostTyped'
    BY <1>18, <2>1, AuditType DEF NoteOutcome, HostTyped
  <2> QED
    BY <1>18, <2>1, <2>2, ReleasedCall, KeptHistory DEF NoteOutcome
<1>19. ASSUME NEW c \in Caps, RevokeOne(c) PROVE TypeOK'
  <2>1. WalTyped' /\ walOk' \in BOOLEAN
    BY <1>19, WalType, RecordTyping
    DEF RevokeOne, Revocable, MemoryTyped, HostTyped
  <2>2. HostTyped'
    BY <1>19, <2>1, AuditType DEF RevokeOne, HostTyped
  <2>3. MemoryTyped'
    BY <1>19, CapMarkType DEF RevokeOne, Revocable, MemoryTyped
  <2> QED
    BY <1>19, <2>1, <2>2, <2>3, KeptCall, KeptHistory DEF RevokeOne
<1>20. ASSUME RevokeEnd PROVE TypeOK'
  <2>1. HostTyped'
    BY <1>20 DEF RevokeEnd, HostTyped, NoWal
  <2> QED
    BY <1>20, <2>1, KeptWal, KeptMemory, ReleasedCall, KeptHistory
    DEF RevokeEnd, NoWal
<1>21. ASSUME Crash PROVE TypeOK'
  <2>1. HostTyped'
    <3>1. /\ walOk' \in BOOLEAN /\ auditOk' \in BOOLEAN
          /\ recoveryOk' \in BOOLEAN /\ suspended' \in BOOLEAN
          /\ fenced' \in BOOLEAN
      BY <1>21, Zenon DEF Crash
    <3> QED BY <1>21, <3>1 DEF Crash, HostTyped
  <2>2. MemoryTyped'
    BY <1>21
    DEF Crash, MemoryTyped, NoFlowRec, NoCapRec, FlowRec, CapRec
  <2> QED
    BY <1>21, <2>1, <2>2, KeptWal, ReleasedCall, KeptHistory
    DEF Crash, Release
<1>22. ASSUME Boot \/ Recovered \/ RecoveryFails PROVE TypeOK'
  <2>1. HostTyped'
    BY <1>22, AuditType DEF Boot, Recovered, RecoveryFails, HostTyped, NoWal
  <2> QED
    BY <1>22, <2>1, KeptWal, KeptMemory, KeptCall, KeptHistory
    DEF Boot, Recovered, RecoveryFails, NoWal
<1>23. ASSUME ReplayRecord PROVE TypeOK'
  <2>1. HostTyped'
    BY <1>23 DEF ReplayRecord, HostTyped, NoWal
  <2>2. wal[cursor] \in WalRec /\ WellFormed(wal[cursor])
    BY <1>23 DEF ReplayRecord, WalTyped, HostTyped
  <2>3. MemoryTyped'
    BY <1>23, <2>2, ReplayType DEF ReplayRecord
  <2> QED
    BY <1>23, <2>1, <2>3, KeptWal, KeptCall, KeptHistory
    DEF ReplayRecord, NoWal
<1>24. CASE UNCHANGED vars
  <2>1. HostTyped'
    BY <1>24 DEF HostTyped
  <2> QED
    BY <1>24, <2>1, KeptWal, KeptMemory, KeptCall, KeptHistory
<1> QED
  BY <1>1, <1>2, <1>3, <1>4, <1>5, <1>6, <1>7, <1>8, <1>9, <1>10, <1>11,
     <1>12, <1>13, <1>14, <1>15, <1>16, <1>17, <1>18, <1>19, <1>20, <1>21,
     <1>22, <1>23, <1>24
  DEF Next, CallStep, BootStep

(* The state always has its type.                                          *)
THEOREM TypeCorrect == Spec => []TypeOK
BY TypeInit, TypeStep, PTL DEF Spec

-----------------------------------------------------------------------------
(* Every step leaves the ledger alone or appends one record, and only      *)
(* NoteExecuted appends a claim.                                           *)
LEMMA LedgerStep ==
  ASSUME [Next]_vars
  PROVE  \/ UNCHANGED wal
         \/ \E rec : WalEmit(rec) /\ rec.t # "request_executed"
         \/ NoteExecuted
<1> USE DEF NoWal
<1>1. CASE CallStep
  <2> USE DEF Rec
  <2>1. ASSUME NoteRequest \/ NoteDenied \/ NoteApproved
        PROVE  \E rec : WalEmit(rec) /\ rec.t # "request_executed"
    BY <2>1 DEF NoteRequest, NoteDenied, NoteApproved, FlowRequest,
       FlowResolution
  <2>2. ASSUME NEW c \in Caps, Store(c) \/ RevokeOne(c)
        PROVE  \/ UNCHANGED wal
               \/ \E rec : WalEmit(rec) /\ rec.t # "request_executed"
    BY <2>2 DEF Store, RevokeOne, CapIssued, CapRevoked
  <2>3. ASSUME Consume
        PROVE  \E rec : WalEmit(rec) /\ rec.t # "request_executed"
    BY <2>3 DEF Consume, CapUsed
  <2>4. ASSUME StartExecution \/ NoteOutcome
        PROVE  \/ UNCHANGED wal
               \/ \E rec : WalEmit(rec) /\ rec.t # "request_executed"
    BY <2>4 DEF StartExecution, NoteOutcome, FlowExecuting, FlowOutcome
  <2>5. ASSUME \/ ValidateRefused \/ StartRefused \/ RevokeEnd
               \/ \E res \in Outcomes : Effect(res)
        PROVE  UNCHANGED wal
    BY <2>5 DEF ValidateRefused, StartRefused, RevokeEnd, Effect
  <2> QED BY <1>1, <2>1, <2>2, <2>3, <2>4, <2>5 DEF CallStep
<1>2. CASE BootStep
  BY <1>2 DEF BootStep, Boot, ReplayRecord, Recovered, RecoveryFails
<1>3. ASSUME NEW f \in Flows,
             Approve(f) \/ Deny(f) \/ ResolveUndecided(f) \/ Expire(f)
      PROVE  UNCHANGED wal
  BY <1>3 DEF Approve, Deny, ResolveUndecided, Expire
<1>4. ASSUME NEW r \in Requests,
             \/ ProposeAllowed(r)
             \/ \E f \in Flows : ProposeForApproval(r, f)
      PROVE  UNCHANGED wal
  BY <1>4 DEF ProposeAllowed, ProposeForApproval
<1>5. ASSUME Refuse \/ Suspend \/ RevokeBegin \/ Crash PROVE UNCHANGED wal
  BY <1>5 DEF Refuse, Suspend, RevokeBegin, Crash
<1>6. CASE UNCHANGED vars
  BY <1>6
<1> QED BY <1>1, <1>2, <1>3, <1>4, <1>5, <1>6 DEF Next

(* No step loses a record of the ledger.                                   *)
LEMMA LedgerGrows ==
  ASSUME TypeOK, [Next]_vars, NEW old, Logged(old)
  PROVE  Logged(old)'
<1> USE DEF TypeOK, HostTyped, WalTyped
<1>1. CASE UNCHANGED wal
  BY <1>1 DEF Logged
<1>2. ASSUME NEW rec, WalEmit(rec) PROVE Logged(old)'
  BY <1>2, WalGrows
<1> QED BY <1>1, <1>2, LedgerStep DEF NoteExecuted

(* A claim is new only in the step that writes it.                         *)
LEMMA NewClaim ==
  ASSUME TypeOK, [Next]_vars, NEW r \in Requests, Claimed(r)'
  PROVE  Claimed(r) \/ (NoteExecuted /\ r = op.rid)
<1> USE DEF TypeOK, HostTyped, WalTyped
<1>1. CASE UNCHANGED wal
  BY <1>1 DEF Claimed, Logged
<1>2. ASSUME NEW rec, WalEmit(rec)
      PROVE  Claimed(r) \/ rec = RequestExecuted(r)
  <2>1. CASE wal' = wal
    BY <2>1 DEF Claimed, Logged
  <2>2. CASE wal' = Append(wal, rec)
    BY <2>2 DEF Claimed, Logged
  <2> QED BY <1>2, <2>1, <2>2, WalEmitEffect
<1>3. RequestExecuted(r).t = "request_executed"
      /\ RequestExecuted(r).rid = r
      /\ RequestExecuted(op.rid).rid = op.rid
  BY DEF RequestExecuted, Rec
<1> QED BY <1>1, <1>2, <1>3, LedgerStep DEF NoteExecuted

-----------------------------------------------------------------------------
(* A step that leaves the host, the replay set and the effects alone, and  *)
(* starts no call past its replay check, keeps the invariant.              *)
LEMMA QuietStep ==
  ASSUME TypeOK, ClaimInv, [Next]_vars, ~NoteExecuted,
         UNCHANGED <<phase, cursor, recoveryOk, executed, effects>>,
         phase # "up" => wal' = wal /\ op' = op,
         \/ op' = op /\ walOk' = walOk
         \/ /\ op'.pc \notin {"note_executed", "start", "effect"}
            /\ op'.pc \notin {"idle", "revoke"} => Serving
  PROVE  ClaimInv'
<1> USE DEF ClaimInv
<1>1. \A r \in Requests : Claimed(r)' <=> Claimed(r)
  BY NewClaim, LedgerGrows DEF Claimed, RequestExecuted, Rec
<1>2. RecoveredCall'
  BY DEF RecoveredCall, Serving
<1>3. ReplayedClaims'
  BY DEF ReplayedClaims, RequestExecuted, Rec
<1>4. KnownClaims'
  BY <1>1 DEF KnownClaims, Serving
<1>5. OwnClaim'
  BY <1>1 DEF OwnClaim, TypeOK, CallTyped
<1>6. EffectIsClaimed' /\ AtMostOnce'
  BY <1>1 DEF EffectIsClaimed, AtMostOnce
<1> QED BY <1>2, <1>3, <1>4, <1>5, <1>6

(* Before the first boot nothing is claimed, in memory or on disk.         *)
THEOREM ClaimInit == Init => ClaimInv
<1> SUFFICES ASSUME Init PROVE ClaimInv
  OBVIOUS
<1> USE DEF Init
<1>1. RecoveredCall
  BY DEF RecoveredCall, Idle
<1>2. ReplayedClaims /\ KnownClaims
  BY DEF ReplayedClaims, KnownClaims, Serving
<1>3. OwnClaim
  BY DEF OwnClaim, Idle
<1>4. EffectIsClaimed /\ AtMostOnce
  BY DEF EffectIsClaimed, AtMostOnce
<1> QED BY <1>1, <1>2, <1>3, <1>4 DEF ClaimInv

(* Every step keeps claims, replay set and the call in flight in           *)
(* agreement.                                                              *)
THEOREM ClaimStep == TypeOK /\ ClaimInv /\ [Next]_vars => ClaimInv'
<1> SUFFICES ASSUME TypeOK, ClaimInv, [Next]_vars PROVE ClaimInv'
  OBVIOUS
<1> USE DEF NoWal
<1>g. \A r \in Requests : Claimed(r) => Claimed(r)'
  BY LedgerGrows DEF Claimed, RequestExecuted, Rec
<1>n. \A r \in Requests :
        Claimed(r)' => Claimed(r) \/ (NoteExecuted /\ r = op.rid)
  BY NewClaim
<1>1. ASSUME Refuse \/ Suspend PROVE ClaimInv'
  <2>1. ~NoteExecuted
    <3>1. CASE Refuse
      BY <3>1 DEF Refuse, NoteExecuted, MayCall, Idle
    <3>2. CASE Suspend
      BY <3>2, Zenon DEF Suspend, NoteExecuted
    <3> QED BY <1>1, <3>1, <3>2
  <2> QED BY <1>1, <2>1, QuietStep DEF Refuse, Suspend, MayCall
<1>2. ASSUME NEW r \in Requests,
             \/ ProposeAllowed(r)
             \/ \E f \in Flows : ProposeForApproval(r, f)
      PROVE  ClaimInv'
  <2>1. ~NoteExecuted
    <3>1. op = Idle
      BY <1>2 DEF ProposeAllowed, ProposeForApproval, MayCall
    <3> QED BY <3>1 DEF NoteExecuted, Idle
  <2>2. /\ op'.pc \in {"store", "note_request"} /\ Serving
        /\ UNCHANGED <<phase, cursor, recoveryOk, executed, effects>>
    BY <1>2 DEF ProposeAllowed, ProposeForApproval, MayCall, Guard, Serving,
       Idle
  <2> QED BY <2>1, <2>2, QuietStep DEF Serving
<1>3. ASSUME NEW f \in Flows, Approve(f) \/ Deny(f) PROVE ClaimInv'
  <2>1. ~NoteExecuted
    BY <1>3 DEF Approve, Deny, NoteExecuted, MayCall, Idle
  <2>2. /\ op'.pc \in {"note_approved", "note_denied"} /\ Serving
        /\ UNCHANGED <<phase, cursor, recoveryOk, executed, effects>>
    BY <1>3 DEF Approve, Deny, MayCall, Guard, Serving, Idle
  <2> QED BY <2>1, <2>2, QuietStep DEF Serving
<1>4. ASSUME NEW f \in Flows, ResolveUndecided(f) \/ Expire(f) PROVE ClaimInv'
  <2>1. UNCHANGED <<phase, cursor, recoveryOk, executed, effects, op, wal,
                    walOk>>
    BY <1>4 DEF ResolveUndecided, Expire
  <2>2. ~NoteExecuted
    BY <2>1 DEF NoteExecuted, Goto, TypeOK, CallTyped
  <2> QED BY <2>1, <2>2, QuietStep
<1>5. ASSUME RevokeBegin PROVE ClaimInv'
  <2>1. ~NoteExecuted
    BY <1>5 DEF RevokeBegin, NoteExecuted, MayCall, Idle
  <2> QED BY <1>5, <2>1, QuietStep DEF RevokeBegin, MayCall, Idle
<1>6. ASSUME \/ NoteRequest \/ NoteDenied \/ NoteApproved \/ NoteOutcome
             \/ ValidateRefused \/ StartRefused \/ RevokeEnd
             \/ \E c \in Caps : Store(c) \/ RevokeOne(c)
      PROVE  ClaimInv'
  <2>1. op.pc \in {"note_request", "note_denied", "note_approved", "outcome",
                   "validate", "start", "store", "revoke"}
    BY <1>6 DEF NoteRequest, NoteDenied, NoteApproved, NoteOutcome,
       ValidateRefused, StartRefused, RevokeEnd, Store, RevokeOne
  <2>2. op'.pc \in {"idle", "store", "validate", "revoke"}
    <3>1. Idle.pc = "idle"
      BY DEF Idle
    <3>2. CASE \/ NoteRequest \/ NoteDenied \/ NoteOutcome
               \/ ValidateRefused \/ StartRefused \/ RevokeEnd
      BY <3>1, <3>2 DEF NoteRequest, NoteDenied, NoteOutcome,
         ValidateRefused, StartRefused, RevokeEnd, Release
    <3>3. CASE NoteApproved
      BY <3>3 DEF NoteApproved, Goto, TypeOK, CallTyped
    <3>4. ASSUME NEW c \in Caps, Store(c)
          PROVE  op'.pc \in {"idle", "validate"}
      BY <3>1, <3>4 DEF Store, Release, TypeOK, CallTyped
    <3>5. ASSUME NEW c \in Caps, RevokeOne(c) PROVE op'.pc = "revoke"
      BY <3>5 DEF RevokeOne
    <3> QED BY <1>6, <3>2, <3>3, <3>4, <3>5
  <2>3. UNCHANGED <<phase, cursor, recoveryOk, executed, effects>>
    BY <1>6 DEF NoteRequest, NoteDenied, NoteApproved, NoteOutcome,
       ValidateRefused, StartRefused, RevokeEnd, Store, RevokeOne
  <2>4. phase = "up" /\ ~NoteExecuted
    BY <2>1 DEF ClaimInv, RecoveredCall, Idle, NoteExecuted
  <2>5. op'.pc \notin {"idle", "revoke"} => Serving
    <3>1. op'.pc \notin {"idle", "revoke"}
            => op.pc \notin {"idle", "revoke"}
      <4>1. CASE RevokeEnd
        BY <4>1 DEF RevokeEnd, Release, Idle
      <4>2. ASSUME NEW c \in Caps, RevokeOne(c) PROVE op' = op
        BY <4>2 DEF RevokeOne
      <4>3. CASE \/ NoteRequest \/ NoteDenied \/ NoteApproved
                 \/ NoteOutcome \/ ValidateRefused \/ StartRefused
                 \/ \E c \in Caps : Store(c)
        BY <4>3 DEF NoteRequest, NoteDenied, NoteApproved, NoteOutcome,
           ValidateRefused, StartRefused, Store
      <4> QED BY <1>6, <4>1, <4>2, <4>3
    <3> QED BY <3>1 DEF ClaimInv, RecoveredCall
  <2> QED BY <2>2, <2>3, <2>4, <2>5, QuietStep
<1>7. CASE UNCHANGED vars
  <2>1. ~NoteExecuted
    BY <1>7 DEF NoteExecuted, Goto, TypeOK, CallTyped
  <2> QED BY <1>7, <2>1, QuietStep
<1>8. ASSUME Consume PROVE ClaimInv'
  <2> USE <1>8 DEF Consume, ClaimInv
  <2>1. op.pc = "validate" /\ op'.pc = "note_executed" /\ op'.rid = op.rid
        /\ op.rid \in Requests
    BY DEF Goto, TypeOK, CallTyped
  <2>2. Serving
    BY <2>1 DEF RecoveredCall
  <2>3. \A r \in Requests : Claimed(r)' <=> Claimed(r)
    BY <1>g, <1>n, <2>1 DEF NoteExecuted
  <2>4. executed' = executed \cup {op.rid} /\ op.rid \notin executed
        /\ UNCHANGED <<phase, cursor, recoveryOk, effects>>
    BY DEF Usable
  <2>5. effects[op.rid] = 0
    BY <2>1, <2>2, <2>4
    DEF KnownClaims, EffectIsClaimed, TypeOK, HistoryTyped
  <2>6. RecoveredCall' /\ ReplayedClaims'
    BY <2>2, <2>4 DEF RecoveredCall, ReplayedClaims, Serving
  <2>7. KnownClaims'
    BY <2>2, <2>3, <2>4 DEF KnownClaims, Serving
  <2>8. OwnClaim'
    BY <2>1, <2>4, <2>5 DEF OwnClaim
  <2>9. EffectIsClaimed' /\ AtMostOnce'
    BY <2>3, <2>4 DEF EffectIsClaimed, AtMostOnce
  <2> QED BY <2>6, <2>7, <2>8, <2>9
<1>9. ASSUME NoteExecuted PROVE ClaimInv'
  <2> USE <1>9 DEF NoteExecuted, ClaimInv
  <2>1. op.pc = "note_executed" /\ op'.pc = "start" /\ op'.rid = op.rid
        /\ op.rid \in Requests
    BY DEF Goto, TypeOK, CallTyped
  <2>2. Serving
    BY <2>1 DEF RecoveredCall
  <2>3. UNCHANGED <<phase, cursor, recoveryOk, executed, effects>>
    OBVIOUS
  <2>4. op.rid \in executed /\ effects[op.rid] = 0
    BY <2>1 DEF OwnClaim
  <2>5. walOk' => Claimed(op.rid)'
    <3> SUFFICES ASSUME walOk' PROVE Claimed(op.rid)'
      OBVIOUS
    <3>1. PICK rec : rec = RequestExecuted(op.rid)
      OBVIOUS
    <3>2. Logged(rec)'
      BY <3>1, WalStores DEF TypeOK, HostTyped, WalTyped
    <3> QED BY <2>1, <3>1, <3>2 DEF Claimed, Logged, RequestExecuted
  <2>6. RecoveredCall' /\ ReplayedClaims'
    BY <2>2, <2>3 DEF RecoveredCall, ReplayedClaims, Serving
  <2>7. KnownClaims'
    BY <2>2, <2>3, <2>4, <1>n DEF KnownClaims, Serving
  <2>8. OwnClaim'
    BY <2>1, <2>3, <2>4, <2>5 DEF OwnClaim, Claimed, Logged
  <2>9. EffectIsClaimed' /\ AtMostOnce'
    BY <2>3, <1>g DEF EffectIsClaimed, AtMostOnce
  <2> QED BY <2>6, <2>7, <2>8, <2>9
<1>10. ASSUME StartExecution PROVE ClaimInv'
  <2> USE <1>10 DEF StartExecution, ClaimInv
  <2>1. op.pc = "start" /\ op'.pc = "effect" /\ op'.rid = op.rid
        /\ op.rid \in Requests
    BY DEF Goto, TypeOK, CallTyped
  <2>2. Serving
    BY <2>1 DEF RecoveredCall
  <2>3. UNCHANGED <<phase, cursor, recoveryOk, executed, effects>>
    OBVIOUS
  <2>4. Claimed(op.rid) /\ op.rid \in executed /\ effects[op.rid] = 0
    BY <2>1 DEF OwnClaim, LogsOpen
  <2>5. Claimed(op.rid)'
    BY <1>g, <2>1, <2>4 DEF Claimed, Logged
  <2>6. RecoveredCall' /\ ReplayedClaims'
    BY <2>2, <2>3 DEF RecoveredCall, ReplayedClaims, Serving
  <2>7. KnownClaims'
    BY <1>n, <2>1, <2>2, <2>3 DEF KnownClaims, Serving, NoteExecuted
  <2>8. OwnClaim'
    BY <2>1, <2>3, <2>4, <2>5 DEF OwnClaim
  <2>9. EffectIsClaimed' /\ AtMostOnce'
    BY <2>3, <1>g DEF EffectIsClaimed, AtMostOnce
  <2> QED BY <2>6, <2>7, <2>8, <2>9
<1>11. ASSUME NEW res \in Outcomes, Effect(res) PROVE ClaimInv'
  <2> USE <1>11 DEF Effect, ClaimInv
  <2>1. op.pc = "effect" /\ op'.pc = "outcome" /\ op.rid \in Requests
    BY DEF TypeOK, CallTyped
  <2>2. Serving /\ Claimed(op.rid) /\ effects[op.rid] = 0
    BY <2>1 DEF RecoveredCall, OwnClaim
  <2>3. UNCHANGED <<phase, cursor, recoveryOk, executed, wal>>
    OBVIOUS
  <2>4. \A r \in Requests : Claimed(r)' <=> Claimed(r)
    BY <2>3 DEF Claimed, Logged
  <2>5. \A r \in Requests :
          effects'[r] = effects[r] \/ (r = op.rid /\ effects'[r] = 1)
    BY <2>1, <2>2 DEF TypeOK, HistoryTyped
  <2>6. RecoveredCall' /\ ReplayedClaims' /\ KnownClaims'
    BY <2>2, <2>3, <2>4
    DEF RecoveredCall, ReplayedClaims, KnownClaims, Serving
  <2>7. OwnClaim'
    BY <2>1 DEF OwnClaim
  <2>8. EffectIsClaimed' /\ AtMostOnce'
    BY <2>2, <2>4, <2>5 DEF EffectIsClaimed, AtMostOnce
  <2> QED BY <2>6, <2>7, <2>8
<1>12. ASSUME Crash PROVE ClaimInv'
  <2> USE <1>12 DEF Crash, ClaimInv
  <2>1. op'.pc = "idle" /\ phase' = "down" /\ cursor' = 1 /\ op' = Idle'
        /\ UNCHANGED effects
    BY DEF Idle
  <2>2. ~recoveryOk'
    BY Zenon
  <2>3. RecoveredCall' /\ ReplayedClaims' /\ KnownClaims' /\ OwnClaim'
    BY <2>1, <2>2
    DEF RecoveredCall, ReplayedClaims, KnownClaims, OwnClaim, Serving
  <2>4. EffectIsClaimed' /\ AtMostOnce'
    BY <1>g, <2>1 DEF EffectIsClaimed, AtMostOnce
  <2> QED BY <2>3, <2>4
<1>13. ASSUME Boot \/ Recovered \/ RecoveryFails \/ ReplayRecord
       PROVE  ClaimInv'
  <2> USE <1>13 DEF ClaimInv, Boot, Recovered, RecoveryFails, ReplayRecord
  <2>1. op = Idle /\ op' = Idle /\ UNCHANGED <<wal, effects>>
        /\ phase # "up" /\ Idle.pc = "idle" /\ Idle' = Idle
    BY DEF RecoveredCall, Idle
  <2>2. \A r \in Requests : Claimed(r)' <=> Claimed(r)
    BY <2>1 DEF Claimed, Logged
  <2>3. OwnClaim' /\ EffectIsClaimed' /\ AtMostOnce'
    BY <2>1, <2>2 DEF OwnClaim, EffectIsClaimed, AtMostOnce
  <2>4. RecoveredCall'
    <3>1. phase' # "up" => ~recoveryOk'
      BY DEF RecoveredCall
    <3> QED BY <2>1, <3>1 DEF RecoveredCall
  <2>5. ReplayedClaims'
    <3>1. CASE ReplayRecord
      BY <3>1, <2>1
      DEF ReplayedClaims, ReplayExecuted, RequestExecuted, Rec, TypeOK,
          HostTyped, WalTyped
    <3>2. CASE Boot
      BY <3>2, <2>1 DEF ReplayedClaims, TypeOK, WalTyped
    <3>3. CASE Recovered \/ RecoveryFails
      BY <3>3 DEF ReplayedClaims
    <3> QED BY <3>1, <3>2, <3>3
  <2>6. KnownClaims'
    <3>1. CASE Recovered
      BY <3>1, <2>1, <2>2
      DEF KnownClaims, ReplayedClaims, Claimed, Logged, TypeOK, HostTyped,
          WalTyped
    <3>2. CASE Boot \/ ReplayRecord \/ RecoveryFails
      <4>1. ~Serving'
        BY <3>2 DEF Serving
      <4> QED BY <4>1 DEF KnownClaims
    <3> QED BY <3>1, <3>2
  <2> QED BY <2>3, <2>4, <2>5, <2>6
<1>14. CASE Next
  <2>1. CASE CallStep
    BY <2>1, <1>6, <1>8, <1>9, <1>10, <1>11 DEF CallStep
  <2>2. CASE BootStep
    BY <2>2, <1>13 DEF BootStep
  <2> QED BY <1>1, <1>2, <1>3, <1>4, <1>5, <1>12, <1>14, <2>1, <2>2 DEF Next
<1> QED BY <1>7, <1>14

(* The claims, the replay set and the call in flight always agree.         *)
THEOREM ClaimsAgree == Spec => []ClaimInv
BY TypeInit, TypeStep, ClaimInit, ClaimStep, PTL DEF Spec

(* However often a request id is proposed or approved and however often    *)
(* the process dies, the id has at most one effect.                        *)
THEOREM RequestsRunAtMostOnce == Spec => []AtMostOnce
<1>1. ClaimInv => AtMostOnce
  BY DEF ClaimInv
<1> QED BY <1>1, ClaimsAgree, PTL

(* An effect's request id is on the ledger before the effect happens.      *)
THEOREM EffectsAreClaimed == Spec => []EffectIsClaimed
<1>1. ClaimInv => EffectIsClaimed
  BY DEF ClaimInv
<1> QED BY <1>1, ClaimsAgree, PTL

-----------------------------------------------------------------------------
(* Consent: the call in flight under a flow, and every effect under one,   *)
(* rest on an approval that is on the ledger.                              *)
LEMMA ConsentRecord ==
  ASSUME NEW f \in Flows, WalEmit(FlowResolution(f, AUTHORIZED)), walOk',
         TypeOK
  PROVE  \E i \in DOMAIN wal' : wal'[i] = FlowResolution(f, AUTHORIZED)
<1>1. wal' = Append(wal, FlowResolution(f, AUTHORIZED))
  BY WalEmitEffect DEF TypeOK, HostTyped
<1>2. /\ Len(wal) + 1 \in DOMAIN wal'
      /\ wal'[Len(wal) + 1] = FlowResolution(f, AUTHORIZED)
  BY <1>1 DEF TypeOK, WalTyped
<1> QED BY <1>2

(* Before the first boot there is no call and no effect to consent to.     *)
THEOREM ConsentInit == Init => ConsentInv
BY DEF Init, ConsentInv, EffectHasConsent, Idle

(* Every step keeps an approval on the ledger behind the call of a flow.   *)
THEOREM ConsentStep ==
  TypeOK /\ RecoveredCall /\ ConsentInv /\ [Next]_vars => ConsentInv'
<1> SUFFICES ASSUME TypeOK, RecoveredCall, ConsentInv, [Next]_vars
             PROVE  ConsentInv'
  OBVIOUS
<1> DEFINE Ok(f) == Logged(FlowResolution(f, AUTHORIZED))
           Held  == {"store", "validate", "note_executed", "start"}
<1>g. \A f \in Flows : Ok(f) => Ok(f)'
  BY LedgerGrows DEF FlowResolution, Rec, Logged
<1> HIDE DEF Ok
<1>q. ASSUME UNCHANGED ran,
             \/ op'.pc \notin Held \cup {"effect"}
             \/ op' = op /\ (walOk' => walOk)
      PROVE  ConsentInv'
  BY <1>g, <1>q DEF ConsentInv, EffectHasConsent, Ok, TypeOK, HistoryTyped
<1>1. ASSUME \/ Refuse \/ Suspend \/ RevokeBegin \/ RevokeEnd \/ Crash
             \/ UNCHANGED vars
             \/ \E f \in Flows : ResolveUndecided(f) \/ Expire(f)
      PROVE  ConsentInv'
  BY <1>1, <1>q DEF Refuse, Suspend, RevokeBegin, RevokeEnd, Crash, Release,
     ResolveUndecided, Expire, Idle, Held, NoWal
<1>2. ASSUME BootStep PROVE ConsentInv'
  <2>1. op = Idle /\ op' = op /\ UNCHANGED ran
    BY <1>2 DEF BootStep, Boot, ReplayRecord, Recovered, RecoveryFails,
       RecoveredCall
  <2> QED BY <2>1, <1>q DEF Idle, Held
<1>3. ASSUME NEW r \in Requests,
             \/ ProposeAllowed(r)
             \/ \E f \in Flows : ProposeForApproval(r, f)
      PROVE  ConsentInv'
  <2>1. CASE ProposeAllowed(r)
    <3>1. op'.pc = "store" /\ op'.flow \notin Flows /\ UNCHANGED <<ran, wal>>
      BY <2>1 DEF ProposeAllowed, NoWal, Idle
    <3> QED BY <3>1, <1>g
        DEF ConsentInv, EffectHasConsent, Ok, TypeOK, HistoryTyped
  <2>2. ASSUME NEW f \in Flows, ProposeForApproval(r, f) PROVE ConsentInv'
    BY <2>2, <1>q DEF ProposeForApproval, Idle, Held
  <2> QED BY <1>3, <2>1, <2>2
<1>4. ASSUME NEW f \in Flows, Approve(f) \/ Deny(f) PROVE ConsentInv'
  BY <1>4, <1>q DEF Approve, Deny, Idle, Held
<1>5. ASSUME \/ NoteRequest \/ NoteDenied \/ NoteOutcome \/ ValidateRefused
             \/ StartRefused \/ \E c \in Caps : RevokeOne(c)
      PROVE  ConsentInv'
  BY <1>5, <1>q DEF NoteRequest, NoteDenied, NoteOutcome, ValidateRefused,
     StartRefused, RevokeOne, Release, Idle, Held
<1>6. ASSUME NoteApproved PROVE ConsentInv'
  <2>1. op'.pc = "store" /\ op'.flow = op.flow /\ op.flow \in Flows
        /\ UNCHANGED ran
    BY <1>6 DEF NoteApproved, Goto, TypeOK, CallTyped
  <2>2. walOk' => Logged(FlowResolution(op.flow, AUTHORIZED))'
    <3> SUFFICES ASSUME walOk'
                 PROVE  Logged(FlowResolution(op.flow, AUTHORIZED))'
      OBVIOUS
    <3>1. PICK f \in Flows : f = op.flow
      BY <2>1
    <3>2. \E i \in DOMAIN wal' : wal'[i] = FlowResolution(f, AUTHORIZED)
      BY <1>6, <3>1, ConsentRecord DEF NoteApproved
    <3> QED BY <2>1, <3>1, <3>2 DEF Logged
  <2>3. EffectHasConsent'
    BY <1>g, <2>1 DEF ConsentInv, EffectHasConsent, Ok, TypeOK, HistoryTyped
  <2> QED BY <2>1, <2>2, <2>3 DEF ConsentInv
<1>7. ASSUME \/ Consume \/ NoteExecuted \/ StartExecution
             \/ \E c \in Caps : Store(c)
      PROVE  ConsentInv'
  <2>1. UNCHANGED ran /\ op.pc \in Held
    BY <1>7 DEF Consume, NoteExecuted, StartExecution, Store, Held
  <2>2. op'.flow = op.flow \/ op'.pc = "idle"
    <3>1. CASE Consume \/ NoteExecuted \/ StartExecution
      BY <3>1 DEF Consume, NoteExecuted, StartExecution, Goto, TypeOK,
         CallTyped
    <3>2. ASSUME NEW c \in Caps, Store(c)
          PROVE  op'.flow = op.flow \/ op'.pc = "idle"
      <4>1. CASE auditOk'
        BY <3>2, <4>1 DEF Store, TypeOK, CallTyped
      <4>2. CASE ~auditOk'
        BY <3>2, <4>2 DEF Store, Release, Idle
      <4> QED BY <4>1, <4>2
    <3> QED BY <1>7, <3>1, <3>2
  <2>3. walOk' => walOk
    BY <1>7, WalEmitEffect
    DEF Consume, NoteExecuted, StartExecution, Store, NoWal, TypeOK,
        HostTyped
  <2>4. op'.pc = "effect" => walOk
    <3>1. CASE Consume \/ NoteExecuted
      BY <3>1 DEF Consume, NoteExecuted, Goto, TypeOK, CallTyped
    <3>2. CASE StartExecution
      BY <3>2 DEF StartExecution, LogsOpen
    <3>3. ASSUME NEW c \in Caps, Store(c) PROVE op'.pc # "effect"
      <4>1. CASE auditOk'
        BY <3>3, <4>1 DEF Store, TypeOK, CallTyped
      <4>2. CASE ~auditOk'
        BY <3>3, <4>2 DEF Store, Release, Idle
      <4> QED BY <4>1, <4>2
    <3> QED BY <1>7, <3>1, <3>2, <3>3
  <2>5. op.flow \in Flows /\ walOk => Ok(op.flow)
    BY <2>1 DEF ConsentInv, Held, Ok
  <2>6. op'.pc # "idle" /\ op'.flow \in Flows /\ walOk => Ok(op.flow)'
    BY <1>g, <2>2, <2>5 DEF Ok, Logged
  <2>7. EffectHasConsent'
    BY <1>g, <2>1 DEF ConsentInv, EffectHasConsent, Ok, TypeOK, HistoryTyped
  <2> QED BY <2>2, <2>3, <2>4, <2>6, <2>7 DEF ConsentInv, Ok
<1>8. ASSUME NEW res \in Outcomes, Effect(res) PROVE ConsentInv'
  <2>1. op.pc = "effect" /\ op'.pc = "outcome" /\ UNCHANGED wal
        /\ ran' \subseteq ran \cup ({op.flow} \cap Flows)
    BY <1>8 DEF Effect, NoWal, TypeOK, CallTyped
  <2>2. EffectHasConsent'
    BY <2>1 DEF ConsentInv, EffectHasConsent, Logged, FlowResolution, Rec
  <2> QED BY <2>1, <2>2 DEF ConsentInv
<1> QED
  BY <1>1, <1>2, <1>3, <1>4, <1>5, <1>6, <1>7, <1>8 DEF Next, CallStep

(* An effect under a flow always rests on an approval that is on the       *)
(* ledger, whichever appends failed on the way.                            *)
THEOREM EffectsHaveConsent == Spec => []EffectHasConsent
<1>1. ClaimInv => RecoveredCall
  BY DEF ClaimInv
<1>2. ConsentInv => EffectHasConsent
  BY DEF ConsentInv
<1> QED BY <1>1, <1>2, TypeInit, TypeStep, ClaimInit, ClaimStep, ConsentInit,
           ConsentStep, PTL DEF Spec

-----------------------------------------------------------------------------
(* The fence: a kill that returned leaves no call that could still run.    *)
THEOREM FenceInit == Init => FenceInv
BY Zenon DEF Init, FenceInv

(* Every step keeps a fenced host suspended and without a governed call.   *)
THEOREM FenceStep ==
  TypeOK /\ RecoveredCall /\ FenceInv /\ [Next]_vars => FenceInv'
<1> SUFFICES ASSUME TypeOK, RecoveredCall, FenceInv, [Next]_vars
             PROVE  FenceInv'
  OBVIOUS
<1>1. ASSUME \/ \E r \in Requests : ProposeAllowed(r)
             \/ \E r \in Requests, f \in Flows : ProposeForApproval(r, f)
             \/ \E f \in Flows : Approve(f) \/ Deny(f)
      PROVE  ~fenced' 
  BY <1>1 DEF ProposeAllowed, ProposeForApproval, Approve, Deny, Guard,
     FenceInv
<1>2. ASSUME CallStep, fenced PROVE RevokeEnd \/ \E c \in Caps : RevokeOne(c)
  BY <1>2 DEF CallStep, FenceInv, NoteRequest, NoteDenied, NoteApproved,
     Store, ValidateRefused, Consume, NoteExecuted, StartRefused,
     StartExecution, Effect, NoteOutcome
<1>3. ASSUME RevokeEnd \/ \E c \in Caps : RevokeOne(c) PROVE FenceInv'
  <2>1. CASE RevokeEnd
    <3>1. phase' = "up" /\ op'.pc = "idle"
      BY <2>1 DEF RevokeEnd, Release, RecoveredCall, Idle
    <3>2. fenced' => suspended'
      BY <2>1, Zenon DEF RevokeEnd
    <3> QED BY <3>1, <3>2 DEF FenceInv
  <2>2. CASE \E c \in Caps : RevokeOne(c)
    BY <2>2 DEF RevokeOne, FenceInv
  <2> QED BY <1>3, <2>1, <2>2
<1>4. ASSUME Refuse \/ Suspend \/ RevokeBegin \/ Crash \/ UNCHANGED vars
      PROVE  FenceInv'
  BY <1>4 DEF Refuse, Suspend, RevokeBegin, Crash, FenceInv, Idle, MayCall
<1>5. ASSUME NEW f \in Flows, ResolveUndecided(f) \/ Expire(f) PROVE FenceInv'
  BY <1>5 DEF ResolveUndecided, Expire, FenceInv
<1>6. ASSUME BootStep PROVE FenceInv'
  BY <1>6 DEF BootStep, Boot, ReplayRecord, Recovered, RecoveryFails, FenceInv
<1>7. ASSUME CallStep, ~fenced PROVE FenceInv'
  <2>1. CASE RevokeEnd
    BY <2>1, <1>3
  <2>2. CASE ~RevokeEnd
    <3>1. ~fenced'
      BY <1>7, <2>2
      DEF CallStep, NoteRequest, NoteDenied, NoteApproved, Store,
          ValidateRefused, Consume, NoteExecuted, StartRefused,
          StartExecution, Effect, NoteOutcome, RevokeOne
    <3> QED BY <3>1 DEF FenceInv
  <2> QED BY <2>1, <2>2
<1> QED
  BY <1>1, <1>2, <1>3, <1>4, <1>5, <1>6, <1>7 DEF Next, FenceInv

(* A tool runs only in a call, and a fenced host has none.                 *)
LEMMA NoEffectWhenFenced ==
  ASSUME FenceInv, [Next]_vars
  PROVE  [fenced => effects' = effects]_vars
<1>1. ASSUME NEW res \in Outcomes, Effect(res) PROVE ~fenced
  BY <1>1 DEF Effect, FenceInv
<1>2. CASE BootStep
  BY <1>2 DEF BootStep, Boot, ReplayRecord, Recovered, RecoveryFails
<1>3. CASE CallStep
  BY <1>1, <1>3
  DEF CallStep, NoteRequest, NoteDenied, NoteApproved, Store,
      ValidateRefused, Consume, NoteExecuted, StartRefused, StartExecution,
      NoteOutcome, RevokeOne, RevokeEnd
<1>4. CASE Next /\ ~CallStep /\ ~BootStep
  BY <1>4
  DEF Next, Refuse, ProposeAllowed, ProposeForApproval, Approve, Deny,
      ResolveUndecided, Expire, Suspend, RevokeBegin, Crash
<1> QED BY <1>2, <1>3, <1>4

(* Once a kill has returned, nothing has an effect until the next boot.    *)
THEOREM KillsFence == Spec => NoEffectAfterKill
<1>1. ClaimInv => RecoveredCall
  BY DEF ClaimInv
<1> QED BY <1>1, TypeInit, TypeStep, ClaimInit, ClaimStep, FenceInit,
           FenceStep, NoEffectWhenFenced, PTL DEF Spec, NoEffectAfterKill

-----------------------------------------------------------------------------
(* One grant per flow, and no flow both denied and approved: the ledger    *)
(* names a flow first in its request and resolves it once, since memory    *)
(* does not have a resolved flow pending again, not even after a replay.   *)
RequestFirst ==
  /\ \A j \in DOMAIN wal : wal[j].t = "flow_request" =>
       \A i \in DOMAIN wal : i < j => wal[i].flow # wal[j].flow
  /\ op.pc = "note_request" => \A i \in DOMAIN wal : wal[i].flow # op.flow

Resolves(i, f) == wal[i].t = "flow_resolution" /\ wal[i].flow = f

ResolvedOnce ==
  /\ \A f \in Flows, i, j \in DOMAIN wal :
       Resolves(i, f) /\ Resolves(j, f) => i = j
  /\ op.pc \in {"note_approved", "note_denied"} =>
       /\ flows[op.flow].st # PENDING
       /\ \A i \in DOMAIN wal : ~Resolves(i, op.flow)

NotPending ==
  /\ \A i \in DOMAIN wal :
       wal[i].t \in {"flow_resolution", "flow_outcome"} => wal[i].st # PENDING
  /\ \A f \in Flows, i \in DOMAIN wal :
       /\ Resolves(i, f)
       /\ Serving \/ (phase = "recovering" /\ i < cursor)
       => flows[f].st # PENDING

Grants(i, f) == wal[i].t = "capability_issued" /\ wal[i].flow = f

GrantsFollow ==
  /\ \A f \in Flows, i \in DOMAIN wal :
       Grants(i, f) => Logged(FlowResolution(f, AUTHORIZED))
  /\ op.pc \in {"note_approved", "store"} =>
       \A f \in Flows, i \in DOMAIN wal : Grants(i, f) => f # op.flow

(* The same of the capabilities in memory.  While a boot replays they come *)
(* from the ledger; in a broker that serves their flows are not pending    *)
(* and do not come up again.                                               *)
Held(c, f) == caps[c].st = "issued" /\ caps[c].flow = f

HeldFollow ==
  /\ phase # "up" => \A f \in Flows, c \in Caps : Held(c, f) =>
       \E i \in DOMAIN wal : Grants(i, f) /\ wal[i].cap = c
  /\ Serving => \A f \in Flows, c \in Caps : Held(c, f) =>
       flows[f].st # PENDING /\ (walOk => Logged(FlowResolution(f, AUTHORIZED)))
  /\ op.pc = "store" /\ op.flow \in Flows => flows[op.flow].st # PENDING
  /\ op.pc \in {"note_approved", "store"} =>
       \A f \in Flows, c \in Caps : Held(c, f) => f # op.flow

LoggedOnce ==
  \A f \in Flows, i, j \in DOMAIN wal : Grants(i, f) /\ Grants(j, f) => i = j

HeldOnce ==
  \A f \in Flows, c, d \in Caps : Held(c, f) /\ Held(d, f) => c = d

HeldAsLogged ==
  \A f \in Flows, c \in Caps, i \in DOMAIN wal :
    Held(c, f) /\ Grants(i, f) => wal[i].cap = c

GrantInv ==
  /\ RequestFirst /\ ResolvedOnce /\ NotPending /\ GrantsFollow
  /\ HeldFollow /\ LoggedOnce /\ HeldOnce /\ HeldAsLogged

(* A record that neither opens, resolves nor grants a flow.                *)
Plain(rec) ==
  /\ rec.t \notin {"flow_request", "flow_resolution", "capability_issued"}
  /\ rec.t = "flow_outcome" => rec.st # PENDING

Writes(rec) ==
  \/ Plain(rec)
  \/ op.pc = "note_request" /\ rec = FlowRequest(op.flow, op.rid)
  \/ op.pc = "note_denied" /\ rec = FlowResolution(op.flow, DENIED)
  \/ op.pc = "note_approved" /\ rec = FlowResolution(op.flow, AUTHORIZED)
  \/ op.pc = "store" /\ \E c \in Caps : rec = CapIssued(c, op.rid, op.flow)

(* What a step may append, and only to a ledger that is open.              *)
LEMMA StepWrites ==
  ASSUME TypeOK, [Next]_vars
  PROVE  \/ wal' = wal
         \/ walOk /\ \E rec : wal' = Append(wal, rec) /\ Writes(rec)
<1> USE DEF NoWal
<1>0. walOk \in BOOLEAN /\ op.res \in Outcomes
  BY DEF TypeOK, HostTyped, CallTyped
<1>1. ASSUME NEW rec, WalEmit(rec), Writes(rec)
      PROVE  \/ wal' = wal
             \/ walOk /\ \E r : wal' = Append(wal, r) /\ Writes(r)
  BY <1>1 DEF WalEmit
<1>2. CASE CallStep
  <2>1. CASE NoteRequest \/ NoteDenied \/ NoteApproved
    BY <1>1, <2>1 DEF NoteRequest, NoteDenied, NoteApproved, Writes
  <2>2. ASSUME NEW c \in Caps, Store(c)
        PROVE  \/ wal' = wal
               \/ walOk /\ \E r : wal' = Append(wal, r) /\ Writes(r)
    <3>1. wal' = wal \/ WalEmit(CapIssued(c, op.rid, op.flow))
      BY <2>2 DEF Store
    <3> QED BY <1>1, <2>2, <3>1 DEF Store, Writes
  <2>3. ASSUME NEW c \in Caps, RevokeOne(c)
        PROVE  \/ wal' = wal
               \/ walOk /\ \E r : wal' = Append(wal, r) /\ Writes(r)
    BY <1>1, <2>3 DEF RevokeOne, Writes, Plain, CapRevoked, Rec
  <2>4. CASE Consume \/ NoteExecuted
    BY <1>1, <2>4 DEF Consume, NoteExecuted, Writes, Plain, CapUsed,
                      RequestExecuted, Rec
  <2>5. CASE StartExecution
    <3>1. wal' = wal \/ WalEmit(FlowExecuting(op.flow))
      BY <2>5 DEF StartExecution
    <3> QED BY <1>1, <3>1 DEF Writes, Plain, FlowExecuting, Rec
  <2>6. CASE NoteOutcome
    <3>1. wal' = wal \/ WalEmit(FlowOutcome(op.flow, op.res))
      BY <2>6 DEF NoteOutcome
    <3> QED BY <1>0, <1>1, <3>1
            DEF Writes, Plain, FlowOutcome, Rec, Outcomes
  <2>7. ASSUME \/ ValidateRefused \/ StartRefused \/ RevokeEnd
               \/ \E res \in Outcomes : Effect(res)
        PROVE  wal' = wal
    BY <2>7 DEF ValidateRefused, StartRefused, RevokeEnd, Effect
  <2> QED BY <1>2, <2>1, <2>2, <2>3, <2>4, <2>5, <2>6, <2>7 DEF CallStep
<1>3. ASSUME ~CallStep PROVE wal' = wal
  <2>1. CASE BootStep
    BY <2>1 DEF BootStep, Boot, ReplayRecord, Recovered, RecoveryFails
  <2>2. ASSUME NEW f \in Flows,
               Approve(f) \/ Deny(f) \/ ResolveUndecided(f) \/ Expire(f)
        PROVE  wal' = wal
    BY <2>2 DEF Approve, Deny, ResolveUndecided, Expire
  <2>3. ASSUME NEW r \in Requests,
               \/ ProposeAllowed(r)
               \/ \E f \in Flows : ProposeForApproval(r, f)
        PROVE  wal' = wal
    BY <2>3 DEF ProposeAllowed, ProposeForApproval
  <2>4. ASSUME Refuse \/ Suspend \/ RevokeBegin \/ Crash \/ UNCHANGED vars
        PROVE  wal' = wal
    BY <2>4 DEF Refuse, Suspend, RevokeBegin, Crash
  <2> QED BY <1>3, <2>1, <2>2, <2>3, <2>4 DEF Next
<1> QED BY <1>2, <1>3

(* How a call comes to a stage that opens, resolves or grants a flow.      *)
Deciding == {"note_request", "note_denied", "note_approved", "store"}

LEMMA StepCalls ==
  ASSUME TypeOK, [Next]_vars, op'.pc \in Deciding
  PROVE  \/ op' = op /\ wal' = wal
         \/ \E r \in Requests, f \in Flows : ProposeForApproval(r, f)
         \/ \E r \in Requests : ProposeAllowed(r)
         \/ \E f \in Flows : Approve(f) \/ Deny(f)
         \/ NoteApproved
<1> USE DEF NoWal, Deciding
<1>1. ASSUME \/ Refuse \/ Suspend \/ UNCHANGED vars \/ BootStep
             \/ \E f \in Flows : ResolveUndecided(f) \/ Expire(f)
      PROVE  op' = op /\ wal' = wal
  BY <1>1 DEF Refuse, Suspend, BootStep, Boot, ReplayRecord, Recovered,
     RecoveryFails, ResolveUndecided, Expire
<1>2. ASSUME RevokeBegin \/ Crash PROVE FALSE
  BY <1>2 DEF RevokeBegin, Crash, Idle
<1>3. ASSUME \/ NoteRequest \/ NoteDenied \/ ValidateRefused \/ Consume
             \/ NoteExecuted \/ StartRefused \/ StartExecution \/ NoteOutcome
             \/ RevokeEnd \/ \E res \in Outcomes : Effect(res)
      PROVE  FALSE
  <2>1. /\ \A p : Goto(p) => op'.pc = p
        /\ Release => op'.pc = "idle"
        /\ \A p, s : op' = [op EXCEPT !.pc = p, !.res = s] => op'.pc = p
    <3>1. op = [pc |-> op.pc, rid |-> op.rid, flow |-> op.flow,
                cap |-> op.cap, res |-> op.res]
      BY DEF TypeOK, CallTyped
    <3>2. Release => op'.pc = "idle"
      BY DEF Release, Idle
    <3>3. ASSUME NEW p, Goto(p) PROVE op'.pc = p
      BY <3>1, <3>3 DEF Goto
    <3>4. ASSUME NEW p, NEW s, op' = [op EXCEPT !.pc = p, !.res = s]
          PROVE  op'.pc = p
      BY <3>1, <3>4
    <3> QED BY <3>2, <3>3, <3>4
  <2>2. CASE \/ NoteRequest \/ NoteDenied \/ ValidateRefused \/ StartRefused
             \/ NoteOutcome \/ RevokeEnd
    BY <2>1, <2>2 DEF NoteRequest, NoteDenied, ValidateRefused, StartRefused,
                      NoteOutcome, RevokeEnd
  <2>3. CASE Consume \/ NoteExecuted \/ StartExecution
    BY <2>1, <2>3 DEF Consume, NoteExecuted, StartExecution
  <2>4. ASSUME NEW res \in Outcomes, Effect(res) PROVE FALSE
    BY <2>1, <2>4 DEF Effect
  <2> QED BY <1>3, <2>2, <2>3, <2>4
<1>4. ASSUME NEW c \in Caps, Store(c) PROVE FALSE
  <2>1. \/ op' = [op EXCEPT !.pc = "validate", !.cap = c]
        \/ Release
    <3>1. CASE auditOk'
      BY <1>4, <3>1 DEF Store
    <3>2. CASE ~auditOk'
      BY <1>4, <3>2 DEF Store
    <3> QED BY <3>1, <3>2
  <2>2. op = [pc |-> op.pc, rid |-> op.rid, flow |-> op.flow,
              cap |-> op.cap, res |-> op.res]
    BY DEF TypeOK, CallTyped
  <2>3. op' = [op EXCEPT !.pc = "validate", !.cap = c] => op'.pc = "validate"
    BY <2>2
  <2>4. Release => op'.pc = "idle"
    BY DEF Release, Idle
  <2> QED BY <2>1, <2>3, <2>4
<1>5. ASSUME NEW c \in Caps, RevokeOne(c) PROVE FALSE
  BY <1>5 DEF RevokeOne
<1> QED BY <1>1, <1>2, <1>3, <1>4, <1>5 DEF Next, CallStep

(* How a flow comes to be pending.                                         *)
LEMMA StepPends ==
  ASSUME TypeOK, NotPending, [Next]_vars, NEW f \in Flows,
         flows'[f].st = PENDING, flows[f].st # PENDING
  PROVE  \/ \E r \in Requests : ProposeForApproval(r, f)
         \/ /\ ReplayRecord /\ wal[cursor].t = "flow_request"
            /\ wal[cursor].flow = f
<1>0. /\ flows \in [Flows -> FlowRec] /\ flows[f] \in FlowRec
      /\ op.res \in Outcomes
      /\ op.flow \in Flows \cup {NoFlow}
  BY DEF TypeOK, MemoryTyped, CallTyped
<1>1. ASSUME NEW r \in Requests, NEW g \in Flows, ProposeForApproval(r, g)
      PROVE  f = g
  BY <1>0, <1>1 DEF ProposeForApproval
<1>2. Purge(flows)[f].st # PENDING
  BY <1>0 DEF Purge, FlowRec
<1>3. ASSUME NEW g \in Flows, Approve(g) \/ Deny(g) \/ ResolveUndecided(g)
      PROVE  FALSE
  <2>1. Purge(flows) \in [Flows -> FlowRec]
    BY <1>0 DEF Purge, FlowRec, FlowStates
  <2> QED BY <1>0, <1>2, <1>3, <2>1
          DEF Approve, Deny, ResolveUndecided, Resolved, FlowRec
<1>4. ASSUME StartExecution PROVE FALSE
  <2>1. \/ flows' = flows
        \/ /\ op.flow \in Flows
           /\ flows' = [flows EXCEPT ![op.flow].st = EXECUTING]
    BY <1>4 DEF StartExecution
  <2> QED BY <1>0, <2>1 DEF FlowRec
<1>5. ASSUME NoteOutcome PROVE FALSE
  <2>1. \/ flows' = flows
        \/ op.flow \in Flows /\ flows' = [flows EXCEPT ![op.flow].st = op.res]
    BY <1>5 DEF NoteOutcome
  <2> QED BY <1>0, <2>1 DEF FlowRec, Outcomes
<1>6. ASSUME ReplayRecord
      PROVE  wal[cursor].t = "flow_request" /\ wal[cursor].flow = f
  <2>0. /\ flows' = ReplayFlow(flows, wal[cursor]) /\ cursor \in DOMAIN wal
        /\ wal[cursor] \in WalRec
    BY <1>6 DEF ReplayRecord, TypeOK, HostTyped, WalTyped
  <2> PICK rec \in WalRec : rec = wal[cursor]
    BY <2>0
  <2>1. rec.t \in {"flow_resolution", "flow_outcome"} => rec.st # PENDING
    BY <2>0 DEF NotPending
  <2>2. \/ flows' = flows
        \/ rec.t = "flow_request"
             /\ flows' = [flows EXCEPT ![rec.flow] =
                            [st |-> PENDING, rid |-> rec.rid]]
        \/ flows' = [flows EXCEPT ![rec.flow].st = EXECUTING]
        \/ rec.t \in {"flow_resolution", "flow_outcome"}
             /\ flows' = [flows EXCEPT ![rec.flow].st = rec.st]
    BY <2>0, Zenon DEF ReplayFlow
  <2>3. rec.t = "flow_request" /\ rec.flow = f
    BY <1>0, <2>1, <2>2 DEF FlowRec
  <2> QED BY <2>3
<1>7. ASSUME \/ Refuse \/ Suspend \/ RevokeBegin \/ UNCHANGED vars
             \/ \E r \in Requests : ProposeAllowed(r)
             \/ \E g \in Flows : Expire(g)
             \/ NoteRequest \/ NoteDenied \/ NoteApproved
             \/ \E c \in Caps : Store(c) \/ RevokeOne(c)
             \/ ValidateRefused \/ Consume \/ NoteExecuted \/ StartRefused
             \/ RevokeEnd \/ \E res \in Outcomes : Effect(res)
             \/ Boot \/ Recovered \/ RecoveryFails
      PROVE  flows' = flows
  BY <1>7 DEF Refuse, Suspend, RevokeBegin, ProposeAllowed, Expire,
     NoteRequest, NoteDenied, NoteApproved, Store, RevokeOne, ValidateRefused,
     Consume, NoteExecuted, StartRefused, RevokeEnd, Effect, Boot, Recovered,
     RecoveryFails
<1>8. ASSUME Crash PROVE FALSE
  BY <1>8 DEF Crash, NoFlowRec
<1> QED BY <1>1, <1>3, <1>4, <1>5, <1>6, <1>7, <1>8
        DEF Next, CallStep, BootStep

(* The ledger after a step: as before, or longer by one record.            *)
Longer(rec) ==
  LET n == Len(wal) + 1
  IN  /\ n \in Nat /\ DOMAIN wal' = DOMAIN wal \cup {n} /\ wal'[n] = rec
      /\ \A i \in DOMAIN wal : wal'[i] = wal[i] /\ i < n /\ i \in Nat

LEMMA LedgerAfter ==
  ASSUME TypeOK, [Next]_vars
  PROVE  \/ wal' = wal
         \/ walOk /\ \E rec : Longer(rec) /\ Writes(rec)
<1>1. wal \in Seq(WalRec)
  BY DEF TypeOK, WalTyped
<1>2. ASSUME NEW rec, wal' = Append(wal, rec) PROVE Longer(rec)
  BY <1>1, <1>2 DEF Longer
<1> QED BY <1>2, StepWrites

LEMMA CallOfFlow ==
  ASSUME TypeOK
  PROVE  /\ op.pc \in {"note_request", "note_denied", "note_approved"}
              => op.flow \in Flows
         /\ op.flow \in Flows \cup {NoFlow}
BY DEF TypeOK, CallTyped

LEMMA NotedFields ==
  /\ \A f, r : /\ FlowRequest(f, r).t = "flow_request"
               /\ FlowRequest(f, r).flow = f
  /\ \A f, s : /\ FlowResolution(f, s).t = "flow_resolution"
               /\ FlowResolution(f, s).flow = f
               /\ FlowResolution(f, s).st = s
  /\ \A c, r, f : /\ CapIssued(c, r, f).t = "capability_issued"
                  /\ CapIssued(c, r, f).flow = f
BY DEF FlowRequest, FlowResolution, CapIssued, Rec

LEMMA RequestFirstStep ==
  ASSUME TypeOK, RequestFirst, [Next]_vars
  PROVE  RequestFirst'
<1>1. \A j \in DOMAIN wal' : wal'[j].t = "flow_request" =>
        \A i \in DOMAIN wal' : i < j => wal'[i].flow # wal'[j].flow
  <2>1. CASE wal' = wal
    BY <2>1 DEF RequestFirst
  <2>2. ASSUME NEW rec, Longer(rec), Writes(rec)
        PROVE  \A j \in DOMAIN wal' : wal'[j].t = "flow_request" =>
                 \A i \in DOMAIN wal' : i < j => wal'[i].flow # wal'[j].flow
    <3>1. rec.t = "flow_request" => \A i \in DOMAIN wal : wal[i].flow # rec.flow
      BY <2>2, NotedFields DEF Writes, Plain, RequestFirst
    <3> QED BY <2>2, <3>1 DEF Longer, RequestFirst
  <2> QED BY <2>1, <2>2, LedgerAfter
<1>2. ASSUME op'.pc = "note_request"
      PROVE  \A i \in DOMAIN wal' : wal'[i].flow # op'.flow
  <2>1. ASSUME NEW r \in Requests, NEW f \in Flows, ProposeForApproval(r, f)
        PROVE  \A i \in DOMAIN wal' : wal'[i].flow # op'.flow
    BY <2>1 DEF ProposeForApproval, FreshFlow, NoWal, Idle
  <2>2. CASE op' = op /\ wal' = wal
    BY <1>2, <2>2 DEF RequestFirst
  <2>3. ASSUME \/ \E r \in Requests : ProposeAllowed(r)
               \/ \E f \in Flows : Approve(f) \/ Deny(f)
               \/ NoteApproved
        PROVE  FALSE
    BY <1>2, <2>3 DEF ProposeAllowed, Approve, Deny, NoteApproved, Goto, Idle,
                      TypeOK, CallTyped
  <2> QED BY <1>2, <2>1, <2>2, <2>3, StepCalls DEF Deciding
<1> QED BY <1>1, <1>2 DEF RequestFirst

(* A flow with a resolution on the ledger is not pending in a broker that  *)
(* serves, and what is resolved now is not pending either.                 *)
LEMMA ResolvedOnceStep ==
  ASSUME TypeOK, RecoveredCall, ResolvedOnce, NotPending, [Next]_vars
  PROVE  ResolvedOnce'
<1> USE DEF Resolves
<1> DEFINE Solved(i) ==
      wal'[i].t = "flow_resolution" /\ wal'[i].flow = op'.flow
<1>1. \A f \in Flows, i, j \in DOMAIN wal' :
        Resolves(i, f)' /\ Resolves(j, f)' => i = j
  <2>1. CASE wal' = wal
    BY <2>1 DEF ResolvedOnce
  <2>2. ASSUME NEW rec, Longer(rec), Writes(rec)
        PROVE  \A f \in Flows, i, j \in DOMAIN wal' :
                 Resolves(i, f)' /\ Resolves(j, f)' => i = j
    <3>1. rec.t = "flow_resolution" => \A i \in DOMAIN wal :
            ~(wal[i].t = "flow_resolution" /\ wal[i].flow = rec.flow)
      BY <2>2, NotedFields DEF Writes, Plain, ResolvedOnce
    <3> QED BY <2>2, <3>1 DEF Longer, ResolvedOnce
  <2> QED BY <2>1, <2>2, LedgerAfter
<1>2. ASSUME op'.pc \in {"note_approved", "note_denied"}
      PROVE  /\ flows'[op'.flow].st # PENDING
             /\ \A i \in DOMAIN wal' : ~Solved(i)
  <2>0. flows \in [Flows -> FlowRec]
    BY DEF TypeOK, MemoryTyped
  <2>1. ASSUME NEW f \in Flows, Approve(f) \/ Deny(f)
        PROVE  /\ flows'[op'.flow].st # PENDING
               /\ \A i \in DOMAIN wal' : ~Solved(i)
    <3>1. op'.flow = f /\ wal' = wal /\ Serving /\ flows[f].st = PENDING
      BY <2>1 DEF Approve, Deny, Idle, NoWal, MayCall, Guard, Serving
    <3>2. \A i \in DOMAIN wal : ~Resolves(i, f)
      BY <3>1 DEF NotPending
    <3>3. Purge(flows) \in [Flows -> FlowRec]
      BY <2>0 DEF Purge, FlowRec, FlowStates
    <3>4. flows'[f].st # PENDING
      BY <2>1, <3>3 DEF Approve, Deny, Resolved, FlowRec
    <3> QED BY <3>1, <3>2, <3>4
  <2>2. CASE op' = op /\ wal' = wal
    <3>1. flows[op.flow].st # PENDING /\ op.flow \in Flows
          /\ \A i \in DOMAIN wal : ~Resolves(i, op.flow)
      BY <1>2, <2>2, CallOfFlow DEF ResolvedOnce
    <3> PICK f \in Flows : f = op.flow
      BY <3>1
    <3>2. ASSUME NEW r \in Requests, ProposeForApproval(r, f) PROVE FALSE
      BY <1>2, <2>2, <3>2 DEF ProposeForApproval, MayCall, Idle
    <3>3. ~ReplayRecord
      BY <1>2, <2>2 DEF RecoveredCall, ReplayRecord, Idle
    <3>4. flows'[f].st # PENDING
      BY <3>1, <3>2, <3>3, StepPends
    <3> QED BY <2>2, <3>1, <3>4
  <2>3. ASSUME \/ \E r \in Requests : ProposeAllowed(r)
               \/ \E r \in Requests, f \in Flows : ProposeForApproval(r, f)
        PROVE  FALSE
    BY <1>2, <2>3 DEF ProposeAllowed, ProposeForApproval, Idle
  <2>4. ~NoteApproved
    BY <1>2 DEF NoteApproved, Goto, TypeOK, CallTyped
  <2> QED BY <1>2, <2>1, <2>2, <2>3, <2>4, StepCalls DEF Deciding
<1> QED BY <1>1, <1>2 DEF ResolvedOnce

LEMMA NotPendingStep ==
  ASSUME TypeOK, RecoveredCall, ReplayedClaims, RequestFirst, ResolvedOnce,
         NotPending, [Next]_vars
  PROVE  NotPending'
<1> USE DEF Resolves
<1>1. \A i \in DOMAIN wal' :
        wal'[i].t \in {"flow_resolution", "flow_outcome"}
          => wal'[i].st # PENDING
  <2>1. CASE wal' = wal
    BY <2>1 DEF NotPending
  <2>2. ASSUME NEW rec, Longer(rec), Writes(rec)
        PROVE  \A i \in DOMAIN wal' :
                 wal'[i].t \in {"flow_resolution", "flow_outcome"}
                   => wal'[i].st # PENDING
    <3>1. rec.t \in {"flow_resolution", "flow_outcome"} => rec.st # PENDING
      BY <2>2, NotedFields DEF Writes, Plain
    <3> QED BY <2>2, <3>1 DEF Longer, NotPending
  <2> QED BY <2>1, <2>2, LedgerAfter
<1>2. ASSUME NEW f \in Flows, NEW i \in DOMAIN wal',
             wal'[i].t = "flow_resolution", wal'[i].flow = f,
             Serving' \/ (phase' = "recovering" /\ i < cursor'),
             flows'[f].st = PENDING
      PROVE  FALSE
  <2>0. /\ cursor \in Nat /\ wal \in Seq(WalRec)
        /\ DOMAIN wal = 1..Len(wal) /\ Len(wal) \in Nat
    BY DEF TypeOK, HostTyped, WalTyped
  <2>1. CASE BootStep
    <3>0. wal' = wal
      BY <2>1 DEF BootStep, Boot, ReplayRecord, Recovered, RecoveryFails, NoWal
    <3>1. CASE Boot
      <4>1. phase' = "recovering" /\ cursor' = 1
        BY <3>1 DEF Boot, ReplayedClaims
      <4> QED BY <1>2, <2>0, <3>0, <4>1 DEF Serving
    <3>2. CASE Recovered
      BY <1>2, <2>0, <3>0, <3>2 DEF Recovered, NotPending
    <3>3. CASE RecoveryFails
      BY <1>2, <3>3 DEF RecoveryFails, Serving
    <3>4. CASE ReplayRecord
      <4>1. phase = "recovering" /\ phase' = phase /\ cursor' = cursor + 1
            /\ cursor \in DOMAIN wal /\ recoveryOk' = recoveryOk
        BY <2>0, <3>4 DEF ReplayRecord, TypeOK, HostTyped
      <4>2. i <= cursor
        BY <1>2, <2>0, <3>0, <4>1 DEF Serving
      <4>3. CASE flows[f].st # PENDING
        <5>1. wal[cursor].t = "flow_request" /\ wal[cursor].flow = f
          BY <1>2, <4>3, StepPends, <4>1 DEF ProposeForApproval, MayCall
        <5> QED BY <1>2, <2>0, <3>0, <4>1, <4>2, <5>1 DEF RequestFirst
      <4>4. CASE flows[f].st = PENDING
        <5>1. i = cursor
          BY <1>2, <2>0, <3>0, <4>1, <4>2, <4>4 DEF NotPending
        <5>2. wal[cursor].st # PENDING
          BY <1>2, <3>0, <4>1, <5>1 DEF NotPending
        <5>3. flows'[f].st = wal[cursor].st
          <6>1. /\ wal[cursor].t = "flow_resolution" /\ wal[cursor].flow = f
                /\ flows' = ReplayFlow(flows, wal[cursor])
            BY <1>2, <3>0, <3>4, <5>1 DEF ReplayRecord
          <6>2. flows' = [flows EXCEPT ![f].st = wal[cursor].st]
            BY <4>4, <6>1, Zenon DEF ReplayFlow
          <6> QED BY <6>2 DEF TypeOK, MemoryTyped, FlowRec
        <5> QED BY <1>2, <5>2, <5>3
      <4> QED BY <4>3, <4>4
    <3> QED BY <2>1, <3>1, <3>2, <3>3, <3>4 DEF BootStep
  <2>2. CASE Crash
    BY <1>2, <2>2 DEF Crash, Serving
  <2>3. CASE ~BootStep /\ ~Crash
    <3>1. UNCHANGED <<phase, cursor, recoveryOk>>
      BY <2>3 DEF Next, CallStep, Refuse, ProposeAllowed, ProposeForApproval,
         Approve, Deny, ResolveUndecided, Expire, Suspend, RevokeBegin,
         NoteRequest, NoteDenied, NoteApproved, Store, RevokeOne,
         ValidateRefused, Consume, NoteExecuted, StartRefused, StartExecution,
         RevokeEnd, Effect, NoteOutcome
    <3>2. flows[f].st = PENDING
      <4> SUFFICES ASSUME flows[f].st # PENDING PROVE FALSE
        OBVIOUS
      <4>1. PICK r \in Requests : ProposeForApproval(r, f)
        BY <1>2, <2>3, StepPends DEF BootStep
      <4>2. wal' = wal /\ \A k \in DOMAIN wal : wal[k].flow # f
        BY <4>1 DEF ProposeForApproval, FreshFlow, NoWal
      <4> QED BY <1>2, <4>2
    <3>3. CASE wal' = wal
      BY <1>2, <3>1, <3>2, <3>3 DEF NotPending, Serving
    <3>4. ASSUME NEW rec, Longer(rec), Writes(rec) PROVE FALSE
      <4>1. CASE i \in DOMAIN wal
        BY <1>2, <3>1, <3>2, <3>4, <4>1 DEF NotPending, Serving, Longer
      <4>2. CASE i \notin DOMAIN wal
        <5>1. rec.t = "flow_resolution" /\ rec.flow = f
          BY <1>2, <3>4, <4>2 DEF Longer
        <5>2. op.flow = f /\ op.pc \in {"note_approved", "note_denied"}
          BY <3>4, <5>1, NotedFields DEF Writes, Plain
        <5> QED BY <3>2, <5>2 DEF ResolvedOnce
      <4> QED BY <4>1, <4>2
    <3> QED BY <3>3, <3>4, LedgerAfter
  <2> QED BY <2>1, <2>2, <2>3
<1> QED BY <1>1, <1>2 DEF NotPending

(* A capability is granted to a flow whose approval is on the ledger, and  *)
(* the call that grants it is the only one that ever will.                 *)
LEMMA GrantsFollowStep ==
  ASSUME TypeOK, RecoveredCall, ConsentInv, ResolvedOnce, NotPending,
         GrantsFollow, [Next]_vars
  PROVE  GrantsFollow'
<1> USE DEF Grants
<1>1. \A f \in Flows : Logged(FlowResolution(f, AUTHORIZED))
                         => Logged(FlowResolution(f, AUTHORIZED))'
  BY LedgerGrows DEF FlowResolution, Rec, Logged
<1>2. ASSUME NEW f \in Flows, NEW i \in DOMAIN wal',
             wal'[i].t = "capability_issued", wal'[i].flow = f
      PROVE  Logged(FlowResolution(f, AUTHORIZED))'
  <2>1. CASE wal' = wal
    BY <1>1, <1>2, <2>1 DEF GrantsFollow
  <2>2. ASSUME NEW rec, Longer(rec), Writes(rec), walOk
        PROVE  Logged(FlowResolution(f, AUTHORIZED))'
    <3>1. CASE i \in DOMAIN wal
      BY <1>1, <1>2, <2>2, <3>1 DEF GrantsFollow, Longer
    <3>2. CASE i \notin DOMAIN wal
      <4>1. rec.t = "capability_issued" /\ rec.flow = f
        BY <1>2, <2>2, <3>2 DEF Longer
      <4>2. op.flow = f /\ op.pc = "store"
        BY <2>2, <4>1, NotedFields DEF Writes, Plain
      <4> QED BY <1>1, <2>2, <4>2 DEF ConsentInv
    <3> QED BY <3>1, <3>2
  <2> QED BY <2>1, <2>2, LedgerAfter
<1>3. ASSUME op'.pc \in {"note_approved", "store"}, NEW f \in Flows,
             NEW i \in DOMAIN wal',
             wal'[i].t = "capability_issued", wal'[i].flow = f, f = op'.flow
      PROVE  FALSE
  <2>1. CASE op' = op /\ wal' = wal
    BY <1>3, <2>1 DEF GrantsFollow
  <2>2. ASSUME NEW r \in Requests, NEW g \in Flows, ProposeForApproval(r, g)
        PROVE  FALSE
    BY <1>3, <2>2 DEF ProposeForApproval, Idle
  <2>3. ASSUME NEW r \in Requests, ProposeAllowed(r) PROVE FALSE
    BY <1>3, <2>3 DEF ProposeAllowed, Idle
  <2>4. ASSUME NEW g \in Flows, Approve(g) \/ Deny(g) PROVE FALSE
    <3>1. op'.flow = g /\ wal' = wal /\ Serving /\ flows[g].st = PENDING
      BY <2>4 DEF Approve, Deny, Idle, NoWal, MayCall, Guard, Serving
    <3>2. Logged(FlowResolution(f, AUTHORIZED)) /\ f = g
      BY <1>3, <3>1 DEF GrantsFollow
    <3>3. PICK k \in DOMAIN wal : Resolves(k, f)
      BY <3>2, NotedFields DEF Logged, Resolves
    <3> QED BY <3>1, <3>2, <3>3 DEF NotPending
  <2>5. CASE NoteApproved
    <3>1. op.pc = "note_approved" /\ op'.flow = op.flow
      BY <2>5 DEF NoteApproved, Goto, TypeOK, CallTyped
    <3>2. CASE wal' = wal
      BY <1>3, <3>1, <3>2 DEF GrantsFollow
    <3>3. ASSUME NEW rec, Longer(rec), Writes(rec) PROVE FALSE
      <4>1. rec.t # "capability_issued"
        BY <3>1, <3>3, NotedFields DEF Writes, Plain
      <4> QED BY <1>3, <3>1, <3>3, <4>1 DEF Longer, GrantsFollow
    <3> QED BY <3>2, <3>3, LedgerAfter
  <2> QED BY <1>3, <2>1, <2>2, <2>3, <2>4, <2>5, StepCalls DEF Deciding
<1> QED BY <1>2, <1>3 DEF GrantsFollow

(* Only a crash or a boot opens a log or changes the phase.                *)
LEMMA HostKept ==
  ASSUME TypeOK, [Next]_vars, ~BootStep, ~Crash
  PROVE  UNCHANGED <<phase, cursor, recoveryOk>> /\ (walOk' => walOk)
<1>0. walOk \in BOOLEAN
  BY DEF TypeOK, HostTyped
<1>1. ASSUME NEW rec, WalEmit(rec) PROVE walOk' => walOk
  BY <1>0, <1>1 DEF WalEmit
<1>2. CASE CallStep
  <2>1. UNCHANGED <<phase, cursor, recoveryOk>>
    BY <1>2 DEF CallStep, NoteRequest, NoteDenied, NoteApproved, Store,
       RevokeOne, ValidateRefused, Consume, NoteExecuted, StartRefused,
       StartExecution, RevokeEnd, Effect, NoteOutcome
  <2>2. NoWal \/ \E rec : WalEmit(rec)
    BY <1>2 DEF CallStep, NoteRequest, NoteDenied, NoteApproved, Store,
       RevokeOne, ValidateRefused, Consume, NoteExecuted, StartRefused,
       StartExecution, RevokeEnd, Effect, NoteOutcome, NoWal
  <2> QED BY <1>1, <2>1, <2>2 DEF NoWal
<1>3. ASSUME \/ Refuse \/ Suspend \/ RevokeBegin \/ UNCHANGED vars
             \/ \E r \in Requests : ProposeAllowed(r)
             \/ \E r \in Requests, g \in Flows : ProposeForApproval(r, g)
             \/ \E g \in Flows :
                  Approve(g) \/ Deny(g) \/ ResolveUndecided(g) \/ Expire(g)
      PROVE  UNCHANGED <<phase, cursor, recoveryOk, walOk>>
  BY <1>3 DEF Refuse, Suspend, RevokeBegin, ProposeAllowed,
     ProposeForApproval, Approve, Deny, ResolveUndecided, Expire, NoWal
<1> QED BY <1>2, <1>3 DEF Next

LEMMA LoggedOnceStep ==
  ASSUME TypeOK, GrantsFollow, LoggedOnce, [Next]_vars
  PROVE  LoggedOnce'
<1> USE DEF Grants
<1>1. CASE wal' = wal
  BY <1>1 DEF LoggedOnce
<1>2. ASSUME NEW rec, Longer(rec), Writes(rec) PROVE LoggedOnce'
  <2>1. rec.t = "capability_issued" /\ rec.flow \in Flows =>
          \A i \in DOMAIN wal :
            ~(wal[i].t = "capability_issued" /\ wal[i].flow = rec.flow)
    BY <1>2, NotedFields DEF Writes, Plain, GrantsFollow
  <2> QED BY <1>2, <2>1 DEF Longer, LoggedOnce
<1> QED BY <1>1, <1>2, LedgerAfter

(* How a capability comes to be in memory.                                 *)
ReplaysGrant(c, f) ==
  /\ ReplayRecord /\ phase = "recovering" /\ cursor \in DOMAIN wal
  /\ Grants(cursor, f) /\ wal[cursor].cap = c

LEMMA StepHolds ==
  ASSUME TypeOK, [Next]_vars, NEW c \in Caps, NEW f \in Flows,
         caps'[c].st = "issued", caps'[c].flow = f
  PROVE  \/ Held(c, f) /\ phase' = phase
         \/ Held(c, f) /\ BootStep
         \/ Store(c) /\ op.pc = "store" /\ op.flow = f
         \/ ReplaysGrant(c, f)
<1>0. /\ caps \in [Caps -> CapRec] /\ cursor \in Nat \ {0}
      /\ wal \in Seq(WalRec)
  BY DEF TypeOK, HostTyped, WalTyped, MemoryTyped
<1>1. CASE UNCHANGED caps /\ (phase' = phase \/ BootStep)
  BY <1>1 DEF Held
<1>2. CASE ReplayRecord
  <2>1. /\ phase = "recovering" /\ cursor <= Len(wal)
        /\ caps' = ReplayCap(caps, wal[cursor])
    BY <1>2 DEF ReplayRecord
  <2>2. cursor \in DOMAIN wal
    BY <1>0, <2>1
  <2> DEFINE rec == wal[cursor]
  <2>3. CASE rec.t = "capability_issued"
    <3>1. caps' = [caps EXCEPT ![rec.cap] = [NoCapRec EXCEPT
                     !.st = "issued", !.rid = rec.rid, !.flow = rec.flow]]
      BY <2>1, <2>3 DEF ReplayCap
    <3>2. CASE c = rec.cap
      <4>1. rec.flow = f
        BY <1>0, <3>1, <3>2 DEF NoCapRec
      <4> QED BY <1>2, <2>1, <2>2, <2>3, <3>2, <4>1 DEF ReplaysGrant, Grants
    <3>3. CASE c # rec.cap
      BY <1>0, <1>2, <3>1, <3>3 DEF Held, BootStep
    <3> QED BY <3>2, <3>3
  <2>4. CASE rec.t # "capability_issued"
    <3>1. \/ caps' = [caps EXCEPT ![rec.cap].used = TRUE]
          \/ caps' = [caps EXCEPT ![rec.cap].revoked = TRUE]
          \/ caps' = caps
      BY <2>1, <2>4, Zenon DEF ReplayCap
    <3> QED BY <1>0, <1>2, <3>1 DEF Held, BootStep, CapRec
  <2> QED BY <2>3, <2>4
<1>3. CASE BootStep /\ ~ReplayRecord
  BY <1>1, <1>3 DEF BootStep, Boot, Recovered, RecoveryFails
<1>4. CASE Crash
  BY <1>4 DEF Crash, NoCapRec
<1>5. ASSUME NEW d \in Caps, Store(d)
      PROVE  \/ Held(c, f) /\ phase' = phase
             \/ Store(c) /\ op.pc = "store" /\ op.flow = f
  <2>0. op.pc = "store" /\ phase' = phase
    BY <1>5 DEF Store
  <2>1. CASE caps' = caps
    BY <2>0, <2>1 DEF Held
  <2>2. CASE caps' = [caps EXCEPT ![d] = [NoCapRec EXCEPT
                        !.st = "issued", !.rid = op.rid, !.flow = op.flow]]
    <3>1. CASE c = d
      <4>1. caps'[c].flow = op.flow
        BY <1>0, <2>2, <3>1 DEF NoCapRec
      <4> QED BY <1>5, <2>0, <3>1, <4>1
    <3>2. CASE c # d
      BY <1>0, <2>0, <2>2, <3>2 DEF Held
    <3> QED BY <3>1, <3>2
  <2> QED BY <1>5, <2>1, <2>2 DEF Store
<1>6. ASSUME NEW d \in Caps, RevokeOne(d) PROVE Held(c, f) /\ phase' = phase
  <2>1. caps' = [caps EXCEPT ![d].revoked = TRUE] /\ phase' = phase
    BY <1>6 DEF RevokeOne
  <2> QED BY <1>0, <2>1 DEF Held, CapRec
<1>7. CASE Consume
  <2>1. caps' = [caps EXCEPT ![op.cap].used = TRUE] /\ phase' = phase
    BY <1>7 DEF Consume
  <2> QED BY <1>0, <2>1 DEF Held, CapRec
<1>8. ASSUME \/ NoteRequest \/ NoteDenied \/ NoteApproved \/ ValidateRefused
             \/ NoteExecuted \/ StartRefused \/ StartExecution \/ NoteOutcome
             \/ RevokeEnd \/ \E res \in Outcomes : Effect(res)
      PROVE  UNCHANGED caps /\ phase' = phase
  BY <1>8 DEF NoteRequest, NoteDenied, NoteApproved, ValidateRefused,
     NoteExecuted, StartRefused, StartExecution, NoteOutcome, RevokeEnd,
     Effect
<1>9. ASSUME \/ Refuse \/ Suspend \/ RevokeBegin \/ UNCHANGED vars
             \/ \E r \in Requests : ProposeAllowed(r)
             \/ \E r \in Requests, g \in Flows : ProposeForApproval(r, g)
             \/ \E g \in Flows :
                  Approve(g) \/ Deny(g) \/ ResolveUndecided(g) \/ Expire(g)
      PROVE  UNCHANGED caps /\ phase' = phase
  BY <1>9 DEF Refuse, Suspend, RevokeBegin, ProposeAllowed,
     ProposeForApproval, Approve, Deny, ResolveUndecided, Expire
<1> QED BY <1>1, <1>2, <1>3, <1>4, <1>5, <1>6, <1>7, <1>8, <1>9
        DEF Next, CallStep

LEMMA HeldOnceStep ==
  ASSUME TypeOK, RecoveredCall, LoggedOnce, HeldFollow, HeldOnce,
         [Next]_vars
  PROVE  HeldOnce'
<1> SUFFICES ASSUME NEW f \in Flows, NEW c \in Caps, NEW d \in Caps,
                    caps'[c].st = "issued", caps'[c].flow = f,
                    caps'[d].st = "issued", caps'[d].flow = f
             PROVE  c = d
  BY DEF HeldOnce, Held
<1>0. caps \in [Caps -> CapRec]
  BY DEF TypeOK, MemoryTyped
<1>1. ASSUME NEW a \in Caps, NEW b \in Caps, Store(a), op.pc = "store",
             op.flow = f, caps'[b].st = "issued", caps'[b].flow = f, a # b
      PROVE  FALSE
  <2>1. caps'[b] = caps[b]
    BY <1>0, <1>1 DEF Store
  <2> QED BY <1>1, <2>1 DEF HeldFollow, Held
<1>2. ASSUME NEW a \in Caps, NEW b \in Caps, ReplaysGrant(a, f),
             Held(b, f) \/ ReplaysGrant(b, f)
      PROVE  a = b
  <2>1. PICK i \in DOMAIN wal : Grants(i, f) /\ wal[i].cap = b
    BY <1>2 DEF ReplaysGrant, HeldFollow
  <2>2. i = cursor
    BY <1>2, <2>1 DEF ReplaysGrant, LoggedOnce
  <2> QED BY <1>2, <2>1, <2>2 DEF ReplaysGrant
<1>3. /\ Held(c, f) \/ (Store(c) /\ op.pc = "store" /\ op.flow = f)
           \/ ReplaysGrant(c, f)
      /\ Held(d, f) \/ (Store(d) /\ op.pc = "store" /\ op.flow = f)
           \/ ReplaysGrant(d, f)
  BY StepHolds
<1> QED BY <1>1, <1>2, <1>3 DEF HeldOnce

LEMMA HeldAsLoggedStep ==
  ASSUME TypeOK, RecoveredCall, GrantsFollow, LoggedOnce, HeldFollow,
         HeldAsLogged, [Next]_vars
  PROVE  HeldAsLogged'
<1> SUFFICES ASSUME NEW f \in Flows, NEW c \in Caps, NEW i \in DOMAIN wal',
                    caps'[c].st = "issued", caps'[c].flow = f,
                    wal'[i].t = "capability_issued", wal'[i].flow = f
             PROVE  wal'[i].cap = c
  BY DEF HeldAsLogged, Held, Grants
<1>1. CASE Store(c) /\ op.pc = "store" /\ op.flow = f
  <2>1. wal' = wal \/ WalEmit(CapIssued(c, op.rid, op.flow))
    BY <1>1 DEF Store, NoWal
  <2>2. i \notin DOMAIN wal \/ wal'[i] # wal[i]
    BY <1>1 DEF GrantsFollow, Grants
  <2>3. ASSUME wal' = Append(wal, CapIssued(c, op.rid, op.flow))
        PROVE  wal'[i].cap = c
    <3>1. wal \in Seq(WalRec)
      BY DEF TypeOK, WalTyped
    <3>2. wal'[i] = CapIssued(c, op.rid, op.flow)
      BY <2>2, <2>3, <3>1
    <3> QED BY <3>2 DEF CapIssued, Rec
  <2> QED BY <2>1, <2>2, <2>3 DEF WalEmit
<1>2. CASE ReplaysGrant(c, f)
  <2>1. wal' = wal
    BY <1>2 DEF ReplaysGrant, ReplayRecord, NoWal
  <2>2. i = cursor
    BY <1>2, <2>1 DEF ReplaysGrant, LoggedOnce, Grants
  <2> QED BY <1>2, <2>1, <2>2 DEF ReplaysGrant
<1>3. CASE Held(c, f)
  <2>1. CASE wal' = wal
    BY <1>3, <2>1 DEF HeldAsLogged, Grants
  <2>2. ASSUME NEW rec, Longer(rec), Writes(rec) PROVE wal'[i].cap = c
    <3>1. CASE i \in DOMAIN wal
      BY <1>3, <2>2, <3>1 DEF HeldAsLogged, Grants, Longer
    <3>2. CASE i \notin DOMAIN wal
      <4>1. rec.t = "capability_issued" /\ rec.flow = f
        BY <2>2, <3>2 DEF Longer
      <4>2. op.flow = f /\ op.pc = "store"
        BY <2>2, <4>1, NotedFields DEF Writes, Plain
      <4> QED BY <1>3, <4>2 DEF HeldFollow
    <3> QED BY <3>1, <3>2
  <2> QED BY <2>1, <2>2, LedgerAfter
<1> QED BY <1>1, <1>2, <1>3, StepHolds

(* The replayed boot knows that the flow of a capability it restored was   *)
(* approved; a broker that serves keeps to it.                             *)
LEMMA HeldFollowStep ==
  ASSUME TypeOK, RecoveredCall, ConsentInv, ResolvedOnce, NotPending,
         GrantsFollow, HeldFollow, [Next]_vars
  PROVE  HeldFollow'
<1>0. /\ flows \in [Flows -> FlowRec] /\ walOk \in BOOLEAN
      /\ cursor \in Nat \ {0} /\ wal \in Seq(WalRec)
  BY DEF TypeOK, HostTyped, WalTyped, MemoryTyped
<1>1. ASSUME phase' # "up", NEW f \in Flows, NEW c \in Caps,
             caps'[c].st = "issued", caps'[c].flow = f
      PROVE  \E i \in DOMAIN wal' :
               wal'[i].t = "capability_issued" /\ wal'[i].flow = f
                 /\ wal'[i].cap = c
  <2>1. phase # "up"
    <3>1. ~Crash
      BY <1>1 DEF Crash, NoCapRec
    <3>2. BootStep => phase # "up"
      BY DEF BootStep, Boot, ReplayRecord, Recovered, RecoveryFails
    <3> QED BY <1>1, <3>1, <3>2, HostKept
  <2>2. Held(c, f) \/ ReplaysGrant(c, f)
    BY <1>1, <2>1, StepHolds DEF RecoveredCall, Idle
  <2>3. PICK i \in DOMAIN wal : Grants(i, f) /\ wal[i].cap = c
    BY <2>1, <2>2 DEF HeldFollow, ReplaysGrant
  <2>4. i \in DOMAIN wal' /\ wal'[i] = wal[i]
    BY LedgerAfter DEF Longer
  <2> QED BY <2>3, <2>4 DEF Grants
<1>2. ASSUME Serving', NEW f \in Flows, NEW c \in Caps,
             caps'[c].st = "issued", caps'[c].flow = f
      PROVE  /\ flows'[f].st # PENDING
             /\ walOk' => Logged(FlowResolution(f, AUTHORIZED))'
  <2>1. CASE BootStep
    <3>1. Recovered
      BY <1>2, <2>1 DEF BootStep, Boot, ReplayRecord, RecoveryFails, Serving
    <3>2. /\ phase = "recovering" /\ cursor > Len(wal)
          /\ UNCHANGED <<flows, caps, wal>>
      BY <3>1 DEF Recovered, NoWal
    <3>3. PICK i \in DOMAIN wal : Grants(i, f)
      BY <1>2, <3>2 DEF HeldFollow, Held
    <3>4. Logged(FlowResolution(f, AUTHORIZED))
      BY <3>3 DEF GrantsFollow
    <3>5. PICK k \in DOMAIN wal : wal[k] = FlowResolution(f, AUTHORIZED)
      BY <3>4 DEF Logged
    <3>6. Resolves(k, f) /\ k < cursor
      BY <1>0, <3>2, <3>5, NotedFields DEF Resolves
    <3>7. flows[f].st # PENDING
      BY <3>2, <3>6 DEF NotPending
    <3> QED BY <3>2, <3>4, <3>7 DEF Logged
  <2>2. CASE Crash
    BY <1>2, <2>2 DEF Crash, Serving
  <2>3. CASE ~BootStep /\ ~Crash
    <3>1. Serving /\ (walOk' => walOk)
      BY <1>2, <2>3, HostKept DEF Serving
    <3>2. Held(c, f) \/ (Store(c) /\ op.pc = "store" /\ op.flow = f)
      BY <1>2, <2>3, StepHolds DEF ReplaysGrant, BootStep
    <3>3. CASE Held(c, f)
      <4>1. /\ flows[f].st # PENDING
            /\ walOk => Logged(FlowResolution(f, AUTHORIZED))
        BY <3>1, <3>3 DEF HeldFollow
      <4>2. ASSUME NEW r \in Requests, ProposeForApproval(r, f) PROVE FALSE
        <5>1. walOk /\ \A k \in DOMAIN wal : wal[k].flow # f
          BY <4>2 DEF ProposeForApproval, Guard, FreshFlow
        <5> QED BY <4>1, <5>1, NotedFields DEF Logged
      <4>3. flows'[f].st # PENDING
        BY <2>3, <4>1, <4>2, StepPends DEF BootStep
      <4> QED BY <3>1, <4>1, <4>3, LedgerGrows DEF Logged
    <3>4. CASE Store(c) /\ op.pc = "store" /\ op.flow = f
      <4>1. flows[f].st # PENDING /\ flows' = flows
        BY <3>4 DEF HeldFollow, Store
      <4>2. walOk => Logged(FlowResolution(f, AUTHORIZED))
        BY <3>4 DEF ConsentInv
      <4> QED BY <3>1, <4>1, <4>2, LedgerGrows DEF Logged
    <3> QED BY <3>2, <3>3, <3>4
  <2> QED BY <2>1, <2>2, <2>3
<1>3. ASSUME op'.pc = "store", op'.flow \in Flows
      PROVE  flows'[op'.flow].st # PENDING
  <2>1. CASE op' = op /\ wal' = wal
    <3>1. flows[op.flow].st # PENDING /\ op.flow \in Flows
      BY <1>3, <2>1 DEF HeldFollow
    <3> PICK f \in Flows : f = op.flow
      BY <3>1
    <3>2. ASSUME NEW r \in Requests, ProposeForApproval(r, f) PROVE FALSE
      BY <1>3, <2>1, <3>2 DEF ProposeForApproval, MayCall, Idle
    <3>3. ~ReplayRecord
      BY <1>3, <2>1 DEF RecoveredCall, ReplayRecord, Idle
    <3> QED BY <2>1, <3>1, <3>2, <3>3, StepPends
  <2>2. CASE NoteApproved
    <3>1. op.pc = "note_approved" /\ op'.flow = op.flow /\ flows' = flows
      BY <2>2 DEF NoteApproved, Goto, TypeOK, CallTyped
    <3> QED BY <3>1 DEF ResolvedOnce
  <2>3. ASSUME \/ \E r \in Requests, f \in Flows : ProposeForApproval(r, f)
               \/ \E r \in Requests : ProposeAllowed(r)
               \/ \E f \in Flows : Approve(f) \/ Deny(f)
        PROVE  FALSE
    BY <1>3, <2>3, NoneAssumption
       DEF ProposeForApproval, ProposeAllowed, Approve, Deny, Idle
  <2> QED BY <1>3, <2>1, <2>2, <2>3, StepCalls DEF Deciding
<1>4. ASSUME op'.pc \in {"note_approved", "store"}, NEW f \in Flows,
             NEW c \in Caps, caps'[c].st = "issued", caps'[c].flow = f,
             f = op'.flow
      PROVE  FALSE
  <2>1. CASE op' = op /\ wal' = wal
    <3>1. ~ReplayRecord
      BY <1>4, <2>1 DEF RecoveredCall, ReplayRecord, Idle
    <3>2. ~Store(c)
      <4>1. Store(c) => /\ op.pc = "store"
                        /\ \/ op' = [op EXCEPT !.pc = "validate", !.cap = c]
                           \/ op'.pc = "idle"
        BY DEF Store, Release, Idle
      <4>2. op' = [op EXCEPT !.pc = "validate", !.cap = c]
              => op'.pc = "validate"
        BY DEF TypeOK, CallTyped
      <4> QED BY <2>1, <4>1, <4>2
    <3>3. Held(c, f)
      BY <1>4, <3>1, <3>2, StepHolds DEF ReplaysGrant
    <3> QED BY <1>4, <2>1, <3>3 DEF HeldFollow
  <2>2. ASSUME NEW r \in Requests,
               \/ ProposeAllowed(r)
               \/ \E g \in Flows : ProposeForApproval(r, g)
        PROVE  FALSE
    BY <1>4, <2>2, NoneAssumption DEF ProposeAllowed, ProposeForApproval, Idle
  <2>3. ASSUME NEW g \in Flows, Approve(g) \/ Deny(g) PROVE FALSE
    <3>1. op'.flow = g /\ Serving /\ flows[g].st = PENDING /\ caps' = caps
      BY <2>3 DEF Approve, Deny, Idle, MayCall, Guard, Serving
    <3> QED BY <1>4, <3>1 DEF HeldFollow, Held
  <2>4. CASE NoteApproved
    <3>1. op.pc = "note_approved" /\ op'.flow = op.flow /\ caps' = caps
      BY <2>4 DEF NoteApproved, Goto, TypeOK, CallTyped
    <3> QED BY <1>4, <3>1 DEF HeldFollow, Held
  <2> QED BY <1>4, <2>1, <2>2, <2>3, <2>4, StepCalls DEF Deciding
<1> QED BY <1>1, <1>2, <1>3, <1>4 DEF HeldFollow, Held, Grants

(* Before the first boot the ledger and the memory are empty.              *)
THEOREM GrantInit == Init => GrantInv
BY DEF Init, GrantInv, RequestFirst, ResolvedOnce, NotPending, GrantsFollow,
       HeldFollow, LoggedOnce, HeldOnce, HeldAsLogged, Held, Grants, Resolves,
       Idle, Serving, NoCapRec

(* Every step keeps one request, one resolution and one grant per flow.    *)
THEOREM GrantStep ==
  TypeOK /\ RecoveredCall /\ ReplayedClaims /\ ConsentInv /\ GrantInv
    /\ [Next]_vars => GrantInv'
BY RequestFirstStep, ResolvedOnceStep, NotPendingStep, GrantsFollowStep,
   HeldFollowStep, LoggedOnceStep, HeldOnceStep, HeldAsLoggedStep DEF GrantInv

LEMMA GrantsAgree == GrantInv => OneGrantPerFlow
<1> SUFFICES ASSUME GrantInv, NEW f \in Flows
             PROVE  /\ \A i, j \in GrantOf(f) : i = j
                    /\ \A c, d \in HeldBy(f) : c = d
                    /\ \A c \in HeldBy(f), i \in GrantOf(f) : wal[i].cap = c
  BY DEF OneGrantPerFlow
<1> QED BY DEF GrantInv, LoggedOnce, HeldOnce, HeldAsLogged, Held, Grants,
               GrantOf, HeldBy

(* A flow has one capability, in memory and on the ledger, whichever       *)
(* appends fail and wherever the host crashes.                             *)
THEOREM GrantsAreSingle == Spec => []OneGrantPerFlow
<1>1. ClaimInv => RecoveredCall /\ ReplayedClaims
  BY DEF ClaimInv
<1> QED BY <1>1, GrantsAgree, TypeInit, TypeStep, ClaimInit, ClaimStep,
           ConsentInit, ConsentStep, GrantInit, GrantStep, PTL DEF Spec

LEMMA ResolutionsAgree ==
  TypeOK /\ ConsentInv /\ GrantInv => DenialOnRecordIsFinal
<1> SUFFICES ASSUME TypeOK, ConsentInv, GrantInv, NEW f \in ran,
                    Logged(FlowResolution(f, DENIED))
             PROVE  FALSE
  BY DEF DenialOnRecordIsFinal
<1>1. PICK i \in DOMAIN wal : wal[i] = FlowResolution(f, DENIED)
  BY DEF Logged
<1>2. PICK j \in DOMAIN wal : wal[j] = FlowResolution(f, AUTHORIZED)
  BY DEF ConsentInv, EffectHasConsent, Logged
<1>3. f \in Flows
  BY DEF TypeOK, HistoryTyped
<1>4. i = j
  BY <1>1, <1>2, <1>3, NotedFields DEF GrantInv, ResolvedOnce, Resolves
<1>5. wal[i].st = DENIED /\ wal[j].st = AUTHORIZED
  BY <1>1, <1>2, NotedFields
<1> QED BY <1>4, <1>5 DEF DENIED, AUTHORIZED

(* A denial on the ledger is final, whichever appends fail and wherever    *)
(* the host crashes.                                                       *)
THEOREM RecordedDenialsAreFinal == Spec => []DenialOnRecordIsFinal
<1>1. ClaimInv => RecoveredCall /\ ReplayedClaims
  BY DEF ClaimInv
<1> QED BY <1>1, ResolutionsAgree, TypeInit, TypeStep, ClaimInit, ClaimStep,
           ConsentInit, ConsentStep, GrantInit, GrantStep, PTL DEF Spec

----------------------------------------------------------------------------
(* With a ledger that takes every append, a denial that was returned is on *)
(* it: its flow, resolved once, was never approved.                        *)
DenialsLogged ==
  /\ ~WalCanFail
  /\ walOk <=> phase # "down"
  /\ \A f \in denied : Logged(FlowResolution(f, DENIED))

LEMMA DenialsLoggedStep ==
  ASSUME TypeOK, RecoveredCall, DenialsLogged, [Next]_vars
  PROVE  DenialsLogged'
<1> USE DEF NoWal
<1>0. ~WalCanFail /\ (walOk <=> phase # "down") /\ walOk \in BOOLEAN
      /\ wal \in Seq(WalRec)
  BY DEF DenialsLogged, TypeOK, HostTyped, WalTyped
<1>1. ASSUME NEW f, Logged(FlowResolution(f, DENIED))
      PROVE  Logged(FlowResolution(f, DENIED))'
  BY <1>1, LedgerGrows DEF Logged
<1>2. ASSUME NEW rec, WalEmit(rec) PROVE walOk' = walOk
  BY <1>0, <1>2 DEF WalEmit
<1>3. ASSUME denied' = denied, walOk' <=> phase' # "down"
      PROVE  DenialsLogged'
  BY <1>1, <1>3 DEF DenialsLogged, Logged
<1>4. CASE NoteDenied
  <2>1. walOk /\ phase' = phase /\ denied' = denied \cup {op.flow}
    BY <1>0, <1>4 DEF NoteDenied, RecoveredCall, Serving
  <2> PICK f : f = op.flow
    OBVIOUS
  <2>2. WalEmit(FlowResolution(f, DENIED)) /\ walOk'
    BY <1>2, <1>4, <2>1 DEF NoteDenied
  <2>3. Logged(FlowResolution(f, DENIED))'
    BY <1>0, <2>2, WalStores
  <2> QED BY <1>0, <1>1, <2>1, <2>2, <2>3 DEF DenialsLogged, Logged
<1>5. CASE \/ NoteRequest \/ NoteApproved \/ Consume \/ NoteExecuted
           \/ \E c \in Caps : RevokeOne(c)
  BY <1>0, <1>2, <1>3, <1>5
     DEF NoteRequest, NoteApproved, Consume, NoteExecuted, RevokeOne
<1>6. ASSUME \/ \E c \in Caps : Store(c)
             \/ StartExecution \/ NoteOutcome
      PROVE  DenialsLogged'
  <2>1. (walOk' = walOk \/ \E rec : WalEmit(rec)) /\ UNCHANGED <<phase, denied>>
    BY <1>6 DEF Store, StartExecution, NoteOutcome
  <2> QED BY <1>0, <1>2, <1>3, <2>1
<1>7. CASE Crash \/ BootStep
  BY <1>0, <1>3, <1>7
     DEF Crash, BootStep, Boot, ReplayRecord, Recovered, RecoveryFails
<1>8. ASSUME \/ Refuse \/ Suspend \/ RevokeBegin \/ UNCHANGED vars
             \/ \E r \in Requests : ProposeAllowed(r)
             \/ \E r \in Requests, f \in Flows : ProposeForApproval(r, f)
             \/ \E f \in Flows :
                  Approve(f) \/ Deny(f) \/ ResolveUndecided(f) \/ Expire(f)
             \/ ValidateRefused \/ StartRefused \/ RevokeEnd
             \/ \E res \in Outcomes : Effect(res)
      PROVE  DenialsLogged'
  <2>1. UNCHANGED <<walOk, phase, denied>>
    BY <1>8 DEF Refuse, Suspend, RevokeBegin, ProposeAllowed,
       ProposeForApproval, Approve, Deny, ResolveUndecided, Expire,
       ValidateRefused, StartRefused, RevokeEnd, Effect
  <2> QED BY <1>0, <1>3, <2>1
<1> QED BY <1>4, <1>5, <1>6, <1>7, <1>8 DEF Next, CallStep

(* As long as the ledger takes every append, a flow whose denial was       *)
(* returned to the operator never has an effect, after any number of       *)
(* restarts.  (Where an append may fail this is false.)                    *)
THEOREM DenialsAreFinal == ~WalCanFail /\ Spec => []DeniedNeverRuns
<1>1. ~WalCanFail /\ Init => DenialsLogged
  BY DEF Init, DenialsLogged
<1>2. TypeOK /\ RecoveredCall /\ DenialsLogged /\ [Next]_vars => DenialsLogged'
  BY DenialsLoggedStep
<1>3. ClaimInv => RecoveredCall /\ ReplayedClaims
  BY DEF ClaimInv
<1>4. TypeOK /\ ConsentInv /\ GrantInv /\ DenialsLogged => DeniedNeverRuns
  BY ResolutionsAgree DEF DenialOnRecordIsFinal, DeniedNeverRuns, DenialsLogged
<1> QED BY <1>1, <1>2, <1>3, <1>4, TypeInit, TypeStep, ClaimInit, ClaimStep,
           ConsentInit, ConsentStep, GrantInit, GrantStep, PTL DEF Spec

-----------------------------------------------------------------------------
(* The broker implements GovernedEffects: its initial state maps to an     *)
(* initial state, and every step to a claim, a run, a kill, a boot or a    *)
(* stutter.  ClaimInv gives the preconditions of a claim and a run,        *)
(* FenceInv that neither happens while a kill is in force.                 *)

(* A step that does not write a claim leaves the claimed requests alone.   *)
LEMMA ClaimedKept ==
  ASSUME TypeOK, [Next]_vars, ~NoteExecuted
  PROVE  ClaimedIds' = ClaimedIds
<1>1. \A r \in Requests : Claimed(r)' <=> Claimed(r)
  BY NewClaim, LedgerGrows DEF Claimed, RequestExecuted, Rec
<1> QED BY <1>1 DEF ClaimedIds

(* Only a tool's effect changes the effects.                               *)
LEMMA EffectsKept ==
  ASSUME [Next]_vars
  PROVE  UNCHANGED effects \/ \E res \in Outcomes : Effect(res)
<1>1. CASE BootStep
  BY <1>1 DEF BootStep, Boot, ReplayRecord, Recovered, RecoveryFails
<1>2. CASE CallStep
  BY <1>2
  DEF CallStep, NoteRequest, NoteDenied, NoteApproved, Store,
      ValidateRefused, Consume, NoteExecuted, StartRefused, StartExecution,
      NoteOutcome, RevokeOne, RevokeEnd
<1>3. CASE Next /\ ~CallStep /\ ~BootStep
  BY <1>3
  DEF Next, Refuse, ProposeAllowed, ProposeForApproval, Approve, Deny,
      ResolveUndecided, Expire, Suspend, RevokeBegin, Crash
<1>4. CASE UNCHANGED vars
  BY <1>4
<1> QED BY <1>1, <1>2, <1>3, <1>4

(* Only the end of a kill and a crash move the fence.                      *)
LEMMA FenceKept ==
  ASSUME [Next]_vars
  PROVE  UNCHANGED fenced \/ RevokeEnd \/ Crash
<1>1. CASE BootStep
  BY <1>1 DEF BootStep, Boot, ReplayRecord, Recovered, RecoveryFails
<1>2. CASE CallStep
  BY <1>2
  DEF CallStep, NoteRequest, NoteDenied, NoteApproved, Store,
      ValidateRefused, Consume, NoteExecuted, StartRefused, StartExecution,
      Effect, NoteOutcome, RevokeOne
<1>3. CASE Next /\ ~CallStep /\ ~BootStep
  BY <1>3
  DEF Next, Refuse, ProposeAllowed, ProposeForApproval, Approve, Deny,
      ResolveUndecided, Expire, Suspend, RevokeBegin
<1>4. CASE UNCHANGED vars
  BY <1>4
<1> QED BY <1>1, <1>2, <1>3, <1>4

(* Nothing is claimed and no tool has run before the first boot.           *)
THEOREM PromiseInit == Init => Promise!Init
<1> SUFFICES ASSUME Init PROVE Promise!Init
  OBVIOUS
<1>1. ClaimedIds = {}
  BY DEF Init, ClaimedIds, Claimed, Logged
<1> QED BY <1>1 DEF Init, Promise!Init

(* Every step of the broker is one of GovernedEffects or a stutter.        *)
THEOREM PromiseStep ==
  TypeOK /\ ClaimInv /\ FenceInv /\ [Next]_vars => [Promise!Next]_Promise!vars
<1> SUFFICES ASSUME TypeOK, ClaimInv, FenceInv, [Next]_vars
             PROVE  [Promise!Next]_Promise!vars
  OBVIOUS
<1> USE DEF Promise!vars
<1>1. CASE NoteExecuted
  <2>1. op.rid \in Requests /\ ~fenced /\ UNCHANGED <<effects, fenced>>
    BY <1>1 DEF NoteExecuted, FenceInv, TypeOK, CallTyped
  <2>2. \A r \in Requests : Claimed(r) => Claimed(r)'
    BY LedgerGrows DEF Claimed, RequestExecuted, Rec
  <2>3. \A r \in Requests : Claimed(r)' => Claimed(r) \/ r = op.rid
    BY NewClaim
  <2>4. \/ ClaimedIds' = ClaimedIds
        \/ op.rid \notin ClaimedIds /\ ClaimedIds' = ClaimedIds \cup {op.rid}
    BY <2>1, <2>2, <2>3 DEF ClaimedIds
  <2> QED BY <2>1, <2>4 DEF Promise!Next, Promise!Claim
<1>2. ASSUME NEW res \in Outcomes, Effect(res)
      PROVE  [Promise!Next]_Promise!vars
  <2>1. ~NoteExecuted
    BY <1>2 DEF Effect, NoteExecuted
  <2>2. ClaimedIds' = ClaimedIds
    BY <2>1, ClaimedKept
  <2>3. /\ op.rid \in Requests /\ Claimed(op.rid)
        /\ effects[op.rid] = 0 /\ effects \in [Requests -> Nat]
    BY <1>2 DEF Effect, ClaimInv, OwnClaim, TypeOK, CallTyped, HistoryTyped
  <2>4. op.rid \in ClaimedIds
    BY <2>3 DEF ClaimedIds
  <2>5. ~fenced /\ fenced' = fenced
    BY <1>2 DEF Effect, FenceInv
  <2>6. effects' = effects \/ effects' = [effects EXCEPT ![op.rid] = 1]
    BY <1>2, <2>3 DEF Effect
  <2> QED BY <2>2, <2>3, <2>4, <2>5, <2>6 DEF Promise!Next, Promise!Run
<1>3. ASSUME RevokeEnd \/ Crash PROVE [Promise!Next]_Promise!vars
  <2>1. ~NoteExecuted
    BY <1>3 DEF RevokeEnd, Crash, NoteExecuted, Goto, TypeOK, CallTyped, Idle
  <2>2. ClaimedIds' = ClaimedIds /\ effects' = effects
    BY <1>3, <2>1, ClaimedKept DEF RevokeEnd, Crash
  <2>3. fenced' \in BOOLEAN
    BY <1>3 DEF RevokeEnd, Crash, TypeOK, HostTyped
  <2> QED BY <2>2, <2>3 DEF Promise!Next, Promise!Fence, Promise!Boot
<1>4. CASE /\ ~NoteExecuted /\ ~RevokeEnd /\ ~Crash
           /\ ~\E res \in Outcomes : Effect(res)
  BY <1>4, ClaimedKept, EffectsKept, FenceKept
<1> QED BY <1>1, <1>2, <1>3, <1>4

(* The broker implements GovernedEffects, for every set of requests, flows *)
(* and capabilities and any pattern of crashes and failing logs.           *)
THEOREM BrokerKeepsPromise == Spec => ImplementsPromise
<1>1. ClaimInv => RecoveredCall
  BY DEF ClaimInv
<1> QED BY <1>1, TypeInit, TypeStep, ClaimInit, ClaimStep, FenceInit,
           FenceStep, PromiseInit, PromiseStep,
           PTL DEF Spec, ImplementsPromise, Promise!Spec

-----------------------------------------------------------------------------
(* MemoryIsReplay.  A rebuild is a recursive function of the number of     *)
(* records, so what it computes is shown by induction.  The induction rule *)
(* of the library quantifies over predicates; for a set of numbers below a *)
(* bound it follows from the pigeonhole principle: if n were missing, the  *)
(* map that moves each member of D one up and fixes the rest would be an   *)
(* injection of 0 .. n into 1 .. n.                                        *)
LEMMA Induct ==
  ASSUME NEW n \in Nat, NEW D, 0 \in D,
         \A i \in 0 .. n - 1 : i \in D => i + 1 \in D
  PROVE  n \in D
<1> SUFFICES ASSUME n \notin D PROVE FALSE
  OBVIOUS
<1> DEFINE f == [i \in 0 .. n |-> IF i \in D THEN i + 1 ELSE i]
<1>1. f \in [0 .. n -> 1 .. n]
  <2> SUFFICES ASSUME NEW i \in 0 .. n PROVE f[i] \in 1 .. n
    OBVIOUS
  <2>1. CASE i \in D
    BY <2>1
  <2>2. CASE i \notin D
    BY <2>2
  <2> QED BY <2>1, <2>2
<1>2. \A i, j \in 0 .. n : i # j => f[i] # f[j]
  OBVIOUS
<1>3. Cardinality(0 .. n) = n + 1 /\ IsFiniteSet(0 .. n)
  BY FS_Interval
<1>4. Cardinality(1 .. n) = n /\ IsFiniteSet(1 .. n)
  BY FS_Interval
<1> HIDE DEF f
<1>5. Cardinality(1 .. n) < Cardinality(0 .. n)
  BY <1>3, <1>4
<1> QED BY <1>1, <1>2, <1>3, <1>4, <1>5, FS_PigeonHole

(* The function that Rebuilt chooses exists: a rebuild of n records is     *)
(* extended by one more.                                                   *)
LEMMA RebuildExists ==
  ASSUME NEW log, Len(log) \in Nat
  PROVE  \E g : g = [i \in 0 .. Len(log) |->
                       IF i = 0 THEN Blank ELSE Replayed(g[i - 1], log[i])]
<1> DEFINE Of(n, g) == g = [i \in 0 .. n |->
                       IF i = 0 THEN Blank ELSE Replayed(g[i - 1], log[i])]
           D == {n \in 0 .. Len(log) : \E g : Of(n, g)}
<1>1. 0 \in D
  <2> DEFINE blank == [i \in 0 .. 0 |-> Blank]
  <2>1. Of(0, blank)
    OBVIOUS
  <2> HIDE DEF Of, blank
  <2> QED BY <2>1
<1>2. ASSUME NEW n \in 0 .. Len(log) - 1, n \in D PROVE n + 1 \in D
  <2>1. PICK g : Of(n, g)
    BY <1>2
  <2> DEFINE h == [i \in 0 .. n + 1 |->
                     IF i <= n THEN g[i] ELSE Replayed(g[n], log[n + 1])]
  <2>2. ASSUME NEW i \in 0 .. n + 1
        PROVE  h[i] = IF i = 0 THEN Blank ELSE Replayed(h[i - 1], log[i])
    <3>1. CASE i = 0
      <4>1. h[i] = g[i]
        BY <3>1
      <4>2. g[i] = Blank
        BY <2>1, <3>1
      <4> QED BY <3>1, <4>1, <4>2
    <3>2. CASE i \in 1 .. n
      <4>1. h[i] = g[i] /\ h[i - 1] = g[i - 1]
        BY <3>2
      <4>2. g[i] = Replayed(g[i - 1], log[i])
        BY <2>1, <3>2
      <4>3. i # 0
        BY <3>2
      <4> QED BY <4>1, <4>2, <4>3
    <3>3. CASE i = n + 1
      <4>1. h[i] = Replayed(g[n], log[i]) /\ h[i - 1] = g[n] /\ i # 0
        BY <3>3
      <4> QED BY <4>1
    <3> QED BY <3>1, <3>2, <3>3
  <2>3. Of(n + 1, h)
    BY <2>2
  <2> HIDE DEF Of, h
  <2> QED BY <2>3
<1> HIDE DEF D
<1>3. Len(log) \in D
  BY <1>1, <1>2, Induct
<1> QED BY <1>3 DEF D

(* A rebuild starts with a blank memory and replays one record at a time.  *)
LEMMA RebuildSteps ==
  ASSUME NEW log, Len(log) \in Nat
  PROVE  /\ Rebuilt(log)[0] = Blank
         /\ \A n \in 1 .. Len(log) :
              Rebuilt(log)[n] = Replayed(Rebuilt(log)[n - 1], log[n])
<1> DEFINE m == Rebuilt(log)
<1>1. m = [i \in 0 .. Len(log) |->
             IF i = 0 THEN Blank ELSE Replayed(m[i - 1], log[i])]
  BY RebuildExists DEF Rebuilt
<1> HIDE DEF m
<1>2. m[0] = Blank
  BY <1>1
<1>3. ASSUME NEW n \in 1 .. Len(log) PROVE m[n] = Replayed(m[n - 1], log[n])
  <2>1. n \in 0 .. Len(log) /\ n # 0
    OBVIOUS
  <2> QED BY <1>1, <2>1
<1> QED BY <1>2, <1>3 DEF m

(* A longer log rebuilds what the shorter one did, and then the new record. *)
LEMMA RebuildGrows ==
  ASSUME NEW log \in Seq(WalRec), NEW rec
  PROVE  Rebuilt(Append(log, rec))[Len(log) + 1]
           = Replayed(Rebuilt(log)[Len(log)], rec)
<1> DEFINE l == Append(log, rec)
           n == Len(log)
           D == {i \in 0 .. n : Rebuilt(l)[i] = Rebuilt(log)[i]}
<1>1. /\ n \in Nat /\ Len(l) = n + 1 /\ l[n + 1] = rec
      /\ \A i \in 1 .. n : l[i] = log[i]
  OBVIOUS
<1> HIDE DEF l, n
<1>2. /\ Rebuilt(log)[0] = Blank /\ Rebuilt(l)[0] = Blank
      /\ \A i \in 1 .. n :
           Rebuilt(log)[i] = Replayed(Rebuilt(log)[i - 1], log[i])
      /\ \A i \in 1 .. n + 1 :
           Rebuilt(l)[i] = Replayed(Rebuilt(l)[i - 1], l[i])
  BY <1>1, RebuildSteps DEF n
<1>3. 0 \in D
  BY <1>1, <1>2
<1>4. ASSUME NEW i \in 0 .. n - 1, i \in D PROVE i + 1 \in D
  <2>1. i + 1 \in 1 .. n /\ i + 1 \in 1 .. n + 1 /\ i + 1 - 1 = i
    BY <1>1
  <2>2. Rebuilt(log)[i + 1] = Replayed(Rebuilt(log)[i], log[i + 1])
    BY <1>1, <2>1, <1>2
  <2>3. Rebuilt(l)[i + 1] = Replayed(Rebuilt(l)[i], l[i + 1])
    BY <1>1, <2>1, <1>2
  <2> QED BY <1>1, <1>4, <2>1, <2>2, <2>3
<1>5. n \in D
  <2> HIDE DEF D
  <2> QED BY <1>1, <1>3, <1>4, Induct
<1>6. Rebuilt(l)[n + 1] = Replayed(Rebuilt(l)[n], l[n + 1])
  <2>1. n + 1 \in 1 .. n + 1 /\ n + 1 - 1 = n
    BY <1>1
  <2> QED BY <1>1, <2>1, <1>2
<1> QED BY <1>1, <1>5, <1>6 DEF l, n

(* Replaying a record keeps the type of the flows.                         *)
LEMMA ReplayedFlows ==
  ASSUME NEW fl \in [Flows -> FlowRec], NEW rec \in WalRec
  PROVE  ReplayFlow(fl, rec) \in [Flows -> FlowRec]
BY DEF ReplayFlow, WalRec, FlowRec, FlowStates

(* So every rebuild ends in well-typed flows.                              *)
LEMMA RebuiltFlows ==
  ASSUME NEW log \in Seq(WalRec)
  PROVE  Rebuilt(log)[Len(log)].flows \in [Flows -> FlowRec]
<1> DEFINE n == Len(log)
           D == {i \in 0 .. n : Rebuilt(log)[i].flows \in [Flows -> FlowRec]}
<1>1. n \in Nat /\ \A i \in 1 .. n : log[i] \in WalRec
  OBVIOUS
<1> HIDE DEF n
<1>2. 0 \in D
  BY <1>1, RebuildSteps DEF Blank, NoFlowRec, FlowRec, n
<1>3. ASSUME NEW i \in 0 .. n - 1, i \in D PROVE i + 1 \in D
  <2>1. i + 1 \in 1 .. n /\ i + 1 - 1 = i
    BY <1>1
  <2>2. Rebuilt(log)[i + 1] = Replayed(Rebuilt(log)[i], log[i + 1])
    BY <1>1, <2>1, RebuildSteps DEF n
  <2>3. Rebuilt(log)[i + 1].flows
          = ReplayFlow(Rebuilt(log)[i].flows, log[i + 1])
    BY <2>2 DEF Replayed
  <2>4. log[i + 1] \in WalRec
    BY <1>1, <2>1
  <2>5. Rebuilt(log)[i].flows \in [Flows -> FlowRec]
    BY <1>3
  <2>6. ReplayFlow(Rebuilt(log)[i].flows, log[i + 1]) \in [Flows -> FlowRec]
    BY <2>4, <2>5, ReplayedFlows
  <2> QED BY <2>1, <2>3, <2>6
<1>4. n \in D
  <2> HIDE DEF D
  <2> QED BY <1>1, <1>2, <1>3, Induct
<1> QED BY <1>4 DEF n

-----------------------------------------------------------------------------
(* The invariant behind MemoryIsReplay.  While a boot replays, memory is   *)
(* the rebuild of the records before the cursor (BootReplays).  While the  *)
(* broker serves on an open ledger (Replayable), memory is the rebuild of  *)
(* the whole of it, but for what the call in flight has yet to write: the  *)
(* request id it consumed, the flow it opened or resolved.                 *)
Remembers(m) == flows = m.flows /\ caps = m.caps /\ executed = m.executed

BootReplays ==
  /\ phase = "down" => cursor = 1 /\ Remembers(Blank)
  /\ phase = "recovering" =>
       cursor <= Len(wal) + 1 /\ Remembers(Rebuilt(wal)[cursor - 1])

Replayable == Serving /\ walOk

CapsReplay == Replayable => caps = Restored.caps

Consumed == IF op.pc = "note_executed" THEN {op.rid} ELSE {}

ExecutedReplay == Replayable => executed = Restored.executed \cup Consumed

Telling == op.pc \in {"note_request", "note_denied", "note_approved"}

Untold(f) ==
  \/ /\ op.pc = "note_request"
     /\ flows[f] = [st |-> PENDING, rid |-> op.rid]
  \/ /\ op.pc \in {"note_denied", "note_approved"}
     /\ Restored.flows[f].st # "none"
     /\ flows[f] = [Restored.flows[f] EXCEPT !.st =
                      IF op.pc = "note_denied" THEN DENIED ELSE AUTHORIZED]

FlowsReplay ==
  Replayable => \A f \in Flows :
    IF Telling /\ f = op.flow THEN Untold(f) ELSE Restores(f)

IssuedCall == op.pc = "validate" => caps[op.cap].st = "issued"

ReplayInv ==
  BootReplays /\ CapsReplay /\ ExecutedReplay /\ FlowsReplay /\ IssuedCall

(* What a boot would restore after a step that writes a record, and after  *)
(* one that writes none.                                                   *)
LEMMA RestoredAfter ==
  ASSUME TypeOK
  PROVE  /\ wal' = wal => Restored' = Restored
         /\ \A rec : WalEmit(rec) /\ walOk' =>
                       walOk /\ Restored' = Replayed(Restored, rec)
<1>0. wal \in Seq(WalRec) /\ walOk \in BOOLEAN /\ Len(wal) \in Nat
  BY DEF TypeOK, WalTyped, HostTyped
<1>1. ASSUME wal' = wal PROVE Restored' = Restored
  BY <1>1 DEF Restored
<1>2. ASSUME NEW rec, WalEmit(rec), walOk'
      PROVE  walOk /\ Restored' = Replayed(Restored, rec)
  <2>1. walOk /\ wal' = Append(wal, rec)
    BY <1>0, <1>2, WalEmitEffect
  <2>2. Len(wal') = Len(wal) + 1
    BY <1>0, <2>1
  <2>3. Restored' = Rebuilt(Append(wal, rec))[Len(wal) + 1]
    BY <2>1, <2>2 DEF Restored
  <2> QED BY <1>0, <2>1, <2>3, RebuildGrows DEF Restored
<1> QED BY <1>1, <1>2

(* A broker that can be replayed after a step could be before it, unless   *)
(* the step ended a recovery.                                              *)
LEMMA ReplayableSteps ==
  ASSUME TypeOK, RecoveredCall, [Next]_vars, Replayable'
  PROVE  Recovered \/ Replayable
<1>0. walOk \in BOOLEAN
  BY DEF TypeOK, HostTyped
<1> USE DEF Replayable, Serving, NoWal
<1>1. ASSUME NEW rec, WalEmit(rec) PROVE walOk
  BY <1>0, <1>1, WalEmitEffect
<1>2. ASSUME ~BootStep, ~Crash
      PROVE  UNCHANGED <<phase, recoveryOk>> /\ (UNCHANGED walOk \/ walOk)
  <2>1. CASE CallStep
    <3>1. CASE NoteRequest \/ NoteDenied \/ NoteApproved
      BY <1>1, <3>1 DEF NoteRequest, NoteDenied, NoteApproved
    <3>2. ASSUME NEW c \in Caps, Store(c) \/ RevokeOne(c)
          PROVE  UNCHANGED <<phase, recoveryOk>> /\ (UNCHANGED walOk \/ walOk)
      BY <1>1, <3>2 DEF Store, RevokeOne
    <3>3. CASE Consume \/ NoteExecuted
      BY <1>1, <3>3 DEF Consume, NoteExecuted
    <3>4. CASE StartExecution \/ NoteOutcome
      BY <1>1, <3>4 DEF StartExecution, NoteOutcome
    <3>5. ASSUME \/ ValidateRefused \/ StartRefused \/ RevokeEnd
                 \/ \E res \in Outcomes : Effect(res)
          PROVE  UNCHANGED <<phase, recoveryOk, walOk>>
      BY <3>5 DEF ValidateRefused, StartRefused, RevokeEnd, Effect
    <3> QED BY <2>1, <3>1, <3>2, <3>3, <3>4, <3>5 DEF CallStep
  <2>2. ASSUME NEW f \in Flows,
               Approve(f) \/ Deny(f) \/ ResolveUndecided(f) \/ Expire(f)
        PROVE  UNCHANGED <<phase, recoveryOk, walOk>>
    BY <2>2 DEF Approve, Deny, ResolveUndecided, Expire
  <2>3. ASSUME NEW r \in Requests,
               \/ ProposeAllowed(r)
               \/ \E f \in Flows : ProposeForApproval(r, f)
        PROVE  UNCHANGED <<phase, recoveryOk, walOk>>
    BY <2>3 DEF ProposeAllowed, ProposeForApproval
  <2>4. ASSUME Refuse \/ Suspend \/ RevokeBegin \/ UNCHANGED vars
        PROVE  UNCHANGED <<phase, recoveryOk, walOk>>
    BY <2>4 DEF Refuse, Suspend, RevokeBegin
  <2> QED BY <1>2, <2>1, <2>2, <2>3, <2>4 DEF Next
<1>3. ASSUME Crash \/ Boot \/ ReplayRecord \/ RecoveryFails PROVE FALSE
  BY <1>3 DEF Crash, Boot, ReplayRecord, RecoveryFails
<1> QED BY <1>2, <1>3 DEF BootStep

(* While a host is down or recovering no call is in flight: only the boot, *)
(* the wall clock and a crash take steps.                                  *)
LEMMA StepsOffline ==
  ASSUME RecoveredCall, phase # "up", [Next]_vars
  PROVE  \/ BootStep \/ Crash \/ UNCHANGED vars
         \/ \E f \in Flows : Expire(f)
<1>1. op = Idle
  BY DEF RecoveredCall
<1>2. ~CallStep
  BY <1>1 DEF Idle, CallStep, NoteRequest, NoteDenied, NoteApproved, Store,
     ValidateRefused, Consume, NoteExecuted, StartRefused, StartExecution,
     Effect, NoteOutcome, RevokeOne, RevokeEnd
<1>3. ~Refuse /\ ~Suspend /\ ~RevokeBegin
  BY DEF Refuse, Suspend, RevokeBegin, MayCall
<1>4. ASSUME NEW f \in Flows
      PROVE  ~Approve(f) /\ ~Deny(f) /\ ~ResolveUndecided(f)
  BY DEF Approve, Deny, ResolveUndecided, MayCall
<1>5. ASSUME NEW r \in Requests
      PROVE  ~ProposeAllowed(r)
             /\ \A f \in Flows : ~ProposeForApproval(r, f)
  BY DEF ProposeAllowed, ProposeForApproval, MayCall
<1> QED BY <1>2, <1>3, <1>4, <1>5 DEF Next

(* A boot starts from a blank memory and replays one record at a time.     *)
LEMMA BootReplaysStep ==
  ASSUME TypeOK, RecoveredCall, BootReplays, [Next]_vars
  PROVE  BootReplays'
<1>0. wal \in Seq(WalRec) /\ Len(wal) \in Nat /\ cursor \in Nat \ {0}
  BY DEF TypeOK, WalTyped, HostTyped
<1>r. Rebuilt(wal)[0] = Blank
  BY <1>0, RebuildSteps
<1> USE DEF BootReplays, Remembers, NoWal
<1>1. CASE Crash
  BY <1>1 DEF Crash, Blank
<1>2. CASE Boot
  <2>1. cursor' - 1 = 0 /\ wal' = wal
    BY <1>2 DEF Boot
  <2>2. phase' = "recovering" /\ Remembers(Blank)' /\ cursor' <= Len(wal) + 1
    BY <1>0, <1>2 DEF Boot, Blank
  <2>3. Rebuilt(wal')[cursor' - 1] = Blank
    BY <1>r, <2>1
  <2> QED BY <2>1, <2>2, <2>3
<1>3. CASE ReplayRecord
  <2> DEFINE m == Rebuilt(wal)[cursor - 1]
  <2>1. /\ Remembers(m) /\ wal' = wal /\ phase' = "recovering"
        /\ cursor \in 1 .. Len(wal) /\ cursor' = cursor + 1
    BY <1>0, <1>3 DEF ReplayRecord
  <2>2. Rebuilt(wal)[cursor] = Replayed(m, wal[cursor])
    BY <1>0, <2>1, RebuildSteps
  <2> HIDE DEF m
  <2>3. /\ flows' = ReplayFlow(m.flows, wal[cursor])
        /\ caps' = ReplayCap(m.caps, wal[cursor])
        /\ executed' = ReplayExecuted(m.executed, wal[cursor])
    BY <1>3, <2>1 DEF ReplayRecord
  <2>4. Rebuilt(wal')[cursor' - 1] = Replayed(m, wal[cursor])
    BY <1>0, <2>1, <2>2
  <2> QED BY <1>0, <2>1, <2>3, <2>4 DEF Replayed
<1>4. CASE Recovered \/ RecoveryFails
  BY <1>4 DEF Recovered, RecoveryFails
<1>5. ASSUME UNCHANGED vars \/ \E f \in Flows : Expire(f) PROVE BootReplays'
  BY <1>5 DEF Expire
<1>6. CASE phase = "up" /\ ~Crash
  <2>1. phase' = "up"
    <3>1. ~BootStep
      BY <1>6 DEF BootStep, Boot, ReplayRecord, Recovered, RecoveryFails
    <3>2. CallStep => phase' = phase
      BY DEF CallStep, NoteRequest, NoteDenied, NoteApproved, Store,
         ValidateRefused, Consume, NoteExecuted, StartRefused,
         StartExecution, Effect, NoteOutcome, RevokeOne, RevokeEnd
    <3>3. ASSUME \/ Refuse \/ Suspend \/ RevokeBegin \/ UNCHANGED vars
                 \/ \E r \in Requests : ProposeAllowed(r)
                 \/ \E r \in Requests, f \in Flows : ProposeForApproval(r, f)
                 \/ \E f \in Flows : \/ Approve(f) \/ Deny(f)
                                     \/ ResolveUndecided(f) \/ Expire(f)
          PROVE  phase' = phase
      BY <3>3 DEF Refuse, Suspend, RevokeBegin, ProposeAllowed,
         ProposeForApproval, Approve, Deny, ResolveUndecided, Expire
    <3> QED BY <1>6, <3>1, <3>2, <3>3 DEF Next
  <2> QED BY <2>1
<1> QED BY <1>1, <1>2, <1>3, <1>4, <1>5, <1>6, StepsOffline DEF BootStep

(* A recovery ends with the whole ledger replayed.                         *)
LEMMA RecoveredMemory ==
  ASSUME TypeOK, RecoveredCall, BootReplays, Recovered
  PROVE  /\ flows' = Restored'.flows /\ caps' = Restored'.caps
         /\ executed' = Restored'.executed /\ op' = Idle
<1>0. Len(wal) \in Nat /\ cursor \in Nat \ {0}
  BY DEF TypeOK, WalTyped, HostTyped
<1>1. cursor - 1 = Len(wal) /\ Remembers(Rebuilt(wal)[cursor - 1])
  BY <1>0 DEF Recovered, BootReplays
<1>2. wal' = wal /\ UNCHANGED <<flows, caps, executed, op>> /\ op = Idle
  BY DEF Recovered, NoWal, RecoveredCall
<1>3. Restored' = Restored
  BY <1>2, RestoredAfter
<1> QED BY <1>1, <1>2, <1>3 DEF Restored, Remembers

(* A broker that stays replayable does not boot or crash.                  *)
LEMMA StepsOnline ==
  ASSUME Replayable, Replayable' PROVE walOk' /\ ~BootStep /\ ~Crash
<1>1. walOk' /\ phase = "up"
  BY DEF Replayable, Serving
<1>2. ~BootStep
  BY <1>1 DEF BootStep, Boot, ReplayRecord, Recovered, RecoveryFails
<1>3. ~Crash
  BY <1>1 DEF Crash
<1> QED BY <1>1, <1>2, <1>3

(* A call that validates its capability has one that was issued.           *)
LEMMA IssuedCallStep ==
  ASSUME TypeOK, RecoveredCall, IssuedCall, [Next]_vars
  PROVE  IssuedCall'
<1> USE DEF IssuedCall
<1>0. /\ op = [pc |-> op.pc, rid |-> op.rid, flow |-> op.flow,
               cap |-> op.cap, res |-> op.res]
      /\ caps \in [Caps -> CapRec]
  BY DEF TypeOK, CallTyped, MemoryTyped
<1>1. ASSUME NEW c \in Caps, Store(c) PROVE IssuedCall'
  <2>1. CASE auditOk'
    <3>1. /\ op' = [op EXCEPT !.pc = "validate", !.cap = c]
          /\ caps' = [caps EXCEPT ![c] = [NoCapRec EXCEPT !.st = "issued",
                                            !.rid = op.rid, !.flow = op.flow]]
      BY <1>1, <2>1 DEF Store
    <3>2. op'.cap = c
      BY <1>0, <3>1
    <3>3. caps'[c].st = "issued"
      BY <1>0, <3>1 DEF NoCapRec
    <3> QED BY <3>2, <3>3
  <2>2. CASE ~auditOk'
    BY <1>1, <2>2 DEF Store, Release, Idle
  <2> QED BY <2>1, <2>2
<1>2. ASSUME \/ NoteRequest \/ NoteDenied \/ ValidateRefused \/ StartRefused
             \/ NoteOutcome \/ RevokeEnd \/ Crash
             \/ \E c \in Caps : RevokeOne(c)
      PROVE  op'.pc # "validate"
  BY <1>2 DEF NoteRequest, NoteDenied, ValidateRefused, StartRefused,
     NoteOutcome, RevokeEnd, Crash, RevokeOne, Release, Idle
<1>3. ASSUME \/ NoteApproved \/ Consume \/ NoteExecuted \/ StartExecution
      PROVE  op'.pc # "validate"
  <2>1. \A p : Goto(p) => op'.pc = p
    BY <1>0 DEF Goto
  <2> QED BY <1>3, <2>1 DEF NoteApproved, Consume, NoteExecuted,
                            StartExecution
<1>4. ASSUME NEW res \in Outcomes, Effect(res) PROVE op'.pc # "validate"
  BY <1>0, <1>4 DEF Effect
<1>5. ASSUME NEW r \in Requests,
             \/ ProposeAllowed(r)
             \/ \E f \in Flows : ProposeForApproval(r, f)
      PROVE  op'.pc # "validate"
  BY <1>5 DEF ProposeAllowed, ProposeForApproval, Idle
<1>6. ASSUME NEW f \in Flows, Approve(f) \/ Deny(f)
      PROVE  op'.pc # "validate"
  BY <1>6 DEF Approve, Deny, Idle
<1>7. ASSUME RevokeBegin PROVE op'.pc # "validate"
  BY <1>7 DEF RevokeBegin, Idle
<1>8. ASSUME \/ Refuse \/ Suspend \/ UNCHANGED vars
             \/ \E f \in Flows : ResolveUndecided(f) \/ Expire(f)
      PROVE  UNCHANGED <<op, caps>>
  BY <1>8 DEF Refuse, Suspend, ResolveUndecided, Expire
<1>9. ASSUME BootStep PROVE op'.pc # "validate"
  <2>1. op' = op /\ phase # "up"
    BY <1>9 DEF BootStep, Boot, ReplayRecord, Recovered, RecoveryFails
  <2> QED BY <2>1 DEF RecoveredCall, Idle
<1> QED BY <1>1, <1>2, <1>3, <1>4, <1>5, <1>6, <1>7, <1>8, <1>9
        DEF Next, CallStep

(* Every change of a capability is logged in the step that makes it, as    *)
(* the record that a replay turns into the same change.                    *)
LEMMA CapsReplayStep ==
  ASSUME TypeOK, RecoveredCall, BootReplays, IssuedCall, CapsReplay,
         [Next]_vars
  PROVE  CapsReplay'
<1> SUFFICES ASSUME Replayable', Replayable
             PROVE  caps' = Restored'.caps
  BY ReplayableSteps, RecoveredMemory DEF CapsReplay
<1>0. caps = Restored.caps /\ walOk' /\ ~BootStep /\ ~Crash
  BY StepsOnline DEF CapsReplay
<1>a. ASSUME UNCHANGED <<caps, wal>> PROVE caps' = Restored'.caps
  BY <1>0, <1>a, RestoredAfter
<1>b. ASSUME NEW rec, WalEmit(rec), caps' = ReplayCap(caps, rec)
      PROVE  caps' = Restored'.caps
  BY <1>0, <1>b, RestoredAfter DEF Replayed
<1>c. ASSUME NEW rec, WalEmit(rec), UNCHANGED caps,
             rec.t \notin {"capability_issued", "capability_used",
                           "capability_revoked"}
      PROVE  caps' = Restored'.caps
  BY <1>b, <1>c DEF ReplayCap
<1>1. ASSUME NEW c \in Caps, Store(c) PROVE caps' = Restored'.caps
  <2>1. CASE auditOk'
    <3>1. /\ caps' = [caps EXCEPT ![c] = [NoCapRec EXCEPT !.st = "issued",
                                            !.rid = op.rid, !.flow = op.flow]]
          /\ WalEmit(CapIssued(c, op.rid, op.flow))
      BY <1>1, <2>1 DEF Store
    <3>2. caps' = ReplayCap(caps, CapIssued(c, op.rid, op.flow))
      BY <3>1 DEF ReplayCap, CapIssued, Rec
    <3> QED BY <1>b, <3>1, <3>2
  <2>2. CASE ~auditOk'
    BY <1>1, <1>a, <2>2 DEF Store, NoWal
  <2> QED BY <2>1, <2>2
<1>2. ASSUME Consume PROVE caps' = Restored'.caps
  <2>1. caps' = ReplayCap(caps, CapUsed(op.cap, op.rid))
    BY <1>2 DEF Consume, ReplayCap, CapUsed, Rec, IssuedCall
  <2> QED BY <1>2, <1>b, <2>1 DEF Consume
<1>3. ASSUME NEW c \in Caps, RevokeOne(c) PROVE caps' = Restored'.caps
  <2>1. caps' = ReplayCap(caps, CapRevoked(c, caps[c].rid))
    BY <1>3 DEF RevokeOne, Revocable, ReplayCap, CapRevoked, Rec
  <2> QED BY <1>3, <1>b, <2>1 DEF RevokeOne
<1>4. ASSUME NoteRequest \/ NoteDenied \/ NoteApproved \/ NoteExecuted
      PROVE  caps' = Restored'.caps
  BY <1>4, <1>c DEF NoteRequest, NoteDenied, NoteApproved, NoteExecuted,
     FlowRequest, FlowResolution, RequestExecuted, Rec
<1>5. ASSUME StartExecution \/ NoteOutcome PROVE caps' = Restored'.caps
  <2>1. /\ UNCHANGED caps
        /\ \/ UNCHANGED wal
           \/ WalEmit(FlowExecuting(op.flow))
           \/ WalEmit(FlowOutcome(op.flow, op.res))
    BY <1>5 DEF StartExecution, NoteOutcome, NoWal
  <2> QED BY <1>a, <1>c, <2>1 DEF FlowExecuting, FlowOutcome, Rec
<1>6. ASSUME \/ ValidateRefused \/ StartRefused \/ RevokeEnd
             \/ \E res \in Outcomes : Effect(res)
             \/ Refuse \/ Suspend \/ RevokeBegin \/ UNCHANGED vars
      PROVE  UNCHANGED <<caps, wal>>
  BY <1>6 DEF ValidateRefused, StartRefused, RevokeEnd, Effect, Refuse,
     Suspend, RevokeBegin, NoWal
<1>7. ASSUME NEW r \in Requests,
             \/ ProposeAllowed(r)
             \/ \E f \in Flows : ProposeForApproval(r, f)
      PROVE  UNCHANGED <<caps, wal>>
  BY <1>7 DEF ProposeAllowed, ProposeForApproval, NoWal
<1>8. ASSUME NEW f \in Flows,
             Approve(f) \/ Deny(f) \/ ResolveUndecided(f) \/ Expire(f)
      PROVE  UNCHANGED <<caps, wal>>
  BY <1>8 DEF Approve, Deny, ResolveUndecided, Expire, NoWal
<1> QED BY <1>0, <1>1, <1>2, <1>3, <1>4, <1>5, <1>6, <1>7, <1>8, <1>a
        DEF Next, CallStep

(* The replay set is ahead of the ledger by the request id that the call   *)
(* in flight has consumed and not yet written.                             *)
LEMMA ExecutedReplayStep ==
  ASSUME TypeOK, RecoveredCall, BootReplays, ExecutedReplay, [Next]_vars
  PROVE  ExecutedReplay'
<1> USE DEF Consumed
<1>r. ASSUME Recovered PROVE executed' = Restored'.executed \cup Consumed'
  BY <1>r, RecoveredMemory DEF Idle
<1> SUFFICES ASSUME Replayable', Replayable
             PROVE  executed' = Restored'.executed \cup Consumed'
  BY <1>r, ReplayableSteps DEF ExecutedReplay
<1>0. /\ executed = Restored.executed \cup Consumed
      /\ walOk' /\ ~BootStep /\ ~Crash
      /\ op = [pc |-> op.pc, rid |-> op.rid, flow |-> op.flow,
               cap |-> op.cap, res |-> op.res]
  BY StepsOnline DEF ExecutedReplay, TypeOK, CallTyped
<1>p. /\ \A p : Goto(p) => op'.pc = p /\ op'.rid = op.rid
      /\ Release => op'.pc = "idle"
      /\ \A p, s : op' = [op EXCEPT !.pc = p, !.res = s] => op'.pc = p
      /\ \A p, c : op' = [op EXCEPT !.pc = p, !.cap = c] => op'.pc = p
  <2>1. \A p : Goto(p) => op'.pc = p /\ op'.rid = op.rid
    BY <1>0 DEF Goto
  <2>2. Release => op'.pc = "idle"
    BY DEF Release, Idle
  <2>3. ASSUME NEW p, NEW s
        PROVE  /\ op' = [op EXCEPT !.pc = p, !.res = s] => op'.pc = p
               /\ op' = [op EXCEPT !.pc = p, !.cap = s] => op'.pc = p
    BY <1>0
  <2> QED BY <2>1, <2>2, <2>3
<1>a. ASSUME UNCHANGED <<executed, wal>>, Consumed' = Consumed
      PROVE  executed' = Restored'.executed \cup Consumed'
  BY <1>0, <1>a, RestoredAfter
<1>b. ASSUME NEW rec, WalEmit(rec), rec.t # "request_executed",
             UNCHANGED executed, Consumed' = Consumed
      PROVE  executed' = Restored'.executed \cup Consumed'
  <2>1. Restored'.executed = Restored.executed
    BY <1>0, <1>b, RestoredAfter DEF Replayed, ReplayExecuted
  <2> QED BY <1>0, <1>b, <2>1
<1> HIDE DEF Consumed
<1>1. ASSUME Consume PROVE executed' = Restored'.executed \cup Consumed'
  <2>1. Consumed = {} /\ Consumed' = {op.rid}
    BY <1>1, <1>p DEF Consume, Consumed
  <2>2. Restored'.executed = Restored.executed
    BY <1>0, <1>1, RestoredAfter
    DEF Consume, Replayed, ReplayExecuted, CapUsed, Rec
  <2> QED BY <1>0, <1>1, <2>1, <2>2 DEF Consume
<1>2. ASSUME NoteExecuted PROVE executed' = Restored'.executed \cup Consumed'
  <2>1. Consumed = {op.rid} /\ Consumed' = {}
    BY <1>2, <1>p DEF NoteExecuted, Consumed
  <2>2. Restored'.executed = Restored.executed \cup {op.rid}
    BY <1>0, <1>2, RestoredAfter
    DEF NoteExecuted, Replayed, ReplayExecuted, RequestExecuted, Rec
  <2> QED BY <1>0, <1>2, <2>1, <2>2 DEF NoteExecuted
<1>3. ASSUME NEW c \in Caps, Store(c)
      PROVE  executed' = Restored'.executed \cup Consumed'
  <2>1. Consumed = {} /\ Consumed' = {}
    <3>1. CASE auditOk'
      BY <1>3, <1>p, <3>1 DEF Store, Consumed
    <3>2. CASE ~auditOk'
      BY <1>3, <1>p, <3>2 DEF Store, Consumed
    <3> QED BY <1>3, <3>1, <3>2 DEF Store, Consumed
  <2>2. executed' = executed
        /\ (UNCHANGED wal \/ WalEmit(CapIssued(c, op.rid, op.flow)))
    BY <1>3 DEF Store, NoWal
  <2> QED BY <1>a, <1>b, <2>1, <2>2 DEF CapIssued, Rec
<1>4. ASSUME NEW c \in Caps, RevokeOne(c)
      PROVE  executed' = Restored'.executed \cup Consumed'
  BY <1>b, <1>4 DEF RevokeOne, CapRevoked, Rec, Consumed
<1>5. ASSUME NoteRequest \/ NoteDenied \/ NoteApproved
      PROVE  executed' = Restored'.executed \cup Consumed'
  <2>1. Consumed = {} /\ Consumed' = {}
    BY <1>5, <1>p DEF NoteRequest, NoteDenied, NoteApproved, Consumed
  <2> QED BY <1>5, <1>b, <2>1 DEF NoteRequest, NoteDenied, NoteApproved,
             FlowRequest, FlowResolution, Rec
<1>6. ASSUME StartExecution \/ NoteOutcome
      PROVE  executed' = Restored'.executed \cup Consumed'
  <2>1. Consumed = {} /\ Consumed' = {}
    BY <1>6, <1>p DEF StartExecution, NoteOutcome, Consumed
  <2>2. /\ UNCHANGED executed
        /\ \/ UNCHANGED wal
           \/ WalEmit(FlowExecuting(op.flow))
           \/ WalEmit(FlowOutcome(op.flow, op.res))
    BY <1>6 DEF StartExecution, NoteOutcome, NoWal
  <2> QED BY <1>a, <1>b, <2>1, <2>2 DEF FlowExecuting, FlowOutcome, Rec
<1>7. ASSUME \/ ValidateRefused \/ StartRefused \/ RevokeEnd
             \/ \E res \in Outcomes : Effect(res)
      PROVE  executed' = Restored'.executed \cup Consumed'
  <2>1. Consumed = {} /\ Consumed' = {}
    BY <1>7, <1>p DEF ValidateRefused, StartRefused, RevokeEnd, Effect,
       Consumed
  <2> QED BY <1>7, <1>a, <2>1 DEF ValidateRefused, StartRefused, RevokeEnd,
             Effect, NoWal
<1>8. ASSUME \/ Refuse \/ Suspend \/ UNCHANGED vars
             \/ \E f \in Flows : ResolveUndecided(f) \/ Expire(f)
      PROVE  executed' = Restored'.executed \cup Consumed'
  BY <1>8, <1>a DEF Refuse, Suspend, ResolveUndecided, Expire, NoWal, Consumed
<1>9. ASSUME \/ RevokeBegin
             \/ \E r \in Requests : ProposeAllowed(r)
             \/ \E r \in Requests, f \in Flows : ProposeForApproval(r, f)
             \/ \E f \in Flows : Approve(f) \/ Deny(f)
      PROVE  executed' = Restored'.executed \cup Consumed'
  <2>1. op = Idle /\ op'.pc \in {"revoke", "store", "note_request",
                                "note_approved", "note_denied"}
    <3>1. CASE RevokeBegin
      BY <3>1 DEF RevokeBegin, MayCall, Idle
    <3>2. ASSUME NEW r \in Requests,
                 \/ ProposeAllowed(r)
                 \/ \E f \in Flows : ProposeForApproval(r, f)
          PROVE  op = Idle /\ op'.pc \in {"store", "note_request"}
      BY <3>2 DEF ProposeAllowed, ProposeForApproval, MayCall, Idle
    <3>3. ASSUME NEW f \in Flows, Approve(f) \/ Deny(f)
          PROVE  op = Idle /\ op'.pc \in {"note_approved", "note_denied"}
      BY <3>3 DEF Approve, Deny, MayCall, Idle
    <3> QED BY <1>9, <3>1, <3>2, <3>3
  <2>2. Consumed = {} /\ Consumed' = {}
    BY <2>1 DEF Consumed, Idle
  <2> QED BY <1>9, <1>a, <2>2 DEF RevokeBegin, ProposeAllowed,
             ProposeForApproval, Approve, Deny, NoWal
<1> QED BY <1>0, <1>1, <1>2, <1>3, <1>4, <1>5, <1>6, <1>7, <1>8, <1>9
        DEF Next, CallStep

(* Records about another flow, or about none, leave a flow as it restores. *)
LEMMA ReplayOther ==
  ASSUME NEW fl \in [Flows -> FlowRec], NEW rec, NEW f \in Flows
  PROVE  /\ rec.flow # f => ReplayFlow(fl, rec)[f] = fl[f]
         /\ rec.t \notin {"flow_request", "flow_resolution",
                          "flow_executing", "flow_outcome"}
              => ReplayFlow(fl, rec) = fl
<1>1. ASSUME rec.flow # f PROVE ReplayFlow(fl, rec)[f] = fl[f]
  <2>1. \/ ReplayFlow(fl, rec) = fl
        \/ \E x : ReplayFlow(fl, rec) = [fl EXCEPT ![rec.flow] = x]
    BY DEF ReplayFlow
  <2> QED BY <1>1, <2>1
<1>2. ASSUME rec.t \notin {"flow_request", "flow_resolution",
                           "flow_executing", "flow_outcome"}
      PROVE  ReplayFlow(fl, rec) = fl
  BY <1>2 DEF ReplayFlow
<1> QED BY <1>1, <1>2

(* A flow is ahead of the ledger from the moment memory opens or resolves  *)
(* it until the call's record is written; a purged one stays ahead.        *)
LEMMA FlowsReplayStep ==
  ASSUME TypeOK, RecoveredCall, BootReplays, FlowsReplay, [Next]_vars
  PROVE  FlowsReplay'
<1> DEFINE As(f) == IF Telling /\ f = op.flow THEN Untold(f) ELSE Restores(f)
<1>r. ASSUME Recovered PROVE \A f \in Flows : As(f)'
  <2>1. flows' = Restored'.flows /\ ~Telling'
    BY <1>r, RecoveredMemory DEF Telling, Idle
  <2> QED BY <2>1 DEF Restores
<1> SUFFICES ASSUME Replayable', Replayable, NEW f \in Flows
             PROVE  As(f)'
  BY <1>r, ReplayableSteps DEF FlowsReplay
<1>0. /\ As(f) /\ walOk' /\ ~BootStep /\ ~Crash
      /\ op = [pc |-> op.pc, rid |-> op.rid, flow |-> op.flow,
               cap |-> op.cap, res |-> op.res]
      /\ flows \in [Flows -> FlowRec] /\ flows[f] \in FlowRec
      /\ Restored.flows \in [Flows -> FlowRec]
      /\ Restored.flows[f] \in FlowRec
  <2>1. Restored.flows \in [Flows -> FlowRec]
    BY RebuiltFlows DEF Restored, TypeOK, WalTyped
  <2> QED BY <2>1, StepsOnline
          DEF FlowsReplay, TypeOK, CallTyped, MemoryTyped
<1>p. /\ \A p : Goto(p) => op'.pc = p /\ op'.flow = op.flow
      /\ Release => op'.pc = "idle"
      /\ \A p, s : op' = [op EXCEPT !.pc = p, !.res = s] => op'.pc = p
      /\ \A p, c : op' = [op EXCEPT !.pc = p, !.cap = c] => op'.pc = p
  <2>1. \A p : Goto(p) => op'.pc = p /\ op'.flow = op.flow
    BY <1>0 DEF Goto
  <2>2. Release => op'.pc = "idle"
    BY DEF Release, Idle
  <2>3. ASSUME NEW p, NEW s
        PROVE  /\ op' = [op EXCEPT !.pc = p, !.res = s] => op'.pc = p
               /\ op' = [op EXCEPT !.pc = p, !.cap = s] => op'.pc = p
    BY <1>0
  <2> QED BY <2>1, <2>2, <2>3
<1>a. ASSUME UNCHANGED <<flows, wal>>, expired \subseteq expired',
             op' = op \/ ~(Telling \/ Telling')
      PROVE  As(f)'
  <2>1. Restored' = Restored
    BY <1>a, RestoredAfter
  <2> QED BY <1>0, <1>a, <2>1 DEF Telling, Untold, Restores
<1>b. ASSUME NEW rec, WalEmit(rec), ~Telling, ~Telling',
             UNCHANGED <<flows, expired>>,
             rec.t \notin {"flow_request", "flow_resolution",
                           "flow_executing", "flow_outcome"}
      PROVE  As(f)'
  <2>1. Restored'.flows = Restored.flows
    BY <1>0, <1>b, RestoredAfter, ReplayOther DEF Replayed
  <2> QED BY <1>0, <1>b, <2>1 DEF Restores
<1>c. ASSUME NEW rec, WalEmit(rec), ~Telling', rec.flow # f,
             f # op.flow \/ ~Telling, flows'[f] = flows[f],
             UNCHANGED expired
      PROVE  As(f)'
  <2>1. Restored'.flows[f] = Restored.flows[f]
    BY <1>0, <1>c, RestoredAfter, ReplayOther DEF Replayed
  <2> QED BY <1>0, <1>c, <2>1 DEF Restores
<1>d. ASSUME NEW rec, WalEmit(rec), ~Telling',
             flows'[f] = ReplayFlow(Restored.flows, rec)[f]
      PROVE  As(f)'
  <2>1. Restored'.flows[f] = flows'[f]
    BY <1>0, <1>d, RestoredAfter DEF Replayed
  <2> QED BY <1>d, <2>1 DEF Restores
<1> HIDE DEF As
<1>1. CASE NoteRequest
  <2>1. /\ WalEmit(FlowRequest(op.flow, op.rid)) /\ ~Telling' /\ Telling
        /\ UNCHANGED <<flows, expired>> /\ op.pc = "note_request"
    BY <1>1, <1>p DEF NoteRequest, Telling
  <2>2. CASE f = op.flow
    <3>1. flows[f] = [st |-> PENDING, rid |-> op.rid]
      BY <1>0, <2>1, <2>2 DEF As, Untold
    <3>2. ReplayFlow(Restored.flows, FlowRequest(op.flow, op.rid))[f]
            = [st |-> PENDING, rid |-> op.rid]
      BY <1>0, <2>2, <3>1
      DEF ReplayFlow, FlowRequest, Rec
    <3> QED BY <1>d, <2>1, <3>1, <3>2
  <2>3. CASE f # op.flow
    BY <1>c, <2>1, <2>3 DEF FlowRequest, Rec
  <2> QED BY <2>2, <2>3
<1>2. CASE NoteDenied
  <2>1. /\ WalEmit(FlowResolution(op.flow, DENIED)) /\ ~Telling' /\ Telling
        /\ UNCHANGED <<flows, expired>> /\ op.pc = "note_denied"
    BY <1>2, <1>p DEF NoteDenied, Telling
  <2>2. CASE f = op.flow
    <3>1. /\ Restored.flows[f].st # "none"
          /\ flows[f] = [Restored.flows[f] EXCEPT !.st = DENIED]
      BY <1>0, <2>1, <2>2 DEF As, Untold
    <3>2. ReplayFlow(Restored.flows, FlowResolution(op.flow, DENIED))[f]
            = [Restored.flows[f] EXCEPT !.st = DENIED]
      BY <1>0, <2>2, <3>1
      DEF ReplayFlow, FlowResolution, Rec
    <3> QED BY <1>d, <2>1, <3>1, <3>2
  <2>3. CASE f # op.flow
    BY <1>c, <2>1, <2>3 DEF FlowResolution, Rec
  <2> QED BY <2>2, <2>3
<1>3. CASE NoteApproved
  <2>1. /\ WalEmit(FlowResolution(op.flow, AUTHORIZED)) /\ ~Telling'
        /\ Telling /\ UNCHANGED <<flows, expired>> /\ op.pc = "note_approved"
    <3>1. op'.pc = "store"
      BY <1>3, <1>p DEF NoteApproved
    <3> QED BY <1>3, <3>1 DEF NoteApproved, Telling
  <2>2. CASE f = op.flow
    <3>1. /\ Restored.flows[f].st # "none"
          /\ flows[f] = [Restored.flows[f] EXCEPT !.st = AUTHORIZED]
      BY <1>0, <2>1, <2>2 DEF As, Untold
    <3>2. ReplayFlow(Restored.flows, FlowResolution(op.flow, AUTHORIZED))[f]
            = [Restored.flows[f] EXCEPT !.st = AUTHORIZED]
      BY <1>0, <2>2, <3>1
      DEF ReplayFlow, FlowResolution, Rec
    <3> QED BY <1>d, <2>1, <3>1, <3>2
  <2>3. CASE f # op.flow
    BY <1>c, <2>1, <2>3 DEF FlowResolution, Rec
  <2> QED BY <2>2, <2>3
<1>4. CASE StartExecution
  <2>1. ~Telling /\ ~Telling' /\ UNCHANGED expired
    BY <1>4, <1>p DEF StartExecution, Telling
  <2>2. CASE op.flow \in Flows /\ flows[op.flow].st = AUTHORIZED
    <3>1. /\ flows' = [flows EXCEPT ![op.flow].st = EXECUTING]
          /\ WalEmit(FlowExecuting(op.flow))
      BY <1>4, <2>2 DEF StartExecution
    <3>2. CASE f = op.flow
      <4>1. flows[f] = Restored.flows[f]
        BY <1>0, <2>1, <2>2, <3>2 DEF As, Restores
      <4>2. flows'[f] = [Restored.flows[f] EXCEPT !.st = EXECUTING]
        BY <1>0, <3>1, <3>2, <4>1
      <4>3. ReplayFlow(Restored.flows, FlowExecuting(op.flow))[f]
              = [Restored.flows[f] EXCEPT !.st = EXECUTING]
        BY <1>0, <2>2, <3>2, <4>1
        DEF ReplayFlow, FlowExecuting, Rec
      <4> QED BY <1>d, <2>1, <3>1, <4>2, <4>3
    <3>3. CASE f # op.flow
      <4>1. flows'[f] = flows[f]
        BY <1>0, <3>1, <3>3
      <4> QED BY <1>c, <2>1, <3>1, <3>3, <4>1 DEF FlowExecuting, Rec
    <3> QED BY <3>2, <3>3
  <2>3. CASE ~(op.flow \in Flows /\ flows[op.flow].st = AUTHORIZED)
    <3>1. UNCHANGED <<flows, wal>>
      BY <1>4, <2>3 DEF StartExecution, NoWal
    <3> QED BY <1>a, <2>1, <3>1
  <2> QED BY <2>2, <2>3
<1>5. CASE NoteOutcome
  <2>1. ~Telling /\ ~Telling' /\ UNCHANGED expired
    BY <1>5, <1>p DEF NoteOutcome, Telling
  <2>2. CASE op.flow \in Flows /\ flows[op.flow].st = EXECUTING
    <3>1. /\ flows' = [flows EXCEPT ![op.flow].st = op.res]
          /\ WalEmit(FlowOutcome(op.flow, op.res))
      BY <1>5, <2>2 DEF NoteOutcome
    <3>2. CASE f = op.flow
      <4>1. flows[f] = Restored.flows[f]
        BY <1>0, <2>1, <2>2, <3>2 DEF As, Restores
      <4>2. flows'[f] = [Restored.flows[f] EXCEPT !.st = op.res]
        BY <1>0, <3>1, <3>2, <4>1
      <4>3. ReplayFlow(Restored.flows, FlowOutcome(op.flow, op.res))[f]
              = [Restored.flows[f] EXCEPT !.st = op.res]
        BY <1>0, <2>2, <3>2, <4>1
        DEF ReplayFlow, FlowOutcome, Rec
      <4> QED BY <1>d, <2>1, <3>1, <4>2, <4>3
    <3>3. CASE f # op.flow
      <4>1. flows'[f] = flows[f]
        BY <1>0, <3>1, <3>3
      <4> QED BY <1>c, <2>1, <3>1, <3>3, <4>1 DEF FlowOutcome, Rec
    <3> QED BY <3>2, <3>3
  <2>3. CASE ~(op.flow \in Flows /\ flows[op.flow].st = EXECUTING)
    <3>1. UNCHANGED <<flows, wal>>
      BY <1>5, <2>3 DEF NoteOutcome, NoWal
    <3> QED BY <1>a, <2>1, <3>1
  <2> QED BY <2>2, <2>3
<1>6. ASSUME NEW c \in Caps, Store(c) PROVE As(f)'
  <2>1. ~Telling /\ ~Telling'
    <3>1. CASE auditOk'
      BY <1>6, <1>p, <3>1 DEF Store, Telling
    <3>2. CASE ~auditOk'
      BY <1>6, <1>p, <3>2 DEF Store, Telling
    <3> QED BY <3>1, <3>2
  <2>2. /\ UNCHANGED <<flows, expired>>
        /\ UNCHANGED wal \/ WalEmit(CapIssued(c, op.rid, op.flow))
    BY <1>6 DEF Store, NoWal
  <2> QED BY <1>a, <1>b, <2>1, <2>2 DEF CapIssued, Rec
<1>7. ASSUME Consume \/ NoteExecuted \/ \E c \in Caps : RevokeOne(c)
      PROVE  As(f)'
  <2>1. ~Telling /\ ~Telling' /\ UNCHANGED <<flows, expired>>
    <3>1. CASE Consume \/ NoteExecuted
      <4>1. op'.pc \in {"note_executed", "start"}
        BY <1>p, <3>1 DEF Consume, NoteExecuted
      <4> QED BY <3>1, <4>1 DEF Consume, NoteExecuted, Telling
    <3>2. ASSUME NEW c \in Caps, RevokeOne(c)
          PROVE  ~Telling /\ ~Telling' /\ UNCHANGED <<flows, expired>>
      BY <3>2 DEF RevokeOne, Telling
    <3> QED BY <1>7, <3>1, <3>2
  <2>2. \/ WalEmit(CapUsed(op.cap, op.rid))
        \/ WalEmit(RequestExecuted(op.rid))
        \/ \E c \in Caps : WalEmit(CapRevoked(c, caps[c].rid))
    BY <1>7 DEF Consume, NoteExecuted, RevokeOne
  <2> QED BY <1>b, <2>1, <2>2 DEF CapUsed, RequestExecuted, CapRevoked, Rec
<1>8. ASSUME \/ ValidateRefused \/ StartRefused \/ RevokeEnd
             \/ \E res \in Outcomes : Effect(res)
      PROVE  As(f)'
  <2>1. ~Telling /\ ~Telling'
    BY <1>8, <1>p DEF ValidateRefused, StartRefused, RevokeEnd, Effect,
       Telling
  <2> QED BY <1>8, <1>a, <2>1 DEF ValidateRefused, StartRefused, RevokeEnd,
             Effect, NoWal
<1>9. ASSUME \/ Refuse \/ Suspend \/ UNCHANGED vars
             \/ \E g \in Flows : Expire(g)
      PROVE  As(f)'
  BY <1>9, <1>a DEF Refuse, Suspend, Expire, NoWal
<1>10. ASSUME RevokeBegin \/ \E r \in Requests : ProposeAllowed(r)
       PROVE  As(f)'
  <2>1. ~Telling /\ ~Telling'
    <3>1. op = Idle /\ op'.pc \in {"revoke", "store"}
      BY <1>10 DEF RevokeBegin, ProposeAllowed, MayCall, Idle
    <3> QED BY <3>1 DEF Telling, Idle
  <2> QED BY <1>10, <1>a, <2>1 DEF RevokeBegin, ProposeAllowed, NoWal
<1>11. ASSUME NEW r \in Requests, NEW g \in Flows, ProposeForApproval(r, g)
       PROVE  As(f)'
  <2>1. /\ ~Telling /\ Restored' = Restored /\ UNCHANGED expired
        /\ flows' = [flows EXCEPT ![g] = [st |-> PENDING, rid |-> r]]
    BY <1>11, RestoredAfter DEF ProposeForApproval, MayCall, Idle, Telling,
       NoWal
  <2>2. op'.pc = "note_request" /\ op'.flow = g /\ op'.rid = r
    BY <1>11 DEF ProposeForApproval, Idle
  <2>3. CASE f = g
    <3>1. flows'[f] = [st |-> PENDING, rid |-> r]
      BY <1>0, <2>1, <2>3
    <3> QED BY <2>2, <2>3, <3>1 DEF As, Telling, Untold
  <2>4. CASE f # g
    <3>1. flows'[f] = flows[f]
      BY <1>0, <2>1, <2>4
    <3> QED BY <1>0, <2>1, <2>2, <2>4, <3>1 DEF As, Restores
  <2> QED BY <2>3, <2>4
<1>12. ASSUME NEW g \in Flows, NEW s,
              flows' = [Purge(flows) EXCEPT ![g].st = s],
              flows[g].st = PENDING, g \notin expired, MayCall,
              UNCHANGED <<wal, expired>>, op'.flow = g,
              \/ op'.pc = "note_denied" /\ s = DENIED
              \/ op'.pc = "note_approved" /\ s = AUTHORIZED
       PROVE  As(f)'
  <2>1. ~Telling /\ Restored' = Restored /\ Telling'
    BY <1>12, RestoredAfter DEF MayCall, Idle, Telling
  <2>2. Restores(f)
    BY <1>0, <2>1 DEF As
  <2>3. Purge(flows) \in [Flows -> FlowRec]
    BY <1>0 DEF Purge, FlowRec, FlowStates
  <2>4. CASE f = g
    <3>1. Purge(flows)[f] = flows[f]
      BY <1>12, <2>4 DEF Purge
    <3>2. flows'[f] = [flows[f] EXCEPT !.st = s]
      BY <1>12, <2>3, <2>4, <3>1
    <3>3. flows[f] = Restored.flows[f] /\ flows[f].st = PENDING
      BY <1>12, <2>2, <2>4 DEF Restores
    <3>4. Untold(f)'
      BY <1>12, <2>1, <3>2, <3>3 DEF Untold
    <3> QED BY <1>12, <2>1, <2>4, <3>4 DEF As
  <2>5. CASE f # g
    <3>1. flows'[f] = Purge(flows)[f]
      BY <1>12, <2>3, <2>5
    <3>2. Restores(f)'
      BY <1>0, <1>12, <2>1, <2>2, <3>1 DEF Restores, Purge, FlowRec
    <3> QED BY <1>12, <2>5, <3>2 DEF As
  <2> QED BY <2>4, <2>5
<1>13. ASSUME NEW g \in Flows, Approve(g) \/ Deny(g) PROVE As(f)'
  <2>1. CASE Approve(g)
    <3>1. op'.pc = "note_approved" /\ op'.flow = g
      BY <2>1 DEF Approve, Idle
    <3> QED BY <1>12, <2>1, <3>1 DEF Approve, Resolved, NoWal
  <2>2. CASE Deny(g)
    <3>1. op'.pc = "note_denied" /\ op'.flow = g
      BY <2>2 DEF Deny, Idle
    <3> QED BY <1>12, <2>2, <3>1 DEF Deny, Resolved, NoWal
  <2> QED BY <1>13, <2>1, <2>2
<1>14. ASSUME NEW g \in Flows, ResolveUndecided(g) PROVE As(f)'
  <2>1. /\ ~Telling /\ ~Telling' /\ Restored' = Restored
        /\ flows' = Purge(flows) /\ UNCHANGED expired
    BY <1>14, RestoredAfter DEF ResolveUndecided, MayCall, Idle, Telling, NoWal
  <2>2. Restores(f)
    BY <1>0, <2>1 DEF As
  <2>3. Restores(f)'
    BY <1>0, <2>1, <2>2 DEF Restores, Purge, FlowRec
  <2> QED BY <2>1, <2>3 DEF As
<1> QED BY <1>0, <1>1, <1>2, <1>3, <1>4, <1>5, <1>6, <1>7, <1>8, <1>9, <1>10,
           <1>11, <1>13, <1>14 DEF Next, CallStep

(* Before the first boot there is nothing to remember.                     *)
THEOREM ReplayInit == Init => ReplayInv
BY DEF Init, ReplayInv, BootReplays, Remembers, Blank, CapsReplay,
       ExecutedReplay, FlowsReplay, Replayable, IssuedCall, Idle

(* Every step keeps memory a rebuild of the ledger.                        *)
THEOREM ReplayStep ==
  TypeOK /\ RecoveredCall /\ ReplayInv /\ [Next]_vars => ReplayInv'
BY BootReplaysStep, CapsReplayStep, ExecutedReplayStep, FlowsReplayStep,
   IssuedCallStep DEF ReplayInv

(* Between calls, a boot from the present ledger would restore exactly the *)
(* memory of the running broker, after any number of calls, crashes and    *)
(* failed appends: a crash loses nothing but the call it interrupts.       *)
THEOREM RestartsForgetNothing == Spec => []MemoryIsReplay
<1>1. ClaimInv => RecoveredCall
  BY DEF ClaimInv
<1>2. ASSUME ReplayInv, RecoveredCall PROVE MemoryIsReplay
  <2> SUFFICES ASSUME MayCall, walOk, recoveryOk
               PROVE  /\ caps = Restored.caps
                      /\ executed = Restored.executed
                      /\ \A f \in Flows : Restores(f)
    BY DEF MemoryIsReplay
  <2>1. Replayable /\ Consumed = {} /\ ~Telling
    BY DEF Replayable, Serving, MayCall, Consumed, Telling, Idle
  <2> QED BY <1>2, <2>1
          DEF ReplayInv, CapsReplay, ExecutedReplay, FlowsReplay
<1> QED BY <1>1, <1>2, TypeInit, TypeStep, ClaimInit, ClaimStep, ReplayInit,
           ReplayStep, PTL DEF Spec
=============================================================================
