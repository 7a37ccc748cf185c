------------------------------- MODULE Broker -------------------------------
(***************************************************************************)
(* The capability broker, the approval controller and the write-ahead      *)
(* ledger they share (rust/src/broker.rs, approval.rs, the WAL half of     *)
(* audit.rs, and the replay in runtime.rs).                                *)
(*                                                                         *)
(* One mutex serialises execute_action, resolve_and_execute and            *)
(* revoke_all.  `op` is the call that holds it; each step of that call     *)
(* between two points where the process can die (or where another thread   *)
(* can suspend the worker) is an action.  A proposal that policy allows    *)
(* runs under a capability of its own (op.flow = NoFlow); one that needs   *)
(* consent opens a flow and runs when the operator approves that flow.     *)
(*                                                                         *)
(* The ledger `wal` is the only state that survives a crash.  A boot       *)
(* replays it record by record before the runtime accepts work.            *)
(***************************************************************************)
EXTENDS Naturals, Sequences

CONSTANTS
  Requests,    \* request ids the worker can use, and reuse
  Flows,       \* approval flow ids (new_id, never reissued)
  Caps,        \* capability ids (new_id, never reissued)
  NoReq, NoFlow, NoCap,
  MaxCrashes,  \* bound: how often the process dies
  WalCanFail,  \* whether an append to the ledger may fail
  AuditCanFail \* whether an append to the audit log may fail

ASSUME NoneAssumption ==
  NoReq \notin Requests /\ NoFlow \notin Flows /\ NoCap \notin Caps
ASSUME BoundAssumption ==
  /\ MaxCrashes \in Nat
  /\ WalCanFail \in BOOLEAN /\ AuditCanFail \in BOOLEAN

PENDING    == "PENDING_APPROVAL"
AUTHORIZED == "AUTHORIZED"
EXECUTING  == "EXECUTING"
COMPLETED  == "COMPLETED"
UNKNOWN    == "UNKNOWN"
DENIED     == "DENIED_OR_EXPIRED"

FlowStates == {PENDING, AUTHORIZED, EXECUTING, COMPLETED, UNKNOWN, DENIED}
Outcomes   == {COMPLETED, UNKNOWN}

VARIABLES
  phase,       \* the host process: "down", "recovering" or "up"
  cursor,      \* next ledger record to replay while recovering
  wal,         \* durable: the ledger's records
  walOk,       \* the ledger accepts appends in this boot
  auditOk,     \* the audit log accepts appends in this boot
  recoveryOk,  \* the broker's recovery_ok flag
  suspended,   \* the watchdog suspended the worker in this boot
  flows,       \* ApprovalController.flows
  caps,        \* BrokerState.caps
  executed,    \* BrokerState.executed
  op,          \* the call holding the broker's mutex
  expired,     \* flows whose expires_at has passed on the wall clock
  crashes,     \* how often the process died
  effects,     \* history: times a tool ran to an effect, per request id
  ran,         \* history: flows under which an effect happened
  denied,      \* history: flows whose DENY or CANCEL the broker returned
  fenced       \* history: a kill completed in this boot

memory  == <<flows, caps, executed>>
health  == <<auditOk, recoveryOk, suspended>>
history == <<effects, ran, denied, fenced>>
host    == <<phase, cursor, crashes>>
vars    == <<host, wal, walOk, health, memory, op, expired, history>>

NoFlowRec == [st |-> "none", rid |-> NoReq]
NoCapRec  == [st |-> "none", rid |-> NoReq, flow |-> NoFlow,
              used |-> FALSE, revoked |-> FALSE]
Idle      == [pc |-> "idle", rid |-> NoReq, flow |-> NoFlow, cap |-> NoCap,
              res |-> UNKNOWN]

-----------------------------------------------------------------------------
(* Ledger records.  Every record has the same fields; the ones its event   *)
(* type does not carry hold the "no" value.                                *)

Rec(t, f, c, r, s) == [t |-> t, flow |-> f, cap |-> c, rid |-> r, st |-> s]

FlowRequestOnly(f, r) ==  \* mutant: the record leaves the request id out
  Rec("flow_request", f, NoCap, NoReq, PENDING)

FlowRequest(f, r)    == Rec("flow_request", f, NoCap, r, PENDING)
FlowResolution(f, s) == Rec("flow_resolution", f, NoCap, NoReq, s)
FlowExecuting(f)     == Rec("flow_executing", f, NoCap, NoReq, EXECUTING)
FlowOutcome(f, s)    == Rec("flow_outcome", f, NoCap, NoReq, s)
CapIssued(c, r, f)   == Rec("capability_issued", f, c, r, PENDING)
CapUsed(c, r)        == Rec("capability_used", NoFlow, c, r, PENDING)
CapRevoked(c, r)     == Rec("capability_revoked", NoFlow, c, r, PENDING)
RequestExecuted(r)   == Rec("request_executed", NoFlow, NoCap, r, PENDING)

Logged(rec) == \E i \in DOMAIN wal : wal[i] = rec
Claimed(r)  == Logged(RequestExecuted(r))

(* An append either lands or fails; a failure closes the ledger until the  *)
(* next boot.  A write that fails after the record's last byte but before  *)
(* its newline leaves a record the next boot reads.                        *)
WalEmit(rec) ==
  \/ walOk /\ wal' = Append(wal, rec) /\ walOk' = TRUE
  \/ walOk /\ WalCanFail /\ wal' = Append(wal, rec) /\ walOk' = FALSE
  \/ walOk /\ WalCanFail /\ wal' = wal /\ walOk' = FALSE
  \/ ~walOk /\ UNCHANGED <<wal, walOk>>

NoWal == UNCHANGED <<wal, walOk>>

(* Audit appends fail the same way; only the flag matters here.  An emit   *)
(* succeeded exactly when the log is still open after it.                  *)
AuditEmit == auditOk' \in IF AuditCanFail THEN {auditOk, FALSE} ELSE {auditOk}

-----------------------------------------------------------------------------
Init ==
  /\ phase = "down" /\ cursor = 1 /\ crashes = 0
  /\ wal = <<>> /\ walOk = FALSE
  /\ auditOk = FALSE /\ recoveryOk = FALSE /\ suspended = FALSE
  /\ flows = [f \in Flows |-> NoFlowRec]
  /\ caps = [c \in Caps |-> NoCapRec]
  /\ executed = {}
  /\ op = Idle
  /\ expired = {}
  /\ effects = [r \in Requests |-> 0]
  /\ ran = {} /\ denied = {} /\ fenced = FALSE

GuardIgnoresWatchdog == walOk /\ auditOk /\ recoveryOk  \* mutant

Guard == walOk /\ auditOk /\ recoveryOk /\ ~suspended

MayCall == phase = "up" /\ op = Idle

FreshFlow(f) ==
  flows[f].st = "none" /\ \A i \in DOMAIN wal : wal[i].flow # f
FreshCap(c)  ==
  caps[c].st = "none" /\ \A i \in DOMAIN wal : wal[i].cap # c

CapsLeft == \E c \in Caps : FreshCap(c)  \* bound: the pool of model ids

Release == op' = Idle
Goto(pc) == op' = [op EXCEPT !.pc = pc]

(* A call that stops at the guard, at a policy DENY or at a flow that is   *)
(* not pending: it only writes an audit record.                            *)
Refuse ==
  /\ MayCall
  /\ AuditEmit
  /\ UNCHANGED <<host, wal, walOk, recoveryOk, suspended, memory, op,
                 expired, history>>

(* execute_action, policy says REQUIRE_APPROVAL: the flow enters memory    *)
(* first, the ledger second (the FLOW_REQUEST_PREWAL seam is between).     *)
ProposeForApproval(r, f) ==
  /\ MayCall /\ Guard /\ FreshFlow(f)
  /\ flows' = [flows EXCEPT ![f] = [st |-> PENDING, rid |-> r]]
  /\ op' = [Idle EXCEPT !.pc = "note_request", !.rid = r, !.flow = f]
  /\ NoWal
  /\ UNCHANGED <<host, health, caps, executed, expired, history>>

NoteRequest ==
  /\ op.pc = "note_request"
  /\ WalEmit(FlowRequest(op.flow, op.rid))
  /\ AuditEmit
  /\ Release
  /\ UNCHANGED <<host, recoveryOk, suspended, memory, expired, history>>

(* execute_action, policy says ALLOW.                                      *)
ProposeAllowed(r) ==
  /\ MayCall /\ Guard /\ CapsLeft
  /\ op' = [Idle EXCEPT !.pc = "store", !.rid = r]
  /\ NoWal
  /\ UNCHANGED <<host, health, memory, expired, history>>

Purge(fl) ==
  [f \in Flows |-> IF fl[f].st = PENDING /\ f \in expired
                   THEN [fl[f] EXCEPT !.st = DENIED] ELSE fl[f]]

ResolvedTooLate(f, st) == Purge(flows)  \* mutant: the decision is not kept

Resolved(f, st) == [Purge(flows) EXCEPT ![f].st = st]

(* resolve_and_execute that decides nothing: the flow has expired, or the  *)
(* decision is an unknown word and its flow stays pending.  The purge ends *)
(* expired flows in memory, and nothing is written to the ledger.          *)
ResolveUndecided(f) ==
  /\ MayCall /\ Guard
  /\ flows[f].st = PENDING
  /\ flows' = Purge(flows)
  /\ AuditEmit
  /\ NoWal
  /\ UNCHANGED <<host, recoveryOk, suspended, caps, executed, op, expired,
                 history>>

(* resolve_and_execute with DENY or CANCEL, or with a request whose digest *)
(* is not the flow's (the broker then cancels the flow).                   *)
Deny(f) ==
  /\ MayCall /\ Guard
  /\ flows[f].st = PENDING /\ f \notin expired
  /\ flows' = Resolved(f, DENIED)
  /\ op' = [Idle EXCEPT !.pc = "note_denied", !.flow = f,
                        !.rid = flows[f].rid]
  /\ NoWal
  /\ UNCHANGED <<host, health, caps, executed, expired, history>>

NoteDeniedUnlogged ==  \* mutant: the denial stays in memory
  /\ op.pc = "note_denied"
  /\ NoWal /\ AuditEmit
  /\ denied' = denied \cup {op.flow}
  /\ Release
  /\ UNCHANGED <<host, recoveryOk, suspended, memory, expired, effects, ran,
                 fenced>>

NoteDenied ==
  /\ op.pc = "note_denied"
  /\ WalEmit(FlowResolution(op.flow, DENIED))
  /\ AuditEmit
  /\ denied' = denied \cup {op.flow}
  /\ Release
  /\ UNCHANGED <<host, recoveryOk, suspended, memory, expired, effects, ran,
                 fenced>>

(* resolve_and_execute with APPROVE.                                       *)
Approve(f) ==
  /\ MayCall /\ Guard /\ CapsLeft
  /\ flows[f].st = PENDING /\ f \notin expired
  /\ flows' = Resolved(f, AUTHORIZED)
  /\ op' = [Idle EXCEPT !.pc = "note_approved", !.flow = f,
                        !.rid = flows[f].rid]
  /\ NoWal
  /\ UNCHANGED <<host, health, caps, executed, expired, history>>

NoteApproved ==
  /\ op.pc = "note_approved"
  /\ WalEmit(FlowResolution(op.flow, AUTHORIZED))
  /\ Goto("store")
  /\ UNCHANGED <<host, health, memory, expired, history>>

(* Broker::store: audit first.  Without the audit record the capability is *)
(* not stored and its use is refused as forged.                            *)
Store(c) ==
  /\ op.pc = "store" /\ FreshCap(c)
  /\ AuditEmit
  /\ IF auditOk'
     THEN /\ caps' = [caps EXCEPT ![c] = [NoCapRec EXCEPT !.st = "issued",
                                            !.rid = op.rid, !.flow = op.flow]]
          /\ WalEmit(CapIssued(c, op.rid, op.flow))
          /\ op' = [op EXCEPT !.pc = "validate", !.cap = c]
     ELSE caps' = caps /\ NoWal /\ Release
  /\ UNCHANGED <<host, recoveryOk, suspended, flows, executed, expired,
                 history>>

(* validate_capability on the capability just issued: what can fail is its *)
(* expiry and the replay check on the request id.                          *)
UsableAgain == ~caps[op.cap].revoked /\ op.flow \notin expired  \* mutant

Usable == /\ ~caps[op.cap].revoked /\ ~caps[op.cap].used
          /\ op.flow \notin expired
          /\ op.rid \notin executed

ValidateRefused ==
  /\ op.pc = "validate"
  /\ ~Usable \/ op.flow = NoFlow  \* a direct capability may outlive its 60 s
  /\ AuditEmit
  /\ Release
  /\ NoWal
  /\ UNCHANGED <<host, recoveryOk, suspended, memory, expired, history>>

Consume ==
  /\ op.pc = "validate" /\ Usable
  /\ caps' = [caps EXCEPT ![op.cap].used = TRUE]
  /\ executed' = executed \cup {op.rid}
  /\ WalEmit(CapUsed(op.cap, op.rid))
  /\ Goto("note_executed")
  /\ UNCHANGED <<host, health, flows, expired, history>>

NoteExecuted ==
  /\ op.pc = "note_executed"
  /\ WalEmit(RequestExecuted(op.rid))
  /\ Goto("start")
  /\ UNCHANGED <<host, health, memory, expired, history>>

(* execution_start must reach the audit log and both logs must be open;    *)
(* then a flow's call becomes EXECUTING.                                   *)
LogsOpenAuditOnly(audit) == audit  \* mutant: the ledger is not asked

LogsOpen(audit) == audit /\ walOk

StartRefused ==
  /\ op.pc = "start"
  /\ AuditEmit
  /\ ~LogsOpen(auditOk')
  /\ Release
  /\ NoWal
  /\ UNCHANGED <<host, recoveryOk, suspended, memory, expired, history>>

StartExecution ==
  /\ op.pc = "start"
  /\ AuditEmit
  /\ LogsOpen(auditOk')
  /\ IF op.flow \in Flows /\ flows[op.flow].st = AUTHORIZED
     THEN /\ flows' = [flows EXCEPT ![op.flow].st = EXECUTING]
          /\ WalEmit(FlowExecuting(op.flow))
     ELSE flows' = flows /\ NoWal
  /\ Goto("effect")
  /\ UNCHANGED <<host, recoveryOk, suspended, caps, executed, expired,
                 history>>

(* tools.execute.  A failed or uncertain call may still have had its       *)
(* effect (a partial write, a delivery whose receipt was lost).            *)
Effect(res) ==
  /\ op.pc = "effect"
  /\ \E happened \in IF res = COMPLETED THEN {TRUE} ELSE BOOLEAN :
       IF happened
       THEN /\ effects' = [effects EXCEPT ![op.rid] = @ + 1]
            /\ ran' = ran \cup ({op.flow} \cap Flows)
       ELSE UNCHANGED <<effects, ran>>
  /\ op' = [op EXCEPT !.pc = "outcome", !.res = res]
  /\ NoWal
  /\ UNCHANGED <<host, health, memory, expired, denied, fenced>>

NoteOutcome ==
  /\ op.pc = "outcome"
  /\ AuditEmit
  /\ IF op.flow \in Flows /\ flows[op.flow].st = EXECUTING
     THEN /\ flows' = [flows EXCEPT ![op.flow].st = op.res]
          /\ WalEmit(FlowOutcome(op.flow, op.res))
     ELSE flows' = flows /\ NoWal
  /\ Release
  /\ UNCHANGED <<host, recoveryOk, suspended, caps, executed, expired,
                 history>>

-----------------------------------------------------------------------------
(* The watchdog's suspend needs no broker lock: it can land between any    *)
(* two steps of a call.  A kill suspends, then waits for the lock to       *)
(* revoke every capability.                                                *)
Suspend ==
  /\ phase = "up" /\ ~suspended
  /\ suspended' = TRUE
  /\ AuditEmit
  /\ NoWal
  /\ UNCHANGED <<host, recoveryOk, memory, op, expired, history>>

Revocable == {c \in Caps : caps[c].st = "issued" /\ ~caps[c].revoked}

RevokeBegin ==
  /\ MayCall /\ (Revocable # {} \/ suspended)
  /\ op' = [Idle EXCEPT !.pc = "revoke"]
  /\ NoWal
  /\ UNCHANGED <<host, health, memory, expired, history>>

RevokeOne(c) ==
  /\ op.pc = "revoke" /\ c \in Revocable
  /\ caps' = [caps EXCEPT ![c].revoked = TRUE]
  /\ AuditEmit
  /\ WalEmit(CapRevoked(c, caps[c].rid))
  /\ UNCHANGED <<host, recoveryOk, suspended, flows, executed, op, expired,
                 history>>

RevokeEnd ==
  /\ op.pc = "revoke" /\ Revocable = {}
  /\ fenced' = suspended
  /\ Release
  /\ NoWal
  /\ UNCHANGED <<host, health, memory, expired, effects, ran, denied>>

-----------------------------------------------------------------------------
(* The wall clock passes the expiry of a flow that can still use it.       *)
Expire(f) ==
  /\ flows[f].st \in {PENDING, AUTHORIZED} /\ f \notin expired
  /\ expired' = expired \cup {f}
  /\ UNCHANGED <<host, wal, walOk, health, memory, op, history>>

Crash ==
  /\ phase # "down" /\ crashes < MaxCrashes
  /\ phase' = "down" /\ cursor' = 1 /\ crashes' = crashes + 1
  /\ walOk' = FALSE /\ auditOk' = FALSE /\ recoveryOk' = FALSE
  /\ suspended' = FALSE
  /\ flows' = [f \in Flows |-> NoFlowRec]
  /\ caps' = [c \in Caps |-> NoCapRec]
  /\ executed' = {}
  /\ op' = Idle
  /\ fenced' = FALSE
  /\ UNCHANGED <<wal, expired, effects, ran, denied>>

(* VossRuntime::open opens both logs, then recover() replays the ledger.    *)
Boot ==
  /\ phase = "down"
  /\ phase' = "recovering"
  /\ walOk' = TRUE /\ auditOk' = TRUE
  /\ UNCHANGED <<cursor, crashes, wal, recoveryOk, suspended, memory, op,
                 expired, history>>

ReplayFlowApprovals(fl, rec) ==  \* mutant: a denial is not replayed
  LET f == rec.flow
      Set(st) == [fl EXCEPT ![f].st = st]
  IN CASE rec.t = "flow_request" ->
            [fl EXCEPT ![f] = [st |-> PENDING, rid |-> rec.rid]]
       [] rec.t = "flow_resolution" /\ rec.st = AUTHORIZED  -> Set(rec.st)
       [] rec.t = "flow_executing" /\ fl[f].st = AUTHORIZED -> Set(EXECUTING)
       [] rec.t = "flow_outcome" /\ fl[f].st = EXECUTING    -> Set(rec.st)
       [] OTHER -> fl

ReplayFlow(fl, rec) ==
  LET f == rec.flow
      Set(st) == [fl EXCEPT ![f].st = st]
  IN CASE rec.t = "flow_request" ->
            [fl EXCEPT ![f] = [st |-> PENDING, rid |-> rec.rid]]
       [] rec.t = "flow_resolution" /\ fl[f].st # "none"   -> Set(rec.st)
       [] rec.t = "flow_executing" /\ fl[f].st = AUTHORIZED -> Set(EXECUTING)
       [] rec.t = "flow_outcome" /\ fl[f].st = EXECUTING    -> Set(rec.st)
       [] OTHER -> fl

ReplayCapUnrevoked(cs, rec) ==  \* mutant: a revocation is not replayed
  LET c == rec.cap
  IN CASE rec.t = "capability_issued" ->
            [cs EXCEPT ![c] = [NoCapRec EXCEPT !.st = "issued",
                                 !.rid = rec.rid, !.flow = rec.flow]]
       [] rec.t = "capability_used" -> [cs EXCEPT ![c].used = TRUE]
       [] OTHER -> cs

ReplayCap(cs, rec) ==
  LET c == rec.cap
  IN CASE rec.t = "capability_issued" ->
            [cs EXCEPT ![c] = [NoCapRec EXCEPT !.st = "issued",
                                 !.rid = rec.rid, !.flow = rec.flow]]
       [] rec.t = "capability_used" /\ cs[c].st = "issued" ->
            [cs EXCEPT ![c].used = TRUE]
       [] rec.t = "capability_revoked" /\ cs[c].st = "issued" ->
            [cs EXCEPT ![c].revoked = TRUE]
       [] OTHER -> cs

ReplayExecutedForgets(ex, rec) == ex  \* mutant: the replay set is not rebuilt

ReplayExecuted(ex, rec) ==
  IF rec.t = "request_executed" THEN ex \cup {rec.rid} ELSE ex

ReplayRecord ==
  /\ phase = "recovering" /\ cursor <= Len(wal)
  /\ flows' = ReplayFlow(flows, wal[cursor])
  /\ caps' = ReplayCap(caps, wal[cursor])
  /\ executed' = ReplayExecuted(executed, wal[cursor])
  /\ cursor' = cursor + 1
  /\ NoWal
  /\ UNCHANGED <<phase, crashes, health, op, expired, history>>

Recovered ==
  /\ phase = "recovering" /\ cursor > Len(wal)
  /\ phase' = "up" /\ recoveryOk' = TRUE
  /\ AuditEmit
  /\ NoWal
  /\ UNCHANGED <<cursor, crashes, suspended, memory, op, expired, history>>

(* fail_recovery: the ledger cannot be read back or verified.  Nothing is   *)
(* restored, the broker refuses work and the worker is suspended.          *)
RecoveryFails ==
  /\ phase = "recovering" /\ cursor = 1
  /\ phase' = "up" /\ recoveryOk' = FALSE /\ suspended' = TRUE
  /\ AuditEmit
  /\ NoWal
  /\ UNCHANGED <<cursor, crashes, memory, op, expired, history>>

-----------------------------------------------------------------------------
CallStep ==
  \/ NoteRequest \/ NoteDenied \/ NoteApproved
  \/ \E c \in Caps : Store(c)
  \/ ValidateRefused \/ Consume \/ NoteExecuted
  \/ StartRefused \/ StartExecution
  \/ \E res \in Outcomes : Effect(res)
  \/ NoteOutcome
  \/ \E c \in Caps : RevokeOne(c)
  \/ RevokeEnd

BootStep == Boot \/ ReplayRecord \/ Recovered \/ RecoveryFails

Next ==
  \/ Refuse
  \/ \E r \in Requests : ProposeAllowed(r)
  \/ \E r \in Requests, f \in Flows : ProposeForApproval(r, f)
  \/ \E f \in Flows : Approve(f) \/ Deny(f) \/ ResolveUndecided(f) \/ Expire(f)
  \/ Suspend \/ RevokeBegin
  \/ CallStep
  \/ BootStep
  \/ Crash

Spec == Init /\ [][Next]_vars

-----------------------------------------------------------------------------
CallStages == {"idle", "note_request", "note_denied", "note_approved",
               "store", "validate", "note_executed", "start", "effect",
               "outcome", "revoke"}

RecordTypes == {"flow_request", "flow_resolution", "flow_executing",
                "flow_outcome", "capability_issued", "capability_used",
                "capability_revoked", "request_executed"}

FlowRec == [st : FlowStates \cup {"none"}, rid : Requests \cup {NoReq}]
CapRec  == [st : {"none", "issued"}, rid : Requests \cup {NoReq},
            flow : Flows \cup {NoFlow}, used : BOOLEAN, revoked : BOOLEAN]
WalRec  == [t : RecordTypes, flow : Flows \cup {NoFlow},
            cap : Caps \cup {NoCap}, rid : Requests \cup {NoReq},
            st : FlowStates]

(* A record carries the ids its event type needs. *)
WellFormed(rec) ==
  /\ rec.t \in {"flow_request", "flow_resolution", "flow_executing",
                "flow_outcome"} => rec.flow \in Flows
  /\ rec.t \in {"capability_issued", "capability_used",
                "capability_revoked"} => rec.cap \in Caps
  /\ rec.t \in {"flow_request", "capability_issued", "request_executed"}
       => rec.rid \in Requests

(* The type of the state, in parts.                                        *)
HostTyped ==
  /\ phase \in {"down", "recovering", "up"}
  /\ cursor \in Nat \ {0} /\ crashes \in Nat
  /\ walOk \in BOOLEAN /\ auditOk \in BOOLEAN /\ recoveryOk \in BOOLEAN
  /\ suspended \in BOOLEAN /\ fenced \in BOOLEAN

WalTyped == wal \in Seq(WalRec) /\ \A i \in DOMAIN wal : WellFormed(wal[i])

MemoryTyped ==
  /\ flows \in [Flows -> FlowRec]
  /\ \A f \in Flows : flows[f].st # "none" => flows[f].rid \in Requests
  /\ caps \in [Caps -> CapRec]
  /\ \A c \in Caps : caps[c].st = "issued" => caps[c].rid \in Requests
  /\ executed \subseteq Requests

(* What the call holds: the ids each of its stages reads are there.        *)
CallTyped ==
  /\ op \in [pc : CallStages, rid : Requests \cup {NoReq},
             flow : Flows \cup {NoFlow}, cap : Caps \cup {NoCap},
             res : Outcomes]
  /\ op.pc \notin {"idle", "revoke"} => op.rid \in Requests
  /\ op.pc = "idle" => op = Idle
  /\ op.pc \in {"note_request", "note_denied", "note_approved"}
       => op.flow \in Flows
  /\ op.pc \in {"validate", "note_executed", "start", "effect", "outcome"}
       => op.cap \in Caps

HistoryTyped ==
  /\ expired \subseteq Flows /\ ran \subseteq Flows /\ denied \subseteq Flows
  /\ effects \in [Requests -> Nat]

TypeOK == HostTyped /\ WalTyped /\ MemoryTyped /\ CallTyped /\ HistoryTyped

-----------------------------------------------------------------------------
(* A request id has at most one effect, however often the worker proposes  *)
(* it again, the operator approves a second flow for it, or the process    *)
(* dies: the replay check in validate_capability and its rebuild from the  *)
(* ledger (broker.rs:852, runtime.rs:1495).                                *)
AtMostOnce == \A r \in Requests : effects[r] <= 1

(* No effect happens before its request id is on disk: a ledger that fails *)
(* during the call stops it (broker.rs:642-674).                           *)
EffectIsClaimed == \A r \in Requests : effects[r] > 0 => Claimed(r)

(* An effect under a flow follows a durable approval of that flow: if the  *)
(* append of the approval failed, the post-claim check stops the call.     *)
EffectHasConsent ==
  \A f \in ran : Logged(FlowResolution(f, AUTHORIZED))

(* A flow whose denial was returned to the operator never has an effect,   *)
(* not even after a restart (PROTOTYPE.md:122, "DENY/CANCEL -> terminal"). *)
DeniedNeverRuns == denied \cap ran = {}

(* Once a kill has returned, no effect happens until the next boot: the    *)
(* worker is suspended before revoke_all takes the broker's lock, so no    *)
(* call that passed the guard is still running (runtime.rs:386-410).       *)
NoEffectAfterKill == [][fenced => effects' = effects]_vars

(* A denial that reached the ledger is final: no boot that replays it and  *)
(* no later approval gives the flow an effect, whichever log fails, even   *)
(* if the append that wrote it was reported as failed (approval.rs:268).   *)
DenialOnRecordIsFinal ==
  \A f \in ran : ~Logged(FlowResolution(f, DENIED))

(* The capabilities of a flow in the broker's memory, and the records of   *)
(* those it was granted in any boot.                                       *)
HeldBy(f)  == {c \in Caps : caps[c].st = "issued" /\ caps[c].flow = f}
GrantOf(f) ==
  {i \in DOMAIN wal : wal[i].t = "capability_issued" /\ wal[i].flow = f}

(* One approval is one capability: a flow never has two on the ledger, two *)
(* in memory, or one in memory and another on the ledger, though memory is *)
(* rebuilt, and an approval or a grant may miss the ledger.  (A grant that *)
(* missed it dies with its process, unused: then the flow is pending again *)
(* and may be approved again.)                                             *)
OneGrantPerFlow ==
  \A f \in Flows :
    /\ \A i, j \in GrantOf(f) : i = j
    /\ \A c, d \in HeldBy(f) : c = d
    /\ \A c \in HeldBy(f), i \in GrantOf(f) : wal[i].cap = c

-----------------------------------------------------------------------------
(* The inductive invariant behind AtMostOnce and EffectIsClaimed: the      *)
(* claims on the ledger, the replay set in memory and the call in flight   *)
(* agree.  A call that got past the guard runs on recovered memory         *)
(* (RecoveredCall); while a boot replays, the claims before the cursor are *)
(* in the replay set (ReplayedClaims); a recovered broker knows every      *)
(* claim on the ledger (KnownClaims); and a call between its replay check  *)
(* and its effect owns a request id that had no effect yet (OwnClaim).     *)
Serving == phase = "up" /\ recoveryOk

RecoveredCall ==
  /\ phase # "up" => op = Idle /\ ~recoveryOk
  /\ op.pc \notin {"idle", "revoke"} => Serving

ReplayedClaims ==
  /\ phase = "down" => cursor = 1
  /\ phase = "recovering" =>
       \A r \in Requests, i \in DOMAIN wal :
         i < cursor /\ wal[i] = RequestExecuted(r) => r \in executed

KnownClaims ==
  Serving => \A r \in Requests : Claimed(r) => r \in executed

OwnClaim ==
  /\ op.pc \in {"note_executed", "start", "effect"}
       => op.rid \in executed /\ effects[op.rid] = 0
  /\ op.pc = "start" /\ walOk => Claimed(op.rid)
  /\ op.pc = "effect" => Claimed(op.rid)

ClaimInv ==
  RecoveredCall /\ ReplayedClaims /\ KnownClaims /\ OwnClaim
    /\ EffectIsClaimed /\ AtMostOnce

(* The inductive invariant behind EffectHasConsent: from the moment an     *)
(* approved call asks for its capability, the ledger is closed or holds    *)
(* the approval of the call's flow.                                        *)
ConsentInv ==
  /\ /\ op.pc \in {"store", "validate", "note_executed", "start"}
     /\ op.flow \in Flows /\ walOk
     => Logged(FlowResolution(op.flow, AUTHORIZED))
  /\ op.pc = "effect" /\ op.flow \in Flows
     => Logged(FlowResolution(op.flow, AUTHORIZED))
  /\ EffectHasConsent

(* The inductive invariant behind NoEffectAfterKill: a fenced host is      *)
(* suspended and has no governed call in flight, and the guard lets none   *)
(* start.                                                                  *)
FenceInv ==
  fenced => phase = "up" /\ suspended /\ op.pc \in {"idle", "revoke"}

=============================================================================
