------------------------------- MODULE Intake -------------------------------
(***************************************************************************)
(* What the runtime does with a worker's envelope, an operator's decision  *)
(* and a channel exchange (rust/src/runtime.rs), on several threads: the   *)
(* request is normalized (Envelope), judged by the policy in force         *)
(* (Policy), executed or held for approval, tallied in the drift counters, *)
(* and the worker is contained when its score says so.  Each step is one   *)
(* lock of the code.  The broker's own steps and its faults are in Broker: *)
(* here its lock makes one step of them.  revoke_all has nothing to do in  *)
(* this module, where no capability outlives the step that uses it.        *)
(***************************************************************************)
EXTENDS Policy, Envelope, Integers, FiniteSets

CONSTANTS
  Threads,      \* of the host
  Inputs,       \* what a worker sends: envelopes, or Unparsed
  Unparsed,     \* a text that is no JSON object
  Principal, Session,  \* the registered worker's
  Packages,     \* the policy packages an operator may start the runtime with
  MinWindow,    \* 10 in the code: the least divisor of a score
  Nothing,
  MaxCalls, MaxRestarts  \* bounds

ASSUME IntakeAssumption ==
  /\ MinWindow \in Nat \ {0} /\ MaxCalls \in Nat /\ MaxRestarts \in Nat
  /\ \A p, q \in Packages : p.version = q.version => p = q  \* a version names
  /\ \E p \in Packages : Loads(p)                           \* one package

VARIABLES
  package,    \* the policy in force
  lapsed,     \* versions whose validity interval is over
  suspended,  \* Watchdog.suspended holds the worker
  count,      \* Counters
  contained,  \* Counters.contained
  flows,      \* approval flows, in the order they were requested
  executed,   \* request ids that were claimed
  call,       \* what each thread is doing
  boots, calls,
  effects,    \* history: what ran, under which version and which flow
  unavailable \* history: flows answered "denied_approval_unavailable"

vars == <<package, lapsed, suspended, count, contained, flows, executed, call,
          boots, calls, effects, unavailable>>

Zero == [breaches |-> 0, schema |-> 0, identity |-> 0, channel |-> 0,
         events |-> 0, exchanges |-> 0, anomalies |-> 0]
Idle == [at |-> "idle", kind |-> "none", request |-> Nothing, flow |-> 0,
         approve |-> FALSE, reason |-> "none", level |-> "none"]

-----------------------------------------------------------------------------
(* The drift score, as a pair of a numerator and a window each.  The four  *)
(* sums of the behavioral dimension are one; the part channel violations   *)
(* have in it is kept apart.                                               *)
Window(n) == IF n > MinWindow THEN n ELSE MinWindow

Dimensions(c) ==
  {<<n, Window(c.events)>> :
     n \in {c.breaches + c.channel, c.schema, c.identity}}
    \cup {<<c.anomalies, Window(c.exchanges)>>}

(* round_4 before the comparison: a quotient rounds to more than k         *)
(* ten-thousandths when it is at least k and a half.                       *)
Exceeds(d, k) == 20000 * d[1] >= (2 * k + 1) * d[2]

OverContain(c) == \E d \in Dimensions(c) : Exceeds(d, 3000)
OverFail(c) == \E d \in Dimensions(c) : Exceeds(d, 5000)

LevelOf(c, already) ==
  IF OverFail(c) \/ already THEN "fail"
  ELSE IF OverContain(c) THEN "contain" ELSE "fine"

(* tally: a policy denial, a tamper or a replay counts twice.              *)
Breaches(reason) ==
  IF reason \in {"denied_policy_no_rule", "denied_policy_conflict",
                 "denied_request_tamper", "denied_replay_uniqueness"} THEN 2
  ELSE IF reason = "denied_approval_expired" THEN 1 ELSE 0

(* Broker.guard, as far as this module has its parts.                      *)
Serves == ~suspended /\ package.version \notin lapsed

-----------------------------------------------------------------------------
Steps(t, changes) ==  \* the call of t goes on with some fields changed
  call' = [call EXCEPT ![t] =
             [f \in DOMAIN Idle |->
                IF f \in DOMAIN changes THEN changes[f] ELSE call[t][f]]]

Starts(t, changes) ==
  /\ call[t].at = "idle" /\ calls < MaxCalls
  /\ calls' = calls + 1
  /\ Steps(t, changes)

Init ==
  /\ package \in {p \in Packages : Loads(p)}
  /\ lapsed = {} /\ suspended = FALSE /\ contained = FALSE /\ count = Zero
  /\ flows = <<>> /\ executed = {} /\ call = [t \in Threads |-> Idle]
  /\ boots = 0 /\ calls = 0 /\ effects = {} /\ unavailable = {}

(* handle_envelope answers "denied_worker_suspended", and changes nothing, *)
(* when the worker is suspended or contained.                              *)
Receive(t, input) ==
  /\ ~suspended /\ ~contained
  /\ Starts(t, [at |-> "parse", kind |-> "envelope", request |-> input])
  /\ UNCHANGED <<package, lapsed, suspended, count, contained, flows,
                 executed, boots, effects, unavailable>>

(* The worker's identity is looked at before the rest of the envelope.  A  *)
(* claim that is missing is not the worker's.                              *)
Claims(envelope, field, value) ==
  field \in DOMAIN envelope /\ envelope[field] = value

Verdict(input) ==
  IF input = Unparsed THEN "schema"
  ELSE IF ~Claims(input, "principal", Principal)
            \/ ~Claims(input, "session_id", Session) THEN "identity"
  ELSE IF Normalizes(input, Principal) THEN "request" ELSE "schema"

Counted(verdict) ==
  [count EXCEPT !.events = @ + 1,
                !.schema = IF verdict = "schema" THEN @ + 1 ELSE @,
                !.identity = IF verdict = "identity" THEN @ + 1 ELSE @,
                !.breaches = IF verdict = "request" THEN @ ELSE @ + 1]

(* reject_schema, reject_identity or bump_events.                          *)
Classify(t) ==
  /\ call[t].at = "parse"
  /\ LET verdict == Verdict(call[t].request)
     IN  /\ count' = Counted(verdict)
         /\ IF verdict = "request"
            THEN Steps(t, [at |-> "execute",
                           request |-> Canonical(call[t].request)])
            ELSE Steps(t, [at |-> "judge", request |-> Nothing])
  /\ UNCHANGED <<package, lapsed, suspended, contained, flows, executed,
                 boots, calls, effects, unavailable>>

-----------------------------------------------------------------------------
(* use_capability.  A capability made from a flow carries the version the  *)
(* flow was requested under.                                               *)
UnboundRefusal(request, version) ==  \* mutant: the version is not compared
  IF request.request_id \in executed THEN "denied_replay_uniqueness"
  ELSE "none"

Refusal(request, version) ==
  IF version # package.version THEN "denied_request_tamper"
  ELSE IF request.request_id \in executed THEN "denied_replay_uniqueness"
  ELSE "none"

(* A tool that fails or cannot tell leaves the claim; neither counts.      *)
Uses(t, request, version, flow) ==
  LET refusal == Refusal(request, version)
      Leaves(state, reason) ==
        /\ flows' = IF flow = 0 THEN flows
                    ELSE [flows EXCEPT ![flow].state = state]
        /\ Steps(t, [at |-> "tally", reason |-> reason])
  IN  \/ /\ refusal # "none"
         /\ Leaves("AUTHORIZED", refusal)
         /\ UNCHANGED <<executed, effects>>
      \/ /\ refusal = "none"
         /\ executed' = executed \cup {request.request_id}
         /\ \/ /\ Leaves("COMPLETED", "policy_allowed")
               /\ effects' = effects \cup
                    {[request |-> request, package |-> package, flow |-> flow]}
            \/ /\ Leaves("UNKNOWN", "denied_tool_failure")
               /\ UNCHANGED effects

(* Broker.execute_action.                                                  *)
Execute(t) ==
  /\ call[t].at = "execute"
  /\ LET request == call[t].request
         ruling == Evaluate(package.rules, request)
     IN  \/ /\ ~Serves
            /\ Steps(t, [at |-> "tally",
                           reason |-> "denied_health_unavailable"])
            /\ UNCHANGED <<flows, executed, effects>>
         \/ /\ Serves /\ ruling = "policy_allowed"
            /\ Uses(t, request, package.version, 0)
         \/ /\ Serves /\ ruling = "policy_approval_required"
            /\ flows' = Append(flows,
                 [request |-> request, package |-> package, boot |-> boots,
                  state |-> "PENDING_APPROVAL"])
            /\ Steps(t, [at |-> "tally", reason |-> ruling,
                           flow |-> Len(flows) + 1])
            /\ UNCHANGED <<executed, effects>>
         \/ /\ Serves
            /\ ruling \notin {"policy_allowed", "policy_approval_required"}
            /\ Steps(t, [at |-> "tally", reason |-> ruling])
            /\ UNCHANGED <<flows, executed, effects>>
  /\ UNCHANGED <<package, lapsed, suspended, count, contained, boots, calls,
                 unavailable>>

(* resolve_approval; an unknown flow changes nothing.                      *)
Decide(t, flow, approve) ==
  /\ Starts(t, [at |-> "resolve", kind |-> "resolve", flow |-> flow,
                approve |-> approve])
  /\ UNCHANGED <<package, lapsed, suspended, count, contained, flows,
                 executed, boots, effects, unavailable>>

(* Broker.resolve_and_execute.  A flow that is late is closed whatever is  *)
(* decided; expiry is a matter of time, so any flow may be late.           *)
Resolve(t) ==
  /\ call[t].at = "resolve"
  /\ LET flow == call[t].flow
         pending == Serves /\ flows[flow].state = "PENDING_APPROVAL"
         Closes(reason) ==
           /\ flows' = [flows EXCEPT ![flow].state = "DENIED_OR_EXPIRED"]
           /\ Steps(t, [at |-> "tally", reason |-> reason])
           /\ UNCHANGED <<executed, effects>>
     IN  \/ /\ ~pending
            /\ Steps(t, [at |-> "tally",
                           reason |-> IF Serves THEN "denied_approval"
                                      ELSE "denied_health_unavailable"])
            /\ UNCHANGED <<flows, executed, effects>>
         \/ pending /\ ~call[t].approve /\ Closes("denied_approval")
         \/ pending /\ call[t].approve /\ Closes("denied_approval_expired")
         \/ /\ pending /\ call[t].approve
            /\ Uses(t, flows[flow].request, flows[flow].package.version, flow)
  /\ UNCHANGED <<package, lapsed, suspended, count, contained, boots, calls,
                 unavailable>>

(* tally, or the same lines again in resolve_approval_with, which count an *)
(* event too.                                                              *)
Tallied(t) ==
  [count EXCEPT !.breaches = @ + Breaches(call[t].reason),
                !.events = IF call[t].kind = "envelope" THEN @ ELSE @ + 1]

TallyForgets(t) ==  \* mutant: a decision is tallied and not judged
  /\ call[t].at = "tally"
  /\ count' = Tallied(t)
  /\ Steps(t, IF call[t].kind = "resolve" THEN Idle ELSE [at |-> "judge"])
  /\ UNCHANGED <<package, lapsed, suspended, contained, flows, executed,
                 boots, calls, effects, unavailable>>

Tally(t) ==
  /\ call[t].at = "tally"
  /\ count' = Tallied(t)
  /\ Steps(t, [at |-> "judge"])
  /\ UNCHANGED <<package, lapsed, suspended, contained, flows, executed,
                 boots, calls, effects, unavailable>>

-----------------------------------------------------------------------------
(* observe_exchange: an exchange too slow or too large is an anomaly.      *)
Observe(t, anomaly) ==
  /\ Starts(t, [at |-> "judge", kind |-> "observe"])
  /\ count' = [count EXCEPT !.exchanges = @ + 1,
                            !.anomalies = IF anomaly THEN @ + 1 ELSE @]
  /\ UNCHANGED <<package, lapsed, suspended, contained, flows, executed,
                 boots, effects, unavailable>>

(* channel_violation counts and suspends, and judges nothing.              *)
ChannelViolation(t) ==
  /\ Starts(t, [at |-> "act", kind |-> "channel", level |-> "contain"])
  /\ count' = [count EXCEPT !.channel = @ + 1]
  /\ UNCHANGED <<package, lapsed, suspended, contained, flows, executed,
                 boots, effects, unavailable>>

(* maybe_contain reads the score and the mark, under two locks: neither    *)
(* falls within a boot.  Its idle guard, the third, never holds here,      *)
(* where the caller has counted.                                           *)
Judge(t) ==
  /\ call[t].at = "judge"
  /\ Steps(t, [at |-> "act", level |-> LevelOf(count, contained)])
  /\ UNCHANGED <<package, lapsed, suspended, count, contained, flows,
                 executed, boots, calls, effects, unavailable>>

(* What is left of a call once the worker was judged: an answer that asks  *)
(* for approval goes by the console, a denial on its behalf has told the   *)
(* worker so.                                                              *)
Ends(t) ==
  /\ Steps(t, IF call[t].reason = "policy_approval_required"
              THEN [at |-> "intercept"] ELSE Idle)
  /\ unavailable' = IF call[t].kind = "unavailable"
                    THEN unavailable \cup {call[t].flow} ELSE unavailable

ActSealsFirst(t) ==  \* mutant: the mark is set before the worker is suspended
  /\ call[t].at = "act"
  /\ \/ /\ call[t].level = "fail"
        /\ contained' = TRUE
        /\ Steps(t, [level |-> "contain"])
        /\ UNCHANGED <<suspended, unavailable>>
     \/ /\ call[t].level # "fail"
        /\ suspended' = (suspended \/ call[t].level = "contain")
        /\ Ends(t)
        /\ UNCHANGED contained
  /\ UNCHANGED <<package, lapsed, count, flows, executed, boots, calls,
                 effects>>

Act(t) ==
  /\ call[t].at = "act"
  /\ suspended' = (suspended \/ call[t].level # "fine")
  /\ IF call[t].level = "fail"
     THEN Steps(t, [at |-> "seal"]) /\ UNCHANGED unavailable
     ELSE Ends(t)
  /\ UNCHANGED <<package, lapsed, count, contained, flows, executed, boots,
                 calls, effects>>

Seal(t) ==
  /\ call[t].at = "seal"
  /\ contained' = TRUE
  /\ Ends(t)
  /\ UNCHANGED <<package, lapsed, suspended, count, flows, executed, boots,
                 calls, effects>>

InterceptAnswers(t) ==  \* mutant: the answer is given and nothing is denied
  /\ call[t].at = "intercept"
  /\ \/ Steps(t, Idle) /\ UNCHANGED unavailable
     \/ /\ Steps(t, Idle)
        /\ unavailable' = unavailable \cup {call[t].flow}
  /\ UNCHANGED <<package, lapsed, suspended, count, contained, flows,
                 executed, boots, calls, effects>>

(* console_intercept: nothing when there is no console or it is healthy,   *)
(* and else a denial whose outcome is not looked at.                       *)
Intercept(t) ==
  /\ call[t].at = "intercept"
  /\ \/ Steps(t, Idle)
     \/ Steps(t, [at |-> "resolve", kind |-> "unavailable", approve |-> FALSE,
                  reason |-> "none"])
  /\ UNCHANGED <<package, lapsed, suspended, count, contained, flows,
                 executed, boots, calls, effects, unavailable>>

-----------------------------------------------------------------------------
(* Operators, the watch-guard and the console suspend the worker too.      *)
Suspend ==
  /\ ~suspended /\ suspended' = TRUE
  /\ UNCHANGED <<package, lapsed, count, contained, flows, executed, call,
                 boots, calls, effects, unavailable>>

(* The policy's interval ends: valid_now is false from here on.            *)
Lapse ==
  /\ package.version \notin lapsed /\ lapsed' = lapsed \cup {package.version}
  /\ UNCHANGED <<package, suspended, count, contained, flows, executed, call,
                 boots, calls, effects, unavailable>>

(* A crash, and open with a package that loads.  The ledger brings flows   *)
(* and claims back; counters, suspension and containment are in memory.    *)
Restart ==
  /\ boots < MaxRestarts /\ boots' = boots + 1
  /\ package' \in {p \in Packages : Loads(p) /\ p.version \notin lapsed}
  /\ suspended' = FALSE /\ contained' = FALSE /\ count' = Zero
  /\ call' = [t \in Threads |-> Idle]
  /\ UNCHANGED <<lapsed, flows, executed, calls, effects, unavailable>>

ThreadNext(t) ==
  \/ \E input \in Inputs : Receive(t, input)
  \/ \E flow \in DOMAIN flows, approve \in BOOLEAN : Decide(t, flow, approve)
  \/ \E anomaly \in BOOLEAN : Observe(t, anomaly)
  \/ Classify(t) \/ Execute(t) \/ Resolve(t) \/ Tally(t) \/ Judge(t) \/ Act(t)
  \/ Seal(t) \/ Intercept(t) \/ ChannelViolation(t)

Next == (\E t \in Threads : ThreadNext(t)) \/ Suspend \/ Lapse \/ Restart

Spec == Init /\ [][Next]_vars

-----------------------------------------------------------------------------
FlowStates ==
  {"PENDING_APPROVAL", "AUTHORIZED", "COMPLETED", "UNKNOWN",
   "DENIED_OR_EXPIRED"}
Places == {"idle", "parse", "execute", "resolve", "tally", "judge", "act",
           "seal", "intercept"}

(* Every variable has its type; and a worker that is marked contained is   *)
(* suspended too, so that no thread can see the one without the other.     *)
TypeOK ==
  /\ package \in Packages /\ suspended \in BOOLEAN
  /\ contained \in BOOLEAN /\ (contained => suspended)
  /\ lapsed \subseteq {p.version : p \in Packages}
  /\ count \in [DOMAIN Zero -> Nat]
  /\ \A f \in DOMAIN flows :
       flows[f].state \in FlowStates /\ flows[f].package \in Packages
  /\ executed \subseteq Identifiers
  /\ \A t \in Threads :
       /\ DOMAIN call[t] = DOMAIN Idle /\ call[t].at \in Places
       /\ call[t].flow \in 0..Len(flows)
       /\ call[t].at = "idle" => call[t] = Idle
  /\ boots \in 0..MaxRestarts /\ calls \in 0..MaxCalls
  /\ unavailable \subseteq DOMAIN flows

(* Counting, judging and acting are separate locks that the threads take   *)
(* in any order (handle_envelope, resolve_approval_with, observe_exchange).*)
(* When no call is in flight the worker is suspended if the score, as the  *)
(* runtime rounds and reports it, is over 0.30, and contained if it is     *)
(* over 0.50 without what channel violations added, which suspend and are  *)
(* not judged.                                                             *)
ScoreIsActedOn ==
  (\A t \in Threads : call[t].at = "idle") =>
    /\ OverContain(count) \/ count.channel > 0 => suspended
    /\ OverFail([count EXCEPT !.channel = 0]) => contained

(* A worker told that no console can approve its request finds the flow    *)
(* closed: it is still open only if the denial met a host that refuses     *)
(* everything, or in a later run of the runtime (runtime.rs:1172 drops the *)
(* result of the denial).                                                  *)
UnavailableIsClosed ==
  \A f \in unavailable :
    flows[f].state = "PENDING_APPROVAL" => ~Serves \/ flows[f].boot < boots

(* Whatever ran was permitted by the package in force when it ran: without *)
(* a flow, some rule applied and none that applied asks for approval; by a *)
(* flow, every rule that applied asks for it, and the flow was requested   *)
(* under this package and not under one that was replaced at a restart.    *)
EffectIsPermitted ==
  \A e \in effects :
    LET applying == {r \in ToSet(e.package.rules) : Applies(r, e.request)}
    IN  /\ applying # {}
        /\ \A r \in applying : Gated(r) <=> e.flow # 0
        /\ e.flow # 0 => /\ flows[e.flow].package = e.package
                         /\ flows[e.flow].request = e.request
=============================================================================
