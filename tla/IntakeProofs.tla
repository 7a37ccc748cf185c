---------------------------- MODULE IntakeProofs ----------------------------
(***************************************************************************)
(* Theorems about Policy, for every bundle and every request: what an      *)
(* author of rules may rely on whatever else is in the bundle.  Theorems   *)
(* about Intake, for every number of threads, every set of packages and    *)
(* inputs, and any number of calls and restarts: whatever runs is          *)
(* permitted; a flow denied for want of a console stays closed; scores are *)
(* acted on whatever the threads interleave; and the types.                *)
(***************************************************************************)
EXTENDS Intake, WellFoundedInduction, TLAPS

Gates(rules, request) == {Gated(rules[i]) : i \in Matching(rules, request)}

LEMMA GatesAreBooleans ==
  ASSUME NEW rules, NEW request
  PROVE  Gates(rules, request) \subseteq BOOLEAN
BY DEF Gates, Gated

(* The four answers of PolicyEngine::evaluate, told apart by what the      *)
(* rules that match ask for.                                               *)
LEMMA EvaluateCases ==
  ASSUME NEW rules, NEW request
  PROVE  /\ Evaluate(rules, request) = "denied_policy_no_rule"
              <=> Gates(rules, request) = {}
         /\ Evaluate(rules, request) = "policy_approval_required"
              <=> Gates(rules, request) = {TRUE}
         /\ Evaluate(rules, request) = "policy_allowed"
              <=> Gates(rules, request) = {FALSE}
<1> DEFINE gates == Gates(rules, request)
<1>1. Evaluate(rules, request) =
        CASE gates = {}      -> "denied_policy_no_rule"
          [] gates = {TRUE}  -> "policy_approval_required"
          [] gates = {FALSE} -> "policy_allowed"
          [] OTHER           -> "denied_policy_conflict"
  BY DEF Evaluate, Gates
<1>2. /\ {TRUE} # {FALSE} /\ {TRUE} # {} /\ {FALSE} # {}
  OBVIOUS
<1> HIDE DEF gates
<1>3. CASE gates = {}
  BY <1>1, <1>2, <1>3 DEF gates
<1>4. CASE gates = {TRUE}
  BY <1>1, <1>2, <1>4 DEF gates
<1>5. CASE gates = {FALSE}
  BY <1>1, <1>2, <1>5 DEF gates
<1>6. CASE gates # {} /\ gates # {TRUE} /\ gates # {FALSE}
  BY <1>1, <1>6 DEF gates
<1> QED BY <1>3, <1>4, <1>5, <1>6

(* What is allowed is allowed by some rule and gated by none; what needs   *)
(* approval is gated by every rule that matches, and by at least one.      *)
THEOREM RulingIsUnanimous ==
  ASSUME NEW rules, NEW request
  PROVE  /\ Evaluate(rules, request) = "policy_allowed" =>
              /\ Matching(rules, request) # {}
              /\ \A i \in Matching(rules, request) : ~Gated(rules[i])
         /\ Evaluate(rules, request) = "policy_approval_required" =>
              /\ Matching(rules, request) # {}
              /\ \A i \in Matching(rules, request) : Gated(rules[i])
<1>1. ASSUME NEW i \in Matching(rules, request)
      PROVE  Gated(rules[i]) \in Gates(rules, request)
  BY DEF Gates
<1>2. Matching(rules, request) = {} => Gates(rules, request) = {}
  BY DEF Gates
<1>3. ASSUME NEW i \in Matching(rules, request),
             Gates(rules, request) = {FALSE}
      PROVE  ~Gated(rules[i])
  BY <1>1, <1>3, Zenon
<1>4. ASSUME NEW i \in Matching(rules, request),
             Gates(rules, request) = {TRUE}
      PROVE  Gated(rules[i])
  BY <1>1, <1>4, Zenon
<1>5. {TRUE} # {} /\ {FALSE} # {}
  OBVIOUS
<1> QED BY <1>2, <1>3, <1>4, <1>5, EvaluateCases

(* A human gate cannot be talked away: while a rule that asks for approval *)
(* matches a request, no other rule of the bundle makes it run without.    *)
THEOREM GateIsHeeded ==
  ASSUME NEW rules, NEW request, NEW i \in Matching(rules, request),
         Gated(rules[i])
  PROVE  Evaluate(rules, request) # "policy_allowed"
BY RulingIsUnanimous

(* The order of the rules in a bundle does not matter to what is decided.  *)
THEOREM OrderIsIrrelevant ==
  ASSUME NEW rules, NEW other, NEW request,
         \A i \in DOMAIN rules : \E j \in DOMAIN other : other[j] = rules[i],
         \A j \in DOMAIN other : \E i \in DOMAIN rules : rules[i] = other[j]
  PROVE  Evaluate(rules, request) = Evaluate(other, request)
<1>1. ASSUME NEW a, NEW b, NEW i \in Matching(a, request),
             \A k \in DOMAIN a : \E j \in DOMAIN b : b[j] = a[k]
      PROVE  \E j \in Matching(b, request) : b[j] = a[i]
  <2>1. i \in DOMAIN a /\ Applies(a[i], request)
    BY DEF Matching
  <2>2. PICK j \in DOMAIN b : b[j] = a[i]
    BY <1>1, <2>1
  <2>3. j \in Matching(b, request)
    BY <2>1, <2>2 DEF Matching
  <2> QED BY <2>2, <2>3
<1>2. ASSUME NEW a, NEW b,
             \A k \in DOMAIN a : \E j \in DOMAIN b : b[j] = a[k]
      PROVE  Gates(a, request) \subseteq Gates(b, request)
  <2>1. SUFFICES ASSUME NEW i \in Matching(a, request)
                 PROVE  Gated(a[i]) \in Gates(b, request)
    BY DEF Gates
  <2>2. PICK j \in Matching(b, request) : b[j] = a[i]
    BY <1>1, <1>2
  <2>3. Gated(b[j]) \in Gates(b, request)
    BY DEF Gates
  <2> QED BY <2>2, <2>3
<1>3. Gates(rules, request) = Gates(other, request)
  BY <1>2
<1> QED BY <1>3 DEF Evaluate, Gates

(* A rule more never opens what a bundle closed: an answer other than "no  *)
(* rule" that does not allow stays one that does not allow.                *)
THEOREM RulesOnlyTighten ==
  ASSUME NEW R, NEW rules \in Seq(R), NEW rule \in R, NEW request,
         Matching(rules, request) # {},
         Evaluate(rules, request) # "policy_allowed"
  PROVE  Evaluate(Append(rules, rule), request) # "policy_allowed"
<1> DEFINE more == Append(rules, rule)
<1>1. \A i \in DOMAIN rules : i \in DOMAIN more /\ more[i] = rules[i]
  OBVIOUS
<1> HIDE DEF more
<1>2. Matching(rules, request) \subseteq Matching(more, request)
  BY <1>1 DEF Matching
<1>3. PICK i \in Matching(rules, request) : Gated(rules[i])
  <2>1. SUFFICES ASSUME \A i \in Matching(rules, request) : ~Gated(rules[i])
                 PROVE  FALSE
    OBVIOUS
  <2>2. ASSUME NEW gate \in Gates(rules, request)
        PROVE  gate = FALSE
    <3>1. PICK i \in Matching(rules, request) : gate = Gated(rules[i])
      BY DEF Gates
    <3>2. gate \in BOOLEAN
      BY GatesAreBooleans
    <3> QED BY <2>1, <3>1, <3>2, Zenon
  <2>3. Gates(rules, request) # {}
    BY DEF Gates
  <2>4. Gates(rules, request) = {FALSE}
    BY <2>2, <2>3
  <2> QED BY <2>4, EvaluateCases
<1>4. i \in DOMAIN rules
  BY DEF Matching
<1>5. i \in Matching(more, request) /\ Gated(more[i])
  BY <1>1, <1>2, <1>3, <1>4
<1> QED BY <1>5, GateIsHeeded DEF more

(* An approval request inherits a time limit of one second to one day from *)
(* any bundle that loads: it can neither last for ever nor be born late.   *)
THEOREM ExpiryIsBounded ==
  ASSUME NEW bundle, Loads(bundle), NEW request,
         DOMAIN bundle.rules \subseteq Nat,
         Matching(bundle.rules, request) # {}
  PROVE  ExpiryLimit(bundle.rules, request) \in ExpiryLimits
<1> DEFINE rules == bundle.rules
           matching == Matching(rules, request)
<1>1. matching \subseteq DOMAIN rules
  BY DEF Matching
<1>2. ASSUME NEW i \in DOMAIN rules
      PROVE  rules[i].expiry_limit_seconds \in ExpiryLimits
  <2>1. RuleLoads(rules[i])
    BY Zenon DEF Loads
  <2> QED BY <2>1, Zenon DEF RuleLoads
<1>3. \E i \in matching : \A j \in matching : i <= j
  <2>1. matching \subseteq Nat /\ matching # {}
    BY <1>1
  <2>2. PICK i \in matching :
           \A j \in matching : ~(<<j, i>> \in OpToRel(<, Nat))
    BY <2>1, WFMin, NatLessThanWellFounded
  <2>3. ASSUME NEW j \in matching
        PROVE  i <= j
    <3>1. i \in Nat /\ j \in Nat
      BY <2>1
    <3>2. ~(<<j, i>> \in {ss \in Nat \X Nat : ss[1] < ss[2]})
      BY <2>2 DEF OpToRel
    <3> QED BY <3>1, <3>2
  <2> QED BY <2>3
<1>4. FirstOf(rules, request) =
        rules[CHOOSE i \in matching : \A j \in matching : i <= j]
  BY DEF FirstOf
<1> HIDE DEF matching
<1>5. (CHOOSE i \in matching : \A j \in matching : i <= j) \in matching
  BY <1>3
<1>6. FirstOf(rules, request).expiry_limit_seconds \in ExpiryLimits
  BY <1>1, <1>2, <1>4, <1>5
<1> QED BY <1>6 DEF ExpiryLimit

-----------------------------------------------------------------------------
Requests == Inputs \cup {Canonical(e) : e \in Inputs} \cup {Nothing}
Flow == [request : Requests, package : Packages, boot : Nat, state : FlowStates]

Typed ==
  package \in Packages /\ boots \in Nat /\ flows \in Seq(Flow)
  /\ DOMAIN call = Threads

(* A call that resolves, or that was told to ask, has its flow.            *)
CallOK(t) ==
  /\ call[t].request \in Requests
  /\ call[t].at = "parse" => call[t].request \in Inputs
  /\ (call[t].at \in {"resolve", "intercept"}
        \/ call[t].reason = "policy_approval_required")
       => call[t].flow \in DOMAIN flows

(* A flow holds a request that its package asks approval for.              *)
Held ==
  \A f \in DOMAIN flows :
    Evaluate(flows[f].package.rules, flows[f].request)
      = "policy_approval_required"

PermittedNow(e) ==
  \/ e.flow = 0 /\ Evaluate(e.package.rules, e.request) = "policy_allowed"
  \/ /\ e.flow \in DOMAIN flows
     /\ flows[e.flow].package = e.package
     /\ flows[e.flow].request = e.request

(* Evaluate is asked when a request comes in, and not when it runs: what   *)
(* makes an approved effect permitted is that its flow was held for this   *)
(* reason and that use_capability compares the versions.                   *)
IntakeInv ==
  /\ Typed /\ Held
  /\ \A t \in Threads : CallOK(t)
  /\ \A e \in effects : PermittedNow(e)

-----------------------------------------------------------------------------
LEMMA InvPermits == IntakeInv => EffectIsPermitted
<1> SUFFICES ASSUME IntakeInv, NEW e \in effects
             PROVE  LET applying == {r \in ToSet(e.package.rules) :
                                       Applies(r, e.request)}
                    IN  /\ applying # {}
                        /\ \A r \in applying : Gated(r) <=> e.flow # 0
                        /\ e.flow # 0 => /\ flows[e.flow].package = e.package
                                         /\ flows[e.flow].request = e.request
  BY DEF EffectIsPermitted
<1> DEFINE rules == e.package.rules
           applying == {r \in ToSet(rules) : Applies(r, e.request)}
<1>1. ASSUME NEW r \in applying
      PROVE  \E i \in Matching(rules, e.request) : rules[i] = r
  BY DEF ToSet, Matching
<1>2. ASSUME NEW i \in Matching(rules, e.request)
      PROVE  rules[i] \in applying
  BY DEF ToSet, Matching
<1>3. PermittedNow(e)
  BY DEF IntakeInv
<1>4. CASE e.flow = 0 /\ Evaluate(rules, e.request) = "policy_allowed"
  <2>1. /\ Matching(rules, e.request) # {}
        /\ \A i \in Matching(rules, e.request) : ~Gated(rules[i])
    BY <1>4, RulingIsUnanimous
  <2>2. applying # {}
    BY <1>2, <2>1
  <2>3. \A r \in applying : ~Gated(r)
    BY <1>1, <2>1
  <2> QED BY <1>4, <2>2, <2>3
<1>5. CASE /\ e.flow \in DOMAIN flows
           /\ flows[e.flow].package = e.package
           /\ flows[e.flow].request = e.request
  <2>1. Evaluate(rules, e.request) = "policy_approval_required"
    BY <1>5 DEF IntakeInv, Held
  <2>2. /\ Matching(rules, e.request) # {}
        /\ \A i \in Matching(rules, e.request) : Gated(rules[i])
    BY <2>1, RulingIsUnanimous
  <2>3. applying # {}
    BY <1>2, <2>2
  <2>4. \A r \in applying : Gated(r)
    BY <1>1, <2>2
  <2>5. e.flow # 0
    BY <1>5 DEF IntakeInv, Typed
  <2> QED BY <1>5, <2>3, <2>4, <2>5
<1> QED BY <1>3, <1>4, <1>5 DEF PermittedNow

LEMMA InitHolds == Init => IntakeInv
<1> SUFFICES ASSUME Init PROVE IntakeInv
  OBVIOUS
<1>1. Typed /\ Held
  BY DEF Init, Typed, Held
<1>2. ASSUME NEW t \in Threads PROVE CallOK(t)
  BY DEF Init, CallOK, Idle, Requests
<1>3. effects = {}
  BY DEF Init
<1> QED BY <1>1, <1>2, <1>3 DEF IntakeInv

(* What a step leaves of the calls: the others are as they were, and the   *)
(* fields of its own that it does not name too.                            *)
LEMMA StepsFields ==
  ASSUME Typed, NEW t \in Threads, NEW changes, Steps(t, changes)
  PROVE  /\ DOMAIN call' = Threads
         /\ \A u \in Threads \ {t} : call'[u] = call[u]
         /\ \A f \in DOMAIN Idle :
              call'[t][f] = IF f \in DOMAIN changes THEN changes[f]
                            ELSE call[t][f]
BY DEF Typed, Steps

LEMMA IdleFields ==
  DOMAIN Idle = {"at", "kind", "request", "flow", "approve", "reason", "level"}
BY DEF Idle

(* While flows only grow or change their state, the calls that a step does *)
(* not touch stay in order, and so do the effects there were.              *)
FlowsKept ==
  /\ flows' \in Seq(Flow) /\ Len(flows) <= Len(flows')
  /\ \A f \in DOMAIN flows :
       /\ flows'[f].package = flows[f].package
       /\ flows'[f].request = flows[f].request

LEMMA OthersKept ==
  ASSUME IntakeInv, FlowsKept
  PROVE  /\ \A f \in DOMAIN flows : f \in DOMAIN flows'
         /\ \A u \in Threads : call'[u] = call[u] => CallOK(u)'
         /\ \A e \in effects : PermittedNow(e)'
<1>1. \A f \in DOMAIN flows : f \in DOMAIN flows'
  BY DEF IntakeInv, Typed, FlowsKept
<1>2. ASSUME NEW u \in Threads, call'[u] = call[u] PROVE CallOK(u)'
  BY <1>1, <1>2 DEF IntakeInv, CallOK
<1>3. ASSUME NEW e \in effects PROVE PermittedNow(e)'
  BY <1>1 DEF IntakeInv, PermittedNow, FlowsKept
<1> QED BY <1>1, <1>2, <1>3

(* The invariant after a step of t: what is left to show of each action.   *)
LEMMA StepKeeps ==
  ASSUME IntakeInv, NEW t \in Threads, NEW changes, Steps(t, changes),
         package' \in Packages, boots' \in Nat,
         FlowsKept, Held', CallOK(t)',
         \A e \in effects' : e \in effects \/ PermittedNow(e)'
  PROVE  IntakeInv'
<1>1. Typed
  BY DEF IntakeInv
<1>2. DOMAIN call' = Threads /\ \A u \in Threads \ {t} : call'[u] = call[u]
  BY <1>1, StepsFields
<1>3. Typed'
  BY <1>2 DEF Typed, FlowsKept
<1>4. \A u \in Threads : CallOK(u)'
  BY <1>2, OthersKept
<1>5. \A e \in effects' : PermittedNow(e)'
  BY OthersKept
<1> QED BY <1>3, <1>4, <1>5 DEF IntakeInv

(* Most steps leave flows, effects and the package alone, and give a call  *)
(* a place where it needs no flow that it does not have.                   *)
LEMMA QuietStep ==
  ASSUME IntakeInv, NEW t \in Threads, NEW changes, Steps(t, changes),
         UNCHANGED <<package, flows, effects, boots>>,
         CallOK(t)'
  PROVE  IntakeInv'
<1>1. package' \in Packages /\ boots' \in Nat /\ FlowsKept
  BY DEF IntakeInv, Typed, FlowsKept
<1>2. Held'
  BY DEF IntakeInv, Held
<1>3. \A e \in effects' : e \in effects
  OBVIOUS
<1> QED BY <1>1, <1>2, <1>3, StepKeeps

(* A call that goes on with its own request, flow and reason to a place    *)
(* where neither is needed anew.                                           *)
LEMMA PlainMove ==
  ASSUME IntakeInv, NEW t \in Threads, flows' = flows,
         call'[t].request = call[t].request, call'[t].flow = call[t].flow,
         call'[t].reason = call[t].reason,
         call'[t].at \notin {"parse", "resolve", "intercept"}
  PROVE  CallOK(t)'
<1>1. CallOK(t)
  BY DEF IntakeInv
<1> QED BY <1>1 DEF CallOK

LEMMA ReceiveKeeps ==
  ASSUME IntakeInv, NEW t \in Threads, NEW input \in Inputs, Receive(t, input)
  PROVE  IntakeInv'
<1> DEFINE changes == [at |-> "parse", kind |-> "envelope", request |-> input]
<1>1. Typed /\ CallOK(t)
  BY DEF IntakeInv
<1>2. Steps(t, changes)
  BY DEF Receive, Starts
<1>3. /\ call'[t].at = "parse" /\ call'[t].request = input
      /\ call'[t].flow = call[t].flow /\ call'[t].reason = call[t].reason
  BY <1>1, <1>2, StepsFields, IdleFields
<1>4. UNCHANGED <<package, flows, effects, boots>>
  BY DEF Receive
<1>5. CallOK(t)'
  BY <1>1, <1>3, <1>4 DEF CallOK, Requests
<1> QED BY <1>2, <1>4, <1>5, QuietStep

LEMMA ClassifyKeeps ==
  ASSUME IntakeInv, NEW t \in Threads, Classify(t)
  PROVE  IntakeInv'
<1>1. Typed /\ CallOK(t)
  BY DEF IntakeInv
<1>2. UNCHANGED <<package, flows, effects, boots>>
  BY DEF Classify
<1>3. CASE Steps(t, [at |-> "execute", request |-> Canonical(call[t].request)])
  <2>1. /\ call'[t].at = "execute"
        /\ call'[t].request = Canonical(call[t].request)
        /\ call'[t].flow = call[t].flow /\ call'[t].reason = call[t].reason
    BY <1>1, <1>3, StepsFields, IdleFields
  <2>2. call[t].request \in Inputs
    BY <1>1 DEF Classify, CallOK
  <2>3. CallOK(t)'
    BY <1>1, <1>2, <2>1, <2>2 DEF CallOK, Requests
  <2> QED BY <1>2, <1>3, <2>3, QuietStep
<1>4. CASE Steps(t, [at |-> "judge", request |-> Nothing])
  <2>1. /\ call'[t].at = "judge" /\ call'[t].request = Nothing
        /\ call'[t].flow = call[t].flow /\ call'[t].reason = call[t].reason
    BY <1>1, <1>4, StepsFields, IdleFields
  <2>2. CallOK(t)'
    BY <1>1, <1>2, <2>1 DEF CallOK, Requests
  <2> QED BY <1>2, <1>4, <2>2, QuietStep
<1> QED BY <1>3, <1>4 DEF Classify

-----------------------------------------------------------------------------
(* The heart of it: a capability that is used runs what its flow, or the   *)
(* package, permits; a version names one package (IntakeAssumption).       *)
LEMMA UsesKeeps ==
  ASSUME IntakeInv, NEW t \in Threads, NEW request, NEW from \in Packages,
         NEW flow, Uses(t, request, from.version, flow),
         UNCHANGED <<package, boots>>,
         \/ /\ flow = 0
            /\ Evaluate(package.rules, request) = "policy_allowed"
         \/ /\ flow \in DOMAIN flows
            /\ flows[flow].package = from /\ flows[flow].request = request
  PROVE  IntakeInv'
<1> DEFINE Moves(reason) == Steps(t, [at |-> "tally", reason |-> reason])
<1>1. Typed /\ Held /\ CallOK(t)
  BY DEF IntakeInv
<1>2. /\ \/ flows' = flows
         \/ /\ flow \in DOMAIN flows
            /\ \E state \in FlowStates :
                 flows' = [flows EXCEPT ![flow].state = state]
      /\ \E reason : Moves(reason) /\ reason # "policy_approval_required"
      /\ effects' \subseteq effects \cup
           {[request |-> request, package |-> package, flow |-> flow]}
      /\ effects' # effects => from.version = package.version
  <2> DEFINE refusal == Refusal(request, from.version)
             Leaves(state, reason) ==
               /\ flows' = IF flow = 0 THEN flows
                           ELSE [flows EXCEPT ![flow].state = state]
               /\ Moves(reason)
  <2>1. \/ /\ refusal # "none" /\ Leaves("AUTHORIZED", refusal)
           /\ effects' = effects
        \/ /\ refusal = "none" /\ Leaves("COMPLETED", "policy_allowed")
           /\ effects' = effects \cup
                {[request |-> request, package |-> package, flow |-> flow]}
        \/ /\ refusal = "none" /\ Leaves("UNKNOWN", "denied_tool_failure")
           /\ effects' = effects
    BY Zenon DEF Uses
  <2>2. /\ refusal # "policy_approval_required"
        /\ refusal = "none" => from.version = package.version
    BY DEF Refusal
  <2>3. PICK state \in FlowStates :
          \E reason :
            Leaves(state, reason) /\ reason # "policy_approval_required"
    BY <2>1, <2>2 DEF FlowStates
  <2>4. PICK reason :
          Leaves(state, reason) /\ reason # "policy_approval_required"
    BY <2>3
  <2>5. \/ flows' = flows
        \/ /\ flow \in DOMAIN flows
           /\ flows' = [flows EXCEPT ![flow].state = state]
    BY <2>4
  <2> HIDE DEF refusal
  <2>6. /\ effects' \subseteq effects \cup
             {[request |-> request, package |-> package, flow |-> flow]}
        /\ effects' # effects => from.version = package.version
    BY <2>1, <2>2
  <2> HIDE DEF Moves
  <2> QED BY <2>4, <2>5, <2>6
<1>3. PICK reason : Moves(reason) /\ reason # "policy_approval_required"
  BY <1>2
<1>4. FlowsKept
  <2>1. CASE flows' = flows
    BY <1>1, <2>1 DEF Typed, FlowsKept
  <2>2. CASE /\ flow \in DOMAIN flows
             /\ \E state \in FlowStates :
                  flows' = [flows EXCEPT ![flow].state = state]
    <3>1. PICK state \in FlowStates :
             flows' = [flows EXCEPT ![flow].state = state]
      BY <2>2
    <3>2. flows[flow] \in Flow
      BY <1>1, <2>2 DEF Typed
    <3>3. [flows[flow] EXCEPT !.state = state] \in Flow
      BY <3>1, <3>2 DEF Flow
    <3>4. flows' \in Seq(Flow) /\ Len(flows') = Len(flows)
      BY <1>1, <2>2, <3>1, <3>3 DEF Typed
    <3>5. ASSUME NEW f \in DOMAIN flows
          PROVE  /\ flows'[f].package = flows[f].package
                 /\ flows'[f].request = flows[f].request
      <4>1. flows[f] \in Flow
        BY <1>1 DEF Typed
      <4> QED BY <1>1, <3>1, <4>1 DEF Typed, Flow
    <3> QED BY <1>1, <3>4, <3>5 DEF Typed, FlowsKept
  <2> QED BY <1>2, <2>1, <2>2
<1>5. DOMAIN flows' = DOMAIN flows
  BY <1>1, <1>2 DEF Typed
<1>6. Held'
  BY <1>1, <1>4, <1>5 DEF Held, FlowsKept
<1>7. /\ call'[t].at = "tally" /\ call'[t].request = call[t].request
      /\ call'[t].reason # "policy_approval_required"
  BY <1>1, <1>3, StepsFields, IdleFields
<1>8. CallOK(t)'
  BY <1>1, <1>7 DEF CallOK
<1>9. ASSUME NEW e \in effects', e \notin effects
      PROVE  PermittedNow(e)'
  <2>1. e = [request |-> request, package |-> package, flow |-> flow]
    BY <1>2, <1>9
  <2>2. from.version = package.version
    BY <1>2, <1>9
  <2>3. from = package
    BY <1>1, <2>2, IntakeAssumption DEF Typed
  <2>4. PermittedNow(e)
    BY <2>1, <2>3 DEF PermittedNow
  <2>5. e.flow \in DOMAIN flows =>
          /\ flows'[e.flow].package = flows[e.flow].package
          /\ flows'[e.flow].request = flows[e.flow].request
    BY <1>4 DEF FlowsKept
  <2> QED BY <1>5, <2>4, <2>5 DEF PermittedNow
<1>10. package' \in Packages /\ boots' \in Nat
  BY <1>1 DEF Typed
<1> QED BY <1>3, <1>4, <1>6, <1>8, <1>9, <1>10, StepKeeps

LEMMA ExecuteKeeps ==
  ASSUME IntakeInv, NEW t \in Threads, Execute(t)
  PROVE  IntakeInv'
<1> DEFINE request == call[t].request
           ruling == Evaluate(package.rules, request)
           held == [request |-> request, package |-> package, boot |-> boots,
                    state |-> "PENDING_APPROVAL"]
<1>1. Typed /\ Held /\ CallOK(t)
  BY DEF IntakeInv
<1>2. UNCHANGED <<package, boots>>
  BY DEF Execute
<1>3. ASSUME NEW reason, reason # "policy_approval_required",
             Steps(t, [at |-> "tally", reason |-> reason]),
             UNCHANGED <<flows, effects>>
      PROVE  IntakeInv'
  <2>1. /\ call'[t].at = "tally" /\ call'[t].request = request
        /\ call'[t].reason = reason
    BY <1>1, <1>3, StepsFields, IdleFields
  <2>2. CallOK(t)'
    BY <1>1, <1>3, <2>1 DEF CallOK
  <2> QED BY <1>2, <1>3, <2>2, QuietStep
<1>4. CASE ruling = "policy_allowed" /\ Uses(t, request, package.version, 0)
  BY <1>1, <1>2, <1>4, UsesKeeps DEF Typed
<1>5. CASE /\ ruling = "policy_approval_required"
           /\ flows' = Append(flows, held)
           /\ Steps(t, [at |-> "tally", reason |-> ruling,
                        flow |-> Len(flows) + 1])
           /\ UNCHANGED <<executed, effects>>
  <2>1. held \in Flow
    BY <1>1 DEF Typed, CallOK, Flow, FlowStates
  <2>2. /\ flows' \in Seq(Flow) /\ Len(flows') = Len(flows) + 1
        /\ DOMAIN flows' = 1..Len(flows) + 1
        /\ \A f \in DOMAIN flows : flows'[f] = flows[f]
        /\ flows'[Len(flows) + 1] = held
    BY <1>1, <1>5, <2>1 DEF Typed
  <2>3. FlowsKept
    BY <1>1, <2>2 DEF Typed, FlowsKept
  <2>4. ASSUME NEW f \in DOMAIN flows'
        PROVE  Evaluate(flows'[f].package.rules, flows'[f].request)
                 = "policy_approval_required"
    <3>1. CASE f \in DOMAIN flows
      BY <1>1, <2>2, <3>1 DEF Held
    <3>2. CASE f = Len(flows) + 1
      BY <1>5, <2>2, <3>2
    <3> QED BY <1>1, <2>2, <3>1, <3>2 DEF Typed
  <2>5. Held'
    BY <2>4 DEF Held
  <2>6. /\ call'[t].at = "tally" /\ call'[t].request = request
        /\ call'[t].flow = Len(flows) + 1
    BY <1>1, <1>5, StepsFields, IdleFields
  <2>7. CallOK(t)'
    BY <1>1, <2>2, <2>6 DEF CallOK, Typed
  <2> QED BY <1>1, <1>2, <1>5, <2>3, <2>5, <2>7, StepKeeps DEF Typed
<1>6. \/ \E reason : /\ reason # "policy_approval_required"
                     /\ Steps(t, [at |-> "tally", reason |-> reason])
                     /\ UNCHANGED <<flows, effects>>
      \/ ruling = "policy_allowed" /\ Uses(t, request, package.version, 0)
      \/ /\ ruling = "policy_approval_required"
         /\ flows' = Append(flows, held)
         /\ Steps(t, [at |-> "tally", reason |-> ruling,
                      flow |-> Len(flows) + 1])
         /\ UNCHANGED <<executed, effects>>
  <2> HIDE DEF ruling
  <2> QED BY DEF Execute, ruling
<1> QED BY <1>3, <1>4, <1>5, <1>6

LEMMA ResolveKeeps ==
  ASSUME IntakeInv, NEW t \in Threads, Resolve(t)
  PROVE  IntakeInv'
<1> DEFINE flow == call[t].flow
<1>1. Typed /\ Held /\ CallOK(t)
  BY DEF IntakeInv
<1>2. UNCHANGED <<package, boots>> /\ flow \in DOMAIN flows
  BY <1>1 DEF Resolve, CallOK
<1>3. ASSUME NEW reason, reason # "policy_approval_required",
             Steps(t, [at |-> "tally", reason |-> reason])
      PROVE  /\ call'[t].at = "tally" /\ call'[t].request = call[t].request
             /\ call'[t].reason = reason
  BY <1>1, <1>3, StepsFields, IdleFields
<1>4. ASSUME NEW reason, reason # "policy_approval_required",
             Steps(t, [at |-> "tally", reason |-> reason]),
             UNCHANGED <<flows, effects>>
      PROVE  IntakeInv'
  <2>1. CallOK(t)'
    BY <1>1, <1>3, <1>4 DEF CallOK
  <2> QED BY <1>2, <1>4, <2>1, QuietStep
<1>5. ASSUME NEW reason, reason # "policy_approval_required",
             Steps(t, [at |-> "tally", reason |-> reason]),
             flows' = [flows EXCEPT ![flow].state = "DENIED_OR_EXPIRED"],
             UNCHANGED effects
      PROVE  IntakeInv'
  <2>1. flows[flow] \in Flow
    BY <1>1, <1>2 DEF Typed
  <2>2. [flows[flow] EXCEPT !.state = "DENIED_OR_EXPIRED"] \in Flow
    BY <2>1 DEF Flow, FlowStates
  <2>3. /\ flows' \in Seq(Flow) /\ Len(flows') = Len(flows)
        /\ DOMAIN flows' = DOMAIN flows
    BY <1>1, <1>2, <1>5, <2>2 DEF Typed
  <2>4. ASSUME NEW f \in DOMAIN flows
        PROVE  /\ flows'[f].package = flows[f].package
               /\ flows'[f].request = flows[f].request
    <3>1. flows[f] \in Flow
      BY <1>1 DEF Typed
    <3> QED BY <1>1, <1>5, <3>1 DEF Typed, Flow
  <2>5. FlowsKept
    BY <1>1, <2>3, <2>4 DEF Typed, FlowsKept
  <2>6. Held'
    BY <1>1, <2>3, <2>4 DEF Held
  <2>7. CallOK(t)'
    BY <1>1, <1>3, <1>5 DEF CallOK
  <2> QED BY <1>1, <1>2, <1>5, <2>5, <2>6, <2>7, StepKeeps DEF Typed
<1>6. CASE Uses(t, flows[flow].request, flows[flow].package.version, flow)
  <2>1. flows[flow].package \in Packages
    <3>1. flows[flow] \in Flow
      BY <1>1, <1>2 DEF Typed
    <3> QED BY <3>1 DEF Flow
  <2> QED BY <1>2, <1>6, <2>1, UsesKeeps
<1>7. \/ \E reason : /\ reason # "policy_approval_required"
                     /\ Steps(t, [at |-> "tally", reason |-> reason])
                     /\ UNCHANGED <<flows, effects>>
      \/ \E reason :
           /\ reason # "policy_approval_required"
           /\ Steps(t, [at |-> "tally", reason |-> reason])
           /\ flows' = [flows EXCEPT ![flow].state = "DENIED_OR_EXPIRED"]
           /\ UNCHANGED effects
      \/ Uses(t, flows[flow].request, flows[flow].package.version, flow)
  <2> DEFINE Moves(reason) == Steps(t, [at |-> "tally", reason |-> reason])
             Closes(reason) ==
               /\ flows' = [flows EXCEPT ![flow].state = "DENIED_OR_EXPIRED"]
               /\ Moves(reason)
               /\ UNCHANGED <<executed, effects>>
  <2>1. \/ /\ Moves(IF Serves THEN "denied_approval"
                    ELSE "denied_health_unavailable")
           /\ UNCHANGED <<flows, executed, effects>>
        \/ Closes("denied_approval") \/ Closes("denied_approval_expired")
        \/ Uses(t, flows[flow].request, flows[flow].package.version, flow)
    BY Zenon DEF Resolve
  <2> HIDE DEF Moves
  <2>2. \/ \E reason : /\ reason # "policy_approval_required"
                       /\ Moves(reason) /\ UNCHANGED <<flows, effects>>
        \/ \E reason :
             /\ reason # "policy_approval_required" /\ Moves(reason)
             /\ flows' = [flows EXCEPT ![flow].state = "DENIED_OR_EXPIRED"]
             /\ UNCHANGED effects
        \/ Uses(t, flows[flow].request, flows[flow].package.version, flow)
    BY <2>1
  <2> QED BY <2>2 DEF Moves
<1> QED BY <1>4, <1>5, <1>6, <1>7

-----------------------------------------------------------------------------
LEMMA DecideKeeps ==
  ASSUME IntakeInv, NEW t \in Threads, NEW flow \in DOMAIN flows,
         NEW approve \in BOOLEAN, Decide(t, flow, approve)
  PROVE  IntakeInv'
<1> DEFINE changes == [at |-> "resolve", kind |-> "resolve", flow |-> flow,
                       approve |-> approve]
<1>1. Typed /\ CallOK(t)
  BY DEF IntakeInv
<1>2. Steps(t, changes) /\ UNCHANGED <<package, flows, effects, boots>>
  BY DEF Decide, Starts
<1>3. /\ call'[t].at = "resolve" /\ call'[t].flow = flow
      /\ call'[t].request = call[t].request
  BY <1>1, <1>2, StepsFields, IdleFields
<1>4. CallOK(t)'
  BY <1>1, <1>2, <1>3 DEF CallOK
<1> QED BY <1>2, <1>4, QuietStep

(* Steps that name neither request, flow nor reason, to a place that needs *)
(* none of them.                                                           *)
LEMMA PlainStep ==
  ASSUME IntakeInv, NEW t \in Threads, NEW changes, Steps(t, changes),
         DOMAIN changes \cap {"request", "flow", "reason"} = {},
         (IF "at" \in DOMAIN changes THEN changes.at ELSE call[t].at)
            \notin {"parse", "resolve", "intercept"},
         UNCHANGED <<package, flows, effects, boots>>
  PROVE  IntakeInv'
<1>1. Typed
  BY DEF IntakeInv
<1>2. /\ call'[t].request = call[t].request /\ call'[t].flow = call[t].flow
      /\ call'[t].reason = call[t].reason
      /\ call'[t].at \notin {"parse", "resolve", "intercept"}
  BY <1>1, StepsFields, IdleFields
<1>3. CallOK(t)'
  BY <1>2, PlainMove
<1> QED BY <1>3, QuietStep

(* The end of a call, or its way to the console.                           *)
LEMMA EndsKeeps ==
  ASSUME IntakeInv, NEW t \in Threads, Ends(t),
         UNCHANGED <<package, flows, effects, boots>>
  PROVE  IntakeInv'
<1>1. Typed /\ CallOK(t)
  BY DEF IntakeInv
<1>2. CASE /\ call[t].reason = "policy_approval_required"
           /\ Steps(t, [at |-> "intercept"])
  <2>1. /\ call'[t].at = "intercept" /\ call'[t].request = call[t].request
        /\ call'[t].flow = call[t].flow
    BY <1>1, <1>2, StepsFields, IdleFields
  <2>2. CallOK(t)'
    BY <1>1, <1>2, <2>1 DEF CallOK
  <2> QED BY <1>2, <2>2, QuietStep
<1>3. CASE Steps(t, Idle)
  <2>1. /\ call'[t].at = "idle" /\ call'[t].request = Nothing
        /\ call'[t].reason = "none"
    <3>1. \A f \in DOMAIN Idle : call'[t][f] = Idle[f]
      BY <1>1, <1>3, StepsFields
    <3> QED BY <3>1, IdleFields DEF Idle
  <2>2. CallOK(t)'
    BY <2>1 DEF CallOK, Requests
  <2> QED BY <1>3, <2>2, QuietStep
<1> QED BY <1>2, <1>3 DEF Ends

LEMMA InterceptKeeps ==
  ASSUME IntakeInv, NEW t \in Threads, Intercept(t)
  PROVE  IntakeInv'
<1> DEFINE denial == [at |-> "resolve", kind |-> "unavailable",
                      approve |-> FALSE, reason |-> "none"]
<1>1. Typed /\ CallOK(t)
  BY DEF IntakeInv
<1>2. UNCHANGED <<package, flows, effects, boots>>
  BY DEF Intercept
<1>3. CASE Steps(t, Idle)
  <2>1. /\ call'[t].at = "idle" /\ call'[t].request = Nothing
        /\ call'[t].reason = "none"
    <3>1. \A f \in DOMAIN Idle : call'[t][f] = Idle[f]
      BY <1>1, <1>3, StepsFields
    <3> QED BY <3>1, IdleFields DEF Idle
  <2>2. CallOK(t)'
    BY <2>1 DEF CallOK, Requests
  <2> QED BY <1>2, <1>3, <2>2, QuietStep
<1>4. CASE Steps(t, denial)
  <2>1. /\ call'[t].at = "resolve" /\ call'[t].request = call[t].request
        /\ call'[t].flow = call[t].flow
    BY <1>1, <1>4, StepsFields, IdleFields
  <2>2. CallOK(t)'
    BY <1>1, <1>2, <2>1 DEF CallOK, Intercept
  <2> QED BY <1>2, <1>4, <2>2, QuietStep
<1> QED BY <1>3, <1>4 DEF Intercept

LEMMA RestartKeeps == IntakeInv /\ Restart => IntakeInv'
<1> SUFFICES ASSUME IntakeInv, Restart PROVE IntakeInv'
  OBVIOUS
<1>1. Typed'
  BY DEF IntakeInv, Typed, Restart
<1>2. Held'
  BY DEF IntakeInv, Held, Restart
<1>3. ASSUME NEW t \in Threads PROVE CallOK(t)'
  BY DEF Restart, CallOK, Idle, Requests
<1>4. \A e \in effects' : PermittedNow(e)'
  BY DEF IntakeInv, PermittedNow, Restart
<1> QED BY <1>1, <1>2, <1>3, <1>4 DEF IntakeInv

LEMMA HostKeeps ==
  ASSUME IntakeInv, UNCHANGED <<package, flows, effects, boots, call>>
  PROVE  IntakeInv'
BY DEF IntakeInv, Typed, Held, CallOK, PermittedNow

LEMMA NextKeeps == IntakeInv /\ [Next]_vars => IntakeInv'
<1> SUFFICES ASSUME IntakeInv, [Next]_vars PROVE IntakeInv'
  OBVIOUS
<1>1. ASSUME NEW t \in Threads, ThreadNext(t) PROVE IntakeInv'
  <2>1. ASSUME NEW anomaly \in BOOLEAN, Observe(t, anomaly) PROVE IntakeInv'
    <3>1. /\ Steps(t, [at |-> "judge", kind |-> "observe"])
          /\ UNCHANGED <<package, flows, effects, boots>>
      BY <2>1 DEF Observe, Starts
    <3> QED BY <3>1, PlainStep
  <2>2. CASE ChannelViolation(t)
    <3>1. /\ Steps(t, [at |-> "act", kind |-> "channel", level |-> "contain"])
          /\ UNCHANGED <<package, flows, effects, boots>>
      BY <2>2 DEF ChannelViolation, Starts
    <3> QED BY <3>1, PlainStep
  <2>3. CASE Tally(t)
    <3>1. /\ Steps(t, [at |-> "judge"])
          /\ UNCHANGED <<package, flows, effects, boots>>
      BY <2>3 DEF Tally
    <3> QED BY <3>1, PlainStep
  <2>4. CASE Judge(t)
    <3>1. /\ Steps(t, [at |-> "act", level |-> LevelOf(count, contained)])
          /\ UNCHANGED <<package, flows, effects, boots>>
      BY <2>4 DEF Judge
    <3> QED BY <3>1, PlainStep
  <2>5. CASE Act(t)
    <3>1. CASE Steps(t, [at |-> "seal"])
      <4>1. UNCHANGED <<package, flows, effects, boots>>
        BY <2>5 DEF Act
      <4> QED BY <3>1, <4>1, PlainStep
    <3>2. CASE Ends(t)
      BY <2>5, <3>2, EndsKeeps DEF Act
    <3> QED BY <2>5, <3>1, <3>2 DEF Act
  <2>6. CASE Seal(t)
    BY <2>6, EndsKeeps DEF Seal
  <2> QED BY <1>1, <2>1, <2>2, <2>3, <2>4, <2>5, <2>6, ReceiveKeeps,
             ClassifyKeeps, ExecuteKeeps, DecideKeeps, ResolveKeeps,
             InterceptKeeps DEF ThreadNext
<1>2. CASE Suspend \/ Lapse \/ UNCHANGED vars
  BY <1>2, HostKeeps DEF Suspend, Lapse, vars
<1>3. CASE Restart
  BY <1>3, RestartKeeps
<1> QED BY <1>1, <1>2, <1>3 DEF Next

(* Whatever ran was permitted by the package in force when it ran.         *)
THEOREM EffectsArePermitted == Spec => []EffectIsPermitted
<1> QED BY InitHolds, NextKeeps, InvPermits, PTL DEF Spec

-----------------------------------------------------------------------------
(* A worker that was told that nobody can approve its request is not       *)
(* granted later, though console_intercept drops the result of its denial  *)
(* (runtime.rs:1172).                                                      *)

(* What UnavailableIsClosed asks of a flow.                                *)
Shut(f) ==
  /\ f \in DOMAIN flows
  /\ flows[f].state = "PENDING_APPROVAL" => ~Serves \/ flows[f].boot < boots

(* A denial for want of a console never approves, and once it has resolved *)
(* its flow is shut, whatever resolve_approval answered.                   *)
DenialOK(t) ==
  call[t].kind = "unavailable" =>
    /\ call[t].at \notin {"parse", "execute"}
    /\ IF call[t].at = "resolve" THEN ~call[t].approve
       ELSE Shut(call[t].flow)

BootsBound == \A f \in DOMAIN flows : flows[f].boot <= boots

DenialInv ==
  /\ BootsBound
  /\ \A t \in Threads : DenialOK(t)
  /\ \A f \in unavailable : Shut(f)

(* No step of a boot opens a flow again or makes a host that refuses       *)
(* everything serve; a new flow is of this boot.                           *)
Ages ==
  /\ boots' = boots /\ (Serves' => Serves)
  /\ \A f \in DOMAIN flows :
       /\ f \in DOMAIN flows' /\ flows'[f].boot = flows[f].boot
       /\ flows'[f].state = "PENDING_APPROVAL"
            => flows[f].state = "PENDING_APPROVAL"
  /\ \A f \in DOMAIN flows' : f \in DOMAIN flows \/ flows'[f].boot = boots

-----------------------------------------------------------------------------
LEMMA ShutStays ==
  ASSUME Ages, NEW f, Shut(f)
  PROVE  Shut(f)'
BY DEF Ages, Shut

LEMMA ServesOnlyEnds ==
  ASSUME package' = package, lapsed \subseteq lapsed', suspended => suspended'
  PROVE  Serves' => Serves
BY DEF Serves

LEMMA QuietAges ==
  ASSUME UNCHANGED <<package, flows, boots>>, lapsed \subseteq lapsed',
         suspended => suspended'
  PROVE  Ages
BY ServesOnlyEnds DEF Ages

(* A flow that takes another state than the first one.                     *)
LEMMA StateAges ==
  ASSUME Typed, NEW f \in DOMAIN flows, NEW state \in FlowStates,
         state # "PENDING_APPROVAL",
         flows' = [flows EXCEPT ![f].state = state],
         UNCHANGED <<package, boots, lapsed, suspended>>
  PROVE  Ages /\ flows'[f].state # "PENDING_APPROVAL"
<1>1. Serves' => Serves
  BY ServesOnlyEnds
<1>2. DOMAIN flows' = DOMAIN flows
  BY DEF Typed
<1>3. ASSUME NEW g \in DOMAIN flows
      PROVE  /\ flows'[g].boot = flows[g].boot
             /\ flows'[g].state = "PENDING_APPROVAL"
                  => flows[g].state = "PENDING_APPROVAL"
  <2>1. flows[g] \in Flow
    BY DEF Typed
  <2> QED BY <2>1 DEF Typed, Flow
<1>4. flows'[f].state = state
  <2>1. flows[f] \in Flow
    BY DEF Typed
  <2> QED BY <2>1 DEF Typed, Flow
<1>5. Ages
  BY <1>1, <1>2, <1>3 DEF Ages
<1> QED BY <1>4, <1>5

(* The invariant after a step of t within a boot.                          *)
LEMMA DenialStep ==
  ASSUME IntakeInv, DenialInv, NEW t \in Threads, NEW changes,
         Steps(t, changes), Ages, DenialOK(t)',
         \A f \in unavailable' : f \in unavailable \/ Shut(f)'
  PROVE  DenialInv'
<1>1. BootsBound'
  BY DEF DenialInv, BootsBound, Ages, IntakeInv, Typed
<1>2. ASSUME NEW u \in Threads, u # t PROVE DenialOK(u)'
  <2>1. call'[u] = call[u]
    BY <1>2, StepsFields DEF IntakeInv
  <2>2. DenialOK(u)
    BY DEF DenialInv
  <2> QED BY <2>1, <2>2, ShutStays DEF DenialOK
<1>3. \A f \in unavailable' : Shut(f)'
  BY ShutStays DEF DenialInv
<1> QED BY <1>1, <1>2, <1>3 DEF DenialInv

(* A call that has resolved, or that is no denial, moves on.               *)
LEMMA MoveKeepsDenial ==
  ASSUME Ages, NEW t \in Threads, DenialOK(t),
         call'[t].kind = call[t].kind, call'[t].flow = call[t].flow,
         call[t].at # "resolve",
         call'[t].at \notin {"parse", "execute", "resolve"}
  PROVE  DenialOK(t)'
BY ShutStays DEF DenialOK

(* Steps that leave kind and flow alone.                                   *)
LEMMA PlainDenial ==
  ASSUME IntakeInv, DenialInv, NEW t \in Threads, NEW changes,
         Steps(t, changes), Ages, call[t].at # "resolve",
         DOMAIN changes \cap {"kind", "flow"} = {}, "at" \in DOMAIN changes,
         changes.at \notin {"parse", "execute", "resolve"},
         \A f \in unavailable' : f \in unavailable \/ Shut(f)'
  PROVE  DenialInv'
<1>1. /\ call'[t].kind = call[t].kind /\ call'[t].flow = call[t].flow
      /\ call'[t].at = changes.at
  BY StepsFields, IdleFields DEF IntakeInv
<1>2. DenialOK(t)
  BY DEF DenialInv
<1>3. DenialOK(t)'
  BY <1>1, <1>2, MoveKeepsDenial
<1> QED BY <1>3, DenialStep

(* Steps that make the call one of another kind.                           *)
LEMMA OtherKind ==
  ASSUME IntakeInv, DenialInv, NEW t \in Threads, NEW changes,
         Steps(t, changes), Ages, "kind" \in DOMAIN changes,
         changes.kind # "unavailable",
         \A f \in unavailable' : f \in unavailable \/ Shut(f)'
  PROVE  DenialInv'
<1>1. call'[t].kind # "unavailable"
  BY StepsFields, IdleFields DEF IntakeInv
<1> QED BY <1>1, DenialStep DEF DenialOK

(* Steps of a call that is no denial.                                      *)
LEMMA NoDenial ==
  ASSUME IntakeInv, DenialInv, NEW t \in Threads, NEW changes,
         Steps(t, changes), Ages, "kind" \notin DOMAIN changes,
         call[t].kind # "unavailable", unavailable' = unavailable
  PROVE  DenialInv'
<1>1. call'[t].kind # "unavailable"
  BY StepsFields, IdleFields DEF IntakeInv
<1> QED BY <1>1, DenialStep DEF DenialOK

-----------------------------------------------------------------------------
(* The use of a capability leaves its flow in another state than the first.*)
LEMMA UsesShuts ==
  ASSUME IntakeInv, DenialInv, NEW t \in Threads, NEW request, NEW version,
         NEW flow, flow = 0 \/ flow \in DOMAIN flows,
         Uses(t, request, version, flow), call[t].kind # "unavailable",
         UNCHANGED <<package, boots, lapsed, suspended, unavailable>>
  PROVE  DenialInv'
<1> DEFINE Moves(reason) == Steps(t, [at |-> "tally", reason |-> reason])
           Leaves(state, reason) ==
             /\ flows' = IF flow = 0 THEN flows
                         ELSE [flows EXCEPT ![flow].state = state]
             /\ Moves(reason)
<1>1. Typed
  BY DEF IntakeInv
<1>2. PICK reason :
        Leaves("AUTHORIZED", reason) \/ Leaves("COMPLETED", reason)
          \/ Leaves("UNKNOWN", reason)
  BY Zenon DEF Uses
<1>3. Moves(reason)
  BY <1>2
<1>4. Ages
  <2>1. CASE flow = 0
    <3>1. flows' = flows
      BY <1>2, <2>1
    <3> QED BY <3>1, QuietAges
  <2>2. CASE flow # 0
    <3>1. PICK state \in FlowStates \ {"PENDING_APPROVAL"} :
             flows' = [flows EXCEPT ![flow].state = state]
      BY <1>2, <2>2 DEF FlowStates
    <3> QED BY <1>1, <2>2, <3>1, StateAges
  <2> QED BY <2>1, <2>2
<1> QED BY <1>3, <1>4, NoDenial

LEMMA ExecuteShuts ==
  ASSUME IntakeInv, DenialInv, NEW t \in Threads, Execute(t)
  PROVE  DenialInv'
<1> DEFINE request == call[t].request
           ruling == Evaluate(package.rules, request)
           held == [request |-> request, package |-> package, boot |-> boots,
                    state |-> "PENDING_APPROVAL"]
<1>1. Typed /\ DenialOK(t)
  BY DEF IntakeInv, DenialInv
<1>2. call[t].kind # "unavailable"
  BY <1>1 DEF DenialOK, Execute
<1>3. UNCHANGED <<package, boots, lapsed, suspended, unavailable>>
  BY DEF Execute
<1>4. ASSUME NEW reason, Steps(t, [at |-> "tally", reason |-> reason]),
             flows' = flows
      PROVE  DenialInv'
  <2>1. Ages
    BY <1>3, <1>4, QuietAges
  <2> QED BY <1>2, <1>3, <1>4, <2>1, NoDenial
<1>5. CASE Uses(t, request, package.version, 0)
  BY <1>2, <1>3, <1>5, UsesShuts
<1>6. CASE /\ flows' = Append(flows, held)
           /\ Steps(t, [at |-> "tally", reason |-> ruling,
                        flow |-> Len(flows) + 1])
  <2>1. Serves' => Serves
    BY <1>3, ServesOnlyEnds
  <2>2. /\ DOMAIN flows' = 1..Len(flows) + 1
        /\ \A f \in DOMAIN flows : f \in DOMAIN flows' /\ flows'[f] = flows[f]
        /\ flows'[Len(flows) + 1] = held
    BY <1>1, <1>6 DEF Typed
  <2>3. \A f \in DOMAIN flows' : f \in DOMAIN flows \/ flows'[f].boot = boots
    BY <1>1, <2>2 DEF Typed
  <2>4. Ages
    BY <1>3, <2>1, <2>2, <2>3 DEF Ages
  <2> HIDE DEF ruling
  <2> QED BY <1>2, <1>3, <1>6, <2>4, NoDenial
<1>7. \/ \E reason : /\ Steps(t, [at |-> "tally", reason |-> reason])
                     /\ flows' = flows
      \/ Uses(t, request, package.version, 0)
      \/ /\ flows' = Append(flows, held)
         /\ Steps(t, [at |-> "tally", reason |-> ruling,
                      flow |-> Len(flows) + 1])
  <2> HIDE DEF ruling
  <2> QED BY DEF Execute, ruling
<1> QED BY <1>4, <1>5, <1>6, <1>7

(* What console_intercept ignores: a denial that does not close its flow   *)
(* found it closed, or met a host that refuses everything.                 *)
LEMMA ResolveShuts ==
  ASSUME IntakeInv, DenialInv, NEW t \in Threads, Resolve(t)
  PROVE  DenialInv'
<1>0. PICK flow : flow = call[t].flow
  OBVIOUS
<1> DEFINE pending == Serves /\ flows[flow].state = "PENDING_APPROVAL"
           Moves(reason) == Steps(t, [at |-> "tally", reason |-> reason])
           Closes(reason) ==
             /\ flows' = [flows EXCEPT ![flow].state = "DENIED_OR_EXPIRED"]
             /\ Moves(reason)
             /\ UNCHANGED <<executed, effects>>
<1>1. Typed /\ DenialOK(t) /\ CallOK(t)
  BY DEF IntakeInv, DenialInv
<1>2. UNCHANGED <<package, boots, lapsed, suspended, unavailable>>
  BY DEF Resolve
<1>3. flow \in DOMAIN flows /\ call[t].at = "resolve"
  BY <1>0, <1>1 DEF Resolve, CallOK
<1>4. ASSUME NEW reason, Moves(reason), Ages, Shut(flow)'
      PROVE  DenialInv'
  <2>1. call'[t].at = "tally" /\ call'[t].flow = flow
    BY <1>0, <1>1, <1>4, StepsFields, IdleFields
  <2>2. DenialOK(t)'
    BY <1>4, <2>1 DEF DenialOK
  <2> QED BY <1>2, <1>4, <2>2, DenialStep
<1>5. ASSUME NEW reason, Moves(reason), ~pending, flows' = flows
      PROVE  DenialInv'
  <2>1. Ages
    BY <1>2, <1>5, QuietAges
  <2>2. Shut(flow)'
    BY <1>3, <1>5, <2>1, ShutStays DEF Shut
  <2> QED BY <1>4, <1>5, <2>1, <2>2
<1>6. ASSUME NEW reason, Closes(reason) PROVE DenialInv'
  <2>1. Ages /\ flows'[flow].state # "PENDING_APPROVAL"
    BY <1>1, <1>2, <1>3, <1>6, StateAges DEF FlowStates
  <2>2. Shut(flow)'
    BY <1>3, <2>1 DEF Shut, Ages
  <2> QED BY <1>4, <1>6, <2>1, <2>2
<1>7. CASE /\ call[t].approve
           /\ Uses(t, flows[flow].request, flows[flow].package.version, flow)
  <2>1. call[t].kind # "unavailable"
    BY <1>1, <1>3, <1>7 DEF DenialOK
  <2> QED BY <1>2, <1>3, <1>7, <2>1, UsesShuts
<1>8. \/ /\ ~pending /\ flows' = flows
         /\ Moves(IF Serves THEN "denied_approval"
                  ELSE "denied_health_unavailable")
      \/ Closes("denied_approval") \/ Closes("denied_approval_expired")
      \/ /\ call[t].approve
         /\ Uses(t, flows[flow].request, flows[flow].package.version, flow)
  BY <1>0, Zenon DEF Resolve
<1> HIDE DEF Moves, Closes, pending
<1> QED BY <1>5, <1>6, <1>7, <1>8

-----------------------------------------------------------------------------
(* The end of a call: a denial that ends tells the worker of a shut flow.  *)
LEMMA EndsShuts ==
  ASSUME IntakeInv, DenialInv, NEW t \in Threads, Ends(t), Ages,
         call[t].at \in {"act", "seal"}
  PROVE  DenialInv'
<1>1. Typed /\ DenialOK(t)
  BY DEF IntakeInv, DenialInv
<1>2. ASSUME NEW f, f = call[t].flow, call[t].kind = "unavailable"
      PROVE  Shut(f)'
  BY <1>1, <1>2, ShutStays DEF DenialOK
<1>3. \A f \in unavailable' : f \in unavailable \/ Shut(f)'
  BY <1>2 DEF Ends
<1>4. CASE Steps(t, [at |-> "intercept"])
  BY <1>3, <1>4, PlainDenial
<1>5. CASE Steps(t, Idle)
  <2>1. "kind" \in DOMAIN Idle /\ Idle.kind # "unavailable"
    BY DEF Idle
  <2> QED BY <1>3, <1>5, <2>1, OtherKind
<1> QED BY <1>4, <1>5 DEF Ends

LEMMA InterceptShuts ==
  ASSUME IntakeInv, DenialInv, NEW t \in Threads, Intercept(t)
  PROVE  DenialInv'
<1> DEFINE denial == [at |-> "resolve", kind |-> "unavailable",
                      approve |-> FALSE, reason |-> "none"]
<1>1. Ages /\ unavailable' = unavailable
  BY QuietAges DEF Intercept
<1>2. CASE Steps(t, Idle)
  <2>1. "kind" \in DOMAIN Idle /\ Idle.kind # "unavailable"
    BY DEF Idle
  <2> QED BY <1>1, <1>2, <2>1, OtherKind
<1>3. CASE Steps(t, denial)
  <2>1. call'[t].at = "resolve" /\ call'[t].approve = FALSE
    BY <1>3, StepsFields, IdleFields DEF IntakeInv
  <2>2. DenialOK(t)'
    BY <2>1 DEF DenialOK
  <2> QED BY <1>1, <1>3, <2>2, DenialStep
<1> QED BY <1>2, <1>3 DEF Intercept

(* A restart makes every flow one of an earlier boot.                      *)
LEMMA RestartShuts == IntakeInv /\ DenialInv /\ Restart => DenialInv'
<1> SUFFICES ASSUME IntakeInv, DenialInv, Restart PROVE DenialInv'
  OBVIOUS
<1>1. ASSUME NEW f \in DOMAIN flows PROVE flows[f].boot < boots'
  <2>1. flows[f] \in Flow /\ boots \in Nat /\ boots' = boots + 1
    BY DEF IntakeInv, Typed, Restart
  <2>2. flows[f].boot \in Nat /\ flows[f].boot <= boots
    BY <2>1 DEF Flow, DenialInv, BootsBound
  <2> QED BY <2>1, <2>2
<1>2. flows' = flows /\ unavailable' = unavailable
  BY DEF Restart
<1>3. BootsBound'
  <2>1. ASSUME NEW f \in DOMAIN flows PROVE flows[f].boot <= boots'
    <3>1. flows[f] \in Flow /\ boots' \in Nat
      BY DEF IntakeInv, Typed, Restart
    <3>2. flows[f].boot \in Nat
      BY <3>1 DEF Flow
    <3> QED BY <1>1, <3>1, <3>2
  <2> QED BY <1>2, <2>1 DEF BootsBound
<1>4. \A t \in Threads : DenialOK(t)'
  BY DEF DenialOK, Restart, Idle
<1>5. \A f \in unavailable' : Shut(f)'
  BY <1>1, <1>2 DEF Shut, DenialInv
<1> QED BY <1>3, <1>4, <1>5 DEF DenialInv

LEMMA HostShuts ==
  ASSUME DenialInv, IntakeInv, Ages, UNCHANGED <<call, unavailable>>
  PROVE  DenialInv'
<1>1. BootsBound'
  BY DEF DenialInv, BootsBound, Ages, IntakeInv, Typed
<1>2. ASSUME NEW t \in Threads PROVE DenialOK(t)'
  BY ShutStays DEF DenialInv, DenialOK
<1>3. \A f \in unavailable' : Shut(f)'
  BY ShutStays DEF DenialInv
<1> QED BY <1>1, <1>2, <1>3 DEF DenialInv

LEMMA NextShuts == IntakeInv /\ DenialInv /\ [Next]_vars => DenialInv'
<1> SUFFICES ASSUME IntakeInv, DenialInv, [Next]_vars PROVE DenialInv'
  OBVIOUS
<1>1. ASSUME NEW t \in Threads, ThreadNext(t) PROVE DenialInv'
  <2>1. ASSUME NEW input \in Inputs, Receive(t, input) PROVE DenialInv'
    <3>1. Steps(t, [at |-> "parse", kind |-> "envelope", request |-> input])
      BY <2>1 DEF Receive, Starts
    <3>2. Ages /\ unavailable' = unavailable
      BY <2>1, QuietAges DEF Receive
    <3> QED BY <3>1, <3>2, OtherKind
  <2>2. ASSUME NEW flow \in DOMAIN flows, NEW approve \in BOOLEAN,
               Decide(t, flow, approve)
        PROVE  DenialInv'
    <3>1. Steps(t, [at |-> "resolve", kind |-> "resolve", flow |-> flow,
                    approve |-> approve])
      BY <2>2 DEF Decide, Starts
    <3>2. Ages /\ unavailable' = unavailable
      BY <2>2, QuietAges DEF Decide
    <3> QED BY <3>1, <3>2, OtherKind
  <2>3. ASSUME NEW anomaly \in BOOLEAN, Observe(t, anomaly) PROVE DenialInv'
    <3>1. Steps(t, [at |-> "judge", kind |-> "observe"])
      BY <2>3 DEF Observe, Starts
    <3>2. Ages /\ unavailable' = unavailable
      BY <2>3, QuietAges DEF Observe
    <3> QED BY <3>1, <3>2, OtherKind
  <2>4. CASE ChannelViolation(t)
    <3>1. Steps(t, [at |-> "act", kind |-> "channel", level |-> "contain"])
      BY <2>4 DEF ChannelViolation, Starts
    <3>2. Ages /\ unavailable' = unavailable
      BY <2>4, QuietAges DEF ChannelViolation
    <3> QED BY <3>1, <3>2, OtherKind
  <2>5. CASE Classify(t)
    <3>1. Ages /\ unavailable' = unavailable
      BY <2>5, QuietAges DEF Classify
    <3>2. call[t].kind # "unavailable"
      BY <2>5 DEF DenialInv, DenialOK, Classify
    <3>3. \/ Steps(t, [at |-> "execute",
                       request |-> Canonical(call[t].request)])
          \/ Steps(t, [at |-> "judge", request |-> Nothing])
      BY <2>5 DEF Classify
    <3> QED BY <3>1, <3>2, <3>3, NoDenial
  <2>6. CASE Tally(t)
    <3>1. Steps(t, [at |-> "judge"]) /\ call[t].at # "resolve"
      BY <2>6 DEF Tally
    <3>2. Ages /\ unavailable' = unavailable
      BY <2>6, QuietAges DEF Tally
    <3> QED BY <3>1, <3>2, PlainDenial
  <2>7. CASE Judge(t)
    <3>1. /\ Steps(t, [at |-> "act", level |-> LevelOf(count, contained)])
          /\ call[t].at # "resolve"
      BY <2>7 DEF Judge
    <3>2. Ages /\ unavailable' = unavailable
      BY <2>7, QuietAges DEF Judge
    <3> QED BY <3>1, <3>2, PlainDenial
  <2>8. CASE Act(t)
    <3>1. Ages
      BY <2>8, QuietAges DEF Act
    <3>2. CASE Steps(t, [at |-> "seal"]) /\ unavailable' = unavailable
      BY <2>8, <3>1, <3>2, PlainDenial DEF Act
    <3>3. CASE Ends(t)
      BY <2>8, <3>1, <3>3, EndsShuts DEF Act
    <3> QED BY <2>8, <3>2, <3>3 DEF Act
  <2>9. CASE Seal(t)
    <3>1. Ages
      BY <2>9, QuietAges DEF Seal
    <3> QED BY <2>9, <3>1, EndsShuts DEF Seal
  <2> QED BY <1>1, <2>1, <2>2, <2>3, <2>4, <2>5, <2>6, <2>7, <2>8, <2>9,
             ExecuteShuts, ResolveShuts, InterceptShuts DEF ThreadNext
<1>2. CASE Suspend \/ Lapse \/ UNCHANGED vars
  <2>1. Ages
    BY <1>2, QuietAges DEF Suspend, Lapse, vars
  <2> QED BY <1>2, <2>1, HostShuts DEF Suspend, Lapse, vars
<1>3. CASE Restart
  BY <1>3, RestartShuts
<1> QED BY <1>1, <1>2, <1>3 DEF Next

LEMMA DenialInit == Init => DenialInv
BY DEF Init, DenialInv, BootsBound, DenialOK, Idle

LEMMA DenialImplies == DenialInv => UnavailableIsClosed
BY DEF DenialInv, Shut, UnavailableIsClosed

(* A worker told that no console can approve its request finds the flow    *)
(* closed, or the host refusing everything, or another boot.               *)
THEOREM UnavailableStaysClosed == Spec => []UnavailableIsClosed
<1> QED BY InitHolds, NextKeeps, DenialInit, NextShuts, DenialImplies, PTL
    DEF Spec


-----------------------------------------------------------------------------
(* Scores are acted on.  Whoever raises a score has yet to judge it, and   *)
(* whoever judged it has yet to act: between two locks the worker owes its *)
(* containment to some thread, and when all are idle to none.              *)
Judged(c) == [c EXCEPT !.channel = 0]

Judges(t) == call[t].at = "judge"
Suspends(t) == call[t].at = "act" /\ call[t].level # "fine"
Seals(t) == \/ call[t].at = "act" /\ call[t].level = "fail"
            \/ call[t].at = "seal"

ScoreInv ==
  /\ contained => suspended
  /\ \A t \in Threads : call[t].at = "seal" => suspended
  /\ count.channel > 0 => suspended \/ \E t \in Threads : Suspends(t)
  /\ OverContain(count) =>
       suspended \/ \E t \in Threads : Judges(t) \/ Suspends(t)
  /\ OverFail(Judged(count)) =>
       contained \/ \E t \in Threads : Judges(t) \/ Seals(t)

Counts == [DOMAIN Zero -> Nat]

LEMMA CountFields ==
  /\ DOMAIN Zero = {"breaches", "schema", "identity", "channel", "events",
                    "exchanges", "anomalies"}
  /\ \A f \in DOMAIN Zero : Zero[f] = 0
  /\ Zero \in Counts
BY DEF Zero, Counts

(* The score dimension by dimension.                                       *)
Over(n, w, k) == 20000 * n >= (2 * k + 1) * w

LEMMA OverByDimension ==
  ASSUME NEW c
  PROVE  /\ OverContain(c) <=>
              \/ Over(c.breaches + c.channel, Window(c.events), 3000)
              \/ Over(c.schema, Window(c.events), 3000)
              \/ Over(c.identity, Window(c.events), 3000)
              \/ Over(c.anomalies, Window(c.exchanges), 3000)
         /\ OverFail(c) <=>
              \/ Over(c.breaches + c.channel, Window(c.events), 5000)
              \/ Over(c.schema, Window(c.events), 5000)
              \/ Over(c.identity, Window(c.events), 5000)
              \/ Over(c.anomalies, Window(c.exchanges), 5000)
<1> DEFINE w == Window(c.events)
           v == Window(c.exchanges)
           b == c.breaches + c.channel
<1>1. Dimensions(c) = {<<b, w>>, <<c.schema, w>>, <<c.identity, w>>,
                       <<c.anomalies, v>>}
  BY DEF Dimensions
<1>2. \A n, m, k : Exceeds(<<n, m>>, k) <=> Over(n, m, k)
  BY DEF Exceeds, Over
<1> HIDE DEF w, v, b
<1> QED BY <1>1, <1>2 DEF OverContain, OverFail, w, v, b

LEMMA LessIsLess ==
  ASSUME NEW n \in Nat, NEW p \in Nat, NEW w \in Nat, NEW v \in Nat,
         n <= p, w >= v
  PROVE  /\ Over(n, w, 3000) => Over(p, v, 3000)
         /\ Over(n, w, 5000) => Over(p, v, 5000)
BY DEF Over

(* Counters that hold no more offences, over windows no shorter, are over  *)
(* a threshold only if the others are.                                     *)
Milder(d, c) ==
  /\ d.breaches + d.channel <= c.breaches + c.channel
  /\ d.schema <= c.schema /\ d.identity <= c.identity
  /\ d.anomalies <= c.anomalies
  /\ d.events >= c.events /\ d.exchanges >= c.exchanges

LEMMA MilderIsLess ==
  ASSUME NEW c \in Counts, NEW d \in Counts, Milder(d, c)
  PROVE  /\ OverContain(d) => OverContain(c)
         /\ OverFail(d) => OverFail(c)
<1> DEFINE Num(k) == /\ k.breaches + k.channel \in Nat /\ k.schema \in Nat
                     /\ k.identity \in Nat /\ k.anomalies \in Nat
                     /\ k.events \in Nat /\ k.exchanges \in Nat
<1>1. ASSUME NEW k \in Counts PROVE Num(k)
  BY CountFields DEF Counts
<1>2. ASSUME NEW m \in Nat, NEW n \in Nat, m >= n
      PROVE  Window(m) \in Nat /\ Window(n) \in Nat /\ Window(m) >= Window(n)
  BY <1>2, IntakeAssumption DEF Window
<1>3. Num(c) /\ Num(d)
  BY <1>1
<1>4. /\ Window(d.events) >= Window(c.events)
      /\ Window(d.exchanges) >= Window(c.exchanges)
      /\ {Window(c.events), Window(d.events), Window(c.exchanges),
          Window(d.exchanges)} \subseteq Nat
  BY <1>2, <1>3 DEF Milder
<1>5. ASSUME NEW k \in {3000, 5000}
      PROVE  /\ Over(d.breaches + d.channel, Window(d.events), k) =>
                  Over(c.breaches + c.channel, Window(c.events), k)
             /\ Over(d.schema, Window(d.events), k) =>
                  Over(c.schema, Window(c.events), k)
             /\ Over(d.identity, Window(d.events), k) =>
                  Over(c.identity, Window(c.events), k)
             /\ Over(d.anomalies, Window(d.exchanges), k) =>
                  Over(c.anomalies, Window(c.exchanges), k)
  <2>1. Over(d.breaches + d.channel, Window(d.events), k) =>
          Over(c.breaches + c.channel, Window(c.events), k)
    BY <1>3, <1>4, LessIsLess DEF Milder
  <2>2. Over(d.schema, Window(d.events), k) =>
          Over(c.schema, Window(c.events), k)
    BY <1>3, <1>4, LessIsLess DEF Milder
  <2>3. Over(d.identity, Window(d.events), k) =>
          Over(c.identity, Window(c.events), k)
    BY <1>3, <1>4, LessIsLess DEF Milder
  <2>4. Over(d.anomalies, Window(d.exchanges), k) =>
          Over(c.anomalies, Window(c.exchanges), k)
    BY <1>3, <1>4, LessIsLess DEF Milder
  <2> QED BY <2>1, <2>2, <2>3, <2>4
<1> QED BY <1>5, OverByDimension

LEMMA ZeroIsFine == ~OverContain(Zero) /\ ~OverFail(Judged(Zero))
<1>1. Judged(Zero) = Zero
  BY CountFields DEF Judged, Counts
<1>2. Window(0) \in Nat \ {0}
  BY IntakeAssumption DEF Window
<1>3. ~Over(0, Window(0), 3000) /\ ~Over(0, Window(0), 5000)
  BY <1>2 DEF Over
<1>4. Zero.breaches + Zero.channel = 0
  BY CountFields
<1> QED BY <1>1, <1>3, <1>4, CountFields, OverByDimension

(* A score that is over without the channel violations is over with them.  *)
LEMMA JudgedIsLess ==
  ASSUME NEW c \in Counts
  PROVE  Judged(c) \in Counts /\ (OverFail(Judged(c)) => OverFail(c))
<1>1. Judged(c) \in Counts
  BY CountFields DEF Judged, Counts
<1>2. Milder(Judged(c), c)
  BY CountFields DEF Milder, Judged, Counts
<1> QED BY <1>1, <1>2, MilderIsLess


-----------------------------------------------------------------------------
(* The form of a call, and that what runs has a request id that was        *)
(* checked: the types.                                                     *)
FormOK(t) ==
  /\ DOMAIN call[t] = DOMAIN Idle /\ call[t].at \in Places
  /\ call[t].flow \in 0..Len(flows)
  /\ call[t].at = "idle" => call[t] = Idle
  /\ call[t].at = "execute" => call[t].request.request_id \in Identifiers

FormInv ==
  /\ lapsed \subseteq {p.version : p \in Packages}
  /\ suspended \in BOOLEAN /\ contained \in BOOLEAN
  /\ count \in Counts
  /\ \A f \in DOMAIN flows : flows[f].request.request_id \in Identifiers
  /\ executed \subseteq Identifiers
  /\ \A t \in Threads : FormOK(t)
  /\ boots \in 0..MaxRestarts /\ calls \in 0..MaxCalls

(* What a step does to a call and to the flows, as far as types go.        *)
Goes(t, at) ==
  \E changes : /\ Steps(t, changes) /\ "at" \in DOMAIN changes
               /\ changes.at = at
               /\ DOMAIN changes \subseteq
                    {"at", "reason", "kind", "approve", "level", "request"}

FlowsStay ==
  /\ Len(flows') = Len(flows) /\ DOMAIN flows' = DOMAIN flows
  /\ \A f \in DOMAIN flows : flows'[f].request = flows[f].request

LEMMA StateStays ==
  ASSUME Typed, NEW f \in DOMAIN flows, NEW state,
         flows' = [flows EXCEPT ![f].state = state]
  PROVE  FlowsStay
<1>1. flows[f] \in Flow
  BY DEF Typed
<1>2. [flows[f] EXCEPT !.state = state].request = flows[f].request
  BY <1>1 DEF Flow
<1>3. \A g \in DOMAIN flows : flows'[g].request = flows[g].request
  BY <1>2 DEF Typed
<1> QED BY <1>3 DEF Typed, FlowsStay

LEMMA UsesForm ==
  ASSUME Typed, NEW t \in Threads, NEW request, NEW version,
         NEW flow, flow = 0 \/ flow \in DOMAIN flows,
         Uses(t, request, version, flow)
  PROVE  /\ FlowsStay /\ Goes(t, "tally")
         /\ executed' \subseteq executed \cup {request.request_id}
<1> DEFINE Moves(reason) == Steps(t, [at |-> "tally", reason |-> reason])
           Leaves(state, reason) ==
             /\ flows' = IF flow = 0 THEN flows
                         ELSE [flows EXCEPT ![flow].state = state]
             /\ Moves(reason)
<1>1. /\ \E state, reason : Leaves(state, reason)
      /\ \/ executed' = executed
         \/ executed' = executed \cup {request.request_id}
  BY Zenon DEF Uses
<1>2. PICK state, reason : Leaves(state, reason)
  BY <1>1
<1>3. Goes(t, "tally")
  <2> DEFINE moved == [at |-> "tally", reason |-> reason]
  <2>1. /\ DOMAIN moved = {"at", "reason"} /\ moved.at = "tally"
        /\ Steps(t, moved)
    BY <1>2
  <2> HIDE DEF moved
  <2> QED BY <2>1 DEF Goes
<1>4. CASE flow = 0
  BY <1>1, <1>2, <1>3, <1>4 DEF FlowsStay
<1>5. CASE flow # 0
  <2>1. flows' = [flows EXCEPT ![flow].state = state] /\ flow \in DOMAIN flows
    BY <1>2, <1>5
  <2> QED BY <1>1, <1>3, <2>1, StateStays
<1> QED BY <1>4, <1>5

(* The step of a call, to whatever place but the idle one.                 *)
LEMMA FormMove ==
  ASSUME IntakeInv, FormInv, NEW t \in Threads, NEW changes, Steps(t, changes),
         "at" \in DOMAIN changes, changes.at \in Places \ {"idle"},
         changes.at = "execute" =>
           /\ "request" \in DOMAIN changes
           /\ changes.request.request_id \in Identifiers,
         "flow" \in DOMAIN changes => changes.flow \in 0..Len(flows'),
         flows' \in Seq(Flow), Len(flows) <= Len(flows'),
         \A f \in DOMAIN flows' : flows'[f].request.request_id \in Identifiers,
         executed' \subseteq Identifiers, count' \in Counts,
         suspended' \in BOOLEAN, contained' \in BOOLEAN,
         calls' \in 0..MaxCalls, UNCHANGED <<lapsed, boots>>
  PROVE  FormInv'
<1>1. Typed
  BY DEF IntakeInv
<1>2. /\ \A u \in Threads \ {t} : call'[u] = call[u]
      /\ call'[t].at = changes.at
      /\ call'[t].flow = IF "flow" \in DOMAIN changes THEN changes.flow
                         ELSE call[t].flow
      /\ call'[t].request = IF "request" \in DOMAIN changes
                            THEN changes.request ELSE call[t].request
  BY <1>1, StepsFields, IdleFields
<1>3. DOMAIN call'[t] = DOMAIN Idle
  BY <1>1 DEF Steps, Typed
<1>4. Len(flows) \in Nat /\ Len(flows') \in Nat
  BY <1>1 DEF Typed
<1>5. FormOK(t)'
  BY <1>2, <1>3, <1>4 DEF FormInv, FormOK
<1>6. \A u \in Threads \ {t} : FormOK(u)'
  BY <1>2, <1>4 DEF FormInv, FormOK
<1> QED BY <1>5, <1>6 DEF FormInv

(* The step of a call that takes no new flow and executes nothing new.     *)
LEMMA FormStep ==
  ASSUME IntakeInv, FormInv, NEW t \in Threads, NEW at \in Places, Goes(t, at),
         at \notin {"idle", "execute"}, FlowsStay, IntakeInv',
         executed' \subseteq Identifiers, count' \in Counts,
         suspended' \in BOOLEAN, contained' \in BOOLEAN,
         calls' \in 0..MaxCalls, UNCHANGED <<lapsed, boots>>
  PROVE  FormInv'
<1>1. PICK changes :
        /\ Steps(t, changes) /\ "at" \in DOMAIN changes /\ changes.at = at
        /\ DOMAIN changes \subseteq
             {"at", "reason", "kind", "approve", "level", "request"}
  BY DEF Goes
<1>2. \A f \in DOMAIN flows' : flows'[f].request.request_id \in Identifiers
  BY DEF FormInv, FlowsStay
<1>3. flows' \in Seq(Flow) /\ Len(flows) <= Len(flows')
  BY DEF IntakeInv, Typed, FlowsStay
<1> QED BY <1>1, <1>2, <1>3, FormMove

(* A call that ends is idle as at first.                                   *)
LEMMA FormEnds ==
  ASSUME IntakeInv, FormInv, NEW t \in Threads, Steps(t, Idle),
         suspended' \in BOOLEAN, contained' \in BOOLEAN,
         UNCHANGED <<lapsed, count, flows, executed, boots, calls>>
  PROVE  FormInv'
<1>1. Typed
  BY DEF IntakeInv
<1>2. call'[t] = [f \in DOMAIN Idle |-> Idle[f]]
  BY <1>1 DEF Steps, Typed
<1>3. call'[t] = Idle
  BY <1>2 DEF Idle
<1>4. \A u \in Threads \ {t} : call'[u] = call[u]
  BY <1>1, StepsFields
<1>5. Idle.at = "idle" /\ Idle.flow = 0
  BY DEF Idle
<1>6. FormOK(t)'
  BY <1>1, <1>3, <1>5 DEF FormOK, Places, Typed
<1>7. \A u \in Threads \ {t} : FormOK(u)'
  BY <1>4 DEF FormInv, FormOK
<1> QED BY <1>6, <1>7 DEF FormInv


(* A counter that is set, and nothing else.                                *)
LEMMA CountSet ==
  ASSUME NEW c \in Counts, NEW f \in DOMAIN Zero, NEW n \in Nat
  PROVE  /\ [c EXCEPT ![f] = n] \in Counts
         /\ \A g \in DOMAIN Zero :
              [c EXCEPT ![f] = n][g] = IF g = f THEN n ELSE c[g]
BY DEF Counts

(* The counters stay counters, and grow milder by a good envelope.         *)
LEMMA CountedForm ==
  ASSUME count \in Counts, NEW verdict
  PROVE  /\ Counted(verdict) \in Counts
         /\ verdict = "request" =>
              /\ Milder(Counted(verdict), count)
              /\ Milder(Judged(Counted(verdict)), Judged(count))
         /\ Counted(verdict).channel = count.channel
<1>0. \A f \in DOMAIN Zero : count[f] \in Nat
  BY DEF Counts
<1>1. PICK e \in Nat, s \in Nat, i \in Nat, b \in Nat :
         /\ e = count.events + 1
         /\ s = IF verdict = "schema" THEN count.schema + 1 ELSE count.schema
         /\ i = IF verdict = "identity" THEN count.identity + 1
                ELSE count.identity
         /\ b = IF verdict = "request" THEN count.breaches
                ELSE count.breaches + 1
  BY <1>0, CountFields
<1> DEFINE c1 == [count EXCEPT !["events"] = e]
           c2 == [c1 EXCEPT !["schema"] = s]
           c3 == [c2 EXCEPT !["identity"] = i]
           c4 == [c3 EXCEPT !["breaches"] = b]
<1>2. Counted(verdict) = c4
  BY <1>1, CountFields DEF Counted, Counts
<1>3. c1 \in Counts /\ c2 \in Counts /\ c3 \in Counts /\ c4 \in Counts
  BY CountSet, CountFields
<1>4. \A g \in DOMAIN Zero :
        c4[g] = IF g = "breaches" THEN b ELSE IF g = "identity" THEN i
                ELSE IF g = "schema" THEN s ELSE IF g = "events" THEN e
                ELSE count[g]
  BY <1>3, CountFields DEF Counts
<1> HIDE DEF c1, c2, c3, c4
<1>5. c4.channel = count.channel
  BY <1>4, CountFields
<1>6. verdict = "request" => Milder(c4, count)
  BY <1>0, <1>1, <1>4, CountFields DEF Milder
<1>7. ASSUME NEW c \in Counts
      PROVE  \A g \in DOMAIN Zero :
               Judged(c)[g] = IF g = "channel" THEN 0 ELSE c[g]
  BY CountFields DEF Judged, Counts
<1>8. verdict = "request" => Milder(Judged(c4), Judged(count))
  <2>1. \A g \in DOMAIN Zero :
          /\ Judged(c4)[g] = IF g = "channel" THEN 0 ELSE c4[g]
          /\ Judged(count)[g] = IF g = "channel" THEN 0 ELSE count[g]
    BY <1>3, <1>7
  <2> QED BY <1>0, <1>1, <1>4, <2>1, CountFields DEF Milder
<1> QED BY <1>2, <1>3, <1>5, <1>6, <1>8

LEMMA TalliedForm ==
  ASSUME count \in Counts, NEW t \in Threads
  PROVE  Tallied(t) \in Counts /\ Tallied(t).channel = count.channel
<1>0. \A f \in DOMAIN Zero : count[f] \in Nat
  BY DEF Counts
<1>1. Breaches(call[t].reason) \in Nat
  BY DEF Breaches
<1>2. PICK b \in Nat, e \in Nat :
         /\ b = count.breaches + Breaches(call[t].reason)
         /\ e = IF call[t].kind = "envelope" THEN count.events
                ELSE count.events + 1
  BY <1>0, <1>1, CountFields
<1> DEFINE c1 == [count EXCEPT !["breaches"] = b]
           c2 == [c1 EXCEPT !["events"] = e]
<1>3. Tallied(t) = c2
  BY <1>2, CountFields DEF Tallied, Counts
<1>4. c1 \in Counts /\ c2 \in Counts
  BY CountSet, CountFields
<1>5. c2["channel"] = c1["channel"] /\ c1["channel"] = count["channel"]
  BY <1>4, CountFields DEF Counts
<1> HIDE DEF c1, c2
<1> QED BY <1>3, <1>4, <1>5

LEMMA ObservedForm ==
  ASSUME count \in Counts, NEW t \in Threads, NEW anomaly \in BOOLEAN,
         Observe(t, anomaly)
  PROVE  count' \in Counts /\ count'.channel = count.channel
<1>0. \A f \in DOMAIN Zero : count[f] \in Nat
  BY DEF Counts
<1>1. PICK x \in Nat, a \in Nat :
         /\ x = count.exchanges + 1
         /\ a = IF anomaly THEN count.anomalies + 1 ELSE count.anomalies
  BY <1>0, CountFields
<1> DEFINE c1 == [count EXCEPT !["exchanges"] = x]
           c2 == [c1 EXCEPT !["anomalies"] = a]
<1>2. count' = c2
  BY <1>1, CountFields DEF Observe, Counts
<1>3. c1 \in Counts /\ c2 \in Counts
  BY CountSet, CountFields
<1>4. c2["channel"] = c1["channel"] /\ c1["channel"] = count["channel"]
  BY <1>3, CountFields DEF Counts
<1> HIDE DEF c1, c2
<1> QED BY <1>2, <1>3, <1>4

(* An envelope that normalizes has a request id that was checked, and its  *)
(* canonical form keeps it.                                                *)
LEMMA ClassifiedForm ==
  ASSUME NEW input, Verdict(input) = "request"
  PROVE  Canonical(input).request_id \in Identifiers
<1>1. Normalizes(input, Principal)
  BY DEF Verdict
<1>2. "request_id" \in DOMAIN input /\ input.request_id \in Identifiers
  BY <1>1 DEF Normalizes, AllowedFields
<1> QED BY <1>2 DEF Canonical

LEMMA FormEndsAll ==
  ASSUME IntakeInv, IntakeInv', FormInv, NEW t \in Threads, Ends(t),
         suspended' \in BOOLEAN, contained' \in BOOLEAN,
         UNCHANGED <<lapsed, count, flows, executed, boots, calls>>
  PROVE  FormInv'
<1>1. CASE Steps(t, Idle)
  BY <1>1, FormEnds
<1>2. CASE Steps(t, [at |-> "intercept"])
  <2>1. Goes(t, "intercept") /\ "intercept" \in Places
    BY <1>2 DEF Goes, Places
  <2>2. FlowsStay
    BY DEF FlowsStay
  <2> QED BY <2>1, <2>2, FormStep DEF FormInv
<1> QED BY <1>1, <1>2 DEF Ends

(* The steps that count, judge and act, and those that only start a call.  *)
LEMMA FormOfCalls ==
  ASSUME IntakeInv, IntakeInv', FormInv, NEW t \in Threads,
         \/ \E input \in Inputs : Receive(t, input)
         \/ \E anomaly \in BOOLEAN : Observe(t, anomaly)
         \/ Tally(t) \/ Judge(t) \/ Act(t) \/ Seal(t) \/ ChannelViolation(t)
  PROVE  FormInv'
<1> DEFINE Fine(at) ==
             /\ at \in Places \ {"idle", "execute"} /\ Goes(t, at) /\ FlowsStay
             /\ executed' \subseteq Identifiers /\ count' \in Counts
             /\ suspended' \in BOOLEAN /\ contained' \in BOOLEAN
             /\ calls' \in 0..MaxCalls /\ UNCHANGED <<lapsed, boots>>
<1>0. ASSUME NEW at, Fine(at) PROVE FormInv'
  BY <1>0, FormStep
<1>1. ASSUME calls < MaxCalls, calls' = calls + 1 PROVE calls' \in 0..MaxCalls
  BY <1>1, IntakeAssumption DEF FormInv
<1>2. ASSUME flows' = flows PROVE FlowsStay
  BY <1>2 DEF FlowsStay
<1>3. ASSUME NEW input \in Inputs, Receive(t, input) PROVE FormInv'
  <2> DEFINE ch == [at |-> "parse", kind |-> "envelope", request |-> input]
  <2>1. Steps(t, ch) /\ DOMAIN ch = {"at", "kind", "request"}
        /\ ch.at = "parse"
    BY <1>3 DEF Receive, Starts
  <2>2. Goes(t, "parse")
    <3> HIDE DEF ch
    <3> QED BY <2>1 DEF Goes
  <2>3. Fine("parse")
    BY <1>1, <1>2, <1>3, <2>2 DEF Receive, Starts, FormInv, Places
  <2> QED BY <1>0, <2>3
<1>4. ASSUME NEW anomaly \in BOOLEAN, Observe(t, anomaly) PROVE FormInv'
  <2> DEFINE ch == [at |-> "judge", kind |-> "observe"]
  <2>1. Steps(t, ch) /\ DOMAIN ch = {"at", "kind"} /\ ch.at = "judge"
    BY <1>4 DEF Observe, Starts
  <2>2. Goes(t, "judge")
    <3> HIDE DEF ch
    <3> QED BY <2>1 DEF Goes
  <2>3. count' \in Counts
    BY <1>4, ObservedForm DEF FormInv
  <2>4. Fine("judge")
    BY <1>1, <1>2, <1>4, <2>2, <2>3 DEF Observe, Starts, FormInv, Places
  <2> QED BY <1>0, <2>4
<1>5. CASE ChannelViolation(t)
  <2> DEFINE ch == [at |-> "act", kind |-> "channel", level |-> "contain"]
  <2>1. Steps(t, ch) /\ DOMAIN ch = {"at", "kind", "level"} /\ ch.at = "act"
    BY <1>5 DEF ChannelViolation, Starts
  <2>2. Goes(t, "act")
    <3> HIDE DEF ch
    <3> QED BY <2>1 DEF Goes
  <2>3. count' \in Counts
    BY <1>5, CountFields DEF ChannelViolation, FormInv, Counts
  <2>4. Fine("act")
    BY <1>1, <1>2, <1>5, <2>2, <2>3
       DEF ChannelViolation, Starts, FormInv, Places
  <2> QED BY <1>0, <2>4
<1>6. CASE Tally(t)
  <2>1. Goes(t, "judge")
    BY <1>6 DEF Tally, Goes
  <2>2. Fine("judge")
    BY <1>2, <1>6, <2>1, TalliedForm DEF Tally, FormInv, Places
  <2> QED BY <1>0, <2>2
<1>7. CASE Judge(t)
  <2>1. PICK level : level = LevelOf(count, contained)
    OBVIOUS
  <2> DEFINE ch == [at |-> "act", level |-> level]
  <2>2. Steps(t, ch) /\ DOMAIN ch = {"at", "level"} /\ ch.at = "act"
    BY <1>7, <2>1 DEF Judge
  <2>3. Goes(t, "act")
    <3> HIDE DEF ch
    <3> QED BY <2>2 DEF Goes
  <2>4. Fine("act")
    BY <1>2, <1>7, <2>3 DEF Judge, FormInv, Places
  <2> QED BY <1>0, <2>4
<1>8. CASE Act(t)
  <2>1. suspended' \in BOOLEAN
    BY <1>8 DEF Act, FormInv
  <2>2. CASE Steps(t, [at |-> "seal"])
    <3>1. Goes(t, "seal")
      BY <2>2 DEF Goes
    <3>2. Fine("seal")
      BY <1>2, <1>8, <2>1, <3>1 DEF Act, FormInv, Places
    <3> QED BY <1>0, <3>2
  <2>3. CASE Ends(t)
    BY <1>8, <2>1, <2>3, FormEndsAll DEF Act, FormInv
  <2> QED BY <1>8, <2>2, <2>3 DEF Act
<1>9. CASE Seal(t)
  BY <1>9, FormEndsAll DEF Seal, FormInv
<1> QED BY <1>3, <1>4, <1>5, <1>6, <1>7, <1>8, <1>9


(* The steps that take a request or a flow.                                *)
LEMMA FormOfRequests ==
  ASSUME IntakeInv, IntakeInv', FormInv, NEW t \in Threads,
         \/ \E flow \in DOMAIN flows, approve \in BOOLEAN :
              Decide(t, flow, approve)
         \/ Classify(t) \/ Intercept(t)
  PROVE  FormInv'
<1>0. Typed /\ flows \in Seq(Flow) /\ Len(flows) \in Nat
      /\ DOMAIN flows = 1..Len(flows)
  BY DEF IntakeInv, Typed
<1>1. ASSUME NEW flow \in DOMAIN flows, NEW approve \in BOOLEAN,
             Decide(t, flow, approve)
      PROVE  FormInv'
  <2> DEFINE ch == [at |-> "resolve", kind |-> "resolve", flow |-> flow,
                    approve |-> approve]
  <2>1. /\ Steps(t, ch) /\ DOMAIN ch = {"at", "kind", "flow", "approve"}
        /\ ch.at = "resolve" /\ ch.flow = flow
    BY <1>1 DEF Decide, Starts
  <2>2. calls' \in 0..MaxCalls
    BY <1>1, IntakeAssumption DEF Decide, Starts, FormInv
  <2>3. /\ flows' = flows /\ UNCHANGED <<executed, count, suspended, contained,
                                        lapsed, boots>>
    BY <1>1 DEF Decide
  <2> HIDE DEF ch
  <2> QED BY <1>0, <2>1, <2>2, <2>3, FormMove DEF FormInv, Places
<1>2. CASE Classify(t)
  <2>1. count' \in Counts
    BY <1>2, CountedForm DEF Classify, FormInv
  <2>2. UNCHANGED <<lapsed, suspended, contained, flows, executed, boots,
                    calls>>
    BY <1>2 DEF Classify
  <2>3. CASE Steps(t, [at |-> "judge", request |-> Nothing])
    <3> DEFINE ch == [at |-> "judge", request |-> Nothing]
    <3>1. /\ Steps(t, ch) /\ DOMAIN ch = {"at", "request"} /\ ch.at = "judge"
      BY <2>3
    <3> HIDE DEF ch
    <3> QED BY <1>0, <2>1, <2>2, <3>1, FormMove DEF FormInv, Places
  <2>4. CASE /\ Verdict(call[t].request) = "request"
             /\ Steps(t, [at |-> "execute",
                          request |-> Canonical(call[t].request)])
    <3>1. PICK input : input = call[t].request
      OBVIOUS
    <3> DEFINE ch == [at |-> "execute", request |-> Canonical(input)]
    <3>2. /\ Steps(t, ch) /\ DOMAIN ch = {"at", "request"}
          /\ ch.at = "execute" /\ ch.request.request_id \in Identifiers
      BY <2>4, <3>1, ClassifiedForm
    <3> HIDE DEF ch
    <3> QED BY <1>0, <2>1, <2>2, <3>2, FormMove DEF FormInv, Places
  <2> QED BY <1>2, <2>3, <2>4 DEF Classify
<1>3. CASE Intercept(t)
  <2>1. UNCHANGED <<lapsed, count, flows, executed, boots, calls, suspended,
                    contained>>
    BY <1>3 DEF Intercept
  <2>2. CASE Steps(t, Idle)
    BY <2>1, <2>2, FormEnds DEF FormInv
  <2>3. CASE Steps(t, [at |-> "resolve", kind |-> "unavailable",
                       approve |-> FALSE, reason |-> "none"])
    <3> DEFINE ch == [at |-> "resolve", kind |-> "unavailable",
                      approve |-> FALSE, reason |-> "none"]
    <3>1. /\ Steps(t, ch) /\ DOMAIN ch = {"at", "kind", "approve", "reason"}
          /\ ch.at = "resolve"
      BY <2>3
    <3> HIDE DEF ch
    <3> QED BY <1>0, <2>1, <3>1, FormMove DEF FormInv, Places
  <2> QED BY <1>3, <2>2, <2>3 DEF Intercept
<1> QED BY <1>1, <1>2, <1>3

(* The steps that execute or resolve go on to the tally; the claim of what *)
(* ran is a request id that was checked.                                   *)
LEMMA RunsTally ==
  ASSUME IntakeInv, FormInv, NEW t \in Threads, Execute(t) \/ Resolve(t)
  PROVE  /\ executed' \subseteq Identifiers
         /\ \/ FlowsStay /\ Goes(t, "tally")
            \/ /\ call[t].at = "execute"
               /\ flows' = Append(flows,
                    [request |-> call[t].request, package |-> package,
                     boot |-> boots, state |-> "PENDING_APPROVAL"])
               /\ \E reason : Steps(t, [at |-> "tally", reason |-> reason,
                                        flow |-> Len(flows) + 1])
<1>0. Typed /\ FormOK(t) /\ CallOK(t)
  BY DEF IntakeInv, FormInv
<1> DEFINE Moves(reason) == Steps(t, [at |-> "tally", reason |-> reason])
<1>1. ASSUME NEW reason, Moves(reason) PROVE Goes(t, "tally")
  <2> DEFINE ch == [at |-> "tally", reason |-> reason]
  <2>1. Steps(t, ch) /\ DOMAIN ch = {"at", "reason"} /\ ch.at = "tally"
    BY <1>1
  <2> HIDE DEF ch
  <2> QED BY <2>1 DEF Goes
<1>2. ASSUME flows' = flows PROVE FlowsStay
  BY <1>2 DEF FlowsStay
<1>3. ASSUME NEW request, NEW version, NEW flow,
             flow = 0 \/ flow \in DOMAIN flows,
             request.request_id \in Identifiers,
             Uses(t, request, version, flow)
      PROVE  FlowsStay /\ Goes(t, "tally") /\ executed' \subseteq Identifiers
  BY <1>0, <1>3, UsesForm DEF FormInv
<1>4. CASE Execute(t)
  <2>1. PICK request : request = call[t].request
    OBVIOUS
  <2> DEFINE ruling == Evaluate(package.rules, request)
             held == [request |-> request, package |-> package,
                      boot |-> boots, state |-> "PENDING_APPROVAL"]
  <2>2. call[t].at = "execute" /\ request.request_id \in Identifiers
    BY <1>0, <1>4, <2>1 DEF Execute, FormOK
  <2>3. \/ /\ \E reason : Moves(reason)
           /\ UNCHANGED <<flows, executed>>
        \/ Uses(t, request, package.version, 0)
        \/ /\ flows' = Append(flows, held) /\ executed' = executed
           /\ Steps(t, [at |-> "tally", reason |-> ruling,
                        flow |-> Len(flows) + 1])
    <3> HIDE DEF ruling
    <3> QED BY <1>4, <2>1 DEF Execute, ruling
  <2> HIDE DEF ruling, Moves
  <2> QED BY <1>1, <1>2, <1>3, <2>1, <2>2, <2>3 DEF FormInv
<1>5. CASE Resolve(t)
  <2>1. PICK flow : flow = call[t].flow
    OBVIOUS
  <2>2. flow \in DOMAIN flows
    BY <1>0, <1>5, <2>1 DEF Resolve, CallOK
  <2> DEFINE Closes(reason) ==
               /\ flows' = [flows EXCEPT ![flow].state = "DENIED_OR_EXPIRED"]
               /\ Moves(reason)
               /\ UNCHANGED <<executed, effects>>
  <2>3. \/ /\ Moves(IF Serves THEN "denied_approval"
                    ELSE "denied_health_unavailable")
           /\ UNCHANGED <<flows, executed, effects>>
        \/ Closes("denied_approval") \/ Closes("denied_approval_expired")
        \/ Uses(t, flows[flow].request, flows[flow].package.version, flow)
    BY <1>5, <2>1, Zenon DEF Resolve
  <2>4. ASSUME NEW reason, Closes(reason)
        PROVE  FlowsStay /\ Moves(reason) /\ executed' = executed
    BY <1>0, <2>2, <2>4, StateStays
  <2>5. flows[flow].request.request_id \in Identifiers
    BY <2>2 DEF FormInv
  <2> HIDE DEF Closes, Moves
  <2> QED BY <1>1, <1>2, <1>3, <2>2, <2>3, <2>4, <2>5 DEF FormInv
<1> QED BY <1>4, <1>5

LEMMA FormOfRuns ==
  ASSUME IntakeInv, IntakeInv', FormInv, NEW t \in Threads,
         Execute(t) \/ Resolve(t)
  PROVE  FormInv'
<1>0. Typed /\ flows \in Seq(Flow) /\ Len(flows) \in Nat
      /\ DOMAIN flows = 1..Len(flows) /\ FormOK(t)
  BY DEF IntakeInv, Typed, FormInv
<1>1. UNCHANGED <<lapsed, suspended, count, contained, boots, calls>>
  BY DEF Execute, Resolve
<1>2. CASE FlowsStay /\ Goes(t, "tally")
  BY <1>1, <1>2, RunsTally, FormStep DEF FormInv, Places
<1>3. ASSUME call[t].at = "execute", NEW held, held.request = call[t].request,
             flows' = Append(flows, held), NEW reason,
             Steps(t, [at |-> "tally", reason |-> reason,
                       flow |-> Len(flows) + 1])
      PROVE  FormInv'
  <2>1. PICK n : n = Len(flows) + 1
    OBVIOUS
  <2> DEFINE ch == [at |-> "tally", reason |-> reason, flow |-> n]
  <2>2. /\ Steps(t, ch) /\ DOMAIN ch = {"at", "reason", "flow"}
        /\ ch.at = "tally" /\ ch.flow = n
    BY <1>3, <2>1
  <2>3. flows' \in Seq(Flow)
    BY DEF IntakeInv, Typed
  <2>4. /\ Len(flows') = n /\ DOMAIN flows' = 1..n
        /\ \A f \in DOMAIN flows : flows'[f] = flows[f]
        /\ flows'[n] = held
    BY <1>0, <1>3, <2>1
  <2>5. \A f \in DOMAIN flows' : flows'[f].request.request_id \in Identifiers
    BY <1>0, <1>3, <2>1, <2>4 DEF FormInv, FormOK
  <2> HIDE DEF ch
  <2>6. /\ executed' \subseteq Identifiers /\ count' \in Counts
        /\ calls' \in 0..MaxCalls
        /\ suspended' \in BOOLEAN /\ contained' \in BOOLEAN
        /\ "tally" \in Places \ {"idle"}
    BY <1>1, RunsTally DEF FormInv, Places
  <2>7. Len(flows) <= Len(flows') /\ ch.flow \in 0..Len(flows')
    BY <1>0, <2>1, <2>2, <2>4
  <2> QED BY <1>1, <2>2, <2>3, <2>5, <2>6, <2>7, FormMove
<1>4. \/ FlowsStay /\ Goes(t, "tally")
      \/ \E held, reason :
           /\ call[t].at = "execute" /\ held.request = call[t].request
           /\ flows' = Append(flows, held)
           /\ Steps(t, [at |-> "tally", reason |-> reason,
                        flow |-> Len(flows) + 1])
  <2> DEFINE held == [request |-> call[t].request, package |-> package,
                      boot |-> boots, state |-> "PENDING_APPROVAL"]
  <2>1. held.request = call[t].request
    OBVIOUS
  <2>2. \/ FlowsStay /\ Goes(t, "tally")
        \/ /\ call[t].at = "execute" /\ flows' = Append(flows, held)
           /\ \E reason : Steps(t, [at |-> "tally", reason |-> reason,
                                    flow |-> Len(flows) + 1])
    BY RunsTally
  <2> HIDE DEF held
  <2> QED BY <2>1, <2>2
<1> QED BY <1>2, <1>3, <1>4

LEMMA FormInit == Init => FormInv
<1> SUFFICES ASSUME Init PROVE FormInv
  OBVIOUS
<1>1. count \in Counts /\ call = [t \in Threads |-> Idle]
  BY CountFields DEF Init
<1>2. ASSUME NEW t \in Threads PROVE FormOK(t)
  BY <1>1 DEF FormOK, Init, Idle, Places
<1>3. /\ lapsed = {} /\ executed = {} /\ \A f \in DOMAIN flows : FALSE
      /\ suspended \in BOOLEAN /\ contained \in BOOLEAN
  <2>1. flows = <<>>
    BY DEF Init
  <2>2. DOMAIN flows = 1..0
    BY <2>1
  <2>3. lapsed = {} /\ executed = {}
    BY DEF Init
  <2>4. suspended = FALSE /\ contained = FALSE
    BY DEF Init
  <2>5. \A f \in DOMAIN flows : FALSE
    BY <2>2
  <2>6. suspended \in BOOLEAN /\ contained \in BOOLEAN
    BY <2>4
  <2> QED BY <2>3, <2>5, <2>6
<1>4. boots \in 0..MaxRestarts /\ calls \in 0..MaxCalls
  BY IntakeAssumption DEF Init
<1>5. /\ lapsed \subseteq {p.version : p \in Packages}
      /\ \A f \in DOMAIN flows : flows[f].request.request_id \in Identifiers
  BY <1>3
<1> QED BY <1>1, <1>2, <1>3, <1>4, <1>5 DEF FormInv

LEMMA NextForm == IntakeInv /\ FormInv /\ [Next]_vars => FormInv'
<1> SUFFICES ASSUME IntakeInv, FormInv, [Next]_vars PROVE FormInv'
  OBVIOUS
<1>1. IntakeInv'
  BY NextKeeps
<1>2. ASSUME NEW t \in Threads, ThreadNext(t) PROVE FormInv'
  BY <1>1, <1>2, FormOfCalls, FormOfRequests, FormOfRuns DEF ThreadNext
<1>3. CASE Suspend \/ Lapse \/ UNCHANGED vars
  <2>1. UNCHANGED <<contained, count, flows, executed, call, boots, calls>>
        /\ suspended' \in BOOLEAN
    BY <1>3 DEF Suspend, Lapse, vars, FormInv
  <2>2. lapsed' \subseteq {p.version : p \in Packages}
    BY <1>3 DEF Suspend, Lapse, vars, FormInv, IntakeInv, Typed
  <2> QED BY <2>1, <2>2 DEF FormInv, FormOK
<1>4. CASE Restart
  <2>1. /\ call' = [t \in Threads |-> Idle] /\ count' \in Counts
        /\ UNCHANGED <<lapsed, flows, executed, calls>>
        /\ suspended' \in BOOLEAN /\ contained' \in BOOLEAN
    BY <1>4, CountFields DEF Restart
  <2>2. boots' \in 0..MaxRestarts
    BY <1>4, IntakeAssumption DEF Restart, FormInv
  <2>3. ASSUME NEW t \in Threads PROVE FormOK(t)'
    BY <2>1 DEF FormOK, Idle, Places, IntakeInv, Typed
  <2> QED BY <2>1, <2>2, <2>3 DEF FormInv
<1> QED BY <1>2, <1>3, <1>4 DEF Next

-----------------------------------------------------------------------------
(* The step of t, for the scores: what is owed after it is owed by t, or   *)
(* was owed before it and not by t.                                        *)
LEMMA ScoreStep ==
  ASSUME IntakeInv, ScoreInv, NEW t \in Threads, NEW changes, Steps(t, changes),
         suspended => suspended', contained => contained',
         contained' => suspended',
         call'[t].at = "seal" => suspended',
         count'.channel > 0 =>
           \/ suspended' \/ Suspends(t)'
           \/ count.channel > 0 /\ ~Suspends(t),
         OverContain(count') =>
           \/ suspended' \/ Judges(t)' \/ Suspends(t)'
           \/ OverContain(count) /\ ~Judges(t) /\ ~Suspends(t),
         OverFail(Judged(count')) =>
           \/ contained' \/ Judges(t)' \/ Seals(t)'
           \/ OverFail(Judged(count)) /\ ~Judges(t) /\ ~Seals(t)
  PROVE  ScoreInv'
<1>1. \A u \in Threads \ {t} : call'[u] = call[u]
  BY StepsFields DEF IntakeInv
<1>2. \A u \in Threads \ {t} :
        /\ Judges(u)' <=> Judges(u)
        /\ Suspends(u)' <=> Suspends(u)
        /\ Seals(u)' <=> Seals(u)
  BY <1>1 DEF Judges, Suspends, Seals
<1>3. \A u \in Threads : call'[u].at = "seal" => suspended'
  BY <1>1 DEF ScoreInv
<1>4. count'.channel > 0 => suspended' \/ \E u \in Threads : Suspends(u)'
  BY <1>2 DEF ScoreInv
<1>5. OverContain(count') =>
        suspended' \/ \E u \in Threads : Judges(u)' \/ Suspends(u)'
  BY <1>2 DEF ScoreInv
<1>6. OverFail(Judged(count')) =>
        contained' \/ \E u \in Threads : Judges(u)' \/ Seals(u)'
  BY <1>2 DEF ScoreInv
<1>7. OverContain(count)' = OverContain(count')
      /\ OverFail(Judged(count))' = OverFail(Judged(count'))
  BY DEF OverContain, OverFail, Exceeds, Judged, Dimensions, Window
<1> QED BY <1>3, <1>4, <1>5, <1>6, <1>7 DEF ScoreInv

(* A step of a call that neither judges nor acts.                          *)
LEMMA QuietScore ==
  ASSUME IntakeInv, ScoreInv, NEW t \in Threads, NEW changes, Steps(t, changes),
         call[t].at \notin {"judge", "act", "seal"}, call'[t].at # "seal",
         UNCHANGED <<suspended, contained, count>>
  PROVE  ScoreInv'
<1>1. ~Judges(t) /\ ~Suspends(t) /\ ~Seals(t)
  BY DEF Judges, Suspends, Seals
<1> QED BY <1>1, ScoreStep DEF ScoreInv


(* What the judge decides of a score that is over, and what it owes.       *)
LEMMA JudgeScore ==
  ASSUME IntakeInv, FormInv, ScoreInv, NEW t \in Threads, Judge(t)
  PROVE  ScoreInv'
<1>1. PICK level : level = LevelOf(count, contained)
  OBVIOUS
<1> DEFINE ch == [at |-> "act", level |-> level]
<1>2. /\ Steps(t, ch) /\ UNCHANGED <<suspended, contained, count>>
      /\ call[t].at = "judge"
  BY <1>1 DEF Judge
<1>3. call'[t].at = "act" /\ call'[t].level = level
  BY <1>2, StepsFields, IdleFields DEF IntakeInv
<1>4. OverContain(count) => level # "fine"
  BY <1>1 DEF LevelOf
<1>5. OverFail(Judged(count)) => level = "fail"
  BY <1>1, JudgedIsLess DEF LevelOf, FormInv
<1>6. /\ ~Suspends(t) /\ (level # "fine" => Suspends(t)')
      /\ level = "fail" => Seals(t)'
  BY <1>2, <1>3 DEF Suspends, Seals
<1> HIDE DEF ch
<1> QED BY <1>2, <1>3, <1>4, <1>5, <1>6, ScoreStep DEF ScoreInv

(* Acting pays what was owed: first the suspension, then the seal.         *)
LEMMA ActScore ==
  ASSUME IntakeInv, FormInv, ScoreInv, NEW t \in Threads, Act(t) \/ Seal(t)
  PROVE  ScoreInv'
<1>1. PICK changes :
        /\ Steps(t, changes)
        /\ changes = [at |-> "seal"] \/ changes = [at |-> "intercept"]
             \/ changes = Idle
        /\ changes = [at |-> "seal"] <=> Act(t) /\ call[t].level = "fail"
  <2>1. /\ [at |-> "seal"] # Idle /\ [at |-> "intercept"] # Idle
        /\ [at |-> "seal"] # [at |-> "intercept"]
    BY DEF Idle
  <2>2. CASE Act(t) /\ call[t].level = "fail"
    BY <2>2 DEF Act
  <2>3. CASE ~(Act(t) /\ call[t].level = "fail")
    <3>1. Ends(t)
      BY <2>3 DEF Act, Seal
    <3> QED BY <2>1, <2>3, <3>1 DEF Ends
  <2> QED BY <2>2, <2>3
<1>2. /\ call'[t].at \in {"seal", "intercept", "idle"}
      /\ call'[t].at = "seal" <=> Act(t) /\ call[t].level = "fail"
  <2>1. changes = Idle => call'[t].at = Idle.at
    BY <1>1, StepsFields, IdleFields DEF IntakeInv
  <2>2. changes # Idle => call'[t].at = changes.at
    BY <1>1, StepsFields, IdleFields DEF IntakeInv
  <2>3. Idle.at = "idle"
    BY DEF Idle
  <2> QED BY <1>1, <2>1, <2>2, <2>3
<1>3. count' = count /\ ~Judges(t)
  BY DEF Act, Seal, Judges
<1>4. CASE Act(t)
  <2>1. /\ suspended' = (suspended \/ call[t].level # "fine")
        /\ contained' = contained /\ call[t].at = "act"
    BY <1>4 DEF Act
  <2>2. /\ Suspends(t) => suspended'
        /\ Seals(t) => Seals(t)'
        /\ call'[t].at = "seal" => suspended'
    BY <1>2, <1>4, <2>1 DEF Suspends, Seals
  <2> QED BY <1>1, <1>3, <2>1, <2>2, ScoreStep DEF ScoreInv
<1>5. CASE Seal(t)
  <2>1. contained' = TRUE /\ suspended' = suspended /\ call[t].at = "seal"
    BY <1>5 DEF Seal
  <2>2. suspended /\ ~Suspends(t) /\ call'[t].at # "seal"
    BY <1>2, <1>5, <2>1 DEF ScoreInv, Suspends, Act
  <2> QED BY <1>1, <1>3, <2>1, <2>2, ScoreStep DEF ScoreInv
<1> QED BY <1>4, <1>5

(* Whoever counts an offence goes on to judge it; an envelope that counts  *)
(* none makes the score milder.                                            *)
LEMMA CountScore ==
  ASSUME IntakeInv, FormInv, ScoreInv, NEW t \in Threads,
         \/ Classify(t) \/ Tally(t)
         \/ \E anomaly \in BOOLEAN : Observe(t, anomaly)
  PROVE  ScoreInv'
<1>0. count \in Counts
  BY DEF FormInv
<1>1. /\ UNCHANGED <<suspended, contained>>
      /\ ~Suspends(t) /\ ~Judges(t) /\ ~Seals(t)
  BY DEF Classify, Tally, Observe, Starts, Suspends, Judges, Seals
<1>2. ASSUME NEW changes, Steps(t, changes), "at" \in DOMAIN changes,
             changes.at = "judge", count'.channel = count.channel
      PROVE  ScoreInv'
  <2>1. call'[t].at = "judge"
    BY <1>2, StepsFields, IdleFields DEF IntakeInv
  <2>2. Judges(t)'
    BY <2>1 DEF Judges
  <2> QED BY <1>1, <1>2, <2>1, <2>2, ScoreStep DEF ScoreInv
<1>3. CASE Classify(t)
  <2>1. PICK verdict : /\ verdict = Verdict(call[t].request)
                       /\ count' = Counted(verdict)
    BY <1>3 DEF Classify
  <2>2. count'.channel = count.channel
    BY <1>0, <2>1, CountedForm
  <2>3. CASE verdict # "request"
    <3> DEFINE ch == [at |-> "judge", request |-> Nothing]
    <3>1. Steps(t, ch) /\ "at" \in DOMAIN ch /\ ch.at = "judge"
      BY <1>3, <2>1, <2>3 DEF Classify
    <3> HIDE DEF ch
    <3> QED BY <1>2, <2>2, <3>1
  <2>4. CASE verdict = "request"
    <3> DEFINE ch == [at |-> "execute",
                      request |-> Canonical(call[t].request)]
    <3>1. Steps(t, ch)
      BY <1>3, <2>1, <2>4 DEF Classify
    <3>2. call'[t].at = "execute"
      BY <3>1, StepsFields, IdleFields DEF IntakeInv
    <3>3. /\ Milder(count', count) /\ count' \in Counts
          /\ Milder(Judged(count'), Judged(count))
          /\ Judged(count) \in Counts /\ Judged(count') \in Counts
      BY <1>0, <2>1, <2>4, CountedForm, JudgedIsLess
    <3>4. /\ OverContain(count') => OverContain(count)
          /\ OverFail(Judged(count')) => OverFail(Judged(count))
      BY <1>0, <3>3, MilderIsLess
    <3> HIDE DEF ch
    <3> QED BY <1>1, <2>2, <3>1, <3>2, <3>4, ScoreStep DEF ScoreInv
  <2> QED BY <2>3, <2>4
<1>4. CASE Tally(t)
  <2>1. Steps(t, [at |-> "judge"]) /\ count'.channel = count.channel
    BY <1>0, <1>4, TalliedForm DEF Tally
  <2> QED BY <1>2, <2>1
<1>5. ASSUME NEW anomaly \in BOOLEAN, Observe(t, anomaly) PROVE ScoreInv'
  <2> DEFINE ch == [at |-> "judge", kind |-> "observe"]
  <2>1. /\ Steps(t, ch) /\ "at" \in DOMAIN ch /\ ch.at = "judge"
        /\ count'.channel = count.channel
    BY <1>0, <1>5, ObservedForm DEF Observe, Starts
  <2> HIDE DEF ch
  <2> QED BY <1>2, <2>1
<1> QED BY <1>3, <1>4, <1>5

(* A channel violation suspends by itself, and is not judged.              *)
LEMMA ChannelScore ==
  ASSUME IntakeInv, FormInv, ScoreInv, NEW t \in Threads, ChannelViolation(t)
  PROVE  ScoreInv'
<1> DEFINE ch == [at |-> "act", kind |-> "channel", level |-> "contain"]
<1>1. /\ Steps(t, ch) /\ call[t].at = "idle"
      /\ UNCHANGED <<suspended, contained>>
  BY DEF ChannelViolation, Starts
<1>2. call'[t].at = "act" /\ call'[t].level = "contain"
  BY <1>1, StepsFields, IdleFields DEF IntakeInv
<1>3. Suspends(t)' /\ ~Suspends(t) /\ ~Judges(t) /\ ~Seals(t)
  BY <1>1, <1>2 DEF Suspends, Judges, Seals
<1>4. Judged(count') = Judged(count)
  <2>1. count' = [count EXCEPT !["channel"] = count.channel + 1]
    BY DEF ChannelViolation
  <2> QED BY <2>1, CountFields DEF Judged, FormInv, Counts
<1> HIDE DEF ch
<1> QED BY <1>1, <1>2, <1>3, <1>4, ScoreStep DEF ScoreInv


LEMMA ScoreInit == Init => ScoreInv
<1> SUFFICES ASSUME Init PROVE ScoreInv
  OBVIOUS
<1>1. count = Zero /\ Zero.channel = 0
  BY CountFields DEF Init
<1>2. \A t \in Threads : call[t].at # "seal"
  BY DEF Init, Idle
<1>3. ~OverContain(count) /\ ~OverFail(Judged(count)) /\ ~(count.channel > 0)
  BY <1>1, ZeroIsFine
<1> QED BY <1>2, <1>3 DEF ScoreInv, Init

LEMMA NextScore == IntakeInv /\ FormInv /\ ScoreInv /\ [Next]_vars => ScoreInv'
<1> SUFFICES ASSUME IntakeInv, FormInv, ScoreInv, [Next]_vars PROVE ScoreInv'
  OBVIOUS
<1>1. ASSUME NEW t \in Threads, NEW changes, Steps(t, changes),
             call[t].at \notin {"judge", "act", "seal"},
             "at" \in DOMAIN changes, changes.at # "seal",
             UNCHANGED <<suspended, contained, count>>
      PROVE  ScoreInv'
  <2>1. call'[t].at # "seal"
    BY <1>1, StepsFields, IdleFields DEF IntakeInv
  <2> QED BY <1>1, <2>1, QuietScore
<1>2. ASSUME NEW t \in Threads, NEW input \in Inputs, Receive(t, input)
      PROVE  ScoreInv'
  <2> DEFINE ch == [at |-> "parse", kind |-> "envelope", request |-> input]
  <2>1. Steps(t, ch) /\ "at" \in DOMAIN ch /\ ch.at # "seal"
    BY <1>2 DEF Receive, Starts
  <2>2. call[t].at = "idle" /\ UNCHANGED <<suspended, contained, count>>
    BY <1>2 DEF Receive, Starts
  <2> HIDE DEF ch
  <2> QED BY <1>1, <2>1, <2>2
<1>3. ASSUME NEW t \in Threads, NEW flow \in DOMAIN flows,
             NEW approve \in BOOLEAN, Decide(t, flow, approve)
      PROVE  ScoreInv'
  <2> DEFINE ch == [at |-> "resolve", kind |-> "resolve", flow |-> flow,
                    approve |-> approve]
  <2>1. Steps(t, ch) /\ "at" \in DOMAIN ch /\ ch.at # "seal"
    BY <1>3 DEF Decide, Starts
  <2>2. call[t].at = "idle" /\ UNCHANGED <<suspended, contained, count>>
    BY <1>3 DEF Decide, Starts
  <2> HIDE DEF ch
  <2> QED BY <1>1, <2>1, <2>2
<1>4. ASSUME NEW t \in Threads, Execute(t) \/ Resolve(t) PROVE ScoreInv'
  <2>1. /\ call[t].at \in {"execute", "resolve"}
        /\ UNCHANGED <<suspended, contained, count>>
    BY <1>4 DEF Execute, Resolve
  <2>2. CASE Goes(t, "tally")
    BY <1>1, <2>1, <2>2 DEF Goes
  <2>3. ASSUME NEW reason, NEW flow,
               Steps(t, [at |-> "tally", reason |-> reason, flow |-> flow])
        PROVE  ScoreInv'
    <3> DEFINE ch == [at |-> "tally", reason |-> reason, flow |-> flow]
    <3>1. Steps(t, ch) /\ "at" \in DOMAIN ch /\ ch.at # "seal"
      BY <2>3
    <3> HIDE DEF ch
    <3> QED BY <1>1, <2>1, <3>1
  <2> QED BY <1>4, <2>2, <2>3, RunsTally
<1>5. ASSUME NEW t \in Threads, Intercept(t) PROVE ScoreInv'
  <2> DEFINE ch == [at |-> "resolve", kind |-> "unavailable",
                    approve |-> FALSE, reason |-> "none"]
  <2>1. /\ "at" \in DOMAIN ch /\ ch.at # "seal"
        /\ "at" \in DOMAIN Idle /\ Idle.at # "seal"
    BY DEF Idle
  <2>2. /\ Steps(t, ch) \/ Steps(t, Idle)
        /\ call[t].at = "intercept"
        /\ UNCHANGED <<suspended, contained, count>>
    BY <1>5 DEF Intercept
  <2> HIDE DEF ch
  <2> QED BY <1>1, <2>1, <2>2
<1>6. CASE Suspend \/ Lapse \/ UNCHANGED vars
  <2>1. /\ UNCHANGED <<contained, count, call>> /\ (suspended => suspended')
    BY <1>6 DEF Suspend, Lapse, vars
  <2>2. \A t \in Threads : /\ Judges(t)' <=> Judges(t)
                           /\ Suspends(t)' <=> Suspends(t)
                           /\ Seals(t)' <=> Seals(t)
    BY <2>1 DEF Judges, Suspends, Seals
  <2>3. /\ OverContain(count)' <=> OverContain(count)
        /\ OverFail(Judged(count))' <=> OverFail(Judged(count))
    BY <2>1 DEF OverContain, OverFail, Exceeds, Judged, Dimensions, Window
  <2> QED BY <2>1, <2>2, <2>3 DEF ScoreInv
<1>7. CASE Restart
  <2>1. /\ count' = Zero /\ contained' = FALSE
        /\ call' = [t \in Threads |-> Idle]
    BY <1>7 DEF Restart
  <2>2. /\ OverContain(count)' = OverContain(count')
        /\ OverFail(Judged(count))' = OverFail(Judged(count'))
    BY DEF OverContain, OverFail, Exceeds, Judged, Dimensions, Window
  <2>3. ~OverContain(count') /\ ~OverFail(Judged(count'))
        /\ ~(count'.channel > 0)
    BY <2>1, ZeroIsFine, CountFields
  <2>4. \A t \in Threads : call'[t].at # "seal"
    BY <2>1 DEF Idle
  <2> QED BY <2>1, <2>2, <2>3, <2>4 DEF ScoreInv
<1> QED BY <1>2, <1>3, <1>4, <1>5, <1>6, <1>7, CountScore, JudgeScore,
           ActScore, ChannelScore DEF Next, ThreadNext

(* When no call is in flight the worker is suspended if its score says so, *)
(* and contained if it is over the second threshold: whatever the threads  *)
(* did between counting, judging and acting.                               *)
THEOREM ScoresAreActedOn == Spec => []ScoreIsActedOn
<1>1. ScoreInv => ScoreIsActedOn
  BY DEF ScoreInv, ScoreIsActedOn, Judged, Judges, Suspends, Seals
<1> QED BY <1>1, InitHolds, NextKeeps, FormInit, NextForm, ScoreInit,
           NextScore, PTL DEF Spec

(* The types, and that a contained worker is never seen unsuspended.       *)
THEOREM TypeCorrect == Spec => []TypeOK
<1>1. IntakeInv /\ DenialInv /\ FormInv /\ ScoreInv => TypeOK
  <2> SUFFICES ASSUME IntakeInv, DenialInv, FormInv, ScoreInv PROVE TypeOK
    OBVIOUS
  <2>1. \A f \in DOMAIN flows :
          flows[f].state \in FlowStates /\ flows[f].package \in Packages
    <3>1. \A f \in DOMAIN flows : flows[f] \in Flow
      BY DEF IntakeInv, Typed
    <3> QED BY <3>1 DEF Flow
  <2>2. package \in Packages /\ unavailable \subseteq DOMAIN flows
    BY DEF IntakeInv, Typed, DenialInv, Shut
  <2> QED BY <2>1, <2>2 DEF FormInv, FormOK, ScoreInv, Counts, TypeOK
<1> QED BY <1>1, InitHolds, NextKeeps, DenialInit, NextShuts, FormInit,
           NextForm, ScoreInit, NextScore, PTL DEF Spec
=============================================================================
