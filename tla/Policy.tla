------------------------------- MODULE Policy -------------------------------
(***************************************************************************)
(* The policy engine (rust/src/policy.rs): which bundles it loads, and     *)
(* what a loaded bundle says of a request.  Signatures, the JSON shape and *)
(* the clock are abstracted to three flags of a package.                   *)
(***************************************************************************)
EXTENDS Naturals, Sequences, SequencesExt, FiniteSetsExt

CONSTANT AnyPrincipal  \* "*"

NoPrefix == <<>>

(* A key that a resource lacks matches no prefix.  A path is the sequence  *)
(* of its components.                                                      *)
ResourceMatches(prefix, resource) ==
  \A key \in DOMAIN prefix :
    IF key = "path_prefix"
    THEN "path" \in DOMAIN resource /\ IsPrefix(prefix[key], resource.path)
    ELSE key \in DOMAIN resource /\ resource[key] = prefix[key]

(* A rule that says ALLOW and asks for approval is a human gate too.       *)
Gated(rule) == rule.approval_required \/ rule.decision = "REQUIRE_APPROVAL"

Applies(rule, request) ==
  /\ rule.principal \in {AnyPrincipal, request.principal}
  /\ rule.action = request.action
  /\ ResourceMatches(rule.resource_prefix, request.resource)

Matching(rules, request) == {i \in DOMAIN rules : Applies(rules[i], request)}

FirstOf(rules, request) ==
  rules[CHOOSE i \in Matching(rules, request) :
          \A j \in Matching(rules, request) : i <= j]

(* Deny by default, deny when the rules that match disagree.               *)
Evaluate(rules, request) ==
  LET gates == {Gated(rules[i]) : i \in Matching(rules, request)}
  IN  CASE gates = {}     -> "denied_policy_no_rule"
        [] gates = {TRUE} -> "policy_approval_required"
        [] gates = {FALSE} -> "policy_allowed"
        [] OTHER          -> "denied_policy_conflict"

(* What an approval request inherits: the time limit of the first rule.    *)
ExpiryLimit(rules, request) == FirstOf(rules, request).expiry_limit_seconds

-----------------------------------------------------------------------------
PrototypeActions == {"workspace.read", "workspace.write", "external.send_mock"}
ExpiryLimits == 1..86400  \* seconds

RuleLoads(rule) ==
  /\ rule.action \in PrototypeActions
  /\ rule.decision \in {"ALLOW", "REQUIRE_APPROVAL"}
  /\ rule.approval_required \in BOOLEAN
  /\ rule.expiry_limit_seconds \in ExpiryLimits

(* A bundle has a human gate, requires the audit, and is for now.          *)
Loads(package) ==
  /\ package.signed /\ package.audit_required
  /\ package.min_runtime_version = "1"
  /\ package.rules # <<>>
  /\ \A i \in DOMAIN package.rules : RuleLoads(package.rules[i])
  /\ \E i \in DOMAIN package.rules : Gated(package.rules[i])
  /\ package.covers_now
=============================================================================
