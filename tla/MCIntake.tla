------------------------------ MODULE MCIntake ------------------------------
(* Intake on requests that are allowed, gated, unruled and rejected.       *)
EXTENDS Intake, TLC

CONSTANTS Worker, Other, Ours

WorkspaceRoot == <<"home", "work">>
Report == <<"home", "work", "report">>
ExistingFiles == {Report}
ExistingFolders == {<<>>, <<"home">>, WorkspaceRoot}
Ids == {Worker, Other, Ours, "r1", "r2", "r3"}
Addresses == {"a@b.test"}
Everyone == "*"
Symmetric == Permutations(Threads)

Envelope(id, principal, action, resource) ==
  [version |-> "1", request_id |-> id, session_id |-> Ours,
   principal |-> principal, action |-> action, resource |-> resource,
   payload |-> "payload", constraints |-> <<>>]

Path(absolute, parts) == [path |-> [absolute |-> absolute, parts |-> parts]]

Read == Envelope("r1", Worker, "workspace.read", Path(TRUE, Report))
Send == Envelope("r2", Worker, "external.send_mock",
                 [service |-> "mail", recipient |-> "a@b.test"])
Write == Envelope("r3", Worker, "workspace.write", Path(FALSE, <<".", "new">>))
Escape == Envelope("r3", Worker, "workspace.write",
                   Path(FALSE, <<"..", "..", "etc">>))
Claimed == Envelope("r1", Other, "workspace.read", Path(TRUE, Report))

Envelopes == {Read, Send, Write, Escape, Claimed, Unparsed}

Rule(action, prefix, gate) ==
  [principal |-> "*", action |-> action, resource_prefix |-> prefix,
   decision |-> "ALLOW", approval_required |-> gate,
   expiry_limit_seconds |-> 60]

Package(version, rules) ==
  [version |-> version, rules |-> rules, signed |-> TRUE,
   audit_required |-> TRUE, min_runtime_version |-> "1", covers_now |-> TRUE]

-----------------------------------------------------------------------------
(* Lexical by what it means: a name stays when, from it on, the ".." never *)
(* outnumber the names.  TLC compares the two on every short path, and     *)
(* finds that a resolved path, which the tools resolve once more before    *)
(* they open the file (tools.rs, workspace_file), stays what it is.        *)
Parts == {".", "..", "a", "b"}
ShortPaths == UNION {[1..n -> Parts] : n \in 0..5}

Stays(path, i) ==
  /\ path[i] \notin {".", ".."}
  /\ \A j \in i..Len(path) :
       Cardinality({k \in i..j : path[k] = ".."})
         <= Cardinality({k \in (i + 1)..j : path[k] \notin {".", ".."}})

Staying(path) ==
  LET kept == SetToSortSeq({i \in DOMAIN path : Stays(path, i)}, <)
  IN  [k \in DOMAIN kept |-> path[kept[k]]]

ASSUME LexicalMeans ==
  \A path \in ShortPaths :
    Lexical(path) = Staying(path) /\ Lexical(Lexical(path)) = Lexical(path)

-----------------------------------------------------------------------------
(* Under the second, reading is gated, mail meets two rules that disagree. *)
Bundles ==
  {Package("v1", <<Rule("workspace.read", [path_prefix |-> WorkspaceRoot],
                        FALSE),
                   Rule("external.send_mock", NoPrefix, TRUE)>>),
   Package("v2", <<Rule("workspace.read", NoPrefix, TRUE),
                   Rule("external.send_mock", [service |-> "mail"], FALSE),
                   Rule("external.send_mock", NoPrefix, TRUE)>>),
   Package("v3", <<Rule("workspace.read", NoPrefix, FALSE)>>)}
=============================================================================
