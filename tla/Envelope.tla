------------------------------ MODULE Envelope ------------------------------
(***************************************************************************)
(* The request normalizer (rust/src/protocol.rs).  An envelope is a record *)
(* of the fields it has; a path is a sequence of components.  Symbolic     *)
(* links, letter case and the text of identifiers are left out.            *)
(***************************************************************************)
EXTENDS Naturals, Sequences, SequencesExt

CONSTANTS
  Root,            \* the workspace, a path
  Files, Folders,  \* the paths that exist
  Identifiers,     \* the strings identifier_ok accepts
  MockAddresses    \* the strings mock_email accepts

AllowedFields == {"version", "request_id", "session_id", "principal", "action",
                  "resource", "payload", "constraints"}

Workspace == {"workspace.read", "workspace.write"}

(* normalize_lexical: "." goes, ".." takes the component before it along.  *)
Lexical(path) ==
  LET Step(out, part) ==
        CASE part = "."  -> out
          [] part = ".." -> IF out = <<>> THEN out ELSE Front(out)
          [] OTHER       -> Append(out, part)
  IN  FoldLeft(Step, <<>>, path)

(* A relative path starts at the workspace.                                *)
Resolved(path) ==
  Lexical(IF path.absolute THEN path.parts ELSE Root \o path.parts)

Contained(path) == IsPrefix(Root, path)

ValidPath(action, path) ==
  /\ path.parts # <<>> /\ Contained(Resolved(path))
  /\ IF action = "workspace.read" THEN Resolved(path) \in Files
     ELSE Resolved(path) \notin Folders

ValidResource(action, resource) ==
  \/ /\ action \in Workspace /\ DOMAIN resource = {"path"}
     /\ ValidPath(action, resource.path)
  \/ /\ action = "external.send_mock"
     /\ DOMAIN resource = {"service", "recipient"}
     /\ resource.service = "mail" /\ resource.recipient \in MockAddresses

ValidConstraints(action, constraints) ==
  \/ /\ action \in Workspace /\ DOMAIN constraints \subseteq {"size_max"}
     /\ \A key \in DOMAIN constraints : constraints[key] \in 1..1000000
  \/ /\ action = "external.send_mock"
     /\ DOMAIN constraints \subseteq {"send_once"}
     /\ \A key \in DOMAIN constraints : constraints[key] = TRUE

(* Every check fails the same way, so their order does not show.           *)
Normalizes(envelope, principal) ==
  /\ DOMAIN envelope = AllowedFields
  /\ envelope.version = "1"
  /\ {envelope.request_id, envelope.session_id, envelope.principal}
       \subseteq Identifiers
  /\ envelope.principal = principal
  /\ ValidResource(envelope.action, envelope.resource)
  /\ ValidConstraints(envelope.action, envelope.constraints)

(* The canonical request: the path is resolved, the rest is kept.          *)
Canonical(envelope) ==
  [envelope EXCEPT !.resource =
     IF envelope.action \in Workspace
     THEN [path |-> Resolved(envelope.resource.path)]
     ELSE envelope.resource]
=============================================================================
