----------------------------- MODULE DurableLog -----------------------------
(***************************************************************************)
(* What the users of a ledger rely on: an append that reports success has  *)
(* landed and stays; one that fails, or is cut off by a crash, either      *)
(* landed or left nothing, and closes the log until it is opened again;    *)
(* opening brings back exactly the records that landed and is never        *)
(* refused.  Broker.tla's WalEmit is this contract.                        *)
(***************************************************************************)
EXTENDS Naturals, Sequences

VARIABLES
  log,     \* the records a reader sees
  acked,   \* the records whose append reported success
  live,    \* appends are accepted
  refused, \* the log cannot be opened
  damaged  \* the contract is void: the file was left unreadable in places

vars == <<log, acked, live, refused, damaged>>

Init ==
  /\ log = <<>> /\ acked = {} /\ live = FALSE
  /\ refused = FALSE /\ damaged = FALSE

Land(r) ==
  live /\ live' = TRUE /\ log' = Append(log, r) /\ acked' = acked \union {r}

CutOff(r) ==
  live /\ live' = FALSE /\ log' = Append(log, r) /\ UNCHANGED acked

Close == live' = FALSE /\ UNCHANGED <<log, acked>>

Open == ~live /\ live' = TRUE /\ UNCHANGED <<log, acked>>

(* A step that grows the log grows it by the record it ends with.          *)
Grow ==
  /\ Len(log') = Len(log) + 1
  /\ \E r \in {log'[Len(log')]} : Land(r) \/ CutOff(r)

Next ==
  \/ damaged' = FALSE /\ refused' = FALSE /\ (Grow \/ Close \/ Open)
  \/ damaged' = TRUE

Spec == Init /\ [][Next]_vars
=============================================================================
