------------------------------- MODULE Mirror -------------------------------
(***************************************************************************)
(* What the audit relay promises: a second copy of the host's audit log,   *)
(* kept by another process, that misses nothing and invents nothing.  A    *)
(* record is under way to the store only when every record before it in    *)
(* the log is there; it enters the store once, and stays there when the    *)
(* host loses the end of its own log, be it while the record is under way. *)
(***************************************************************************)
EXTENDS Naturals, Sequences, SequencesExt

CONSTANT None

VARIABLES
  log,     \* the records a reader of the host's audit log gets
  flight,  \* the record under way, or None
  store,   \* the records in the relay's store
  closed   \* the store refuses records

vars == <<log, flight, store, closed>>

Init == log = <<>> /\ flight = None /\ store = <<>> /\ closed = FALSE

(* The host appends records of its own, or loses the end of its log.       *)
HostStep ==
  /\ IsPrefix(log, log') \/ IsPrefix(log', log)
  /\ UNCHANGED <<flight, store, closed>>

Send ==
  /\ \E i \in DOMAIN log :
       /\ \A j \in 1..(i - 1) : log[j] \in ToSet(store)
       /\ flight' = log[i]
  /\ UNCHANGED <<log, store, closed>>

(* A store that cannot tell how its last append ended closes with it.      *)
Store ==
  /\ ~closed /\ flight # None /\ flight \notin ToSet(store)
  /\ store' = Append(store, flight)
  /\ flight' = None /\ closed' \in BOOLEAN /\ UNCHANGED log

(* The record was stored before, or it is lost and sent again later.       *)
Drop == flight' = None /\ closed' \in BOOLEAN /\ UNCHANGED <<log, store>>

Next == HostStep \/ Send \/ Store \/ Drop

Spec == Init /\ [][Next]_vars
=============================================================================
