-------------------------------- MODULE Relay --------------------------------
(***************************************************************************)
(* The audit relay (rust/src/relay.rs): a client thread in the host tails  *)
(* the audit log and sends each record to a separate process, which keeps  *)
(* its own chained copy.                                                   *)
(*                                                                         *)
(* The server speaks to one client at a time, and the client sends its     *)
(* next record only when the one before is acknowledged, so `wire` holds   *)
(* at most one frame.  Frames are authenticated and numbered per session   *)
(* on a connection that keeps their order: between these two processes     *)
(* those checks fail only when the server loses its place in the stream,   *)
(* which is `aligned`.  The three rounds of the handshake change nothing   *)
(* that outlives the session and are one step.                             *)
(***************************************************************************)
EXTENDS Naturals, Sequences, SequencesExt, FiniteSets

CONSTANTS
  CutParts,     \* what a cut-off append leaves, of "torn", "bare", "whole"
  MaxRecords,   \* bound: records the host emits
  MaxHostCrashes, MaxRelayCrashes,
  MaxFaults     \* bound: failed appends, stalls and timeouts

ASSUME RelayAssumption ==
  /\ CutParts \subseteq {"torn", "bare", "whole"}
  /\ {MaxRecords, MaxHostCrashes, MaxRelayCrashes, MaxFaults} \subseteq Nat

VARIABLES
  host,         \* "up", "down", or "refused": its audit log does not open
  log,          \* the complete lines of audit.jsonl; Garbage does not parse
  tail,         \* the last, incomplete line: "none", "begun", "bare", "joined"
  emitted,      \* records emitted so far; the last one's id
  pc,           \* the client thread: "idle", "wait", "tail", "send", "ack"
  cursor,       \* ClientState.cursor, in lines
  next,         \* the line of the batch that is sent next
  violation,    \* ClientState.violation is set
  stage,        \* of stop(): "no", "joining", "pass", "drained", "failed"
  wire,         \* the record frame in transit
  answer,       \* the reply in transit: "none", "ack" or "violation"
  conn,         \* the server's connection: "none", "open", "left" by the
                \* client, or "closing": graceful_close discards what arrives
  aligned,      \* the server reads at a frame boundary
  up,           \* a relay process is running
  ids,          \* ServerState.ids
  compromised,  \* ServerState.compromised
  file,         \* relay-audit.jsonl: a sequence of pieces, as in Ledger
  hostCrashes, relayCrashes, faults,
  cause         \* history: an append was cut off or failed, or the
                \* server lost its place in the stream

hostVars   == <<host, log, tail, emitted, hostCrashes>>
clientVars == <<pc, cursor, next, violation, stage>>
wireVars   == <<wire, answer>>
storeVars  == <<ids, compromised, file, cause>>
serverVars == <<conn, aligned, up, relayCrashes, storeVars>>
vars == <<hostVars, clientVars, wireVars, serverVars, faults>>

Garbage   == 0
Records   == 1..MaxRecords
NoFrame   == [rec |-> Garbage, part |-> "none"]
InSession == {"tail", "send", "ack"}

Fault == faults < MaxFaults /\ faults' = faults + 1

-----------------------------------------------------------------------------
Init ==
  /\ host = "up" /\ log = <<>> /\ tail = "none" /\ emitted = 0
  /\ pc = "idle" /\ cursor = 0 /\ next = 1
  /\ violation = FALSE /\ stage = "no"
  /\ wire = NoFrame /\ answer = "none"
  /\ conn = "none" /\ aligned = TRUE /\ up = TRUE
  /\ ids = {} /\ compromised = FALSE /\ file = <<>>
  /\ hostCrashes = 0 /\ relayCrashes = 0 /\ faults = 0 /\ cause = FALSE

-----------------------------------------------------------------------------
(* The host.  A reader sees the first bytes of a record before its last.   *)
(* After a crash the audit log is not trimmed: a record that lacks only    *)
(* its newline is continued by the next one, and what is less than that    *)
(* keeps the host from opening the log.                                    *)
BeginEmit ==
  /\ host = "up" /\ stage = "no"
  /\ tail \in {"none", "bare"} /\ emitted < MaxRecords
  /\ emitted' = emitted + 1
  /\ tail' = IF tail = "none" THEN "begun" ELSE "joined"
  /\ UNCHANGED <<host, log, hostCrashes, clientVars, wireVars, serverVars,
                 faults>>

EndEmit ==
  /\ host = "up" /\ tail \in {"begun", "joined"}
  /\ log' = Append(log, IF tail = "begun" THEN emitted ELSE Garbage)
  /\ tail' = "none"
  /\ UNCHANGED <<host, emitted, hostCrashes, clientVars, wireVars, serverVars,
                 faults>>

LeavesOpen == UNCHANGED conn  \* mutant: the stream is kept after its session

Leaves == conn' = IF conn = "open" THEN "left" ELSE conn

(* The end of the log that was flushed but not synced can be lost too.     *)
HostDies ==
  /\ host = "up" /\ hostCrashes < MaxHostCrashes
  /\ hostCrashes' = hostCrashes + 1 /\ host' = "down"
  /\ \/ tail' \in (IF tail = "begun" THEN {"begun", "bare"} ELSE {tail})
        /\ UNCHANGED log
     \/ tail' = "none" /\ \E n \in 0..Len(log) : log' = SubSeq(log, 1, n)
  /\ pc' = "idle" /\ cursor' = 0 /\ next' = 1
  /\ violation' = FALSE /\ stage' = "no"
  /\ Leaves /\ answer' = "none"
  /\ UNCHANGED <<emitted, wire, aligned, up, relayCrashes, storeVars, faults>>

HostRestart ==
  /\ host = "down"
  /\ host' = IF tail \in {"begun", "joined"} \/ Garbage \in ToSet(log)
             THEN "refused" ELSE "up"
  /\ UNCHANGED <<log, tail, emitted, hostCrashes, clientVars, wireVars,
                 serverVars, faults>>

-----------------------------------------------------------------------------
(* The client.  A session that ends leaves the server what was written.    *)
SessionEnds(after) ==
  /\ pc' = "idle" /\ answer' = "none"
  /\ stage' = IF stage = "pass" THEN after ELSE stage

(* client_loop notes the first violation and goes on.                      *)
SessionFails(isViolation) ==
  /\ SessionEnds("failed")
  /\ violation' = (violation \/ (isViolation /\ stage # "pass"))

Connect ==
  /\ host = "up" /\ pc = "idle" /\ stage \in {"no", "pass"} /\ up
  /\ pc' = "wait"
  /\ UNCHANGED <<hostVars, cursor, next, violation, stage, wireVars,
                 serverVars, faults>>

(* Nothing bounds how often client_loop tries again; stop() tries once.    *)
CannotConnect ==
  /\ host = "up" /\ pc = "idle" /\ stage = "pass" /\ ~up
  /\ stage' = "failed"
  /\ UNCHANGED <<hostVars, pc, cursor, next, violation, wireVars, serverVars,
                 faults>>

(* A read that times out, for the challenge or for an acknowledgement.     *)
TimesOut ==
  /\ host = "up" /\ pc \in {"wait", "ack"} /\ Fault
  /\ SessionFails(FALSE) /\ Leaves
  /\ UNCHANGED <<hostVars, cursor, next, wire, aligned, up, relayCrashes,
                 storeVars>>

(* tail_once: the complete lines from the cursor on.  The stop flag counts *)
(* when the batch is sent.                                                 *)
BatchDone ==
  IF stage = "no"
  THEN pc' = "tail" /\ answer' = "none" /\ UNCHANGED <<conn, stage>>
  ELSE SessionEnds("drained") /\ Leaves

TailsIncomplete ==  \* mutant: the cursor passes an incomplete line alone
  /\ host = "up" /\ pc = "tail"
  /\ cursor' = Len(log) + (IF cursor = Len(log) /\ tail # "none" THEN 1 ELSE 0)
  /\ next' = cursor + 1
  /\ IF cursor < Len(log) THEN pc' = "send" /\ UNCHANGED <<answer, conn, stage>>
     ELSE BatchDone
  /\ UNCHANGED <<hostVars, violation, wire, aligned, up, relayCrashes,
                 storeVars, faults>>

TailOnce ==
  /\ host = "up" /\ pc = "tail"
  /\ cursor' = Len(log) /\ next' = cursor + 1
  /\ IF cursor < Len(log) THEN pc' = "send" /\ UNCHANGED <<answer, conn, stage>>
     ELSE BatchDone
  /\ UNCHANGED <<hostVars, violation, wire, aligned, up, relayCrashes,
                 storeVars, faults>>

(* A frame normally arrives as one; a host that stalls has written half.   *)
Send ==
  /\ host = "up" /\ pc = "send" /\ log[next] # Garbage
  /\ pc' = "ack"
  /\ \/ wire' = [rec |-> log[next], part |-> "full"] /\ UNCHANGED faults
     \/ wire' = [rec |-> log[next], part |-> "half"] /\ Fault
  /\ UNCHANGED <<hostVars, cursor, next, violation, stage, answer, serverVars>>

SendRest ==
  /\ host = "up" /\ pc = "ack" /\ wire.part = "half" /\ conn = "open"
  /\ wire' = [wire EXCEPT !.part = "full"]
  /\ UNCHANGED <<hostVars, clientVars, answer, serverVars, faults>>

(* A line that does not parse ends the session, and every later one there. *)
SendGarbage ==
  /\ host = "up" /\ pc = "send" /\ log[next] = Garbage
  /\ SessionFails(TRUE) /\ Leaves
  /\ UNCHANGED <<hostVars, cursor, next, wire, aligned, up, relayCrashes,
                 storeVars, faults>>

ReadAck ==
  /\ host = "up" /\ pc = "ack" /\ answer = "ack"
  /\ next' = next + 1
  /\ IF next < cursor
     THEN pc' = "send" /\ answer' = "none" /\ UNCHANGED <<conn, stage>>
     ELSE BatchDone
  /\ UNCHANGED <<hostVars, cursor, violation, wire, aligned, up,
                 relayCrashes, storeVars, faults>>

ReadViolation ==
  /\ host = "up" /\ pc = "ack" /\ answer = "violation"
  /\ SessionFails(TRUE) /\ Leaves
  /\ UNCHANGED <<hostVars, cursor, next, wire, aligned, up, relayCrashes,
                 storeVars, faults>>

Stop ==
  /\ host = "up" /\ stage = "no" /\ tail # "begun" /\ tail # "joined"
  /\ stage' = "joining"
  /\ UNCHANGED <<hostVars, pc, cursor, next, violation, wireVars, serverVars,
                 faults>>

JoinsOnly ==  \* mutant: stop() waits for the thread and runs no last session
  /\ host = "up" /\ stage = "joining" /\ pc = "idle"
  /\ stage' = IF violation THEN "failed" ELSE "drained"
  /\ UNCHANGED <<hostVars, pc, cursor, next, violation, wireVars, serverVars,
                 faults>>

(* The thread has ended; a last session drains unless one was violated.    *)
Join ==
  /\ host = "up" /\ stage = "joining" /\ pc = "idle"
  /\ stage' = IF violation THEN "failed" ELSE "pass"
  /\ UNCHANGED <<hostVars, pc, cursor, next, violation, wireVars, serverVars,
                 faults>>
-----------------------------------------------------------------------------
(* The store as load_store reads it: a line parses if it is one piece,     *)
(* whole, or bare at the end of the file.                                  *)
Loadable ==
  \A i \in DOMAIN file :
    /\ i < Len(file) => file[i].part = "whole"
    /\ file[i].part # "torn"

(* The records whose bytes are in the file.  A piece that is torn is none; *)
(* only the last can be, for nothing is appended after it.  What follows a *)
(* bare piece shares its line: both are there, but load_store refuses the  *)
(* file (Loadable).                                                        *)
Stored ==
  LET torn == file # <<>> /\ file[Len(file)].part = "torn"
  IN  [i \in 1..(IF torn THEN Len(file) - 1 ELSE Len(file)) |-> file[i].rec]

Piece(part) == Append(file, [rec |-> wire.rec, part |-> part])

(* The session in which the server gives up, or dies, ends for the client. *)
Dropped == IF pc \in InSession THEN SessionFails(FALSE)
           ELSE UNCHANGED <<pc, violation, stage>>

AcceptKeepsCursor ==  \* mutant: a new session goes on where the last one was
  /\ up /\ conn = "none" /\ pc = "wait" /\ host = "up"
  /\ IF compromised
     THEN SessionFails(TRUE) /\ UNCHANGED <<cursor, next, conn>>
     ELSE /\ conn' = "open" /\ pc' = "tail"
          /\ UNCHANGED <<cursor, next, violation, stage, answer>>
  /\ aligned' = TRUE /\ wire' = NoFrame
  /\ UNCHANGED <<hostVars, up, relayCrashes, storeVars, faults>>

(* A compromised store refuses the session in answer to the hello.         *)
Accept ==
  /\ up /\ conn = "none" /\ pc = "wait" /\ host = "up"
  /\ IF compromised
     THEN SessionFails(TRUE) /\ UNCHANGED <<cursor, next, conn>>
     ELSE /\ conn' = "open" /\ pc' = "tail" /\ cursor' = 0 /\ next' = 1
          /\ UNCHANGED <<violation, stage, answer>>
  /\ aligned' = TRUE /\ wire' = NoFrame
  /\ UNCHANGED <<hostVars, up, relayCrashes, storeVars, faults>>

Arrived == up /\ conn \in {"open", "left"} /\ aligned /\ wire.part = "full"

Answer(a) == answer' = IF conn = "open" THEN a ELSE "none"

Known == wire.rec \in ids

IngestDuplicate ==
  /\ Arrived /\ Known
  /\ wire' = NoFrame /\ Answer("ack")
  /\ UNCHANGED <<hostVars, clientVars, serverVars, faults>>

Ingest ==
  /\ Arrived /\ ~Known
  /\ ids' = ids \union {wire.rec} /\ file' = Piece("whole")
  /\ wire' = NoFrame /\ Answer("ack")
  /\ UNCHANGED <<hostVars, clientVars, conn, aligned, up, relayCrashes,
                 compromised, cause, faults>>

Cuts == {file} \union {Piece(part) : part \in CutParts}

(* violate_session: the store refuses every session of this process.       *)
Violate ==
  /\ compromised' = TRUE
  /\ conn' = IF conn = "open" THEN "closing" ELSE "none"
  /\ wire' = NoFrame /\ Answer("violation")

IngestFails ==
  /\ Arrived /\ ~Known /\ Fault
  /\ ids' = ids \union {wire.rec} /\ file' \in Cuts /\ cause' = TRUE
  /\ Violate
  /\ UNCHANGED <<hostVars, clientVars, aligned, up, relayCrashes>>

(* A read timeout in the middle of a frame drops the half that was read.   *)
LosesPlace ==
  /\ up /\ conn = "open" /\ aligned /\ wire.part = "half"
  /\ aligned' = FALSE /\ cause' = TRUE
  /\ UNCHANGED <<hostVars, clientVars, wireVars, conn, up, relayCrashes, ids,
                 compromised, file, faults>>

ReadsGarbage ==
  /\ up /\ conn \in {"open", "left"} /\ ~aligned /\ wire.part = "full"
  /\ Violate
  /\ UNCHANGED <<hostVars, clientVars, aligned, up, relayCrashes, ids, file,
                 cause, faults>>

ReadsClosedPoisons ==  \* mutant: a frame cut off by a host's death violates
  /\ up /\ conn = "left" /\ wire.part # "full"
  /\ conn' = "none" /\ wire' = NoFrame
  /\ compromised' = (compromised \/ wire.part = "half")
  /\ UNCHANGED <<hostVars, clientVars, answer, aligned, up, relayCrashes, ids,
                 file, cause, faults>>

(* The end of the stream is no violation, wherever it comes.               *)
ReadsClosed ==
  /\ up /\ conn = "left" /\ wire.part # "full"
  /\ conn' = "none" /\ wire' = NoFrame
  /\ UNCHANGED <<hostVars, clientVars, answer, aligned, up, relayCrashes,
                 storeVars, faults>>

(* Eight read timeouts in a row.                                           *)
IdleClose ==
  /\ up /\ conn = "open" /\ wire.part # "full" /\ answer = "none" /\ Fault
  /\ conn' = "closing"
  /\ UNCHANGED <<hostVars, clientVars, wireVars, aligned, up, relayCrashes,
                 storeVars>>

Closed ==
  /\ up /\ conn = "closing" /\ answer = "none"
  /\ Dropped
  /\ conn' = "none" /\ wire' = NoFrame /\ answer' = "none"
  /\ UNCHANGED <<hostVars, cursor, next, aligned, up, relayCrashes, storeVars,
                 faults>>

(* The relay process dies, perhaps in the middle of its append.            *)
RelayDies ==
  /\ up /\ relayCrashes < MaxRelayCrashes
  /\ relayCrashes' = relayCrashes + 1 /\ up' = FALSE
  /\ \/ UNCHANGED <<file, cause>>
     \/ Arrived /\ ~Known /\ file' \in Cuts /\ cause' = TRUE
  /\ IF pc = "idle" THEN UNCHANGED <<pc, violation, stage>>
     ELSE SessionFails(FALSE)
  /\ conn' = "none" /\ wire' = NoFrame /\ answer' = "none"
  /\ ids' = {} /\ compromised' = FALSE
  /\ UNCHANGED <<hostVars, cursor, next, aligned, faults>>

(* bind verifies the chain on disk; what is not there is not remembered.   *)
RelayRestart ==
  /\ ~up /\ up' = TRUE
  /\ compromised' = ~Loadable
  /\ ids' = IF Loadable THEN ToSet(Stored) ELSE {}
  /\ UNCHANGED <<hostVars, clientVars, wireVars, conn, aligned, relayCrashes,
                 file, cause, faults>>

-----------------------------------------------------------------------------
Host == BeginEmit \/ EndEmit \/ HostDies \/ HostRestart

Client ==
  \/ Connect \/ CannotConnect \/ TimesOut \/ TailOnce \/ Send \/ SendRest
  \/ SendGarbage \/ ReadAck \/ ReadViolation \/ Stop \/ Join

Server ==
  \/ Accept \/ IngestDuplicate \/ Ingest \/ IngestFails \/ LosesPlace
  \/ ReadsGarbage \/ ReadsClosed \/ IdleClose \/ Closed

Next == Host \/ Client \/ Server \/ RelayDies \/ RelayRestart

Spec == Init /\ [][Next]_vars

(* Threads that can run do; somebody starts a relay that died.  Nothing    *)
(* makes a timeout, a failure, a stop or a crash happen.                   *)
FairSpec ==
  /\ Spec
  /\ WF_vars(EndEmit)
  /\ WF_vars(Connect) /\ WF_vars(TailOnce) /\ WF_vars(Send) /\ WF_vars(SendRest)
  /\ WF_vars(ReadAck) /\ WF_vars(ReadViolation)
  /\ WF_vars(Accept) /\ WF_vars(IngestDuplicate) /\ WF_vars(Ingest)
  /\ WF_vars(ReadsGarbage) /\ WF_vars(ReadsClosed) /\ WF_vars(Closed)
  /\ WF_vars(RelayRestart)

-----------------------------------------------------------------------------
(* Every variable keeps to its kind; a connection that is open has a       *)
(* client in its session; nothing is appended after a torn piece.          *)
TypeOK ==
  /\ host \in {"up", "down", "refused"}
  /\ log \in Seq(Records \union {Garbage}) /\ emitted \in 0..MaxRecords
  /\ tail \in {"none", "begun", "bare", "joined"}
  /\ pc \in {"idle", "wait", "tail", "send", "ack"}
  /\ cursor \in Nat /\ next \in Nat
  /\ stage \in {"no", "joining", "pass", "drained", "failed"}
  /\ wire.part \in {"none", "half", "full"}
  /\ answer \in {"none", "ack", "violation"}
  /\ conn \in {"none", "open", "left", "closing"}
  /\ {violation, aligned, up, compromised, cause} \subseteq BOOLEAN
  /\ ids \subseteq Records
  /\ conn = "open" => pc \in InSession
  /\ pc = "send" => next \in 1..cursor
  /\ \A i \in DOMAIN file : file[i].part = "torn" => i = Len(file)

(* The relay refuses its host only after an append of its own was cut off  *)
(* or failed, or after it lost its place in the stream: a host that dies   *)
(* in the middle of a frame, a timeout, a record sent again and the        *)
(* relay's own restart never close the store (serve_loop, load_store).     *)
PoisonHasCause == compromised => cause

(* What stop() reports without an error is stored to the last record that  *)
(* was in the log when it was called.                                      *)
StoppedIsDrained == stage = "drained" => ToSet(log) \subseteq ToSet(Stored)

(* The relay's store is a mirror of the host's log: each record once, in   *)
(* order, none skipped, none forgotten by a crash of either process.       *)
Readable ==
  LET end == SelectInSeq(log, LAMBDA r : r = Garbage)
  IN  IF end = 0 THEN log ELSE SubSeq(log, 1, end - 1)

Promise ==
  INSTANCE Mirror WITH log <- Readable, flight <- wire.rec, store <- Stored,
                       closed <- compromised, None <- Garbage

ImplementsMirror == Promise!Spec

(* If from some time on the host runs, its log parses and the relay does   *)
(* not refuse it, every record of the log reaches the relay's store.       *)
Served ==
  host = "up" /\ stage = "no" /\ ~compromised /\ Garbage \notin ToSet(log)

Mirrored == <>[]Served => <>[](ToSet(log) \subseteq ToSet(Stored))
=============================================================================
