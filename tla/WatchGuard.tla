----------------------------- MODULE WatchGuard -----------------------------
(***************************************************************************)
(* The external kill authority (rust/src/watchguard.rs) and the host's     *)
(* link to it, with the runtime's spawn_worker, kill_worker and            *)
(* attach_guard.  The guard is a process of its own: it holds the worker's *)
(* pid, serves one connection at a time, and kills the worker when no      *)
(* heartbeat came for Idle ticks.  The link sends one authenticated frame  *)
(* at a time and waits for the reply.  The worker runs in a job that dies  *)
(* with the host, and with the handle a respawn or a kill drops.           *)
(*                                                                         *)
(* Time advances in ticks of the link's period (0.5 s by default), and     *)
(* only when no step is due: the guard's monitor (0.1 s), a reply on a     *)
(* healthy connection and a link whose timer ran out all act within a      *)
(* tick.  A hung host is never due.  No pid is ever used twice.            *)
(***************************************************************************)
EXTENDS Naturals

CONSTANTS
  Idle,        \* the guard's idle timeout, in ticks (default 3 s: 6)
  CloseTicks,  \* how long both ends linger in graceful_close (3 s: 6)
  Respawns,    \* TRUE: a host may spawn a second worker
  MaxHosts, MaxSpawns,                         \* bounds on processes started
  MaxHangs, MaxBreaks, MaxGuardDeaths, MaxKills  \* bounds on faults

ASSUME GuardAssumption ==
  /\ Idle \in Nat \ {0} /\ CloseTicks \in Nat \ {0} /\ Respawns \in BOOLEAN
  /\ {MaxHosts, MaxSpawns, MaxHangs, MaxBreaks, MaxGuardDeaths,
      MaxKills} \subseteq Nat

NoPid == 0
Pids == 0 .. MaxSpawns

VARIABLES
  guard,  \* GuardState, and whether the process lives; age: ticks since
          \* last_heartbeat
  srv,    \* the guard's connection: its phase, and polled: it has checked
          \* `triggered` and reads the next frame
  req,    \* the frame in flight to the guard, with the pid it registers
  rep,    \* the reply in flight to the link
  link,   \* LinkState, the link thread's place `at` and its timer `wait`
  host,   \* the host process: up, hung, its watchdog's suspended; killing: a
          \* kill_worker waits for the guard, then ends the process itself
  worker, \* the worker process that runs, NoPid for none
  left,   \* bounds: processes and faults still allowed
  calm,   \* history: no process died or hung, no kill was asked for, no
          \* registration was interrupted, and `lost` stayed below Idle
  lost    \* history: connections lost since the guard last reset its clock

history == <<calm, lost>>
vars == <<guard, srv, req, rep, link, host, worker, left, history>>
wire == <<srv, req, rep>>

FreshGuard == [up |-> TRUE, registered |-> FALSE, pid |-> NoPid,
               triggered |-> FALSE, age |-> 0]

FreshLink == [at |-> "wait", wait |-> 0, pid |-> NoPid, registered |-> FALSE,
              connected |-> FALSE, ever |-> FALSE, triggered |-> FALSE,
              failed |-> FALSE]

NoHost == [up |-> FALSE, hung |-> FALSE, suspended |-> FALSE,
           killing |-> FALSE]

Frame(type) ==
  [type |-> type, pid |-> IF type = "register" THEN link.pid ELSE NoPid]

NoFrame == [type |-> "none", pid |-> NoPid]

Phase(p) == [phase |-> p, polled |-> FALSE]

Init ==
  /\ guard = FreshGuard
  /\ srv = Phase("none") /\ req = NoFrame /\ rep = "none"
  /\ link = [FreshLink EXCEPT !.at = "stopped"]
  /\ host = NoHost
  /\ worker = NoPid
  /\ left = [hosts |-> MaxHosts, spawns |-> MaxSpawns, hangs |-> MaxHangs,
             breaks |-> MaxBreaks, deaths |-> MaxGuardDeaths,
             kills |-> MaxKills]
  /\ calm = TRUE /\ lost = 0

Running == host.up /\ ~host.hung

-----------------------------------------------------------------------------
(* The guard process.                                                      *)

(* kill_pid of the pid it holds; the operating system's kill works.        *)
AfterKill(pid) == IF worker = pid THEN NoPid ELSE worker

(* The head of handle_connection's loop looks at `triggered`; the frame    *)
(* read after it is handled without looking again.  A read that times out  *)
(* goes back to the head.                                                  *)
GuardPolls ==
  /\ guard.up /\ srv.phase \in {"hello", "guard"}
  /\ \/ ~srv.polled /\ ~guard.triggered
     \/ srv.polled /\ guard.triggered /\ req = NoFrame
  /\ srv' = [srv EXCEPT !.polled = ~@]
  /\ UNCHANGED <<guard, req, rep, link, host, worker, left, history>>

(* A triggered guard says so unasked and closes, in the clear when no      *)
(* session was set up.                                                     *)
GuardTriggered ==
  /\ guard.up /\ guard.triggered
  /\ srv.phase \in {"hello", "guard"} /\ ~srv.polled /\ rep = "none"
  /\ rep' = IF srv.phase = "guard" THEN "triggered" ELSE "clear"
  /\ srv' = Phase("closing") /\ req' = NoFrame
  /\ UNCHANGED <<guard, link, host, worker, left, history>>

GuardHandles(phase, frame) ==
  /\ guard.up /\ srv = [phase |-> phase, polled |-> TRUE]
  /\ req.type = frame /\ req' = NoFrame
  /\ UNCHANGED <<link, host, left, calm>>

GuardHello ==
  /\ GuardHandles("hello", "hello")
  /\ guard' = [guard EXCEPT !.age = 0] /\ lost' = 0
  /\ srv' = Phase("guard") /\ rep' = "ok"
  /\ UNCHANGED worker

GuardRegister ==
  /\ GuardHandles("guard", "register")
  /\ IF guard.registered
     THEN rep' = "error" /\ srv' = Phase("closing") /\ UNCHANGED <<guard, lost>>
     ELSE /\ rep' = "ok" /\ srv' = Phase("guard") /\ lost' = 0
          /\ guard' = [guard EXCEPT !.registered = TRUE, !.pid = req.pid,
                                    !.age = 0]
  /\ UNCHANGED worker

GuardHeartbeatIgnored ==  \* mutant: a heartbeat does not reset the clock
  /\ GuardHandles("guard", "heartbeat")
  /\ srv' = Phase("guard") /\ rep' = "ok"
  /\ UNCHANGED <<guard, worker, lost>>

GuardHeartbeat ==
  /\ GuardHandles("guard", "heartbeat")
  /\ guard' = [guard EXCEPT !.age = 0] /\ lost' = 0
  /\ srv' = Phase("guard") /\ rep' = "ok"
  /\ UNCHANGED worker

GuardTerminateTakesPid ==  \* mutant: the pid is taken out of the state
  /\ GuardHandles("guard", "terminate")
  /\ guard' = [guard EXCEPT !.triggered = TRUE, !.pid = NoPid]
  /\ worker' = AfterKill(guard.pid)
  /\ rep' = "triggered" /\ srv' = Phase("closing") /\ UNCHANGED lost

GuardTerminate ==
  /\ GuardHandles("guard", "terminate")
  /\ guard' = [guard EXCEPT !.triggered = TRUE]
  /\ worker' = AfterKill(guard.pid)
  /\ rep' = "triggered" /\ srv' = Phase("closing") /\ UNCHANGED lost

(* maybe_trigger, every 0.1 s.                                             *)
OverdueNever == FALSE  \* mutant: the monitor never fires

Overdue == guard.registered /\ ~guard.triggered /\ guard.age > Idle

MonitorTriggers ==
  /\ guard.up /\ Overdue
  /\ guard' = [guard EXCEPT !.triggered = TRUE]
  /\ worker' = AfterKill(guard.pid)
  /\ UNCHANGED <<wire, link, host, left, history>>

(* The host's socket is gone: the connection slot is free again.           *)
GuardSeesClosed ==
  /\ guard.up /\ srv.phase # "none" /\ ~host.up
  /\ srv' = Phase("none") /\ req' = NoFrame /\ rep' = "none"
  /\ UNCHANGED <<guard, link, host, worker, left, history>>

GuardStep == \/ GuardPolls \/ GuardTriggered \/ GuardHello \/ GuardRegister
             \/ GuardHeartbeat \/ GuardTerminate \/ MonitorTriggers
             \/ GuardSeesClosed

-----------------------------------------------------------------------------
(* The link thread.                                                        *)

(* record_error: `failed` latches once a session was ever set up.          *)
LostUnlatched(l) == [l EXCEPT !.connected = FALSE]  \* mutant

Lost(l) == [l EXCEPT !.connected = FALSE, !.failed = @ \/ l.ever]

(* set_triggered: latches even on a link that never had a session.         *)
Triggered(l) == [l EXCEPT !.connected = FALSE, !.triggered = TRUE,
                          !.failed = TRUE]

(* The link becomes l; the hook attach_guard installed suspends the worker *)
(* when `failed` is latched.                                               *)
Becomes(l) ==
  /\ link' = l
  /\ host' = [host EXCEPT !.suspended = @ \/ (l.failed /\ ~link.failed)]

(* disconnect: graceful_close first, record_error only after it.           *)
Linger == Becomes([link EXCEPT !.connected = FALSE, !.at = "closing",
                               !.wait = CloseTicks])

Retry(l) == [l EXCEPT !.at = "wait", !.wait = 1]

Await(place) ==
  /\ Running /\ link.at = place
  /\ UNCHANGED <<guard, left, history>>

ReadsReply(place) ==
  /\ Await(place) /\ rep # "none" /\ rep' = "none"
  /\ UNCHANGED req

(* connect: refused when the guard is down or busy with another connection.*)
LinkRefused ==
  /\ Await("wait") /\ link.wait = 0 /\ ~link.triggered
  /\ ~guard.up \/ srv.phase # "none"
  /\ Becomes(Retry(Lost(link)))
  /\ UNCHANGED <<wire, worker>>

LinkConnect ==
  /\ Await("wait") /\ link.wait = 0 /\ ~link.triggered
  /\ guard.up /\ srv.phase = "none"
  /\ srv' = Phase("hello") /\ req' = Frame("hello") /\ rep' = "none"
  /\ Becomes([link EXCEPT !.at = "hello"])
  /\ UNCHANGED worker

(* A refused hello drops the socket without lingering.                     *)
LinkHelloReply ==
  /\ ReadsReply("hello")
  /\ IF rep = "ok"
     THEN /\ Becomes([link EXCEPT !.at = "pump", !.wait = 0,
                                  !.connected = TRUE, !.ever = TRUE])
          /\ UNCHANGED srv
     ELSE Becomes(Retry(Lost(link))) /\ srv' = Phase("none")
  /\ UNCHANGED worker

(* One round of pump: register first if a pid is known, then a heartbeat.  *)
LinkRegister ==
  /\ Await("pump") /\ link.wait = 0 /\ link.pid # NoPid /\ ~link.registered
  /\ req' = Frame("register") /\ Becomes([link EXCEPT !.at = "register"])
  /\ UNCHANGED <<srv, rep, worker>>

LinkRegisterReply ==
  /\ ReadsReply("register")
  /\ IF rep = "ok"
     THEN Becomes([link EXCEPT !.at = "pump", !.registered = TRUE])
     ELSE Linger
  /\ UNCHANGED <<srv, worker>>

LinkHeartbeat ==
  /\ Await("pump") /\ link.wait = 0 /\ (link.pid = NoPid \/ link.registered)
  /\ req' = Frame("heartbeat") /\ Becomes([link EXCEPT !.at = "beat"])
  /\ UNCHANGED <<srv, rep, worker>>

LinkHeartbeatReply ==
  /\ ReadsReply("beat")
  /\ \/ rep = "ok" /\ Becomes([link EXCEPT !.at = "pump", !.wait = 1])
     \/ rep = "triggered" /\ Becomes([Triggered(link) EXCEPT !.at = "closing",
                                                    !.wait = CloseTicks])
     \/ rep \notin {"ok", "triggered"} /\ Linger
  /\ UNCHANGED <<srv, worker>>

(* The connection was lost under the link.  A guard that is closing still  *)
(* drains its socket, so both ends linger.                                 *)
LinkSeesClosed ==
  /\ Await(link.at) /\ link.at \in {"hello", "register", "beat"}
  /\ rep = "none" /\ srv.phase \in {"none", "closing"}
  /\ IF srv.phase = "closing" THEN Linger ELSE Becomes(Retry(Lost(link)))
  /\ req' = NoFrame
  /\ UNCHANGED <<srv, rep, worker>>

(* graceful_close is over; run_link records the error unless the guard     *)
(* triggered, which ends the thread.                                       *)
LinkClosed ==
  /\ Await("closing") /\ link.wait = 0
  /\ Becomes(IF link.triggered THEN [link EXCEPT !.at = "stopped"]
             ELSE Retry(Lost(link)))
  /\ srv' = Phase("none") /\ req' = NoFrame /\ rep' = "none"
  /\ UNCHANGED worker

(* terminate reads its answer, or fails to; kill_worker then drops the      *)
(* worker's job if it was asked to end the process.                        *)
LinkTerminateReply ==
  /\ Await("term")
  /\ rep # "none" \/ srv.phase \in {"none", "closing"}
  /\ rep' = "none" /\ req' = NoFrame
  /\ link' = [CASE rep = "triggered" -> Triggered(link)
                [] rep = "none" -> Lost(link)
                [] OTHER -> link
              EXCEPT !.at = "pump"]
  /\ host' = [host EXCEPT !.killing = FALSE]
  /\ worker' = IF host.killing THEN NoPid ELSE worker
  /\ UNCHANGED srv

LinkStep == \/ LinkRefused \/ LinkConnect \/ LinkHelloReply \/ LinkRegister
            \/ LinkRegisterReply \/ LinkHeartbeat \/ LinkHeartbeatReply
            \/ LinkSeesClosed \/ LinkClosed \/ LinkTerminateReply

-----------------------------------------------------------------------------
(* The host process.                                                       *)

(* VossRuntime::open and attach_guard.                                     *)
StartHost ==
  /\ ~host.up /\ left.hosts > 0 /\ srv.phase = "none"
  /\ host' = [NoHost EXCEPT !.up = TRUE]
  /\ link' = FreshLink
  /\ left' = [left EXCEPT !.hosts = @ - 1]
  /\ UNCHANGED <<guard, wire, worker, history>>

SpawnWorkerUnannounced ==  \* mutant: register_worker is not called
  /\ Running /\ left.spawns > 0
  /\ link.pid = NoPid \/ Respawns
  /\ worker' = MaxSpawns + 1 - left.spawns
  /\ left' = [left EXCEPT !.spawns = @ - 1]
  /\ UNCHANGED <<guard, wire, link, host, history>>

(* spawn_worker: dropping the previous job ends the previous worker, and   *)
(* register_worker only stores the new pid for the link.                   *)
SpawnWorker ==
  /\ Running /\ left.spawns > 0
  /\ link.pid = NoPid \/ Respawns
  /\ worker' = MaxSpawns + 1 - left.spawns
  /\ link' = [link EXCEPT !.pid = worker']
  /\ left' = [left EXCEPT !.spawns = @ - 1]
  /\ UNCHANGED <<guard, wire, host, history>>

(* kill_worker(reason, end): suspend first, then the directive if the link *)
(* has a socket and is between two exchanges, then the process.            *)
KillWorker(end) ==
  /\ Running /\ left.kills > 0
  /\ link.at \notin {"register", "beat", "term"}
  /\ IF link.at = "pump"
     THEN /\ req' = Frame("terminate") /\ link' = [link EXCEPT !.at = "term"]
          /\ host' = [host EXCEPT !.suspended = TRUE, !.killing = end]
          /\ UNCHANGED worker
     ELSE /\ host' = [host EXCEPT !.suspended = TRUE]
          /\ worker' = IF end THEN NoPid ELSE worker
          /\ UNCHANGED <<req, link>>
  /\ left' = [left EXCEPT !.kills = @ - 1]
  /\ calm' = FALSE /\ UNCHANGED lost
  /\ UNCHANGED <<guard, srv, rep>>

(* The job's last handle closes with the process.                          *)
HostCrashes ==
  /\ host.up
  /\ host' = NoHost
  /\ link' = [FreshLink EXCEPT !.at = "stopped"]
  /\ worker' = NoPid
  /\ calm' = FALSE /\ UNCHANGED lost
  /\ UNCHANGED <<guard, wire, left>>

Hang ==
  /\ Running /\ left.hangs > 0
  /\ host' = [host EXCEPT !.hung = TRUE]
  /\ left' = [left EXCEPT !.hangs = @ - 1]
  /\ calm' = FALSE /\ UNCHANGED lost
  /\ UNCHANGED <<guard, wire, link, worker>>

Resume ==
  /\ host.hung
  /\ host' = [host EXCEPT !.hung = FALSE]
  /\ UNCHANGED <<guard, wire, link, worker, left, history>>

-----------------------------------------------------------------------------
(* The rest of the world.                                                  *)

Cut == srv' = Phase("none") /\ req' = NoFrame /\ rep' = "none"

(* The connection breaks under both ends, and costs the link a tick of its *)
(* period: Idle of them before the guard hears of it again are a reason to *)
(* fire.  So is the loss of the answer to a registration, which the guard  *)
(* refuses when the link repeats it.                                       *)
Break ==
  /\ left.breaks > 0 /\ srv.phase \in {"hello", "guard"}
  /\ Cut
  /\ left' = [left EXCEPT !.breaks = @ - 1]
  /\ lost' = lost + 1
  /\ calm' = (calm /\ link.at # "register" /\ lost' < Idle)
  /\ UNCHANGED <<guard, link, host, worker>>

GuardDies ==
  /\ guard.up /\ left.deaths > 0
  /\ guard' = [FreshGuard EXCEPT !.up = FALSE]
  /\ Cut
  /\ left' = [left EXCEPT !.deaths = @ - 1]
  /\ calm' = FALSE /\ UNCHANGED lost
  /\ UNCHANGED <<link, host, worker>>

GuardRestarts ==
  /\ ~guard.up
  /\ guard' = FreshGuard
  /\ UNCHANGED <<wire, link, host, worker, left, history>>

(* When a step of the guard, or of the link, can be taken.                 *)
GuardDue ==
  /\ guard.up
  /\ \/ Overdue
     \/ srv.phase # "none" /\ ~host.up
     \/ /\ srv.phase \in {"hello", "guard"}
        /\ IF srv.polled
           THEN \/ guard.triggered /\ req = NoFrame
                \/ IF srv.phase = "hello" THEN req.type = "hello"
                   ELSE req.type \in {"register", "heartbeat", "terminate"}
           ELSE guard.triggered => rep = "none"

LinkDue ==
  /\ Running
  /\ \/ link.at = "wait" /\ link.wait = 0 /\ ~link.triggered
     \/ link.at \in {"pump", "closing"} /\ link.wait = 0
     \/ /\ link.at \in {"hello", "register", "beat", "term"}
        /\ rep # "none" \/ srv.phase \in {"none", "closing"}

Due == GuardDue \/ LinkDue

Tick ==
  /\ ~Due
  /\ guard' = [guard EXCEPT !.age = IF @ > Idle THEN @ ELSE @ + 1]
  /\ link' = [link EXCEPT !.wait = IF Running /\ @ > 0 THEN @ - 1 ELSE @]
  /\ UNCHANGED <<wire, host, worker, left, history>>

Next ==
  \/ GuardStep \/ LinkStep
  \/ StartHost \/ SpawnWorker \/ (\E end \in BOOLEAN : KillWorker(end))
  \/ HostCrashes \/ Hang \/ Resume \/ Break \/ GuardDies \/ GuardRestarts
  \/ Tick

Spec == Init /\ [][Next]_vars

(* Both processes' threads keep going while they run, and time passes.     *)
FairSpec ==
  Spec /\ WF_vars(GuardStep) /\ WF_vars(LinkStep) /\ WF_vars(Tick)

-----------------------------------------------------------------------------
TypeOK ==
  /\ guard \in [up : BOOLEAN, registered : BOOLEAN, pid : Pids,
                triggered : BOOLEAN, age : 0 .. Idle + 1]
  /\ guard.registered <=> guard.pid # NoPid
  /\ srv \in [phase : {"none", "hello", "guard", "closing"}, polled : BOOLEAN]
  /\ req \in [type : {"none", "hello", "register", "heartbeat", "terminate"},
              pid : Pids]
  /\ rep \in {"none", "ok", "error", "triggered", "clear"}
  /\ link \in [at : {"wait", "hello", "pump", "register", "beat", "term",
                     "closing", "stopped"},
               wait : 0 .. CloseTicks, pid : Pids, registered : BOOLEAN,
               connected : BOOLEAN, ever : BOOLEAN, triggered : BOOLEAN,
               failed : BOOLEAN]
  /\ host \in [up : BOOLEAN, hung : BOOLEAN, suspended : BOOLEAN,
               killing : BOOLEAN]
  /\ worker \in Pids /\ calm \in BOOLEAN /\ lost \in Nat

(* A worker is never killed without cause: while no process dies or hangs, *)
(* nobody asks for a kill, the registration is not cut short and no Idle   *)
(* connections are lost in a row, the guard does not fire, however often   *)
(* the connection is lost and set up again.                                *)
NoFalseKill == calm => ~guard.triggered

(* "The guard holds the worker pid": a host that keeps serving a worker     *)
(* over a link that had a session gets that worker's pid to the guard.     *)
Serving == Running /\ link.ever /\ ~host.suspended

GuardHoldsWorker ==
  \A w \in 1 .. MaxSpawns :
    worker = w /\ Serving ~> guard.pid = w \/ worker # w \/ ~Serving

(* A worker whose host hangs for good after registering it does not run    *)
(* for good, unless the guard itself dies: the host cannot do it.          *)
HungWorkerIsKilled ==
  worker # NoPid /\ guard.pid = worker /\ host.hung
    ~> worker = NoPid \/ ~host.hung \/ ~guard.up

(* A host that had a session and lost its guard, dead or triggered, stops  *)
(* serving its worker.                                                     *)
LostGuardSuspends ==
  Running /\ link.ever /\ (~guard.up \/ guard.triggered)
    ~> ~Running \/ host.suspended
=============================================================================
