-------------------------- MODULE WatchGuardProofs --------------------------
(***************************************************************************)
(* Theorems about WatchGuard, for every idle timeout and linger, any       *)
(* number of hosts, workers and faults: the types; and the guard does not  *)
(* fire without cause.                                                     *)
(***************************************************************************)
EXTENDS WatchGuard, TLAPS

USE DEF vars, wire, history, Phase, NoFrame

Guards == [up : BOOLEAN, registered : BOOLEAN, pid : Pids,
           triggered : BOOLEAN, age : 0 .. Idle + 1]
Srvs   == [phase : {"none", "hello", "guard", "closing"}, polled : BOOLEAN]
Frames == [type : {"none", "hello", "register", "heartbeat", "terminate"},
           pid : Pids]
Reps   == {"none", "ok", "error", "triggered", "clear"}
Links  == [at : {"wait", "hello", "pump", "register", "beat", "term",
                 "closing", "stopped"},
           wait : 0 .. CloseTicks, pid : Pids, registered : BOOLEAN,
           connected : BOOLEAN, ever : BOOLEAN, triggered : BOOLEAN,
           failed : BOOLEAN]
Hosts  == [up : BOOLEAN, hung : BOOLEAN, suspended : BOOLEAN,
           killing : BOOLEAN]
Lefts  == [hosts : Nat, spawns : 0..MaxSpawns, hangs : Nat,
           breaks : 0..MaxBreaks, deaths : Nat, kills : Nat]

(* What is left to spend is within its bounds; a registration in flight    *)
(* names a worker.                                                         *)
TypeInv ==
  /\ guard \in Guards /\ srv \in Srvs /\ req \in Frames /\ rep \in Reps
  /\ link \in Links /\ host \in Hosts /\ worker \in Pids /\ calm \in BOOLEAN
  /\ left \in Lefts /\ lost \in Nat
  /\ guard.registered <=> guard.pid # NoPid
  /\ req.type = "register" => req.pid # NoPid

LEMMA ConstantsTyped ==
  /\ Idle \in Nat /\ Idle # 0 /\ CloseTicks \in Nat /\ CloseTicks # 0
  /\ MaxSpawns \in Nat /\ MaxBreaks \in Nat
  /\ {MaxHosts, MaxHangs, MaxGuardDeaths, MaxKills} \subseteq Nat
  /\ {0, 1, CloseTicks} \subseteq 0..CloseTicks /\ 0 \in 0..(Idle + 1)
  /\ NoPid \in Pids /\ \A n \in 1..MaxSpawns : n \in Pids /\ n # NoPid
BY GuardAssumption DEF Pids, NoPid

LEMMA FreshTyped ==
  /\ FreshGuard \in Guards /\ [FreshGuard EXCEPT !.up = FALSE] \in Guards
  /\ FreshLink \in Links /\ [FreshLink EXCEPT !.at = "stopped"] \in Links
  /\ NoHost \in Hosts /\ [NoHost EXCEPT !.up = TRUE] \in Hosts
  /\ NoFrame \in Frames /\ Phase("none") \in Srvs
  /\ ~FreshGuard.registered /\ FreshGuard.pid = NoPid
  /\ ~[FreshGuard EXCEPT !.up = FALSE].registered
  /\ [FreshGuard EXCEPT !.up = FALSE].pid = NoPid
BY ConstantsTyped
   DEF Guards, Links, Hosts, Frames, Srvs, FreshGuard, FreshLink, NoHost

LEMMA TypeInit == Init => TypeInv
<1> SUFFICES ASSUME Init PROVE TypeInv
  OBVIOUS
<1>1. left \in Lefts
  BY ConstantsTyped DEF Init, Lefts
<1> QED BY <1>1, FreshTyped, ConstantsTyped DEF Init, TypeInv, Reps

(* The guard's record: it is registered when it holds a pid.               *)
LEMMA GuardTyped ==
  ASSUME TypeInv, [Next]_vars
  PROVE  guard' \in Guards /\ (guard'.registered <=> guard'.pid # NoPid)
<1>0. /\ guard \in Guards /\ req \in Frames
      /\ guard.registered <=> guard.pid # NoPid
      /\ req.type = "register" => req.pid # NoPid
  BY DEF TypeInv
<1>1. CASE guard' = guard
  BY <1>0, <1>1
<1>2. CASE GuardHello \/ GuardHeartbeat
  <2>1. guard' = [guard EXCEPT !.age = 0]
    BY <1>2 DEF GuardHello, GuardHeartbeat
  <2> QED BY <1>0, <2>1, ConstantsTyped DEF Guards
<1>3. CASE GuardRegister
  <2>1. \/ guard' = guard
        \/ /\ guard' = [guard EXCEPT !.registered = TRUE, !.pid = req.pid,
                                     !.age = 0]
           /\ req.type = "register"
    BY <1>3 DEF GuardRegister, GuardHandles
  <2> QED BY <1>0, <2>1, ConstantsTyped DEF Guards, Frames
<1>4. CASE GuardTerminate \/ MonitorTriggers
  <2>1. guard' = [guard EXCEPT !.triggered = TRUE]
    BY <1>4 DEF GuardTerminate, MonitorTriggers
  <2> QED BY <1>0, <2>1 DEF Guards
<1>5. CASE GuardDies \/ GuardRestarts
  BY <1>5, FreshTyped DEF GuardDies, GuardRestarts
<1>6. CASE Tick
  <2>1. PICK age \in 0..(Idle + 1) : age = guard.age
    BY <1>0 DEF Guards
  <2>2. guard' = [guard EXCEPT !.age = IF age > Idle THEN age ELSE age + 1]
    BY <1>6, <2>1 DEF Tick
  <2>3. (IF age > Idle THEN age ELSE age + 1) \in 0..(Idle + 1)
    BY ConstantsTyped
  <2> QED BY <1>0, <2>2, <2>3 DEF Guards
<1>7. \/ guard' = guard \/ GuardHello \/ GuardHeartbeat \/ GuardRegister
      \/ GuardTerminate \/ MonitorTriggers \/ GuardDies \/ GuardRestarts
      \/ Tick
  <2>1. CASE LinkStep
    BY <2>1 DEF LinkStep, LinkRefused, LinkConnect, LinkHelloReply,
       LinkRegister, LinkRegisterReply, LinkHeartbeat, LinkHeartbeatReply,
       LinkSeesClosed, LinkClosed, LinkTerminateReply, ReadsReply, Await
  <2>2. CASE GuardPolls \/ GuardTriggered \/ GuardSeesClosed \/ UNCHANGED vars
    BY <2>2 DEF GuardPolls, GuardTriggered, GuardSeesClosed
  <2>3. CASE \/ StartHost \/ SpawnWorker
             \/ (\E end \in BOOLEAN : KillWorker(end)) \/ HostCrashes
             \/ Hang \/ Resume \/ Break
    BY <2>3 DEF StartHost, SpawnWorker, KillWorker, HostCrashes, Hang,
       Resume, Break
  <2> QED BY <2>1, <2>2, <2>3 DEF Next, GuardStep
<1> QED BY <1>1, <1>2, <1>3, <1>4, <1>5, <1>6, <1>7


(* The connection and the frames on it.                                    *)
LEMMA WireTyped ==
  ASSUME TypeInv, [Next]_vars
  PROVE  /\ srv' \in Srvs /\ req' \in Frames /\ rep' \in Reps
         /\ req'.type = "register" => req'.pid # NoPid
<1>0. /\ srv \in Srvs /\ req \in Frames /\ rep \in Reps /\ link.pid \in Pids
      /\ req.type = "register" => req.pid # NoPid
  BY DEF TypeInv, Links
<1>1. CASE GuardPolls
  BY <1>0, <1>1 DEF GuardPolls, Srvs
<1>2. CASE /\ srv' \in {srv, Phase("none"), Phase("guard"), Phase("closing"),
                        Phase("hello")}
           /\ req' \in {req, NoFrame, Frame("hello"), Frame("heartbeat"),
                        Frame("terminate"), Frame("register")}
           /\ rep' \in Reps
           /\ req' = Frame("register") => link.pid # NoPid
  <2>1. srv' \in Srvs
    <3>1. \A p \in {"none", "hello", "guard", "closing"} : Phase(p) \in Srvs
      BY DEF Srvs
    <3> HIDE DEF Phase
    <3>2. srv' \in {srv, Phase("none"), Phase("guard"), Phase("closing"),
                    Phase("hello")}
      BY <1>2 DEF Phase
    <3> QED BY <1>0, <3>1, <3>2
  <2>2. /\ Frame("hello") = [type |-> "hello", pid |-> NoPid]
        /\ Frame("heartbeat") = [type |-> "heartbeat", pid |-> NoPid]
        /\ Frame("terminate") = [type |-> "terminate", pid |-> NoPid]
        /\ Frame("register") = [type |-> "register", pid |-> link.pid]
    BY DEF Frame
  <2>3. req' \in Frames /\ (req'.type = "register" => req'.pid # NoPid)
    <3>1. CASE req' \in {req, NoFrame, Frame("hello"), Frame("heartbeat"),
                         Frame("terminate")}
      BY <1>0, <2>2, <3>1, ConstantsTyped DEF Frames
    <3>2. CASE req' = Frame("register")
      <4>1. link.pid \in Pids /\ link.pid # NoPid
        BY <1>0, <1>2, <3>2
      <4>2. req' = [type |-> "register", pid |-> link.pid]
        BY <2>2, <3>2
      <4> QED BY <4>1, <4>2 DEF Frames
    <3> QED BY <1>2, <3>1, <3>2
  <2> QED BY <1>2, <2>1, <2>3
<1>3. CASE GuardStep
  BY <1>0, <1>1, <1>2, <1>3
     DEF GuardStep, GuardTriggered, GuardHandles, GuardHello, GuardRegister,
         GuardHeartbeat, GuardTerminate, MonitorTriggers, GuardSeesClosed, Reps,
         Frame
<1>4. CASE LinkStep
  BY <1>0, <1>2, <1>4
     DEF LinkStep, LinkRefused, LinkConnect, LinkHelloReply, LinkRegister,
         LinkRegisterReply, LinkHeartbeat, LinkHeartbeatReply, LinkSeesClosed,
         LinkClosed, LinkTerminateReply, ReadsReply, Await, Reps, Frame
<1>5. CASE Break \/ GuardDies
  BY <1>0, <1>2, <1>5 DEF Break, GuardDies, Cut, Reps, Frame
<1>6. ASSUME NEW end \in BOOLEAN, KillWorker(end)
      PROVE  /\ srv' \in Srvs /\ req' \in Frames /\ rep' \in Reps
             /\ req'.type = "register" => req'.pid # NoPid
  <2>1. srv' = srv /\ rep' = rep /\ req' \in {req, Frame("terminate")}
    BY <1>6 DEF KillWorker
  <2>2. Frame("terminate") # Frame("register")
    BY DEF Frame
  <2>3. req' = Frame("register") => link.pid # NoPid
    BY <1>0, <2>1, <2>2 DEF Frame
  <2> QED BY <1>0, <1>2, <2>1, <2>3
<1>7. CASE \/ StartHost \/ SpawnWorker \/ HostCrashes \/ Hang \/ Resume
           \/ GuardRestarts \/ Tick \/ UNCHANGED vars
  <2>1. srv' = srv /\ req' = req /\ rep' = rep
    BY <1>7 DEF StartHost, SpawnWorker, HostCrashes, Hang, Resume,
                GuardRestarts, Tick
  <2> QED BY <1>0, <2>1
<1> QED BY <1>3, <1>4, <1>5, <1>6, <1>7 DEF Next


(* What a step makes of the link's record.                                 *)
LEMMA LinkRecords ==
  ASSUME NEW l \in Links, NEW at \in {"wait", "hello", "pump", "register",
                                      "beat", "term", "closing", "stopped"},
         NEW w \in 0..CloseTicks
  PROVE  /\ Lost(l) \in Links /\ Triggered(l) \in Links
         /\ [l EXCEPT !.at = at] \in Links
         /\ [l EXCEPT !.wait = w] \in Links
         /\ [l EXCEPT !.at = at, !.wait = w] \in Links
         /\ [l EXCEPT !.at = at, !.wait = w, !.connected = TRUE,
                      !.ever = TRUE] \in Links
         /\ [l EXCEPT !.connected = FALSE, !.at = at, !.wait = w] \in Links
         /\ [l EXCEPT !.at = at, !.registered = TRUE] \in Links
BY DEF Links, Lost, Triggered

LEMMA LinkTyped ==
  ASSUME TypeInv, [Next]_vars
  PROVE  link' \in Links
<1>0. /\ link \in Links /\ left.spawns \in 0..MaxSpawns
      /\ {0, 1, CloseTicks} \subseteq 0..CloseTicks
  BY ConstantsTyped DEF TypeInv, Lefts
<1>1. CASE \/ GuardStep \/ (Hang \/ Resume \/ Break \/ GuardDies)
           \/ GuardRestarts \/ UNCHANGED vars
  <2>1. link' = link
    BY <1>1 DEF GuardStep, GuardPolls, GuardTriggered, GuardHandles, GuardHello,
       GuardRegister, GuardHeartbeat, GuardTerminate, MonitorTriggers,
       GuardSeesClosed, Hang, Resume, Break, GuardDies, GuardRestarts
  <2> QED BY <1>0, <2>1
<1>c. /\ \A l \in Links : Retry(l) \in Links
      /\ Lost(link) \in Links
      /\ \A at \in {"hello", "register", "beat", "stopped"} :
           [link EXCEPT !.at = at] \in Links
      /\ [link EXCEPT !.connected = FALSE, !.at = "closing",
                      !.wait = CloseTicks] \in Links
      /\ [Triggered(link) EXCEPT !.at = "closing",
                                 !.wait = CloseTicks] \in Links
      /\ [link EXCEPT !.at = "pump", !.wait = 0, !.connected = TRUE,
                      !.ever = TRUE] \in Links
      /\ [link EXCEPT !.at = "pump", !.registered = TRUE] \in Links
      /\ [link EXCEPT !.at = "pump", !.wait = 1] \in Links
  BY <1>0, LinkRecords DEF Retry
<1>2. CASE \/ LinkRefused \/ LinkConnect \/ LinkRegister \/ LinkHeartbeat
           \/ LinkClosed
  <2>1. \/ link' = Retry(Lost(link))
        \/ \E at \in {"hello", "register", "beat", "stopped"} :
             link' = [link EXCEPT !.at = at]
    BY <1>2 DEF LinkRefused, LinkConnect, LinkRegister, LinkHeartbeat,
       LinkClosed, Becomes
  <2> QED BY <1>c, <2>1
<1>4. CASE LinkHelloReply
  <2>1. \/ link' = Retry(Lost(link))
        \/ link' = [link EXCEPT !.at = "pump", !.wait = 0, !.connected = TRUE,
                                !.ever = TRUE]
    BY <1>4 DEF LinkHelloReply, Becomes
  <2> QED BY <1>c, <2>1
<1>6. CASE LinkRegisterReply
  <2>1. \/ link' = [link EXCEPT !.at = "pump", !.registered = TRUE]
        \/ link' = [link EXCEPT !.connected = FALSE, !.at = "closing",
                                !.wait = CloseTicks]
    BY <1>6 DEF LinkRegisterReply, Becomes, Linger
  <2> QED BY <1>c, <2>1
<1>7. CASE LinkHeartbeatReply \/ LinkSeesClosed
  <2>1. \/ link' = [link EXCEPT !.at = "pump", !.wait = 1]
        \/ link' = [Triggered(link) EXCEPT !.at = "closing",
                                           !.wait = CloseTicks]
        \/ link' = [link EXCEPT !.connected = FALSE, !.at = "closing",
                                !.wait = CloseTicks]
        \/ link' = Retry(Lost(link))
    BY <1>7 DEF LinkHeartbeatReply, LinkSeesClosed, Becomes, Linger
  <2> QED BY <1>c, <2>1
<1>10. CASE LinkTerminateReply
  <2>1. PICK l \in {link, Lost(link), Triggered(link)} :
               link' = [l EXCEPT !.at = "pump"]
    BY <1>10 DEF LinkTerminateReply
  <2>2. l \in Links
    BY <1>0, <2>1, LinkRecords
  <2> QED BY <2>1, <2>2, LinkRecords, <1>0
<1>11. CASE StartHost \/ HostCrashes
  BY <1>11, FreshTyped DEF StartHost, HostCrashes
<1>12. CASE SpawnWorker
  <2>1. link' = [link EXCEPT !.pid = MaxSpawns + 1 - left.spawns]
    BY <1>12 DEF SpawnWorker
  <2>2. left.spawns > 0
    BY <1>12 DEF SpawnWorker
  <2>3. MaxSpawns + 1 - left.spawns \in Pids
    BY <1>0, <2>2, ConstantsTyped DEF Pids
  <2> QED BY <1>0, <2>1, <2>3 DEF Links
<1>13. ASSUME NEW end \in BOOLEAN, KillWorker(end)
       PROVE  link' \in Links
  <2>1. link' = link \/ link' = [link EXCEPT !.at = "term"]
    BY <1>13 DEF KillWorker
  <2> QED BY <1>0, <2>1, LinkRecords
<1>14. CASE Tick
  <2>1. PICK w \in 0..CloseTicks : w = link.wait
    BY <1>0 DEF Links
  <2> DEFINE v == IF Running /\ w > 0 THEN w - 1 ELSE w
  <2>2. link' = [link EXCEPT !.wait = v]
    BY <1>14, <2>1 DEF Tick
  <2>3. v \in 0..CloseTicks
    BY ConstantsTyped
  <2> HIDE DEF v
  <2> QED BY <1>0, <2>2, <2>3 DEF Links
<1> QED BY <1>1, <1>2, <1>4, <1>6, <1>7, <1>10, <1>11,
           <1>12, <1>13, <1>14 DEF Next, LinkStep

LEMMA HostTyped ==
  ASSUME TypeInv, [Next]_vars
  PROVE  host' \in Hosts
<1>0. /\ host \in Hosts /\ link \in Links
      /\ \A l \in Links : l.failed \in BOOLEAN
  BY DEF TypeInv, Links
<1>2. \A b \in BOOLEAN : /\ [host EXCEPT !.suspended = b] \in Hosts
                         /\ [host EXCEPT !.killing = b] \in Hosts
                         /\ [host EXCEPT !.hung = b] \in Hosts
                         /\ [host EXCEPT !.suspended = TRUE, !.killing = b]
                              \in Hosts
  BY <1>0 DEF Hosts
<1>3. CASE LinkTerminateReply
  BY <1>2, <1>3 DEF LinkTerminateReply
<1>4. CASE Hang \/ Resume
  BY <1>2, <1>4 DEF Hang, Resume
<1>5. CASE StartHost \/ HostCrashes
  BY <1>5, FreshTyped DEF StartHost, HostCrashes
<1>6. ASSUME NEW end \in BOOLEAN, KillWorker(end)
       PROVE  host' \in Hosts
  BY <1>2, <1>6 DEF KillWorker
<1>7. ASSUME NEW l, Becomes(l)
      PROVE  host' \in Hosts
  <2> DEFINE fails == host.suspended \/ (l.failed /\ ~link.failed)
  <2>1. host' = [host EXCEPT !.suspended = fails]
    BY <1>7 DEF Becomes
  <2>2. fails \in BOOLEAN
    OBVIOUS
  <2> HIDE DEF fails
  <2> QED BY <1>2, <2>1, <2>2
<1>8. CASE LinkStep
  BY <1>3, <1>7, <1>8
     DEF LinkStep, LinkRefused, LinkConnect, LinkHelloReply, LinkRegister,
         LinkRegisterReply, LinkHeartbeat, LinkHeartbeatReply, LinkSeesClosed,
         LinkClosed, Linger
<1>9. CASE \/ GuardStep \/ (SpawnWorker \/ Break \/ GuardDies)
           \/ GuardRestarts \/ Tick \/ UNCHANGED vars
  <2>1. host' = host
    BY <1>9 DEF GuardStep, GuardPolls, GuardTriggered, GuardHandles, GuardHello,
       GuardRegister, GuardHeartbeat, GuardTerminate, MonitorTriggers,
       GuardSeesClosed, SpawnWorker, Break, GuardDies, GuardRestarts, Tick
  <2> QED BY <1>0, <2>1
<1> QED BY <1>4, <1>5, <1>6, <1>8, <1>9 DEF Next

(* The worker, what is left to spend, and the history.                     *)
LEMMA RestTyped ==
  ASSUME TypeInv, [Next]_vars
  PROVE  /\ worker' \in Pids /\ left' \in Lefts /\ calm' \in BOOLEAN
         /\ lost' \in Nat
<1>0. /\ worker \in Pids /\ left \in Lefts /\ calm \in BOOLEAN /\ NoPid \in Pids
      /\ lost \in Nat /\ lost + 1 \in Nat /\ 0 \in Nat
  BY ConstantsTyped DEF TypeInv
<1>1. CASE GuardStep
  <2>1. /\ left' = left /\ calm' = calm /\ lost' \in {0, lost}
        /\ worker' = worker \/ \E pid : worker' = AfterKill(pid)
    BY <1>1 DEF GuardStep, GuardPolls, GuardTriggered, GuardHandles, GuardHello,
       GuardRegister, GuardHeartbeat, GuardTerminate, MonitorTriggers,
       GuardSeesClosed
  <2> QED BY <1>0, <2>1 DEF AfterKill
<1>2. CASE LinkStep
  <2>1. /\ left' = left /\ calm' = calm /\ lost' = lost
        /\ worker' = worker \/ worker' = NoPid
    BY <1>2 DEF LinkStep, LinkRefused, LinkConnect, LinkHelloReply,
         LinkRegister, LinkRegisterReply, LinkHeartbeat, LinkHeartbeatReply,
         LinkSeesClosed, LinkClosed, LinkTerminateReply, ReadsReply, Await
  <2> QED BY <1>0, <2>1
<1>3. ASSUME left' = left \/ \E f \in {"hosts", "hangs", "breaks", "deaths",
                                       "kills", "spawns"} :
                     left[f] > 0 /\ left' = [left EXCEPT ![f] = @ - 1]
      PROVE  left' \in Lefts
  <2>1. CASE left' = left
    BY <1>0, <2>1
  <2>2. ASSUME NEW f \in {"hosts", "hangs", "deaths", "kills"},
               left[f] > 0, left' = [left EXCEPT ![f] = left[f] - 1]
        PROVE  left' \in Lefts
    <3>1. PICK n \in Nat : n = left[f] /\ n > 0
      BY <1>0, <2>2 DEF Lefts
    <3>2. n - 1 \in Nat
      BY <3>1
    <3> QED BY <1>0, <2>2, <3>1, <3>2 DEF Lefts
  <2>3. ASSUME left.spawns > 0,
               left' = [left EXCEPT !.spawns = left.spawns - 1]
        PROVE  left' \in Lefts
    <3>1. PICK n \in 0..MaxSpawns : n = left.spawns /\ n > 0
      BY <1>0, <2>3 DEF Lefts
    <3>2. n - 1 \in 0..MaxSpawns
      BY <3>1, ConstantsTyped
    <3> QED BY <1>0, <2>3, <3>1, <3>2 DEF Lefts
  <2>4. ASSUME left.breaks > 0,
               left' = [left EXCEPT !.breaks = left.breaks - 1]
        PROVE  left' \in Lefts
    <3>1. PICK n \in 0..MaxBreaks : n = left.breaks /\ n > 0
      BY <1>0, <2>4 DEF Lefts
    <3>2. n - 1 \in 0..MaxBreaks
      BY <3>1, ConstantsTyped
    <3> QED BY <1>0, <2>4, <3>1, <3>2 DEF Lefts
  <2> QED BY <1>3, <2>1, <2>2, <2>3, <2>4
<1>4. CASE SpawnWorker
  <2>1. /\ left.spawns > 0 /\ left' = [left EXCEPT !.spawns = @ - 1]
        /\ worker' = MaxSpawns + 1 - left.spawns /\ calm' = calm
        /\ lost' = lost
    BY <1>4 DEF SpawnWorker
  <2>2. left.spawns \in 0..MaxSpawns
    BY <1>0 DEF Lefts
  <2>3. worker' \in Pids
    BY <2>1, <2>2, ConstantsTyped DEF Pids
  <2> QED BY <1>0, <1>3, <2>1, <2>3
<1>5. ASSUME NEW end \in BOOLEAN, KillWorker(end)
      PROVE  /\ worker' \in Pids /\ left' \in Lefts /\ calm' \in BOOLEAN
             /\ lost' \in Nat
  <2>1. /\ left.kills > 0 /\ left' = [left EXCEPT !.kills = @ - 1]
        /\ calm' = FALSE /\ lost' = lost
        /\ (worker' = worker \/ worker' = NoPid)
    BY <1>5 DEF KillWorker
  <2> QED BY <1>0, <1>3, <2>1
<1>6. CASE Break
  <2>1. left.breaks > 0 /\ left' = [left EXCEPT !.breaks = @ - 1]
    BY <1>6 DEF Break
  <2>2. worker' = worker /\ calm' \in BOOLEAN /\ lost' = lost + 1
    BY <1>6 DEF Break
  <2> QED BY <1>0, <1>3, <2>1, <2>2
<1>7. CASE StartHost \/ Hang \/ GuardDies
  <2>1. \E f \in {"hosts", "hangs", "deaths"} :
           left[f] > 0 /\ left' = [left EXCEPT ![f] = @ - 1]
    BY <1>7 DEF StartHost, Hang, GuardDies
  <2>2. worker' = worker /\ calm' \in BOOLEAN /\ lost' = lost
    BY <1>0, <1>7 DEF StartHost, Hang, GuardDies
  <2> QED BY <1>0, <1>3, <2>1, <2>2
<1>8. CASE \/ HostCrashes \/ Resume \/ GuardRestarts \/ Tick
           \/ UNCHANGED vars
  BY <1>0, <1>8 DEF HostCrashes, Resume, GuardRestarts, Tick
<1> QED BY <1>1, <1>2, <1>4, <1>5, <1>6, <1>7, <1>8 DEF Next

LEMMA TypeStep == TypeInv /\ [Next]_vars => TypeInv'
BY GuardTyped, WireTyped, LinkTyped, HostTyped, RestTyped DEF TypeInv

(* Every state the specification reaches is typed.                         *)
THEOREM TypeCorrect == Spec => []TypeOK
<1>1. TypeInv => TypeOK
  BY DEF TypeInv, TypeOK, Guards, Srvs, Frames, Reps, Links, Hosts
<1> QED BY <1>1, TypeInit, TypeStep, PTL DEF Spec


-----------------------------------------------------------------------------
(* NoFalseKill.  While the world is calm, a registered worker's guard has  *)
(* heard from the link a short time ago.                                   *)

(* Who waits for whom on the one connection there is.                      *)
WireInv ==
  /\ srv.phase \in {"none", "hello", "guard"}
  /\ srv.phase = "none" => rep = "none"
  /\ srv.phase = "hello" =>
       link.at = "hello" /\ req.type = "hello" /\ rep = "none"
  /\ srv.phase = "guard" =>
       \/ link.at = "pump" /\ req = NoFrame /\ rep = "none"
       \/ /\ link.at \in {"hello", "register", "beat"}
          /\ req = NoFrame /\ rep = "ok"
       \/ link.at = "register" /\ req.type = "register" /\ rep = "none"
       \/ link.at = "beat" /\ req.type = "heartbeat" /\ rep = "none"
  /\ link.at = "wait" => srv.phase = "none"

(* Before the first host starts, nothing was registered.                   *)
AloneInv == ~host.up => ~guard.registered /\ srv.phase = "none"

(* The host's link goes round its loop, and knows when the guard holds its *)
(* worker, or is about to be told.                                         *)
LinkInv ==
  host.up =>
    /\ ~host.hung /\ ~link.triggered
    /\ link.at \in {"wait", "hello", "pump", "register", "beat"}
    /\ link.at = "register" => ~link.registered
    /\ link.at \notin {"wait", "pump"} => link.wait = 0
    /\ guard.registered =>
         \/ link.registered
         \/ srv.phase = "guard" /\ link.at = "register" /\ rep = "ok"

(* A break the link has yet to see: it costs one tick of waiting.          *)
Unseen == IF srv.phase = "none" /\ link.at # "wait" THEN 1 ELSE 0

(* The time since the last heartbeat, and the waiting still to come, are   *)
(* paid for by the heartbeat's period and the connections lost since.      *)
ClockInv ==
  /\ link.at = "beat" /\ rep = "ok" => guard.age = 0
  /\ guard.registered =>
       guard.age + link.wait + Unseen <= 1 + lost

Calm ==
  /\ lost < Idle /\ guard.up /\ ~guard.triggered
  /\ WireInv /\ AloneInv /\ LinkInv /\ ClockInv

CalmInv == calm => Calm

LEMMA CalmInit == Init => CalmInv
BY ConstantsTyped
   DEF Init, CalmInv, Calm, WireInv, AloneInv, LinkInv, ClockInv, Unseen,
       FreshGuard, NoHost

(* The guard answers the frame the link waits on, and never fires.         *)
LEMMA CalmGuard ==
  ASSUME TypeInv, Calm, GuardStep
  PROVE  Calm'
<1>0. /\ guard \in Guards /\ srv \in Srvs /\ lost \in Nat
      /\ guard.age \in Nat /\ link.wait \in Nat
      /\ Idle \in Nat /\ Idle > 0
  BY ConstantsTyped DEF TypeInv, Guards, Links
<1>1. ~Overdue
  <2>1. Unseen \in {0, 1}
    BY DEF Unseen
  <2>2. SUFFICES ASSUME guard.registered, guard.age > Idle
                 PROVE  FALSE
    BY DEF Overdue
  <2>3. guard.age + link.wait + Unseen <= 1 + lost /\ lost < Idle
    BY <2>2 DEF Calm, ClockInv
  <2> QED BY <1>0, <2>1, <2>2, <2>3
<1>2. CASE GuardPolls
  <2>1. srv'.phase = srv.phase
    BY <1>0, <1>2 DEF GuardPolls, Srvs
  <2> QED BY <1>2, <2>1
          DEF GuardPolls, Calm, WireInv, AloneInv, LinkInv, ClockInv, Unseen
<1>3. CASE GuardHello \/ GuardHeartbeat
  <2>1. /\ guard' = [guard EXCEPT !.age = 0]
        /\ srv'.phase = "guard" /\ rep' = "ok" /\ req' = NoFrame
        /\ link' = link /\ host' = host /\ lost' = 0
        /\ \/ srv.phase = "hello"
           \/ srv.phase = "guard" /\ req.type = "heartbeat"
    BY <1>3 DEF GuardHello, GuardHeartbeat, GuardHandles
  <2>2. /\ guard'.age = 0 /\ guard'.registered = guard.registered
        /\ guard'.up = guard.up /\ guard'.triggered = guard.triggered
    BY <1>0, <2>1 DEF Guards
  <2>3. /\ link.at \in {"hello", "beat"} /\ host.up
        /\ srv.phase # "none" /\ rep # "ok" /\ link.wait = 0
    BY <2>1 DEF Calm, WireInv, AloneInv, LinkInv
  <2>4. Unseen' = 0
    BY <2>1, <2>3 DEF Unseen
  <2>5. ClockInv'
    BY <2>1, <2>2, <2>3, <2>4 DEF ClockInv
  <2> QED BY <1>0, <2>1, <2>2, <2>3, <2>5 DEF Calm, WireInv, AloneInv, LinkInv
<1>4. CASE GuardRegister
  <2>1. /\ srv.phase = "guard" /\ req.type = "register" /\ req' = NoFrame
        /\ link' = link /\ host' = host
    BY <1>4 DEF GuardRegister, GuardHandles
  <2>2. link.at = "register" /\ rep = "none" /\ host.up
    BY <2>1 DEF Calm, WireInv, AloneInv
  <2>3. ~guard.registered /\ link.wait = 0
    BY <2>2 DEF Calm, LinkInv
  <2>4. /\ rep' = "ok" /\ srv'.phase = "guard" /\ lost' = 0
        /\ guard'.up = guard.up /\ guard'.triggered = guard.triggered
        /\ guard'.age = 0
    <3>1. /\ rep' = "ok" /\ srv' = Phase("guard") /\ lost' = 0
          /\ guard' = [guard EXCEPT !.registered = TRUE, !.pid = req.pid,
                                    !.age = 0]
      BY <1>4, <2>3 DEF GuardRegister
    <3> QED BY <1>0, <3>1 DEF Guards
  <2>5. Unseen' = 0
    BY <2>4 DEF Unseen
  <2>6. ClockInv'
    BY <1>0, <2>1, <2>2, <2>3, <2>4, <2>5 DEF ClockInv
  <2> QED BY <1>0, <2>1, <2>2, <2>4, <2>6 DEF Calm, WireInv, AloneInv, LinkInv
<1>5. ~GuardTriggered /\ ~GuardTerminate /\ ~MonitorTriggers
      /\ ~GuardSeesClosed
  BY <1>1 DEF GuardTriggered, GuardTerminate, GuardHandles, MonitorTriggers,
              GuardSeesClosed, Calm, WireInv, AloneInv
<1> QED BY <1>2, <1>3, <1>4, <1>5 DEF GuardStep

(* The link goes round: it is refused, lingers and hears of a trigger only *)
(* when the world is not calm.                                             *)
LEMMA CalmLink ==
  ASSUME TypeInv, Calm, LinkStep
  PROVE  Calm'
<1>0. /\ link \in Links /\ lost \in Nat
      /\ guard.age \in Nat /\ link.wait \in Nat
  BY DEF TypeInv, Guards, Links
<1>1. /\ Running /\ guard' = guard /\ lost' = lost
  BY DEF LinkStep, LinkRefused, LinkConnect, LinkHelloReply,
         LinkRegister, LinkRegisterReply, LinkHeartbeat, LinkHeartbeatReply,
         LinkSeesClosed, LinkClosed, LinkTerminateReply, ReadsReply, Await,
         history
<1>2. /\ guard.up /\ ~guard.triggered /\ host.up /\ ~host.hung
      /\ ~link.triggered
      /\ link.at \in {"wait", "hello", "pump", "register", "beat"}
  BY <1>1 DEF Running, Calm, LinkInv
<1>3. host'.up /\ ~host'.hung
  <2>1. host' = host \/ \E b : host' = [host EXCEPT !.suspended = b]
    BY <1>2 DEF LinkStep, LinkRefused, LinkConnect, LinkHelloReply,
         LinkRegister, LinkRegisterReply, LinkHeartbeat, LinkHeartbeatReply,
         LinkSeesClosed, LinkClosed, LinkTerminateReply, ReadsReply, Await,
         Becomes, Linger
  <2> QED BY <1>2, <2>1 DEF TypeInv, Hosts
<1> DEFINE Same == /\ link'.registered = link.registered /\ ~link'.triggered
                   /\ link'.wait = link.wait
<1>4. ~LinkRefused /\ ~LinkClosed /\ ~LinkTerminateReply
  BY <1>2 DEF LinkRefused, LinkClosed, LinkTerminateReply, Await, Calm, WireInv
<1>5. CASE LinkConnect
  <2>1. /\ link' = [link EXCEPT !.at = "hello"] /\ link.wait = 0
        /\ link.at = "wait" /\ srv.phase = "none" /\ srv'.phase = "hello"
        /\ req'.type = "hello" /\ rep' = "none"
    BY <1>5 DEF LinkConnect, Becomes, Await, Frame
  <2>2. Same /\ link'.at = "hello"
    BY <1>0, <1>2, <2>1 DEF Links
  <2>3. Unseen = 0 /\ Unseen' = 0
    BY <2>1, <2>2 DEF Unseen
  <2> QED BY <1>1, <1>2, <1>3, <2>1, <2>2, <2>3
          DEF Calm, WireInv, AloneInv, LinkInv, ClockInv
<1>6. CASE LinkHelloReply
  <2>1. link.at = "hello" /\ rep # "none"
    BY <1>6 DEF LinkHelloReply, ReadsReply, Await
  <2>2. srv.phase = "guard" /\ rep = "ok" /\ req = NoFrame /\ link.wait = 0
    BY <1>2, <2>1 DEF Calm, WireInv, LinkInv
  <2>3. /\ link' = [link EXCEPT !.at = "pump", !.wait = 0, !.connected = TRUE,
                                !.ever = TRUE]
        /\ srv' = srv /\ rep' = "none" /\ req' = req
    BY <1>6, <2>2 DEF LinkHelloReply, ReadsReply, Becomes
  <2>4. Same /\ link'.at = "pump"
    BY <1>0, <1>2, <2>2, <2>3 DEF Links
  <2>5. Unseen = 0 /\ Unseen' = 0
    BY <2>2, <2>3 DEF Unseen
  <2> QED BY <1>1, <1>2, <1>3, <2>1, <2>2, <2>3, <2>4, <2>5
          DEF Calm, WireInv, AloneInv, LinkInv, ClockInv
<1>7. CASE LinkRegister \/ LinkHeartbeat
  <2>1. PICK at \in {"register", "beat"} :
          /\ link' = [link EXCEPT !.at = at] /\ link.wait = 0
          /\ link.at = "pump" /\ srv' = srv /\ rep' = rep
          /\ at = "register" => req'.type = "register" /\ ~link.registered
          /\ at = "beat" => req'.type = "heartbeat"
    BY <1>7 DEF LinkRegister, LinkHeartbeat, Becomes, Await, Frame
  <2>2. Same /\ link'.at = at
    BY <1>0, <1>2, <2>1 DEF Links
  <2>3. srv.phase \in {"none", "guard"} /\ rep = "none"
    BY <2>1 DEF Calm, WireInv
  <2>4. Unseen' = Unseen
    BY <2>1, <2>2 DEF Unseen
  <2> QED BY <1>1, <1>2, <1>3, <2>1, <2>2, <2>3, <2>4
          DEF Calm, WireInv, AloneInv, LinkInv, ClockInv
<1>8. CASE LinkRegisterReply
  <2>1. link.at = "register" /\ rep # "none"
    BY <1>8 DEF LinkRegisterReply, ReadsReply, Await
  <2>2. srv.phase = "guard" /\ rep = "ok" /\ req = NoFrame /\ link.wait = 0
    BY <1>2, <2>1 DEF Calm, WireInv, LinkInv
  <2>3. /\ link' = [link EXCEPT !.at = "pump", !.registered = TRUE]
        /\ srv' = srv /\ rep' = "none" /\ req' = req
    BY <1>8, <2>2 DEF LinkRegisterReply, ReadsReply, Becomes
  <2>4. /\ link'.at = "pump" /\ link'.registered /\ ~link'.triggered
        /\ link'.wait = link.wait
    BY <1>0, <1>2, <2>3 DEF Links
  <2>5. Unseen = 0 /\ Unseen' = 0
    BY <2>2, <2>3 DEF Unseen
  <2> QED BY <1>1, <1>2, <1>3, <2>1, <2>2, <2>3, <2>4, <2>5
          DEF Calm, WireInv, AloneInv, LinkInv, ClockInv
<1>9. CASE LinkHeartbeatReply
  <2>1. link.at = "beat" /\ rep # "none"
    BY <1>9 DEF LinkHeartbeatReply, ReadsReply, Await
  <2>2. /\ srv.phase = "guard" /\ rep = "ok" /\ req = NoFrame
        /\ guard.age = 0
    BY <1>2, <2>1 DEF Calm, WireInv, ClockInv
  <2>3. /\ link' = [link EXCEPT !.at = "pump", !.wait = 1]
        /\ srv' = srv /\ rep' = "none" /\ req' = req
    BY <1>9, <2>2 DEF LinkHeartbeatReply, ReadsReply, Becomes
  <2>4. /\ link'.at = "pump" /\ link'.registered = link.registered
        /\ ~link'.triggered /\ link'.wait = 1
    BY <1>0, <1>2, <2>3 DEF Links
  <2>5. Unseen' = 0
    BY <2>2, <2>3 DEF Unseen
  <2>6. ClockInv'
    BY <1>0, <1>1, <2>2, <2>3, <2>4, <2>5 DEF ClockInv
  <2> QED BY <1>1, <1>2, <1>3, <2>1, <2>2, <2>3, <2>4, <2>6
          DEF Calm, WireInv, AloneInv, LinkInv
<1>10. CASE LinkSeesClosed
  <2>1. link.at \in {"hello", "register", "beat"} /\ rep = "none"
    BY <1>10 DEF LinkSeesClosed
  <2>2. srv.phase = "none" /\ link.wait = 0
    BY <1>2, <1>10, <2>1 DEF LinkSeesClosed, Calm, WireInv, LinkInv
  <2>3. link' = Retry(Lost(link)) /\ srv' = srv /\ rep' = rep
    BY <1>10, <2>2 DEF LinkSeesClosed, Becomes
  <2>4. /\ link'.at = "wait" /\ link'.registered = link.registered
        /\ ~link'.triggered /\ link'.wait = 1
    BY <1>0, <1>2, <2>3 DEF Links, Retry, Lost
  <2>5. Unseen = 1 /\ Unseen' = 0
    BY <2>1, <2>2, <2>4 DEF Unseen
  <2>6. ClockInv'
    <3>1. guard.registered =>
            guard.age + 0 + 1 <= 1 + lost
      BY <2>2, <2>5 DEF Calm, ClockInv
    <3> QED BY <1>0, <1>1, <2>4, <2>5, <3>1 DEF ClockInv
  <2> QED BY <1>1, <1>2, <1>3, <2>1, <2>2, <2>3, <2>4, <2>6
          DEF Calm, WireInv, AloneInv, LinkInv
<1> QED BY <1>4, <1>5, <1>6, <1>7, <1>8, <1>9, <1>10 DEF LinkStep

(* The host and the world.  A break is one connection lost.          *)
LEMMA CalmWorld ==
  ASSUME TypeInv, Calm, calm',
         StartHost \/ SpawnWorker \/ Resume \/ Break
  PROVE  Calm'
<1>0. /\ link \in Links /\ host \in Hosts /\ left \in Lefts
      /\ guard.age \in Nat /\ link.wait \in Nat /\ lost \in Nat
  BY DEF TypeInv, Guards, Links
<1>1. CASE StartHost
  <2>1. /\ ~host.up /\ link' = FreshLink /\ guard' = guard /\ srv' = srv
        /\ rep' = rep /\ req' = req
        /\ host' = [NoHost EXCEPT !.up = TRUE]
        /\ lost' = lost
    BY <1>1 DEF StartHost, history
  <2>2. ~guard.registered /\ srv.phase = "none" /\ rep = "none"
    BY <2>1 DEF Calm, AloneInv, WireInv
  <2>3. /\ link'.at = "wait" /\ link'.wait = 0 /\ ~link'.triggered
        /\ host'.up /\ ~host'.hung
    BY <2>1 DEF FreshLink, NoHost
  <2> QED BY <2>1, <2>2, <2>3
          DEF Calm, WireInv, AloneInv, LinkInv, ClockInv
<1>2. CASE SpawnWorker
  <2>1. /\ guard' = guard /\ srv' = srv /\ rep' = rep /\ req' = req
        /\ host' = host /\ lost' = lost
        /\ link' = [link EXCEPT !.pid = worker']
    BY <1>2 DEF SpawnWorker, wire, history
  <2>2. /\ link'.at = link.at /\ link'.wait = link.wait
        /\ link'.triggered = link.triggered
        /\ link'.registered = link.registered
    BY <1>0, <2>1 DEF Links
  <2>3. Unseen' = Unseen
    BY <2>1, <2>2 DEF Unseen
  <2> QED BY <2>1, <2>2, <2>3
          DEF Calm, WireInv, AloneInv, LinkInv, ClockInv
<1>3. CASE Resume
  <2>1. /\ guard' = guard /\ srv' = srv /\ rep' = rep /\ req' = req
        /\ lost' = lost /\ link' = link
        /\ host' = [host EXCEPT !.hung = FALSE]
    BY <1>3 DEF Resume, wire, history
  <2>2. host'.up = host.up /\ ~host'.hung
    BY <1>0, <2>1 DEF Hosts
  <2>3. Unseen' = Unseen
    BY <2>1 DEF Unseen
  <2> QED BY <2>1, <2>2, <2>3
          DEF Calm, WireInv, AloneInv, LinkInv, ClockInv
<1>4. CASE Break
  <2>1. /\ srv.phase \in {"hello", "guard"} /\ lost' = lost + 1 /\ lost' < Idle
        /\ srv'.phase = "none" /\ rep' = "none" /\ link.at # "register"
        /\ guard' = guard /\ link' = link /\ host' = host
    BY <1>4 DEF Break, Cut
  <2>3. Unseen = 0 /\ Unseen' \in {0, 1}
    BY <2>1 DEF Unseen
  <2>4. link.at # "wait" /\ host.up
    BY <2>1 DEF Calm, WireInv, AloneInv
  <2>5. ClockInv'
    <3>1. guard.registered =>
            guard.age + link.wait + 0 <= 1 + lost
      BY <2>3 DEF Calm, ClockInv
    <3> QED BY <1>0, <2>1, <2>3, <3>1 DEF ClockInv
  <2> QED BY <2>1, <2>4, <2>5 DEF Calm, WireInv, AloneInv, LinkInv
<1> QED BY <1>1, <1>2, <1>3, <1>4

(* Time passes only while the link waits, and takes of its waiting.        *)
LEMMA CalmTick ==
  ASSUME TypeInv, Calm, Tick
  PROVE  Calm'
<1>0. /\ guard \in Guards /\ link \in Links /\ lost \in Nat
      /\ guard.age \in Nat /\ link.wait \in Nat
      /\ Idle \in Nat /\ srv.polled \in BOOLEAN
  BY ConstantsTyped DEF TypeInv, Guards, Links, Srvs
<1>1. /\ ~GuardDue /\ ~LinkDue
      /\ guard' = [guard EXCEPT !.age = IF @ > Idle THEN @ ELSE @ + 1]
      /\ link' = [link EXCEPT !.wait = IF Running /\ @ > 0 THEN @ - 1 ELSE @]
      /\ UNCHANGED <<srv, req, rep, host, lost>>
  BY DEF Tick, Due, wire, history
<1>2. /\ guard'.up = guard.up /\ guard'.triggered = guard.triggered
      /\ guard'.registered = guard.registered
      /\ guard'.age \in {guard.age, guard.age + 1}
  BY <1>0, <1>1 DEF Guards
<1>3. /\ link'.at = link.at /\ link'.triggered = link.triggered
      /\ link'.registered = link.registered
      /\ link'.wait = IF Running /\ link.wait > 0 THEN link.wait - 1
                      ELSE link.wait
  BY <1>0, <1>1 DEF Links
<1>4. ASSUME host.up
      PROVE  link.wait > 0 /\ link.at \in {"wait", "pump"}
  <2>1. Running /\ ~link.triggered
        /\ link.at \in {"wait", "hello", "pump", "register", "beat"}
    BY <1>4 DEF Calm, LinkInv, Running
  <2>2. SUFFICES ASSUME \/ link.wait = 0 /\ link.at \in {"wait", "pump"}
                        \/ link.at \in {"hello", "register", "beat"}
                 PROVE  FALSE
    BY <1>0, <2>1
  <2>3. link.at \in {"hello", "register", "beat"}
    BY <1>1, <2>1, <2>2 DEF LinkDue
  <2>4. rep = "none" /\ srv.phase \in {"hello", "guard"}
    BY <1>1, <2>1, <2>3 DEF LinkDue, Calm, WireInv
  <2>5. /\ guard.up /\ ~guard.triggered
        /\ \/ srv.phase = "hello" /\ req.type = "hello"
           \/ srv.phase = "guard" /\ req.type \in {"register", "heartbeat"}
    BY <2>3, <2>4 DEF Calm, WireInv
  <2> QED BY <1>0, <1>1, <2>4, <2>5 DEF GuardDue
<1>5. Unseen' = Unseen /\ Unseen \in Nat
  BY <1>1, <1>3 DEF Unseen
<1>6. ClockInv'
  <2>1. ASSUME guard.registered
        PROVE  guard'.age + link'.wait + Unseen <= 1 + lost
    <3>1. guard.age + link.wait + Unseen <= 1 + lost
      BY <2>1 DEF Calm, ClockInv
    <3>2. host.up
      BY <2>1 DEF Calm, AloneInv
    <3>3. Running
      BY <3>2 DEF Calm, LinkInv, Running
    <3>4. link'.wait = link.wait - 1 /\ link.wait > 0
      BY <1>3, <1>4, <3>2, <3>3
    <3> QED BY <1>0, <1>2, <1>5, <3>1, <3>4
  <2>2. ~(link.at = "beat" /\ rep = "ok")
    <3>1. CASE host.up
      BY <1>4, <3>1
    <3>2. CASE ~host.up
      BY <3>2 DEF Calm, AloneInv, WireInv
    <3> QED BY <3>1, <3>2
  <2> QED BY <1>1, <1>2, <1>3, <1>5, <2>1, <2>2 DEF ClockInv
<1>7. LinkInv'
  BY <1>1, <1>2, <1>3, <1>4 DEF Calm, LinkInv
<1> QED BY <1>1, <1>2, <1>3, <1>6, <1>7 DEF Calm, WireInv, AloneInv

LEMMA CalmStep ==
  ASSUME TypeInv, CalmInv, [Next]_vars
  PROVE  CalmInv'
<1>1. SUFFICES ASSUME calm' PROVE Calm'
  BY DEF CalmInv
<1>2. ~HostCrashes /\ ~Hang /\ ~GuardDies
      /\ ~(\E end \in BOOLEAN : KillWorker(end))
  BY <1>1 DEF HostCrashes, Hang, GuardDies, KillWorker
<1>3. CASE GuardStep
  <2>1. calm' = calm
    BY <1>3 DEF GuardStep, GuardPolls, GuardTriggered, GuardHandles, GuardHello,
       GuardRegister, GuardHeartbeat, GuardTerminate, MonitorTriggers,
       GuardSeesClosed
  <2> QED BY <1>1, <1>3, <2>1, CalmGuard DEF CalmInv
<1>4. CASE LinkStep
  <2>1. calm' = calm
    BY <1>4 DEF LinkStep, LinkRefused, LinkConnect, LinkHelloReply,
         LinkRegister, LinkRegisterReply, LinkHeartbeat, LinkHeartbeatReply,
         LinkSeesClosed, LinkClosed, LinkTerminateReply, ReadsReply, Await
  <2> QED BY <1>1, <1>4, <2>1, CalmLink DEF CalmInv
<1>5. CASE StartHost \/ SpawnWorker \/ Resume \/ Break
  <2>1. calm
    BY <1>1, <1>5 DEF StartHost, SpawnWorker, Resume, Break
  <2> QED BY <1>1, <1>5, <2>1, CalmWorld DEF CalmInv
<1>6. CASE Tick
  <2>1. calm
    BY <1>1, <1>6 DEF Tick
  <2> QED BY <1>6, <2>1, CalmTick DEF CalmInv
<1>7. CASE GuardRestarts
  BY <1>1, <1>7 DEF GuardRestarts, CalmInv, Calm
<1>8. CASE UNCHANGED vars
  BY <1>1, <1>8 DEF CalmInv, Calm, WireInv, AloneInv, LinkInv, ClockInv, Unseen
<1> QED BY <1>2, <1>3, <1>4, <1>5, <1>6, <1>7, <1>8 DEF Next

(* A worker is never killed without cause: not by heartbeats that come     *)
(* late for reconnects, as long as fewer connections than the idle timeout *)
(* has ticks are lost between two of them.  One more is a cause.           *)
THEOREM KillsHaveCause == Spec => []NoFalseKill
<1>1. CalmInv => NoFalseKill
  BY DEF CalmInv, Calm, NoFalseKill
<1>2. TypeInv /\ CalmInv /\ [Next]_vars => CalmInv'
  BY CalmStep
<1> QED BY <1>1, <1>2, CalmInit, TypeInit, TypeStep, PTL DEF Spec
=============================================================================
