--------------------------- MODULE ChannelProofs ---------------------------
(***************************************************************************)
(* Answers are taken in the order of their prompts, and a worker that      *)
(* keeps to the protocol is not suspended: theorems about Channel for      *)
(* every set of callers, any pipe, and any number of spawns, prompts and   *)
(* faults.                                                                 *)
(***************************************************************************)
EXTENDS Channel, SequenceTheorems, TLAPS

Acceptances == [prompt : Nat, no : Nat, of : Nat]

(* What is on the way from a worker to whoever reads its replies.          *)
Wire(w) == replies[w] \o output[w]

PipesTyped ==
  /\ worker \in [Spawns -> {"none", "booting", "ready", "hung", "dead"}]
  /\ input \in [Spawns -> Seq(Nat)]
  /\ \A w \in Spawns : Len(input[w]) <= PipeCap
  /\ output \in [Spawns -> Seq(Lines)] /\ replies \in [Spawns -> Seq(Lines)]
  /\ asked \in [Spawns -> Nat]

SessionsTyped ==
  /\ sendSeq \in [Spawns -> Nat] /\ recvSeq \in [Spawns -> Nat]
  /\ sent \in [Spawns -> Seq(Nat)]
  /\ accepted \in [Spawns -> Seq(Acceptances)]
  /\ strayed \subseteq Spawns

Labels == {"idle", "start", "hello", "install", "pid", "lock", "write", "read"}

SlotsTyped ==
  /\ spawned \in 0..MaxSpawns /\ prompts \in Nat
  /\ link \in 0..spawned /\ bootstrap \in 0..spawned
  /\ job \in 0..spawned /\ pid \in 0..spawned

(* Who has written, or reads, holds the lock of an installed link.         *)
CallersTyped ==
  /\ pc \in [Callers -> Labels] /\ mine \in [Callers -> Nat]
  /\ \A c \in Callers : pc[c] \in {"write", "read"} <=> lock = c
  /\ \A c \in Callers :
       pc[c] \in {"hello", "install", "pid"} => mine[c] \in 1..spawned
  /\ lock # None => lock \in Callers /\ link # 0

Typed == PipesTyped /\ SessionsTyped /\ SlotsTyped /\ CallersTyped

-----------------------------------------------------------------------------
(* c performs the spawn of w, before its link is installed.                *)
Spawning(c) == pc[c] \in {"hello", "install"}

Rears(c, w) == Spawning(c) /\ mine[c] = w

(* A worker without a link has been asked nothing.                         *)
Unasked(w) ==
  sent[w] = <<>> /\ accepted[w] = <<>> /\ input[w] = <<>> /\ w \notin strayed

(* It says one line, whoever reads it, and booting it has not said it.     *)
Greets(w) ==
  /\ recvSeq[w] = 1
  /\ \/ asked[w] = 1 /\ replies[w] = <<>>
     \/ asked[w] = 0 /\ Len(replies[w]) = 1 /\ output[w] = <<>>
  /\ Len(output[w]) <= 1
  /\ worker[w] = "booting" =>
       replies[w] = <<>> /\ output[w] = <<>> /\ sendSeq[w] = 0
  /\ \A lines \in {replies[w], output[w]} :
       lines # <<>> /\ Head(lines).type = "hello" => sendSeq[w] = 1

Greeted(w) ==
  /\ recvSeq[w] = 2 /\ sendSeq[w] = 1 /\ worker[w] # "booting"
  /\ asked[w] = 0 /\ replies[w] = <<>> /\ output[w] = <<>>

(* The line that the reader takes for the proposal number no of key.       *)
Due(key, no, line) ==
  line.key = key /\ line.no = no /\ line.type = "proposal"

(* The first m lines, numbered from r, answer the prompts after the first  *)
(* a of s.  Either the line after them will be refused, or there is none,  *)
(* the worker numbered n lines, and the input q holds the other prompts.   *)
Flow(lines, q, s, key, r, n, a) ==
  \E m \in 0..Len(lines) :
    /\ a + m <= Len(s)
    /\ \A p \in 1..m :
         Due(key, r + p - 1, lines[p]) /\ lines[p].of = s[a + p]
    /\ \/ m < Len(lines) /\ ~Due(key, r + m, lines[m + 1])
       \/ /\ m = Len(lines) /\ n = r + m - 1 /\ Len(s) = a + m + Len(q)
          /\ \A k \in 1..Len(q) : q[k] = s[a + m + k]

Stream(w) ==
  w \in strayed \/ Flow(Wire(w), input[w], sent[w], w, recvSeq[w], sendSeq[w],
                        Len(accepted[w]))

(* A worker that no spawn has started yet.                                 *)
Unborn(w) ==
  /\ worker[w] = "none" /\ asked[w] = 0 /\ sendSeq[w] = 0 /\ recvSeq[w] = 1
  /\ output[w] = <<>> /\ replies[w] = <<>> /\ Unasked(w)

Started == \A w \in Spawns : w > spawned => Unborn(w)

(* A worker is spawned by one caller and installed once.                   *)
SpawnedOnce ==
  \A c \in Callers, w \in Spawns : Rears(c, w) =>
    /\ Unasked(w) /\ w # link
    /\ pc[c] = "hello" => Greets(w)
    /\ pc[c] = "install" => Greeted(w)
    /\ \A d \in Callers : Rears(d, w) => d = c

InOrder(w) ==
  \A k \in DOMAIN accepted[w] :
    /\ w \notin strayed =>
         k \in DOMAIN sent[w] /\ accepted[w][k].of = sent[w][k]
    /\ \A j \in 1..k - 1 : accepted[w][j].no < accepted[w][k].no
    /\ accepted[w][k].no < recvSeq[w]

OrderInv ==
  /\ SpawnedOnce /\ Started
  /\ \A w \in Spawns : InOrder(w) /\ (w = link => Stream(w))

-----------------------------------------------------------------------------
Healthy(w) == worker[w] \in {"ready", "hung"}

(* All the lines are proposals, numbered from r to n.                      *)
Serial(key, lines, r, n) ==
  /\ n + 1 = r + Len(lines)
  /\ \A p \in 1..Len(lines) : Due(key, r + p - 1, lines[p])

(* A linked worker that lives and says nothing but proposals, in order.    *)
Calm(w) == Healthy(w) /\ Serial(w, Wire(w), recvSeq[w], sendSeq[w])

(* One whose hello is to come, comes never or is on its way.               *)
Polite(w) ==
  \/ worker[w] = "booting" /\ bootstrap = w
  \/ worker[w] = "hung" /\ Wire(w) = <<>>
  \/ Healthy(w) /\ Wire(w) = <<Line(w, 1, "hello", 0)>>

(* Without a cause there is one spawn at a time and no link meanwhile.     *)
Blameless ==
  /\ ~violated /\ closing \in {"no", "begun"}
  /\ \A c, d \in Callers : InSpawn(c) /\ InSpawn(d) => c = d
  /\ \A c \in Callers :
       pc[c] \in {"start", "hello", "install"} => link = 0
  /\ \A c \in Callers, w \in Spawns : Rears(c, w) =>
       /\ pc[c] = "hello" => Polite(w)
       /\ pc[c] = "install" => Healthy(w)
  /\ \A w \in Spawns :
       /\ w = link => Calm(w)
       /\ worker[w] = "booting" =>
            \E c \in Callers : pc[c] = "hello" /\ mine[c] = w

BlameInv == ~cause => Blameless

-----------------------------------------------------------------------------
LEMMA BoundsTyped ==
  /\ MaxSpawns \in Nat /\ MaxPrompts \in Nat /\ PipeCap \in Nat
  /\ PipeCap > 0 /\ None \notin Callers
  /\ Spawns \subseteq Nat \ {0}
BY ChannelAssumption DEF None, Spawns

LEMMA LinesTyped ==
  /\ Refusable \in Lines /\ Refusable.type = "other" /\ Refusable.key = 0
  /\ \A key \in 0..MaxSpawns : \A no, of \in Nat :
       \A type \in {"hello", "proposal", "other"} :
         /\ Line(key, no, type, of) \in Lines
         /\ Line(key, no, type, of).key = key
         /\ Line(key, no, type, of).no = no
         /\ Line(key, no, type, of).type = type
         /\ Line(key, no, type, of).of = of
BY BoundsTyped DEF Refusable, Line, Lines

LEMMA InitTyped == Init => Typed
<1> SUFFICES ASSUME Init PROVE Typed
  OBVIOUS
<1>1. PipesTyped
  BY BoundsTyped DEF Init, PipesTyped, Spawns
<1>2. SessionsTyped
  BY BoundsTyped DEF Init, SessionsTyped, Spawns
<1>3. SlotsTyped
  BY BoundsTyped DEF Init, SlotsTyped
<1>4. CallersTyped
  BY BoundsTyped DEF Init, CallersTyped, Labels
<1> QED BY <1>1, <1>2, <1>3, <1>4 DEF Typed

LEMMA PutIn ==
  ASSUME NEW S, NEW T, NEW f \in [S -> T], NEW x \in S, NEW v \in T
  PROVE  [f EXCEPT ![x] = v] \in [S -> T]
OBVIOUS

LEMMA KilledTyped ==
  ASSUME PipesTyped, NEW ws
  PROVE  Killed(ws) \in
           [Spawns -> {"none", "booting", "ready", "hung", "dead"}]
BY DEF PipesTyped, Killed

LEMMA DropTyped ==
  ASSUME PipesTyped, SessionsTyped, NEW w \in 0..MaxSpawns, Drop(w),
         worker' \in [Spawns -> {"none", "booting", "ready", "hung", "dead"}]
  PROVE  PipesTyped' /\ SessionsTyped'
<1>1. CASE w = 0
  BY <1>1 DEF Drop, pipeVars, seqVars, PipesTyped, SessionsTyped
<1>2. CASE w # 0
  <2>0. w \in Spawns /\ PipeCap >= 0
    BY <1>2, BoundsTyped DEF Spawns
  <2>1. /\ input' = [input EXCEPT ![w] = <<>>]
        /\ output' = [output EXCEPT ![w] = <<>>]
        /\ replies' = [replies EXCEPT ![w] = <<>>]
        /\ asked' = [asked EXCEPT ![w] = 0]
        /\ sent' = [sent EXCEPT ![w] = <<>>]
        /\ accepted' = [accepted EXCEPT ![w] = <<>>]
        /\ sendSeq' = [sendSeq EXCEPT ![w] = 0]
        /\ recvSeq' = [recvSeq EXCEPT ![w] = 1]
        /\ strayed' = strayed \ {w}
    BY <1>2 DEF Drop, Emptied
  <2>2. PipesTyped'
    BY <2>0, <2>1, BoundsTyped DEF PipesTyped
  <2>3. SessionsTyped'
    BY <2>0, <2>1 DEF SessionsTyped
  <2> QED BY <2>2, <2>3
<1> QED BY <1>1, <1>2

(* The pipes do not change but by a worker that dies.                      *)
LEMMA PipesKept ==
  ASSUME PipesTyped, UNCHANGED pipeVars,
         \/ worker' = worker \/ \E ws : worker' = Killed(ws)
         \/ \E w, s : worker' = [worker EXCEPT ![w] = s]
                     /\ s \in {"none", "booting", "ready", "hung", "dead"}
  PROVE  PipesTyped'
BY KilledTyped DEF pipeVars, PipesTyped

LEMMA SessionsKept ==
  ASSUME SessionsTyped, UNCHANGED <<seqVars, sent, accepted, strayed>>
  PROVE  SessionsTyped'
BY DEF seqVars, SessionsTyped

(* What a caller does with its own place in the call.                      *)
LEMMA CallersKept ==
  ASSUME CallersTyped, NEW c \in Callers, NEW label \in Labels,
         Goto(c, label), mine'[c] \in Nat,
         mine' \in [Callers -> Nat],
         \A d \in Callers \ {c} : mine'[d] = mine[d],
         \A m \in 1..spawned : m \in 1..spawned',
         label \in {"hello", "install", "pid"} => mine'[c] \in 1..spawned',
         \/ label \notin {"write", "read"} /\ pc[c] \notin {"write", "read"}
              /\ lock' = lock
         \/ label \notin {"write", "read"} /\ pc[c] \in {"write", "read"}
              /\ lock' = None
         \/ label \in {"write", "read"} /\ pc[c] \in {"write", "read"}
              /\ lock' = lock
         \/ label = "write" /\ pc[c] \notin {"write", "read"}
              /\ lock = None /\ lock' = c,
         lock' # None => link' # 0
  PROVE  CallersTyped'
<1>1. pc' \in [Callers -> Labels]
  BY DEF CallersTyped, Goto
<1>2. pc'[c] = label /\ \A d \in Callers \ {c} : pc'[d] = pc[d]
  BY DEF CallersTyped, Goto
<1>3. \A d \in Callers : pc'[d] \in {"write", "read"} <=> lock' = d
  BY <1>2, BoundsTyped DEF CallersTyped
<1>4. \A d \in Callers :
        pc'[d] \in {"hello", "install", "pid"} => mine'[d] \in 1..spawned'
  BY <1>2 DEF CallersTyped
<1>5. lock' # None => lock' \in Callers /\ link' # 0
  BY DEF CallersTyped
<1> QED BY <1>1, <1>3, <1>4, <1>5 DEF CallersTyped

LEMMA AbandonTyped ==
  ASSUME Typed, NEW c \in Callers, pc[c] = "hello", Abandon(c)
  PROVE  Typed'
<1> USE DEF boundVars
<1>0. /\ PipesTyped /\ SessionsTyped /\ SlotsTyped /\ CallersTyped
      /\ mine[c] \in 0..MaxSpawns /\ "idle" \in Labels
      /\ mine \in [Callers -> Nat]
  BY BoundsTyped DEF Typed, CallersTyped, SlotsTyped, Labels
<1>1. /\ worker' = Killed({job, mine[c]}) /\ job' = 0 /\ bootstrap' = 0
      /\ Drop(mine[c]) /\ Goto(c, "idle")
      /\ mine' = [mine EXCEPT ![c] = 0]
      /\ UNCHANGED <<lock, link, pid, closing, spawned, prompts>>
  BY DEF Abandon, Ends
<1>2. PipesTyped' /\ SessionsTyped'
  BY <1>0, <1>1, KilledTyped, DropTyped
<1>3. SlotsTyped'
  BY <1>0, <1>1 DEF SlotsTyped
<1>4. /\ mine' \in [Callers -> Nat] /\ mine'[c] \in Nat
      /\ \A d \in Callers \ {c} : mine'[d] = mine[d]
  BY <1>0, <1>1
<1>5. CallersTyped'
  BY <1>0, <1>1, <1>4, CallersKept DEF CallersTyped
<1> QED BY <1>2, <1>3, <1>5 DEF Typed

LEMMA SpawnTyped ==
  ASSUME Typed, NEW c \in Callers,
         \/ SpawnDrops(c) \/ SpawnStarts(c) \/ SpawnFails(c)
         \/ HelloArrives(c) \/ HelloIsLate(c) \/ HelloIsRefused(c)
         \/ HelloTimesOut(c) \/ Installs(c) \/ NotesPid(c)
  PROVE  Typed'
<1> USE DEF boundVars, hostVars, historyVars, callVars
<1>0. /\ PipesTyped /\ SessionsTyped /\ SlotsTyped /\ CallersTyped
      /\ mine \in [Callers -> Nat]
      /\ \A d \in Callers \ {c} : mine[d] = mine[d]
      /\ {"idle", "start", "hello", "install", "pid"} \subseteq Labels
  BY DEF Typed, CallersTyped, Labels
<1>1. CASE SpawnDrops(c)
  <2>1. PipesTyped' /\ SessionsTyped' /\ link' = 0
    <3>1. link \in 0..MaxSpawns /\ Drop(link) /\ link' = 0 /\ worker' = worker
      BY <1>0, <1>1, BoundsTyped DEF SpawnDrops, SlotsTyped
    <3> QED BY <1>0, <3>1, DropTyped DEF PipesTyped
  <2>2. SlotsTyped'
    BY <1>0, <1>1, <2>1, BoundsTyped DEF SpawnDrops, SlotsTyped
  <2>3. CallersTyped'
    BY <1>0, <1>1, CallersKept DEF SpawnDrops
  <2> QED BY <2>1, <2>2, <2>3 DEF Typed
<1>2. CASE SpawnStarts(c)
  <2>1. spawned' \in Spawns /\ spawned' = spawned + 1 /\ spawned' \in Nat
    BY <1>0, <1>2, BoundsTyped DEF SpawnStarts, SlotsTyped, Spawns
  <2>2. PipesTyped'
    BY <1>0, <1>2, <2>1, KilledTyped DEF SpawnStarts, PipesTyped
  <2>3. SlotsTyped'
    BY <1>0, <1>2, <2>1, BoundsTyped DEF SpawnStarts, SlotsTyped
  <2>4. /\ mine' \in [Callers -> Nat] /\ mine'[c] = spawned'
        /\ \A d \in Callers \ {c} : mine'[d] = mine[d]
    BY <1>0, <1>2, <2>1 DEF SpawnStarts
  <2>5. spawned' \in 1..spawned' /\ \A m \in 1..spawned : m \in 1..spawned'
    BY <1>0, <2>1 DEF SlotsTyped
  <2>6. Goto(c, "hello") /\ pc[c] = "start" /\ UNCHANGED <<lock, link>>
    BY <1>2 DEF SpawnStarts
  <2>7. CallersTyped'
    <3>1. lock' # None => link' # 0
      BY <1>0, <2>6 DEF CallersTyped
    <3> QED BY <1>0, <2>1, <2>4, <2>5, <2>6, <3>1, CallersKept
  <2>8. SessionsTyped'
    BY <1>0, <1>2, SessionsKept DEF SpawnStarts
  <2> QED BY <2>2, <2>3, <2>7, <2>8 DEF Typed
<1>3. CASE SpawnFails(c)
  <2>1. PipesTyped' /\ SessionsTyped'
    BY <1>0, <1>3, PipesKept, SessionsKept DEF SpawnFails
  <2>2. SlotsTyped'
    BY <1>0, <1>3 DEF SpawnFails, SlotsTyped
  <2>3. /\ mine' \in [Callers -> Nat] /\ mine'[c] \in Nat
        /\ \A d \in Callers \ {c} : mine'[d] = mine[d]
    BY <1>0, <1>3 DEF SpawnFails, Ends
  <2>4. CallersTyped'
    BY <1>0, <1>3, <2>3, CallersKept DEF SpawnFails, Ends, CallersTyped
  <2> QED BY <2>1, <2>2, <2>4 DEF Typed
<1>4. CASE HelloArrives(c)
  <2>0. /\ pc[c] = "hello" /\ Take(mine[c]) /\ Goto(c, "install")
        /\ replies[mine[c]] # <<>>
        /\ \E line : Received(mine[c], line)
        /\ UNCHANGED <<mine, lock, hostVars, bootstrap, worker, input, output,
                       asked, sendSeq, boundVars, historyVars>>
    BY <1>4 DEF HelloArrives
  <2> PICK w \in Spawns : w = mine[c]
    BY <1>0, <2>0, BoundsTyped DEF SlotsTyped, CallersTyped, Spawns
  <2>1. replies' \in [Spawns -> Seq(Lines)]
    <3>1. Tail(replies[w]) \in Seq(Lines)
      BY <1>0, <2>0 DEF PipesTyped
    <3> QED BY <1>0, <2>0, <3>1, PutIn DEF Take, PipesTyped
  <2>2. recvSeq' \in [Spawns -> Nat]
    BY <1>0, <2>0 DEF Received, SessionsTyped
  <2>3. PipesTyped' /\ SessionsTyped'
    BY <1>0, <2>0, <2>1, <2>2 DEF PipesTyped, SessionsTyped
  <2>4. SlotsTyped'
    BY <1>0, <2>0 DEF SlotsTyped
  <2>5. CallersTyped'
    BY <1>0, <2>0, CallersKept DEF CallersTyped
  <2> QED BY <2>3, <2>4, <2>5 DEF Typed
<1>5. CASE HelloIsLate(c) \/ HelloIsRefused(c) \/ HelloTimesOut(c)
  BY <1>5, AbandonTyped DEF HelloIsLate, HelloIsRefused, HelloTimesOut
<1>6. CASE Installs(c) \/ NotesPid(c)
  <2>1. PipesTyped' /\ SessionsTyped'
    BY <1>0, <1>6, PipesKept, SessionsKept DEF Installs, NotesPid
  <2>2. mine[c] \in 0..spawned /\ mine[c] # 0
    BY <1>0, <1>6 DEF Installs, NotesPid, SlotsTyped, CallersTyped
  <2>3. SlotsTyped'
    BY <1>0, <1>6, <2>2 DEF Installs, NotesPid, SlotsTyped
  <2>4. /\ mine' \in [Callers -> Nat] /\ mine'[c] \in Nat
        /\ \A d \in Callers \ {c} : mine'[d] = mine[d]
    BY <1>0, <1>6 DEF Installs, NotesPid, Ends
  <2>5. ASSUME Installs(c) PROVE CallersTyped'
    <3>1. /\ pc[c] = "install" /\ Goto(c, "pid") /\ link' = mine[c]
          /\ UNCHANGED <<mine, lock, spawned>>
      BY <2>5 DEF Installs
    <3>2. mine[c] \in 1..spawned /\ mine[c] # 0
      BY <1>0, <2>2, <3>1 DEF CallersTyped
    <3> QED BY <1>0, <2>4, <3>1, <3>2, CallersKept
  <2>6. ASSUME NotesPid(c) PROVE CallersTyped'
    <3>1. /\ pc[c] = "pid" /\ Goto(c, "idle")
          /\ UNCHANGED <<link, lock, spawned>>
      BY <2>6 DEF NotesPid, Ends
    <3>2. lock' # None => link' # 0
      BY <1>0, <3>1 DEF CallersTyped
    <3> QED BY <1>0, <2>4, <3>1, <3>2, CallersKept
  <2>7. CallersTyped'
    BY <1>6, <2>5, <2>6
  <2> QED BY <2>1, <2>3, <2>7 DEF Typed
<1> QED BY <1>1, <1>2, <1>3, <1>4, <1>5, <1>6

LEMMA ProposeTyped ==
  ASSUME Typed, NEW c \in Callers,
         \/ ProposeBegins(c) \/ ProposeLocks(c) \/ Writes(c) \/ Receives(c)
         \/ TimesOut(c)
  PROVE  Typed'
<1> USE DEF boundVars, hostVars, historyVars
<1>0. /\ PipesTyped /\ SessionsTyped /\ SlotsTyped /\ CallersTyped
      /\ mine \in [Callers -> Nat]
      /\ \A d \in Callers \ {c} : mine[d] = mine[d]
      /\ {"idle", "lock", "write", "read"} \subseteq Labels
  BY DEF Typed, CallersTyped, Labels
<1>1. ASSUME Ends(c)
      PROVE  /\ Goto(c, "idle") /\ mine' \in [Callers -> Nat]
             /\ mine'[c] \in Nat
             /\ \A d \in Callers \ {c} : mine'[d] = mine[d]
  BY <1>0, <1>1 DEF Ends
<1>2. CASE ProposeBegins(c)
  <2>1. PipesTyped' /\ SessionsTyped'
    BY <1>0, <1>2, PipesKept, SessionsKept DEF ProposeBegins
  <2>2. SlotsTyped'
    BY <1>0, <1>2, BoundsTyped DEF ProposeBegins, SlotsTyped
  <2>3. /\ mine' \in [Callers -> Nat] /\ mine'[c] \in Nat
        /\ \A d \in Callers \ {c} : mine'[d] = mine[d]
    BY <1>0, <1>2, <2>2 DEF ProposeBegins, SlotsTyped
  <2>4. CallersTyped'
    BY <1>0, <1>2, <2>3, CallersKept DEF ProposeBegins, CallersTyped
  <2> QED BY <2>1, <2>2, <2>4 DEF Typed
<1>3. CASE ProposeLocks(c) \/ TimesOut(c)
  <2>1. PipesTyped' /\ SessionsTyped'
    BY <1>0, <1>3, PipesKept, SessionsKept DEF ProposeLocks, TimesOut
  <2>2. SlotsTyped'
    BY <1>0, <1>3 DEF ProposeLocks, TimesOut, SlotsTyped
  <2>3. ASSUME ProposeLocks(c) PROVE CallersTyped'
    <3>1. pc[c] = "lock" /\ lock = None /\ UNCHANGED <<link, spawned>>
      BY <2>3 DEF ProposeLocks
    <3>2. ASSUME link = 0 PROVE CallersTyped'
      <4>1. Ends(c) /\ lock' = None
        BY <2>3, <3>1, <3>2 DEF ProposeLocks
      <4> QED BY <1>0, <1>1, <3>1, <4>1, CallersKept
    <3>3. ASSUME link # 0 PROVE CallersTyped'
      <4>1. Goto(c, "write") /\ lock' = c /\ mine' = mine
        BY <2>3, <3>3 DEF ProposeLocks
      <4> QED BY <1>0, <3>1, <3>3, <4>1, CallersKept
    <3> QED BY <3>2, <3>3
  <2>4. ASSUME TimesOut(c) PROVE CallersTyped'
    <3>1. /\ pc[c] = "read" /\ lock' = None /\ Ends(c)
          /\ UNCHANGED <<link, spawned>>
      BY <2>4 DEF TimesOut, Returns
    <3> QED BY <1>0, <1>1, <3>1, CallersKept
  <2> QED BY <1>3, <2>1, <2>2, <2>3, <2>4 DEF Typed
<1>4. CASE Writes(c)
  <2>1. lock = c /\ link \in Spawns /\ link # 0
    BY <1>0, <1>4, BoundsTyped DEF Writes, SlotsTyped, CallersTyped, Spawns
  <2>2. ASSUME UNCHANGED <<input, sent, asked>>
        PROVE  PipesTyped' /\ SessionsTyped'
    BY <1>0, <1>4, <2>2 DEF Writes, PipesTyped, SessionsTyped, seqVars
  <2>3. ASSUME Fits(c),
               input' = [input EXCEPT ![link] = Append(@, mine[c])],
               sent' = [sent EXCEPT ![link] = Append(@, mine[c])],
               asked' = [asked EXCEPT ![link] = @ + 1]
        PROVE  PipesTyped' /\ SessionsTyped'
    <3>1. /\ input[link] \in Seq(Nat) /\ sent[link] \in Seq(Nat)
          /\ asked[link] \in Nat /\ mine[c] \in Nat
          /\ Len(input[link]) + 1 <= PipeCap
      BY <1>0, <2>1, <2>3, BoundsTyped DEF PipesTyped, SessionsTyped, Fits
    <3>2. /\ Append(input[link], mine[c]) \in Seq(Nat)
          /\ Len(Append(input[link], mine[c])) <= PipeCap
          /\ Append(sent[link], mine[c]) \in Seq(Nat)
          /\ asked[link] + 1 \in Nat
      BY <3>1
    <3>3. /\ input' \in [Spawns -> Seq(Nat)] /\ asked' \in [Spawns -> Nat]
          /\ sent' \in [Spawns -> Seq(Nat)]
          /\ \A w \in Spawns : Len(input'[w]) <= PipeCap
      BY <1>0, <2>1, <2>3, <3>2, PutIn DEF PipesTyped, SessionsTyped
    <3> QED BY <1>0, <1>4, <3>3 DEF Writes, PipesTyped, SessionsTyped, seqVars
  <2>4. PipesTyped' /\ SessionsTyped'
    BY <1>4, <2>2, <2>3 DEF Writes
  <2>5. SlotsTyped'
    BY <1>0, <1>4 DEF Writes, SlotsTyped
  <2>6. CallersTyped'
    <3>1. /\ pc[c] = "write" /\ UNCHANGED <<link, spawned>>
          /\ \/ Goto(c, "read") /\ UNCHANGED <<mine, lock>>
             \/ Ends(c) /\ lock' = None
      BY <1>4 DEF Writes, Returns
    <3>2. CASE Goto(c, "read") /\ UNCHANGED <<mine, lock>>
      BY <1>0, <2>1, <3>1, <3>2, CallersKept
    <3>3. CASE Ends(c) /\ lock' = None
      BY <1>0, <1>1, <3>1, <3>3, CallersKept
    <3> QED BY <3>1, <3>2, <3>3
  <2> QED BY <2>4, <2>5, <2>6 DEF Typed
<1>5. CASE Receives(c)
  <2>1. lock = c /\ link \in Spawns /\ link # 0
    BY <1>0, <1>5, BoundsTyped DEF Receives, SlotsTyped, CallersTyped, Spawns
  <2> PICK line : line = Head(replies[link])
    OBVIOUS
  <2>2. /\ replies[link] # <<>> /\ Take(link) /\ Received(link, line)
        /\ \/ UNCHANGED strayed /\ accepted' = [accepted EXCEPT ![link] =
                Append(@, [prompt |-> mine[c], no |-> line.no,
                           of |-> line.of])]
           \/ strayed' = strayed \cup {link} /\ accepted' = accepted
        /\ pc[c] = "read" /\ Ends(c) /\ lock' = None
        /\ UNCHANGED <<link, job, pid, bootstrap, worker, input, output, asked,
                       sendSeq, spawned, prompts, sent>>
    BY <1>5 DEF Receives, Returns
  <2>3. replies' \in [Spawns -> Seq(Lines)] /\ line \in Lines
    <3>1. Tail(replies[link]) \in Seq(Lines) /\ line \in Lines
      BY <1>0, <2>1, <2>2 DEF PipesTyped
    <3> QED BY <1>0, <2>1, <2>2, <3>1, PutIn DEF Take, PipesTyped
  <2>4. [prompt |-> mine[c], no |-> line.no, of |-> line.of] \in Acceptances
    BY <1>0, <2>3 DEF Lines, Acceptances
  <2>5. /\ accepted' \in [Spawns -> Seq(Acceptances)]
        /\ recvSeq' \in [Spawns -> Nat] /\ strayed' \subseteq Spawns
    <3>1. \A a \in Acceptances :
            Append(accepted[link], a) \in Seq(Acceptances)
      BY <1>0, <2>1 DEF SessionsTyped
    <3>2. accepted' \in [Spawns -> Seq(Acceptances)]
      <4>1. PICK a \in Acceptances : accepted' = accepted
              \/ accepted' = [accepted EXCEPT ![link] = Append(@, a)]
        BY <2>2, <2>4
      <4>2. accepted \in [Spawns -> Seq(Acceptances)]
        BY <1>0 DEF SessionsTyped
      <4> QED BY <2>1, <3>1, <4>1, <4>2
    <3>3. recvSeq \in [Spawns -> Nat] /\ strayed \subseteq Spawns
      BY <1>0 DEF SessionsTyped
    <3>4. recvSeq' \in [Spawns -> Nat]
      BY <2>1, <2>2, <3>3 DEF Received
    <3>5. strayed' \subseteq Spawns
      BY <2>1, <2>2, <3>3
    <3> QED BY <3>2, <3>4, <3>5
  <2>6. PipesTyped' /\ SessionsTyped'
    BY <1>0, <2>2, <2>3, <2>5 DEF PipesTyped, SessionsTyped
  <2>7. SlotsTyped'
    BY <1>0, <2>2 DEF SlotsTyped
  <2>8. CallersTyped'
    BY <1>0, <1>1, <2>2, CallersKept
  <2> QED BY <2>6, <2>7, <2>8 DEF Typed
<1> QED BY <1>2, <1>3, <1>4, <1>5

LEMMA WorkerTyped ==
  ASSUME Typed, NEW w \in Spawns, Worker(w)
  PROVE  Typed'
<1> USE DEF boundVars, hostVars, historyVars, callVars
<1>0. PipesTyped /\ SessionsTyped /\ SlotsTyped /\ CallersTyped
  BY DEF Typed
<1>1. CallersTyped' /\ SlotsTyped'
  <2>1. /\ UNCHANGED <<pc, mine, lock, link, spawned, prompts, job, pid>>
        /\ bootstrap' \in {bootstrap, 0}
    BY DEF Worker, Pumps, Boots, BootsForged, Answers, Dies, Hangs, Misbehaves
  <2> QED BY <1>0, <2>1, BoundsTyped DEF CallersTyped, SlotsTyped
<1>2. SessionsTyped'
  <2>1. UNCHANGED <<recvSeq, sent, accepted>>
    BY DEF Worker, Pumps, Boots, BootsForged, Answers, Dies, Hangs, Misbehaves,
           seqVars
  <2>2. strayed' = strayed \/ strayed' = strayed \cup {w}
    BY DEF Worker, Pumps, Boots, BootsForged, Answers, Dies, Hangs, Misbehaves
  <2>3. sendSeq' = sendSeq \/ Numbers(w)
    BY DEF Worker, Pumps, Boots, BootsForged, Answers, Dies, Hangs, Misbehaves,
           seqVars
  <2>4. sendSeq' \in [Spawns -> Nat]
    <3>1. sendSeq \in [Spawns -> Nat]
      BY <1>0 DEF SessionsTyped
    <3>2. sendSeq' = sendSeq \/ sendSeq' = [sendSeq EXCEPT ![w] = @ + 1]
      BY <2>3 DEF Numbers
    <3> QED BY <3>1, <3>2
  <2> QED BY <1>0, <2>1, <2>2, <2>4 DEF SessionsTyped
<1>3. CASE Pumps(w)
  <2>1. asked' \in [Spawns -> Nat]
    BY <1>0, <1>3 DEF Pumps, PipesTyped
  <2>2. ASSUME output[w] # <<>> PROVE PipesTyped'
    <3>1. /\ Append(replies[w], Head(output[w])) \in Seq(Lines)
          /\ Tail(output[w]) \in Seq(Lines)
      BY <1>0, <2>2 DEF PipesTyped
    <3>2. /\ replies' = [replies EXCEPT ![w] = Append(@, Head(output[w]))]
          /\ output' = [output EXCEPT ![w] = Tail(@)]
      BY <1>3, <2>2 DEF Pumps
    <3>3. /\ replies' \in [Spawns -> Seq(Lines)]
          /\ output' \in [Spawns -> Seq(Lines)]
      BY <1>0, <3>1, <3>2, PutIn DEF PipesTyped
    <3> QED BY <1>0, <1>3, <2>1, <3>3 DEF Pumps, PipesTyped
  <2>3. ASSUME output[w] = <<>> PROVE PipesTyped'
    <3>1. Append(replies[w], Refusable) \in Seq(Lines)
      BY <1>0, LinesTyped DEF PipesTyped
    <3>2. /\ replies' = [replies EXCEPT ![w] = Append(@, Refusable)]
          /\ output' = output
      BY <1>3, <2>3 DEF Pumps
    <3>3. replies' \in [Spawns -> Seq(Lines)]
      BY <1>0, <3>1, <3>2, PutIn DEF PipesTyped
    <3> QED BY <1>0, <1>3, <2>1, <3>2, <3>3 DEF Pumps, PipesTyped
  <2> QED BY <1>1, <1>2, <2>2, <2>3 DEF Typed
<1>4. ASSUME NEW line \in Lines, Says(w, line)
      PROVE  output' \in [Spawns -> Seq(Lines)]
  BY <1>0, <1>4 DEF Says, PipesTyped
<1>5. CASE Boots(w)
  <2>1. output' \in [Spawns -> Seq(Lines)]
    <3>1. CASE bootstrap = 0
      BY <1>0, <1>5, <3>1 DEF Boots, PipesTyped
    <3>2. CASE bootstrap # 0
      <4>1. /\ Line(bootstrap, 1, "hello", 0) \in Lines
            /\ Says(w, Line(bootstrap, 1, "hello", 0))
        BY <1>0, <1>5, <3>2, BoundsTyped, LinesTyped DEF Boots, SlotsTyped
      <4> QED BY <4>1, <1>4
    <3> QED BY <3>1, <3>2
  <2>2. PipesTyped'
    BY <1>0, <1>5, <2>1 DEF Boots, PipesTyped
  <2> QED BY <1>1, <1>2, <2>2 DEF Typed
<1>6. CASE BootsForged(w)
  <2>1. output' \in [Spawns -> Seq(Lines)]
    BY <1>4, <1>6, LinesTyped DEF BootsForged
  <2>2. PipesTyped'
    BY <1>0, <1>6, <2>1 DEF BootsForged, PipesTyped
  <2> QED BY <1>1, <1>2, <2>2 DEF Typed
<1>7. ASSUME input' = input \/
             (input[w] # <<>> /\ input' = [input EXCEPT ![w] = Tail(@)])
      PROVE  /\ input' \in [Spawns -> Seq(Nat)]
             /\ \A v \in Spawns : Len(input'[v]) <= PipeCap
  <2>1. /\ input \in [Spawns -> Seq(Nat)] /\ PipeCap \in Nat
        /\ \A v \in Spawns : Len(input[v]) <= PipeCap
    BY <1>0, BoundsTyped DEF PipesTyped
  <2>2. CASE input' = input
    BY <2>1, <2>2
  <2>3. CASE input[w] # <<>> /\ input' = [input EXCEPT ![w] = Tail(@)]
    <3>1. /\ Tail(input[w]) \in Seq(Nat)
          /\ Len(Tail(input[w])) <= PipeCap
      BY <2>1, <2>3
    <3> QED BY <2>1, <2>3, <3>1
  <2> QED BY <1>7, <2>2, <2>3
<1>8. CASE Answers(w)
  <2>1. Line(w, sendSeq[w] + 1, "proposal", Head(input[w])) \in Lines
    <3>1. Head(input[w]) \in Nat /\ sendSeq[w] + 1 \in Nat
      BY <1>0, <1>8 DEF Answers, PipesTyped, SessionsTyped
    <3> QED BY <3>1, BoundsTyped, LinesTyped DEF Spawns
  <2>2. output' \in [Spawns -> Seq(Lines)]
    BY <1>8, <2>1, <1>4 DEF Answers
  <2>3. PipesTyped'
    BY <1>0, <1>7, <1>8, <2>2 DEF Answers, PipesTyped
  <2> QED BY <1>1, <1>2, <2>3 DEF Typed
<1>9. CASE Dies(w) \/ Hangs(w)
  <2>1. PipesTyped'
    BY <1>0, <1>9, PipesKept DEF Dies, Hangs
  <2> QED BY <1>1, <1>2, <2>1 DEF Typed
<1>10. CASE Misbehaves(w)
  <2>1. OtherLines(w) \subseteq Lines
    <3>1. sendSeq[w] .. sendSeq[w] + 2 \subseteq Nat
      BY <1>0 DEF SessionsTyped
    <3> QED BY <3>1, BoundsTyped, LinesTyped DEF OtherLines, Spawns
  <2>2. output' \in [Spawns -> Seq(Lines)]
    BY <1>10, <2>1, <1>4 DEF Misbehaves
  <2>3. /\ input' \in [Spawns -> Seq(Nat)]
        /\ \A v \in Spawns : Len(input'[v]) <= PipeCap
    BY <1>7, <1>10 DEF Misbehaves
  <2>4. PipesTyped'
    BY <1>0, <1>10, <2>2, <2>3 DEF Misbehaves, PipesTyped
  <2> QED BY <1>1, <1>2, <2>4 DEF Typed
<1> QED BY <1>3, <1>5, <1>6, <1>8, <1>9, <1>10 DEF Worker

LEMMA NextTyped == Typed /\ [Next]_vars => Typed'
<1> SUFFICES ASSUME Typed, [Next]_vars PROVE Typed'
  OBVIOUS
<1> USE DEF boundVars, hostVars, historyVars, callVars
<1>0. PipesTyped /\ SessionsTyped /\ SlotsTyped /\ CallersTyped
  BY DEF Typed
<1>1. ASSUME NEW c \in Callers, Call(c) PROVE Typed'
  BY <1>1, SpawnTyped, ProposeTyped DEF Call, Runs
<1>2. CASE Kill \/ CloseEndsJob \/ CloseBegins \/ UNCHANGED vars
  <2>1. PipesTyped' /\ SessionsTyped'
    BY <1>0, <1>2, PipesKept, SessionsKept
       DEF Kill, CloseEndsJob, CloseBegins, vars
  <2>2. /\ UNCHANGED <<pc, mine, lock, link, spawned, prompts, bootstrap>>
        /\ job' \in {job, 0} /\ pid' \in {pid, 0}
    BY <1>2 DEF Kill, CloseEndsJob, CloseBegins, vars
  <2>3. CallersTyped' /\ SlotsTyped'
    BY <1>0, <2>2 DEF CallersTyped, SlotsTyped
  <2> QED BY <2>1, <2>3 DEF Typed
<1>3. CASE CloseDrops
  <2>1. PipesTyped' /\ SessionsTyped' /\ link' = 0
    <3>1. link \in 0..MaxSpawns /\ Drop(link) /\ link' = 0 /\ worker' = worker
      BY <1>0, <1>3, BoundsTyped DEF CloseDrops, SlotsTyped
    <3> QED BY <1>0, <3>1, DropTyped DEF PipesTyped
  <2>2. CallersTyped' /\ SlotsTyped'
    BY <1>0, <1>3, <2>1 DEF CloseDrops, CallersTyped, SlotsTyped
  <2> QED BY <2>1, <2>2 DEF Typed
<1> QED BY <1>1, <1>2, <1>3, WorkerTyped DEF Next

LEMMA TypedAlways == Spec => []Typed
BY InitTyped, NextTyped, PTL DEF Spec

(* For every interleaving of spawns, proposes, kills and faults: each      *)
(* variable keeps to its kind, the pipes to their bounds, and whoever      *)
(* waits for an answer holds the lock of an installed link.                *)
THEOREM TypeCorrect == Spec => []TypeOK
<1>1. Typed => TypeOK
  <2> SUFFICES ASSUME Typed PROVE TypeOK
    OBVIOUS
  <2>1. PipesTyped /\ SessionsTyped /\ SlotsTyped /\ CallersTyped
    BY DEF Typed
  <2>2. \A w \in Spawns :
          ToSet(output[w]) \union ToSet(replies[w]) \subseteq Lines
    BY <2>1 DEF PipesTyped, ToSet
  <2> QED BY <2>1, <2>2, BoundsTyped
          DEF TypeOK, PipesTyped, SessionsTyped, SlotsTyped, CallersTyped,
              Labels
<1> QED BY <1>1, TypedAlways, PTL

-----------------------------------------------------------------------------
LEMMA ConcatAppend ==
  ASSUME NEW S, NEW s \in Seq(S), NEW t \in Seq(S), NEW e \in S
  PROVE  s \o Append(t, e) = Append(s \o t, e)
BY AppendIsConcat, ConcatAssociative, ConcatProperties, AppendProperties

LEMMA ConcatMove ==
  ASSUME NEW S, NEW s \in Seq(S), NEW t \in Seq(S), t # <<>>
  PROVE  Append(s, Head(t)) \o Tail(t) = s \o t
<1>1. Append(s, Head(t)) \in Seq(S) /\ Tail(t) \in Seq(S) /\ s \o t \in Seq(S)
  BY HeadTailProperties, AppendProperties, ConcatProperties
<1>2. Append(s, Head(t)) \o Tail(t) \in Seq(S)
  BY <1>1, ConcatProperties
<1>3. Len(Append(s, Head(t)) \o Tail(t)) = Len(s \o t)
  BY <1>1, HeadTailProperties, AppendProperties, ConcatProperties
<1>4. ASSUME NEW i \in 1..Len(s \o t)
      PROVE  (Append(s, Head(t)) \o Tail(t))[i] = (s \o t)[i]
  BY <1>1, HeadTailProperties, AppendProperties, ConcatProperties
<1> QED BY <1>1, <1>2, <1>3, <1>4, SeqEqual

LEMMA ConcatTail ==
  ASSUME NEW S, NEW s \in Seq(S), NEW t \in Seq(S), s # <<>>
  PROVE  /\ Tail(s) \o t = Tail(s \o t) /\ Head(s) = Head(s \o t)
         /\ s \o t # <<>>
<1>1. Tail(s) \in Seq(S) /\ s \o t \in Seq(S) /\ s \o t # <<>>
  BY HeadTailProperties, ConcatProperties, EmptySeq
<1>2. Tail(s) \o t \in Seq(S) /\ Tail(s \o t) \in Seq(S)
  BY <1>1, ConcatProperties, HeadTailProperties
<1>3. Len(Tail(s) \o t) = Len(Tail(s \o t))
  BY <1>1, ConcatProperties, HeadTailProperties
<1>4. ASSUME NEW i \in 1..Len(Tail(s) \o t)
      PROVE  (Tail(s) \o t)[i] = Tail(s \o t)[i]
  BY <1>1, <1>3, ConcatProperties, HeadTailProperties
<1>5. Tail(s) \o t = Tail(s \o t)
  BY <1>2, <1>3, <1>4, SeqEqual
<1>6. Head(s) = Head(s \o t)
  BY <1>1, ConcatProperties, HeadTailProperties, EmptySeq
<1> QED BY <1>1, <1>5, <1>6

-----------------------------------------------------------------------------
(* Flow, as prompts and lines are written and read.                        *)
LEMMA FlowStart ==
  ASSUME NEW key
  PROVE  Flow(<<>>, <<>>, <<>>, key, 2, 1, 0)
<1>1. 0 \in 0..Len(<<>>)
  OBVIOUS
<1> QED BY <1>1 DEF Flow

LEMMA FlowPrompt ==
  ASSUME NEW lines \in Seq(Lines), NEW q \in Seq(Nat), NEW s \in Seq(Nat),
         NEW key, NEW r \in Nat, NEW n \in Nat, NEW a \in Nat, NEW x \in Nat,
         Flow(lines, q, s, key, r, n, a)
  PROVE  Flow(lines, Append(q, x), Append(s, x), key, r, n, a)
<1> PICK m \in 0..Len(lines) :
      /\ a + m <= Len(s)
      /\ \A p \in 1..m :
           Due(key, r + p - 1, lines[p]) /\ lines[p].of = s[a + p]
      /\ \/ m < Len(lines) /\ ~Due(key, r + m, lines[m + 1])
         \/ /\ m = Len(lines) /\ n = r + m - 1 /\ Len(s) = a + m + Len(q)
            /\ \A k \in 1..Len(q) : q[k] = s[a + m + k]
  BY DEF Flow
<1> DEFINE s1 == Append(s, x)
           q1 == Append(q, x)
           S == Len(s)
           Q == Len(q)
<1>0. S \in Nat /\ Q \in Nat /\ m \in Nat
  OBVIOUS
<1>1. /\ Len(s1) = S + 1 /\ Len(q1) = Q + 1
      /\ \A k \in 1..S : s1[k] = s[k]
      /\ \A k \in 1..Q : q1[k] = q[k]
      /\ s1[S + 1] = x /\ q1[Q + 1] = x
  OBVIOUS
<1>2. /\ a + m <= S
      /\ \A p \in 1..m :
           Due(key, r + p - 1, lines[p]) /\ lines[p].of = s[a + p]
      /\ \/ m < Len(lines) /\ ~Due(key, r + m, lines[m + 1])
         \/ /\ m = Len(lines) /\ n = r + m - 1 /\ S = a + m + Q
            /\ \A k \in 1..Q : q[k] = s[a + m + k]
  OBVIOUS
<1> HIDE DEF s1, q1, S, Q
<1>3. \A p \in 1..m : a + p \in 1..S
  BY <1>0, <1>2
<1>4. \A p \in 1..m : lines[p].of = s1[a + p]
  BY <1>1, <1>2, <1>3
<1>5. ASSUME S = a + m + Q, \A k \in 1..Q : q[k] = s[a + m + k],
             NEW k \in 1..Q + 1
      PROVE  q1[k] = s1[a + m + k]
  <2>1. CASE k \in 1..Q
    <3>1. a + m + k \in 1..S
      BY <1>0, <1>5, <2>1
    <3>2. s1[a + m + k] = s[a + m + k] /\ q1[k] = q[k]
      BY <1>1, <2>1, <3>1
    <3> QED BY <1>5, <2>1, <3>2
  <2>2. CASE k = Q + 1
    <3>1. a + m + k = S + 1
      BY <1>0, <1>5, <2>2
    <3> QED BY <1>1, <2>2, <3>1
  <2>3. k \in 1..Q \/ k = Q + 1
    BY <1>0
  <2> QED BY <2>1, <2>2, <2>3
<1>6. a + m <= Len(s1)
  BY <1>0, <1>1, <1>2
<1>7. \/ m < Len(lines) /\ ~Due(key, r + m, lines[m + 1])
      \/ /\ m = Len(lines) /\ n = r + m - 1 /\ Len(s1) = a + m + Len(q1)
         /\ \A k \in 1..Len(q1) : q1[k] = s1[a + m + k]
  <2>1. CASE m < Len(lines) /\ ~Due(key, r + m, lines[m + 1])
    BY <2>1
  <2>2. CASE /\ m = Len(lines) /\ n = r + m - 1 /\ S = a + m + Q
             /\ \A k \in 1..Q : q[k] = s[a + m + k]
    <3>1. Len(s1) = a + m + Len(q1)
      BY <1>0, <1>1, <2>2
    <3>2. \A k \in 1..Len(q1) : q1[k] = s1[a + m + k]
      BY <1>1, <1>5, <2>2
    <3> QED BY <2>2, <3>1, <3>2
  <2> QED BY <1>2, <2>1, <2>2
<1>8. Flow(lines, q1, s1, key, r, n, a)
  BY <1>2, <1>4, <1>6, <1>7 DEF Flow
<1> QED BY <1>8 DEF s1, q1

LEMMA FlowAnswer ==
  ASSUME NEW lines \in Seq(Lines), NEW q \in Seq(Nat), NEW s \in Seq(Nat),
         NEW key \in 0..MaxSpawns, NEW r \in Nat, NEW n \in Nat, NEW a \in Nat,
         q # <<>>, Flow(lines, q, s, key, r, n, a),
         NEW line, line = Line(key, n + 1, "proposal", Head(q))
  PROVE  Flow(Append(lines, line), Tail(q), s, key, r, n + 1, a)
<1> PICK m \in 0..Len(lines) :
      /\ a + m <= Len(s)
      /\ \A p \in 1..m :
           Due(key, r + p - 1, lines[p]) /\ lines[p].of = s[a + p]
      /\ \/ m < Len(lines) /\ ~Due(key, r + m, lines[m + 1])
         \/ /\ m = Len(lines) /\ n = r + m - 1 /\ Len(s) = a + m + Len(q)
            /\ \A k \in 1..Len(q) : q[k] = s[a + m + k]
  BY DEF Flow
<1> DEFINE l1 == Append(lines, line)
           q1 == Tail(q)
           L == Len(lines)
           Q == Len(q)
           S == Len(s)
<1>0. /\ Head(q) \in Nat /\ Head(q) = q[1]
      /\ Len(q1) = Q - 1 /\ Q \in Nat /\ Q >= 1
      /\ \A k \in 1..Q - 1 : q1[k] = q[k + 1]
      /\ m \in Nat /\ L \in Nat /\ m <= L /\ S \in Nat
  OBVIOUS
<1>1. line \in Lines /\ line.of = q[1] /\ Due(key, n + 1, line)
  <2>1. n + 1 \in Nat /\ Head(q) \in Nat
    BY <1>0
  <2>2. /\ line \in Lines /\ line.key = key /\ line.no = n + 1
        /\ line.type = "proposal" /\ line.of = Head(q)
    BY <2>1 DEF Line, Lines
  <2> QED BY <1>0, <2>2 DEF Due
<1>2. /\ Len(l1) = L + 1
      /\ \A p \in 1..L : l1[p] = lines[p]
      /\ l1[L + 1] = line
  BY <1>1
<1>3. /\ a + m <= S
      /\ \A p \in 1..m :
           Due(key, r + p - 1, lines[p]) /\ lines[p].of = s[a + p]
      /\ \/ m < L /\ ~Due(key, r + m, lines[m + 1])
         \/ /\ m = L /\ n = r + m - 1 /\ S = a + m + Q
            /\ \A k \in 1..Q : q[k] = s[a + m + k]
  OBVIOUS
<1> HIDE DEF l1, q1, L, Q, S
<1>4. ASSUME NEW p \in 1..m
      PROVE  Due(key, r + p - 1, l1[p]) /\ l1[p].of = s[a + p]
  <2>1. p \in 1..L
    BY <1>0
  <2>2. l1[p] = lines[p]
    BY <1>2, <2>1
  <2> QED BY <1>3, <2>2
<1>5. CASE m < L /\ ~Due(key, r + m, lines[m + 1])
  <2>1. m \in 0..Len(l1) /\ m < Len(l1) /\ l1[m + 1] = lines[m + 1]
    BY <1>0, <1>2, <1>5
  <2>2. a + m <= Len(s)
    BY <1>3 DEF S
  <2>3. Flow(l1, q1, s, key, r, n + 1, a)
    BY <1>4, <1>5, <2>1, <2>2 DEF Flow
  <2> QED BY <2>3 DEF l1, q1
<1>6. CASE /\ m = L /\ n = r + m - 1 /\ S = a + m + Q
           /\ \A k \in 1..Q : q[k] = s[a + m + k]
  <2> DEFINE new == m + 1
  <2>1. /\ new \in 0..Len(l1) /\ a + new <= S
        /\ new = Len(l1) /\ n + 1 = r + new - 1
        /\ S = a + new + Len(q1)
    <3>1. m = L /\ n = r + m - 1 /\ S = a + m + Q
      BY <1>6
    <3>2. Len(l1) = L + 1 /\ Len(q1) = Q - 1
      BY <1>0, <1>2
    <3>3. m \in Nat /\ L \in Nat /\ Q \in Nat /\ Q >= 1 /\ S \in Nat
      BY <1>0
    <3> HIDE DEF l1, q1
    <3>4. new \in 0..Len(l1) /\ new = Len(l1)
      BY <3>1, <3>2, <3>3
    <3>5. n + 1 = r + new - 1
      BY <3>1, <3>3
    <3>6. S = a + new + Len(q1)
      BY <3>1, <3>2, <3>3
    <3>7. a + new <= S
      BY <3>1, <3>3
    <3> QED BY <3>4, <3>5, <3>6, <3>7
  <2>2. ASSUME NEW p \in 1..new
        PROVE  Due(key, r + p - 1, l1[p]) /\ l1[p].of = s[a + p]
    <3>1. CASE p = new
      <4>1. l1[p] = line /\ r + p - 1 = n + 1
        BY <1>0, <1>2, <1>6, <3>1
      <4>2. s[a + p] = q[1]
        <5>1. a + p = a + m + 1 /\ 1 \in 1..Q
          BY <1>0, <3>1
        <5> QED BY <1>6, <5>1
      <4> QED BY <1>1, <4>1, <4>2
    <3>2. CASE p \in 1..m
      BY <1>4, <3>2
    <3>3. p = new \/ p \in 1..m
      BY <1>0
    <3> QED BY <3>1, <3>2, <3>3
  <2>3. ASSUME NEW k \in 1..Len(q1)
        PROVE  q1[k] = s[a + new + k]
    <3>1. k + 1 \in 1..Q /\ k \in 1..Q - 1 /\ a + m + (k + 1) = a + new + k
      BY <1>0
    <3>2. q[k + 1] = s[a + m + (k + 1)]
      BY <1>6, <3>1
    <3> QED BY <1>0, <3>1, <3>2
  <2>4. a + new <= Len(s) /\ Len(s) = a + new + Len(q1)
    BY <2>1 DEF S
  <2> HIDE DEF new
  <2>5. Flow(l1, q1, s, key, r, n + 1, a)
    BY <2>1, <2>2, <2>3, <2>4 DEF Flow
  <2> QED BY <2>5 DEF l1, q1
<1> QED BY <1>3, <1>5, <1>6

LEMMA FlowOther ==
  ASSUME NEW lines \in Seq(Lines), NEW q, NEW s \in Seq(Nat),
         NEW key, NEW r \in Nat, NEW n \in Nat, NEW a \in Nat,
         Flow(lines, q, s, key, r, n, a),
         NEW line \in Lines, ~Due(key, n + 1, line), NEW p1, NEW n1
  PROVE  Flow(Append(lines, line), p1, s, key, r, n1, a)
<1> PICK m \in 0..Len(lines) :
      /\ a + m <= Len(s)
      /\ \A p \in 1..m :
           Due(key, r + p - 1, lines[p]) /\ lines[p].of = s[a + p]
      /\ \/ m < Len(lines) /\ ~Due(key, r + m, lines[m + 1])
         \/ m = Len(lines) /\ n = r + m - 1
  BY DEF Flow
<1> DEFINE l1 == Append(lines, line)
           L == Len(lines)
<1>1. /\ Len(l1) = L + 1
      /\ \A p \in 1..L : l1[p] = lines[p]
      /\ l1[L + 1] = line
      /\ m \in Nat /\ L \in Nat /\ m <= L
  OBVIOUS
<1>2. /\ \A p \in 1..m :
           Due(key, r + p - 1, lines[p]) /\ lines[p].of = s[a + p]
      /\ \/ m < L /\ ~Due(key, r + m, lines[m + 1])
         \/ m = L /\ n = r + m - 1
  OBVIOUS
<1> HIDE DEF l1, L
<1>3. m \in 0..Len(l1) /\ m < Len(l1)
  BY <1>1
<1>4. ASSUME NEW p \in 1..m
      PROVE  Due(key, r + p - 1, l1[p]) /\ l1[p].of = s[a + p]
  <2>1. p \in 1..L
    BY <1>1
  <2>2. l1[p] = lines[p]
    BY <1>1, <2>1
  <2> QED BY <1>2, <2>2
<1>5. ~Due(key, r + m, l1[m + 1])
  <2>1. CASE m < L /\ ~Due(key, r + m, lines[m + 1])
    <3>1. m + 1 \in 1..L
      BY <1>1, <2>1
    <3> QED BY <1>1, <2>1, <3>1
  <2>2. CASE m = L /\ n = r + m - 1
    <3>1. r + m = n + 1 /\ l1[m + 1] = line
      BY <1>1, <2>2
    <3> QED BY <3>1
  <2> QED BY <1>2, <2>1, <2>2
<1>6. Flow(l1, p1, s, key, r, n1, a)
  BY <1>3, <1>4, <1>5 DEF Flow
<1> QED BY <1>6 DEF l1

LEMMA FlowTaken ==
  ASSUME NEW lines \in Seq(Lines), NEW q \in Seq(Nat), NEW s \in Seq(Nat),
         NEW key, NEW r \in Nat, NEW n \in Nat, NEW a \in Nat,
         Flow(lines, q, s, key, r, n, a),
         lines # <<>>, Due(key, r, Head(lines))
  PROVE  /\ a + 1 \in DOMAIN s /\ Head(lines).of = s[a + 1]
         /\ Flow(Tail(lines), q, s, key, r + 1, n, a + 1)
<1> PICK m \in 0..Len(lines) :
      /\ a + m <= Len(s)
      /\ \A p \in 1..m :
           Due(key, r + p - 1, lines[p]) /\ lines[p].of = s[a + p]
      /\ \/ m < Len(lines) /\ ~Due(key, r + m, lines[m + 1])
         \/ /\ m = Len(lines) /\ n = r + m - 1 /\ Len(s) = a + m + Len(q)
            /\ \A k \in 1..Len(q) : q[k] = s[a + m + k]
  BY DEF Flow
<1> DEFINE l1 == Tail(lines)
           L == Len(lines)
           Q == Len(q)
           S == Len(s)
           new == m - 1
<1>0. /\ Head(lines) = lines[1] /\ Len(l1) = L - 1 /\ L \in Nat /\ L >= 1
      /\ \A p \in 1..L - 1 : l1[p] = lines[p + 1]
      /\ m \in Nat /\ m <= L /\ S \in Nat /\ Q \in Nat /\ DOMAIN s = 1..S
  OBVIOUS
<1>2. /\ a + m <= S
      /\ \A p \in 1..m :
           Due(key, r + p - 1, lines[p]) /\ lines[p].of = s[a + p]
      /\ \/ m < L /\ ~Due(key, r + m, lines[m + 1])
         \/ /\ m = L /\ n = r + m - 1 /\ S = a + m + Q
            /\ \A k \in 1..Q : q[k] = s[a + m + k]
  OBVIOUS
<1> HIDE DEF l1, L, Q, S
<1>3. m >= 1
  <2> SUFFICES ASSUME m = 0 PROVE FALSE
    BY <1>0
  <2>1. r + m = r /\ lines[m + 1] = Head(lines) /\ m # L
    BY <1>0
  <2> QED BY <1>2, <2>1
<1>4. a + 1 \in DOMAIN s /\ Head(lines).of = s[a + 1]
  <2>1. 1 \in 1..m /\ a + 1 \in 1..S
    BY <1>0, <1>2, <1>3
  <2> QED BY <1>0, <1>2, <2>1
<1>5. new \in 0..Len(l1) /\ a + 1 + new <= S
  BY <1>0, <1>2, <1>3
<1>6. ASSUME NEW p \in 1..new
      PROVE  Due(key, r + 1 + p - 1, l1[p]) /\ l1[p].of = s[a + 1 + p]
  <2>1. /\ p + 1 \in 1..m /\ p \in 1..L - 1
        /\ r + 1 + p - 1 = r + (p + 1) - 1 /\ a + 1 + p = a + (p + 1)
    BY <1>0, <1>3
  <2>2. l1[p] = lines[p + 1]
    BY <1>0, <2>1
  <2>3. /\ Due(key, r + (p + 1) - 1, lines[p + 1])
        /\ lines[p + 1].of = s[a + (p + 1)]
    BY <1>2, <2>1
  <2> QED BY <2>1, <2>2, <2>3
<1>7. \/ new < Len(l1) /\ ~Due(key, r + 1 + new, l1[new + 1])
      \/ /\ new = Len(l1) /\ n = r + 1 + new - 1 /\ S = a + 1 + new + Q
         /\ \A k \in 1..Q : q[k] = s[a + 1 + new + k]
  <2>1. CASE m < L /\ ~Due(key, r + m, lines[m + 1])
    <3>1. /\ new < Len(l1) /\ new + 1 \in 1..L - 1
          /\ r + 1 + new = r + m /\ new + 1 + 1 = m + 1
      <4>1. m < L
        BY <2>1
      <4>2. Len(l1) = L - 1 /\ L \in Nat /\ m \in Nat
        BY <1>0
      <4>3. new < L - 1 /\ new + 1 \in 1..L - 1
        BY <1>3, <4>1, <4>2
      <4>4. r + 1 + new = r + m /\ new + 1 + 1 = m + 1
        BY <4>2
      <4> QED BY <4>2, <4>3, <4>4
    <3>2. l1[new + 1] = lines[m + 1]
      BY <1>0, <3>1
    <3> QED BY <2>1, <3>1, <3>2
  <2>2. CASE /\ m = L /\ n = r + m - 1 /\ S = a + m + Q
             /\ \A k \in 1..Q : q[k] = s[a + m + k]
    <3>1. /\ new = Len(l1) /\ n = r + 1 + new - 1
          /\ a + 1 + new = a + m
      <4>1. m = L /\ n = r + m - 1
        BY <2>2
      <4>2. Len(l1) = L - 1 /\ L \in Nat /\ m \in Nat
        BY <1>0
      <4>3. new = Len(l1) /\ a + 1 + new = a + m
        BY <4>1, <4>2
      <4>4. n = r + 1 + new - 1
        BY <4>1, <4>2
      <4> QED BY <4>3, <4>4
    <3> QED BY <2>2, <3>1
  <2> QED BY <1>2, <2>1, <2>2
<1> HIDE DEF new
<1>8. Flow(l1, q, s, key, r + 1, n, a + 1)
  <2>1. /\ a + 1 + new <= Len(s)
        /\ \/ new < Len(l1) /\ ~Due(key, r + 1 + new, l1[new + 1])
           \/ /\ new = Len(l1) /\ n = r + 1 + new - 1
              /\ Len(s) = a + 1 + new + Len(q)
              /\ \A k \in 1..Len(q) : q[k] = s[a + 1 + new + k]
    BY <1>5, <1>7 DEF S, Q
  <2> QED BY <1>5, <1>6, <2>1 DEF Flow
<1> QED BY <1>4, <1>8 DEF l1

-----------------------------------------------------------------------------
(* What a step does to the lines of a worker.                              *)
LEMMA WireTyped ==
  ASSUME Typed
  PROVE  \A w \in Spawns : /\ replies[w] \in Seq(Lines)
                           /\ output[w] \in Seq(Lines)
                           /\ Wire(w) \in Seq(Lines)
BY ConcatProperties DEF Typed, PipesTyped, Wire

LEMMA WireKept ==
  UNCHANGED <<replies, output>> => \A w \in Spawns : Wire(w)' = Wire(w)
BY DEF Wire

LEMMA WireSays ==
  ASSUME Typed, NEW w \in Spawns, NEW line \in Lines, Says(w, line),
         \A v \in Spawns : replies'[v] = replies[v]
  PROVE  /\ Wire(w)' = Append(Wire(w), line)
         /\ \A v \in Spawns \ {w} : Wire(v)' = Wire(v)
<1>0. output \in [Spawns -> Seq(Lines)]
  BY DEF Typed, PipesTyped
<1>1. /\ output'[w] = Append(output[w], line)
      /\ \A v \in Spawns \ {w} : output'[v] = output[v]
  BY <1>0 DEF Says
<1>2. replies[w] \o Append(output[w], line)
        = Append(replies[w] \o output[w], line)
  <2>1. replies[w] \in Seq(Lines) /\ output[w] \in Seq(Lines)
    BY WireTyped
  <2>2. \A s, t \in Seq(Lines) : s \o Append(t, line) = Append(s \o t, line)
    BY ConcatAppend
  <2> QED BY <2>1, <2>2, Zenon
<1>3. Wire(w)' = Append(Wire(w), line)
  BY <1>1, <1>2 DEF Wire
<1> QED BY <1>1, <1>3 DEF Wire

LEMMA WireTakes ==
  ASSUME Typed, NEW w \in Spawns, Take(w), replies[w] # <<>>,
         output' = output
  PROVE  /\ Wire(w) # <<>> /\ Head(Wire(w)) = Head(replies[w])
         /\ Wire(w)' = Tail(Wire(w))
         /\ \A v \in Spawns \ {w} : Wire(v)' = Wire(v)
<1>1. /\ replies'[w] = Tail(replies[w])
      /\ \A v \in Spawns \ {w} : replies'[v] = replies[v]
  BY DEF Take, Typed, PipesTyped
<1>2. /\ Wire(w) # <<>> /\ Head(Wire(w)) = Head(replies[w])
      /\ Wire(w)' = Tail(Wire(w))
  BY <1>1, WireTyped, ConcatTail DEF Wire
<1> QED BY <1>1, <1>2 DEF Wire

LEMMA WirePumps ==
  ASSUME Typed, NEW w \in Spawns, Pumps(w)
  PROVE  /\ \/ Wire(w)' = Wire(w)
            \/ worker[w] = "dead" /\ Wire(w)' = Append(Wire(w), Refusable)
         /\ \A v \in Spawns \ {w} : Wire(v)' = Wire(v)
<1>1. \A v \in Spawns \ {w} : replies'[v] = replies[v] /\ output'[v] = output[v]
  BY DEF Pumps, Typed, PipesTyped
<1>2. CASE output[w] # <<>>
  <2>1. /\ replies'[w] = Append(replies[w], Head(output[w]))
        /\ output'[w] = Tail(output[w])
    BY <1>2 DEF Pumps, Typed, PipesTyped
  <2>2. Wire(w)' = Wire(w)
    BY <1>2, <2>1, WireTyped, ConcatMove DEF Wire
  <2> QED BY <1>1, <2>2 DEF Wire
<1>3. CASE output[w] = <<>>
  <2>1. /\ replies'[w] = Append(replies[w], Refusable) /\ output'[w] = <<>>
        /\ worker[w] = "dead"
    BY <1>3 DEF Pumps, Typed, PipesTyped
  <2>2. Refusable \in Lines
    BY LinesTyped
  <2>3. Append(replies[w], Refusable) \in Seq(Lines)
    BY <2>2, WireTyped, AppendProperties
  <2>4. /\ Wire(w)' = Append(replies[w], Refusable) /\ Wire(w) = replies[w]
    BY <1>3, <2>1, <2>3, WireTyped, ConcatEmptySeq DEF Wire
  <2> QED BY <1>1, <2>1, <2>4 DEF Wire
<1> QED BY <1>2, <1>3

-----------------------------------------------------------------------------
(* What a step leaves alone: a worker, but that it may be killed.          *)
Still(w) ==
  /\ worker'[w] = worker[w] \/ (Alive(w) /\ worker'[w] = "dead")
  /\ input'[w] = input[w] /\ output'[w] = output[w]
  /\ replies'[w] = replies[w] /\ asked'[w] = asked[w]
  /\ sendSeq'[w] = sendSeq[w] /\ recvSeq'[w] = recvSeq[w]
  /\ sent'[w] = sent[w] /\ accepted'[w] = accepted[w]
  /\ w \in strayed' <=> w \in strayed

LEMMA KilledStill ==
  ASSUME NEW ws, NEW w \in Spawns
  PROVE  Killed(ws)[w] = worker[w] \/ (Alive(w) /\ Killed(ws)[w] = "dead")
BY DEF Killed

LEMMA AllStill ==
  ASSUME UNCHANGED <<pipeVars, seqVars, sent, accepted, strayed>>,
         NEW w \in Spawns,
         worker'[w] = worker[w] \/ (Alive(w) /\ worker'[w] = "dead")
  PROVE  Still(w)
BY DEF Still, pipeVars, seqVars

LEMMA DropStill ==
  ASSUME Typed, NEW v \in 0..MaxSpawns, Drop(v), NEW w \in Spawns, w # v,
         worker'[w] = worker[w] \/ (Alive(w) /\ worker'[w] = "dead")
  PROVE  Still(w)
<1>1. CASE v = 0
  BY <1>1, AllStill DEF Drop
<1>2. CASE v # 0
  <2>1. /\ input' = [input EXCEPT ![v] = <<>>]
        /\ output' = [output EXCEPT ![v] = <<>>]
        /\ replies' = [replies EXCEPT ![v] = <<>>]
        /\ asked' = [asked EXCEPT ![v] = 0]
        /\ sent' = [sent EXCEPT ![v] = <<>>]
        /\ accepted' = [accepted EXCEPT ![v] = <<>>]
        /\ sendSeq' = [sendSeq EXCEPT ![v] = 0]
        /\ recvSeq' = [recvSeq EXCEPT ![v] = 1]
        /\ strayed' = strayed \ {v}
    BY <1>2 DEF Drop, Emptied
  <2>2. /\ input'[w] = input[w] /\ output'[w] = output[w]
        /\ replies'[w] = replies[w] /\ asked'[w] = asked[w]
    BY <2>1 DEF Typed, PipesTyped
  <2>3. /\ sendSeq'[w] = sendSeq[w] /\ recvSeq'[w] = recvSeq[w]
        /\ sent'[w] = sent[w] /\ accepted'[w] = accepted[w]
        /\ w \in strayed' <=> w \in strayed
    BY <2>1 DEF Typed, SessionsTyped
  <2> QED BY <2>2, <2>3 DEF Still
<1> QED BY <1>1, <1>2

(* Whoever proposes or reads does so with the link that is installed.      *)
LEMMA LinkHeld ==
  ASSUME Typed, NEW c \in Callers, pc[c] \in {"write", "read"}
  PROVE  lock = c /\ link \in Spawns /\ link # 0 /\ mine[c] \in Nat
BY BoundsTyped DEF Typed, SlotsTyped, CallersTyped, Spawns

LEMMA MineSpawned ==
  ASSUME Typed, NEW c \in Callers, pc[c] \in {"hello", "install", "pid"}
  PROVE  mine[c] \in Spawns /\ mine[c] \in 1..spawned
BY BoundsTyped DEF Typed, SlotsTyped, CallersTyped, Spawns

(* A call leaves alone all but its link, its spawn and the worker it starts.*)
LEMMA CallStill ==
  ASSUME Typed, NEW c \in Callers, Call(c), NEW w \in Spawns,
         w = link => ~SpawnDrops(c) /\ ~Writes(c) /\ ~Receives(c),
         pc[c] = "hello" => w # mine[c],
         SpawnStarts(c) => w # spawned'
  PROVE  Still(w)
<1> USE DEF historyVars
<1>0. PipesTyped /\ SessionsTyped /\ link \in 0..MaxSpawns
  BY BoundsTyped DEF Typed, SlotsTyped
<1>1. CASE SpawnDrops(c)
  <2>1. Drop(link) /\ w # link /\ worker' = worker
    BY <1>1 DEF SpawnDrops
  <2> QED BY <1>0, <2>1, DropStill
<1>2. CASE SpawnStarts(c)
  <2>1. /\ worker' = [Killed({job}) EXCEPT ![spawned'] = "booting"]
        /\ asked' = [asked EXCEPT ![spawned'] = 1] /\ w # spawned'
        /\ UNCHANGED <<input, output, replies, seqVars, historyVars>>
    BY <1>2 DEF SpawnStarts
  <2>2. worker'[w] = Killed({job})[w] /\ asked'[w] = asked[w]
    BY <1>0, <2>1, KilledTyped DEF PipesTyped
  <2> QED BY <2>1, <2>2, KilledStill DEF Still, seqVars
<1>3. CASE SpawnFails(c)
  <2>1. /\ worker' = Killed({job}) /\ UNCHANGED <<pipeVars, seqVars, sent,
                                                  accepted, strayed>>
    BY <1>3 DEF SpawnFails
  <2> QED BY <2>1, KilledStill, AllStill
<1>4. ASSUME pc[c] = "hello", Abandon(c) PROVE Still(w)
  <2>1. /\ Drop(mine[c]) /\ worker' = Killed({job, mine[c]})
        /\ w # mine[c] /\ mine[c] \in 0..MaxSpawns
    BY <1>4, MineSpawned DEF Abandon, Spawns
  <2> QED BY <2>1, KilledStill, DropStill
<1>5. CASE HelloIsLate(c) \/ HelloIsRefused(c) \/ HelloTimesOut(c)
  BY <1>4, <1>5 DEF HelloIsLate, HelloIsRefused, HelloTimesOut
<1>6. CASE HelloArrives(c)
  <2>1. /\ pc[c] = "hello" /\ Take(mine[c]) /\ w # mine[c]
        /\ \E line : Received(mine[c], line)
        /\ UNCHANGED <<worker, input, output, asked, sendSeq, historyVars>>
    BY <1>6 DEF HelloArrives
  <2>2. replies'[w] = replies[w] /\ recvSeq'[w] = recvSeq[w]
    BY <1>0, <2>1 DEF Take, Received, PipesTyped, SessionsTyped
  <2> QED BY <2>1, <2>2 DEF Still
<1>7. CASE Installs(c) \/ NotesPid(c) \/ ProposeBegins(c) \/ ProposeLocks(c)
           \/ TimesOut(c)
  BY <1>7, AllStill DEF Installs, NotesPid, ProposeBegins, ProposeLocks,
                        TimesOut
<1>8. CASE Writes(c)
  <2>1. /\ w # link
        /\ \/ input' = input
           \/ input' = [input EXCEPT ![link] = Append(@, mine[c])]
        /\ sent' = sent \/ sent' = [sent EXCEPT ![link] = Append(@, mine[c])]
        /\ asked' = asked \/ asked' = [asked EXCEPT ![link] = @ + 1]
        /\ UNCHANGED <<worker, output, replies, seqVars, accepted, strayed>>
    BY <1>8 DEF Writes
  <2>2. input'[w] = input[w] /\ asked'[w] = asked[w] /\ sent'[w] = sent[w]
    BY <1>0, <2>1 DEF PipesTyped, SessionsTyped
  <2> QED BY <2>1, <2>2 DEF Still, seqVars
<1>9. CASE Receives(c)
  <2>1. /\ w # link /\ Take(link) /\ \E line : Received(link, line)
        /\ \/ accepted' = accepted
           \/ \E a : accepted' = [accepted EXCEPT ![link] = Append(@, a)]
        /\ strayed' = strayed \/ strayed' = strayed \cup {link}
        /\ UNCHANGED <<worker, input, output, asked, sendSeq, sent>>
    BY <1>9 DEF Receives
  <2>2. /\ replies'[w] = replies[w] /\ recvSeq'[w] = recvSeq[w]
        /\ accepted'[w] = accepted[w]
    BY <1>0, <2>1 DEF Take, Received, PipesTyped, SessionsTyped
  <2> QED BY <2>1, <2>2 DEF Still
<1> QED BY <1>1, <1>2, <1>3, <1>5, <1>6, <1>7, <1>8, <1>9 DEF Call, Runs

LEMMA WorkerStill ==
  ASSUME Typed, NEW v \in Spawns, Worker(v), NEW w \in Spawns, w # v
  PROVE  Still(w)
<1> USE DEF historyVars
<1>0. PipesTyped /\ SessionsTyped
  BY DEF Typed
<1>1. /\ worker' = worker \/ \E s : worker' = [worker EXCEPT ![v] = s]
      /\ input' = input \/ \E s : input' = [input EXCEPT ![v] = s]
      /\ output' = output \/ \E s : output' = [output EXCEPT ![v] = s]
      /\ replies' = replies \/ \E s : replies' = [replies EXCEPT ![v] = s]
      /\ asked' = asked \/ \E s : asked' = [asked EXCEPT ![v] = s]
      /\ sendSeq' = sendSeq \/ \E s : sendSeq' = [sendSeq EXCEPT ![v] = s]
      /\ strayed' = strayed \/ strayed' = strayed \cup {v}
      /\ UNCHANGED <<recvSeq, sent, accepted>>
  <2>1. CASE Pumps(v)
    BY <2>1 DEF Pumps, seqVars
  <2>2. CASE Boots(v)
    BY <2>2 DEF Boots, Says, Numbers
  <2>3. CASE BootsForged(v)
    BY <2>3 DEF BootsForged, Says, Numbers
  <2>4. CASE Answers(v)
    BY <2>4 DEF Answers, Says, Numbers
  <2>5. CASE Dies(v) \/ Hangs(v)
    BY <2>5 DEF Dies, Hangs, pipeVars, seqVars
  <2>6. CASE Misbehaves(v)
    BY <2>6 DEF Misbehaves, Says, Numbers
  <2> QED BY <2>1, <2>2, <2>3, <2>4, <2>5, <2>6 DEF Worker
<1>2. worker'[w] = worker[w] /\ input'[w] = input[w] /\ output'[w] = output[w]
  BY <1>0, <1>1 DEF PipesTyped
<1>3. replies'[w] = replies[w] /\ asked'[w] = asked[w]
  BY <1>0, <1>1 DEF PipesTyped
<1>4. sendSeq'[w] = sendSeq[w] /\ (w \in strayed' <=> w \in strayed)
  BY <1>0, <1>1 DEF SessionsTyped
<1> QED BY <1>1, <1>2, <1>3, <1>4 DEF Still

LEMMA EndStill ==
  ASSUME Typed, NEW w \in Spawns,
         \/ Kill \/ CloseBegins \/ CloseEndsJob \/ UNCHANGED vars
         \/ CloseDrops /\ w # link
  PROVE  Still(w)
<1> USE DEF historyVars
<1>1. CASE Kill \/ CloseBegins \/ CloseEndsJob \/ UNCHANGED vars
  <2>1. UNCHANGED <<pipeVars, seqVars, sent, accepted, strayed>>
    BY <1>1 DEF Kill, CloseBegins, CloseEndsJob, vars
  <2>2. worker' = worker \/ \E ws : worker' = Killed(ws)
    BY <1>1 DEF Kill, CloseBegins, CloseEndsJob, vars
  <2> QED BY <2>1, <2>2, KilledStill, AllStill
<1>2. CASE CloseDrops /\ w # link
  <2>1. Drop(link) /\ worker' = worker /\ link \in 0..MaxSpawns
    BY <1>2, BoundsTyped DEF CloseDrops, Typed, SlotsTyped
  <2> QED BY <1>2, <2>1, DropStill
<1> QED BY <1>1, <1>2

-----------------------------------------------------------------------------
(* What a step does to the worker it is about.                             *)
LEMMA StreamTyped ==
  ASSUME Typed, NEW w \in Spawns
  PROVE  /\ sent[w] \in Seq(Nat) /\ input[w] \in Seq(Nat)
         /\ accepted[w] \in Seq(Acceptances) /\ Wire(w) \in Seq(Lines)
         /\ sendSeq[w] \in Nat /\ recvSeq[w] \in Nat
         /\ Len(accepted[w]) \in Nat /\ w \in 0..MaxSpawns /\ w # 0
<1>1. /\ sent[w] \in Seq(Nat) /\ input[w] \in Seq(Nat)
      /\ accepted[w] \in Seq(Acceptances) /\ Wire(w) \in Seq(Lines)
  BY WireTyped DEF Typed, PipesTyped, SessionsTyped
<1>2. sendSeq[w] \in Nat /\ recvSeq[w] \in Nat
  <2>1. sendSeq \in [Spawns -> Nat] /\ recvSeq \in [Spawns -> Nat]
    BY DEF Typed, SessionsTyped
  <2> QED BY <2>1
<1>3. w \in 0..MaxSpawns /\ w # 0
  BY BoundsTyped DEF Spawns
<1> QED BY <1>1, <1>2, <1>3

LEMMA StillStream ==
  ASSUME NEW w \in Spawns, Still(w)
  PROVE  /\ Wire(w)' = Wire(w)
         /\ Stream(w) => Stream(w)'
         /\ InOrder(w) => InOrder(w)'
         /\ Unasked(w) => Unasked(w)'
         /\ Greets(w) => Greets(w)'
         /\ Greeted(w) => Greeted(w)'
<1>1. Wire(w)' = Wire(w)
  BY DEF Still, Wire
<1>2. Stream(w) => Stream(w)'
  BY <1>1 DEF Still, Stream, Flow
<1>3. InOrder(w) => InOrder(w)'
  BY DEF Still, InOrder
<1>4. Unasked(w) => Unasked(w)'
  BY DEF Still, Unasked
<1>5. worker'[w] = "booting" => worker[w] = "booting"
  BY DEF Still
<1>6. Greets(w) => Greets(w)'
  BY <1>5 DEF Still, Greets
<1>7. Greeted(w) => Greeted(w)'
  BY <1>5 DEF Still, Greeted
<1> QED BY <1>1, <1>2, <1>3, <1>4, <1>6, <1>7

(* Whatever a worker says, the lines on their way keep to the flow, until  *)
(* it makes up a proposal.                                                 *)
LEMMA WorkerStream ==
  ASSUME Typed, NEW v \in Spawns, Worker(v), Stream(v)
  PROVE  Stream(v)'
<1> USE DEF historyVars
<1>0. /\ UNCHANGED <<recvSeq, sent, accepted>> /\ strayed \subseteq strayed'
      /\ PipesTyped /\ SessionsTyped
  BY DEF Worker, Pumps, Boots, BootsForged, Answers, Dies, Hangs, Misbehaves,
         seqVars, Typed
<1>1. SUFFICES ASSUME v \notin strayed',
                      Flow(Wire(v), input[v], sent[v], v, recvSeq[v],
                           sendSeq[v], Len(accepted[v]))
               PROVE  Flow(Wire(v)', input'[v], sent[v], v, recvSeq[v],
                           sendSeq'[v], Len(accepted[v]))
  BY <1>0 DEF Stream
<1>2. ASSUME NEW line \in Lines, ~Due(v, sendSeq[v] + 1, line),
             Wire(v)' = Append(Wire(v), line)
      PROVE  Flow(Wire(v)', input'[v], sent[v], v, recvSeq[v],
                  sendSeq'[v], Len(accepted[v]))
  BY <1>1, <1>2, StreamTyped, FlowOther
<1>3. ~Due(v, sendSeq[v] + 1, Refusable) /\ Refusable \in Lines
  BY StreamTyped, LinesTyped DEF Due
<1>4. CASE Pumps(v)
  <2>1. UNCHANGED <<input, sendSeq>>
    BY <1>4 DEF Pumps, seqVars
  <2>2. Wire(v)' = Wire(v) \/ Wire(v)' = Append(Wire(v), Refusable)
    BY <1>4, WirePumps
  <2> QED BY <1>1, <1>2, <1>3, <2>1, <2>2
<1>5. CASE Boots(v)
  <2>1. CASE bootstrap = 0
    <3>1. UNCHANGED <<input, output, replies, sendSeq>>
      BY <1>5, <2>1 DEF Boots
    <3>2. Wire(v)' = Wire(v)
      BY <3>1, WireKept
    <3> QED BY <1>1, <3>1, <3>2
  <2>2. CASE bootstrap # 0
    <3> PICK line : line = Line(bootstrap, 1, "hello", 0)
      OBVIOUS
    <3>1. line \in Lines /\ line.type = "hello"
      <4>1. bootstrap \in 0..MaxSpawns
        BY BoundsTyped DEF Typed, SlotsTyped
      <4> QED BY <4>1, LinesTyped
    <3>2. Says(v, line) /\ replies' = replies
      BY <1>5, <2>2 DEF Boots
    <3>3. Wire(v)' = Append(Wire(v), line)
      BY <3>1, <3>2, WireSays
    <3> QED BY <1>2, <3>1, <3>3 DEF Due
  <2> QED BY <2>1, <2>2
<1>6. CASE BootsForged(v)
  <2>1. Wire(v)' = Append(Wire(v), Refusable)
    BY <1>3, <1>6, WireSays DEF BootsForged
  <2> QED BY <1>2, <1>3, <2>1
<1>7. CASE Answers(v)
  <2> PICK line : line = Line(v, sendSeq[v] + 1, "proposal", Head(input[v]))
    OBVIOUS
  <2>1. /\ input[v] # <<>> /\ Says(v, line) /\ Numbers(v)
        /\ input' = [input EXCEPT ![v] = Tail(@)] /\ replies' = replies
    BY <1>7 DEF Answers
  <2>2. line \in Lines
    <3>1. Head(input[v]) \in Nat /\ sendSeq[v] + 1 \in Nat /\ v \in 0..MaxSpawns
      BY <2>1, StreamTyped
    <3> QED BY <3>1 DEF Line, Lines
  <2>3. Wire(v)' = Append(Wire(v), line)
    BY <2>1, <2>2, WireSays
  <2>4. input'[v] = Tail(input[v])
    BY <1>0, <2>1 DEF PipesTyped
  <2>5. sendSeq'[v] = sendSeq[v] + 1
    <3>1. sendSeq \in [Spawns -> Nat]
      BY <1>0 DEF SessionsTyped
    <3> QED BY <2>1, <3>1 DEF Numbers
  <2>6. Flow(Append(Wire(v), line), Tail(input[v]), sent[v], v, recvSeq[v],
             sendSeq[v] + 1, Len(accepted[v]))
    BY <1>1, <2>1, StreamTyped, FlowAnswer
  <2> QED BY <2>3, <2>4, <2>5, <2>6
<1>8. CASE Dies(v) \/ Hangs(v)
  <2>1. UNCHANGED <<input, output, replies, sendSeq>>
    BY <1>8 DEF Dies, Hangs, pipeVars, seqVars
  <2>2. Wire(v)' = Wire(v)
    BY <2>1, WireKept
  <2> QED BY <1>1, <2>1, <2>2
<1>9. CASE Misbehaves(v)
  <2> PICK line \in OtherLines(v) :
        /\ Says(v, line)
        /\ line = Line(v, sendSeq[v] + 1, "proposal", 0) => v \in strayed'
    BY <1>9 DEF Misbehaves
  <2>1. line # Line(v, sendSeq[v] + 1, "proposal", 0)
    BY <1>1
  <2>2. line \in Lines /\ ~Due(v, sendSeq[v] + 1, line)
    <3>1. CASE line = Refusable
      BY <1>3, <3>1
    <3>2. CASE line # Refusable
      <4>1. PICK no \in sendSeq[v] .. sendSeq[v] + 2,
                 type \in {"proposal", "other"} : line = Line(v, no, type, 0)
        BY <3>2 DEF OtherLines
      <4>2. no \in Nat /\ v \in 0..MaxSpawns
        BY StreamTyped
      <4>3. line \in Lines
        BY <4>1, <4>2 DEF Line, Lines
      <4>4. no # sendSeq[v] + 1 \/ type # "proposal"
        BY <2>1, <4>1
      <4> QED BY <4>1, <4>3, <4>4 DEF Due, Line
    <3> QED BY <3>1, <3>2
  <2>3. replies' = replies
    BY <1>9 DEF Misbehaves
  <2>4. Wire(v)' = Append(Wire(v), line)
    BY <2>2, <2>3, WireSays
  <2> QED BY <1>2, <2>2, <2>4
<1> QED BY <1>4, <1>5, <1>6, <1>7, <1>8, <1>9 DEF Worker

LEMMA WorkerInOrder ==
  ASSUME Typed, NEW v \in Spawns, Worker(v), InOrder(v)
  PROVE  InOrder(v)'
<1>0. UNCHANGED <<recvSeq, sent, accepted>> /\ strayed \subseteq strayed'
  BY DEF Worker, Pumps, Boots, BootsForged, Answers, Dies, Hangs, Misbehaves,
         seqVars, historyVars
<1> QED BY <1>0 DEF InOrder

(* A worker that has no link says its hello or a bad line, once.           *)
LEMMA WorkerGreets ==
  ASSUME Typed, NEW v \in Spawns, Worker(v), v # link, Unasked(v)
  PROVE  /\ Unasked(v)'
         /\ Greets(v) => Greets(v)'
         /\ Greeted(v) => Greeted(v)'
<1> USE DEF historyVars
<1>0. /\ PipesTyped /\ input[v] = <<>> /\ ~Answers(v) /\ ~Misbehaves(v)
      /\ output[v] \in Seq(Lines) /\ replies[v] \in Seq(Lines)
      /\ sendSeq \in [Spawns -> Nat] /\ asked \in [Spawns -> Nat]
  BY WireTyped
     DEF Typed, PipesTyped, SessionsTyped, Unasked, Answers, Misbehaves
<1>1. UNCHANGED <<recvSeq, sent, accepted, strayed, input>>
  BY <1>0 DEF Worker, Pumps, Boots, BootsForged, Dies, Hangs, seqVars, pipeVars
<1>2. Unasked(v)'
  BY <1>1 DEF Unasked
<1>3. CASE Pumps(v)
  <2>0. /\ asked[v] > 0 /\ asked'[v] = asked[v] - 1
        /\ UNCHANGED <<worker, sendSeq>>
    BY <1>0, <1>3 DEF Pumps, seqVars
  <2>1. ~Greeted(v)
    BY <2>0 DEF Greeted
  <2>2. ASSUME Greets(v) PROVE Greets(v)'
    <3>1. /\ asked[v] = 1 /\ asked'[v] = 0 /\ replies[v] = <<>>
          /\ Len(output[v]) <= 1
      BY <2>0, <2>2 DEF Greets
    <3>2. CASE output[v] = <<>>
      <4>1. /\ replies' = [replies EXCEPT ![v] = Append(@, Refusable)]
            /\ output' = output /\ worker[v] = "dead"
        BY <1>3, <3>2 DEF Pumps
      <4>2. replies'[v] = <<Refusable>> /\ output'[v] = <<>>
        BY <1>0, <3>1, <3>2, <4>1 DEF PipesTyped
      <4>3. Len(replies'[v]) = 1 /\ Head(replies'[v]).type = "other"
        BY <4>2, LinesTyped
      <4> QED BY <1>1, <2>0, <2>2, <3>1, <4>1, <4>2, <4>3 DEF Greets
    <3>3. CASE output[v] # <<>>
      <4>1. /\ replies' = [replies EXCEPT ![v] = Append(@, Head(output[v]))]
            /\ output' = [output EXCEPT ![v] = Tail(@)]
        BY <1>3, <3>3 DEF Pumps
      <4>4. Len(output[v]) = 1
        <5>1. Len(output[v]) \in Nat /\ Len(output[v]) # 0
          BY <1>0, <3>3, EmptySeq
        <5>2. Len(output[v]) <= 1
          BY <3>1
        <5>3. \A n \in Nat : n # 0 /\ n <= 1 => n = 1
          OBVIOUS
        <5> QED BY <5>1, <5>2, <5>3, Zenon
      <4>5. Tail(output[v]) = <<>>
        <5>1. /\ Tail(output[v]) \in Seq(Lines)
              /\ Len(Tail(output[v])) = Len(output[v]) - 1
          BY <1>0, <3>3, HeadTailProperties
        <5>2. Len(Tail(output[v])) = 0
          BY <4>4, <5>1
        <5> QED BY <5>1, <5>2, EmptySeq
      <4>6. /\ output \in [Spawns -> Seq(Lines)]
            /\ replies \in [Spawns -> Seq(Lines)]
        BY <1>0 DEF PipesTyped
      <4>2. /\ replies'[v] = <<Head(output[v])>> /\ output'[v] = <<>>
            /\ Len(output[v]) = 1
        BY <3>1, <4>1, <4>4, <4>5, <4>6
      <4>3. Len(replies'[v]) = 1 /\ Head(replies'[v]) = Head(output[v])
        BY <4>2
      <4> QED BY <1>1, <2>0, <2>2, <3>1, <3>3, <4>2, <4>3 DEF Greets
    <3> QED BY <3>2, <3>3
  <2> QED BY <1>2, <2>1, <2>2
<1>4. CASE Boots(v) \/ BootsForged(v)
  <2>0. /\ worker[v] = "booting" /\ worker'[v] # "booting"
        /\ UNCHANGED <<asked, replies>>
        /\ \/ UNCHANGED <<output, sendSeq>>
           \/ Numbers(v) /\ \E line \in Lines : Says(v, line)
    <3>1. worker[v] = "booting" /\ UNCHANGED <<asked, replies>>
      BY <1>4 DEF Boots, BootsForged
    <3>2. worker'[v] # "booting"
      BY <1>0, <1>4 DEF Boots, BootsForged, PipesTyped
    <3>3. CASE BootsForged(v)
      BY <3>1, <3>2, <3>3, LinesTyped DEF BootsForged
    <3>4. CASE Boots(v)
      <4>1. Line(bootstrap, 1, "hello", 0) \in Lines
        <5>1. bootstrap \in 0..MaxSpawns
          BY BoundsTyped DEF Typed, SlotsTyped
        <5> QED BY <5>1, LinesTyped
      <4> QED BY <3>1, <3>2, <3>4, <4>1 DEF Boots
    <3> QED BY <1>4, <3>3, <3>4
  <2>1. ~Greeted(v)
    BY <2>0 DEF Greeted
  <2>2. ASSUME Greets(v) PROVE Greets(v)'
    <3>1. /\ replies[v] = <<>> /\ output[v] = <<>> /\ sendSeq[v] = 0
          /\ asked[v] = 1
      BY <2>0, <2>2 DEF Greets
    <3>2. CASE UNCHANGED <<output, sendSeq>>
      BY <1>1, <2>0, <3>1, <2>2, <3>2 DEF Greets
    <3>3. ASSUME NEW line \in Lines, Numbers(v), Says(v, line)
          PROVE  Greets(v)'
      <4>0. output'[v] = <<line>>
        <5>1. output \in [Spawns -> Seq(Lines)]
          BY <1>0 DEF PipesTyped
        <5>2. output'[v] = Append(output[v], line)
          BY <3>3, <5>1 DEF Says
        <5> QED BY <3>1, <5>2
      <4>3. sendSeq'[v] = 1
        BY <1>0, <3>1, <3>3 DEF Numbers
      <4>1. output'[v] = <<line>> /\ sendSeq'[v] = 1
        BY <4>0, <4>3
      <4>2. Len(output'[v]) = 1
        BY <4>1
      <4> QED BY <1>1, <2>0, <2>2, <3>1, <4>1, <4>2 DEF Greets
    <3> QED BY <2>0, <3>2, <3>3
  <2> QED BY <1>2, <2>1, <2>2
<1>5. CASE Dies(v) \/ Hangs(v)
  <2>1. /\ UNCHANGED <<asked, replies, output, sendSeq>>
        /\ worker'[v] # "booting"
    BY <1>0, <1>5 DEF Dies, Hangs, pipeVars, seqVars, PipesTyped
  <2> QED BY <1>1, <1>2, <2>1 DEF Greets, Greeted
<1> QED BY <1>0, <1>3, <1>4, <1>5 DEF Worker

LEMMA HelloGreeted ==
  ASSUME Typed, NEW c \in Callers, HelloArrives(c), NEW w \in Spawns,
         w = mine[c], Unasked(w), Greets(w)
  PROVE  Unasked(w)' /\ Greeted(w)'
<1>1. /\ replies[w] # <<>> /\ Take(w) /\ Received(w, Head(replies[w]))
      /\ Hello(w, Head(replies[w]))
      /\ UNCHANGED <<worker, input, output, asked, sendSeq, sent, accepted,
                     strayed>>
  BY DEF HelloArrives, historyVars
<1>2. /\ asked[w] = 0 /\ Len(replies[w]) = 1 /\ output[w] = <<>>
      /\ worker[w] # "booting" /\ recvSeq[w] = 1
  BY <1>1 DEF Greets
<1>3. sendSeq[w] = 1
  BY <1>1 DEF Greets, Hello
<1>4. recvSeq'[w] = 2
  <2>1. recvSeq \in [Spawns -> Nat] /\ Receivable(w, Head(replies[w]))
    BY <1>1 DEF Typed, SessionsTyped, Hello
  <2> QED BY <1>1, <1>2, <2>1 DEF Received
<1>5. replies'[w] = <<>>
  <2>1. replies[w] \in Seq(Lines) /\ replies'[w] = Tail(replies[w])
    BY <1>1 DEF Take, Typed, PipesTyped
  <2>2. /\ Tail(replies[w]) \in Seq(Lines)
        /\ Len(Tail(replies[w])) = Len(replies[w]) - 1
    BY <1>1, <2>1, HeadTailProperties
  <2>3. Len(Tail(replies[w])) = 0
    BY <1>2, <2>2
  <2> QED BY <2>1, <2>2, <2>3, EmptySeq
<1> QED BY <1>1, <1>2, <1>3, <1>4, <1>5 DEF Greeted, Unasked

LEMMA StreamStarts ==
  ASSUME Typed, NEW w \in Spawns, Unasked(w), Greeted(w)
  PROVE  Stream(w)
<1>1. Wire(w) = <<>>
  BY DEF Greeted, Wire
<1>2. Len(accepted[w]) = 0
  BY DEF Unasked
<1> QED BY <1>1, <1>2, FlowStart DEF Unasked, Greeted, Stream

(* A prompt is written to the link, and what is read from it is taken or   *)
(* refused.                                                                *)
LEMMA StreamWrites ==
  ASSUME Typed, NEW c \in Callers, Writes(c), NEW w \in Spawns, w = link,
         Stream(w), InOrder(w)
  PROVE  Stream(w)' /\ InOrder(w)'
<1>0. /\ UNCHANGED <<output, replies, seqVars, accepted, strayed>>
      /\ sendSeq'[w] = sendSeq[w] /\ recvSeq'[w] = recvSeq[w]
      /\ Wire(w)' = Wire(w)
  BY WireKept DEF Writes, seqVars
<1>1. CASE UNCHANGED <<input, sent>>
  BY <1>0, <1>1 DEF Stream, InOrder
<1>2. CASE /\ input' = [input EXCEPT ![link] = Append(@, mine[c])]
           /\ sent' = [sent EXCEPT ![link] = Append(@, mine[c])]
  <2> PICK x \in Nat : x = mine[c]
    BY DEF Typed, CallersTyped
  <2>1. input'[w] = Append(input[w], x)
    BY <1>2 DEF Typed, PipesTyped
  <2>2. sent'[w] = Append(sent[w], x)
    BY <1>2 DEF Typed, SessionsTyped
  <2>3. Stream(w)'
    <3> SUFFICES ASSUME w \notin strayed PROVE Stream(w)'
      BY <1>0 DEF Stream
    <3>1. Flow(Wire(w), input[w], sent[w], w, recvSeq[w], sendSeq[w],
               Len(accepted[w]))
      BY DEF Stream
    <3>2. Flow(Wire(w), Append(input[w], x), Append(sent[w], x), w, recvSeq[w],
               sendSeq[w], Len(accepted[w]))
      BY <3>1, StreamTyped, FlowPrompt
    <3> QED BY <1>0, <2>1, <2>2, <3>2 DEF Stream
  <2>4. \A k \in DOMAIN sent[w] :
          k \in DOMAIN sent'[w] /\ sent'[w][k] = sent[w][k]
    BY <2>2, StreamTyped, AppendProperties
  <2>5. InOrder(w)'
    BY <1>0, <2>4 DEF InOrder
  <2> QED BY <2>3, <2>5
<1> QED BY <1>1, <1>2 DEF Writes

LEMMA StreamReceives ==
  ASSUME Typed, NEW c \in Callers, Receives(c), NEW w \in Spawns, w = link,
         Stream(w), InOrder(w)
  PROVE  Stream(w)' /\ InOrder(w)'
<1> PICK line : line = Head(replies[w])
  OBVIOUS
<1>0. /\ replies[w] # <<>> /\ Take(w) /\ Received(w, line)
      /\ UNCHANGED <<input, output, sendSeq, sent>>
  BY DEF Receives
<1>1. /\ Wire(w) # <<>> /\ Head(Wire(w)) = line /\ Wire(w)' = Tail(Wire(w))
  BY <1>0, WireTakes
<1>2. recvSeq'[w] = IF Receivable(w, line) THEN recvSeq[w] + 1 ELSE recvSeq[w]
  <2>1. recvSeq \in [Spawns -> Nat]
    BY DEF Typed, SessionsTyped
  <2> QED BY <1>0, <2>1 DEF Received
<1> DEFINE r == recvSeq[w]
           a == Len(accepted[w])
<1>3. r \in Nat /\ a \in Nat /\ accepted[w] \in Seq(Acceptances)
  BY StreamTyped
<1>4. CASE Receivable(w, line) /\ line.type = "proposal"
  <2> PICK rec : rec = [prompt |-> mine[c], no |-> line.no, of |-> line.of]
    OBVIOUS
  <2>1. accepted' = [accepted EXCEPT ![w] = Append(@, rec)]
        /\ strayed' = strayed
    BY <1>4 DEF Receives
  <2>2. /\ accepted'[w] = Append(accepted[w], rec)
        /\ recvSeq'[w] = r + 1 /\ rec.no = r /\ rec.of = line.of
    BY <1>2, <1>4, <2>1 DEF Typed, SessionsTyped, Receivable
  <2>3. rec \in Acceptances
    <3>1. line \in Lines /\ mine[c] \in Nat
      BY <1>0, WireTyped, HeadTailProperties DEF Typed, CallersTyped
    <3> QED BY <3>1 DEF Lines, Acceptances
  <2> DEFINE acc == Append(accepted[w], rec)
  <2>4. /\ Len(acc) = a + 1 /\ DOMAIN acc = 1..a + 1 /\ acc[a + 1] = rec
        /\ \A k \in 1..a : acc[k] = accepted[w][k]
        /\ DOMAIN accepted[w] = 1..a
    BY <1>3, <2>3, AppendProperties
  <2>5. ASSUME w \notin strayed
        PROVE  /\ a + 1 \in DOMAIN sent[w] /\ line.of = sent[w][a + 1]
               /\ Flow(Tail(Wire(w)), input[w], sent[w], w, r + 1, sendSeq[w],
                       a + 1)
    <3>1. Due(w, r, line)
      BY <1>4 DEF Due, Receivable
    <3>2. Flow(Wire(w), input[w], sent[w], w, r, sendSeq[w], a)
      BY <2>5 DEF Stream
    <3> HIDE DEF r, a
    <3> QED BY <1>1, <1>3, <3>1, <3>2, StreamTyped, FlowTaken
  <2>6. Stream(w)'
    BY <1>0, <1>1, <2>1, <2>2, <2>4, <2>5 DEF Stream
  <2>7. InOrder(w)'
    <3> HIDE DEF r, a, acc
    <3>0. accepted'[w] = acc
      BY <2>2 DEF acc
    <3>1. r = recvSeq[w]
      BY DEF r
    <3> SUFFICES ASSUME NEW k \in 1..a + 1
                 PROVE  /\ w \notin strayed =>
                             k \in DOMAIN sent[w] /\ acc[k].of = sent[w][k]
                        /\ \A j \in 1..k - 1 : acc[j].no < acc[k].no
                        /\ acc[k].no < r + 1
      BY <1>0, <2>1, <2>2, <2>4, <3>0 DEF InOrder
    <3>2. CASE k \in 1..a
      <4>1. /\ w \notin strayed =>
                 k \in DOMAIN sent[w] /\ accepted[w][k].of = sent[w][k]
            /\ \A j \in 1..k - 1 : accepted[w][j].no < accepted[w][k].no
            /\ accepted[w][k].no < r
        BY <2>4, <3>1, <3>2 DEF InOrder
      <4>2. \A j \in 1..k - 1 : j \in 1..a
        BY <1>3, <3>2
      <4>3. accepted[w][k].no \in Nat
        <5>1. accepted[w][k] \in Acceptances
          BY <1>3, <2>4, <3>2
        <5> QED BY <5>1 DEF Acceptances
      <4>4. accepted[w][k].no < r + 1
        BY <1>3, <4>1, <4>3
      <4> QED BY <2>4, <3>2, <4>1, <4>2, <4>4
    <3>3. CASE k = a + 1
      <4>1. \A j \in 1..a : accepted[w][j].no < r
        BY <2>4, <3>1 DEF InOrder
      <4>2. \A j \in 1..k - 1 : j \in 1..a
        BY <1>3, <3>3
      <4>3. r < r + 1
        BY <1>3
      <4> QED BY <2>2, <2>4, <2>5, <3>3, <4>1, <4>2, <4>3
    <3> QED BY <1>3, <3>2, <3>3
  <2> QED BY <2>6, <2>7
<1>5. CASE ~(Receivable(w, line) /\ line.type = "proposal")
  <2>1. accepted' = accepted /\ w \in strayed'
    BY <1>5 DEF Receives
  <2>2. recvSeq'[w] \in Nat /\ recvSeq'[w] >= r
    BY <1>2, <1>3
  <2>3. \A k \in DOMAIN accepted[w] : accepted[w][k].no < recvSeq'[w]
    <3> SUFFICES ASSUME NEW k \in DOMAIN accepted[w]
                 PROVE  accepted[w][k].no < recvSeq'[w]
      OBVIOUS
    <3>1. accepted[w][k].no \in Nat
      <4>1. accepted[w][k] \in Acceptances
        BY <1>3
      <4> QED BY <4>1 DEF Acceptances
    <3>2. accepted[w][k].no < r
      BY DEF InOrder
    <3> QED BY <1>3, <2>2, <3>1, <3>2
  <2>4. InOrder(w)'
    BY <1>0, <2>1, <2>3 DEF InOrder
  <2> QED BY <2>1, <2>4 DEF Stream
<1> QED BY <1>4, <1>5

LEMMA DropOrder ==
  ASSUME Typed, NEW w \in Spawns, Drop(w)
  PROVE  InOrder(w)'
<1>1. accepted' = [accepted EXCEPT ![w] = <<>>]
  BY BoundsTyped DEF Drop, Emptied
<1>2. accepted'[w] = <<>>
  BY <1>1 DEF Typed, SessionsTyped
<1> QED BY <1>2 DEF InOrder

-----------------------------------------------------------------------------
(* How a step moves the callers through their spawns.                      *)
LEMMA CallMoves ==
  ASSUME Typed, NEW c \in Callers, Call(c)
  PROVE  /\ \A d \in Callers \ {c} : pc'[d] = pc[d] /\ mine'[d] = mine[d]
         /\ Spawning(c)' => SpawnStarts(c) \/ HelloArrives(c)
         /\ \/ link' = link
            \/ link' = 0 /\ SpawnDrops(c)
            \/ link' = mine[c] /\ Installs(c)
         /\ spawned' = spawned \/ SpawnStarts(c)
<1>0. pc \in [Callers -> Labels] /\ mine \in [Callers -> Nat]
  BY DEF Typed, CallersTyped
<1>1. /\ \E s : pc' = [pc EXCEPT ![c] = s]
      /\ mine' = mine \/ \E s : mine' = [mine EXCEPT ![c] = s]
  <2>1. CASE \/ SpawnDrops(c) \/ SpawnStarts(c) \/ SpawnFails(c)
             \/ HelloArrives(c) \/ Installs(c) \/ NotesPid(c)
             \/ ProposeBegins(c)
    BY <2>1 DEF SpawnDrops, SpawnStarts, SpawnFails, HelloArrives, Installs,
                NotesPid, ProposeBegins, Goto, Ends
  <2>2. CASE HelloIsLate(c) \/ HelloIsRefused(c) \/ HelloTimesOut(c)
    BY <2>2 DEF HelloIsLate, HelloIsRefused, HelloTimesOut, Abandon, Goto, Ends
  <2>3. CASE ProposeLocks(c) \/ Writes(c) \/ Receives(c) \/ TimesOut(c)
    BY <2>3 DEF ProposeLocks, Writes, Receives, TimesOut, Returns, Goto, Ends
  <2> QED BY <2>1, <2>2, <2>3 DEF Call, Runs
<1>2. \A d \in Callers \ {c} : pc'[d] = pc[d] /\ mine'[d] = mine[d]
  BY <1>0, <1>1
<1>3. ASSUME NEW label, Goto(c, label), label \notin {"hello", "install"}
      PROVE  ~Spawning(c)'
  BY <1>0, <1>3 DEF Goto, Spawning
<1>4. Spawning(c)' => SpawnStarts(c) \/ HelloArrives(c)
  <2>1. CASE SpawnDrops(c) \/ SpawnFails(c) \/ Installs(c) \/ NotesPid(c)
             \/ ProposeBegins(c)
    BY <1>3, <2>1 DEF SpawnDrops, SpawnFails, Installs, NotesPid,
                      ProposeBegins, Ends
  <2>2. CASE HelloIsLate(c) \/ HelloIsRefused(c) \/ HelloTimesOut(c)
    BY <1>3, <2>2 DEF HelloIsLate, HelloIsRefused, HelloTimesOut, Abandon, Ends
  <2>3. CASE ProposeLocks(c) \/ Writes(c) \/ Receives(c) \/ TimesOut(c)
    BY <1>3, <2>3 DEF ProposeLocks, Writes, Receives, TimesOut, Returns, Ends
  <2> QED BY <2>1, <2>2, <2>3 DEF Call, Runs
<1>5. \/ link' = link
      \/ link' = 0 /\ SpawnDrops(c)
      \/ link' = mine[c] /\ Installs(c)
  BY DEF Call, Runs, SpawnDrops, SpawnStarts, SpawnFails, HelloArrives,
         Installs, NotesPid, ProposeBegins, HelloIsLate, HelloIsRefused,
         HelloTimesOut, Abandon, ProposeLocks, Writes, Receives, TimesOut,
         hostVars
<1>6. spawned' = spawned \/ SpawnStarts(c)
  BY DEF Call, Runs, SpawnDrops, SpawnFails, HelloArrives,
         Installs, NotesPid, ProposeBegins, HelloIsLate, HelloIsRefused,
         HelloTimesOut, Abandon, ProposeLocks, Writes, Receives, TimesOut,
         boundVars
<1> QED BY <1>2, <1>4, <1>5, <1>6

LEMMA OtherMoves ==
  ASSUME \/ \E v \in Spawns : Worker(v)
         \/ Kill \/ CloseBegins \/ CloseEndsJob \/ CloseDrops \/ UNCHANGED vars
  PROVE  /\ UNCHANGED <<pc, mine, spawned>>
         /\ link' = link \/ (link' = 0 /\ CloseDrops)
BY DEF Worker, Pumps, Boots, BootsForged, Answers, Dies, Hangs, Misbehaves,
       Kill, CloseBegins, CloseEndsJob, CloseDrops, callVars, hostVars,
       boundVars, vars

(* A step leaves a worker alone, or it is one of these.                    *)
LEMMA About ==
  ASSUME Typed, OrderInv, [Next]_vars, NEW w \in Spawns
  PROVE  \/ Still(w)
         \/ \E c \in Callers :
              \/ w = link /\ (SpawnDrops(c) \/ Writes(c) \/ Receives(c))
              \/ pc[c] = "hello" /\ w = mine[c] /\ w # link
                   /\ (HelloArrives(c) \/ (Abandon(c) /\ Call(c)))
              \/ SpawnStarts(c) /\ w = spawned' /\ w # link /\ w > spawned
         \/ Worker(w)
         \/ w = link /\ CloseDrops
<1>1. ASSUME NEW c \in Callers, Call(c), ~Still(w)
      PROVE  \/ w = link /\ (SpawnDrops(c) \/ Writes(c) \/ Receives(c))
             \/ pc[c] = "hello" /\ w = mine[c] /\ w # link
                  /\ (HelloArrives(c) \/ (Abandon(c) /\ Call(c)))
             \/ SpawnStarts(c) /\ w = spawned' /\ w # link /\ w > spawned
  <2>1. \/ w = link /\ (SpawnDrops(c) \/ Writes(c) \/ Receives(c))
        \/ pc[c] = "hello" /\ w = mine[c]
        \/ SpawnStarts(c) /\ w = spawned'
    BY <1>1, CallStill
  <2>2. ASSUME pc[c] = "hello", w = mine[c]
        PROVE  w # link /\ (HelloArrives(c) \/ Abandon(c))
    <3>1. w # link
      BY <2>2 DEF OrderInv, SpawnedOnce, Rears, Spawning
    <3>2. HelloArrives(c) \/ Abandon(c)
      BY <1>1, <2>2 DEF Call, Runs, SpawnDrops, SpawnStarts, SpawnFails,
             Installs, NotesPid, ProposeBegins, HelloIsLate, HelloIsRefused,
             HelloTimesOut, ProposeLocks, Writes, Receives, TimesOut
    <3> QED BY <3>1, <3>2
  <2>3. ASSUME SpawnStarts(c), w = spawned' PROVE w # link /\ w > spawned
    BY <2>3 DEF SpawnStarts, Typed, SlotsTyped
  <2> QED BY <1>1, <2>1, <2>2, <2>3
<1>2. ASSUME NEW v \in Spawns, Worker(v), ~Still(w) PROVE Worker(w)
  BY <1>2, WorkerStill
<1>3. CASE Kill \/ CloseBegins \/ CloseEndsJob \/ CloseDrops \/ UNCHANGED vars
  BY <1>3, EndStill
<1> QED BY <1>1, <1>2, <1>3 DEF Next

(* Nothing happens to a worker that nobody has spawned.                    *)
LEMMA UnbornKept ==
  ASSUME Typed, OrderInv, [Next]_vars, NEW w \in Spawns, w > spawned', Unborn(w)
  PROVE  Unborn(w)'
<1>0. /\ spawned \in Nat /\ w \in Nat /\ link \in 0..spawned
      /\ worker[w] = "none" /\ asked[w] = 0 /\ ~Alive(w)
  BY BoundsTyped DEF Typed, SlotsTyped, Spawns, Unborn, Alive
<1>1. w > spawned /\ w # spawned' /\ w # link
  <2>1. spawned' = spawned \/ spawned' = spawned + 1
    BY CallMoves, OtherMoves DEF Next, SpawnStarts
  <2>2. spawned' \in Nat /\ spawned' >= spawned
    BY <1>0, <2>1
  <2>3. w > spawned /\ w # spawned'
    BY <1>0, <2>2
  <2> QED BY <1>0, <2>3
<1>2. ASSUME NEW c \in Callers, pc[c] = "hello" PROVE w # mine[c]
  <2>1. mine[c] \in 1..spawned
    BY <1>2, MineSpawned
  <2> QED BY <1>0, <1>1, <2>1
<1>3. ~Worker(w)
  BY <1>0, <1>1 DEF Worker, Pumps, Boots, BootsForged, Answers, Dies, Hangs,
                    Misbehaves
<1>4. Still(w)
  BY <1>1, <1>2, <1>3, About
<1>5. worker'[w] = "none"
  BY <1>0, <1>4 DEF Still
<1>6. Unasked(w)'
  BY <1>4, StillStream DEF Unborn
<1> QED BY <1>4, <1>5, <1>6 DEF Unborn, Still

LEMMA BornGreets ==
  ASSUME Typed, NEW c \in Callers, SpawnStarts(c), NEW w \in Spawns,
         w = spawned', Unborn(w)
  PROVE  Unasked(w)' /\ Greets(w)'
<1> USE DEF historyVars
<1>1. UNCHANGED <<input, output, replies, seqVars, sent, accepted, strayed>>
  BY DEF SpawnStarts
<1>2. asked'[w] = 1
  <2>1. asked \in [Spawns -> Nat]
    BY DEF Typed, PipesTyped
  <2> QED BY <2>1 DEF SpawnStarts
<1>3. Unasked(w)'
  BY <1>1 DEF Unborn, Unasked
<1>4. /\ replies'[w] = <<>> /\ output'[w] = <<>>
      /\ sendSeq'[w] = 0 /\ recvSeq'[w] = 1
  BY <1>1 DEF Unborn, seqVars
<1>5. Len(output'[w]) <= 1
  BY <1>4
<1> QED BY <1>2, <1>3, <1>4, <1>5 DEF Greets

LEMMA SpawnedOnceKept ==
  ASSUME Typed, OrderInv, [Next]_vars
  PROVE  SpawnedOnce'
<1> SUFFICES ASSUME NEW c \in Callers, NEW w \in Spawns, Rears(c, w)'
             PROVE  /\ Unasked(w)' /\ w # link'
                    /\ pc'[c] = "hello" => Greets(w)'
                    /\ pc'[c] = "install" => Greeted(w)'
                    /\ \A d \in Callers : Rears(d, w)' => d = c
  BY DEF SpawnedOnce
<1>0. /\ spawned \in Nat /\ link \in 0..spawned /\ w # 0 /\ w \in Nat
      /\ Spawning(c)' /\ mine'[c] = w
  BY BoundsTyped DEF Typed, SlotsTyped, Rears
<1>1. ASSUME NEW d \in Callers, Rears(d, w)
      PROVE  w \in 1..spawned
  BY <1>1, MineSpawned DEF Rears, Spawning
<1>2. ASSUME NEW d \in Callers, Rears(d, w)'
      PROVE  Rears(d, w) \/ (SpawnStarts(d) /\ w = spawned + 1)
  <2>1. ASSUME NEW e \in Callers, Call(e)
        PROVE  Rears(d, w) \/ (SpawnStarts(d) /\ w = spawned + 1)
    <3>1. CASE d # e
      BY <1>2, <2>1, <3>1, CallMoves DEF Rears, Spawning
    <3>2. CASE d = e /\ HelloArrives(e)
      BY <1>2, <3>2 DEF HelloArrives, Rears, Spawning
    <3>3. CASE d = e /\ SpawnStarts(e)
      <4>1. mine'[d] = spawned + 1
        BY <3>3 DEF SpawnStarts, Typed, CallersTyped
      <4> QED BY <1>2, <3>3, <4>1 DEF Rears
    <3> QED BY <1>2, <2>1, <3>1, <3>2, <3>3, CallMoves DEF Rears
  <2>2. CASE ~\E e \in Callers : Call(e)
    BY <1>2, <2>2, OtherMoves DEF Next, Rears, Spawning
  <2> QED BY <2>1, <2>2
<1>3. ASSUME NEW d \in Callers, NEW e \in Callers, d # e, SpawnStarts(d)
      PROVE  ~SpawnStarts(e) \/ ~Spawning(e)'
  <2>1. Call(d)
    BY <1>3 DEF Call, Runs
  <2>2. pc'[e] = pc[e]
    BY <1>3, <2>1, CallMoves
  <2> QED BY <2>2 DEF SpawnStarts, Spawning
<1>4. ASSUME NEW d \in Callers, Rears(d, w)' PROVE d = c
  <2>1. CASE Rears(c, w) /\ Rears(d, w)
    BY <2>1 DEF OrderInv, SpawnedOnce
  <2>2. CASE Rears(c, w) \/ Rears(d, w)
    <3>1. w # spawned + 1
      BY <1>0, <1>1, <2>2
    <3> QED BY <1>2, <1>4, <2>1, <3>1
  <2>3. CASE SpawnStarts(c) /\ SpawnStarts(d)
    BY <1>3, <1>4, <2>3 DEF Rears
  <2> QED BY <1>2, <1>4, <2>2, <2>3
<1>5. CASE Rears(c, w)
  <2>0. /\ Unasked(w) /\ w # link /\ w \in 1..spawned
        /\ pc[c] = "hello" => Greets(w)
        /\ pc[c] = "install" => Greeted(w)
        /\ \A d \in Callers : Rears(d, w) => d = c
    BY <1>1, <1>5 DEF OrderInv, SpawnedOnce
  <2>1. ~SpawnStarts(c) /\ (Call(c) => HelloArrives(c))
    BY <1>0, <1>5, CallMoves DEF SpawnStarts, Rears, Spawning
  <2>2. w # link'
    <3>1. ASSUME NEW e \in Callers, Installs(e) PROVE mine[e] # w
      <4>1. ASSUME mine[e] = w PROVE FALSE
        <5>1. e = c
          BY <2>0, <3>1, <4>1 DEF Rears, Spawning, Installs
        <5> QED BY <2>1, <3>1, <5>1 DEF Call, Runs, Installs, HelloArrives
      <4> QED BY <4>1
    <3> QED BY <1>0, <2>0, <3>1, CallMoves, OtherMoves DEF Next
  <2>3. CASE HelloArrives(c)
    <3>1. Unasked(w)' /\ Greeted(w)'
      BY <1>5, <2>0, <2>3, HelloGreeted DEF HelloArrives, Rears
    <3>2. pc'[c] = "install"
      BY <2>3 DEF HelloArrives, Goto, Typed, CallersTyped
    <3> QED BY <1>4, <2>2, <3>1, <3>2
  <2>4. CASE ~HelloArrives(c)
    <3>1. pc'[c] = pc[c]
      <4>1. ~Call(c)
        BY <2>1, <2>4
      <4>2. CASE \E e \in Callers : Call(e)
        BY <4>1, <4>2, CallMoves
      <4>3. CASE ~\E e \in Callers : Call(e)
        BY <4>3, OtherMoves DEF Next
      <4> QED BY <4>2, <4>3
    <3>2. Still(w) \/ Worker(w)
      <4>1. ASSUME NEW e \in Callers, pc[e] = "hello", w = mine[e]
            PROVE  ~HelloArrives(e) /\ ~Call(e)
        <5>1. e = c
          BY <2>0, <4>1 DEF Rears, Spawning
        <5> QED BY <2>1, <2>4, <5>1
      <4>2. ~(w > spawned)
        BY <1>0, <2>0
      <4> QED BY <2>0, <4>1, <4>2, About
    <3>3. /\ Unasked(w)'
          /\ Greets(w) => Greets(w)'
          /\ Greeted(w) => Greeted(w)'
      BY <2>0, <3>2, StillStream, WorkerGreets
    <3> QED BY <1>4, <2>0, <2>2, <3>1, <3>3
  <2> QED BY <2>3, <2>4
<1>6. CASE SpawnStarts(c) /\ w = spawned + 1
  <2>1. w > spawned /\ w = spawned' /\ link' = link /\ w # link
    BY <1>0, <1>6 DEF SpawnStarts
  <2>2. Unborn(w)
    BY <2>1 DEF OrderInv, Started
  <2>3. Unasked(w)' /\ Greets(w)'
    BY <1>6, <2>1, <2>2, BornGreets
  <2>4. pc'[c] = "hello"
    BY <1>6 DEF SpawnStarts, Goto, Typed, CallersTyped
  <2> QED BY <1>4, <2>1, <2>3, <2>4
<1> QED BY <1>2, <1>5, <1>6

LEMMA OrderInit == Init => OrderInv
<1> SUFFICES ASSUME Init PROVE OrderInv
  OBVIOUS
<1>1. SpawnedOnce
  BY DEF Init, SpawnedOnce, Rears, Spawning
<1>2. Started
  BY DEF Init, Started, Unborn, Unasked
<1>3. ASSUME NEW w \in Spawns PROVE InOrder(w) /\ w # link
  BY BoundsTyped DEF Init, InOrder, Spawns
<1> QED BY <1>1, <1>2, <1>3 DEF OrderInv

LEMMA OrderNext == Typed /\ OrderInv /\ [Next]_vars => OrderInv'
<1> SUFFICES ASSUME Typed, OrderInv, [Next]_vars PROVE OrderInv'
  OBVIOUS
<1>0. spawned \in Nat /\ link \in 0..spawned /\ link \in 0..MaxSpawns
  BY BoundsTyped DEF Typed, SlotsTyped
<1>1. SpawnedOnce'
  BY SpawnedOnceKept
<1>2. Started'
  <2> SUFFICES ASSUME NEW w \in Spawns, w > spawned' PROVE Unborn(w)'
    BY DEF Started
  <2>1. spawned' = spawned \/ spawned' = spawned + 1
    BY CallMoves, OtherMoves DEF Next, SpawnStarts
  <2>2. w > spawned
    BY <1>0, <2>1, BoundsTyped
  <2> QED BY <2>2, UnbornKept DEF OrderInv, Started
<1>3. ASSUME NEW w \in Spawns PROVE InOrder(w)'
  <2>1. InOrder(w) /\ (w = link => Stream(w))
    BY DEF OrderInv
  <2>2. CASE Still(w)
    BY <2>1, <2>2, StillStream
  <2>3. CASE Worker(w)
    BY <2>1, <2>3, WorkerInOrder
  <2>4. CASE w = link /\ CloseDrops
    BY <2>4, DropOrder DEF CloseDrops
  <2>5. ASSUME NEW c \in Callers, w = link,
               SpawnDrops(c) \/ Writes(c) \/ Receives(c)
        PROVE  InOrder(w)'
    BY <2>1, <2>5, DropOrder, StreamWrites, StreamReceives DEF SpawnDrops
  <2>6. ASSUME NEW c \in Callers, pc[c] = "hello", w = mine[c],
               HelloArrives(c) \/ Abandon(c)
        PROVE  InOrder(w)'
    <3>1. CASE HelloArrives(c)
      <4>1. Unasked(w)
        BY <2>6 DEF OrderInv, SpawnedOnce, Rears, Spawning
      <4>2. accepted'[w] = <<>>
        BY <3>1, <4>1 DEF HelloArrives, historyVars, Unasked
      <4> QED BY <4>2 DEF InOrder
    <3>2. CASE Abandon(c)
      BY <2>6, <3>2, DropOrder DEF Abandon
    <3> QED BY <2>6, <3>1, <3>2
  <2>7. ASSUME NEW c \in Callers, SpawnStarts(c) PROVE InOrder(w)'
    BY <2>1, <2>7 DEF SpawnStarts, historyVars, seqVars, InOrder
  <2> QED BY <2>2, <2>3, <2>4, <2>5, <2>6, <2>7, About
<1>4. ASSUME NEW w \in Spawns, w = link' PROVE Stream(w)'
  <2>0. w # 0 /\ w \in Nat /\ InOrder(w)
    BY BoundsTyped DEF OrderInv
  <2>1. CASE w = link
    <3>1. Stream(w)
      BY <2>1 DEF OrderInv
    <3>2. ~CloseDrops /\ \A c \in Callers : ~SpawnDrops(c)
      BY <1>4, <2>0 DEF CloseDrops, SpawnDrops
    <3> QED BY <2>0, <2>1, <3>1, <3>2, About, StillStream, WorkerStream,
               StreamWrites, StreamReceives
  <2>2. CASE w # link
    <3>1. PICK c \in Callers : Call(c) /\ Installs(c) /\ w = mine[c]
      BY <1>4, <2>0, <2>2, CallMoves, OtherMoves DEF Next
    <3>2. Unasked(w) /\ Greeted(w)
      BY <3>1 DEF OrderInv, SpawnedOnce, Rears, Spawning, Installs
    <3>3. Still(w)
      BY <2>2, <3>1, CallStill DEF Installs, SpawnStarts
    <3> QED BY <3>2, <3>3, StreamStarts, StillStream
  <2> QED BY <2>1, <2>2
<1> QED BY <1>1, <1>2, <1>3, <1>4 DEF OrderInv

(* However a worker misbehaves, hangs or dies, and however spawns and      *)
(* proposes overlap: the k-th answer taken from a worker is that to the    *)
(* k-th prompt written to it, until a line of it is refused or it makes up *)
(* a proposal; and no number is taken twice.                               *)
THEOREM TakenInOrder == Spec => []AnswersInOrder
<1>1. Init => OrderInv
  BY OrderInit
<1>2. Typed /\ OrderInv /\ [Next]_vars => OrderInv'
  BY OrderNext
<1>3. OrderInv => AnswersInOrder
  BY DEF OrderInv, InOrder, AnswersInOrder
<1> QED BY <1>1, <1>2, <1>3, TypedAlways, PTL DEF Spec

-----------------------------------------------------------------------------
LEMMA SerialAppend ==
  ASSUME NEW key, NEW lines \in Seq(Lines), NEW r \in Nat, NEW n \in Nat,
         NEW line \in Lines, Serial(key, lines, r, n), Due(key, n + 1, line)
  PROVE  Serial(key, Append(lines, line), r, n + 1)
<1> DEFINE l1 == Append(lines, line)
           L == Len(lines)
<1>1. /\ Len(l1) = L + 1 /\ l1[L + 1] = line /\ L \in Nat
      /\ \A p \in 1..L : l1[p] = lines[p]
  BY AppendProperties
<1>2. n + 1 = r + L /\ \A p \in 1..L : Due(key, r + p - 1, lines[p])
  BY DEF Serial
<1> HIDE DEF l1, L
<1>3. ASSUME NEW p \in 1..L + 1 PROVE Due(key, r + p - 1, l1[p])
  <2>1. CASE p \in 1..L
    BY <1>1, <1>2, <2>1
  <2>2. CASE p = L + 1
    <3>1. r + p - 1 = n + 1
      BY <1>1, <1>2, <2>2
    <3> QED BY <1>1, <2>2, <3>1
  <2> QED BY <1>1, <2>1, <2>2
<1>4. n + 1 + 1 = r + Len(l1)
  BY <1>1, <1>2
<1>5. Serial(key, l1, r, n + 1)
  BY <1>1, <1>3, <1>4 DEF Serial
<1> QED BY <1>5 DEF l1

LEMMA SerialTail ==
  ASSUME NEW key, NEW lines \in Seq(Lines), NEW r \in Nat, NEW n \in Nat,
         Serial(key, lines, r, n), lines # <<>>
  PROVE  Due(key, r, Head(lines)) /\ Serial(key, Tail(lines), r + 1, n)
<1> DEFINE l1 == Tail(lines)
           L == Len(lines)
<1>1. /\ Len(l1) = L - 1 /\ L \in Nat /\ L # 0 /\ Head(lines) = lines[1]
      /\ \A p \in 1..Len(l1) : l1[p] = lines[p + 1]
  BY HeadTailProperties, EmptySeq
<1>2. n + 1 = r + L /\ \A p \in 1..L : Due(key, r + p - 1, lines[p])
  BY DEF Serial
<1> HIDE DEF l1, L
<1>3. Due(key, r, Head(lines))
  <2>1. 1 \in 1..L /\ r + 1 - 1 = r
    BY <1>1
  <2>2. Due(key, r + 1 - 1, lines[1])
    BY <1>2, <2>1
  <2> QED BY <1>1, <2>1, <2>2
<1>4. ASSUME NEW p \in 1..Len(l1) PROVE Due(key, r + 1 + p - 1, l1[p])
  <2>1. p + 1 \in 1..L /\ r + 1 + p - 1 = r + (p + 1) - 1
    BY <1>1
  <2> QED BY <1>1, <1>2, <2>1
<1>5. n + 1 = r + 1 + Len(l1)
  BY <1>1, <1>2
<1>6. Serial(key, l1, r + 1, n)
  BY <1>4, <1>5 DEF Serial
<1> QED BY <1>3, <1>6 DEF l1

(* A step of a spawn, which is the only one.                               *)
LEMMA LoneNext ==
  ASSUME NEW c \in Callers, \A d \in Callers \ {c} : ~InSpawn(d)',
         ~violated', closing' \in {"no", "begun"},
         pc'[c] \in {"start", "hello", "install"} => link' = 0,
         \A w \in Spawns :
           /\ Rears(c, w)' => /\ pc'[c] = "hello" => Polite(w)'
                              /\ pc'[c] = "install" => Healthy(w)'
           /\ w = link' => Calm(w)'
           /\ worker'[w] = "booting" => pc'[c] = "hello" /\ mine'[c] = w
  PROVE  Blameless'
<1>1. \A d \in Callers \ {c} : pc'[d] \notin {"start", "hello", "install"}
  BY DEF InSpawn
<1>2. \A d \in Callers : \A w \in Spawns : Rears(d, w)' => d = c
  BY <1>1 DEF Rears, Spawning
<1> QED BY <1>1, <1>2 DEF Blameless

(* A step that leaves spawns and link as they are.                         *)
LEMMA BlameKept ==
  ASSUME Blameless, ~violated', closing' \in {"no", "begun"},
         link' = link,
         \A d \in Callers : InSpawn(d)' => InSpawn(d) /\ pc'[d] = pc[d]
                                            /\ mine'[d] = mine[d],
         \A d \in Callers :
           pc[d] = "hello" => pc'[d] = "hello" /\ mine'[d] = mine[d],
         \A w \in Spawns :
           /\ w = link /\ Calm(w) => Calm(w)'
           /\ \A c \in Callers : Rears(c, w) =>
                /\ pc[c] = "hello" /\ Polite(w) => Polite(w)'
                /\ pc[c] = "install" /\ Healthy(w) => Healthy(w)'
           /\ worker'[w] = "booting" => worker[w] = "booting"
  PROVE  Blameless'
<1>1. \A c, d \in Callers : InSpawn(c)' /\ InSpawn(d)' => c = d
  BY DEF Blameless
<1>2. ASSUME NEW c \in Callers, pc'[c] \in {"start", "hello", "install"}
      PROVE  pc'[c] = pc[c] /\ mine'[c] = mine[c]
  BY <1>2 DEF InSpawn
<1>3. ASSUME NEW c \in Callers, pc'[c] \in {"start", "hello", "install"}
      PROVE  link' = 0
  BY <1>2, <1>3 DEF Blameless
<1>4. ASSUME NEW c \in Callers, NEW w \in Spawns, Rears(c, w)'
      PROVE  /\ pc'[c] = "hello" => Polite(w)'
             /\ pc'[c] = "install" => Healthy(w)'
  <2>1. Rears(c, w) /\ pc'[c] = pc[c]
    BY <1>2, <1>4 DEF Rears, Spawning
  <2> QED BY <2>1 DEF Blameless
<1>5. ASSUME NEW w \in Spawns
      PROVE  /\ w = link' => Calm(w)'
             /\ worker'[w] = "booting" =>
                  \E c \in Callers : pc'[c] = "hello" /\ mine'[c] = w
  BY DEF Blameless
<1> QED BY <1>1, <1>3, <1>4, <1>5 DEF Blameless

(* While a spawn is under way it is the only one, and there is no link.    *)
LEMMA Lone ==
  ASSUME Blameless, NEW c \in Callers, InSpawn(c)
  PROVE  /\ \A d \in Callers \ {c} : ~InSpawn(d)
         /\ pc[c] \in {"start", "hello", "install"} => link = 0
         /\ \A w \in Spawns :
              worker[w] = "booting" => pc[c] = "hello" /\ mine[c] = w
<1>1. \A d \in Callers \ {c} : ~InSpawn(d)
  BY DEF Blameless
<1>2. \A d \in Callers : pc[d] = "hello" => d = c
  BY <1>1 DEF InSpawn
<1>3. pc[c] \in {"start", "hello", "install"} => link = 0
  BY DEF Blameless
<1> QED BY <1>1, <1>2, <1>3 DEF Blameless

LEMMA KilledBoots ==
  ASSUME NEW ws, NEW w \in Spawns, Killed(ws)[w] = "booting"
  PROVE  worker[w] = "booting" /\ w \notin ws
BY DEF Killed, Alive

(* A hello that is read was said in full: nothing else was said before it. *)
LEMMA PoliteReads ==
  ASSUME Typed, OrderInv, Blameless, NEW c \in Callers, pc[c] = "hello",
         NEW w \in Spawns, w = mine[c], replies[w] # <<>>
  PROVE  Healthy(w) /\ Hello(w, Head(replies[w]))
<1>1. Greets(w) /\ Polite(w)
  BY DEF OrderInv, SpawnedOnce, Blameless, Rears, Spawning
<1>2. worker[w] # "booting" /\ recvSeq[w] = 1
  BY <1>1 DEF Greets
<1>3. Wire(w) # <<>> /\ Head(Wire(w)) = Head(replies[w])
  BY WireTyped, ConcatTail DEF Wire
<1>4. Healthy(w) /\ Wire(w) = <<Line(w, 1, "hello", 0)>>
  BY <1>1, <1>2, <1>3 DEF Polite
<1>5. Head(replies[w]) = Line(w, 1, "hello", 0)
  BY <1>3, <1>4
<1> QED BY <1>2, <1>4, <1>5 DEF Hello, Receivable, Line

LEMMA BlameSpawn ==
  ASSUME Typed, OrderInv, Blameless, ~cause', NEW c \in Callers,
         \/ SpawnDrops(c) \/ SpawnStarts(c) \/ SpawnFails(c)
         \/ HelloArrives(c) \/ HelloIsLate(c) \/ HelloIsRefused(c)
         \/ HelloTimesOut(c) \/ Installs(c)
  PROVE  Blameless'
<1> USE DEF hostVars, boundVars, historyVars
<1>0. /\ pc \in [Callers -> Labels] /\ mine \in [Callers -> Nat]
      /\ ~violated /\ closing \in {"no", "begun"}
      /\ \A w \in Spawns : w # 0
  BY BoundsTyped DEF Typed, CallersTyped, Blameless
<1>1. ASSUME NEW label, Goto(c, label)
      PROVE  pc'[c] = label /\ \A d \in Callers \ {c} : pc'[d] = pc[d]
  BY <1>0, <1>1 DEF Goto
<1>2. ASSUME \A d \in Callers \ {c} : pc'[d] = pc[d] /\ ~InSpawn(d)
      PROVE  \A d \in Callers \ {c} : ~InSpawn(d)'
  BY <1>2 DEF InSpawn
<1>3. CASE SpawnDrops(c)
  <2>1. /\ pc[c] = "idle" /\ Goto(c, "start") /\ ~Overlaps(c) /\ link' = 0
        /\ UNCHANGED <<worker, violated, closing>>
    BY <1>3 DEF SpawnDrops
  <2>2. \A d \in Callers : ~InSpawn(d)
    BY <2>1 DEF Overlaps, InSpawn
  <2>3. \A w \in Spawns : worker[w] # "booting"
    BY <2>2 DEF Blameless, InSpawn
  <2>4. pc'[c] = "start" /\ \A d \in Callers \ {c} : ~InSpawn(d)'
    BY <1>1, <1>2, <2>1, <2>2
  <2>5. \A w \in Spawns : ~Rears(c, w)' /\ w # link'
    BY <1>0, <2>1, <2>4 DEF Rears, Spawning
  <2> QED BY <1>0, <2>1, <2>3, <2>4, <2>5, LoneNext
<1>4. CASE SpawnStarts(c)
  <2>0. /\ pc[c] = "start" /\ Goto(c, "hello") /\ spawned' = spawned + 1
        /\ mine' = [mine EXCEPT ![c] = spawned'] /\ bootstrap' = spawned'
        /\ worker' = [Killed({job}) EXCEPT ![spawned'] = "booting"]
        /\ UNCHANGED <<link, violated, closing>>
    BY <1>4 DEF SpawnStarts
  <2>1. /\ \A d \in Callers \ {c} : ~InSpawn(d)
        /\ \A w \in Spawns : worker[w] # "booting"
        /\ link = 0
    BY <2>0, Lone DEF InSpawn
  <2>3. PICK w \in Spawns : w = spawned'
    BY <1>4, BoundsTyped DEF SpawnStarts, Typed, SlotsTyped, Spawns
  <2>5. /\ worker'[w] = "booting"
        /\ \A v \in Spawns \ {w} : worker'[v] = Killed({job})[v]
    BY <2>0, <2>3, KilledTyped DEF Typed
  <2>6. Polite(w)'
    BY <2>0, <2>3, <2>5 DEF Polite
  <2>7. \A v \in Spawns : worker'[v] = "booting" => v = w
    BY <2>1, <2>5, KilledBoots
  <2>8. mine'[c] = w /\ pc'[c] = "hello"
    BY <1>0, <1>1, <2>0, <2>3
  <2>9. \A d \in Callers \ {c} : ~InSpawn(d)'
    BY <1>1, <1>2, <2>0, <2>1
  <2>10. \A v \in Spawns : (Rears(c, v)' => v = w) /\ v # link'
    BY <1>0, <2>0, <2>1, <2>8 DEF Rears
  <2>11. link' = 0
    BY <2>0, <2>1
  <2> QED BY <1>0, <2>0, <2>6, <2>7, <2>8, <2>9, <2>10, <2>11, LoneNext
<1>5. ASSUME pc[c] \in {"start", "hello"}, Goto(c, "idle"), link' = link,
             ~violated', closing' = closing,
             \/ worker' = Killed({job}) /\ pc[c] = "start"
             \/ worker' = Killed({job, mine[c]})
      PROVE  Blameless'
  <2>1. /\ \A d \in Callers \ {c} : ~InSpawn(d)
        /\ \A w \in Spawns :
             worker[w] = "booting" => pc[c] = "hello" /\ mine[c] = w
        /\ link = 0
    BY <1>5, Lone DEF InSpawn
  <2>2. pc'[c] = "idle" /\ \A d \in Callers \ {c} : ~InSpawn(d)'
    BY <1>1, <1>2, <1>5, <2>1
  <2>3. \A w \in Spawns : worker'[w] # "booting"
    BY <1>5, <2>1, KilledBoots
  <2>4. \A w \in Spawns : ~Rears(c, w)' /\ w # link'
    BY <1>0, <1>5, <2>1, <2>2 DEF Rears, Spawning
  <2> QED BY <1>0, <1>5, <2>2, <2>3, <2>4, LoneNext
<1>6. CASE SpawnFails(c)
  BY <1>0, <1>5, <1>6 DEF SpawnFails, Ends
<1>7. CASE HelloIsLate(c) \/ HelloTimesOut(c)
  BY <1>0, <1>5, <1>7 DEF HelloIsLate, HelloTimesOut, Abandon, Ends
<1>8. CASE HelloIsRefused(c)
  <2> PICK w \in Spawns : w = mine[c]
    BY <1>8, MineSpawned DEF HelloIsRefused
  <2> QED BY <1>8, PoliteReads DEF HelloIsRefused
<1>9. CASE HelloArrives(c)
  <2>0. /\ pc[c] = "hello" /\ replies[mine[c]] # <<>> /\ Goto(c, "install")
        /\ UNCHANGED <<link, closing, violated, mine, worker>>
    BY <1>9 DEF HelloArrives
  <2> PICK w \in Spawns : w = mine[c]
    BY <2>0, MineSpawned
  <2>1. /\ \A d \in Callers \ {c} : ~InSpawn(d)
        /\ \A v \in Spawns : worker[v] = "booting" => v = w
        /\ link = 0
    BY <2>0, Lone DEF InSpawn
  <2>2. Healthy(w) /\ Healthy(w)'
    BY <2>0, PoliteReads DEF Healthy
  <2>3. \A v \in Spawns : worker'[v] # "booting"
    BY <2>0, <2>1, <2>2 DEF Healthy
  <2>4. pc'[c] = "install" /\ \A d \in Callers \ {c} : ~InSpawn(d)'
    BY <1>1, <1>2, <2>0, <2>1
  <2>5. \A v \in Spawns : (Rears(c, v)' => v = w) /\ v # link'
    BY <1>0, <2>0, <2>1 DEF Rears
  <2>6. link' = 0
    BY <2>0, <2>1
  <2> QED BY <1>0, <2>0, <2>2, <2>3, <2>4, <2>5, <2>6, LoneNext
<1>10. CASE Installs(c)
  <2>0. /\ pc[c] = "install" /\ link' = mine[c] /\ Goto(c, "pid")
        /\ UNCHANGED <<worker, closing, violated, replies, output, seqVars>>
    BY <1>10 DEF Installs, pipeVars
  <2> PICK w \in Spawns : w = mine[c]
    BY <2>0, MineSpawned
  <2>1. /\ \A d \in Callers \ {c} : ~InSpawn(d)
        /\ \A v \in Spawns : worker[v] # "booting"
    BY <2>0, Lone DEF InSpawn
  <2>2. Healthy(w) /\ Greeted(w)
    BY <2>0 DEF Blameless, OrderInv, SpawnedOnce, Rears, Spawning
  <2>3. Calm(w)'
    <3>1. Wire(w)' = <<>> /\ recvSeq'[w] = 2 /\ sendSeq'[w] = 1
      BY <2>0, <2>2 DEF Greeted, Wire, seqVars
    <3>2. Healthy(w)'
      BY <2>0, <2>2 DEF Healthy
    <3>3. Serial(w, <<>>, 2, 1)
      BY DEF Serial
    <3> QED BY <3>1, <3>2, <3>3 DEF Calm
  <2>4. pc'[c] = "pid" /\ \A d \in Callers \ {c} : ~InSpawn(d)'
    BY <1>1, <1>2, <2>0, <2>1
  <2>5. \A v \in Spawns : ~Rears(c, v)' /\ (v = link' => v = w)
    BY <2>0, <2>4 DEF Rears, Spawning
  <2> QED BY <1>0, <2>0, <2>1, <2>3, <2>4, <2>5, LoneNext
<1> QED BY <1>3, <1>4, <1>6, <1>7, <1>8, <1>9, <1>10

LEMMA BlamePropose ==
  ASSUME Typed, Blameless, NEW c \in Callers,
         \/ NotesPid(c) \/ ProposeBegins(c) \/ ProposeLocks(c) \/ Writes(c)
         \/ Receives(c) \/ TimesOut(c)
  PROVE  Blameless'
<1> USE DEF hostVars, boundVars, historyVars, pipeVars, seqVars
<1>0. /\ pc \in [Callers -> Labels] /\ mine \in [Callers -> Nat]
      /\ ~violated /\ closing \in {"no", "begun"}
  BY DEF Typed, CallersTyped, Blameless
<1>1. /\ pc[c] \in {"pid", "idle", "lock", "write", "read"}
      /\ \E label \in {"idle", "lock", "write", "read"} : Goto(c, label)
      /\ UNCHANGED <<link, closing, bootstrap, worker, output, sendSeq>>
      /\ mine' = mine \/ \E m : mine' = [mine EXCEPT ![c] = m]
  BY DEF NotesPid, ProposeBegins, ProposeLocks, Writes, Receives, TimesOut,
         Returns, Ends
<1>2. /\ ~InSpawn(c)' /\ pc[c] # "hello"
      /\ \A d \in Callers \ {c} : pc'[d] = pc[d] /\ mine'[d] = mine[d]
  BY <1>0, <1>1 DEF InSpawn, Goto
<1>3. \A d \in Callers :
        /\ InSpawn(d)' => InSpawn(d) /\ pc'[d] = pc[d] /\ mine'[d] = mine[d]
        /\ pc[d] = "hello" => pc'[d] = "hello" /\ mine'[d] = mine[d]
  BY <1>2 DEF InSpawn
<1>4. \A w \in Spawns : /\ Healthy(w) => Healthy(w)'
                        /\ worker'[w] = "booting" => worker[w] = "booting"
  BY <1>1 DEF Healthy
<1>5. CASE Receives(c)
  <2> PICK w \in Spawns : w = link /\ w # 0
    BY <1>5, LinkHeld DEF Receives
  <2> PICK line : line = Head(replies[w])
    OBVIOUS
  <2>1. replies[w] # <<>> /\ Take(w) /\ Received(w, line)
    BY <1>5 DEF Receives
  <2>2. /\ Wire(w) # <<>> /\ Head(Wire(w)) = line
        /\ Wire(w)' = Tail(Wire(w))
    BY <1>1, <2>1, WireTakes
  <2>3. Healthy(w) /\ Serial(w, Wire(w), recvSeq[w], sendSeq[w])
    BY DEF Blameless, Calm
  <2>4. /\ Due(w, recvSeq[w], line)
        /\ Serial(w, Tail(Wire(w)), recvSeq[w] + 1, sendSeq[w])
    BY <2>2, <2>3, StreamTyped, SerialTail
  <2>5. Receivable(w, line) /\ line.type = "proposal"
    BY <2>4 DEF Due, Receivable
  <2>6. ~violated'
    BY <1>0, <1>5, <2>5 DEF Receives
  <2>7. recvSeq'[w] = recvSeq[w] + 1
    BY <2>1, <2>5 DEF Received, Typed, SessionsTyped
  <2>8. Calm(w)'
    BY <1>1, <1>4, <2>2, <2>3, <2>4, <2>7 DEF Calm
  <2>9. \A v \in Spawns : \A d \in Callers : ~Rears(d, v)
    BY DEF Blameless, Rears, Spawning
  <2> QED BY <1>0, <1>1, <1>3, <1>4, <2>6, <2>8, <2>9, BlameKept
<1>6. CASE ~Receives(c)
  <2>1. UNCHANGED <<violated, replies, recvSeq>>
    BY <1>6 DEF NotesPid, ProposeBegins, ProposeLocks, Writes, TimesOut
  <2>2. \A w \in Spawns : Wire(w)' = Wire(w)
    BY <1>1, <2>1, WireKept
  <2>3. \A w \in Spawns : (Calm(w) => Calm(w)') /\ (Polite(w) => Polite(w)')
    BY <1>1, <2>1, <2>2 DEF Calm, Polite, Healthy
  <2> QED BY <1>0, <1>1, <1>3, <1>4, <2>1, <2>3, BlameKept
<1> QED BY <1>5, <1>6

LEMMA BlameWorker ==
  ASSUME Typed, OrderInv, Blameless, ~cause', NEW v \in Spawns, Worker(v)
  PROVE  Blameless'
<1> USE DEF callVars, hostVars, boundVars, historyVars
<1>0. /\ worker \in [Spawns -> {"none", "booting", "ready", "hung", "dead"}]
      /\ ~violated /\ closing \in {"no", "begun"}
  BY DEF Typed, PipesTyped, Blameless
<1>1. UNCHANGED <<pc, mine, link, violated, closing, recvSeq>>
  BY DEF Worker, Pumps, Boots, BootsForged, Answers, Dies, Hangs, Misbehaves,
         seqVars
<1>2. \A d \in Callers :
        /\ InSpawn(d)' => InSpawn(d) /\ pc'[d] = pc[d] /\ mine'[d] = mine[d]
        /\ pc[d] = "hello" => pc'[d] = "hello" /\ mine'[d] = mine[d]
  BY <1>1 DEF InSpawn
<1>3. ASSUME NEW w \in Spawns, w # v,
             \A c \in Callers : Rears(c, w) => bootstrap' = bootstrap
      PROVE  /\ Calm(w) => Calm(w)'
             /\ Healthy(w) => Healthy(w)'
             /\ \A c \in Callers : Rears(c, w) => (Polite(w) => Polite(w)')
             /\ worker'[w] = "booting" => worker[w] = "booting"
  <2>1. worker'[w] = worker[w]
    BY <1>0, <1>3
       DEF Worker, Pumps, Boots, BootsForged, Answers, Dies, Hangs, Misbehaves
  <2>2. Still(w)
    BY <1>3, WorkerStill
  <2>3. Wire(w)' = Wire(w) /\ sendSeq'[w] = sendSeq[w]
    BY <2>2, StillStream DEF Still
  <2> QED BY <1>1, <1>3, <2>1, <2>3 DEF Calm, Polite, Healthy
<1>4. CASE bootstrap' = bootstrap
  <2>1. CASE Pumps(v)
    <3>1. UNCHANGED <<worker, sendSeq>>
      BY <2>1 DEF Pumps, seqVars
    <3>2. Wire(v)' = Wire(v) \/ worker[v] = "dead"
      BY <2>1, WirePumps
    <3>3. (Calm(v) => Calm(v)') /\ (Polite(v) => Polite(v)')
      BY <1>1, <1>4, <3>1, <3>2 DEF Calm, Polite, Healthy
    <3>4. (Healthy(v) => Healthy(v)')
          /\ (worker'[v] = "booting" => worker[v] = "booting")
      BY <3>1 DEF Healthy
    <3> QED BY <1>0, <1>1, <1>2, <1>3, <1>4, <3>3, <3>4, BlameKept
  <2>2. CASE Answers(v)
    <3>0. UNCHANGED <<worker, replies>>
      BY <2>2 DEF Answers
    <3> PICK line : line = Line(v, sendSeq[v] + 1, "proposal", Head(input[v]))
      OBVIOUS
    <3>1. input[v] # <<>> /\ Says(v, line) /\ Numbers(v)
      BY <2>2 DEF Answers
    <3>2. line \in Lines
      <4>1. Head(input[v]) \in Nat /\ sendSeq[v] + 1 \in Nat
            /\ v \in 0..MaxSpawns
        BY <3>1, StreamTyped
      <4> QED BY <4>1 DEF Line, Lines
    <3>3. Wire(v)' = Append(Wire(v), line)
      BY <3>0, <3>1, <3>2, WireSays
    <3>4. sendSeq'[v] = sendSeq[v] + 1
      <4>1. sendSeq \in [Spawns -> Nat]
        BY DEF Typed, SessionsTyped
      <4> QED BY <3>1, <4>1 DEF Numbers
    <3>5. Due(v, sendSeq[v] + 1, line)
      BY DEF Due, Line
    <3>6. Calm(v) => Calm(v)'
      <4> SUFFICES ASSUME Calm(v) PROVE Calm(v)'
        OBVIOUS
      <4>1. Serial(v, Append(Wire(v), line), recvSeq[v], sendSeq[v] + 1)
        BY <3>2, <3>5, StreamTyped, SerialAppend DEF Calm
      <4>2. Healthy(v)'
        BY <3>0 DEF Calm, Healthy
      <4> QED BY <1>1, <3>3, <3>4, <4>1, <4>2 DEF Calm
    <3>7. \A c \in Callers : ~Rears(c, v)
      BY <3>1 DEF OrderInv, SpawnedOnce, Unasked
    <3> QED BY <1>0, <1>1, <1>2, <1>3, <1>4, <3>0, <3>6, <3>7, BlameKept
  <2>3. CASE Hangs(v)
    <3>1. worker'[v] = "hung" /\ worker[v] \in {"booting", "ready"}
      BY <1>0, <2>3 DEF Hangs
    <3>2. Wire(v)' = Wire(v) /\ sendSeq' = sendSeq
      BY <2>3, WireKept DEF Hangs, pipeVars, seqVars
    <3>3. Calm(v) => Calm(v)'
      BY <1>1, <3>1, <3>2 DEF Calm, Healthy
    <3>4. ASSUME NEW c \in Callers, Rears(c, v), pc[c] = "hello", Polite(v)
          PROVE  Polite(v)'
      <4>1. Greets(v)
        BY <3>4 DEF OrderInv, SpawnedOnce
      <4>2. worker[v] = "booting" => Wire(v) = <<>>
        BY <4>1 DEF Greets, Wire
      <4> QED BY <3>1, <3>2, <3>4, <4>2 DEF Polite, Healthy
    <3> QED BY <1>0, <1>1, <1>2, <1>3, <1>4, <3>1, <3>3, <3>4, BlameKept
            DEF Healthy
  <2>4. CASE Boots(v)
    <3>1. PICK c \in Callers : pc[c] = "hello" /\ mine[c] = v
      BY <2>4 DEF Boots, Blameless
    <3>2. Polite(v)
      BY <3>1 DEF Blameless, Rears, Spawning
    <3>3. bootstrap = v /\ v # 0
      BY <2>4, <3>2, BoundsTyped DEF Boots, Polite, Healthy
    <3> QED BY <1>4, <2>4, <3>3 DEF Boots
  <2>5. CASE Dies(v) \/ Misbehaves(v) \/ BootsForged(v)
    BY <2>5 DEF Dies, Misbehaves, BootsForged
  <2> QED BY <2>1, <2>2, <2>3, <2>4, <2>5 DEF Worker
<1>5. CASE bootstrap' # bootstrap
  <2>1. Boots(v)
    BY <1>5 DEF Worker, Pumps, Boots, BootsForged, Answers, Dies, Hangs,
                Misbehaves
  <2>2. PICK c \in Callers : pc[c] = "hello" /\ mine[c] = v
    BY <2>1 DEF Boots, Blameless
  <2>3. link = 0 /\ \A d \in Callers : Spawning(d) => d = c
    BY <2>2, Lone DEF InSpawn, Spawning
  <2>4. Greets(v) /\ Polite(v)
    BY <2>2 DEF Blameless, OrderInv, SpawnedOnce, Rears, Spawning
  <2>5. bootstrap = v /\ v # 0
    BY <2>1, <2>4, BoundsTyped DEF Boots, Polite, Healthy
  <2> PICK line : line = Line(v, 1, "hello", 0)
    OBVIOUS
  <2>6. line \in Lines
    BY LinesTyped, StreamTyped
  <2>7. /\ worker' = [worker EXCEPT ![v] = "ready"] /\ Says(v, line)
        /\ replies' = replies
    BY <2>1, <2>5 DEF Boots
  <2>8. Wire(v)' = <<line>>
    <3>1. Wire(v)' = Append(Wire(v), line)
      BY <2>6, <2>7, WireSays
    <3>2. Wire(v) = <<>>
      BY <2>1, <2>4 DEF Boots, Greets, Wire
    <3> QED BY <3>1, <3>2
  <2>9. worker'[v] = "ready"
    BY <1>0, <2>7
  <2>10. Polite(v)'
    BY <2>8, <2>9 DEF Polite, Healthy
  <2>11. \A w \in Spawns : /\ w # link
                           /\ \A d \in Callers : Rears(d, w) => d = c /\ w = v
    BY <2>2, <2>3, BoundsTyped DEF Rears
  <2>12. \A w \in Spawns \ {v} : worker'[w] = worker[w]
    BY <1>0, <2>7
  <2> QED BY <1>0, <1>1, <1>2, <2>2, <2>9, <2>10, <2>11, <2>12, BlameKept
<1> QED BY <1>4, <1>5

LEMMA BlameInit == Init => BlameInv
BY BoundsTyped
   DEF Init, BlameInv, Blameless, InSpawn, Rears, Spawning, Spawns

LEMMA BlameNext == Typed /\ OrderInv /\ BlameInv /\ [Next]_vars => BlameInv'
<1> SUFFICES ASSUME Typed, OrderInv, BlameInv, [Next]_vars, ~cause'
             PROVE  Blameless'
  BY DEF BlameInv
<1> USE DEF callVars, hostVars, boundVars, historyVars
<1>1. ~cause
  <2>1. ASSUME NEW c \in Callers, Call(c) PROVE ~cause
    BY <2>1 DEF Call, Runs, SpawnDrops, SpawnStarts, SpawnFails, HelloArrives,
                HelloIsLate, HelloIsRefused, HelloTimesOut, Abandon, Installs,
                NotesPid, ProposeBegins, ProposeLocks, Writes, Receives,
                TimesOut
  <2>2. ASSUME NEW w \in Spawns, Worker(w) PROVE ~cause
    BY <2>2 DEF Worker, Pumps, Boots, BootsForged, Answers, Dies, Hangs,
                Misbehaves
  <2>3. CASE Kill \/ CloseBegins \/ CloseEndsJob \/ CloseDrops \/ UNCHANGED vars
    BY <2>3 DEF Kill, CloseBegins, CloseEndsJob, CloseDrops, vars
  <2> QED BY <2>1, <2>2, <2>3 DEF Next
<1>2. Blameless
  BY <1>1 DEF BlameInv
<1>3. ASSUME NEW c \in Callers, Call(c) PROVE Blameless'
  BY <1>2, <1>3, BlameSpawn, BlamePropose DEF Call, Runs
<1>4. CASE CloseBegins \/ UNCHANGED vars
  <2>1. /\ UNCHANGED <<pc, mine, link, violated, worker, bootstrap, output,
                       replies, sendSeq, recvSeq>>
        /\ closing' \in {"no", "begun"}
    BY <1>2, <1>4 DEF CloseBegins, vars, Blameless, pipeVars, seqVars
  <2>2. \A w \in Spawns : Wire(w)' = Wire(w)
    BY <2>1, WireKept
  <2>3. \A w \in Spawns : /\ Calm(w) => Calm(w)'
                          /\ Polite(w) => Polite(w)'
                          /\ Healthy(w) => Healthy(w)'
    BY <2>1, <2>2 DEF Calm, Polite, Healthy
  <2>4. ~violated' /\ \A d \in Callers : InSpawn(d)' => InSpawn(d)
    BY <1>2, <2>1 DEF Blameless, InSpawn
  <2> QED BY <1>2, <2>1, <2>3, <2>4, BlameKept
<1>5. CASE Kill \/ CloseEndsJob
  BY <1>5 DEF Kill, CloseEndsJob
<1>6. CASE CloseDrops
  BY <1>2, <1>6 DEF CloseDrops, Blameless
<1> QED BY <1>2, <1>3, <1>4, <1>5, <1>6, BlameWorker DEF Next

(* A worker that keeps to the protocol is not suspended, whatever is late, *)
(* times out or is spawned again: for any number of callers, prompts and   *)
(* spawns a channel violation has a bad line, a death, a kill, a close or  *)
(* two overlapping spawns behind it.                                       *)
THEOREM NeverBlamed == Spec => []NoFalseViolation
<1>1. Init => OrderInv /\ BlameInv
  BY OrderInit, BlameInit
<1>2. Typed /\ (OrderInv /\ BlameInv) /\ [Next]_vars => (OrderInv /\ BlameInv)'
  BY OrderNext, BlameNext
<1>3. BlameInv => NoFalseViolation
  BY DEF BlameInv, Blameless, NoFalseViolation
<1> QED BY <1>1, <1>2, <1>3, TypedAlways, PTL DEF Spec
=============================================================================
