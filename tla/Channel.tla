------------------------------- MODULE Channel -------------------------------
(***************************************************************************)
(* The channel between the runtime and its worker process (chan.rs, and    *)
(* spawn_worker, worker_propose and close in runtime.rs).                  *)
(*                                                                         *)
(* Host threads call spawn_worker and worker_propose.  A propose holds the *)
(* link's lock from its prompt to its answer; a spawn takes it only to     *)
(* drop the old link and to install the new one.  A thread per worker, the *)
(* line pump, reads one line of the worker's output for each read that was *)
(* asked of it, also when the reader has given up meanwhile.               *)
(*                                                                         *)
(* A line carries the session whose key authenticates it, or 0 if none     *)
(* does (a bad MAC, session or direction, too long, not text, the end of   *)
(* the output), its number, its type, and the prompt it answers.           *)
(***************************************************************************)
EXTENDS Naturals, Sequences, SequencesExt

CONSTANTS
  Callers,     \* host threads
  PipeCap,     \* prompts that fit in a worker's input pipe
  Large,       \* the prompts that do not even fit in an empty one
  MaxSpawns, MaxPrompts,
  MaxFaults    \* bound: workers that die, hang or send a bad line

ASSUME ChannelAssumption ==
  /\ {PipeCap, MaxSpawns, MaxPrompts, MaxFaults} \subseteq Nat /\ PipeCap > 0
  /\ 0 \notin Callers /\ Large \subseteq Nat

VARIABLES
  pc,         \* of each caller
  mine,       \* the spawn a caller performs, or the prompt it proposes
  lock,       \* the caller that holds `link`, or None
  link,       \* the spawn whose link is installed, or 0
  bootstrap,  \* the spawn whose credential is in the bootstrap file, or 0
  job, pid,   \* worker_job and worker_pid, or 0
  closing,    \* of close(): "no", "begun", "killed", "closed"
  violated,   \* a channel violation suspended the worker
  spawned, prompts, faults,
  worker,     \* of each spawn: "none", "booting", "ready", "hung", "dead"
  input,      \* prompts in its stdin pipe
  output,     \* lines in its stdout pipe
  sendSeq,    \* send_seq of its session: the lines it numbered
  recvSeq,    \* recv_seq of the host's session with it: the next number
  asked,      \* reads its pump still has to answer
  replies,    \* what its pump read and nobody took
  sent,       \* history: the prompts written to it
  accepted,   \* history: the answers taken, with the prompt proposed
  strayed,    \* history: workers of which a line was refused, or which
              \* made a proposal that answers no prompt
  cause       \* history: something that justifies a violation

callVars   == <<pc, mine, lock>>
hostVars   == <<link, job, pid, closing, violated>>
pipeVars   == <<input, output, asked, replies>>
seqVars    == <<sendSeq, recvSeq>>
boundVars  == <<spawned, prompts, faults>>
historyVars == <<sent, accepted, strayed, cause>>
vars == <<callVars, hostVars, bootstrap, worker, pipeVars, seqVars, boundVars,
          historyVars>>

None   == 0
Spawns == 1..MaxSpawns

Line(key, no, type, of) == [key |-> key, no |-> no, type |-> type, of |-> of]

Refusable == Line(0, 0, "other", 0)

Fault == faults < MaxFaults /\ faults' = faults + 1

InSpawn(c) == pc[c] \in {"start", "hello", "install", "pid"}

(* Two spawns share the bootstrap file and the job slot.                   *)
Overlaps(c) == \E d \in Callers \ {c} : InSpawn(d)

Alive(w) == worker[w] \in {"booting", "ready", "hung"}

Killed(ws) == [w \in Spawns |-> IF w \in ws /\ Alive(w) THEN "dead"
                                ELSE worker[w]]

Goto(c, label) == pc' = [pc EXCEPT ![c] = label]

Ends(c) == Goto(c, "idle") /\ mine' = [mine EXCEPT ![c] = 0]

-----------------------------------------------------------------------------
Init ==
  /\ pc = [c \in Callers |-> "idle"] /\ mine = [c \in Callers |-> 0]
  /\ lock = None /\ link = 0 /\ bootstrap = 0 /\ job = 0 /\ pid = 0
  /\ closing = "no" /\ violated = FALSE
  /\ spawned = 0 /\ prompts = 0 /\ faults = 0
  /\ worker = [w \in Spawns |-> "none"]
  /\ input = [w \in Spawns |-> <<>>] /\ output = [w \in Spawns |-> <<>>]
  /\ asked = [w \in Spawns |-> 0] /\ replies = [w \in Spawns |-> <<>>]
  /\ sendSeq = [w \in Spawns |-> 0] /\ recvSeq = [w \in Spawns |-> 1]
  /\ sent = [w \in Spawns |-> <<>>] /\ accepted = [w \in Spawns |-> <<>>]
  /\ strayed = {} /\ cause = FALSE

-----------------------------------------------------------------------------
(* Dropping a link closes both pipes and ends its pump and its session:    *)
(* what is in them nobody reads, and its histories end.                    *)
Emptied(f, w) == [f EXCEPT ![w] = <<>>]

Drop(w) ==
  IF w = 0 THEN UNCHANGED <<pipeVars, seqVars, sent, accepted, strayed>>
  ELSE /\ input' = Emptied(input, w) /\ output' = Emptied(output, w)
       /\ replies' = Emptied(replies, w) /\ asked' = [asked EXCEPT ![w] = 0]
       /\ sent' = Emptied(sent, w) /\ accepted' = Emptied(accepted, w)
       /\ sendSeq' = [sendSeq EXCEPT ![w] = 0]
       /\ recvSeq' = [recvSeq EXCEPT ![w] = 1]
       /\ strayed' = strayed \ {w}

(* spawn_worker: the old link goes first, which waits for a propose.       *)
SpawnDrops(c) ==
  /\ pc[c] = "idle" /\ closing = "no" /\ spawned < MaxSpawns
  /\ lock = None
  /\ Drop(link) /\ link' = 0 /\ bootstrap' = 0
  /\ Goto(c, "start")
  /\ cause' = (cause \/ Overlaps(c))
  /\ UNCHANGED <<mine, lock, job, pid, closing, violated, boundVars, worker>>

(* The credential is written, the old job ends its worker, and the process *)
(* and its pump start.                                                     *)
SpawnStarts(c) ==
  /\ pc[c] = "start" /\ spawned < MaxSpawns
  /\ spawned' = spawned + 1
  /\ mine' = [mine EXCEPT ![c] = spawned']
  /\ bootstrap' = spawned'
  /\ worker' = [Killed({job}) EXCEPT ![spawned'] = "booting"]
  /\ job' = spawned'
  /\ asked' = [asked EXCEPT ![spawned'] = 1]
  /\ Goto(c, "hello")
  /\ UNCHANGED <<lock, link, pid, closing, violated, input, output, replies,
                 seqVars, prompts, faults, historyVars>>

(* No process, or one that cannot be confined.                             *)
SpawnFails(c) ==
  /\ pc[c] = "start" /\ (Fault \/ (spawned = MaxSpawns /\ UNCHANGED faults))
  /\ bootstrap' = 0 /\ job' = 0 /\ worker' = Killed({job})
  /\ Ends(c)
  /\ UNCHANGED <<lock, link, pid, closing, violated, pipeVars, seqVars,
                 spawned, prompts, historyVars>>

(* ChannelSession::receive: the line authenticates under the session's key *)
(* and has the next number.                                                *)
KeyOnly(w, line) == line.key = w  \* mutant: a line may come again

Receivable(w, line) == line.key = w /\ line.no = recvSeq[w]

Received(w, line) ==
  recvSeq' = [recvSeq EXCEPT ![w] = IF Receivable(w, line) THEN @ + 1 ELSE @]

Take(w) == replies' = [replies EXCEPT ![w] = Tail(replies[w])]

(* A failed handshake drops the link, and ends whatever process the job    *)
(* slot holds.                                                             *)
Abandon(c) ==
  /\ worker' = Killed({job, mine[c]}) /\ job' = 0 /\ bootstrap' = 0
  /\ Drop(mine[c]) /\ Ends(c)
  /\ UNCHANGED <<lock, link, pid, closing, boundVars, cause>>

Hello(w, line) == Receivable(w, line) /\ line.type = "hello"

(* The hello_ok that answers it fails if the worker is gone.               *)
HelloArrives(c) ==
  LET w == mine[c] IN
  /\ pc[c] = "hello" /\ replies[w] # <<>> /\ Hello(w, Head(replies[w]))
  /\ Alive(w) /\ Take(w) /\ Received(w, Head(replies[w]))
  /\ Goto(c, "install")
  /\ UNCHANGED <<mine, lock, hostVars, bootstrap, worker, input, output, asked,
                 sendSeq, boundVars, historyVars>>

HelloIsLate(c) ==
  /\ pc[c] = "hello" /\ replies[mine[c]] # <<>>
  /\ Hello(mine[c], Head(replies[mine[c]])) /\ ~Alive(mine[c])
  /\ Abandon(c) /\ UNCHANGED violated

HelloIsRefused(c) ==
  /\ pc[c] = "hello" /\ replies[mine[c]] # <<>>
  /\ ~Hello(mine[c], Head(replies[mine[c]]))
  /\ Abandon(c) /\ violated' = TRUE

HelloTimesOut(c) ==
  /\ pc[c] = "hello" /\ replies[mine[c]] = <<>>
  /\ Abandon(c) /\ UNCHANGED violated

Installs(c) ==
  /\ pc[c] = "install" /\ lock = None
  /\ link' = mine[c] /\ Goto(c, "pid")
  /\ UNCHANGED <<mine, lock, bootstrap, job, pid, closing, violated, worker,
                 pipeVars, seqVars, boundVars, historyVars>>

NotesPid(c) ==
  /\ pc[c] = "pid" /\ pid' = mine[c] /\ Ends(c)
  /\ UNCHANGED <<lock, link, bootstrap, job, closing, violated, worker,
                 pipeVars, seqVars, boundVars, historyVars>>

-----------------------------------------------------------------------------
(* worker_propose.  Without a link the call fails at once.                 *)
ProposeBegins(c) ==
  /\ pc[c] = "idle" /\ closing = "no" /\ prompts < MaxPrompts
  /\ prompts' = prompts + 1 /\ mine' = [mine EXCEPT ![c] = prompts']
  /\ Goto(c, "lock")
  /\ UNCHANGED <<lock, hostVars, bootstrap, worker, pipeVars, seqVars, spawned,
                 faults, historyVars>>

ProposeLocks(c) ==
  /\ pc[c] = "lock" /\ lock = None
  /\ IF link = 0 THEN Ends(c) /\ UNCHANGED lock
     ELSE Goto(c, "write") /\ lock' = c /\ UNCHANGED mine
  /\ UNCHANGED <<hostVars, bootstrap, worker, pipeVars, seqVars,
                 boundVars, historyVars>>

Returns(c) == Ends(c) /\ lock' = None

(* A prompt larger than the pipe gets through to a worker that reads.      *)
Fits(c) ==
  \/ mine[c] \notin Large /\ Len(input[link]) < PipeCap
  \/ input[link] = <<>> /\ worker[link] = "ready"

WritesAlone(c) ==  \* mutant: the lock is taken for each line, not for both
  /\ pc[c] = "write"
  /\ \/ /\ Alive(link) /\ Fits(c)
        /\ input' = [input EXCEPT ![link] = Append(@, mine[c])]
        /\ sent' = [sent EXCEPT ![link] = Append(@, mine[c])]
        /\ asked' = [asked EXCEPT ![link] = @ + 1]
        /\ Goto(c, "read") /\ lock' = None /\ UNCHANGED mine
     \/ ~Alive(link) /\ Returns(c) /\ UNCHANGED <<input, sent, asked>>
  /\ UNCHANGED <<hostVars, bootstrap, worker, output, replies, seqVars,
                 boundVars, accepted, strayed, cause>>

(* A write to a full pipe waits as long as the worker lives; one to a      *)
(* worker that is gone fails and is not held against it.                   *)
Writes(c) ==
  /\ pc[c] = "write"
  /\ \/ /\ Alive(link) /\ Fits(c)
        /\ input' = [input EXCEPT ![link] = Append(@, mine[c])]
        /\ sent' = [sent EXCEPT ![link] = Append(@, mine[c])]
        /\ asked' = [asked EXCEPT ![link] = @ + 1]
        /\ Goto(c, "read") /\ UNCHANGED <<mine, lock>>
     \/ ~Alive(link) /\ Returns(c) /\ UNCHANGED <<input, sent, asked>>
  /\ UNCHANGED <<hostVars, bootstrap, worker, output, replies, seqVars,
                 boundVars, accepted, strayed, cause>>

(* A line that authenticates but is no proposal is refused as well, after  *)
(* it advanced the number.                                                 *)
Receives(c) ==
  LET line == Head(replies[link]) IN
  /\ pc[c] = "read" /\ replies[link] # <<>>
  /\ Take(link) /\ Received(link, line)
  /\ IF Receivable(link, line) /\ line.type = "proposal"
     THEN /\ accepted' = [accepted EXCEPT ![link] = Append(@,
                [prompt |-> mine[c], no |-> line.no, of |-> line.of])]
          /\ UNCHANGED <<violated, strayed>>
     ELSE /\ violated' = TRUE /\ strayed' = strayed \cup {link}
          /\ UNCHANGED accepted
  /\ Returns(c)
  /\ UNCHANGED <<link, job, pid, closing, bootstrap, worker, input,
                 output, asked, sendSeq, boundVars, sent, cause>>

WaitsForever(c) == FALSE /\ UNCHANGED vars  \* mutant: a read without a timeout

TimesOutViolates(c) ==  \* mutant: a timeout is a violation like the others
  /\ pc[c] = "read" /\ replies[link] = <<>>
  /\ Returns(c) /\ violated' = TRUE
  /\ UNCHANGED <<link, job, pid, closing, bootstrap, worker, pipeVars,
                 seqVars, boundVars, historyVars>>

(* A timeout is an exchange of 15 s and no violation.  The pump still owes *)
(* the line.                                                               *)
TimesOut(c) ==
  /\ pc[c] = "read" /\ replies[link] = <<>>
  /\ Returns(c)
  /\ UNCHANGED <<hostVars, bootstrap, worker, pipeVars, seqVars,
                 boundVars, historyVars>>

(* The line pump of a worker; at the end of its output it says so to every *)
(* read.                                                                   *)
Pumps(w) ==
  /\ asked[w] > 0 /\ asked' = [asked EXCEPT ![w] = @ - 1]
  /\ IF output[w] # <<>>
     THEN /\ replies' = [replies EXCEPT ![w] = Append(@, Head(output[w]))]
          /\ output' = [output EXCEPT ![w] = Tail(@)]
     ELSE /\ worker[w] = "dead"
          /\ replies' = [replies EXCEPT ![w] = Append(@, Refusable)]
          /\ UNCHANGED output
  /\ UNCHANGED <<callVars, hostVars, bootstrap, worker, input, seqVars,
                 boundVars, historyVars>>

-----------------------------------------------------------------------------
(* The worker.  It consumes the bootstrap file, or refuses to run; it may  *)
(* say a hello that nobody can authenticate.                               *)
Says(w, line) == output' = [output EXCEPT ![w] = Append(@, line)]

Numbers(w) == sendSeq' = [sendSeq EXCEPT ![w] = @ + 1]

Boots(w) ==
  /\ worker[w] = "booting"
  /\ IF bootstrap = 0
     THEN worker' = [worker EXCEPT ![w] = "dead"]
          /\ UNCHANGED <<bootstrap, output, sendSeq>>
     ELSE /\ worker' = [worker EXCEPT ![w] = "ready"] /\ bootstrap' = 0
          /\ Says(w, Line(bootstrap, 1, "hello", 0)) /\ Numbers(w)
  /\ UNCHANGED <<callVars, hostVars, input, asked, replies, recvSeq, boundVars,
                 historyVars>>

BootsForged(w) ==
  /\ worker[w] = "booting" /\ bootstrap # 0 /\ Fault
  /\ worker' = [worker EXCEPT ![w] = "ready"] /\ bootstrap' = 0
  /\ Says(w, Refusable) /\ Numbers(w) /\ cause' = TRUE
  /\ UNCHANGED <<callVars, hostVars, input, asked, replies, recvSeq, spawned,
                 prompts, sent, accepted, strayed>>

Answers(w) ==
  /\ worker[w] = "ready" /\ input[w] # <<>>
  /\ Says(w, Line(w, sendSeq[w] + 1, "proposal", Head(input[w])))
  /\ Numbers(w)
  /\ input' = [input EXCEPT ![w] = Tail(@)]
  /\ UNCHANGED <<callVars, hostVars, bootstrap, worker, asked, replies, recvSeq,
                 boundVars, historyVars>>

Dies(w) ==
  /\ Alive(w) /\ Fault
  /\ worker' = [worker EXCEPT ![w] = "dead"] /\ cause' = TRUE
  /\ UNCHANGED <<callVars, hostVars, bootstrap, pipeVars, seqVars, spawned,
                 prompts, sent, accepted, strayed>>

Hangs(w) ==
  /\ worker[w] \in {"booting", "ready"} /\ Fault
  /\ worker' = [worker EXCEPT ![w] = "hung"]
  /\ UNCHANGED <<callVars, hostVars, bootstrap, pipeVars, seqVars, spawned,
                 prompts, historyVars>>

(* A line other than the answer, in its place or besides it, counted by    *)
(* the worker or not: forged; the last number again, the next or the one   *)
(* after; a proposal that answers no prompt, or no proposal.  What it says *)
(* before its link is installed is read as if it said it afterwards.       *)
OtherLines(w) ==
  {Refusable} \cup
  {Line(w, no, type, 0) : no \in sendSeq[w] .. sendSeq[w] + 2,
                          type \in {"proposal", "other"}}

Misbehaves(w) ==
  /\ worker[w] = "ready" /\ w = link /\ Fault /\ cause' = TRUE
  /\ \E line \in OtherLines(w) :
       /\ Says(w, line)
       /\ strayed' = IF line = Line(w, sendSeq[w] + 1, "proposal", 0)
                     THEN strayed \cup {w} ELSE strayed
  /\ Numbers(w) \/ UNCHANGED sendSeq
  /\ \/ UNCHANGED input
     \/ input[w] # <<>> /\ input' = [input EXCEPT ![w] = Tail(@)]
  /\ UNCHANGED <<callVars, hostVars, bootstrap, worker, asked, replies, recvSeq,
                 spawned, prompts, sent, accepted>>

-----------------------------------------------------------------------------
(* kill_worker with terminate_process, from the operator or the console.   *)
Kill ==
  /\ closing = "no" /\ job # 0 /\ pid # 0 /\ Fault
  /\ worker' = Killed({job, pid}) /\ job' = 0 /\ pid' = 0 /\ cause' = TRUE
  /\ UNCHANGED <<callVars, link, closing, violated, bootstrap, pipeVars,
                 seqVars, spawned, prompts, sent, accepted, strayed>>

(* close(): the links to the other services have stopped; no call begins   *)
(* any more.  The worker ends before the link's lock is asked for.         *)
CloseBegins ==
  /\ closing = "no" /\ closing' = "begun"
  /\ UNCHANGED <<callVars, link, job, pid, violated, bootstrap, worker,
                 pipeVars, seqVars, boundVars, historyVars>>

CloseEndsJob ==
  /\ closing = "begun" /\ closing' = "killed"
  /\ worker' = Killed({job}) /\ job' = 0 /\ cause' = TRUE
  /\ UNCHANGED <<callVars, link, pid, violated, bootstrap, pipeVars, seqVars,
                 boundVars, sent, accepted, strayed>>

CloseDrops ==
  /\ closing = "killed" /\ lock = None /\ closing' = "closed"
  /\ Drop(link) /\ link' = 0 /\ bootstrap' = 0
  /\ UNCHANGED <<callVars, job, pid, violated, worker, boundVars, cause>>

-----------------------------------------------------------------------------
(* What the thread of a call does once the call has begun.                 *)
Runs(c) ==
  \/ SpawnStarts(c) \/ SpawnFails(c) \/ HelloArrives(c) \/ HelloIsLate(c)
  \/ HelloIsRefused(c) \/ HelloTimesOut(c) \/ Installs(c) \/ NotesPid(c)
  \/ ProposeLocks(c) \/ Writes(c) \/ Receives(c) \/ TimesOut(c)

Call(c) == SpawnDrops(c) \/ ProposeBegins(c) \/ Runs(c)

Worker(w) ==
  \/ Pumps(w) \/ Boots(w) \/ Answers(w)
  \/ Dies(w) \/ Hangs(w) \/ BootsForged(w) \/ Misbehaves(w)

Next ==
  \/ \E c \in Callers : Call(c)
  \/ \E w \in Spawns : Worker(w)
  \/ Kill \/ CloseBegins \/ CloseEndsJob \/ CloseDrops

Spec == Init /\ [][Next]_vars

(* A thread that can run does, and a timer ends; a hung worker does        *)
(* nothing, and nobody has to call, kill or close.                         *)
FairSpec ==
  /\ Spec
  /\ \A c \in Callers : WF_vars(Runs(c))
  /\ \A w \in Spawns : WF_vars(Pumps(w)) /\ WF_vars(Boots(w) \/ Answers(w))
  /\ WF_vars(CloseEndsJob \/ CloseDrops)

-----------------------------------------------------------------------------
Lines == [key : 0..MaxSpawns, no : Nat, type : {"hello", "proposal", "other"},
          of : Nat]

(* Every variable keeps to its kind, and whoever waits for an answer holds *)
(* the lock of an installed link.                                          *)
TypeOK ==
  /\ \A c \in Callers :
       /\ pc[c] \in {"idle", "start", "hello", "install", "pid", "lock",
                     "write", "read"}
       /\ pc[c] \in {"write", "read"} <=> lock = c
  /\ lock # None => link # 0
  /\ {link, bootstrap, job, pid} \subseteq 0..MaxSpawns
  /\ strayed \subseteq Spawns
  /\ \A w \in Spawns :
       /\ worker[w] \in {"none", "booting", "ready", "hung", "dead"}
       /\ Len(input[w]) <= PipeCap
       /\ {asked[w], sendSeq[w], recvSeq[w]} \subseteq Nat
       /\ ToSet(output[w]) \union ToSet(replies[w]) \subseteq Lines

(* A worker that keeps to the protocol, however slowly, is never suspended *)
(* for a channel violation: late answers, timeouts and respawns leave the  *)
(* numbering of both directions as it was.  What does suspend it is a bad  *)
(* line, its death, a kill or a close, or two spawns at the same time.     *)
NoFalseViolation == violated => cause

(* However a worker forges, repeats, skips or misnumbers its lines, the    *)
(* k-th answer the host takes from it answers the k-th prompt it wrote to  *)
(* it, until it refuses a line of it, which suspends it, or the worker     *)
(* makes up a proposal; and no number is ever taken twice                  *)
(* (ChannelSession::receive, worker_propose).                              *)
AnswersInOrder ==
  \A w \in Spawns : \A k \in DOMAIN accepted[w] :
    /\ w \notin strayed =>
         k \in DOMAIN sent[w] /\ accepted[w][k].of = sent[w][k]
    /\ \A j \in 1..k - 1 : accepted[w][j].no < accepted[w][k].no

(* The answer a propose returns is to its own prompt, so that the round    *)
(* trip it times is that of its prompt.                                    *)
AnswersItsPrompt ==
  \A w \in Spawns : \A k \in DOMAIN accepted[w] :
    accepted[w][k].prompt = accepted[w][k].of

(* A hung worker's pipe is full: the write to it has no timeout, and the   *)
(* lock it holds stops every later call.                                   *)
Stuck ==
  \E c \in Callers : pc[c] = "write" /\ worker[link] = "hung" /\ ~Fits(c)

(* Every call returns unless a write is stuck, and so does close(), which  *)
(* ends the worker before it asks for the link's lock, so that the logs    *)
(* are closed: unless a spawn that had begun fills the job slot again      *)
(* after close() emptied it, and the write to its worker is stuck          *)
(* (runtime.rs:461-506, 879-885).                                          *)
CallReturns ==
  /\ \A c \in Callers : []<>(pc[c] = "idle") \/ <>[]Stuck
  /\ \/ []<>(closing \in {"no", "closed"})
     \/ <>[](Stuck /\ closing = "killed" /\ job = link)
=============================================================================
