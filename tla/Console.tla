------------------------------ MODULE Console -------------------------------
(***************************************************************************)
(* The operator approval console (rust/src/console.rs): the server process *)
(* with its serving thread and its voters, the client inside the host, and *)
(* how the runtime uses it (attach_console and console_intercept in        *)
(* rust/src/runtime.rs).  A call that needs consent checks the client's    *)
(* health, then publishes its flow's view; the client's own thread reads   *)
(* votes, resolves the flow and publishes the result.  Both senders number *)
(* a frame under one lock and write it under another, and each end closes  *)
(* the link on a frame out of order.                                       *)
(*                                                                         *)
(* A session key stands for the frame MACs made with it.  The handshake is *)
(* one step up to hello_ok.  Reads time out at any moment nothing is there *)
(* to read (the client's timeout is 2 s, an operator's answer may be       *)
(* slower).  A flow's life in the broker is pending, granted or denied.    *)
(***************************************************************************)
EXTENDS Naturals, Sequences

CONSTANTS
  Flows,        \* consequential requests, each with the flow it opens
  NoFlow,
  MaxClients,   \* bound on attach_console calls
  MaxSessions,  \* bound on handshakes
  MaxDeaths,    \* bound on console deaths
  MaxTyped      \* bound on commands an operator types

(* A call's thread is none of the clients' own.                            *)
ASSUME ConsoleAssumption ==
  /\ NoFlow \notin Flows /\ Flows \cap (1 .. MaxClients) = {}
  /\ {MaxClients, MaxSessions, MaxDeaths, MaxTyped} \subseteq Nat

NoClient == 0
Clients == 1 .. MaxClients
Senders == Flows \cup Clients  \* a call's thread, a client's own thread

VARIABLES
  clients,  \* ClientState, `stop`, whether a writer is set, and the place
            \* `at` of the client's thread with the vote it handles
  wires,    \* each client's connection: its state and the frames in flight
  srv,      \* the console process: ConsoleAuth, the client it serves, the
            \* frame `out` between numbering and writing, waiting voters and
            \* the flows its transcript shows
  console,  \* the runtime's console slot
  flow,     \* each flow's state in the broker
  call,     \* each request's place `at`, the client it holds, what it is told
  post,     \* a numbered frame each sender has yet to write
  suspended,  \* the kill switch reached the host
  lost,     \* history: numbered frames of a host that never reached the wire
            \* of a serving console
  left      \* bounds: sessions, deaths and commands still allowed

vars == <<clients, wires, srv, console, flow, call, post, suspended, lost,
          left>>

NoVote == [flow |-> NoFlow, grant |-> FALSE]

FreshClient == [at |-> "none", connected |-> FALSE, ever |-> FALSE,
                failed |-> FALSE, stop |-> FALSE, writer |-> FALSE,
                send |-> 0, expect |-> 0, key |-> 0,
                vote |-> NoVote]

NoOut == [type |-> "none", flow |-> NoFlow, grant |-> FALSE, seq |-> 0,
          key |-> 0]

NoPost == [c |-> NoClient, type |-> "none", flow |-> NoFlow, seq |-> 0,
           key |-> 0]

FreshServer(auto) ==
  [auto |-> auto, up |-> TRUE, at |-> "idle", c |-> NoClient, key |-> 0,
   auth |-> 0, send |-> 0, out |-> NoOut, voters |-> {}, shown |-> {}]

Init ==
  /\ clients = [c \in Clients |-> FreshClient]
  /\ wires = [c \in Clients |-> [conn |-> "none", up |-> <<>>, down |-> <<>>]]
  /\ \E auto \in BOOLEAN : srv = FreshServer(auto)
  /\ console = NoClient
  /\ flow = [f \in Flows |-> "none"]
  /\ call = [f \in Flows |-> [at |-> "none", c |-> NoClient, told |-> "none"]]
  /\ post = [s \in Senders |-> NoPost]
  /\ suspended = FALSE /\ lost = {}
  /\ left = [sessions |-> MaxSessions, deaths |-> MaxDeaths,
             typed |-> MaxTyped]

-----------------------------------------------------------------------------
(* Both sides' helpers.                                                    *)

Healthy(c) == clients[c].connected /\ ~clients[c].failed /\ ~clients[c].stop

ErrsStaysConnected(client) ==  \* mutant: only the latch is set
  [client EXCEPT !.failed = @ \/ client.ever]

(* record_error: a client that was ever connected fails for good.          *)
Errs(client) == [client EXCEPT !.connected = FALSE,
                               !.failed = @ \/ client.ever]

(* The end of session() and of run_client's round: a failed or stopped     *)
(* thread is over, any other tries again.                                  *)
Leaves(client) ==
  [client EXCEPT !.writer = FALSE, !.connected = FALSE,
                 !.at = IF client.failed \/ client.stop THEN "ended"
                        ELSE "away"]

(* attach_console holds the console slot while it joins the old thread.    *)
SlotFree == \A c \in Clients : clients[c].stop => clients[c].at = "ended"

Decide(f, grant) ==
  IF f \in Flows /\ flow[f] = "pending" /\ ~suspended
  THEN [flow EXCEPT ![f] = IF grant THEN "granted" ELSE "denied"]
  ELSE flow

(* send_best_effort takes the number and the key under the state lock, ... *)
Number(s, c, type, f) ==
  /\ clients' = [clients EXCEPT ![c].send = @ + 1]
  /\ post' = [post EXCEPT ![s] = [c |-> c, type |-> type, flow |-> f,
                                  seq |-> clients[c].send + 1,
                                  key |-> clients[c].key]]

(* ... and writes under the writer lock.  Without a writer the frame is    *)
(* dropped silently; a connection the console left swallows it or fails.   *)
(* `client` is the record the sender's thread leaves behind.               *)
Write(s, client) ==
  LET p == post[s]  c == p.c  IN
  /\ post' = [post EXCEPT ![s] = NoPost]
  /\ \/ /\ clients[c].writer /\ wires[c].conn = "open"
        /\ wires' = [wires EXCEPT ![c].up = Append(@, p)]
        /\ clients' = [clients EXCEPT ![c] = client]
        /\ lost' = lost
     \/ /\ ~(clients[c].writer /\ wires[c].conn = "open")
        /\ lost' = lost \cup {<<p.key, p.seq>>}
        /\ \E errs \in {FALSE, clients[c].writer} :
             clients' = [clients EXCEPT ![c] = IF errs THEN Errs(client)
                                               ELSE client]
        /\ wires' = wires

-----------------------------------------------------------------------------
(* A consequential call in the host.                                       *)

(* The broker answers REQUIRE_APPROVAL with a fresh flow.                  *)
Ask(f) ==
  /\ call[f].at = "none" /\ ~suspended
  /\ flow' = [flow EXCEPT ![f] = "pending"]
  /\ call' = [call EXCEPT ![f].at = "asked"]
  /\ UNCHANGED <<clients, wires, srv, console, post, suspended, lost, left>>

Tell(f, answer) == [call EXCEPT ![f].at = "done", ![f].told = answer]

(* console_intercept takes the client out of the slot; without one the     *)
(* broker's answer stands.                                                 *)
Intercept(f) ==
  /\ call[f].at = "asked" /\ SlotFree
  /\ call' = IF console = NoClient THEN Tell(f, "REQUIRE_APPROVAL")
             ELSE [call EXCEPT ![f].at = "held", ![f].c = console]
  /\ UNCHANGED <<clients, wires, srv, console, flow, post, suspended, lost,
                 left>>

UnavailableForWaiting(f) ==  \* mutant: calls that wait are denied as well
  /\ call[f].at \in {"held", "done"} /\ call[f].c # NoClient
  /\ ~Healthy(call[f].c)
  /\ flow' = Decide(f, FALSE)
  /\ call' = Tell(f, "DENY")
  /\ UNCHANGED <<clients, wires, srv, console, post, suspended, lost, left>>

Unavailable(f) ==
  /\ call[f].at = "held" /\ ~Healthy(call[f].c)
  /\ flow' = Decide(f, FALSE)
  /\ call' = Tell(f, "DENY")
  /\ UNCHANGED <<clients, wires, srv, console, post, suspended, lost, left>>

(* A healthy client numbers the view next: it has no session to come that  *)
(* could restart the counter in between.                                   *)
Available(f) ==
  /\ call[f].at = "held" /\ Healthy(call[f].c)
  /\ Number(f, call[f].c, "view", f)
  /\ call' = [call EXCEPT ![f].at = "post"]
  /\ UNCHANGED <<wires, srv, console, flow, suspended, lost, left>>

(* Whatever became of the view, the worker is told REQUIRE_APPROVAL.       *)
PublishView(f) ==
  /\ call[f].at = "post"
  /\ Write(f, clients[call[f].c])
  /\ call' = Tell(f, "REQUIRE_APPROVAL")
  /\ UNCHANGED <<srv, console, flow, suspended, left>>

CallStep(f) ==
  Intercept(f) \/ Unavailable(f) \/ Available(f) \/ PublishView(f)

-----------------------------------------------------------------------------
(* The client's thread.                                                    *)

(* session: both counters restart; connect_hello up to the console's       *)
(* hello_ok.  A console that is down or busy changes nothing.              *)
Connect(c) ==
  /\ clients[c].at = "away" /\ ~clients[c].stop
  /\ srv.up /\ srv.at = "idle" /\ left.sessions > 0
  /\ LET key == MaxSessions - left.sessions + 1 IN
     /\ clients' = [clients EXCEPT ![c].at = "hello", ![c].key = key,
                                   ![c].send = 0, ![c].expect = 0]
     /\ srv' = [srv EXCEPT !.at = "hello", !.c = c, !.key = key,
                           !.auth = 0, !.send = 1]
  /\ wires' = [wires EXCEPT ![c] = [conn |-> "open", up |-> <<>>,
                                    down |-> <<>>]]
  /\ left' = [left EXCEPT !.sessions = @ - 1]
  /\ UNCHANGED <<console, flow, call, post, suspended, lost>>

HelloOk(c) ==
  /\ clients[c].at = "hello"
  /\ clients' = [clients EXCEPT ![c].at = "greeted", ![c].expect = 1,
                                ![c].connected = TRUE, ![c].ever = TRUE]
  /\ UNCHANGED <<wires, srv, console, flow, call, post, suspended, lost, left>>

Hangs(c, client) ==
  /\ clients' = [clients EXCEPT ![c] = Leaves(client)]
  /\ wires' = [wires EXCEPT ![c] = [conn |-> "shut", up |-> @.up,
                                    down |-> <<>>]]

(* The connection is lost, or its first answers take longer than 2 s.      *)
HelloLost(c) ==
  /\ clients[c].at = "hello"
  /\ Hangs(c, Errs(clients[c]))
  /\ UNCHANGED <<srv, console, flow, call, post, suspended, lost, left>>

SetWriterRestarts(c) ==  \* mutant: the writer comes with a fresh counter
  /\ clients[c].at = "greeted"
  /\ clients' = [clients EXCEPT ![c].at = "read", ![c].writer = TRUE,
                                ![c].send = 0]
  /\ UNCHANGED <<wires, srv, console, flow, call, post, suspended, lost, left>>

(* The writer is installed after the client says it is connected.          *)
SetWriter(c) ==
  /\ clients[c].at = "greeted"
  /\ clients' = [clients EXCEPT ![c].at = "read", ![c].writer = TRUE]
  /\ UNCHANGED <<wires, srv, console, flow, call, post, suspended, lost, left>>

InTurn(c, frame) ==
  frame.key = clients[c].key /\ frame.seq = clients[c].expect + 1

(* read_votes.  A frame of another key or out of order ends the client.    *)
ReadVote(c) ==
  /\ clients[c].at = "read" /\ ~clients[c].stop /\ wires[c].down # <<>>
  /\ LET frame == Head(wires[c].down) IN
     \/ /\ ~InTurn(c, frame)
        /\ Hangs(c, Errs(clients[c]))
        /\ UNCHANGED suspended
     \/ /\ InTurn(c, frame)
        /\ clients' = [clients EXCEPT
             ![c].expect = @ + 1,
             ![c].at = IF frame.type = "vote" THEN "vote" ELSE @,
             ![c].vote = IF frame.type = "vote"
                         THEN [flow |-> frame.flow, grant |-> frame.grant]
                         ELSE @]
        /\ wires' = [wires EXCEPT ![c].down = Tail(@)]
        /\ suspended' = (suspended \/ frame.type = "terminate")
  /\ UNCHANGED <<srv, console, flow, call, post, lost, left>>

(* on_vote: resolve the flow, then publish_result.                         *)
ApplyVote(c) ==
  /\ clients[c].at = "vote" /\ post[c] = NoPost
  /\ flow' = Decide(clients[c].vote.flow, clients[c].vote.grant)
  /\ Number(c, c, "result", clients[c].vote.flow)
  /\ UNCHANGED <<wires, srv, console, call, suspended, lost, left>>

PublishResult(c) ==
  /\ post[c] # NoPost
  /\ Write(c, [clients[c] EXCEPT !.at = "read", !.vote = NoVote])
  /\ UNCHANGED <<srv, console, flow, call, suspended, left>>

ReadFailsClosed(c) ==  \* mutant: a timeout reads on, as the console does
  /\ clients[c].at = "read" /\ ~clients[c].stop /\ wires[c].down = <<>>
  /\ wires[c].conn # "open"
  /\ Hangs(c, Errs(clients[c]))
  /\ UNCHANGED <<srv, console, flow, call, post, suspended, lost, left>>

(* The read finds the connection closed, or nothing came for 2 s.          *)
ReadFails(c) ==
  /\ clients[c].at = "read" /\ ~clients[c].stop /\ wires[c].down = <<>>
  /\ Hangs(c, Errs(clients[c]))
  /\ UNCHANGED <<srv, console, flow, call, post, suspended, lost, left>>

(* stop() was seen, at the head of a loop or as a failed read.             *)
Stopped(c) ==
  /\ clients[c].stop /\ clients[c].at \in {"away", "read"}
  /\ Hangs(c, clients[c])
  /\ UNCHANGED <<srv, console, flow, call, post, suspended, lost, left>>

ClientStep(c) ==
  \/ Connect(c) \/ HelloOk(c) \/ HelloLost(c) \/ SetWriter(c)
  \/ ReadVote(c) \/ ApplyVote(c) \/ PublishResult(c)
  \/ ReadFails(c) \/ Stopped(c)

-----------------------------------------------------------------------------
(* The console process.                                                    *)

(* The socket slot is filled after hello_ok was written.                   *)
Serve ==
  /\ srv.at = "hello"
  /\ srv' = [srv EXCEPT !.at = "serve"]
  /\ UNCHANGED <<clients, wires, console, flow, call, post, suspended, lost,
                 left>>

(* The handler clears the socket slot and lets the next host in; what it   *)
(* has not read is discarded by graceful_close.                            *)
Quits == /\ srv' = [srv EXCEPT !.at = "idle"]
         /\ wires' = [wires EXCEPT ![srv.c].conn = "left", ![srv.c].up = <<>>]

(* handle_connection's loop: a frame in turn is a view, written to the     *)
(* transcript and in auto mode given a voter, or a result.                 *)
TakeFrame ==
  /\ srv.at = "serve" /\ wires[srv.c].up # <<>>
  /\ LET frame == Head(wires[srv.c].up)
         seen == {frame.flow} \cap (IF frame.type = "view" THEN Flows ELSE {})
     IN  \/ /\ frame.key = srv.key /\ frame.seq = srv.auth + 1
            /\ srv' = [srv EXCEPT !.auth = @ + 1, !.shown = @ \cup seen,
                         !.voters = IF srv.auto THEN @ \cup seen ELSE @]
            /\ wires' = [wires EXCEPT ![srv.c].up = Tail(@)]
         \/ ~(frame.key = srv.key /\ frame.seq = srv.auth + 1) /\ Quits
  /\ UNCHANGED <<clients, console, flow, call, post, suspended, lost, left>>

HostGone ==
  /\ srv.at = "serve" /\ wires[srv.c].up = <<>> /\ wires[srv.c].conn = "shut"
  /\ Quits
  /\ UNCHANGED <<clients, console, flow, call, post, suspended, lost, left>>

(* send_conn, under the send lock: the number first, ...                   *)
Say(type, f, grant, voters, typed) ==
  /\ srv.up /\ srv.out = NoOut
  /\ srv' = [srv EXCEPT !.send = @ + 1, !.voters = voters,
               !.out = [type |-> type, flow |-> f, grant |-> grant,
                        seq |-> srv.send + 1, key |-> srv.key]]
  /\ left' = [left EXCEPT !.typed = @ - typed]
  /\ UNCHANGED <<clients, wires, console, flow, call, post, suspended, lost>>

(* ... then the write to whatever socket the slot holds, if any.  The key  *)
(* is read under a lock of its own and may be a later session's.           *)
SendConn ==
  /\ srv.out # NoOut
  /\ srv' = [srv EXCEPT !.out = NoOut]
  /\ \E key \in {srv.out.key, srv.key} :
       wires' = IF srv.at = "serve" /\ wires[srv.c].conn = "open"
                THEN [wires EXCEPT ![srv.c].down =
                        Append(@, [srv.out EXCEPT !.key = key])]
                ELSE wires
  /\ UNCHANGED <<clients, console, flow, call, post, suspended, lost, left>>

(* A voter wakes after its delay, whichever host is served by then.        *)
Vote(f, grant) ==
  /\ f \in srv.voters
  /\ Say("vote", f, grant, srv.voters \ {f}, 0)

(* The console takes any id; flow ids are random, and an operator types    *)
(* one that the console has shown.                                         *)
TypeVote(f, grant) ==
  /\ ~srv.auto /\ f \in srv.shown /\ left.typed > 0
  /\ Say("vote", f, grant, {}, 1)

TypeKill ==
  /\ ~srv.auto /\ srv.key # 0 /\ left.typed > 0
  /\ Say("terminate", NoFlow, FALSE, {}, 1)

(* The console process dies; frames in flight may still be read.           *)
ConsoleDies ==
  /\ srv.up /\ left.deaths > 0
  /\ srv' = [FreshServer(srv.auto) EXCEPT !.up = FALSE, !.shown = srv.shown]
  /\ \E kept \in BOOLEAN :
       wires' = [c \in Clients |->
                   IF wires[c].conn \in {"open", "left"}
                   THEN [conn |-> "left", up |-> <<>>,
                         down |-> IF kept THEN wires[c].down ELSE <<>>]
                   ELSE wires[c]]
  /\ left' = [left EXCEPT !.deaths = @ - 1]
  /\ UNCHANGED <<clients, console, flow, call, post, suspended, lost>>

ConsoleStarts ==
  /\ ~srv.up
  /\ srv' = [srv EXCEPT !.up = TRUE]
  /\ UNCHANGED <<clients, wires, console, flow, call, post, suspended, lost,
                 left>>

ConsoleStep == Serve \/ TakeFrame \/ HostGone \/ SendConn

-----------------------------------------------------------------------------
(* attach_console empties the slot and stops the client it held, ...       *)
Detach ==
  /\ console # NoClient
  /\ \E c \in Clients : clients[c].at = "none"  \* bound: one is left to attach
  /\ console' = NoClient
  /\ clients' = [clients EXCEPT ![console].stop = TRUE,
                                ![console].writer = FALSE]
  /\ wires' = IF clients[console].writer
              THEN [wires EXCEPT ![console].conn = "shut"] ELSE wires
  /\ UNCHANGED <<srv, flow, call, post, suspended, lost, left>>

(* ... and once its thread was joined, starts a new client and stores it.  *)
Attach(c) ==
  /\ console = NoClient /\ SlotFree
  /\ clients[c].at = "none"
  /\ clients' = [clients EXCEPT ![c].at = "away"]
  /\ console' = c
  /\ UNCHANGED <<wires, srv, flow, call, post, suspended, lost, left>>

Next ==
  \/ \E f \in Flows : Ask(f) \/ CallStep(f)
  \/ \E c \in Clients : ClientStep(c) \/ Attach(c)
  \/ ConsoleStep
  \/ \E f \in Flows, grant \in BOOLEAN : Vote(f, grant) \/ TypeVote(f, grant)
  \/ TypeKill \/ ConsoleDies \/ ConsoleStarts \/ Detach

Spec == Init /\ [][Next]_vars

(* Every thread that can run does, and a voter's delay ends.  Nobody has   *)
(* to ask, to type, to attach or to start a console.                       *)
FairSpec ==
  /\ Spec
  /\ \A f \in Flows : WF_vars(CallStep(f))
  /\ \A c \in Clients : WF_vars(ClientStep(c))
  /\ WF_vars(ConsoleStep)
  /\ \A f \in Flows : WF_vars(\E grant \in BOOLEAN : Vote(f, grant))

-----------------------------------------------------------------------------
TypeOK ==
  /\ clients \in [Clients ->
       [at : {"none", "away", "hello", "greeted", "read", "vote", "ended"},
        connected : BOOLEAN, ever : BOOLEAN, failed : BOOLEAN, stop : BOOLEAN,
        writer : BOOLEAN, send : Nat, expect : Nat, key : 0 .. MaxSessions,
        vote : [flow : Flows \cup {NoFlow}, grant : BOOLEAN]]]
  /\ \A c \in Clients :
       /\ clients[c].writer => clients[c].at \in {"read", "vote"}
       /\ clients[c].connected => clients[c].at \in {"greeted", "read", "vote"}
       /\ clients[c].failed => clients[c].ever /\ ~clients[c].connected
  /\ srv.at = "serve" => srv.c \in Clients /\ srv.key # 0
  /\ console \in Clients \cup {NoClient}
  /\ flow \in [Flows -> {"none", "pending", "granted", "denied"}]
  /\ call \in [Flows -> [at : {"none", "asked", "held", "post", "done"},
                         c : Clients \cup {NoClient},
                         told : {"none", "REQUIRE_APPROVAL", "DENY"}]]

(* A console that misses a frame never goes on as if nothing happened:     *)
(* whatever became of a numbered frame (no writer yet, a dead link), the   *)
(* serving console has taken no later one of that session, so the          *)
(* transcript has no silent gap (console.rs:292-303, 628-646).             *)
NoFrameSkipped ==
  srv.at = "serve" =>
    \A gap \in lost : gap[1] = srv.key => srv.auth < gap[2]

(* A worker told denied_approval_unavailable never sees its flow granted   *)
(* after all: the check comes before the view leaves the host              *)
(* (runtime.rs:1171-1179).                                                 *)
DeniedIsFinal ==
  \A f \in Flows : call[f].told = "DENY" => flow[f] # "granted"

Over(c) == clients[c].failed \/ clients[c].stop

Waits(f) == /\ call[f].told = "REQUIRE_APPROVAL" /\ call[f].c # NoClient
            /\ flow[f] = "pending"

(* No console is trusted for ever with a flow it does not answer: the flow *)
(* is decided, or the client fails (for what comes next it denies), is     *)
(* replaced, or the host is suspended, even if the view was dropped before *)
(* it left the host or never read (console.rs:666-676, 757-759).           *)
Decides ==
  \A f \in Flows :
    Waits(f) ~> (~Waits(f) \/ suspended \/ Over(call[f].c))

=============================================================================
