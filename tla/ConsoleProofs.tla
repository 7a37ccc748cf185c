---------------------------- MODULE ConsoleProofs ----------------------------
(***************************************************************************)
(* Theorems about Console, for any flows and any number of clients,        *)
(* sessions, deaths and commands: the types; a worker told DENY never sees *)
(* its flow granted; and a serving console skips no frame.                 *)
(***************************************************************************)
EXTENDS Console, SequenceTheorems, TLAPS

USE DEF vars

Keys == 0 .. MaxSessions

Posts(S) == [c : 0 .. MaxClients, type : {"none", "view", "result"},
             flow : S \cup {NoFlow}, seq : Nat, key : Keys]

Outs(S) == [type : {"none", "vote", "terminate"}, flow : S \cup {NoFlow},
            grant : BOOLEAN, seq : Nat, key : Keys]

ClientsOf(S) ==
  [at : {"none", "away", "hello", "greeted", "read", "vote", "ended"},
   connected : BOOLEAN, ever : BOOLEAN, failed : BOOLEAN, stop : BOOLEAN,
   writer : BOOLEAN, send : Nat, expect : Nat, key : Keys,
   vote : [flow : S \cup {NoFlow}, grant : BOOLEAN]]

Wires(S) == [conn : {"none", "open", "left", "shut"}, up : Seq(Posts(S)),
             down : Seq(Outs(S))]

SrvsOf(S) ==
  [auto : BOOLEAN, up : BOOLEAN, at : {"idle", "hello", "serve"},
   c : 0 .. MaxClients, key : Keys, auth : Nat, send : Nat, out : Outs(S),
   voters : SUBSET S, shown : SUBSET S]

(* What travels between the host and the console is typed, and is about    *)
(* the flows in S only.                                                    *)
Carries(S) ==
  /\ clients \in [Clients -> ClientsOf(S)]
  /\ wires \in [Clients -> Wires(S)]
  /\ srv \in SrvsOf(S)
  /\ post \in [Senders -> Posts(S)]

Calls == [at : {"none", "asked", "held", "post", "done"}, c : 0 .. MaxClients,
          told : {"none", "REQUIRE_APPROVAL", "DENY"}]

States == {"none", "pending", "granted", "denied"}

RestTyped ==
  /\ console \in 0 .. MaxClients
  /\ flow \in [Flows -> States]
  /\ call \in [Flows -> Calls]
  /\ suspended \in BOOLEAN
  /\ lost \subseteq (1 .. MaxSessions) \X Nat
  /\ left \in [sessions : 0 .. MaxSessions, deaths : Nat, typed : Nat]

(* Where a client's thread is decides what its record may say, ...         *)
Good(r) ==
  /\ r.writer => r.at \in {"read", "vote"}
  /\ r.connected => r.at \in {"greeted", "read", "vote"}
  /\ r.failed => /\ r.ever /\ ~r.connected
                 /\ r.at \in {"read", "vote", "ended"}
  /\ r.at \in {"hello", "greeted", "read", "vote"} => r.key # 0

(* ... and a frame it numbered is its own, and it is about to write it.    *)
ClientInv ==
  \A c \in Clients :
    /\ Good(clients[c])
    /\ post[c].key # 0 => post[c].c = c /\ clients[c].at = "vote"

CallInv ==
  \A f \in Flows :
    /\ call[f].at = "held" => call[f].c \in Clients
    /\ call[f].at = "post" => post[f].c = call[f].c /\ call[f].c \in Clients

SrvInv == srv.at # "idle" => srv.c \in Clients /\ srv.key # 0

(* A numbered frame has a key; no frame has the number 0 of no session.    *)
PostInv == \A s \in Senders : post[s] = NoPost \/ post[s].key # 0

TypeInv == /\ Carries(Flows) /\ RestTyped
           /\ ClientInv /\ CallInv /\ SrvInv /\ PostInv

LEMMA ConstantsTyped ==
  /\ MaxClients \in Nat /\ MaxSessions \in Nat
  /\ MaxDeaths \in Nat /\ MaxTyped \in Nat
  /\ 0 \in Keys /\ 0 \in 0 .. MaxClients
  /\ Clients \subseteq 0 .. MaxClients /\ 0 \notin Clients
  /\ NoFlow \notin Flows /\ Flows \cap Clients = {}
BY ConsoleAssumption DEF Keys, Clients

LEMMA FreshTyped ==
  ASSUME NEW S
  PROVE  /\ FreshClient \in ClientsOf(S) /\ NoVote \in [flow : S \cup {NoFlow},
                                                        grant : BOOLEAN]
         /\ NoOut \in Outs(S) /\ NoPost \in Posts(S)
         /\ \A auto \in BOOLEAN : FreshServer(auto) \in SrvsOf(S)
         /\ NoPost.key = 0 /\ NoPost.c = 0
<1>1. NoVote \in [flow : S \cup {NoFlow}, grant : BOOLEAN]
  BY DEF NoVote
<1>2. NoOut \in Outs(S)
  BY ConstantsTyped DEF NoOut, Outs
<1>3. NoPost \in Posts(S) /\ NoPost.key = 0 /\ NoPost.c = 0
  BY ConstantsTyped DEF NoPost, Posts, NoClient
<1>4. FreshClient \in ClientsOf(S)
  BY <1>1, ConstantsTyped DEF FreshClient, ClientsOf
<1>5. \A auto \in BOOLEAN : FreshServer(auto) \in SrvsOf(S)
  <2> DEFINE out == NoOut
  <2>1. {} \in SUBSET S /\ 0 \in 0 .. MaxClients /\ 0 \in Keys /\ 0 \in Nat
    BY ConstantsTyped
  <2>2. out \in Outs(S)
    BY <1>2
  <2> HIDE DEF out
  <2>3. \A auto \in BOOLEAN :
          [auto |-> auto, up |-> TRUE, at |-> "idle", c |-> 0, key |-> 0,
           auth |-> 0, send |-> 0, out |-> out, voters |-> {},
           shown |-> {}] \in SrvsOf(S)
    BY <2>1, <2>2 DEF SrvsOf
  <2> QED BY <2>3 DEF FreshServer, NoClient, out
<1> QED BY <1>1, <1>2, <1>3, <1>4, <1>5

LEMMA CarriesInit ==
  ASSUME NEW S, Init
  PROVE  Carries(S)
<1>1. [conn |-> "none", up |-> <<>>, down |-> <<>>] \in Wires(S)
  BY EmptySeq DEF Wires
<1> QED BY <1>1, FreshTyped DEF Init, Carries

LEMMA TypeInit == Init => TypeInv
<1> SUFFICES ASSUME Init PROVE TypeInv
  OBVIOUS
<1>1. Carries(Flows)
  BY CarriesInit
<1>2. RestTyped
  <2>1. left \in [sessions : 0 .. MaxSessions, deaths : Nat, typed : Nat]
    BY ConstantsTyped DEF Init
  <2>2. call \in [Flows -> Calls]
    BY ConstantsTyped DEF Init, Calls, NoClient
  <2>3. flow \in [Flows -> States] /\ lost = {} /\ suspended = FALSE
        /\ console \in 0 .. MaxClients
    BY ConstantsTyped DEF Init, States, NoClient
  <2> QED BY <2>1, <2>2, <2>3 DEF RestTyped
<1>3. ClientInv /\ PostInv
  BY FreshTyped DEF Init, ClientInv, Good, PostInv, FreshClient, Senders
<1>4. CallInv /\ SrvInv
  BY DEF Init, CallInv, SrvInv, FreshServer
<1> QED BY <1>1, <1>2, <1>3, <1>4 DEF TypeInv


-----------------------------------------------------------------------------
(* What a step makes of the records.                                       *)

LEMMA ClientRecords ==
  ASSUME NEW S, NEW r \in ClientsOf(S)
  PROVE  /\ Errs(r) \in ClientsOf(S) /\ Leaves(r) \in ClientsOf(S)
         /\ [r EXCEPT !.send = r.send + 1] \in ClientsOf(S)
         /\ [r EXCEPT !.at = "read", !.vote = NoVote] \in ClientsOf(S)
         /\ [r EXCEPT !.at = "read", !.writer = TRUE] \in ClientsOf(S)
         /\ [r EXCEPT !.stop = TRUE, !.writer = FALSE] \in ClientsOf(S)
         /\ [r EXCEPT !.at = "away"] \in ClientsOf(S)
         /\ [r EXCEPT !.at = "greeted", !.expect = 1, !.connected = TRUE,
                      !.ever = TRUE] \in ClientsOf(S)
         /\ \A k \in Keys : [r EXCEPT !.at = "hello", !.key = k, !.send = 0,
                                      !.expect = 0] \in ClientsOf(S)
<1>0. /\ NoVote \in [flow : S \cup {NoFlow}, grant : BOOLEAN]
      /\ r.send + 1 \in Nat /\ r.ever \in BOOLEAN /\ r.failed \in BOOLEAN
  BY FreshTyped DEF ClientsOf
<1>1. Errs(r) \in ClientsOf(S) /\ Leaves(r) \in ClientsOf(S)
  BY <1>0 DEF ClientsOf, Errs, Leaves
<1>2. /\ [r EXCEPT !.send = r.send + 1] \in ClientsOf(S)
      /\ [r EXCEPT !.at = "read", !.vote = NoVote] \in ClientsOf(S)
  BY <1>0 DEF ClientsOf
<1>3. /\ [r EXCEPT !.at = "read", !.writer = TRUE] \in ClientsOf(S)
      /\ [r EXCEPT !.stop = TRUE, !.writer = FALSE] \in ClientsOf(S)
      /\ [r EXCEPT !.at = "away"] \in ClientsOf(S)
      /\ [r EXCEPT !.at = "greeted", !.expect = 1, !.connected = TRUE,
                   !.ever = TRUE] \in ClientsOf(S)
  BY DEF ClientsOf
<1>4. \A k \in Keys : [r EXCEPT !.at = "hello", !.key = k, !.send = 0,
                                !.expect = 0] \in ClientsOf(S)
  BY DEF ClientsOf
<1> QED BY <1>1, <1>2, <1>3, <1>4

LEMMA ErrsFields ==
  ASSUME NEW S, NEW r \in ClientsOf(S)
  PROVE  /\ Errs(r).at = r.at /\ ~Errs(r).connected
         /\ Errs(r).key = r.key /\ Errs(r).send = r.send
         /\ Errs(r).stop = r.stop /\ Errs(r).writer = r.writer
         /\ Errs(r).ever = r.ever /\ Errs(r).failed = (r.failed \/ r.ever)
BY DEF ClientsOf, Errs

LEMMA LeavesFields ==
  ASSUME NEW S, NEW r \in ClientsOf(S)
  PROVE  /\ Leaves(r).at = IF r.failed \/ r.stop THEN "ended" ELSE "away"
         /\ ~Leaves(r).connected /\ ~Leaves(r).writer
         /\ Leaves(r).key = r.key /\ Leaves(r).send = r.send
         /\ Leaves(r).stop = r.stop
         /\ Leaves(r).ever = r.ever /\ Leaves(r).failed = r.failed
BY DEF ClientsOf, Leaves

(* What Number and Write do, to a typed state.                             *)
LEMMA NumberIs ==
  ASSUME TypeInv, NEW s \in Senders, NEW c \in Clients, NEW type,
         NEW f, Number(s, c, type, f)
  PROVE  /\ clients' = [clients EXCEPT ![c] =
                          [clients[c] EXCEPT !.send = clients[c].send + 1]]
         /\ post' = [post EXCEPT ![s] =
                       [c |-> c, type |-> type, flow |-> f,
                        seq |-> clients[c].send + 1,
                        key |-> clients[c].key]]
BY DEF Number

LEMMA WriteIs ==
  ASSUME TypeInv, NEW s \in Senders, NEW client, NEW c \in Clients,
         post[s].c = c, Write(s, client)
  PROVE  /\ post' = [post EXCEPT ![s] = NoPost]
         /\ \/ /\ wires' = [wires EXCEPT ![c] =
                       [wires[c] EXCEPT !.up = Append(wires[c].up, post[s])]]
               /\ lost' = lost
               /\ clients' = [clients EXCEPT ![c] = client]
            \/ /\ wires' = wires
               /\ lost' = lost \cup {<<post[s].key, post[s].seq>>}
               /\ \/ clients' = [clients EXCEPT ![c] = client]
                  \/ /\ clients' = [clients EXCEPT ![c] = Errs(client)]
                     /\ clients[c].writer
<1>1. clients[c].writer \in BOOLEAN
  BY DEF TypeInv, Carries, ClientsOf
<1> QED BY <1>1 DEF Write

(* A step that leaves the clients' records, the wires, ... as they are.    *)
LEMMA Untouched ==
  ASSUME [Next]_vars
  PROVE  /\ ConsoleStep \/ ConsoleDies \/ ConsoleStarts => UNCHANGED clients
         /\ \A f \in Flows : Ask(f) \/ Intercept(f) \/ Unavailable(f) =>
              UNCHANGED <<clients, wires, srv, post, lost, left>>
         /\ \A f \in Flows, grant \in BOOLEAN : Vote(f, grant)
              \/ TypeVote(f, grant) =>
              UNCHANGED <<clients, wires, console, flow, call, post, suspended,
                          lost>>
         /\ TypeKill => UNCHANGED <<clients, wires, console, flow, call, post,
                                    suspended, lost>>
BY DEF ConsoleStep, Serve, TakeFrame, HostGone, SendConn, ConsoleDies,
       ConsoleStarts, Ask, Intercept, Unavailable, Vote, TypeVote, TypeKill, Say


-----------------------------------------------------------------------------
(* Carries(S) goes on, unless a view of a flow outside S is numbered.      *)

LEMMA Writes ==
  ASSUME TypeInv
  PROVE  /\ \A f \in Flows : PublishView(f) =>
              /\ call[f].c \in Clients /\ post[f].c = call[f].c
              /\ f \in Senders /\ Write(f, clients[call[f].c])
         /\ \A c \in Clients : PublishResult(c) =>
              /\ post[c].c = c /\ c \in Senders /\ post[c].key # 0
              /\ clients[c].at = "vote"
              /\ Write(c, [clients[c] EXCEPT !.at = "read", !.vote = NoVote])
<1>1. \A f \in Flows : f \in Senders
  BY DEF Senders
<1>2. \A c \in Clients : c \in Senders
  BY DEF Senders
<1> QED BY <1>1, <1>2
    DEF TypeInv, CallInv, ClientInv, PostInv, PublishView, PublishResult

LEMMA ClientsStep ==
  ASSUME NEW S \in SUBSET Flows, TypeInv, Carries(S), [Next]_vars
  PROVE  clients' \in [Clients -> ClientsOf(S)]
<1>0. clients \in [Clients -> ClientsOf(S)]
  BY DEF Carries
<1>1. SUFFICES ASSUME clients' # clients
               PROVE  \E c \in Clients : \E r \in ClientsOf(S) :
                        clients' = [clients EXCEPT ![c] = r]
  BY <1>0
<1>2. ASSUME NEW s \in Senders, NEW c \in Clients, post[s].c = c,
             NEW r \in ClientsOf(S), Write(s, r)
      PROVE  \E d \in Clients : \E q \in ClientsOf(S) :
               clients' = [clients EXCEPT ![d] = q]
  <2>1. Errs(r) \in ClientsOf(S)
    BY ClientRecords
  <2>2. \/ clients' = [clients EXCEPT ![c] = r]
        \/ clients' = [clients EXCEPT ![c] = Errs(r)]
    BY <1>2, WriteIs
  <2> QED BY <2>1, <2>2
<1>3. ASSUME NEW s \in Senders, NEW c \in Clients, NEW type, NEW f,
             Number(s, c, type, f)
      PROVE  \E r \in ClientsOf(S) : clients' = [clients EXCEPT ![c] = r]
  <2>1. [clients[c] EXCEPT !.send = clients[c].send + 1] \in ClientsOf(S)
    BY <1>0, ClientRecords
  <2> QED BY <1>3, <2>1, NumberIs
<1>4. ASSUME NEW f \in Flows, CallStep(f)
      PROVE  \E c \in Clients : \E r \in ClientsOf(S) :
               clients' = [clients EXCEPT ![c] = r]
  <2>1. ~Intercept(f) /\ ~Unavailable(f)
    BY <1>1 DEF Intercept, Unavailable
  <2>2. CASE Available(f)
    <3>1. call[f].c \in Clients /\ f \in Senders
      BY <2>2 DEF TypeInv, CallInv, Available, Senders
    <3> QED BY <1>3, <2>2, <3>1 DEF Available
  <2>3. CASE PublishView(f)
    BY <1>0, <1>2, <2>3, Writes
  <2> QED BY <1>4, <2>1, <2>2, <2>3 DEF CallStep
<1>5. ASSUME NEW c \in Clients, ClientStep(c) \/ Attach(c)
      PROVE  \E d \in Clients : \E r \in ClientsOf(S) :
               clients' = [clients EXCEPT ![d] = r]
  <2>0. clients[c] \in ClientsOf(S) /\ wires[c].down \in Seq(Outs(S))
    BY <1>0 DEF Carries, Wires
  <2>1. CASE Connect(c)
    <3> DEFINE key == MaxSessions - left.sessions + 1
    <3>1. key \in Keys
      <4>1. left.sessions \in 0 .. MaxSessions /\ left.sessions > 0
        BY <2>1 DEF TypeInv, RestTyped, Connect
      <4> QED BY <4>1, ConstantsTyped DEF Keys
    <3>2. clients' = [clients EXCEPT ![c] =
             [clients[c] EXCEPT !.at = "hello", !.key = key, !.send = 0,
                                !.expect = 0]]
      BY <2>1 DEF Connect
    <3> HIDE DEF key
    <3> QED BY <2>0, <3>1, <3>2, ClientRecords
  <2>2. CASE HelloOk(c)
    <3>1. clients' = [clients EXCEPT ![c] =
             [clients[c] EXCEPT !.at = "greeted", !.expect = 1,
                                !.connected = TRUE, !.ever = TRUE]]
      BY <2>2 DEF HelloOk
    <3> QED BY <2>0, <3>1, ClientRecords
  <2>3. CASE SetWriter(c) \/ Attach(c)
    <3>1. \/ clients' = [clients EXCEPT ![c] =
                [clients[c] EXCEPT !.at = "read", !.writer = TRUE]]
          \/ clients' = [clients EXCEPT ![c] =
                [clients[c] EXCEPT !.at = "away"]]
      BY <2>3 DEF SetWriter, Attach
    <3> QED BY <2>0, <3>1, ClientRecords
  <2>4. ASSUME NEW r \in ClientsOf(S), Hangs(c, r)
        PROVE  \E q \in ClientsOf(S) : clients' = [clients EXCEPT ![c] = q]
    BY <2>4, ClientRecords DEF Hangs
  <2>5. CASE HelloLost(c) \/ ReadFails(c) \/ Stopped(c)
    BY <2>0, <2>4, <2>5, ClientRecords DEF HelloLost, ReadFails, Stopped
  <2>6. CASE ReadVote(c)
    <3> DEFINE frame == Head(wires[c].down)
               old == clients[c]
               new == [old EXCEPT !.expect = old.expect + 1,
                        !.at = IF frame.type = "vote" THEN "vote" ELSE old.at,
                        !.vote = IF frame.type = "vote"
                                 THEN [flow |-> frame.flow,
                                       grant |-> frame.grant]
                                 ELSE old.vote]
    <3>1. frame \in Outs(S)
      BY <2>0, <2>6, HeadTailProperties DEF ReadVote
    <3>2. new \in ClientsOf(S)
      <4>1. old.expect + 1 \in Nat /\ old \in ClientsOf(S)
        BY <2>0 DEF ClientsOf
      <4>2. (IF frame.type = "vote"
             THEN [flow |-> frame.flow, grant |-> frame.grant]
             ELSE old.vote) \in [flow : S \cup {NoFlow}, grant : BOOLEAN]
        BY <2>0, <3>1 DEF ClientsOf, Outs
      <4> HIDE DEF frame, old
      <4> QED BY <4>1, <4>2 DEF ClientsOf
    <3>3. \/ Hangs(c, Errs(clients[c]))
          \/ clients' = [clients EXCEPT ![c] = new]
      BY <2>6 DEF ReadVote
    <3> HIDE DEF new
    <3> QED BY <2>0, <2>4, <3>2, <3>3, ClientRecords
  <2>7. CASE ApplyVote(c)
    <3>1. c \in Senders
      BY DEF Senders
    <3> QED BY <1>3, <2>7, <3>1 DEF ApplyVote
  <2>8. CASE PublishResult(c)
    BY <2>0, <1>2, <2>8, Writes, ClientRecords
  <2> QED BY <1>5, <2>1, <2>2, <2>3, <2>5, <2>6, <2>7, <2>8 DEF ClientStep
<1>6. CASE Detach
  <2>1. console \in Clients
    BY <1>6, ConstantsTyped DEF Detach, TypeInv, RestTyped, NoClient, Clients
  <2>2. clients' = [clients EXCEPT ![console] =
           [clients[console] EXCEPT !.stop = TRUE, !.writer = FALSE]]
    BY <1>6 DEF Detach
  <2> QED BY <1>0, <2>1, <2>2, ClientRecords
<1> QED BY <1>1, <1>4, <1>5, <1>6, Untouched DEF Next, Ask


LEMMA WireRecords ==
  ASSUME NEW S, NEW w \in Wires(S)
  PROVE  /\ \A p \in Posts(S) : [w EXCEPT !.up = Append(w.up, p)] \in Wires(S)
         /\ \A o \in Outs(S) :
              [w EXCEPT !.down = Append(w.down, o)] \in Wires(S)
         /\ w.down # <<>> => [w EXCEPT !.down = Tail(w.down)] \in Wires(S)
         /\ w.up # <<>> => [w EXCEPT !.up = Tail(w.up)] \in Wires(S)
         /\ [w EXCEPT !.conn = "left", !.up = <<>>] \in Wires(S)
         /\ [w EXCEPT !.conn = "shut"] \in Wires(S)
         /\ [conn |-> "shut", up |-> w.up, down |-> <<>>] \in Wires(S)
         /\ [conn |-> "open", up |-> <<>>, down |-> <<>>] \in Wires(S)
         /\ [conn |-> "left", up |-> <<>>, down |-> w.down] \in Wires(S)
         /\ [conn |-> "left", up |-> <<>>, down |-> <<>>] \in Wires(S)
<1> DEFINE P == Seq(Posts(S))
           O == Seq(Outs(S))
<1>1. w.up \in P /\ w.down \in O /\ <<>> \in P /\ <<>> \in O
  BY EmptySeq DEF Wires
<1>2. \A p \in Posts(S) : Append(w.up, p) \in P
  BY <1>1, AppendProperties
<1>3. \A o \in Outs(S) : Append(w.down, o) \in O
  BY <1>1, AppendProperties
<1>4. /\ w.up # <<>> => Tail(w.up) \in P
      /\ w.down # <<>> => Tail(w.down) \in O
  BY <1>1, HeadTailProperties
<1>5. Wires(S) = [conn : {"none", "open", "left", "shut"}, up : P, down : O]
  BY DEF Wires
<1> HIDE DEF P, O
<1> QED BY <1>1, <1>2, <1>3, <1>4, <1>5

LEMMA WiresStep ==
  ASSUME NEW S \in SUBSET Flows, TypeInv, Carries(S), [Next]_vars
  PROVE  wires' \in [Clients -> Wires(S)]
<1>0. /\ wires \in [Clients -> Wires(S)] /\ post \in [Senders -> Posts(S)]
      /\ srv.out \in Outs(S) /\ srv.key \in Keys
  BY DEF Carries, SrvsOf
<1>1. ASSUME NEW s \in Senders, NEW c \in Clients, post[s].c = c,
             NEW client, Write(s, client)
      PROVE  wires' \in [Clients -> Wires(S)]
  <2>1. [wires[c] EXCEPT !.up = Append(wires[c].up, post[s])] \in Wires(S)
    BY <1>0, WireRecords
  <2>2. \/ wires' = wires
        \/ wires' = [wires EXCEPT ![c] =
                      [wires[c] EXCEPT !.up = Append(wires[c].up, post[s])]]
    BY <1>1, WriteIs
  <2> QED BY <1>0, <2>1, <2>2
<1>2. ASSUME NEW c \in Clients, NEW client, Hangs(c, client)
      PROVE  wires' \in [Clients -> Wires(S)]
  <2>1. wires' = [wires EXCEPT ![c] = [conn |-> "shut", up |-> wires[c].up,
                                       down |-> <<>>]]
    BY <1>2 DEF Hangs
  <2> QED BY <1>0, <2>1, WireRecords
<1>3. ASSUME NEW f \in Flows, Ask(f) \/ CallStep(f)
      PROVE  wires' \in [Clients -> Wires(S)]
  BY <1>0, <1>1, <1>3, Writes, Untouched DEF CallStep, Available
<1>4. ASSUME NEW c \in Clients, ClientStep(c) \/ Attach(c)
      PROVE  wires' \in [Clients -> Wires(S)]
  <2>0. wires[c] \in Wires(S)
    BY <1>0
  <2>1. CASE Connect(c)
    BY <1>0, <2>0, <2>1, WireRecords DEF Connect
  <2>2. CASE ReadVote(c)
    <3>1. \/ Hangs(c, Errs(clients[c]))
          \/ /\ wires[c].down # <<>>
             /\ wires' = [wires EXCEPT ![c] =
                  [wires[c] EXCEPT !.down = Tail(wires[c].down)]]
      BY <2>2 DEF ReadVote
    <3>2. wires[c].down # <<>> =>
            [wires[c] EXCEPT !.down = Tail(wires[c].down)] \in Wires(S)
      BY <2>0, WireRecords
    <3> QED BY <1>0, <1>2, <3>1, <3>2
  <2>3. CASE HelloLost(c) \/ ReadFails(c) \/ Stopped(c)
    BY <1>2, <2>3 DEF HelloLost, ReadFails, Stopped
  <2>4. CASE PublishResult(c)
    BY <1>1, <2>4, Writes
  <2>5. CASE HelloOk(c) \/ SetWriter(c) \/ ApplyVote(c) \/ Attach(c)
    BY <1>0, <2>5 DEF HelloOk, SetWriter, ApplyVote, Attach
  <2> QED BY <1>4, <2>1, <2>2, <2>3, <2>4, <2>5 DEF ClientStep
<1>5. CASE ConsoleStep
  <2>1. CASE Serve
    BY <1>0, <2>1 DEF Serve
  <2>2. CASE Quits
    <3>1. wires' = [wires EXCEPT ![srv.c] =
                     [wires[srv.c] EXCEPT !.conn = "left", !.up = <<>>]]
      BY <2>2 DEF Quits
    <3> QED BY <1>0, <3>1, WireRecords
  <2>3. CASE TakeFrame
    <3>1. srv.c \in Clients /\ wires[srv.c].up # <<>>
      BY <2>3 DEF TakeFrame, TypeInv, SrvInv
    <3>2. \/ Quits
          \/ wires' = [wires EXCEPT ![srv.c] =
                        [wires[srv.c] EXCEPT !.up = Tail(wires[srv.c].up)]]
      BY <2>3 DEF TakeFrame
    <3>3. [wires[srv.c] EXCEPT !.up = Tail(wires[srv.c].up)] \in Wires(S)
      BY <1>0, <3>1, WireRecords
    <3> QED BY <1>0, <2>2, <3>2, <3>3
  <2>4. CASE HostGone
    BY <2>2, <2>4 DEF HostGone
  <2>5. CASE SendConn
    <3> PICK key \in {srv.out.key, srv.key} :
          wires' = IF srv.at = "serve" /\ wires[srv.c].conn = "open"
                   THEN [wires EXCEPT ![srv.c].down =
                           Append(@, [srv.out EXCEPT !.key = key])]
                   ELSE wires
      BY <2>5 DEF SendConn
    <3> DEFINE out == [srv.out EXCEPT !.key = key]
    <3>1. \/ wires' = wires
          \/ wires' = [wires EXCEPT ![srv.c] =
               [wires[srv.c] EXCEPT !.down = Append(wires[srv.c].down, out)]]
      OBVIOUS
    <3>2. out \in Outs(S)
      BY <1>0 DEF Outs
    <3> HIDE DEF out
    <3>3. srv.c \in Clients =>
            [wires[srv.c] EXCEPT !.down = Append(wires[srv.c].down, out)]
              \in Wires(S)
      BY <1>0, <3>2, WireRecords
    <3> QED BY <1>0, <3>1, <3>3
  <2> QED BY <1>5, <2>1, <2>3, <2>4, <2>5 DEF ConsoleStep
<1>6. CASE ConsoleDies
  <2>1. PICK kept \in BOOLEAN :
          wires' = [c \in Clients |->
                      IF wires[c].conn \in {"open", "left"}
                      THEN [conn |-> "left", up |-> <<>>,
                            down |-> IF kept THEN wires[c].down ELSE <<>>]
                      ELSE wires[c]]
    BY <1>6 DEF ConsoleDies
  <2>2. \A c \in Clients :
          \/ wires'[c] = wires[c]
          \/ wires'[c] = [conn |-> "left", up |-> <<>>, down |-> wires[c].down]
          \/ wires'[c] = [conn |-> "left", up |-> <<>>, down |-> <<>>]
    BY <2>1
  <2>3. \A c \in Clients : wires'[c] \in Wires(S)
    BY <1>0, <2>2, WireRecords
  <2> QED BY <2>1, <2>3
<1>7. CASE Detach
  <2>1. \/ wires' = wires
        \/ wires' = [wires EXCEPT ![console] =
                      [wires[console] EXCEPT !.conn = "shut"]]
    BY <1>7 DEF Detach
  <2>2. console \in Clients =>
          [wires[console] EXCEPT !.conn = "shut"] \in Wires(S)
    BY <1>0, WireRecords
  <2> QED BY <1>0, <2>1, <2>2
<1>8. CASE ConsoleStarts
  BY <1>0, <1>8 DEF ConsoleStarts
<1> QED BY <1>0, <1>3, <1>4, <1>5, <1>6, <1>7, <1>8, Untouched DEF Next


LEMMA SrvRecords ==
  ASSUME NEW S, NEW v \in SrvsOf(S)
  PROVE  /\ \A at \in {"idle", "serve"} : [v EXCEPT !.at = at] \in SrvsOf(S)
         /\ [v EXCEPT !.out = NoOut] \in SrvsOf(S)
         /\ [v EXCEPT !.up = TRUE] \in SrvsOf(S)
         /\ \A c \in 0 .. MaxClients, k \in Keys :
              [v EXCEPT !.at = "hello", !.c = c, !.key = k, !.auth = 0,
                        !.send = 1] \in SrvsOf(S)
         /\ \A T \in SUBSET S, U \in SUBSET S :
              [v EXCEPT !.auth = v.auth + 1, !.shown = T, !.voters = U]
                \in SrvsOf(S)
         /\ \A o \in Outs(S), U \in SUBSET S :
              [v EXCEPT !.send = v.send + 1, !.voters = U, !.out = o]
                \in SrvsOf(S)
         /\ [FreshServer(v.auto) EXCEPT !.up = FALSE, !.shown = v.shown]
              \in SrvsOf(S)
<1>1. \A at \in {"idle", "serve"} : [v EXCEPT !.at = at] \in SrvsOf(S)
  BY DEF SrvsOf
<1>2. [v EXCEPT !.out = NoOut] \in SrvsOf(S)
  BY FreshTyped DEF SrvsOf
<1>3. [v EXCEPT !.up = TRUE] \in SrvsOf(S)
  BY DEF SrvsOf
<1>4. \A c \in 0 .. MaxClients, k \in Keys :
        [v EXCEPT !.at = "hello", !.c = c, !.key = k, !.auth = 0,
                  !.send = 1] \in SrvsOf(S)
  BY DEF SrvsOf
<1>5. v.auth + 1 \in Nat /\ v.send + 1 \in Nat
  BY DEF SrvsOf
<1>6. \A T \in SUBSET S, U \in SUBSET S :
        [v EXCEPT !.auth = v.auth + 1, !.shown = T, !.voters = U]
          \in SrvsOf(S)
  BY <1>5 DEF SrvsOf
<1>7. \A o \in Outs(S), U \in SUBSET S :
        [v EXCEPT !.send = v.send + 1, !.voters = U, !.out = o]
          \in SrvsOf(S)
  BY <1>5 DEF SrvsOf
<1>8. [FreshServer(v.auto) EXCEPT !.up = FALSE, !.shown = v.shown]
        \in SrvsOf(S)
  <2>1. FreshServer(v.auto) \in SrvsOf(S) /\ v.shown \in SUBSET S
    BY FreshTyped DEF SrvsOf
  <2> QED BY <2>1 DEF SrvsOf
<1> QED BY <1>1, <1>2, <1>3, <1>4, <1>6, <1>7, <1>8

LEMMA SrvStep ==
  ASSUME NEW S \in SUBSET Flows, TypeInv, Carries(S), [Next]_vars
  PROVE  srv' \in SrvsOf(S)
<1>0. /\ srv \in SrvsOf(S) /\ srv.shown \in SUBSET S /\ srv.voters \in SUBSET S
      /\ srv.key \in Keys /\ srv.send + 1 \in Nat
  BY DEF Carries, SrvsOf
<1>1. CASE ConsoleStep
  <2>1. CASE TakeFrame
    <3> DEFINE frame == Head(wires[srv.c].up)
               seen == {frame.flow} \cap
                       (IF frame.type = "view" THEN Flows ELSE {})
               voters == IF srv.auto THEN srv.voters \cup seen
                         ELSE srv.voters
    <3>1. srv.c \in Clients /\ wires[srv.c].up # <<>>
      BY <2>1 DEF TakeFrame, TypeInv, SrvInv
    <3>2. wires[srv.c].up \in Seq(Posts(S))
      BY <3>1 DEF Carries, Wires
    <3>3. frame \in Posts(S)
      BY <3>1, <3>2, HeadTailProperties
    <3>4. seen \in SUBSET S
      BY <3>3, ConstantsTyped DEF Posts
    <3>5. \/ srv' = [srv EXCEPT !.at = "idle"]
          \/ srv' = [srv EXCEPT !.auth = srv.auth + 1,
                       !.shown = srv.shown \cup seen, !.voters = voters]
      BY <2>1 DEF TakeFrame, Quits
    <3>6. srv.shown \cup seen \in SUBSET S /\ voters \in SUBSET S
      BY <1>0, <3>4
    <3> HIDE DEF seen, voters
    <3>7. /\ [srv EXCEPT !.at = "idle"] \in SrvsOf(S)
          /\ [srv EXCEPT !.auth = srv.auth + 1, !.shown = srv.shown \cup seen,
                         !.voters = voters] \in SrvsOf(S)
      BY <1>0, <3>6, SrvRecords
    <3> QED BY <3>5, <3>7
  <2>2. CASE Serve \/ HostGone \/ SendConn
    <3>1. \/ \E at \in {"idle", "serve"} : srv' = [srv EXCEPT !.at = at]
          \/ srv' = [srv EXCEPT !.out = NoOut]
      BY <2>2 DEF Serve, HostGone, Quits, SendConn
    <3>2. /\ \A at \in {"idle", "serve"} : [srv EXCEPT !.at = at] \in SrvsOf(S)
          /\ [srv EXCEPT !.out = NoOut] \in SrvsOf(S)
      BY <1>0, SrvRecords
    <3> QED BY <3>1, <3>2
  <2> QED BY <1>1, <2>1, <2>2 DEF ConsoleStep
<1>2. ASSUME NEW type \in {"vote", "terminate"}, NEW f \in S \cup {NoFlow},
             NEW grant \in BOOLEAN, NEW voters \in SUBSET S, NEW typed,
             Say(type, f, grant, voters, typed)
      PROVE  srv' \in SrvsOf(S)
  <2> DEFINE out == [type |-> type, flow |-> f, grant |-> grant,
                     seq |-> srv.send + 1, key |-> srv.key]
  <2>1. out \in Outs(S)
    BY <1>0 DEF Outs
  <2>2. srv' = [srv EXCEPT !.send = srv.send + 1, !.voters = voters,
                           !.out = out]
    BY <1>2 DEF Say
  <2> HIDE DEF out
  <2> QED BY <1>0, <2>1, <2>2, SrvRecords
<1>3. ASSUME NEW f \in Flows, NEW grant \in BOOLEAN,
             Vote(f, grant) \/ TypeVote(f, grant)
      PROVE  srv' \in SrvsOf(S)
  <2>1. f \in S
    BY <1>0, <1>3 DEF Vote, TypeVote
  <2>2. srv.voters \ {f} \in SUBSET S /\ {} \in SUBSET S
    BY <1>0
  <2> QED BY <1>2, <1>3, <2>1, <2>2 DEF Vote, TypeVote
<1>4. CASE TypeKill
  <2>1. {} \in SUBSET S
    OBVIOUS
  <2> QED BY <1>2, <1>4, <2>1 DEF TypeKill
<1>5. CASE ConsoleDies \/ ConsoleStarts
  <2>1. \/ srv' = [FreshServer(srv.auto) EXCEPT !.up = FALSE,
                                                !.shown = srv.shown]
        \/ srv' = [srv EXCEPT !.up = TRUE]
    BY <1>5 DEF ConsoleDies, ConsoleStarts
  <2>2. /\ [FreshServer(srv.auto) EXCEPT !.up = FALSE, !.shown = srv.shown]
             \in SrvsOf(S)
        /\ [srv EXCEPT !.up = TRUE] \in SrvsOf(S)
    BY <1>0, SrvRecords
  <2> QED BY <2>1, <2>2
<1>6. ASSUME NEW c \in Clients, Connect(c)
      PROVE  srv' \in SrvsOf(S)
  <2> DEFINE key == MaxSessions - left.sessions + 1
  <2>1. key \in Keys
    <3>1. left.sessions \in 0 .. MaxSessions /\ left.sessions > 0
      BY <1>6 DEF TypeInv, RestTyped, Connect
    <3> QED BY <3>1, ConstantsTyped DEF Keys
  <2>2. srv' = [srv EXCEPT !.at = "hello", !.c = c, !.key = key, !.auth = 0,
                           !.send = 1]
    BY <1>6 DEF Connect
  <2>3. c \in 0 .. MaxClients
    BY ConstantsTyped
  <2> HIDE DEF key
  <2> QED BY <1>0, <2>1, <2>2, <2>3, SrvRecords
<1>7. ASSUME NEW f \in Flows, Ask(f) \/ CallStep(f)
      PROVE  srv' = srv
  BY <1>7 DEF Ask, CallStep, Intercept, Unavailable, Available, PublishView
<1>8. ASSUME NEW c \in Clients, ClientStep(c) \/ Attach(c), ~Connect(c)
      PROVE  srv' = srv
  BY <1>8 DEF ClientStep, HelloOk, HelloLost, SetWriter, ReadVote, ApplyVote,
     PublishResult, ReadFails, Stopped, Attach
<1>9. CASE Detach \/ UNCHANGED vars
  BY <1>0, <1>9 DEF Detach
<1> QED BY <1>0, <1>1, <1>3, <1>4, <1>5, <1>6, <1>7, <1>8, <1>9
        DEF Next, ClientStep

LEMMA PostStep ==
  ASSUME NEW S \in SUBSET Flows, TypeInv, Carries(S), [Next]_vars,
         \A f \in Flows \ S : ~Available(f)
  PROVE  post' \in [Senders -> Posts(S)]
<1>0. post \in [Senders -> Posts(S)] /\ NoPost \in Posts(S)
  BY FreshTyped DEF Carries
<1>1. ASSUME NEW s \in Senders, NEW c \in Clients,
             NEW type \in {"view", "result"}, NEW f \in S \cup {NoFlow},
             Number(s, c, type, f)
      PROVE  post' \in [Senders -> Posts(S)]
  <2> DEFINE p == [c |-> c, type |-> type, flow |-> f,
                   seq |-> clients[c].send + 1, key |-> clients[c].key]
  <2>1. clients[c].send + 1 \in Nat /\ clients[c].key \in Keys
    BY DEF Carries, ClientsOf
  <2>2. p \in Posts(S)
    BY <2>1, ConstantsTyped DEF Posts
  <2>3. post' = [post EXCEPT ![s] = p]
    BY <1>1 DEF Number
  <2> HIDE DEF p
  <2> QED BY <1>0, <2>2, <2>3
<1>2. ASSUME NEW s, NEW client, Write(s, client)
      PROVE  post' \in [Senders -> Posts(S)]
  BY <1>0, <1>2 DEF Write
<1>3. ASSUME NEW f \in Flows, Ask(f) \/ CallStep(f)
      PROVE  post' \in [Senders -> Posts(S)]
  <2>1. CASE Available(f)
    <3>1. f \in S /\ call[f].c \in Clients /\ f \in Senders
      BY <2>1 DEF TypeInv, CallInv, Available, Senders
    <3> QED BY <1>1, <2>1, <3>1 DEF Available
  <2>2. CASE PublishView(f)
    BY <1>2, <2>2 DEF PublishView
  <2> QED BY <1>0, <1>3, <2>1, <2>2, Untouched DEF CallStep
<1>4. ASSUME NEW c \in Clients, ClientStep(c) \/ Attach(c)
      PROVE  post' \in [Senders -> Posts(S)]
  <2>1. CASE ApplyVote(c)
    <3>1. clients[c].vote.flow \in S \cup {NoFlow} /\ c \in Senders
      BY DEF Carries, ClientsOf, Senders
    <3> QED BY <1>1, <2>1, <3>1 DEF ApplyVote
  <2>2. CASE PublishResult(c)
    BY <1>2, <2>2 DEF PublishResult
  <2>3. CASE \/ Connect(c) \/ HelloOk(c) \/ HelloLost(c) \/ SetWriter(c)
             \/ ReadVote(c) \/ ReadFails(c) \/ Stopped(c) \/ Attach(c)
    <3>1. post' = post
      BY <2>3 DEF Connect, HelloOk, HelloLost, SetWriter, ReadVote, ReadFails,
         Stopped, Attach
    <3> QED BY <1>0, <3>1
  <2> QED BY <1>4, <2>1, <2>2, <2>3 DEF ClientStep
<1>5. CASE \/ ConsoleStep \/ ConsoleDies \/ ConsoleStarts \/ Detach
           \/ UNCHANGED vars
  <2>1. post' = post
    BY <1>5 DEF ConsoleStep, Serve, TakeFrame, HostGone, SendConn, ConsoleDies,
       ConsoleStarts, Detach
  <2> QED BY <1>0, <2>1
<1> QED BY <1>0, <1>3, <1>4, <1>5, Untouched DEF Next

LEMMA CarriesStep ==
  ASSUME NEW S \in SUBSET Flows, TypeInv, Carries(S), [Next]_vars,
         \A f \in Flows \ S : ~Available(f)
  PROVE  Carries(S)'
BY ClientsStep, WiresStep, SrvStep, PostStep DEF Carries


-----------------------------------------------------------------------------
(* The rest of the types.                                                  *)

LEMMA DecideTyped ==
  ASSUME TypeInv, NEW f, NEW grant
  PROVE  Decide(f, grant) \in [Flows -> States]
BY DEF TypeInv, RestTyped, Decide, States

(* A frame about to be written was numbered.                               *)
LEMMA WrittenHasKey ==
  ASSUME TypeInv
  PROVE  /\ \A f \in Flows : PublishView(f) => post[f].key # 0
         /\ \A s \in Senders : <<post[s].key, post[s].seq>> \in Keys \X Nat
<1>1. \A s \in Senders : <<post[s].key, post[s].seq>> \in Keys \X Nat
  BY DEF TypeInv, Carries, Posts
<1>2. ASSUME NEW f \in Flows, PublishView(f)
      PROVE  post[f].key # 0
  <2>1. post[f].c \in Clients /\ f \in Senders
    BY <1>2, Writes
  <2>2. post[f] # NoPost
    BY <2>1, FreshTyped, ConstantsTyped
  <2> QED BY <2>1, <2>2 DEF TypeInv, PostInv
<1> QED BY <1>1, <1>2

LEMMA LostTyped ==
  ASSUME TypeInv, [Next]_vars
  PROVE  lost' \subseteq (1 .. MaxSessions) \X Nat
<1>0. lost \subseteq (1 .. MaxSessions) \X Nat
  BY DEF TypeInv, RestTyped
<1>1. ASSUME NEW s \in Senders, NEW c \in Clients, post[s].c = c,
             post[s].key # 0, NEW client, Write(s, client)
      PROVE  lost' \subseteq (1 .. MaxSessions) \X Nat
  <2>1. <<post[s].key, post[s].seq>> \in (1 .. MaxSessions) \X Nat
    BY <1>1, WrittenHasKey, ConstantsTyped DEF Keys
  <2>2. \/ lost' = lost
        \/ lost' = lost \cup {<<post[s].key, post[s].seq>>}
    BY <1>1, WriteIs
  <2> QED BY <1>0, <2>1, <2>2
<1>2. ASSUME NEW f \in Flows, Ask(f) \/ CallStep(f)
      PROVE  lost' \subseteq (1 .. MaxSessions) \X Nat
  <2>1. CASE PublishView(f)
    BY <1>1, <2>1, Writes, WrittenHasKey
  <2>2. CASE Available(f)
    BY <1>0, <2>2 DEF Available
  <2> QED BY <1>0, <1>2, <2>1, <2>2, Untouched DEF CallStep
<1>3. ASSUME NEW c \in Clients, ClientStep(c) \/ Attach(c)
      PROVE  lost' \subseteq (1 .. MaxSessions) \X Nat
  <2>1. CASE PublishResult(c)
    BY <1>1, <2>1, Writes
  <2>2. CASE ~PublishResult(c)
    <3>1. lost' = lost
      BY <1>3, <2>2 DEF ClientStep, Connect, HelloOk, HelloLost, SetWriter,
         ReadVote, ApplyVote, ReadFails, Stopped, Attach
    <3> QED BY <1>0, <3>1
  <2> QED BY <2>1, <2>2
<1>4. CASE \/ ConsoleStep \/ ConsoleDies \/ ConsoleStarts \/ Detach
           \/ UNCHANGED vars
  <2>1. lost' = lost
    BY <1>4 DEF ConsoleStep, Serve, TakeFrame, HostGone, SendConn, ConsoleDies,
       ConsoleStarts, Detach
  <2> QED BY <1>0, <2>1
<1> QED BY <1>0, <1>2, <1>3, <1>4, Untouched DEF Next

LEMMA CallTyped ==
  ASSUME TypeInv, [Next]_vars
  PROVE  /\ call' \in [Flows -> Calls]
         /\ flow' \in [Flows -> States]
<1>0. /\ call \in [Flows -> Calls] /\ flow \in [Flows -> States]
      /\ console \in 0 .. MaxClients
  BY DEF TypeInv, RestTyped
<1>1. ASSUME NEW f \in Flows, Ask(f) \/ CallStep(f)
      PROVE  call' \in [Flows -> Calls] /\ flow' \in [Flows -> States]
  <2>0. call[f] \in Calls
    BY <1>0
  <2>1. \A answer \in {"REQUIRE_APPROVAL", "DENY"} :
          Tell(f, answer) \in [Flows -> Calls]
    BY <1>0 DEF Tell, Calls
  <2>2. CASE Ask(f)
    BY <1>0, <2>2 DEF Ask, Calls, States
  <2>3. CASE Intercept(f)
    <3>1. \/ call' = Tell(f, "REQUIRE_APPROVAL")
          \/ call' = [call EXCEPT ![f] = [call[f] EXCEPT !.at = "held",
                                                         !.c = console]]
      BY <2>3 DEF Intercept
    <3>2. [call[f] EXCEPT !.at = "held", !.c = console] \in Calls
      BY <1>0, <2>0 DEF Calls
    <3>3. flow' = flow
      BY <2>3 DEF Intercept
    <3> QED BY <1>0, <2>1, <3>1, <3>2, <3>3
  <2>4. CASE Unavailable(f)
    BY <2>1, <2>4, DecideTyped DEF Unavailable
  <2>5. CASE Available(f)
    <3>1. call' = [call EXCEPT ![f] = [call[f] EXCEPT !.at = "post"]]
          /\ flow' = flow
      BY <2>5 DEF Available
    <3>2. [call[f] EXCEPT !.at = "post"] \in Calls
      BY <2>0 DEF Calls
    <3> QED BY <1>0, <3>1, <3>2
  <2>6. CASE PublishView(f)
    BY <1>0, <2>1, <2>6 DEF PublishView
  <2> QED BY <1>1, <2>2, <2>3, <2>4, <2>5, <2>6 DEF CallStep
<1>2. ASSUME NEW c \in Clients, ClientStep(c) \/ Attach(c)
      PROVE  call' = call /\ flow' \in [Flows -> States]
  <2>1. CASE ApplyVote(c)
    BY <2>1, DecideTyped DEF ApplyVote
  <2>2. CASE ~ApplyVote(c)
    <3>1. call' = call /\ flow' = flow
      BY <1>2, <2>2 DEF ClientStep, Connect, HelloOk, HelloLost, SetWriter,
         ReadVote, PublishResult, ReadFails, Stopped, Attach
    <3> QED BY <1>0, <3>1
  <2> QED BY <2>1, <2>2
<1>3. CASE \/ ConsoleStep \/ ConsoleDies \/ ConsoleStarts \/ Detach
           \/ UNCHANGED vars
  <2>1. call' = call /\ flow' = flow
    BY <1>3 DEF ConsoleStep, Serve, TakeFrame, HostGone, SendConn, ConsoleDies,
       ConsoleStarts, Detach
  <2> QED BY <1>0, <2>1
<1> QED BY <1>0, <1>1, <1>2, <1>3, Untouched DEF Next

LEMMA OthersTyped ==
  ASSUME TypeInv, [Next]_vars
  PROVE  /\ console' \in 0 .. MaxClients /\ suspended' \in BOOLEAN
         /\ left' \in [sessions : 0 .. MaxSessions, deaths : Nat, typed : Nat]
<1> DEFINE Lefts == [sessions : 0 .. MaxSessions, deaths : Nat, typed : Nat]
<1>0. console \in 0 .. MaxClients /\ suspended \in BOOLEAN /\ left \in Lefts
  BY DEF TypeInv, RestTyped
<1>1. \A n \in Nat : n - 0 \in Nat /\ (n > 0 => n - 1 \in Nat)
  OBVIOUS
<1>2. \A n \in 0 .. MaxSessions : n > 0 => n - 1 \in 0 .. MaxSessions
  BY ConstantsTyped
<1>3. ASSUME NEW f \in Flows, Ask(f) \/ CallStep(f)
      PROVE  UNCHANGED <<console, suspended, left>>
  BY <1>3 DEF Ask, CallStep, Intercept, Unavailable, Available, PublishView
<1>4. ASSUME NEW c \in Clients, ClientStep(c) \/ Attach(c)
      PROVE  /\ console' \in 0 .. MaxClients /\ suspended' \in BOOLEAN
             /\ left' \in Lefts
  <2>1. CASE Connect(c)
    <3>1. left' = [left EXCEPT !.sessions = left.sessions - 1]
          /\ left.sessions > 0
      BY <2>1 DEF Connect
    <3>2. left.sessions - 1 \in 0 .. MaxSessions
      BY <1>0, <1>2, <3>1
    <3>3. left' \in Lefts
      BY <1>0, <3>1, <3>2
    <3> QED BY <1>0, <2>1, <3>3 DEF Connect
  <2>2. CASE ReadVote(c)
    BY <1>0, <2>2 DEF ReadVote
  <2>3. CASE Attach(c)
    BY <1>0, <2>3, ConstantsTyped DEF Attach
  <2>4. CASE \/ HelloOk(c) \/ HelloLost(c) \/ SetWriter(c) \/ ApplyVote(c)
             \/ PublishResult(c) \/ ReadFails(c) \/ Stopped(c)
    BY <1>0, <2>4 DEF HelloOk, HelloLost, SetWriter, ApplyVote, PublishResult,
       ReadFails, Stopped
  <2> QED BY <1>4, <2>1, <2>2, <2>3, <2>4 DEF ClientStep
<1>5. CASE ConsoleStep \/ ConsoleStarts \/ UNCHANGED vars
  BY <1>0, <1>5 DEF ConsoleStep, Serve, TakeFrame, HostGone, SendConn,
     ConsoleStarts
<1>6. ASSUME NEW type, NEW f, NEW grant, NEW voters, NEW typed \in {0, 1},
             left.typed >= typed, Say(type, f, grant, voters, typed)
      PROVE  left' \in Lefts
  <2>1. left' = [left EXCEPT !.typed = left.typed - typed]
    BY <1>6 DEF Say
  <2>2. left.typed - typed \in Nat
    BY <1>0, <1>6
  <2> QED BY <1>0, <2>1, <2>2
<1>7. ASSUME NEW f \in Flows, NEW grant \in BOOLEAN,
             Vote(f, grant) \/ TypeVote(f, grant)
      PROVE  left' \in Lefts
  <2>1. left.typed \in Nat /\ left.typed >= 0
    BY <1>0
  <2>2. left.typed > 0 => left.typed >= 1
    BY <2>1
  <2> QED BY <1>6, <1>7, <2>1, <2>2 DEF Vote, TypeVote
<1>8. CASE TypeKill
  <2>1. left.typed \in Nat /\ left.typed > 0
    BY <1>0, <1>8 DEF TypeKill
  <2>2. left.typed >= 1
    BY <2>1
  <2>3. left' \in Lefts
    BY <1>6, <1>8, <2>2 DEF TypeKill
  <2> QED BY <1>0, <1>8, <2>3, Untouched
<1>9. CASE ConsoleDies
  <2>1. left' = [left EXCEPT !.deaths = left.deaths - 1] /\ left.deaths > 0
        /\ console' = console /\ suspended' = suspended
    BY <1>9 DEF ConsoleDies
  <2>2. left.deaths - 1 \in Nat
    BY <1>0, <1>1, <2>1
  <2> QED BY <1>0, <2>1, <2>2
<1>10. CASE Detach
  BY <1>0, <1>10, ConstantsTyped DEF Detach, NoClient
<1> HIDE DEF Lefts
<1> QED BY <1>0, <1>3, <1>4, <1>5, <1>7, <1>8, <1>9, <1>10, Untouched
        DEF Next, Lefts


-----------------------------------------------------------------------------
(* Good clients, own frames, held clients.                                 *)

LEMMA GoodRecords ==
  ASSUME NEW S, NEW r \in ClientsOf(S), Good(r)
  PROVE  /\ r.at \in {"read", "vote", "ended"} => Good(Errs(r))
         /\ Good(Leaves(r)) /\ Good(Leaves(Errs(r)))
         /\ Good([r EXCEPT !.send = r.send + 1])
         /\ r.at = "vote" => Good([r EXCEPT !.at = "read", !.vote = NoVote])
         /\ r.at = "greeted" => Good([r EXCEPT !.at = "read", !.writer = TRUE])
         /\ Good([r EXCEPT !.stop = TRUE, !.writer = FALSE])
         /\ r.at = "none" => Good([r EXCEPT !.at = "away"])
         /\ r.at = "hello" =>
              Good([r EXCEPT !.at = "greeted", !.expect = 1,
                             !.connected = TRUE, !.ever = TRUE])
         /\ \A k \in Keys \ {0} : r.at = "away" =>
              Good([r EXCEPT !.at = "hello", !.key = k, !.send = 0,
                             !.expect = 0])
         /\ \A v : \A e \in Nat : r.at = "read" =>
              /\ Good([r EXCEPT !.expect = e, !.at = "vote", !.vote = v])
              /\ Good([r EXCEPT !.expect = e, !.at = "read", !.vote = v])
<1>1. r.at \in {"read", "vote", "ended"} => Good(Errs(r))
  BY ErrsFields DEF Good
<1>2. Good(Leaves(r))
  BY LeavesFields DEF Good
<1>3. Good(Leaves(Errs(r)))
  <2>1. Errs(r) \in ClientsOf(S)
    BY ClientRecords
  <2>2. Errs(r).failed => Errs(r).ever
    BY ErrsFields DEF Good
  <2> QED BY <2>1, <2>2, LeavesFields DEF Good
<1>4. /\ Good([r EXCEPT !.send = r.send + 1])
      /\ r.at = "vote" => Good([r EXCEPT !.at = "read", !.vote = NoVote])
      /\ r.at = "greeted" => Good([r EXCEPT !.at = "read", !.writer = TRUE])
  BY DEF Good, ClientsOf
<1>5. /\ Good([r EXCEPT !.stop = TRUE, !.writer = FALSE])
      /\ r.at = "none" => Good([r EXCEPT !.at = "away"])
      /\ r.at = "hello" =>
           Good([r EXCEPT !.at = "greeted", !.expect = 1,
                          !.connected = TRUE, !.ever = TRUE])
  BY DEF Good, ClientsOf
<1>6. \A k \in Keys \ {0} : r.at = "away" =>
        Good([r EXCEPT !.at = "hello", !.key = k, !.send = 0, !.expect = 0])
  BY DEF Good, ClientsOf
<1>7. \A v : \A e \in Nat : r.at = "read" =>
        /\ Good([r EXCEPT !.expect = e, !.at = "vote", !.vote = v])
        /\ Good([r EXCEPT !.expect = e, !.at = "read", !.vote = v])
  BY DEF Good, ClientsOf
<1> QED BY <1>1, <1>2, <1>3, <1>4, <1>5, <1>6, <1>7

(* One client's record changes, to a good one; a thread leaves the place   *)
(* where its frame is unwritten by writing it.                             *)
OneClient ==
  \/ clients' = clients
  \/ \E c \in Clients : \E r :
       /\ clients' = [clients EXCEPT ![c] = r] /\ Good(r)
       /\ clients[c].at = "vote" /\ r.at # "vote" => post'[c].key = 0

LEMMA ClientWrites ==
  ASSUME TypeInv, NEW s \in Senders, NEW c \in Clients, NEW r,
         r \in ClientsOf(Flows), Write(s, r), post[s].c = c, Good(r),
         r.at = clients[c].at \/ s = c,
         clients[c].writer => r.at \in {"read", "vote"}
  PROVE  OneClient
<1>1. clients[c].writer => Good(Errs(r)) /\ Errs(r).at = r.at
  BY GoodRecords, ErrsFields
<1>2. s = c => post'[c].key = 0
  BY WriteIs, FreshTyped DEF TypeInv, Carries
<1> QED BY <1>1, <1>2, WriteIs DEF OneClient

LEMMA ClientMoves ==
  ASSUME TypeInv, [Next]_vars
  PROVE  OneClient
<1>0. /\ clients \in [Clients -> ClientsOf(Flows)]
      /\ \A c \in Clients : Good(clients[c])
      /\ \A c \in Clients : c \in Senders
  BY DEF TypeInv, Carries, ClientInv, Senders
<1>1. ASSUME NEW f \in Flows, Ask(f) \/ CallStep(f)
      PROVE  OneClient
  <2>1. CASE Available(f)
    <3>1. PICK c \in Clients : c = call[f].c
      BY <2>1 DEF TypeInv, CallInv, Available
    <3>2. clients' = [clients EXCEPT ![c] =
                        [clients[c] EXCEPT !.send = clients[c].send + 1]]
      BY <2>1, <3>1 DEF Available, Number
    <3>3. Good([clients[c] EXCEPT !.send = clients[c].send + 1])
      BY <1>0, GoodRecords
    <3>4. [clients[c] EXCEPT !.send = clients[c].send + 1].at = clients[c].at
      BY <1>0 DEF ClientsOf
    <3> QED BY <3>2, <3>3, <3>4 DEF OneClient
  <2>2. CASE PublishView(f)
    <3>1. PICK c \in Clients : c = call[f].c /\ post[f].c = c
                               /\ Write(f, clients[c]) /\ f \in Senders
      BY <2>2, Writes
    <3>2. clients[c].writer => clients[c].at \in {"read", "vote"}
      BY <1>0 DEF Good
    <3> QED BY <1>0, <3>1, <3>2, ClientWrites
  <2> QED BY <1>1, <2>1, <2>2, Untouched DEF CallStep, OneClient
<1>2. ASSUME NEW c \in Clients, ClientStep(c) \/ Attach(c)
      PROVE  OneClient
  <2>0. clients[c] \in ClientsOf(Flows) /\ Good(clients[c])
    BY <1>0
  <2>1. CASE Connect(c)
    <3> DEFINE key == MaxSessions - left.sessions + 1
               r == [clients[c] EXCEPT !.at = "hello", !.key = key,
                                       !.send = 0, !.expect = 0]
    <3>1. key \in Keys \ {0}
      <4>1. left.sessions \in 0 .. MaxSessions /\ left.sessions > 0
        BY <2>1 DEF TypeInv, RestTyped, Connect
      <4> QED BY <4>1, ConstantsTyped DEF Keys
    <3>2. clients' = [clients EXCEPT ![c] = r] /\ clients[c].at = "away"
      BY <2>1 DEF Connect
    <3> HIDE DEF key
    <3>3. Good(r)
      BY <2>0, <3>1, <3>2, GoodRecords
    <3> HIDE DEF r
    <3> QED BY <3>2, <3>3 DEF OneClient
  <2>2. CASE HelloOk(c)
    <3> DEFINE r == [clients[c] EXCEPT !.at = "greeted", !.expect = 1,
                                       !.connected = TRUE, !.ever = TRUE]
    <3>1. clients' = [clients EXCEPT ![c] = r] /\ clients[c].at = "hello"
      BY <2>2 DEF HelloOk
    <3>2. Good(r)
      BY <2>0, <3>1, GoodRecords
    <3> HIDE DEF r
    <3> QED BY <3>1, <3>2 DEF OneClient
  <2>3. CASE SetWriter(c)
    <3> DEFINE r == [clients[c] EXCEPT !.at = "read", !.writer = TRUE]
    <3>1. clients' = [clients EXCEPT ![c] = r] /\ clients[c].at = "greeted"
      BY <2>3 DEF SetWriter
    <3>2. Good(r)
      BY <2>0, <3>1, GoodRecords
    <3> HIDE DEF r
    <3> QED BY <3>1, <3>2 DEF OneClient
  <2>4. CASE Attach(c)
    <3> DEFINE r == [clients[c] EXCEPT !.at = "away"]
    <3>1. clients' = [clients EXCEPT ![c] = r] /\ clients[c].at = "none"
      BY <2>4 DEF Attach
    <3>2. Good(r)
      BY <2>0, <3>1, GoodRecords
    <3> HIDE DEF r
    <3> QED BY <3>1, <3>2 DEF OneClient
  <2>5. ASSUME Hangs(c, Errs(clients[c])) \/ Hangs(c, clients[c]),
               clients[c].at # "vote"
        PROVE  OneClient
    BY <2>0, <2>5, GoodRecords DEF Hangs, OneClient
  <2>6. CASE HelloLost(c) \/ ReadFails(c) \/ Stopped(c)
    BY <2>5, <2>6 DEF HelloLost, ReadFails, Stopped
  <2>7. CASE ReadVote(c)
    <3> DEFINE frame == Head(wires[c].down)
               old == clients[c]
               vote == IF frame.type = "vote"
                       THEN [flow |-> frame.flow, grant |-> frame.grant]
                       ELSE old.vote
    <3>1. old.at = "read" /\ old.expect + 1 \in Nat
      BY <2>0, <2>7 DEF ReadVote, ClientsOf
    <3>2. \/ Hangs(c, Errs(clients[c]))
          \/ clients' = [clients EXCEPT ![c] = [old EXCEPT
               !.expect = old.expect + 1, !.at = "vote", !.vote = vote]]
          \/ clients' = [clients EXCEPT ![c] = [old EXCEPT
               !.expect = old.expect + 1, !.at = "read", !.vote = vote]]
      BY <2>7, <3>1 DEF ReadVote
    <3> HIDE DEF vote
    <3>3. /\ Good([old EXCEPT !.expect = old.expect + 1, !.at = "vote",
                              !.vote = vote])
          /\ Good([old EXCEPT !.expect = old.expect + 1, !.at = "read",
                              !.vote = vote])
      BY <2>0, <3>1, GoodRecords
    <3> QED BY <2>5, <3>1, <3>2, <3>3 DEF OneClient
  <2>8. CASE ApplyVote(c)
    <3>1. clients' = [clients EXCEPT ![c] =
                        [clients[c] EXCEPT !.send = clients[c].send + 1]]
      BY <2>8 DEF ApplyVote, Number
    <3>2. Good([clients[c] EXCEPT !.send = clients[c].send + 1])
      BY <2>0, GoodRecords
    <3>3. [clients[c] EXCEPT !.send = clients[c].send + 1].at = clients[c].at
      BY <2>0 DEF ClientsOf
    <3> QED BY <3>1, <3>2, <3>3 DEF OneClient
  <2>9. CASE PublishResult(c)
    <3> DEFINE r == [clients[c] EXCEPT !.at = "read", !.vote = NoVote]
    <3>1. /\ post[c].c = c /\ c \in Senders /\ clients[c].at = "vote"
          /\ Write(c, r)
      BY <2>9, Writes
    <3>2. Good(r)
      BY <2>0, <3>1, GoodRecords
    <3>3. r \in ClientsOf(Flows)
      BY <2>0, ClientRecords
    <3>4. r.at = "read"
      BY <2>0 DEF ClientsOf
    <3> HIDE DEF r
    <3> QED BY <3>1, <3>2, <3>3, <3>4, ClientWrites
  <2> QED BY <1>2, <2>1, <2>2, <2>3, <2>4, <2>6, <2>7, <2>8, <2>9
          DEF ClientStep
<1>3. CASE Detach
  <2> DEFINE r == [clients[console] EXCEPT !.stop = TRUE, !.writer = FALSE]
  <2>1. console \in Clients
    BY <1>3, ConstantsTyped DEF Detach, TypeInv, RestTyped, NoClient, Clients
  <2>2. clients' = [clients EXCEPT ![console] = r]
    BY <1>3 DEF Detach
  <2>3. Good(r) /\ r.at = clients[console].at
    BY <1>0, <2>1, GoodRecords DEF ClientsOf
  <2> HIDE DEF r
  <2> QED BY <2>1, <2>2, <2>3 DEF OneClient
<1> QED BY <1>1, <1>2, <1>3, Untouched DEF Next, OneClient


(* A frame is numbered by a call or by a client's own thread, or written.  *)
PostMoves ==
  \/ post' = post
  \/ \E f \in Flows, p \in Posts(Flows) :
       /\ Available(f) /\ post' = [post EXCEPT ![f] = p]
       /\ p.c = call[f].c /\ p.key # 0
  \/ \E c \in Clients, p \in Posts(Flows) :
       /\ ApplyVote(c) /\ post' = [post EXCEPT ![c] = p]
       /\ p.c = c /\ p.key # 0 /\ clients'[c].at = "vote"
  \/ \E f \in Flows : PublishView(f) /\ post' = [post EXCEPT ![f] = NoPost]
  \/ \E c \in Clients : PublishResult(c) /\ post' = [post EXCEPT ![c] = NoPost]

LEMMA PostsMove ==
  ASSUME TypeInv, [Next]_vars
  PROVE  PostMoves
<1>0. /\ \A c \in Clients : Good(clients[c])
      /\ clients \in [Clients -> ClientsOf(Flows)]
      /\ \A s \in Flows \cup Clients : s \in Senders
  BY DEF TypeInv, Carries, ClientInv, Senders
<1>1. ASSUME NEW s \in Senders, NEW c \in Clients,
             NEW type \in {"view", "result"}, NEW f \in Flows \cup {NoFlow},
             Number(s, c, type, f), clients[c].key # 0
      PROVE  \E p \in Posts(Flows) : /\ post' = [post EXCEPT ![s] = p]
                                     /\ p.c = c /\ p.key # 0
  <2> DEFINE p == [c |-> c, type |-> type, flow |-> f,
                   seq |-> clients[c].send + 1, key |-> clients[c].key]
  <2>1. clients[c].send + 1 \in Nat /\ clients[c].key \in Keys
    BY <1>0 DEF ClientsOf
  <2>2. p \in Posts(Flows) /\ p.c = c /\ p.key # 0
    BY <1>1, <2>1, ConstantsTyped DEF Posts
  <2>3. post' = [post EXCEPT ![s] = p]
    BY <1>1 DEF Number
  <2> HIDE DEF p
  <2> QED BY <2>2, <2>3
<1>2. ASSUME NEW f \in Flows, Ask(f) \/ CallStep(f)
      PROVE  PostMoves
  <2>1. CASE Available(f)
    <3>1. call[f].c \in Clients
      BY <2>1 DEF TypeInv, CallInv, Available
    <3>2. clients[call[f].c].key # 0
      BY <1>0, <2>1, <3>1 DEF Available, Healthy, Good
    <3>3. Number(f, call[f].c, "view", f)
      BY <2>1 DEF Available
    <3>4. \E p \in Posts(Flows) : /\ post' = [post EXCEPT ![f] = p]
                                  /\ p.c = call[f].c /\ p.key # 0
      BY <1>0, <1>1, <3>1, <3>2, <3>3
    <3> QED BY <2>1, <3>4 DEF PostMoves
  <2>2. CASE PublishView(f)
    BY <1>0, <2>2 DEF PublishView, Write, PostMoves
  <2> QED BY <1>2, <2>1, <2>2, Untouched DEF CallStep, PostMoves
<1>3. ASSUME NEW c \in Clients, ClientStep(c) \/ Attach(c)
      PROVE  PostMoves
  <2>1. CASE ApplyVote(c)
    <3>1. clients[c].at = "vote" /\ Number(c, c, "result", clients[c].vote.flow)
      BY <2>1 DEF ApplyVote
    <3>2. clients[c].key # 0 /\ clients[c].vote.flow \in Flows \cup {NoFlow}
      BY <1>0, <3>1 DEF Good, ClientsOf
    <3>3. clients'[c].at = "vote"
      BY <1>0, <3>1 DEF Number, ClientsOf
    <3>4. \E p \in Posts(Flows) : /\ post' = [post EXCEPT ![c] = p]
                                  /\ p.c = c /\ p.key # 0
      BY <1>0, <1>1, <3>1, <3>2
    <3> QED BY <2>1, <3>3, <3>4 DEF PostMoves
  <2>2. CASE PublishResult(c)
    BY <1>0, <2>2 DEF PublishResult, Write, PostMoves
  <2>3. CASE \/ Connect(c) \/ HelloOk(c) \/ HelloLost(c) \/ SetWriter(c)
             \/ ReadVote(c) \/ ReadFails(c) \/ Stopped(c) \/ Attach(c)
    BY <2>3 DEF Connect, HelloOk, HelloLost, SetWriter, ReadVote, ReadFails,
         Stopped, Attach, PostMoves
  <2> QED BY <1>3, <2>1, <2>2, <2>3 DEF ClientStep
<1>4. CASE \/ ConsoleStep \/ ConsoleDies \/ ConsoleStarts \/ Detach
           \/ UNCHANGED vars
  BY <1>4 DEF ConsoleStep, Serve, TakeFrame, HostGone, SendConn, ConsoleDies,
       ConsoleStarts, Detach, PostMoves
<1> QED BY <1>2, <1>3, <1>4, Untouched DEF Next, PostMoves

LEMMA ClientInvStep ==
  ASSUME TypeInv, [Next]_vars
  PROVE  ClientInv' /\ PostInv'
<1>0. /\ clients \in [Clients -> ClientsOf(Flows)]
      /\ post \in [Senders -> Posts(Flows)] /\ ClientInv /\ PostInv
      /\ \A c \in Clients : c \in Senders /\ c \notin Flows
      /\ NoPost.key = 0
  BY ConstantsTyped, FreshTyped DEF TypeInv, Carries, Senders
<1>1. \A c \in Clients : Good(clients'[c])
  BY <1>0, ClientMoves DEF OneClient, ClientInv
<1>2. \A c \in Clients : clients[c].at = "vote" /\ clients'[c].at # "vote" =>
        post'[c].key = 0
  BY <1>0, ClientMoves DEF OneClient
<1>3. ASSUME NEW c \in Clients, post'[c].key # 0
      PROVE  post'[c].c = c /\ clients'[c].at = "vote"
  <2>1. CASE post'[c] = post[c]
    BY <1>0, <1>2, <1>3, <2>1 DEF ClientInv
  <2>2. CASE post'[c] # post[c]
    <3>1. PICK d \in Clients, p \in Posts(Flows) :
             /\ post' = [post EXCEPT ![d] = p]
             /\ p.c = d /\ p.key # 0 /\ clients'[d].at = "vote"
      BY <1>0, <1>3, <2>2, PostsMove DEF PostMoves
    <3> QED BY <1>0, <2>2, <3>1
  <2> QED BY <2>1, <2>2
<1>4. PostInv'
  <2> SUFFICES ASSUME NEW s \in Senders
               PROVE  (post[s] = NoPost \/ post[s].key # 0)'
    BY DEF PostInv
  <2>1. CASE post'[s] = post[s]
    BY <1>0, <2>1 DEF PostInv
  <2>2. CASE post'[s] # post[s]
    BY <1>0, <2>2, PostsMove DEF PostMoves
  <2> QED BY <2>1, <2>2
<1> QED BY <1>1, <1>3, <1>4 DEF ClientInv

LEMMA CallInvStep ==
  ASSUME TypeInv, [Next]_vars
  PROVE  CallInv'
<1>0. /\ call \in [Flows -> Calls] /\ post \in [Senders -> Posts(Flows)]
      /\ \A f \in Flows : f \in Senders /\ f \notin Clients
      /\ CallInv
  BY ConstantsTyped DEF TypeInv, Carries, RestTyped, Senders
<1>1. SUFFICES ASSUME NEW f \in Flows
               PROVE  /\ call'[f].at = "held" => call'[f].c \in Clients
                      /\ call'[f].at = "post" =>
                           post'[f].c = call'[f].c /\ call'[f].c \in Clients
  BY DEF CallInv
<1>2. CASE Available(f)
  <2>1. call'[f].at = "post" /\ call'[f].c = call[f].c
    BY <1>0, <1>2 DEF Available, Calls
  <2>2. call[f].c \in Clients
    BY <1>0, <1>2 DEF Available, CallInv
  <2>3. post'[f].c = call[f].c
    BY <1>0, <1>2 DEF Available, Number
  <2> QED BY <2>1, <2>2, <2>3
<1>3. CASE PublishView(f)
  BY <1>0, <1>3 DEF PublishView, Tell, Calls
<1>4. CASE Ask(f) \/ Unavailable(f)
  BY <1>0, <1>4 DEF Ask, Unavailable, Tell, Calls
<1>5. CASE Intercept(f)
  <2>1. console # NoClient => console \in Clients
    BY ConstantsTyped DEF TypeInv, RestTyped, NoClient, Clients
  <2>2. \/ call' = Tell(f, "REQUIRE_APPROVAL")
        \/ /\ call' = [call EXCEPT ![f] = [call[f] EXCEPT !.at = "held",
                                                          !.c = console]]
           /\ console # NoClient
    BY <1>5 DEF Intercept
  <2>3. CASE call' = Tell(f, "REQUIRE_APPROVAL")
    <3>1. call'[f].at = "done"
      BY <1>0, <2>3 DEF Tell, Calls
    <3> QED BY <3>1
  <2>4. CASE /\ call' = [call EXCEPT ![f] = [call[f] EXCEPT !.at = "held",
                                                           !.c = console]]
             /\ console # NoClient
    <3>1. call'[f].at = "held" /\ call'[f].c = console
      BY <1>0, <2>4 DEF Calls
    <3> QED BY <2>1, <2>4, <3>1
  <2> QED BY <2>2, <2>3, <2>4
<1>6. CASE ~(Ask(f) \/ CallStep(f))
  <2>1. call'[f] = call[f]
    <3>1. ASSUME NEW g \in Flows, Ask(g) \/ CallStep(g)
          PROVE  call'[f] = call[f]
      BY <1>0, <1>6, <3>1 DEF Ask, CallStep, Intercept, Unavailable, Available,
         PublishView, Tell
    <3>2. ASSUME NEW c \in Clients, ClientStep(c) \/ Attach(c)
          PROVE  call' = call
      BY <3>2 DEF ClientStep, Connect, HelloOk, HelloLost, SetWriter, ReadVote,
         ApplyVote, PublishResult, ReadFails, Stopped, Attach
    <3>3. CASE \/ ConsoleStep \/ ConsoleDies \/ ConsoleStarts \/ Detach
               \/ UNCHANGED vars
      BY <3>3 DEF ConsoleStep, Serve, TakeFrame, HostGone, SendConn,
         ConsoleDies, ConsoleStarts, Detach
    <3> QED BY <3>1, <3>2, <3>3, Untouched DEF Next
  <2>2. post'[f] = post[f]
    BY <1>0, <1>6, PostsMove DEF PostMoves, CallStep
  <2> QED BY <1>0, <2>1, <2>2 DEF CallInv
<1> QED BY <1>2, <1>3, <1>4, <1>5, <1>6 DEF CallStep

LEMMA SrvInvStep ==
  ASSUME TypeInv, [Next]_vars
  PROVE  SrvInv'
<1>0. srv \in SrvsOf(Flows) /\ SrvInv
  BY DEF TypeInv, Carries
<1>1. SUFFICES ASSUME srv' # srv, srv'.at # "idle"
               PROVE  srv'.c \in Clients /\ srv'.key # 0
  BY <1>0 DEF SrvInv
<1>2. ASSUME srv.at # "idle", srv'.c = srv.c, srv'.key = srv.key
      PROVE  srv'.c \in Clients /\ srv'.key # 0
  BY <1>0, <1>2 DEF SrvInv
<1>3. ASSUME NEW c \in Clients, Connect(c)
      PROVE  srv'.c \in Clients /\ srv'.key # 0
  <2>1. left.sessions \in 0 .. MaxSessions
    BY DEF TypeInv, RestTyped
  <2>2. MaxSessions - left.sessions + 1 # 0
    BY <2>1, ConstantsTyped
  <2>3. srv'.c = c /\ srv'.key = MaxSessions - left.sessions + 1
    BY <1>0, <1>3 DEF Connect, SrvsOf
  <2> QED BY <2>2, <2>3
<1>4. CASE ConsoleStep
  <2>1. CASE Serve \/ SendConn
    BY <1>0, <1>1, <1>2, <2>1 DEF Serve, SendConn, SrvsOf
  <2>2. CASE Quits
    BY <1>0, <1>1, <2>2 DEF Quits, SrvsOf
  <2>3. CASE TakeFrame
    <3>1. \/ Quits
          \/ /\ srv'.at = srv.at /\ srv'.c = srv.c /\ srv'.key = srv.key
             /\ srv.at # "idle"
      BY <1>0, <2>3 DEF TakeFrame, SrvsOf
    <3> QED BY <1>2, <2>2, <3>1
  <2> QED BY <1>4, <2>1, <2>2, <2>3 DEF ConsoleStep, HostGone
<1>5. ASSUME NEW type, NEW f, NEW grant, NEW voters, NEW typed,
             Say(type, f, grant, voters, typed)
      PROVE  srv'.c \in Clients /\ srv'.key # 0
  <2>1. srv'.at = srv.at /\ srv'.c = srv.c /\ srv'.key = srv.key
    BY <1>0, <1>5 DEF Say, SrvsOf
  <2> QED BY <1>1, <1>2, <2>1
<1>6. CASE ConsoleDies
  BY <1>1, <1>6 DEF ConsoleDies, FreshServer
<1>7. CASE ConsoleStarts
  <2>1. srv'.at = srv.at /\ srv'.c = srv.c /\ srv'.key = srv.key
    BY <1>0, <1>7 DEF ConsoleStarts, SrvsOf
  <2> QED BY <1>1, <1>2, <2>1
<1>8. ASSUME NEW f \in Flows, Ask(f) \/ CallStep(f)
      PROVE  FALSE
  BY <1>1, <1>8 DEF Ask, CallStep, Intercept, Unavailable, Available,
     PublishView
<1>9. ASSUME NEW c \in Clients, ClientStep(c) \/ Attach(c), ~Connect(c)
      PROVE  FALSE
  BY <1>1, <1>9 DEF ClientStep, HelloOk, HelloLost, SetWriter, ReadVote,
     ApplyVote, PublishResult, ReadFails, Stopped, Attach
<1>10. ~Detach /\ ~UNCHANGED vars
  BY <1>1 DEF Detach
<1> QED BY <1>3, <1>4, <1>5, <1>6, <1>7, <1>8, <1>9, <1>10
        DEF Next, Vote, TypeVote, TypeKill

LEMMA TypeStep == TypeInv /\ [Next]_vars => TypeInv'
<1> SUFFICES ASSUME TypeInv, [Next]_vars PROVE TypeInv'
  OBVIOUS
<1>1. Carries(Flows)'
  <2>1. Carries(Flows)
    BY DEF TypeInv
  <2>2. \A f \in Flows \ Flows : ~Available(f)
    OBVIOUS
  <2> QED BY <2>1, <2>2, CarriesStep
<1>2. RestTyped'
  BY CallTyped, LostTyped, OthersTyped DEF RestTyped
<1> QED BY <1>1, <1>2, ClientInvStep, CallInvStep, SrvInvStep DEF TypeInv

(* Every state the specification reaches is typed.                         *)
THEOREM TypeCorrect == Spec => []TypeOK
<1>1. TypeInv => TypeOK
  <2> SUFFICES ASSUME TypeInv PROVE TypeOK
    OBVIOUS
  <2>1. /\ clients \in [Clients -> ClientsOf(Flows)]
        /\ call \in [Flows -> Calls] /\ flow \in [Flows -> States]
        /\ Clients \cup {NoClient} = 0 .. MaxClients
    BY ConstantsTyped DEF TypeInv, Carries, RestTyped, Clients, NoClient
  <2>2. \A c \in Clients : Good(clients[c])
    BY DEF TypeInv, ClientInv
  <2>3. srv.at = "serve" => srv.c \in Clients /\ srv.key # 0
    BY DEF TypeInv, SrvInv
  <2> QED BY <2>1, <2>2, <2>3
          DEF TypeOK, TypeInv, RestTyped, ClientsOf, Keys, Calls, States, Good
<1> QED BY <1>1, TypeInit, TypeStep, PTL DEF Spec


-----------------------------------------------------------------------------
(* DeniedIsFinal.  Until its view was numbered, nothing between host and   *)
(* console is about a flow, so nobody can grant it.                        *)

ViewInv ==
  \A f \in Flows :
    call[f].at \in {"none", "asked", "held"} =>
      flow[f] # "granted" /\ Carries(Flows \ {f})

DenyInv ==
  \A f \in Flows :
    call[f].told = "DENY" => /\ call[f].at = "done" /\ flow[f] # "granted"
                             /\ flow[f] = "pending" => suspended

(* Only the request's own thread moves its call; only a call that asks or  *)
(* is denied, and a vote, change a flow; a suspension stays.               *)
LEMMA CallMoves ==
  ASSUME TypeInv, [Next]_vars
  PROVE  /\ \A f \in Flows : call'[f] = call[f] \/ Ask(f) \/ CallStep(f)
         /\ \/ flow' = flow
            \/ \E f \in Flows : Ask(f) \/ Unavailable(f)
            \/ \E c \in Clients : ApplyVote(c)
         /\ suspended => suspended'
<1>0. call \in [Flows -> Calls]
  BY DEF TypeInv, RestTyped
<1>1. ASSUME NEW g \in Flows, Ask(g) \/ CallStep(g)
      PROVE  /\ \A f \in Flows : f # g => call'[f] = call[f]
             /\ flow' = flow \/ Ask(g) \/ Unavailable(g)
             /\ suspended' = suspended
  BY <1>0, <1>1 DEF Ask, CallStep, Intercept, Unavailable, Available,
     PublishView, Tell
<1>2. ASSUME NEW c \in Clients, ClientStep(c) \/ Attach(c)
      PROVE  /\ call' = call /\ (flow' = flow \/ ApplyVote(c))
             /\ suspended => suspended'
  <2>1. CASE ReadVote(c)
    <3>1. call' = call /\ flow' = flow
      BY <2>1 DEF ReadVote
    <3>2. suspended \in BOOLEAN
      BY DEF TypeInv, RestTyped
    <3>3. suspended => suspended'
      BY <2>1, <3>2 DEF ReadVote
    <3> QED BY <3>1, <3>3
  <2>2. CASE ~ReadVote(c)
    <3>1. suspended' = suspended
      BY <1>2, <2>2 DEF ClientStep, Connect, HelloOk, HelloLost, SetWriter,
         ApplyVote, PublishResult, ReadFails, Stopped, Attach
    <3>2. call' = call /\ (flow' = flow \/ ApplyVote(c))
      BY <1>2, <2>2 DEF ClientStep, Connect, HelloOk, HelloLost, SetWriter,
         ApplyVote, PublishResult, ReadFails, Stopped, Attach
    <3> QED BY <3>1, <3>2
  <2> QED BY <2>1, <2>2
<1>3. ASSUME \/ ConsoleStep \/ ConsoleDies \/ ConsoleStarts \/ Detach
             \/ UNCHANGED vars
      PROVE  call' = call /\ flow' = flow /\ suspended' = suspended
  BY <1>3 DEF ConsoleStep, Serve, TakeFrame, HostGone, SendConn, ConsoleDies,
     ConsoleStarts, Detach
<1> QED BY <1>1, <1>2, <1>3, Untouched DEF Next

(* A vote changes no flow but the one it names, and no decided one.        *)
LEMMA VotesDecide ==
  ASSUME TypeInv, NEW c \in Clients, ApplyVote(c), NEW f \in Flows
  PROVE  \/ flow'[f] = flow[f]
         \/ /\ f = clients[c].vote.flow /\ flow[f] = "pending" /\ ~suspended
<1> DEFINE v == clients[c].vote
<1>1. flow \in [Flows -> States]
  BY DEF TypeInv, RestTyped
<1>2. flow' = Decide(v.flow, v.grant)
  BY DEF ApplyVote
<1> HIDE DEF v
<1>3. \/ flow'[f] = flow[f]
      \/ f = v.flow /\ flow[f] = "pending" /\ ~suspended
  BY <1>1, <1>2 DEF Decide
<1> QED BY <1>3 DEF v

LEMMA DenyInit == Init => ViewInv /\ DenyInv
<1> SUFFICES ASSUME Init PROVE ViewInv /\ DenyInv
  OBVIOUS
<1>1. \A f \in Flows : Carries(Flows \ {f})
  BY CarriesInit
<1> QED BY <1>1 DEF Init, ViewInv, DenyInv

LEMMA ViewStep ==
  ASSUME TypeInv, ViewInv, [Next]_vars
  PROVE  ViewInv'
<1>0. call \in [Flows -> Calls] /\ flow \in [Flows -> States]
  BY DEF TypeInv, RestTyped
<1>1. SUFFICES ASSUME NEW f \in Flows,
                      call'[f].at \in {"none", "asked", "held"}
               PROVE  flow'[f] # "granted" /\ Carries(Flows \ {f})'
  BY DEF ViewInv
<1>2. ~Available(f) /\ ~PublishView(f) /\ ~Unavailable(f)
  BY <1>0, <1>1 DEF Available, PublishView, Unavailable, Tell, Calls
<1>3. call[f].at \in {"none", "asked", "held"}
  BY <1>1, <1>2, CallMoves DEF CallStep, Ask, Intercept
<1>4. flow[f] # "granted" /\ Carries(Flows \ {f})
  BY <1>3 DEF ViewInv
<1>5. Carries(Flows \ {f})'
  <2>1. \A g \in Flows \ (Flows \ {f}) : ~Available(g)
    BY <1>2
  <2> QED BY <1>4, <2>1, CarriesStep
<1>6. flow'[f] # "granted"
  <2>1. ASSUME NEW g \in Flows, Ask(g) \/ Unavailable(g)
        PROVE  flow'[f] # "granted"
    BY <1>0, <1>4, <2>1 DEF Ask, Unavailable, Decide
  <2>2. ASSUME NEW c \in Clients, ApplyVote(c)
        PROVE  flow'[f] # "granted"
    <3>1. clients[c].vote.flow \in (Flows \ {f}) \cup {NoFlow}
      BY <1>4 DEF Carries, ClientsOf
    <3>2. clients[c].vote.flow # f
      BY <3>1, ConstantsTyped
    <3> QED BY <1>4, <2>2, <3>2, VotesDecide
  <2> QED BY <1>4, <2>1, <2>2, CallMoves
<1> QED BY <1>5, <1>6

LEMMA DenyStep ==
  ASSUME TypeInv, ViewInv, DenyInv, [Next]_vars
  PROVE  DenyInv'
<1>0. call \in [Flows -> Calls] /\ flow \in [Flows -> States]
  BY DEF TypeInv, RestTyped
<1>1. SUFFICES ASSUME NEW f \in Flows, call'[f].told = "DENY"
               PROVE  /\ call'[f].at = "done" /\ flow'[f] # "granted"
                      /\ flow'[f] = "pending" => suspended'
  BY DEF DenyInv
<1>2. CASE Unavailable(f)
  <2>1. call[f].at = "held" /\ flow' = Decide(f, FALSE) /\ call'[f].at = "done"
        /\ suspended' = suspended
    BY <1>0, <1>2 DEF Unavailable, Tell, Calls
  <2>2. flow[f] # "granted"
    BY <2>1 DEF ViewInv
  <2> QED BY <1>0, <2>1, <2>2 DEF Decide
<1>3. CASE ~Unavailable(f)
  <2>1. call'[f] = call[f] \/ call[f].at # "done"
    BY CallMoves DEF CallStep, Ask, Intercept, Unavailable, Available,
       PublishView
  <2>2. call[f].told = "DENY"
    <3>1. ASSUME Ask(f) \/ Intercept(f) \/ Available(f) \/ PublishView(f)
          PROVE  call'[f].told \in {call[f].told, "REQUIRE_APPROVAL"}
      BY <1>0, <3>1 DEF Ask, Intercept, Available, PublishView, Tell, Calls
    <3> QED BY <1>1, <1>3, <3>1, CallMoves DEF CallStep
  <2>3. /\ call'[f] = call[f] /\ call[f].at = "done" /\ flow[f] # "granted"
        /\ flow[f] = "pending" => suspended
    BY <2>1, <2>2 DEF DenyInv
  <2>4. ASSUME NEW g \in Flows, Ask(g) \/ Unavailable(g)
        PROVE  flow'[f] = flow[f]
    <3>1. g # f
      BY <2>3, <2>4 DEF Ask, Unavailable
    <3> QED BY <1>0, <2>4, <3>1 DEF Ask, Unavailable, Decide
  <2>5. ASSUME NEW c \in Clients, ApplyVote(c)
        PROVE  flow'[f] = flow[f]
    BY <2>3, <2>5, VotesDecide
  <2>6. flow'[f] = flow[f]
    BY <2>4, <2>5, CallMoves
  <2> QED BY <2>3, <2>6, CallMoves
<1> QED BY <1>2, <1>3

(* A worker told denied_approval_unavailable never sees its flow granted,  *)
(* whatever operators and voters of any session do later.                  *)
THEOREM DenialsAreFinal == Spec => []DeniedIsFinal
<1>1. DenyInv => DeniedIsFinal
  BY DEF DenyInv, DeniedIsFinal
<1>2. TypeInv /\ ViewInv /\ [Next]_vars => ViewInv'
  BY ViewStep
<1>3. TypeInv /\ ViewInv /\ DenyInv /\ [Next]_vars => DenyInv'
  BY DenyStep
<1> QED BY <1>1, <1>2, <1>3, TypeInit, TypeStep, DenyInit, PTL DEF Spec


-----------------------------------------------------------------------------
(* NoFrameSkipped.  Frames are told apart by their session's key and their *)
(* number in it, and one that was lost is nowhere else.                    *)

FramesOf(seq) == {seq[i] : i \in 1 .. Len(seq)}

(* The host's frames on the wires.                                         *)
InAir == UNION {FramesOf(wires[c].up) : c \in Clients}

Used == MaxSessions - left.sessions

(* Every session has a key of its own.                                     *)
KeyInv ==
  /\ \A c \in Clients : clients[c].key <= Used
  /\ \A c, d \in Clients :
       clients[c].key = clients[d].key => c = d \/ clients[c].key = 0
  /\ \A s \in Senders : post[s].key <= Used
  /\ \A p \in InAir : p.key <= Used
  /\ \A gap \in lost : gap[1] <= Used

(* A numbered frame is in one place: unwritten, on a wire or lost.         *)
TagInv ==
  /\ \A s, t \in Senders :
       post[s].key = post[t].key /\ post[s].seq = post[t].seq =>
         s = t \/ post[s].key = 0
  /\ \A s \in Senders : post[s].key # 0 =>
       /\ <<post[s].key, post[s].seq>> \notin lost
       /\ \A p \in InAir : p.key = post[s].key => p.seq # post[s].seq
  /\ \A p \in InAir : <<p.key, p.seq>> \notin lost

(* The client's counter is ahead of every frame of its session.            *)
Ahead(key, send) ==
  /\ \A s \in Senders : post[s].key = key => post[s].seq <= send
  /\ \A p \in InAir : p.key = key => p.seq <= send
  /\ \A gap \in lost : gap[1] = key => gap[2] <= send
  /\ srv.key = key => srv.auth <= send

SentInv ==
  \A c \in Clients :
    clients[c].key # 0 => Ahead(clients[c].key, clients[c].send)

(* What the console has not seen of its session comes after what it has.   *)
GapInv ==
  srv.key # 0 =>
    /\ \A s \in Senders : post[s].key = srv.key => srv.auth < post[s].seq
    /\ \A gap \in lost : gap[1] = srv.key => srv.auth < gap[2]

FrameInv == KeyInv /\ TagInv /\ SentInv /\ GapInv

LEMMA FramesOfSeq ==
  ASSUME NEW S, NEW seq \in Seq(S)
  PROVE  /\ FramesOf(<<>>) = {} /\ FramesOf(seq) \subseteq S
         /\ \A p \in S : FramesOf(Append(seq, p)) \subseteq
                           FramesOf(seq) \cup {p}
         /\ seq # <<>> => /\ Head(seq) \in FramesOf(seq)
                          /\ FramesOf(Tail(seq)) \subseteq FramesOf(seq)
<1>1. FramesOf(<<>>) = {}
  BY DEF FramesOf
<1>2. FramesOf(seq) \subseteq S
  BY DEF FramesOf
<1>3. ASSUME NEW p \in S
      PROVE  FramesOf(Append(seq, p)) \subseteq FramesOf(seq) \cup {p}
  BY AppendProperties DEF FramesOf
<1>4. ASSUME seq # <<>>
      PROVE  /\ Head(seq) \in FramesOf(seq)
             /\ FramesOf(Tail(seq)) \subseteq FramesOf(seq)
  <2>1. Len(seq) \in Nat \ {0} /\ Head(seq) = seq[1] /\ 1 \in 1 .. Len(seq)
    BY <1>4, EmptySeq
  <2>2. ASSUME NEW i \in 1 .. Len(Tail(seq))
        PROVE  Tail(seq)[i] \in FramesOf(seq)
    <3>1. Len(Tail(seq)) = Len(seq) - 1 /\ Tail(seq)[i] = seq[i + 1]
      BY <1>4, HeadTailProperties
    <3>2. i + 1 \in 1 .. Len(seq)
      BY <2>1, <3>1
    <3> QED BY <3>1, <3>2 DEF FramesOf
  <2> QED BY <2>1, <2>2 DEF FramesOf
<1> QED BY <1>1, <1>2, <1>3, <1>4

(* The kinds of steps, as far as the frames can tell.                      *)
SameClients ==
  \A c \in Clients : /\ clients'[c].key = clients[c].key
                     /\ clients'[c].send = clients[c].send

SameServer == srv'.key = srv.key /\ srv'.auth = srv.auth

SameUsed == left'.sessions = left.sessions

Quiet == /\ post' = post /\ lost' = lost /\ InAir' \subseteq InAir
         /\ SameClients /\ SameUsed /\ (SameServer \/ srv'.key = 0)

Numbered ==
  \E s \in Senders, c \in Clients, p \in Posts(Flows) :
    /\ clients[c].key # 0
    /\ p.key = clients[c].key /\ p.seq = clients[c].send + 1
    /\ post' = [post EXCEPT ![s] = p] /\ lost' = lost /\ InAir' \subseteq InAir
    /\ clients'[c].key = clients[c].key /\ clients'[c].send = p.seq
    /\ \A d \in Clients \ {c} : clients'[d] = clients[d]
    /\ SameUsed /\ SameServer

Written ==
  \E s \in Senders :
    /\ post[s].key # 0 /\ post' = [post EXCEPT ![s] = NoPost]
    /\ \/ InAir' \subseteq InAir \cup {post[s]} /\ lost' = lost
       \/ /\ InAir' \subseteq InAir
          /\ lost' = lost \cup {<<post[s].key, post[s].seq>>}
    /\ SameClients /\ SameUsed /\ SameServer

Opened ==
  \E c \in Clients :
    /\ clients'[c].key = Used + 1 /\ clients'[c].send = 0
    /\ \A d \in Clients \ {c} : clients'[d] = clients[d]
    /\ srv'.key = Used + 1 /\ srv'.auth = 0 /\ Used' = Used + 1
    /\ post' = post /\ lost' = lost /\ InAir' \subseteq InAir

Taken ==
  \E p \in InAir :
    /\ p.key = srv.key /\ p.seq = srv.auth + 1
    /\ srv'.key = srv.key /\ srv'.auth = p.seq
    /\ post' = post /\ lost' = lost /\ InAir' \subseteq InAir
    /\ SameClients /\ SameUsed

LEMMA FrameTypes ==
  ASSUME TypeInv
  PROVE  /\ post \in [Senders -> Posts(Flows)]
         /\ \A s \in Senders : post[s].key \in Nat /\ post[s].seq \in Nat
         /\ \A c \in Clients : clients[c].key \in Nat /\ clients[c].send \in Nat
         /\ InAir \subseteq Posts(Flows)
         /\ \A p \in InAir : p.key \in Nat /\ p.seq \in Nat
         /\ \A gap \in lost : /\ gap[1] \in Nat /\ gap[2] \in Nat
                              /\ gap = <<gap[1], gap[2]>>
         /\ srv.key \in Nat /\ srv.auth \in Nat
         /\ Used \in Nat
<1>1. \A p \in Posts(Flows) : p.key \in Nat /\ p.seq \in Nat
  BY ConstantsTyped DEF Posts, Keys
<1>2. post \in [Senders -> Posts(Flows)]
  BY DEF TypeInv, Carries
<1>3. InAir \subseteq Posts(Flows)
  <2>1. ASSUME NEW c \in Clients
        PROVE  FramesOf(wires[c].up) \subseteq Posts(Flows)
    <3>1. wires[c].up \in Seq(Posts(Flows))
      BY DEF TypeInv, Carries, Wires
    <3> QED BY <3>1, FramesOfSeq
  <2> QED BY <2>1 DEF InAir
<1>4. \A c \in Clients : clients[c].key \in Nat /\ clients[c].send \in Nat
  BY ConstantsTyped DEF TypeInv, Carries, ClientsOf, Keys
<1>5. srv.key \in Nat /\ srv.auth \in Nat
  BY ConstantsTyped DEF TypeInv, Carries, SrvsOf, Keys
<1>6. \A gap \in lost : /\ gap[1] \in Nat /\ gap[2] \in Nat
                        /\ gap = <<gap[1], gap[2]>>
  <2>1. lost \subseteq (1 .. MaxSessions) \X Nat
    BY DEF TypeInv, RestTyped
  <2> QED BY <2>1, ConstantsTyped
<1>7. Used \in Nat
  <2>1. left.sessions \in 0 .. MaxSessions
    BY DEF TypeInv, RestTyped
  <2> QED BY <2>1, ConstantsTyped DEF Used
<1> QED BY <1>1, <1>2, <1>3, <1>4, <1>5, <1>6, <1>7

LEMMA QuietStep ==
  ASSUME TypeInv, FrameInv, Quiet
  PROVE  FrameInv'
<1>0. Used' = Used
  BY DEF Quiet, SameUsed, Used
<1>1. KeyInv'
  BY <1>0 DEF FrameInv, KeyInv, Quiet, SameClients
<1>2. TagInv'
  BY DEF FrameInv, TagInv, Quiet
<1>3. SentInv'
  BY DEF FrameInv, SentInv, Ahead, Quiet, SameClients, SameServer
<1>4. GapInv'
  BY DEF FrameInv, GapInv, Quiet, SameServer
<1> QED BY <1>1, <1>2, <1>3, <1>4 DEF FrameInv

LEMMA OpenedStep ==
  ASSUME TypeInv, FrameInv, Opened
  PROVE  FrameInv'
<1>0. PICK c \in Clients :
        /\ clients'[c].key = Used + 1 /\ clients'[c].send = 0
        /\ \A d \in Clients \ {c} : clients'[d] = clients[d]
        /\ srv'.key = Used + 1 /\ srv'.auth = 0 /\ Used' = Used + 1
        /\ post' = post /\ lost' = lost /\ InAir' \subseteq InAir
  BY DEF Opened
<1>1. /\ Used \in Nat
      /\ \A s \in Senders : post[s].key \in Nat /\ post[s].key <= Used
      /\ \A p \in InAir : p.key \in Nat /\ p.key <= Used
      /\ \A gap \in lost : gap[1] \in Nat /\ gap[1] <= Used
      /\ \A d \in Clients : clients[d].key \in Nat /\ clients[d].key <= Used
  BY FrameTypes DEF FrameInv, KeyInv
<1>2. \A n \in Nat : n <= Used => n <= Used + 1 /\ n # Used + 1
  BY <1>1
<1>3. KeyInv'
  <2>1. \A d \in Clients : clients'[d].key <= Used'
    BY <1>0, <1>1, <1>2
  <2>2. \A d, e \in Clients :
          clients'[d].key = clients'[e].key => d = e \/ clients'[d].key = 0
    BY <1>0, <1>1, <1>2 DEF FrameInv, KeyInv
  <2> QED BY <1>0, <1>1, <1>2, <2>1, <2>2 DEF KeyInv
<1>4. TagInv'
  BY <1>0 DEF FrameInv, TagInv
<1>5. SentInv'
  <2> SUFFICES ASSUME NEW d \in Clients, clients'[d].key # 0
               PROVE  Ahead(clients[d].key, clients[d].send)'
    BY DEF SentInv
  <2>1. CASE d = c
    BY <1>0, <1>1, <1>2, <2>1 DEF Ahead
  <2>2. CASE d # c
    <3>1. clients'[d] = clients[d] /\ srv'.key # clients[d].key
      BY <1>0, <1>1, <1>2, <2>2
    <3>2. Ahead(clients[d].key, clients[d].send)
      BY <3>1 DEF FrameInv, SentInv
    <3> QED BY <1>0, <3>1, <3>2 DEF Ahead
  <2> QED BY <2>1, <2>2
<1>6. GapInv'
  BY <1>0, <1>1, <1>2 DEF GapInv
<1> QED BY <1>3, <1>4, <1>5, <1>6 DEF FrameInv

LEMMA TakenStep ==
  ASSUME TypeInv, FrameInv, Taken
  PROVE  FrameInv'
<1>0. PICK p \in InAir :
        /\ p.key = srv.key /\ p.seq = srv.auth + 1
        /\ srv'.key = srv.key /\ srv'.auth = p.seq
        /\ post' = post /\ lost' = lost /\ InAir' \subseteq InAir
        /\ SameClients /\ SameUsed
  BY DEF Taken
<1>1. KeyInv'
  BY <1>0 DEF FrameInv, KeyInv, SameClients, SameUsed, Used
<1>2. TagInv'
  BY <1>0 DEF FrameInv, TagInv
<1>3. SentInv'
  <2> SUFFICES ASSUME NEW c \in Clients, clients'[c].key # 0
               PROVE  Ahead(clients[c].key, clients[c].send)'
    BY DEF SentInv
  <2>1. clients'[c].key = clients[c].key /\ clients'[c].send = clients[c].send
    BY <1>0 DEF SameClients
  <2>2. Ahead(clients[c].key, clients[c].send)
    BY <2>1 DEF FrameInv, SentInv
  <2>3. srv.key = clients[c].key => srv'.auth <= clients[c].send
    BY <1>0, <2>2 DEF Ahead
  <2> QED BY <1>0, <2>1, <2>2, <2>3 DEF Ahead
<1>4. GapInv'
  <2> SUFFICES ASSUME srv.key # 0
               PROVE  /\ \A s \in Senders :
                           post[s].key = srv.key => srv'.auth < post[s].seq
                      /\ \A gap \in lost :
                           gap[1] = srv.key => srv'.auth < gap[2]
    BY <1>0 DEF GapInv
  <2>1. \A n \in Nat : srv.auth < n /\ n # p.seq => srv'.auth < n
    BY <1>0, FrameTypes
  <2>2. ASSUME NEW s \in Senders, post[s].key = srv.key
        PROVE  srv'.auth < post[s].seq
    <3>1. post[s].seq # p.seq
      BY <1>0, <2>2 DEF FrameInv, TagInv
    <3>2. srv.auth < post[s].seq /\ post[s].seq \in Nat
      BY <2>2, FrameTypes DEF FrameInv, GapInv
    <3> QED BY <2>1, <3>1, <3>2
  <2>3. ASSUME NEW gap \in lost, gap[1] = srv.key
        PROVE  srv'.auth < gap[2]
    <3>1. gap = <<gap[1], gap[2]>> /\ gap[2] \in Nat
      BY FrameTypes
    <3>2. gap[2] # p.seq
      BY <1>0, <2>3, <3>1 DEF FrameInv, TagInv
    <3>3. srv.auth < gap[2]
      BY <2>3 DEF FrameInv, GapInv
    <3> QED BY <2>1, <3>1, <3>2, <3>3
  <2> QED BY <2>2, <2>3
<1> QED BY <1>1, <1>2, <1>3, <1>4 DEF FrameInv


LEMMA NumberedStep ==
  ASSUME TypeInv, FrameInv, Numbered
  PROVE  FrameInv'
<1>0. PICK s \in Senders, c \in Clients, p \in Posts(Flows) :
        /\ clients[c].key # 0
        /\ p.key = clients[c].key /\ p.seq = clients[c].send + 1
        /\ post' = [post EXCEPT ![s] = p] /\ lost' = lost
        /\ InAir' \subseteq InAir
        /\ clients'[c].key = clients[c].key /\ clients'[c].send = p.seq
        /\ \A d \in Clients \ {c} : clients'[d] = clients[d]
        /\ SameUsed /\ SameServer
  BY DEF Numbered
<1>1. post'[s] = p /\ \A t \in Senders : t # s => post'[t] = post[t]
  BY <1>0, FrameTypes
<1>2. Ahead(p.key, clients[c].send)
  BY <1>0 DEF FrameInv, SentInv
<1>3. /\ clients[c].send \in Nat
      /\ \A n \in Nat : n <= clients[c].send => n < p.seq
      /\ p.seq \in Nat
  BY <1>0, FrameTypes
<1>4. /\ \A t \in Senders : post[t].key = p.key => post[t].seq < p.seq
      /\ \A q \in InAir : q.key = p.key => q.seq < p.seq
      /\ \A gap \in lost : gap[1] = p.key => gap[2] < p.seq
      /\ srv.key = p.key => srv.auth < p.seq
  BY <1>2, <1>3, FrameTypes DEF Ahead
<1>5. KeyInv'
  <2>1. Used' = Used
    BY <1>0 DEF SameUsed, Used
  <2>2. \A d \in Clients : clients'[d].key = clients[d].key
    BY <1>0
  <2>3. \A t \in Senders : post'[t].key <= Used
    BY <1>0, <1>1 DEF FrameInv, KeyInv
  <2> QED BY <1>0, <2>1, <2>2, <2>3 DEF FrameInv, KeyInv
<1>6. TagInv'
  <2>1. \A t \in Senders : post[t].key = p.key => post[t].seq # p.seq
    BY <1>3, <1>4, FrameTypes
  <2>2. \A q \in InAir : q.key = p.key => q.seq # p.seq
    BY <1>3, <1>4, FrameTypes
  <2>3. <<p.key, p.seq>> \notin lost
    <3> SUFFICES ASSUME <<p.key, p.seq>> \in lost PROVE FALSE
      OBVIOUS
    <3>1. p.seq < p.seq
      BY <1>4
    <3> QED BY <1>3, <3>1
  <2>4. \A t, u \in Senders :
          post'[t].key = post'[u].key /\ post'[t].seq = post'[u].seq =>
            t = u \/ post'[t].key = 0
    BY <1>1, <2>1 DEF FrameInv, TagInv
  <2>5. \A t \in Senders : post'[t].key # 0 =>
          /\ <<post'[t].key, post'[t].seq>> \notin lost
          /\ \A q \in InAir : q.key = post'[t].key => q.seq # post'[t].seq
    BY <1>1, <2>2, <2>3 DEF FrameInv, TagInv
  <2> QED BY <1>0, <2>4, <2>5 DEF FrameInv, TagInv
<1>7. SentInv'
  <2> SUFFICES ASSUME NEW d \in Clients, clients'[d].key # 0
               PROVE  Ahead(clients[d].key, clients[d].send)'
    BY DEF SentInv
  <2>1. CASE d = c
    <3>1. \A n \in Nat : n < p.seq => n <= p.seq
      BY <1>3
    <3>2. p.seq <= p.seq
      BY <1>3
    <3>3. \A t \in Senders : post'[t].key = p.key => post'[t].seq <= p.seq
      BY <1>1, <1>4, <3>1, <3>2, FrameTypes
    <3>4. /\ \A q \in InAir : q.key = p.key => q.seq <= p.seq
          /\ \A gap \in lost : gap[1] = p.key => gap[2] <= p.seq
          /\ srv.key = p.key => srv.auth <= p.seq
      BY <1>4, <3>1, FrameTypes
    <3> QED BY <1>0, <2>1, <3>3, <3>4 DEF Ahead, SameServer
  <2>2. CASE d # c
    <3>1. clients'[d] = clients[d] /\ clients[d].key # p.key
      BY <1>0, <2>2 DEF FrameInv, KeyInv
    <3>2. Ahead(clients[d].key, clients[d].send)
      BY <3>1 DEF FrameInv, SentInv
    <3>3. \A t \in Senders : post'[t].key = clients[d].key =>
            post'[t].seq <= clients[d].send
      BY <1>1, <3>1, <3>2 DEF Ahead
    <3> QED BY <1>0, <3>1, <3>2, <3>3 DEF Ahead, SameServer
  <2> QED BY <2>1, <2>2
<1>8. GapInv'
  BY <1>0, <1>1, <1>4 DEF FrameInv, GapInv, SameServer
<1> QED BY <1>5, <1>6, <1>7, <1>8 DEF FrameInv

LEMMA WrittenStep ==
  ASSUME TypeInv, FrameInv, Written
  PROVE  FrameInv'
<1>0. PICK s \in Senders :
        /\ post[s].key # 0 /\ post' = [post EXCEPT ![s] = NoPost]
        /\ \/ InAir' \subseteq InAir \cup {post[s]} /\ lost' = lost
           \/ /\ InAir' \subseteq InAir
              /\ lost' = lost \cup {<<post[s].key, post[s].seq>>}
        /\ SameClients /\ SameUsed /\ SameServer
  BY DEF Written
<1> DEFINE p == post[s]
<1>1. /\ post'[s].key = 0
      /\ \A t \in Senders : t # s => post'[t] = post[t]
  BY <1>0, FrameTypes, FreshTyped
<1>2. \A t \in Senders : post'[t].key = 0 \/ (t # s /\ post'[t] = post[t])
  BY <1>1
<1>3. /\ \A q \in InAir' : q \in InAir \/ (q = p /\ lost' = lost)
      /\ \A gap \in lost' : gap \in lost \/ (/\ gap = <<p.key, p.seq>>
                                             /\ InAir' \subseteq InAir)
  BY <1>0
<1>4. Used' = Used /\ \A c \in Clients : clients'[c].key = clients[c].key
  BY <1>0 DEF SameUsed, Used, SameClients
<1>5. KeyInv'
  <2>1. p.key <= Used /\ 0 <= Used
    BY FrameTypes DEF FrameInv, KeyInv
  <2>2. \A t \in Senders : post'[t].key <= Used
    BY <1>2, <2>1 DEF FrameInv, KeyInv
  <2>3. \A q \in InAir' : q.key <= Used
    BY <1>3, <2>1 DEF FrameInv, KeyInv
  <2>4. \A gap \in lost' : gap[1] <= Used
    BY <1>3, <2>1 DEF FrameInv, KeyInv
  <2> QED BY <1>4, <2>2, <2>3, <2>4 DEF FrameInv, KeyInv
<1>6. TagInv'
  <2>1. \A t \in Senders : t # s /\ post[t].key = p.key =>
          post[t].seq # p.seq
    BY <1>0 DEF FrameInv, TagInv
  <2>2. /\ <<p.key, p.seq>> \notin lost
        /\ \A q \in InAir : q.key = p.key => q.seq # p.seq
    BY <1>0 DEF FrameInv, TagInv
  <2>3. \A t, u \in Senders :
          post'[t].key = post'[u].key /\ post'[t].seq = post'[u].seq =>
            t = u \/ post'[t].key = 0
    BY <1>1, <1>2 DEF FrameInv, TagInv
  <2>4. ASSUME NEW t \in Senders, post'[t].key # 0
        PROVE  /\ <<post'[t].key, post'[t].seq>> \notin lost'
               /\ \A q \in InAir' : q.key = post'[t].key => q.seq # post'[t].seq
    <3>1. t # s /\ post'[t] = post[t]
      BY <1>2, <2>4
    <3>2. /\ <<post[t].key, post[t].seq>> \notin lost
          /\ \A q \in InAir : q.key = post[t].key => q.seq # post[t].seq
      BY <2>4, <3>1 DEF FrameInv, TagInv
    <3>3. <<post[t].key, post[t].seq>> # <<p.key, p.seq>>
      BY <2>1, <3>1
    <3> QED BY <1>3, <2>1, <3>1, <3>2, <3>3
  <2>5. ASSUME NEW q \in InAir'
        PROVE  <<q.key, q.seq>> \notin lost'
    <3>1. CASE q \in InAir
      <4>1. <<q.key, q.seq>> \notin lost
        BY <3>1 DEF FrameInv, TagInv
      <4>2. <<q.key, q.seq>> # <<p.key, p.seq>>
        BY <2>2, <3>1
      <4> QED BY <1>3, <4>1, <4>2
    <3>2. CASE q = p /\ lost' = lost
      BY <2>2, <3>2
    <3> QED BY <1>3, <3>1, <3>2
  <2> QED BY <2>3, <2>4, <2>5 DEF TagInv
<1>7. SentInv'
  <2> SUFFICES ASSUME NEW c \in Clients, clients'[c].key # 0
               PROVE  Ahead(clients[c].key, clients[c].send)'
    BY DEF SentInv
  <2>1. clients'[c].key = clients[c].key /\ clients'[c].send = clients[c].send
    BY <1>0 DEF SameClients
  <2>2. Ahead(clients[c].key, clients[c].send)
    BY <2>1 DEF FrameInv, SentInv
  <2>3. \A t \in Senders : post'[t].key = clients[c].key =>
          post'[t].seq <= clients[c].send
    BY <1>2, <2>1, <2>2 DEF Ahead
  <2>4. \A q \in InAir' : q.key = clients[c].key => q.seq <= clients[c].send
    BY <1>3, <2>2 DEF Ahead
  <2>5. \A gap \in lost' : gap[1] = clients[c].key => gap[2] <= clients[c].send
    BY <1>3, <2>2 DEF Ahead
  <2> QED BY <1>0, <2>1, <2>2, <2>3, <2>4, <2>5 DEF Ahead, SameServer
<1>8. GapInv'
  <2> SUFFICES ASSUME srv.key # 0
               PROVE  /\ \A t \in Senders :
                           post'[t].key = srv.key => srv.auth < post'[t].seq
                      /\ \A gap \in lost' :
                           gap[1] = srv.key => srv.auth < gap[2]
    BY <1>0 DEF GapInv, SameServer
  <2>1. p.key = srv.key => srv.auth < p.seq
    BY DEF FrameInv, GapInv
  <2>2. \A t \in Senders : post'[t].key = srv.key => srv.auth < post'[t].seq
    BY <1>2 DEF FrameInv, GapInv
  <2>3. \A gap \in lost' : gap[1] = srv.key => srv.auth < gap[2]
    BY <1>3, <2>1 DEF FrameInv, GapInv
  <2> QED BY <2>2, <2>3
<1> QED BY <1>5, <1>6, <1>7, <1>8 DEF FrameInv


(* The wires' contribution: what every connection carries.                 *)
LEMMA AirMoves ==
  ASSUME NEW X,
         \A c \in Clients : FramesOf(wires'[c].up) \subseteq
                              FramesOf(wires[c].up) \cup X
  PROVE  InAir' \subseteq InAir \cup X
BY DEF InAir

LEMMA AirShrinks ==
  ASSUME \A c \in Clients : FramesOf(wires'[c].up) \subseteq
                              FramesOf(wires[c].up)
  PROVE  InAir' \subseteq InAir
BY DEF InAir

(* One connection is replaced by one that carries no more.                 *)
LEMMA WireShrinks ==
  ASSUME TypeInv, NEW c, NEW w, wires' = [wires EXCEPT ![c] = w],
         c \in Clients => \/ w.up = wires[c].up \/ w.up = <<>>
                          \/ wires[c].up # <<>> /\ w.up = Tail(wires[c].up)
  PROVE  InAir' \subseteq InAir
<1>1. wires \in [Clients -> Wires(Flows)]
  BY DEF TypeInv, Carries
<1>2. ASSUME NEW d \in Clients
      PROVE  FramesOf(wires'[d].up) \subseteq FramesOf(wires[d].up)
  <2>1. CASE d # c
    BY <1>1, <2>1
  <2>2. CASE d = c
    <3>1. wires'[d] = w /\ wires[d].up \in Seq(Posts(Flows))
      BY <1>1, <2>2 DEF Wires
    <3>2. CASE w.up = wires[c].up
      BY <2>2, <3>1, <3>2
    <3>3. CASE w.up = <<>>
      <4>1. FramesOf(w.up) = {}
        BY <3>3, FramesOfSeq, EmptySeq
      <4> QED BY <2>2, <3>1, <4>1
    <3>4. CASE wires[c].up # <<>> /\ w.up = Tail(wires[c].up)
      BY <2>2, <3>1, <3>4, FramesOfSeq
    <3> QED BY <2>2, <3>2, <3>3, <3>4
  <2> QED BY <2>1, <2>2
<1> QED BY <1>2, AirShrinks

LEMMA WritesMove ==
  ASSUME TypeInv, NEW s \in Senders, NEW c \in Clients, post[s].c = c,
         post[s].key # 0, NEW r, Write(s, r), r \in ClientsOf(Flows),
         r.key = clients[c].key, r.send = clients[c].send,
         left' = left, srv' = srv
  PROVE  Written
<1>0. /\ clients \in [Clients -> ClientsOf(Flows)]
      /\ wires \in [Clients -> Wires(Flows)]
      /\ post[s] \in Posts(Flows) /\ wires[c].up \in Seq(Posts(Flows))
  BY DEF TypeInv, Carries, Wires
<1>1. SameClients
  <2>1. \/ clients' = [clients EXCEPT ![c] = r]
        \/ clients' = [clients EXCEPT ![c] = Errs(r)]
    BY WriteIs
  <2>2. Errs(r).key = clients[c].key /\ Errs(r).send = clients[c].send
    BY ErrsFields
  <2> QED BY <1>0, <2>1, <2>2 DEF SameClients
<1>2. post' = [post EXCEPT ![s] = NoPost]
  BY WriteIs
<1>3. \/ InAir' \subseteq InAir \cup {post[s]} /\ lost' = lost
      \/ /\ InAir' \subseteq InAir
         /\ lost' = lost \cup {<<post[s].key, post[s].seq>>}
  <2> DEFINE w == [wires[c] EXCEPT !.up = Append(wires[c].up, post[s])]
  <2>1. CASE wires' = [wires EXCEPT ![c] = w] /\ lost' = lost
    <3>1. w.up = Append(wires[c].up, post[s])
      BY <1>0 DEF Wires
    <3>2. FramesOf(w.up) \subseteq FramesOf(wires[c].up) \cup {post[s]}
      BY <1>0, <3>1, FramesOfSeq
    <3> HIDE DEF w
    <3>3. \A d \in Clients : FramesOf(wires'[d].up) \subseteq
                               FramesOf(wires[d].up) \cup {post[s]}
      BY <1>0, <2>1, <3>2
    <3> QED BY <2>1, <3>3, AirMoves
  <2>2. CASE /\ wires' = wires
             /\ lost' = lost \cup {<<post[s].key, post[s].seq>>}
    BY <2>2, AirShrinks
  <2> QED BY <2>1, <2>2, WriteIs
<1> QED BY <1>1, <1>2, <1>3 DEF Written, SameUsed, SameServer

LEMMA NumbersMove ==
  ASSUME TypeInv, NEW s \in Senders, NEW c \in Clients,
         NEW type \in {"view", "result"}, NEW f \in Flows \cup {NoFlow},
         Number(s, c, type, f), clients[c].key # 0,
         wires' = wires, lost' = lost, left' = left, srv' = srv
  PROVE  Numbered
<1> DEFINE p == [c |-> c, type |-> type, flow |-> f,
                 seq |-> clients[c].send + 1, key |-> clients[c].key]
<1>0. clients \in [Clients -> ClientsOf(Flows)]
  BY DEF TypeInv, Carries
<1>1. clients[c].send + 1 \in Nat /\ clients[c].key \in Keys
  BY <1>0 DEF ClientsOf
<1>2. /\ p \in Posts(Flows) /\ p.key = clients[c].key
      /\ p.seq = clients[c].send + 1
  BY <1>1, ConstantsTyped DEF Posts
<1>3. /\ post' = [post EXCEPT ![s] = p]
      /\ clients' = [clients EXCEPT ![c] =
                       [clients[c] EXCEPT !.send = clients[c].send + 1]]
  BY NumberIs
<1> HIDE DEF p
<1>4. /\ clients'[c].key = clients[c].key
      /\ clients'[c].send = p.seq
      /\ \A d \in Clients \ {c} : clients'[d] = clients[d]
  BY <1>0, <1>2, <1>3 DEF ClientsOf
<1>5. InAir' \subseteq InAir
  BY AirShrinks
<1> QED BY <1>2, <1>3, <1>4, <1>5 DEF Numbered, SameUsed, SameServer

(* A step that writes nothing but these is quiet.                          *)
LEMMA QuietMove ==
  ASSUME post' = post, lost' = lost, InAir' \subseteq InAir, SameClients,
         left'.sessions = left.sessions, SameServer \/ srv'.key = 0
  PROVE  Quiet
BY DEF Quiet, SameUsed


(* One client's record is replaced by one with the same key and counter.   *)
LEMMA ClientKept ==
  ASSUME TypeInv, NEW c \in Clients, NEW r,
         clients' = [clients EXCEPT ![c] = r],
         r.key = clients[c].key, r.send = clients[c].send
  PROVE  SameClients
BY DEF TypeInv, Carries, SameClients

(* A client that hangs up keeps its counter; the console may read on.      *)
LEMMA HangsMove ==
  ASSUME TypeInv, NEW c \in Clients, NEW r \in {clients[c], Errs(clients[c])},
         Hangs(c, r), post' = post, lost' = lost, left' = left, srv' = srv
  PROVE  Quiet
<1>0. clients[c] \in ClientsOf(Flows)
  BY DEF TypeInv, Carries
<1>1. /\ r \in ClientsOf(Flows) /\ r.key = clients[c].key
      /\ r.send = clients[c].send
  BY <1>0, ClientRecords, ErrsFields
<1>2. Leaves(r).key = clients[c].key /\ Leaves(r).send = clients[c].send
  BY <1>1, LeavesFields
<1>3. SameClients
  BY <1>2, ClientKept DEF Hangs
<1> DEFINE w == [conn |-> "shut", up |-> wires[c].up, down |-> <<>>]
<1>4. wires' = [wires EXCEPT ![c] = w] /\ w.up = wires[c].up
  BY DEF Hangs
<1> HIDE DEF w
<1>5. InAir' \subseteq InAir
  BY <1>4, WireShrinks
<1> QED BY <1>3, <1>5, QuietMove DEF SameServer

LEMMA CallFrames ==
  ASSUME TypeInv, NEW f \in Flows, Ask(f) \/ CallStep(f)
  PROVE  Quiet \/ Numbered \/ Written
<1>1. CASE Ask(f) \/ Intercept(f) \/ Unavailable(f)
  <2>1. UNCHANGED <<clients, wires, srv, post, lost, left>>
    BY <1>1 DEF Ask, Intercept, Unavailable
  <2>2. InAir' \subseteq InAir
    BY <2>1, AirShrinks
  <2> QED BY <2>1, <2>2, QuietMove DEF SameClients, SameServer
<1>2. CASE Available(f)
  <2>1. call[f].c \in Clients /\ f \in Senders
    BY <1>2 DEF TypeInv, CallInv, Available, Senders
  <2>2. clients[call[f].c].connected /\ Good(clients[call[f].c])
    BY <1>2, <2>1 DEF TypeInv, ClientInv, Available, Healthy
  <2>3. clients[call[f].c].key # 0
    BY <2>2 DEF Good
  <2> QED BY <1>2, <2>1, <2>3, NumbersMove DEF Available
<1>3. CASE PublishView(f)
  <2> DEFINE c == call[f].c
  <2>1. /\ c \in Clients /\ post[f].c = c
        /\ f \in Senders /\ Write(f, clients[c])
    BY <1>3, Writes
  <2>2. clients[c] \in ClientsOf(Flows)
    BY <2>1 DEF TypeInv, Carries
  <2>3. post[f].key # 0
    BY <2>1, ConstantsTyped, FreshTyped DEF TypeInv, PostInv
  <2>4. left' = left /\ srv' = srv
    BY <1>3 DEF PublishView
  <2> QED BY <2>1, <2>2, <2>3, <2>4, WritesMove
<1> QED BY <1>1, <1>2, <1>3 DEF CallStep

LEMMA ClientFrames ==
  ASSUME TypeInv, NEW c \in Clients, ClientStep(c) \/ Attach(c)
  PROVE  Quiet \/ Numbered \/ Written \/ Opened
<1>0. /\ clients \in [Clients -> ClientsOf(Flows)]
      /\ wires \in [Clients -> Wires(Flows)]
      /\ clients[c] \in ClientsOf(Flows) /\ Good(clients[c])
      /\ c \in Senders
  BY DEF TypeInv, Carries, ClientInv, Senders
<1>1. CASE Connect(c)
  <2>1. left \in [sessions : 0 .. MaxSessions, deaths : Nat, typed : Nat]
    BY DEF TypeInv, RestTyped
  <2>2. Used + 1 = MaxSessions - left.sessions + 1
    BY DEF Used
  <2>3. Used' = Used + 1
    <3>1. left'.sessions = left.sessions - 1
      BY <1>1, <2>1 DEF Connect
    <3> QED BY <2>1, <3>1, ConstantsTyped DEF Used
  <2>4. /\ clients'[c].key = Used + 1 /\ clients'[c].send = 0
        /\ \A d \in Clients \ {c} : clients'[d] = clients[d]
    BY <1>0, <1>1, <2>2 DEF Connect, ClientsOf
  <2>5. srv'.key = Used + 1 /\ srv'.auth = 0
    <3>1. srv \in SrvsOf(Flows)
      BY DEF TypeInv, Carries
    <3> QED BY <1>1, <2>2, <3>1 DEF Connect, SrvsOf
  <2> DEFINE w == [conn |-> "open", up |-> <<>>, down |-> <<>>]
  <2>6. wires' = [wires EXCEPT ![c] = w] /\ w.up = <<>>
    BY <1>1 DEF Connect
  <2> HIDE DEF w
  <2>7. InAir' \subseteq InAir
    BY <2>6, WireShrinks
  <2>8. post' = post /\ lost' = lost
    BY <1>1 DEF Connect
  <2> QED BY <2>3, <2>4, <2>5, <2>7, <2>8 DEF Opened
<1>2. CASE HelloOk(c) \/ SetWriter(c) \/ Attach(c)
  <2>1. UNCHANGED <<wires, srv, post, lost, left>>
    BY <1>2 DEF HelloOk, SetWriter, Attach
  <2>2. SameClients
    <3>1. CASE HelloOk(c)
      <4> DEFINE r == [clients[c] EXCEPT !.at = "greeted", !.expect = 1,
                                         !.connected = TRUE, !.ever = TRUE]
      <4>1. r.key = clients[c].key /\ r.send = clients[c].send
        BY <1>0 DEF ClientsOf
      <4>2. clients' = [clients EXCEPT ![c] = r]
        BY <3>1 DEF HelloOk
      <4> HIDE DEF r
      <4> QED BY <4>1, <4>2, ClientKept
    <3>2. CASE SetWriter(c)
      <4> DEFINE r == [clients[c] EXCEPT !.at = "read", !.writer = TRUE]
      <4>1. r.key = clients[c].key /\ r.send = clients[c].send
        BY <1>0 DEF ClientsOf
      <4>2. clients' = [clients EXCEPT ![c] = r]
        BY <3>2 DEF SetWriter
      <4> HIDE DEF r
      <4> QED BY <4>1, <4>2, ClientKept
    <3>3. CASE Attach(c)
      <4> DEFINE r == [clients[c] EXCEPT !.at = "away"]
      <4>1. r.key = clients[c].key /\ r.send = clients[c].send
        BY <1>0 DEF ClientsOf
      <4>2. clients' = [clients EXCEPT ![c] = r]
        BY <3>3 DEF Attach
      <4> HIDE DEF r
      <4> QED BY <4>1, <4>2, ClientKept
    <3> QED BY <1>2, <3>1, <3>2, <3>3
  <2>3. InAir' \subseteq InAir
    BY <2>1, AirShrinks
  <2> QED BY <2>1, <2>2, <2>3, QuietMove DEF SameServer
<1>3. CASE HelloLost(c) \/ ReadFails(c) \/ Stopped(c)
  <2>1. /\ Hangs(c, clients[c]) \/ Hangs(c, Errs(clients[c]))
        /\ UNCHANGED <<srv, post, lost, left>>
    BY <1>3 DEF HelloLost, ReadFails, Stopped
  <2> QED BY <2>1, HangsMove
<1>4. CASE ReadVote(c)
  <2>0. UNCHANGED <<srv, post, lost, left>>
    BY <1>4 DEF ReadVote
  <2>1. CASE Hangs(c, Errs(clients[c]))
    BY <2>0, <2>1, HangsMove
  <2>2. CASE ~Hangs(c, Errs(clients[c]))
    <3> DEFINE frame == Head(wires[c].down)
    <3>1. /\ clients' = [clients EXCEPT
             ![c].expect = @ + 1,
             ![c].at = IF frame.type = "vote" THEN "vote" ELSE @,
             ![c].vote = IF frame.type = "vote"
                         THEN [flow |-> frame.flow, grant |-> frame.grant]
                         ELSE @]
          /\ wires' = [wires EXCEPT ![c].down = Tail(@)]
      BY <1>4, <2>2 DEF ReadVote
    <3> HIDE DEF frame
    <3>2. SameClients
      BY <1>0, <3>1 DEF SameClients, ClientsOf
    <3> DEFINE w == [wires[c] EXCEPT !.down = Tail(wires[c].down)]
    <3>3. wires' = [wires EXCEPT ![c] = w] /\ w.up = wires[c].up
      BY <1>0, <3>1 DEF Wires
    <3> HIDE DEF w
    <3>4. InAir' \subseteq InAir
      BY <3>3, WireShrinks
    <3> QED BY <2>0, <3>2, <3>4, QuietMove DEF SameServer
  <2> QED BY <2>1, <2>2
<1>5. CASE ApplyVote(c)
  <2>1. clients[c].key # 0
    BY <1>0, <1>5 DEF ApplyVote, Good
  <2>2. clients[c].vote.flow \in Flows \cup {NoFlow}
    BY <1>0 DEF ClientsOf
  <2>3. /\ Number(c, c, "result", clients[c].vote.flow)
        /\ UNCHANGED <<wires, srv, lost, left>>
    BY <1>5 DEF ApplyVote
  <2> QED BY <1>0, <2>1, <2>2, <2>3, NumbersMove
<1>6. CASE PublishResult(c)
  <2> DEFINE r == [clients[c] EXCEPT !.at = "read", !.vote = NoVote]
  <2>1. post[c].c = c /\ post[c].key # 0 /\ Write(c, r)
    BY <1>6, Writes
  <2>2. r.key = clients[c].key /\ r.send = clients[c].send
    BY <1>0 DEF ClientsOf
  <2>3. r \in ClientsOf(Flows)
    BY <1>0, FreshTyped DEF ClientsOf
  <2>4. left' = left /\ srv' = srv
    BY <1>6 DEF PublishResult
  <2> HIDE DEF r
  <2> QED BY <1>0, <2>1, <2>2, <2>3, <2>4, WritesMove
<1> QED BY <1>1, <1>2, <1>3, <1>4, <1>5, <1>6 DEF ClientStep


(* A step of the console that leaves the host's side alone.                *)
HostAlone == UNCHANGED <<clients, post, lost>> /\ SameUsed

LEMMA ServerFields ==
  ASSUME TypeInv
  PROVE  /\ \A at : /\ [srv EXCEPT !.at = at].key = srv.key
                    /\ [srv EXCEPT !.at = at].auth = srv.auth
         /\ \A up : /\ [srv EXCEPT !.up = up].key = srv.key
                    /\ [srv EXCEPT !.up = up].auth = srv.auth
         /\ \A out : /\ [srv EXCEPT !.out = out].key = srv.key
                     /\ [srv EXCEPT !.out = out].auth = srv.auth
         /\ \A n, vs, out :
              /\ [srv EXCEPT !.send = n, !.voters = vs, !.out = out].key
                   = srv.key
              /\ [srv EXCEPT !.send = n, !.voters = vs, !.out = out].auth
                   = srv.auth
         /\ \A n, shown, vs :
              /\ [srv EXCEPT !.auth = n, !.shown = shown, !.voters = vs].key
                   = srv.key
              /\ [srv EXCEPT !.auth = n, !.shown = shown, !.voters = vs].auth
                   = n
BY DEF TypeInv, Carries, SrvsOf

LEMMA QuitsMove ==
  ASSUME TypeInv, srv.at = "serve", Quits, HostAlone
  PROVE  Quiet
<1>1. SameServer
  BY ServerFields DEF Quits, SameServer
<1> DEFINE w == [wires[srv.c] EXCEPT !.conn = "left", !.up = <<>>]
<1>2. wires' = [wires EXCEPT ![srv.c] = w]
  BY DEF Quits
<1>3. srv.c \in Clients /\ wires[srv.c] \in Wires(Flows)
  BY DEF TypeInv, SrvInv, Carries
<1>4. w.up = <<>>
  BY <1>3 DEF Wires
<1> HIDE DEF w
<1>5. InAir' \subseteq InAir
  BY <1>2, <1>4, WireShrinks
<1> QED BY <1>1, <1>5, QuietMove DEF HostAlone, SameUsed, SameClients

LEMMA TakeFrames ==
  ASSUME TypeInv, TakeFrame
  PROVE  Quiet \/ Taken
<1> DEFINE frame == Head(wires[srv.c].up)
           seen == {frame.flow}
                     \cap (IF frame.type = "view" THEN Flows ELSE {})
           w == [wires[srv.c] EXCEPT !.up = Tail(wires[srv.c].up)]
<1>0. /\ srv.c \in Clients /\ wires[srv.c] \in Wires(Flows)
      /\ srv.at = "serve" /\ wires[srv.c].up # <<>>
      /\ wires[srv.c].up \in Seq(Posts(Flows))
  BY DEF TypeInv, SrvInv, Carries, TakeFrame, Wires
<1>1. HostAlone
  BY DEF TakeFrame, HostAlone, SameUsed
<1>2. CASE Quits
  BY <1>0, <1>1, <1>2, QuitsMove
<1>3. CASE ~Quits
  <2>1. /\ frame.key = srv.key /\ frame.seq = srv.auth + 1
        /\ srv' = [srv EXCEPT !.auth = srv.auth + 1,
                     !.shown = srv.shown \cup seen,
                     !.voters = IF srv.auto THEN srv.voters \cup seen
                                ELSE srv.voters]
        /\ wires' = [wires EXCEPT ![srv.c] = w]
    BY <1>3 DEF TakeFrame
  <2>2. srv'.key = srv.key /\ srv'.auth = srv.auth + 1
    BY <2>1, ServerFields
  <2>3. w.up = Tail(wires[srv.c].up)
    BY <1>0 DEF Wires
  <2>4. frame \in InAir
    BY <1>0, FramesOfSeq DEF InAir
  <2> HIDE DEF w, frame, seen
  <2>5. InAir' \subseteq InAir
    BY <1>0, <2>1, <2>3, WireShrinks
  <2>6. SameClients
    BY <1>1 DEF HostAlone, SameClients
  <2> QED BY <1>1, <2>1, <2>2, <2>4, <2>5, <2>6 DEF Taken, HostAlone
<1> QED BY <1>2, <1>3

LEMMA ConsoleFrames ==
  ASSUME TypeInv, ConsoleStep \/ ConsoleDies \/ ConsoleStarts
  PROVE  Quiet \/ Taken
<1>0. /\ wires \in [Clients -> Wires(Flows)]
      /\ left \in [sessions : 0 .. MaxSessions, deaths : Nat, typed : Nat]
  BY DEF TypeInv, Carries, RestTyped
<1>1. CASE Serve \/ ConsoleStarts
  <2>1. HostAlone /\ wires' = wires
    BY <1>1 DEF Serve, ConsoleStarts, HostAlone, SameUsed
  <2>2. SameServer
    <3>1. \/ srv' = [srv EXCEPT !.at = "serve"]
          \/ srv' = [srv EXCEPT !.up = TRUE]
      BY <1>1 DEF Serve, ConsoleStarts
    <3>2. CASE srv' = [srv EXCEPT !.at = "serve"]
      BY <3>2, ServerFields DEF SameServer
    <3>3. CASE srv' = [srv EXCEPT !.up = TRUE]
      <4>1. srv \in SrvsOf(Flows)
        BY DEF TypeInv, Carries
      <4> QED BY <3>3, <4>1 DEF SameServer, SrvsOf
    <3> QED BY <3>1, <3>2, <3>3
  <2>3. InAir' \subseteq InAir
    BY <2>1, AirShrinks
  <2> QED BY <2>1, <2>2, <2>3, QuietMove
      DEF HostAlone, SameUsed, SameClients
<1>2. CASE TakeFrame
  BY <1>2, TakeFrames
<1>3. CASE HostGone
  BY <1>3, QuitsMove DEF HostGone, HostAlone, SameUsed
<1>4. CASE SendConn
  <2>1. HostAlone
    BY <1>4 DEF SendConn, HostAlone, SameUsed
  <2>2. SameServer
    BY <1>4, ServerFields DEF SendConn, SameServer
  <2>3. CASE wires' = wires
    <3>1. InAir' \subseteq InAir
      BY <2>3, AirShrinks
    <3> QED BY <2>1, <2>2, <3>1, QuietMove
        DEF HostAlone, SameUsed, SameClients
  <2>4. CASE wires' # wires
    <3> PICK key :
          wires' = IF srv.at = "serve" /\ wires[srv.c].conn = "open"
                   THEN [wires EXCEPT ![srv.c].down =
                           Append(@, [srv.out EXCEPT !.key = key])]
                   ELSE wires
      BY <1>4 DEF SendConn
    <3> DEFINE w == [wires[srv.c] EXCEPT
                       !.down = Append(@, [srv.out EXCEPT !.key = key])]
    <3>1. wires' = [wires EXCEPT ![srv.c] = w]
      BY <2>4
    <3>2. srv.c \in Clients => w.up = wires[srv.c].up
      BY <1>0 DEF Wires
    <3> HIDE DEF w
    <3>3. InAir' \subseteq InAir
      BY <3>1, <3>2, WireShrinks
    <3> QED BY <2>1, <2>2, <3>3, QuietMove
        DEF HostAlone, SameUsed, SameClients
  <2> QED BY <2>3, <2>4
<1>5. CASE ConsoleDies
  <2>1. HostAlone
    BY <1>0, <1>5 DEF ConsoleDies, HostAlone, SameUsed
  <2>2. srv'.key = 0
    BY <1>5 DEF ConsoleDies, FreshServer
  <2>3. ASSUME NEW c \in Clients
        PROVE  FramesOf(wires'[c].up) \subseteq FramesOf(wires[c].up)
    <3>1. wires'[c].up = <<>> \/ wires'[c].up = wires[c].up
      BY <1>5 DEF ConsoleDies
    <3>2. FramesOf(<<>>) = {}
      BY FramesOfSeq, EmptySeq
    <3> QED BY <3>1, <3>2
  <2>4. InAir' \subseteq InAir
    BY <2>3, AirShrinks
  <2> QED BY <2>1, <2>2, <2>4, QuietMove
      DEF HostAlone, SameUsed, SameClients
<1> QED BY <1>1, <1>2, <1>3, <1>4, <1>5 DEF ConsoleStep

LEMMA SayFrames ==
  ASSUME TypeInv, NEW type, NEW f, NEW grant, NEW voters, NEW typed,
         Say(type, f, grant, voters, typed)
  PROVE  Quiet
<1>1. left \in [sessions : 0 .. MaxSessions, deaths : Nat, typed : Nat]
  BY DEF TypeInv, RestTyped
<1>2. HostAlone /\ wires' = wires
  BY <1>1 DEF Say, HostAlone, SameUsed
<1>3. SameServer
  BY ServerFields DEF Say, SameServer
<1>4. InAir' \subseteq InAir
  BY <1>2, AirShrinks
<1> QED BY <1>2, <1>3, <1>4, QuietMove DEF HostAlone, SameUsed, SameClients

LEMMA DetachFrames ==
  ASSUME TypeInv, Detach
  PROVE  Quiet
<1>0. /\ clients \in [Clients -> ClientsOf(Flows)]
      /\ wires \in [Clients -> Wires(Flows)] /\ console \in Clients
  BY ConstantsTyped DEF TypeInv, Carries, RestTyped, Detach, NoClient, Clients
<1>1. SameClients
  <2> DEFINE r == [clients[console] EXCEPT !.stop = TRUE, !.writer = FALSE]
  <2>1. clients' = [clients EXCEPT ![console] = r]
    BY DEF Detach
  <2>2. r.key = clients[console].key /\ r.send = clients[console].send
    BY <1>0 DEF ClientsOf
  <2> HIDE DEF r
  <2> QED BY <1>0, <2>1, <2>2, ClientKept
<1>2. InAir' \subseteq InAir
  <2> DEFINE w == [wires[console] EXCEPT !.conn = "shut"]
  <2>1. wires' = wires \/ wires' = [wires EXCEPT ![console] = w]
    BY DEF Detach
  <2>2. w.up = wires[console].up
    BY <1>0 DEF Wires
  <2> HIDE DEF w
  <2> QED BY <2>1, <2>2, WireShrinks, AirShrinks
<1>3. UNCHANGED <<srv, post, lost, left>>
  BY DEF Detach
<1> QED BY <1>1, <1>2, <1>3, QuietMove DEF SameServer

LEMMA FrameMoves ==
  ASSUME TypeInv, [Next]_vars
  PROVE  Quiet \/ Numbered \/ Written \/ Opened \/ Taken
<1>1. ASSUME NEW f \in Flows, Ask(f) \/ CallStep(f)
      PROVE  Quiet \/ Numbered \/ Written
  BY <1>1, CallFrames
<1>2. ASSUME NEW c \in Clients, ClientStep(c) \/ Attach(c)
      PROVE  Quiet \/ Numbered \/ Written \/ Opened
  BY <1>2, ClientFrames
<1>3. CASE ConsoleStep \/ ConsoleDies \/ ConsoleStarts
  BY <1>3, ConsoleFrames
<1>4. ASSUME NEW f \in Flows, NEW grant \in BOOLEAN,
             Vote(f, grant) \/ TypeVote(f, grant)
      PROVE  Quiet
  BY <1>4, SayFrames DEF Vote, TypeVote
<1>5. CASE TypeKill
  BY <1>5, SayFrames DEF TypeKill
<1>6. CASE Detach
  BY <1>6, DetachFrames
<1>7. CASE UNCHANGED vars
  <2>1. InAir' \subseteq InAir
    BY <1>7, AirShrinks
  <2> QED BY <1>7, <2>1, QuietMove DEF SameClients, SameServer
<1> QED BY <1>1, <1>2, <1>3, <1>4, <1>5, <1>6, <1>7 DEF Next

LEMMA FrameInit == Init => FrameInv
<1> SUFFICES ASSUME Init PROVE FrameInv
  OBVIOUS
<1>0. TypeInv
  BY TypeInit
<1>1. \A c \in Clients : clients[c].key = 0 /\ wires[c].up = <<>>
  BY DEF Init, FreshClient
<1>2. InAir = {}
  <2>1. FramesOf(<<>>) = {}
    BY FramesOfSeq, EmptySeq
  <2> QED BY <1>1, <2>1 DEF InAir
<1>3. \A s \in Senders : post[s].key = 0
  BY FreshTyped DEF Init
<1>4. srv.key = 0 /\ lost = {}
  BY DEF Init, FreshServer
<1>5. Used \in Nat
  BY <1>0, FrameTypes
<1> QED BY <1>1, <1>2, <1>3, <1>4, <1>5
    DEF FrameInv, KeyInv, TagInv, SentInv, GapInv

(* The theorem behind NoFrameSkipped: on every behaviour, a serving        *)
(* console has taken no frame after one of its session that never reached  *)
(* it.  What was lost has a number, the client's counter has passed it,    *)
(* and the console takes a frame only as the next after the last it took   *)
(* (console.rs:292-303, 628-646).                                          *)
THEOREM SkipsNoFrame == Spec => []NoFrameSkipped
<1>1. Init => TypeInv /\ FrameInv
  BY TypeInit, FrameInit
<1>2. TypeInv /\ FrameInv /\ [Next]_vars => (TypeInv /\ FrameInv)'
  BY TypeStep, FrameMoves, QuietStep, NumberedStep, WrittenStep, OpenedStep,
     TakenStep
<1>3. TypeInv /\ FrameInv => NoFrameSkipped
  BY DEF TypeInv, SrvInv, FrameInv, GapInv, NoFrameSkipped
<1> QED BY <1>1, <1>2, <1>3, PTL DEF Spec
=============================================================================
