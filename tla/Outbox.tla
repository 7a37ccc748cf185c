------------------------------- MODULE Outbox -------------------------------
(***************************************************************************)
(* The external-action accounting service and the host's link to it        *)
(* (rust/src/outbox.rs, called by deliver_via_accounting in tools.rs).     *)
(*                                                                         *)
(* A delivery is a key (the request id) and a digest (what is sent, and to *)
(* whom).  The service keeps one receipt per key in an append-only ledger  *)
(* and one effect file per receipt; the host makes one call at a time and  *)
(* is told "ok", "unavailable" or "uncertain".                             *)
(*                                                                         *)
(* The frames of a session are authenticated and numbered on a connection  *)
(* that keeps their order, with one call outstanding, so between an honest *)
(* host and service those checks never fail and are left out.              *)
(***************************************************************************)
EXTENDS Naturals, Sequences, FiniteSets

CONSTANTS
  Keys, Digests,
  CutParts,                \* what a cut-off append leaves: "torn" or "bare"
  Refuses, DropsAcks,      \* values of --refuse and --drop-ack, in BOOLEAN
  MaxCalls,                \* bound: deliver calls
  MaxFaults,               \* bound: storage operations that fail
  MaxCrashes,              \* bound: crashes of the service
  MaxHosts                 \* bound: hosts, one after the other

ASSUME OutboxAssumption ==
  /\ CutParts \subseteq {"torn", "bare"}
  /\ Refuses \subseteq BOOLEAN /\ Refuses # {}
  /\ DropsAcks \subseteq BOOLEAN /\ DropsAcks # {}
  /\ {MaxCalls, MaxFaults, MaxCrashes, MaxHosts} \subseteq Nat

VARIABLES
  ledger,    \* outbox-receipts.jsonl: a sequence of pieces, as in Ledger
  files,     \* receipts, by their place in ledger, with an effect file
  up,        \* a service process is running
  receipts,  \* Store.receipts: the place of the record of each key, or 0
  refuse,    \* Store.refuse
  dropAck,   \* ServerInner.drop_ack
  session,   \* the handler's: "none", "open", or "half" once the host left
  work,      \* the delivery accept_delivery is storing, with its stage
  link,      \* "idle", "open", "stale" once the service left, or "failed"
  call,      \* the deliver call that waits for its reply
  request,   \* the deliver frame the handler has not read
  reply,     \* the status of the reply frame the host has not read
  told,      \* history: what callers were told of each pair
  calls, faults, crashes, hosts

service == <<ledger, files, up, receipts, refuse, dropAck, work>>
host    == <<link, call, told, calls, hosts>>
vars == <<ledger, files, up, receipts, refuse, dropAck, session, work, link,
          call, request, reply, told, calls, faults, crashes, hosts>>

Pairs    == Keys \X Digests
Outcomes == {"ok", "unavailable", "uncertain", "lost"}
Statuses == {"delivered", "duplicate", "refused", "uncertain"}
None     == <<>>
Silent   == "none"

-----------------------------------------------------------------------------
(* The ledger as load_receipts reads it: a line parses if it is one piece, *)
(* whole, or bare at the end of the file.                                  *)
Parses(i) ==
  /\ i > 1 => ledger[i - 1].part = "whole"
  /\ ledger[i].part = "whole" \/ (ledger[i].part = "bare" /\ i = Len(ledger))

Valid(i) ==
  Parses(i) /\ \A j \in 1..(i - 1) : ledger[j].pair[1] # ledger[i].pair[1]

Loadable == \A i \in DOMAIN ledger : Valid(i)

(* The lines load_receipts gets through before it returns.                 *)
Loaded == {i \in DOMAIN ledger : \A j \in 1..i : Valid(j)}

ReceiptsOf(is) ==
  [k \in Keys |-> IF \E i \in is : ledger[i].pair[1] = k
                  THEN CHOOSE i \in is : ledger[i].pair[1] = k ELSE 0]

Forgotten == [k \in Keys |-> 0]

-----------------------------------------------------------------------------
Init ==
  /\ ledger = <<>> /\ files = {} /\ up = FALSE /\ receipts = Forgotten
  /\ refuse = FALSE /\ dropAck = FALSE /\ session = "none" /\ work = None
  /\ link = "idle" /\ call = None /\ request = None /\ reply = Silent
  /\ told = [p \in Pairs |-> {}]
  /\ calls = 0 /\ faults = 0 /\ crashes = 0 /\ hosts = 1

-----------------------------------------------------------------------------
(* The host.  deliver holds the link's lock until it returns.              *)

Told(p, o) == told' = [told EXCEPT ![p] = @ \cup {o}]

(* The link thread opens a session; a service with one answers busy.       *)
OpenSession ==
  /\ link = "idle" /\ up /\ session = "none"
  /\ link' = "open" /\ session' = "open"
  /\ UNCHANGED <<service, call, request, reply, told, calls, faults, crashes,
                 hosts>>

(* The handler accepted the hello, but the link did not get hello_ok.      *)
OpenFails ==
  /\ link = "idle" /\ up /\ session = "none" /\ faults < MaxFaults
  /\ session' = "half" /\ faults' = faults + 1
  /\ UNCHANGED <<service, host, request, reply, crashes>>

DeliverUnreachable(p) ==
  /\ calls < MaxCalls /\ call = None /\ link \in {"idle", "failed"}
  /\ Told(p, "unavailable")
  /\ calls' = calls + 1
  /\ UNCHANGED <<service, session, link, call, request, reply, faults,
                 crashes, hosts>>

Deliver(p) ==
  /\ calls < MaxCalls /\ call = None /\ link \in {"open", "stale"}
  /\ call' = p
  /\ request' = IF link = "open" THEN p ELSE request
  /\ calls' = calls + 1
  /\ UNCHANGED <<service, session, link, reply, told, faults, crashes, hosts>>

Outcome(status) ==
  CASE status \in {"delivered", "duplicate"} -> "ok"
    [] status = "uncertain"                  -> "uncertain"
    [] OTHER                                 -> "unavailable"

DeliverReturns ==
  /\ call # None /\ reply # Silent
  /\ Told(call, Outcome(reply))
  /\ call' = None /\ reply' = Silent
  /\ UNCHANGED <<service, session, link, request, calls, faults, crashes,
                 hosts>>

HangUpUnseen ==  \* mutant: the handler keeps the session
  /\ session' = session /\ request' = request /\ reply' = Silent

(* The host's end of the connection goes away, with or without the frame   *)
(* it has sent.                                                            *)
HangUp ==
  /\ session' = IF session = "open" THEN "half" ELSE session
  /\ request' \in {request, IF session = "open" THEN None ELSE request}
  /\ reply' = Silent

DeliverTimesOutAsRefused ==  \* mutant: a lost reply is taken for a refusal
  /\ call # None
  /\ Told(call, "unavailable")
  /\ call' = None /\ link' = "failed" /\ HangUp
  /\ UNCHANGED <<service, calls, faults, crashes, hosts>>

(* Two seconds without a reply, or a connection that is gone: the link is  *)
(* failed for good.                                                        *)
DeliverTimesOut ==
  /\ call # None
  /\ Told(call, "uncertain")
  /\ call' = None /\ link' = "failed" /\ HangUp
  /\ UNCHANGED <<service, calls, faults, crashes, hosts>>

(* The connection breaks under both; the link sees it in its next call.    *)
ConnectionBreaks ==
  /\ session = "open" /\ faults < MaxFaults
  /\ session' = "half" /\ link' = "stale" /\ faults' = faults + 1
  /\ request' \in {request, None} /\ reply' \in {reply, Silent}
  /\ UNCHANGED <<service, call, told, calls, crashes, hosts>>

(* The host process ends, in a call or not, and another takes its place.   *)
HostRestarts ==
  /\ hosts < MaxHosts
  /\ IF call = None THEN UNCHANGED told ELSE Told(call, "lost")
  /\ call' = None /\ link' = "idle" /\ hosts' = hosts + 1 /\ HangUp
  /\ UNCHANGED <<service, calls, faults, crashes>>

-----------------------------------------------------------------------------
(* The service.  A reply to a host that left goes nowhere.                 *)

Answers(status) == reply' = IF session = "open" THEN status ELSE reply

Reads(p) == up /\ work = None /\ request # None /\ request = p

(* accept_delivery, receipt known: the key was used for something else.    *)
Conflict(p) ==
  /\ Reads(p) /\ receipts[p[1]] # 0 /\ ledger[receipts[p[1]]].pair # p
  /\ request' = None /\ Answers("refused")
  /\ UNCHANGED <<service, host, session, faults, crashes>>

KnownByKey(p) == receipts[p[1]] # 0  \* mutant: the digest is not compared

Known(p) == receipts[p[1]] # 0 /\ ledger[receipts[p[1]]].pair = p

(* ... or for this very delivery, whose effect file is made good.          *)
Duplicate(p) ==
  /\ Reads(p) /\ Known(p)
  /\ request' = None
  /\ files' = files \cup {receipts[p[1]]}
  /\ Answers("duplicate")
  /\ UNCHANGED <<ledger, up, receipts, refuse, dropAck, work, host, session,
                 faults, crashes>>

(* The file cannot be read, or not be written.                             *)
DuplicateFails(p) ==
  /\ Reads(p) /\ Known(p)
  /\ faults < MaxFaults /\ faults' = faults + 1
  /\ request' = None /\ refuse' = TRUE /\ Answers("uncertain")
  /\ UNCHANGED <<ledger, files, up, receipts, dropAck, work, host, session,
                 crashes>>

Refused(p) ==
  /\ Reads(p) /\ receipts[p[1]] = 0 /\ refuse
  /\ request' = None /\ Answers("refused")
  /\ UNCHANGED <<service, host, session, faults, crashes>>

AdmitWhileRefusing(p) ==  \* mutant: refuse is not looked at
  /\ Reads(p) /\ receipts[p[1]] = 0
  /\ request' = None /\ work' = [pair |-> p, stage |-> "append"]
  /\ UNCHANGED <<ledger, files, up, receipts, refuse, dropAck, host, session,
                 reply, faults, crashes>>

Admit(p) ==
  /\ Reads(p) /\ receipts[p[1]] = 0 /\ ~refuse
  /\ request' = None /\ work' = [pair |-> p, stage |-> "append"]
  /\ UNCHANGED <<ledger, files, up, receipts, refuse, dropAck, host, session,
                 reply, faults, crashes>>

(* append_ledger, in accept_delivery's store lock.                         *)
Appends(part) == ledger' = Append(ledger, [pair |-> work.pair, part |-> part])

At(stage) == work # None /\ work.stage = stage

AppendReceipt ==
  /\ At("append")
  /\ Appends("whole")
  /\ receipts' = [receipts EXCEPT ![work.pair[1]] = Len(ledger) + 1]
  /\ work' = [work EXCEPT !.stage = "file"]
  /\ UNCHANGED <<files, up, refuse, dropAck, host, session, request, reply,
                 faults, crashes>>

(* What a write that failed or was cut off leaves; "whole" is a sync_all   *)
(* that failed after it.                                                   *)
Leaves(part) == IF part = "none" THEN UNCHANGED ledger ELSE Appends(part)

Left == CutParts \cup {"none", "whole"}

(* The handler returns: the session ends and the host sees it close.       *)
Closes ==
  /\ session' = "none"
  /\ link' = IF link = "open" THEN "stale" ELSE link
  /\ request' = None

AppendFails(part) ==
  /\ At("append") /\ faults < MaxFaults
  /\ Leaves(part)
  /\ refuse' = TRUE /\ work' = None /\ faults' = faults + 1 /\ Closes
  /\ UNCHANGED <<files, up, receipts, dropAck, call, reply, told, calls,
                 hosts, crashes>>

(* write_delivered: a rename, so the file is there or it is not.           *)
WriteFile ==
  /\ At("file")
  /\ files' = files \cup {receipts[work.pair[1]]}
  /\ work' = None
  /\ IF dropAck THEN Closes /\ UNCHANGED reply
     ELSE Answers("delivered") /\ UNCHANGED <<session, link, request>>
  /\ UNCHANGED <<ledger, up, receipts, refuse, dropAck, call, told, calls,
                 hosts, faults, crashes>>

WriteFileFails ==
  /\ At("file") /\ faults < MaxFaults
  /\ refuse' = TRUE /\ work' = None /\ faults' = faults + 1
  /\ Answers("uncertain")
  /\ UNCHANGED <<ledger, files, up, receipts, dropAck, host, session,
                 request, crashes>>

HandlerEndsLeaks ==  \* mutant: active is cleared only if the store serves
  /\ session = "half" /\ request = None /\ work = None /\ ~refuse
  /\ session' = "none"
  /\ UNCHANGED <<service, host, request, reply, faults, crashes>>

(* The handler of a host that left finds the stream closed: active is      *)
(* cleared and the service takes the next host.                            *)
HandlerEnds ==
  /\ session = "half" /\ request = None /\ work = None
  /\ session' = "none"
  /\ UNCHANGED <<service, host, request, reply, faults, crashes>>

-----------------------------------------------------------------------------
(* The service process.  A crash in append_ledger leaves part of a record; *)
(* a reply already sent may still be read.                                 *)
Crash(part) ==
  /\ up /\ crashes < MaxCrashes
  /\ IF At("append") THEN Leaves(part) ELSE part = "none" /\ UNCHANGED ledger
  /\ up' = FALSE /\ receipts' = Forgotten /\ refuse' = FALSE
  /\ dropAck' = FALSE /\ work' = None /\ crashes' = crashes + 1 /\ Closes
  /\ reply' \in {reply, Silent}
  /\ UNCHANGED <<files, call, told, calls, hosts, faults>>

(* bind: load_receipts reads every line and writes the files that miss.    *)
Bind ==
  /\ ~up /\ Loadable
  /\ files' = files \cup Loaded
  /\ up' = TRUE /\ receipts' = ReceiptsOf(Loaded)
  /\ refuse' \in Refuses /\ dropAck' \in DropsAcks
  /\ UNCHANGED <<ledger, work, host, session, request, reply, faults,
                 crashes>>

(* ... or returns at the first line it cannot use, having written those    *)
(* before it, and the service does not start.                              *)
BindRefuses ==
  /\ ~up /\ ~Loadable
  /\ files' = files \cup Loaded
  /\ UNCHANGED <<ledger, up, receipts, refuse, dropAck, work, host, session,
                 request, reply, faults, crashes>>

BindFails(i) ==
  /\ ~up /\ i \in Loaded /\ faults < MaxFaults
  /\ files' = files \cup {j \in Loaded : j < i}
  /\ faults' = faults + 1
  /\ UNCHANGED <<ledger, up, receipts, refuse, dropAck, work, host, session,
                 request, reply, crashes>>

-----------------------------------------------------------------------------
Handle(p) ==
  Conflict(p) \/ Duplicate(p) \/ DuplicateFails(p) \/ Refused(p) \/ Admit(p)

ServiceStep ==
  \/ \E p \in Pairs : Handle(p)
  \/ AppendReceipt \/ WriteFile \/ WriteFileFails \/ HandlerEnds
  \/ \E part \in Left : AppendFails(part)

HostStep ==
  \/ OpenSession \/ OpenFails \/ DeliverReturns \/ DeliverTimesOut
  \/ HostRestarts \/ ConnectionBreaks
  \/ \E p \in Pairs : DeliverUnreachable(p) \/ Deliver(p)

Process ==
  \/ \E part \in CutParts \cup {"none"} : Crash(part)
  \/ Bind \/ BindRefuses \/ \E i \in DOMAIN ledger : BindFails(i)

Next == ServiceStep \/ HostStep \/ Process

Spec == Init /\ [][Next]_vars

(* The handler's thread runs while its process does.                       *)
FairSpec == Spec /\ WF_vars(ServiceStep)

-----------------------------------------------------------------------------
Piece == [pair : Pairs, part : CutParts \cup {"whole"}]

TypeOK ==
  /\ ledger \in Seq(Piece) /\ files \subseteq DOMAIN ledger
  /\ up \in BOOLEAN /\ refuse \in BOOLEAN /\ dropAck \in BOOLEAN
  /\ receipts \in [Keys -> {0} \cup DOMAIN ledger]
  /\ session \in {"none", "open", "half"}
  /\ work \in {None} \cup [pair : Pairs, stage : {"append", "file"}]
  /\ link \in {"idle", "open", "stale", "failed"}
  /\ session = "open" => link = "open"
  /\ call \in {None} \cup Pairs /\ request \in {None} \cup Pairs
  /\ reply \in {Silent} \cup Statuses
  /\ told \in [Pairs -> SUBSET Outcomes]

(* The ledger never holds two receipts of one key, whatever was appended   *)
(* by a process that failed or crashed in the middle and retried by        *)
(* another ("never double-delivers").                                      *)
OncePerKey ==
  \A i, j \in DOMAIN ledger :
    ledger[i].pair[1] = ledger[j].pair[1] => i = j

(* And a service that takes new deliveries has, between two of them, an    *)
(* effect file and a receipt in memory for every line of its ledger.       *)
ServedIsRecorded ==
  up /\ ~refuse /\ work = None =>
    /\ files = DOMAIN ledger
    /\ receipts = ReceiptsOf(DOMAIN ledger)

(* Both together: a retry finds the one receipt there is for its key, in   *)
(* memory as on disk, and the effect that belongs to it.                   *)
OneReceiptServed == OncePerKey /\ ServedIsRecorded

(* If all the host ever heard of a delivery is that it was unavailable,    *)
(* which the broker records as a failed effect, nothing of it is in the    *)
(* ledger, where a later restart would find it and deliver it.             *)
UnavailableIsNotDelivered ==
  \A p \in Pairs :
    told[p] = {"unavailable"} /\ call # p =>
      \A i \in DOMAIN ledger : ledger[i].pair # p

(* A host that is gone does not keep the service busy for the next one.    *)
FreesSession == session = "half" ~> session # "half"

Promise == INSTANCE ExactlyOnce
             WITH delivered <- {ledger[i].pair : i \in files}

(* Host and service together implement ExactlyOnce.                        *)
ImplementsExactlyOnce == Promise!Spec
=============================================================================
