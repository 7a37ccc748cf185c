---------------------------- MODULE RelayProofs ----------------------------
(***************************************************************************)
(* Theorems about Relay, for any number of records, crashes of either      *)
(* process, failed or cut-off appends, stalls and timeouts: the types; a   *)
(* store closes only for a cause of its own; what stop() reports drained   *)
(* is stored; and host and relay implement Mirror.                         *)
(***************************************************************************)
EXTENDS Relay, WellFoundedInduction, TLAPS

USE DEF vars, hostVars, clientVars, wireVars, storeVars, serverVars,
        NoFrame, InSession, Fault

Parts  == {"torn", "bare", "whole"}
Pieces == [rec : Records, part : Parts]
Frames == {NoFrame} \union [rec : Records, part : {"half", "full"}]
Lines  == Records \union {Garbage}

Typed ==
  /\ host \in {"up", "down", "refused"}
  /\ log \in Seq(Lines) /\ file \in Seq(Pieces)
  /\ emitted \in 0..MaxRecords
  /\ tail \in {"none", "begun", "bare", "joined"}
  /\ tail = "begun" => emitted # 0
  /\ cursor \in Nat /\ next \in Nat
  /\ wire \in Frames
  /\ {violation, aligned, up, compromised, cause} \subseteq BOOLEAN
  /\ pc \in {"idle", "wait", "tail", "send", "ack"}
  /\ stage \in {"no", "joining", "pass", "drained", "failed"}
  /\ answer \in {"none", "ack", "violation"}
  /\ conn \in {"none", "open", "left", "closing"}
  /\ ids \subseteq Records

Holds(r) == r \in ToSet(Stored)

(* The store of a relay that runs and does not refuse its host is what it  *)
(* remembers, and ends in no torn piece.                                   *)
StoreOK ==
  /\ \A i \in DOMAIN file :
       file[i].part = "torn" => i = Len(file) /\ (compromised \/ ~up)
  /\ up /\ ~compromised => ids = ToSet(Stored)
  /\ compromised => conn \notin {"open", "left"}
  /\ ~up => conn = "none"

(* A server out of step, and a file that does not load, have a cause.      *)
PoisonInv ==
  /\ compromised => cause
  /\ ~aligned => cause
  /\ ~cause => \A i \in DOMAIN file : file[i].part = "whole"

(* In a session every record before the next one is stored; what is on the *)
(* wire of an open connection, and what is acknowledged, is the next one.  *)
SessionOK ==
  /\ conn = "none" => wire = NoFrame
  /\ conn = "open" => pc \in InSession
  /\ pc \in InSession =>
       /\ conn \in {"open", "closing"}
       /\ cursor <= Len(log) /\ next \in 1..(cursor + 1)
       /\ pc = "tail" <=> next = cursor + 1
       /\ \A i \in 1..(next - 1) : Holds(log[i])
  /\ conn = "open" /\ wire # NoFrame => pc = "ack" /\ wire.rec = log[next]
  /\ answer # "none" => pc = "ack" /\ wire = NoFrame
  /\ answer = "ack" => Holds(log[next])

(* Nothing is emitted after stop(), whose last session reads all there is. *)
StopOK ==
  /\ stage # "no" => tail \notin {"begun", "joined"}
  /\ stage \in {"drained", "failed"} => pc = "idle"
  /\ stage = "pass" /\ pc \in {"send", "ack"} => cursor = Len(log)
  /\ stage = "drained" => \A i \in DOMAIN log : Holds(log[i])

RelayInv == Typed /\ StoreOK /\ PoisonInv /\ SessionOK /\ StopOK

LEMMA GarbageIsNone ==
  /\ MaxRecords \in Nat /\ Garbage \notin Records /\ Garbage = 0
  /\ \A r \in Records : r \in 1..MaxRecords
  /\ \A n \in 1..MaxRecords : n \in Records
BY RelayAssumption DEF Garbage, Records

-----------------------------------------------------------------------------
(* The store as a function of the file.                                    *)
Recs(f) ==
  LET torn == f # <<>> /\ f[Len(f)].part = "torn"
  IN  [i \in 1..(IF torn THEN Len(f) - 1 ELSE Len(f)) |-> f[i].rec]

LEMMA StoredIsRecs == Stored = Recs(file)
BY DEF Stored, Recs

LEMMA RecsTyped ==
  ASSUME NEW f \in Seq(Pieces)
  PROVE  /\ Recs(f) \in Seq(Records)
         /\ (\A i \in DOMAIN f : f[i].part # "torn") =>
              /\ Len(Recs(f)) = Len(f)
              /\ \A i \in 1..Len(f) : Recs(f)[i] = f[i].rec
<1>1. Len(f) \in Nat /\ DOMAIN f = 1..Len(f)
      /\ \A i \in DOMAIN f : f[i] \in Pieces
  OBVIOUS
<1> DEFINE torn == f # <<>> /\ f[Len(f)].part = "torn"
           n == IF torn THEN Len(f) - 1 ELSE Len(f)
<1>2. Recs(f) = [i \in 1..n |-> f[i].rec]
  BY DEF Recs
<1>0. n \in 0..Len(f) /\ (~torn => n = Len(f))
  <2>1. CASE torn
    <3>1. Len(f) # 0
      BY <1>1, <2>1
    <3>2. n = Len(f) - 1
      BY <2>1
    <3> HIDE DEF torn, n
    <3> QED BY <1>1, <2>1, <3>1, <3>2
  <2>2. CASE ~torn
    <3>1. n = Len(f)
      BY <2>2
    <3> HIDE DEF torn, n
    <3> QED BY <1>1, <2>2, <3>1
  <2> QED BY <2>1, <2>2
<1>7. n \in 0..Len(f)
  BY <1>0
<1> HIDE DEF n, torn
<1>6. n \in Nat /\ n <= Len(f)
  BY <1>1, <1>7
<1>3. ASSUME NEW i \in 1..n PROVE f[i].rec \in Records
  <2>1. f[i] \in Pieces
    BY <1>1, <1>6
  <2> QED BY <2>1 DEF Pieces
<1>4. Recs(f) \in Seq(Records) /\ Len(Recs(f)) = n
      /\ \A i \in 1..n : Recs(f)[i] = f[i].rec
  BY <1>2, <1>3, <1>6
<1>5. ASSUME \A i \in DOMAIN f : f[i].part # "torn"
      PROVE  n = Len(f)
  <2>1. f # <<>> => Len(f) \in DOMAIN f
    BY <1>1
  <2> QED BY <1>0, <1>5, <2>1 DEF torn
<1> QED BY <1>4, <1>5

(* A piece that is appended to a file that is not torn is one more record, *)
(* or none if it is torn itself.                                           *)
LEMMA RecsAppend ==
  ASSUME NEW f \in Seq(Pieces), \A i \in DOMAIN f : f[i].part # "torn",
         NEW r \in Records, NEW part \in Parts
  PROVE  LET g == Append(f, [rec |-> r, part |-> part])
         IN  /\ g \in Seq(Pieces)
             /\ Recs(g) = IF part = "torn" THEN Recs(f)
                          ELSE Append(Recs(f), r)
<1> DEFINE p == [rec |-> r, part |-> part]
           g == Append(f, p)
<1>1. p \in Pieces /\ p.rec = r /\ p.part = part
  BY DEF Pieces
<1> HIDE DEF p
<1>2. /\ g \in Seq(Pieces) /\ Len(g) = Len(f) + 1 /\ g[Len(f) + 1] = p
      /\ \A i \in 1..Len(f) : g[i] = f[i]
      /\ Len(f) \in Nat /\ g # <<>>
  BY <1>1
<1> HIDE DEF g
<1>3. Recs(f) \in Seq(Records) /\ Len(Recs(f)) = Len(f)
      /\ \A i \in 1..Len(f) : Recs(f)[i] = f[i].rec
  BY RecsTyped
<1>4. CASE part = "torn"
  <2>1. Recs(g) = [i \in 1..(Len(g) - 1) |-> g[i].rec]
    BY <1>1, <1>2, <1>4 DEF Recs
  <2>2. Recs(g) = [i \in 1..Len(f) |-> g[i].rec]
    BY <1>2, <2>1
  <2>3. Recs(f) = Recs(g)
    BY <1>2, <1>3, <2>2
  <2> QED BY <1>2, <1>4, <2>2, <2>3 DEF g, p
<1>5. CASE part # "torn"
  <2>1. Recs(g) = [i \in 1..Len(g) |-> g[i].rec]
    BY <1>1, <1>2, <1>5, Zenon DEF Recs
  <2>2. /\ Append(Recs(f), r) \in Seq(Records)
        /\ Len(Append(Recs(f), r)) = Len(f) + 1
        /\ \A i \in 1..Len(f) : Append(Recs(f), r)[i] = f[i].rec
        /\ Append(Recs(f), r)[Len(f) + 1] = r
    BY <1>3
  <2>3. /\ Recs(g) \in Seq(Records) /\ Len(Recs(g)) = Len(f) + 1
        /\ \A i \in 1..Len(f) : Recs(g)[i] = f[i].rec
        /\ Recs(g)[Len(f) + 1] = r
    BY <1>1, <1>2, <2>1, RecsTyped
  <2>4. Recs(g) = Append(Recs(f), r)
    BY <1>2, <2>2, <2>3
  <2> QED BY <1>2, <1>5, <2>4 DEF g, p
<1> QED BY <1>4, <1>5


-----------------------------------------------------------------------------
(* A frame that arrived meets a store that serves, whose file is not torn. *)
LEMMA ArrivedServes ==
  ASSUME Typed, StoreOK, Arrived
  PROVE  /\ up /\ ~compromised /\ wire.rec \in Records /\ wire # NoFrame
         /\ \A i \in DOMAIN file : file[i].part # "torn"
         /\ ids = ToSet(Stored)
<1>1. up /\ ~compromised /\ wire.part = "full"
  BY DEF Arrived, StoreOK
<1>2. wire.rec \in Records
  BY <1>1 DEF Typed, Frames
<1> QED BY <1>1, <1>2 DEF StoreOK

LEMMA PieceStored ==
  ASSUME Typed, StoreOK, Arrived, NEW part \in Parts, file' = Piece(part)
  PROVE  /\ file' \in Seq(Pieces)
         /\ Stored' = IF part = "torn" THEN Stored ELSE Append(Stored, wire.rec)
<1> PICK r \in Records : r = wire.rec
  BY ArrivedServes
<1>1. file' = Append(file, [rec |-> r, part |-> part])
  BY DEF Piece
<1>2. /\ file' \in Seq(Pieces)
      /\ Recs(file') = IF part = "torn" THEN Recs(file)
                       ELSE Append(Recs(file), r)
  BY <1>1, ArrivedServes, RecsAppend DEF Typed
<1>3. Stored = Recs(file) /\ Stored' = Recs(file')
  BY DEF Stored, Recs
<1> QED BY <1>2, <1>3

LEMMA StoredTyped ==
  ASSUME Typed
  PROVE  Stored \in Seq(Records) /\ \A r : Holds(r) => r \in Records
<1>1. Stored \in Seq(Records)
  BY StoredIsRecs, RecsTyped DEF Typed
<1> QED BY <1>1 DEF Holds, ToSet

(* The steps that write the file: one more piece, of a new record.         *)
Appends(part) == part \in Parts /\ Arrived /\ ~Known /\ file' = Piece(part)

LEMMA FileWrites ==
  ASSUME [Next]_vars
  PROVE  \/ file' = file
         \/ Ingest /\ Appends("whole")
         \/ \E part \in CutParts : (IngestFails \/ RelayDies) /\ Appends(part)
<1> USE RelayAssumption DEF Appends, Parts
<1>1. CASE Ingest
  BY <1>1 DEF Ingest
<1>2. CASE IngestFails
  BY <1>2 DEF IngestFails, Cuts
<1>3. CASE RelayDies
  BY <1>3 DEF RelayDies, Cuts
<1>4. CASE Host \/ Client \/ RelayRestart \/ UNCHANGED vars
  BY <1>4 DEF Host, BeginEmit, EndEmit, HostDies, HostRestart, Client, Connect,
     CannotConnect, TimesOut, TailOnce, Send, SendRest, SendGarbage, ReadAck,
     ReadViolation, Stop, Join, RelayRestart
<1>5. CASE \/ Accept \/ IngestDuplicate \/ LosesPlace \/ ReadsGarbage
           \/ ReadsClosed \/ IdleClose \/ Closed
  BY <1>5 DEF Accept, IngestDuplicate, LosesPlace, ReadsGarbage, ReadsClosed,
     IdleClose, Closed
<1> QED BY <1>1, <1>2, <1>3, <1>4, <1>5 DEF Next, Server

(* What is stored stays stored; one record at most is stored by a step.    *)
LEMMA StoreGrows ==
  ASSUME Typed, StoreOK, [Next]_vars
  PROVE  /\ file' \in Seq(Pieces)
         /\ \/ Stored' = Stored
            \/ /\ Ingest \/ IngestFails \/ RelayDies
               /\ Arrived /\ ~Known /\ Stored' = Append(Stored, wire.rec)
         /\ \A r : Holds(r) => Holds(r)'
<1>1. CASE file' = file
  BY <1>1 DEF Typed, Holds, Stored
<1>2. ASSUME NEW part \in Parts, Appends(part),
             Ingest \/ IngestFails \/ RelayDies
      PROVE  /\ file' \in Seq(Pieces)
             /\ \/ Stored' = Stored
                \/ /\ Ingest \/ IngestFails \/ RelayDies
                   /\ Arrived /\ ~Known /\ Stored' = Append(Stored, wire.rec)
             /\ \A r : Holds(r) => Holds(r)'
  <2>1. /\ file' \in Seq(Pieces) /\ Stored \in Seq(Records)
        /\ Stored' = IF part = "torn" THEN Stored ELSE Append(Stored, wire.rec)
    BY <1>2, PieceStored, StoredTyped DEF Appends
  <2>2. CASE part = "torn"
    BY <2>1, <2>2 DEF Holds, ToSet
  <2>3. CASE part # "torn"
    <3>1. Stored' = Append(Stored, wire.rec) /\ wire.rec \in Records
      BY <1>2, <2>1, <2>3, ArrivedServes DEF Appends
    <3>2. PICK s \in Seq(Records), q \in Seq(Records), r0 \in Records :
            s = Stored /\ q = Stored' /\ q = Append(s, r0)
      BY <2>1, <3>1
    <3>3. \A r : r \in ToSet(s) => r \in ToSet(q)
      BY <3>2 DEF ToSet
    <3> QED BY <1>2, <2>1, <3>1, <3>2, <3>3 DEF Holds, Appends
  <2> QED BY <2>2, <2>3
<1>3. /\ "whole" \in Parts /\ CutParts \subseteq Parts
  BY RelayAssumption DEF Parts
<1> QED BY <1>1, <1>2, <1>3, FileWrites


-----------------------------------------------------------------------------
(* The line that is sent next is there.                                    *)
LEMMA NextIsThere ==
  ASSUME Typed, SessionOK, pc \in {"send", "ack"}
  PROVE  next \in DOMAIN log /\ next \in 1..cursor /\ cursor <= Len(log)
BY DEF Typed, SessionOK

LEMMA TypedInit == Init => Typed
<1> SUFFICES ASSUME Init PROVE Typed
  OBVIOUS
<1>1. /\ log \in Seq(Lines) /\ file \in Seq(Pieces) /\ wire \in Frames
      /\ emitted \in 0..MaxRecords
  BY GarbageIsNone DEF Init, Frames
<1> QED BY <1>1 DEF Init, Typed

LEMMA TypedStep ==
  ASSUME RelayInv, [Next]_vars
  PROVE  Typed'
<1>0. /\ Typed /\ SessionOK /\ StoreOK /\ file' \in Seq(Pieces)
      /\ log \in Seq(Lines) /\ Len(log) \in Nat
  BY StoreGrows DEF RelayInv, Typed
<1>1. CASE Host
  <2>1. ASSUME log' \in Seq(Lines), emitted' \in 0..MaxRecords,
               tail' \in {"none", "begun", "bare", "joined"},
               tail' = "begun" => emitted' # 0
        PROVE  Typed'
    <3>1. /\ host' \in {"up", "down", "refused"}
          /\ UNCHANGED <<wire, aligned, up, storeVars>>
      BY <1>0, <1>1 DEF Typed, Host, BeginEmit, EndEmit, HostDies, HostRestart
    <3>2. \/ UNCHANGED <<clientVars, answer, conn>>
          \/ /\ pc' = "idle" /\ cursor' = 0 /\ next' = 1
             /\ violation' = FALSE /\ stage' = "no" /\ answer' = "none"
             /\ conn' \in {conn, "left"}
      BY <1>1 DEF Host, BeginEmit, EndEmit, HostDies, HostRestart, Leaves
    <3>3. /\ pc' \in {"idle", pc} /\ stage' \in {"no", stage}
          /\ answer' \in {"none", answer} /\ conn' \in {conn, "left"}
          /\ violation' \in BOOLEAN
      BY <1>0, <3>2 DEF Typed
    <3>4. cursor' \in Nat /\ next' \in Nat
      BY <1>0, <3>2 DEF Typed
    <3>5. /\ wire' \in Frames /\ ids' \subseteq Records
          /\ {aligned, up, compromised, cause}' \subseteq BOOLEAN
      BY <1>0, <3>1 DEF Typed
    <3> QED BY <1>0, <2>1, <3>1, <3>3, <3>4, <3>5 DEF Typed
  <2>2. CASE BeginEmit
    <3>1. /\ log' = log /\ emitted' = emitted + 1 /\ emitted < MaxRecords
          /\ tail' \in {"begun", "joined"}
      BY <2>2 DEF BeginEmit
    <3>2. emitted \in 0..MaxRecords
      BY <1>0 DEF Typed
    <3>3. emitted' \in 0..MaxRecords /\ emitted' # 0
      BY <3>1, <3>2, GarbageIsNone
    <3> QED BY <1>0, <2>1, <3>1, <3>3
  <2>3. CASE EndEmit
    <3>1. emitted \in 0..MaxRecords /\ (tail = "begun" => emitted # 0)
      BY <1>0 DEF Typed
    <3>2. Garbage \in Lines /\ (tail = "begun" => emitted \in Lines)
      BY <3>1, GarbageIsNone DEF Lines
    <3>3. /\ tail' = "none" /\ emitted' = emitted
          /\ \/ tail = "begun" /\ log' = Append(log, emitted)
             \/ log' = Append(log, Garbage)
      BY <2>3 DEF EndEmit
    <3>4. log' \in Seq(Lines)
      BY <1>0, <3>2, <3>3
    <3> QED BY <2>1, <3>1, <3>3, <3>4
  <2>4. CASE HostDies
    <3>1. \A n \in 0..Len(log) : SubSeq(log, 1, n) \in Seq(Lines)
      BY <1>0
    <3>2. log' \in Seq(Lines) /\ emitted' = emitted
      BY <1>0, <2>4, <3>1 DEF HostDies
    <3>3. tail' \in {"none", "bare", tail}
      BY <2>4 DEF HostDies
    <3> QED BY <1>0, <2>1, <3>2, <3>3 DEF Typed
  <2>5. CASE HostRestart
    BY <1>0, <2>1, <2>5 DEF HostRestart, Typed
  <2> QED BY <1>1, <2>2, <2>3, <2>4, <2>5 DEF Host
<1>2. CASE Client
  <2>1. CASE Connect \/ CannotConnect \/ TimesOut \/ Stop \/ Join
    BY <1>0, <2>1 DEF Typed, Connect, CannotConnect, TimesOut, SessionFails,
       SessionEnds, Leaves, Stop, Join
  <2>2. CASE TailOnce \/ ReadAck
    <3>1. UNCHANGED <<host, log, file, emitted, tail, wire, violation, aligned,
                      up, compromised, cause, ids>>
      BY <2>2 DEF TailOnce, ReadAck
    <3>2. cursor' \in Nat /\ next' \in Nat
      BY <1>0, <2>2 DEF Typed, TailOnce, ReadAck
    <3>3. /\ pc' \in {"idle", "tail", "send"} /\ answer' \in {answer, "none"}
          /\ conn' \in {conn, "left"} /\ stage' \in {stage, "drained"}
      BY <2>2 DEF TailOnce, ReadAck, BatchDone, SessionEnds, Leaves
    <3> QED BY <1>0, <3>1, <3>2, <3>3 DEF Typed
  <2>3. CASE Send
    <3>1. wire' \in Frames
      BY <1>0, <2>3, NextIsThere DEF Send, Frames, Lines, Typed
    <3> QED BY <1>0, <2>3, <3>1 DEF Typed, Send
  <2>4. CASE SendRest
    <3>1. wire \in [rec : Records, part : {"half", "full"}]
      BY <1>0, <2>4 DEF SendRest, Typed, Frames
    <3>2. wire' \in Frames
      BY <2>4, <3>1 DEF SendRest, Frames
    <3> QED BY <1>0, <2>4, <3>2 DEF Typed, SendRest
  <2>5. CASE SendGarbage \/ ReadViolation
    BY <1>0, <2>5 DEF Typed, SendGarbage, ReadViolation, SessionFails,
       SessionEnds, Leaves
  <2> QED BY <1>2, <2>1, <2>2, <2>3, <2>4, <2>5 DEF Client
<1>3. CASE Server
  <2>1. ids' \subseteq Records /\ wire' \in Frames
    <3>1. CASE Ingest \/ IngestFails
      <4>1. ids' = ids \union {wire.rec} /\ wire' = NoFrame
        BY <3>1 DEF Ingest, IngestFails, Violate
      <4>2. wire.rec \in Records
        BY <1>0, <3>1, ArrivedServes DEF Ingest, IngestFails
      <4> QED BY <1>0, <4>1, <4>2 DEF Typed, Frames
    <3>2. CASE ~(Ingest \/ IngestFails)
      BY <1>0, <1>3, <3>2 DEF Server, Accept, IngestDuplicate, LosesPlace,
         ReadsGarbage, Violate, ReadsClosed, IdleClose, Closed, Frames, Typed
    <3> QED BY <3>1, <3>2
  <2>2. UNCHANGED <<host, log, emitted, tail, up>>
    BY <1>3 DEF Server, Accept, IngestDuplicate, LosesPlace, Ingest,
       IngestFails, ReadsGarbage, ReadsClosed, IdleClose, Closed
  <2>3. CASE Accept
    BY <1>0, <2>1, <2>3 DEF Accept, SessionFails, SessionEnds, Typed
  <2>4. CASE IngestDuplicate \/ Ingest \/ LosesPlace \/ ReadsClosed \/ IdleClose
    BY <1>0, <2>1, <2>4 DEF IngestDuplicate, Ingest, LosesPlace, ReadsClosed,
       IdleClose, Answer, Typed
  <2>5. CASE IngestFails \/ ReadsGarbage
    BY <1>0, <2>1, <2>5 DEF IngestFails, ReadsGarbage, Violate, Answer, Typed
  <2>6. CASE Closed
    BY <1>0, <2>1, <2>6 DEF Closed, Dropped, SessionFails, SessionEnds, Typed
  <2> QED BY <1>3, <2>3, <2>4, <2>5, <2>6 DEF Server
<1>4. CASE RelayDies
  <2>1. cause' \in BOOLEAN
    BY <1>0, <1>4 DEF RelayDies, Typed
  <2>2. /\ pc' \in {pc, "idle"} /\ violation' \in BOOLEAN
        /\ stage' \in {stage, "failed"}
    BY <1>0, <1>4 DEF RelayDies, SessionFails, SessionEnds, Typed
  <2>3. UNCHANGED <<host, log, tail, emitted, cursor, next, aligned>>
        /\ up' = FALSE /\ conn' = "none" /\ wire' = NoFrame
        /\ answer' = "none" /\ ids' = {} /\ compromised' = FALSE
    BY <1>4 DEF RelayDies
  <2> QED BY <1>0, <2>1, <2>2, <2>3 DEF Typed, Frames
<1>5. CASE RelayRestart
  <2>1. compromised' \in BOOLEAN /\ ids' \subseteq Records
    BY <1>0, <1>5, StoredTyped DEF RelayRestart, ToSet
  <2> QED BY <1>0, <1>5, <2>1 DEF RelayRestart, Typed
<1>6. CASE UNCHANGED vars
  BY <1>0, <1>6 DEF Typed
<1> QED BY <1>1, <1>2, <1>3, <1>4, <1>5, <1>6 DEF Next

-----------------------------------------------------------------------------
(* Only the piece that was just appended can be torn, or less than whole.  *)
LEMMA PieceLast ==
  ASSUME Typed, StoreOK, NEW part \in Parts, Appends(part)
  PROVE  /\ \A i \in DOMAIN file' : file'[i].part = "torn" => i = Len(file')
         /\ part # "torn" => \A i \in DOMAIN file' : file'[i].part # "torn"
         /\ part = "whole" /\ (\A i \in DOMAIN file : file[i].part = "whole")
              => \A i \in DOMAIN file' : file'[i].part = "whole"
<1> DEFINE p == [rec |-> wire.rec, part |-> part]
<1>1. /\ file \in Seq(Pieces) /\ p \in Pieces /\ file' = Append(file, p)
      /\ \A i \in DOMAIN file : file[i].part # "torn"
  BY ArrivedServes DEF Appends, Piece, Typed, Pieces
<1>2. p.part = part
  OBVIOUS
<1> HIDE DEF p
<1>3. /\ Len(file') = Len(file) + 1 /\ Len(file) \in Nat
      /\ DOMAIN file = 1..Len(file) /\ DOMAIN file' = 1..(Len(file) + 1)
      /\ \A i \in 1..Len(file) : file'[i] = file[i]
      /\ file'[Len(file) + 1] = p
  BY <1>1
<1>4. \A i \in DOMAIN file' : i \in DOMAIN file \/ i = Len(file')
  BY <1>3
<1> QED BY <1>1, <1>2, <1>3, <1>4

LEMMA StoreStep ==
  ASSUME RelayInv, [Next]_vars
  PROVE  StoreOK'
<1>0. Typed /\ StoreOK /\ SessionOK
  BY DEF RelayInv
<1>1. ASSUME UNCHANGED <<up, ids, compromised, file>>,
             \/ conn' = conn
             \/ conn' \in {"none", "closing"} /\ up
             \/ conn = "open" /\ conn' = "left"
             \/ conn' = "open" /\ up /\ ~compromised
      PROVE  StoreOK'
  BY <1>0, <1>1 DEF StoreOK, Stored
<1>2. CASE Host \/ Client
  BY <1>1, <1>2 DEF Host, BeginEmit, EndEmit, HostDies, HostRestart, Client,
     Connect, CannotConnect, TimesOut, TailOnce, Send, SendRest, SendGarbage,
     ReadAck, ReadViolation, Stop, Join, BatchDone, Leaves
<1>3. CASE \/ Accept \/ IngestDuplicate \/ LosesPlace \/ ReadsClosed
           \/ IdleClose \/ Closed
  <2>1. CASE Accept
    BY <1>1, <2>1 DEF Accept
  <2>2. CASE IngestDuplicate \/ LosesPlace
    BY <1>1, <2>2 DEF IngestDuplicate, LosesPlace
  <2>3. CASE ReadsClosed \/ IdleClose \/ Closed
    BY <1>1, <2>3 DEF ReadsClosed, IdleClose, Closed
  <2> QED BY <1>3, <2>1, <2>2, <2>3
<1>4. CASE Ingest
  <2>1. /\ Appends("whole") /\ "whole" \in Parts
        /\ up' = up /\ compromised' = compromised /\ conn' = conn
        /\ ids' = ids \union {wire.rec}
    BY <1>4 DEF Ingest, Appends, Parts
  <2>2. /\ Stored' = Append(Stored, wire.rec) /\ ids = ToSet(Stored)
        /\ Stored \in Seq(Records) /\ wire.rec \in Records
    BY <1>0, <2>1, ArrivedServes, PieceStored, StoredTyped DEF Appends
  <2>3. \A s \in Seq(Records), r \in Records :
          ToSet(Append(s, r)) = ToSet(s) \union {r}
    BY DEF ToSet
  <2>4. ids' = ToSet(Stored)'
    <3>1. PICK s \in Seq(Records), r0 \in Records :
            s = Stored /\ r0 = wire.rec
      BY <2>2
    <3> QED BY <2>1, <2>2, <2>3, <3>1
  <2>5. \A i \in DOMAIN file' : file'[i].part # "torn"
    BY <1>0, <2>1, PieceLast
  <2> QED BY <1>0, <2>1, <2>4, <2>5 DEF StoreOK
<1>5. ASSUME \A i \in DOMAIN file' : file'[i].part = "torn" => i = Len(file'),
             \/ compromised' /\ conn' \notin {"open", "left"} /\ up'
             \/ ~up' /\ ~compromised' /\ conn' = "none"
      PROVE  StoreOK'
  BY <1>5 DEF StoreOK
<1>6. CASE IngestFails \/ RelayDies
  <2>1. \A i \in DOMAIN file' : file'[i].part = "torn" => i = Len(file')
    <3>1. \/ file' = file
          \/ \E part \in Parts : Appends(part)
      BY <1>6, FileWrites, RelayAssumption DEF Parts, Appends
    <3> QED BY <1>0, <3>1, PieceLast DEF StoreOK
  <2>2. CASE IngestFails
    BY <1>5, <2>1, <2>2 DEF IngestFails, Violate, Arrived
  <2>3. CASE RelayDies
    BY <1>5, <2>1, <2>3 DEF RelayDies
  <2> QED BY <1>6, <2>2, <2>3
<1>7. CASE ReadsGarbage
  BY <1>0, <1>5, <1>7 DEF ReadsGarbage, Violate, StoreOK
<1>8. CASE RelayRestart
  <2>1. /\ file' = file /\ up' /\ conn' = conn /\ conn = "none"
        /\ compromised' = ~Loadable
        /\ Loadable => ids' = ToSet(Stored)
    BY <1>0, <1>8 DEF RelayRestart, StoreOK
  <2>2. Loadable => \A i \in DOMAIN file : file[i].part # "torn"
    BY DEF Loadable
  <2> QED BY <1>0, <2>1, <2>2 DEF StoreOK, Stored
<1>9. CASE UNCHANGED vars
  BY <1>1, <1>9
<1> QED BY <1>2, <1>3, <1>4, <1>6, <1>7, <1>8, <1>9 DEF Next, Server

-----------------------------------------------------------------------------
LEMMA PoisonStep ==
  ASSUME RelayInv, [Next]_vars
  PROVE  PoisonInv'
<1>0. Typed /\ StoreOK /\ PoisonInv
  BY DEF RelayInv
<1>1. ASSUME cause' = cause, file' = file, aligned => aligned',
             compromised' => compromised \/ ~aligned
      PROVE  PoisonInv'
  BY <1>0, <1>1 DEF PoisonInv
<1>2. CASE Host \/ Client \/ UNCHANGED vars
  <2>1. UNCHANGED <<cause, file, aligned, compromised>>
    BY <1>2 DEF Host, BeginEmit, EndEmit, HostDies, HostRestart, Client,
       Connect, CannotConnect, TimesOut, TailOnce, Send, SendRest,
       SendGarbage, ReadAck, ReadViolation, Stop, Join
  <2> QED BY <1>1, <2>1
<1>3. CASE \/ Accept \/ IngestDuplicate \/ ReadsGarbage \/ ReadsClosed
           \/ IdleClose \/ Closed
  <2>1. CASE Accept \/ IngestDuplicate
    <3>1. /\ UNCHANGED <<cause, file, compromised>>
          /\ aligned' = TRUE \/ aligned' = aligned
      BY <2>1 DEF Accept, IngestDuplicate
    <3> QED BY <1>1, <3>1
  <2>2. CASE ReadsGarbage
    BY <1>1, <2>2 DEF ReadsGarbage, Violate
  <2>3. CASE ReadsClosed \/ IdleClose \/ Closed
    <3>1. UNCHANGED <<cause, file, aligned, compromised>>
      BY <2>3 DEF ReadsClosed, IdleClose, Closed
    <3> QED BY <1>1, <3>1
  <2> QED BY <1>3, <2>1, <2>2, <2>3
<1>4. CASE Ingest
  <2>1. /\ Appends("whole") /\ "whole" \in Parts
        /\ UNCHANGED <<compromised, aligned, cause>>
    BY <1>4 DEF Ingest, Appends, Parts
  <2> QED BY <1>0, <2>1, PieceLast DEF PoisonInv
<1>5. CASE IngestFails \/ LosesPlace
  BY <1>0, <1>5 DEF IngestFails, LosesPlace, PoisonInv
<1>6. CASE RelayDies
  BY <1>0, <1>6 DEF RelayDies, PoisonInv
<1>7. CASE RelayRestart
  <2>1. /\ UNCHANGED <<file, aligned, cause>> /\ compromised' = ~Loadable
    BY <1>7 DEF RelayRestart
  <2>2. (\A i \in DOMAIN file : file[i].part = "whole") => Loadable
    BY DEF Loadable
  <2> QED BY <1>0, <2>1, <2>2 DEF PoisonInv
<1> QED BY <1>2, <1>3, <1>4, <1>5, <1>6, <1>7 DEF Next, Server

-----------------------------------------------------------------------------
LEMMA SessionStep ==
  ASSUME RelayInv, [Next]_vars
  PROVE  SessionOK'
<1>0. /\ Typed /\ StoreOK /\ SessionOK
      /\ log \in Seq(Lines) /\ Len(log) \in Nat
      /\ cursor \in Nat /\ next \in Nat
  BY DEF RelayInv, Typed
<1>S. \A r : r \in ToSet(Stored) => r \in ToSet(Stored)'
  BY <1>0, StoreGrows DEF Holds
<1>1. ASSUME pc' \notin InSession, conn' # "open", answer' = "none",
             conn' = "none" => wire' = NoFrame
      PROVE  SessionOK'
  BY <1>1 DEF SessionOK
<1>2. ASSUME UNCHANGED <<pc, cursor, next>>, pc \in InSession,
             Len(log) <= Len(log'),
             \A i \in 1..Len(log) : log'[i] = log[i],
             conn' \in {"open", "closing"},
             wire' # NoFrame =>
               \/ conn' = "closing"
               \/ /\ wire # NoFrame /\ wire'.rec = wire.rec
                  /\ conn' = "open" /\ conn = "open",
             answer' # "none" => pc = "ack" /\ wire' = NoFrame,
             answer' = "ack" => log[next] \in ToSet(Stored)'
      PROVE  SessionOK'
  <2>1. /\ cursor <= Len(log) /\ next \in 1..(cursor + 1)
        /\ pc = "tail" <=> next = cursor + 1
        /\ \A i \in 1..(next - 1) : log[i] \in ToSet(Stored)
    BY <1>0, <1>2 DEF SessionOK, Holds
  <2>2. /\ cursor' <= Len(log') /\ next' \in 1..(cursor' + 1)
        /\ pc' = "tail" <=> next' = cursor' + 1
        /\ \A i \in 1..(next' - 1) : log'[i] \in ToSet(Stored)'
    <3>1. Len(log') \in Nat
      BY <1>0, StoreGrows, TypedStep DEF Typed
    <3>2. /\ cursor <= Len(log') /\ \A i \in 1..(next - 1) : i \in 1..Len(log)
      BY <1>0, <1>2, <2>1, <3>1
    <3> QED BY <1>S, <1>2, <2>1, <3>2
  <2>3. pc = "ack" => log'[next] = log[next]
    BY <1>0, <1>2, <2>1
  <2>4. conn' = "open" /\ wire' # NoFrame =>
          pc' = "ack" /\ wire'.rec = log'[next']
    BY <1>0, <1>2, <2>3 DEF SessionOK
  <2>5. answer' = "ack" => log'[next'] \in ToSet(Stored)'
    BY <1>2, <2>3
  <2> QED BY <1>2, <2>2, <2>4, <2>5 DEF SessionOK, Holds
(* What answers, and what is on the wire, of a client out of its session.  *)
<1>3. /\ pc \notin InSession => conn # "open" /\ answer = "none"
      /\ conn = "none" => wire = NoFrame
      /\ pc # "ack" => answer = "none"
      /\ conn \in {"none", "left"} => pc \notin InSession
      /\ conn = "open" => pc \in InSession
      /\ conn = "open" /\ wire # NoFrame => pc = "ack" /\ wire.rec = log[next]
      /\ answer # "none" => wire = NoFrame
      /\ conn \in {"none", "open", "left", "closing"}
  BY <1>0 DEF SessionOK, Typed
(* Steps that leave the session where it is, or out of it.                 *)
<1>4. ASSUME cursor' = cursor, next' = next, wire' = wire, answer' = answer,
             pc' = pc \/ (pc \notin InSession /\ pc' \notin InSession),
             conn' = conn \/ (conn = "open" /\ conn' = "closing"),
             log' = log \/ \E x \in Lines : log' = Append(log, x)
      PROVE  SessionOK'
  <2>1. /\ Len(log) <= Len(log')
        /\ \A i \in 1..Len(log) : log'[i] = log[i]
    BY <1>0, <1>4
  <2>2. CASE pc \notin InSession
    BY <1>1, <1>3, <1>4, <2>2
  <2>3. CASE pc \in InSession
    <3>1. conn \in {"open", "closing"}
      BY <1>0, <2>3 DEF SessionOK
    <3>2. answer' = "ack" => log[next] \in ToSet(Stored)'
      BY <1>0, <1>S, <1>4 DEF SessionOK, Holds
    <3>3. answer' # "none" => pc = "ack" /\ wire' = NoFrame
      BY <1>0, <1>4 DEF SessionOK
    <3>4. /\ conn' \in {"open", "closing"} /\ pc' = pc
          /\ UNCHANGED <<cursor, next>>
      BY <1>4, <2>3, <3>1
    <3>5. wire' # NoFrame =>
            \/ conn' = "closing"
            \/ /\ wire # NoFrame /\ wire'.rec = wire.rec
               /\ conn' = "open" /\ conn = "open"
      BY <1>4, <3>1
    <3> QED BY <1>2, <2>1, <2>3, <3>2, <3>3, <3>4, <3>5
  <2> QED BY <2>2, <2>3
<1>5. CASE \/ Host \/ Connect \/ CannotConnect \/ TimesOut \/ SendGarbage
           \/ ReadViolation \/ Stop \/ Join \/ UNCHANGED vars
  <2>1. CASE BeginEmit \/ HostRestart \/ CannotConnect \/ Stop \/ Join
    <3>1. /\ cursor' = cursor /\ next' = next /\ wire' = wire
          /\ answer' = answer /\ pc' = pc /\ conn' = conn /\ log' = log
      BY <2>1 DEF BeginEmit, HostRestart, CannotConnect, Stop, Join
    <3> QED BY <1>4, <3>1
  <2>2. CASE EndEmit
    <3>1. /\ cursor' = cursor /\ next' = next /\ wire' = wire
          /\ answer' = answer /\ pc' = pc /\ conn' = conn
          /\ tail = "begun" \/ tail = "joined"
          /\ log' = Append(log, IF tail = "begun" THEN emitted ELSE Garbage)
      BY <2>2 DEF EndEmit
    <3>2. (IF tail = "begun" THEN emitted ELSE Garbage) \in Lines
      BY <1>0, GarbageIsNone DEF Typed, Lines
    <3> QED BY <1>4, <3>1, <3>2
  <2>3. CASE Connect \/ UNCHANGED vars
    <3>1. /\ cursor' = cursor /\ next' = next /\ wire' = wire
          /\ answer' = answer /\ conn' = conn /\ log' = log
          /\ pc' = pc \/ (pc = "idle" /\ pc' = "wait")
      BY <2>3 DEF Connect
    <3> QED BY <1>4, <3>1
  <2>4. CASE HostDies \/ TimesOut \/ SendGarbage \/ ReadViolation
    <3>1. /\ pc' = "idle" /\ wire' = wire /\ answer' = "none"
          /\ conn' = IF conn = "open" THEN "left" ELSE conn
      BY <2>4 DEF HostDies, TimesOut, SendGarbage, ReadViolation, SessionFails,
         SessionEnds, Leaves
    <3>2. conn' # "open" /\ (conn' = "none" => wire' = NoFrame)
      BY <1>3, <3>1
    <3> QED BY <1>1, <3>1, <3>2
  <2> QED BY <1>5, <2>1, <2>2, <2>3, <2>4 DEF Host
<1>6. CASE TailOnce
  <2>1. /\ pc = "tail" /\ cursor' = Len(log) /\ next' = cursor + 1
        /\ log' = log /\ wire' = wire /\ answer = "none"
        /\ cursor <= Len(log) /\ next = cursor + 1
        /\ \A i \in 1..cursor : log[i] \in ToSet(Stored)
        /\ conn \in {"open", "closing"} /\ (conn = "open" => wire = NoFrame)
    <3>1. pc = "tail" /\ pc \in InSession
      BY <1>6 DEF TailOnce
    <3>2. /\ cursor <= Len(log) /\ next = cursor + 1
          /\ \A i \in 1..(next - 1) : log[i] \in ToSet(Stored)
          /\ conn \in {"open", "closing"}
      BY <1>0, <3>1 DEF SessionOK, Holds
    <3> QED BY <1>0, <1>3, <1>6, <3>1, <3>2 DEF TailOnce
  <2>2. \/ /\ cursor < Len(log) /\ pc' = "send" /\ UNCHANGED <<answer, conn>>
        \/ /\ cursor = Len(log) /\ pc' = "tail" /\ answer' = "none"
           /\ conn' = conn
        \/ /\ pc' = "idle" /\ answer' = "none"
           /\ conn' = IF conn = "open" THEN "left" ELSE conn
    BY <1>0, <1>6, <2>1 DEF TailOnce, BatchDone, SessionEnds, Leaves
  <2>3. \A i \in 1..(next' - 1) : log'[i] \in ToSet(Stored)'
    BY <1>0, <1>S, <2>1
  <2>4. CASE pc' = "idle"
    BY <1>1, <2>1, <2>2, <2>4
  <2>5. CASE pc' # "idle"
    <3>1. /\ conn' \in {"open", "closing"} /\ answer' = "none"
          /\ conn' = "open" => wire' = NoFrame
          /\ cursor' <= Len(log') /\ next' \in 1..(cursor' + 1)
          /\ pc' \in {"send", "tail"}
          /\ pc' = "tail" <=> next' = cursor' + 1
      BY <1>0, <2>1, <2>2, <2>5
    <3> QED BY <2>3, <3>1 DEF SessionOK, Holds
  <2> QED BY <2>4, <2>5
<1>7. CASE Send \/ SendRest
  <2>1. /\ pc \in {"send", "ack"} /\ pc' = "ack" /\ next <= cursor
        /\ next \in 1..cursor /\ cursor <= Len(log) /\ answer = "none"
        /\ \A i \in 1..(next - 1) : log[i] \in ToSet(Stored)
        /\ conn \in {"open", "closing"}
    <3>1. /\ pc \in {"send", "ack"} /\ pc' = "ack"
          /\ pc = "ack" => conn = "open" /\ wire.part = "half"
      BY <1>7 DEF Send, SendRest
    <3>2. answer = "none"
      BY <1>3, <3>1
    <3> QED BY <1>0, <3>1, <3>2, NextIsThere DEF SessionOK, Holds
  <2>2. /\ UNCHANGED <<log, cursor, next, answer, conn>>
        /\ conn = "open" => wire'.rec = log[next]
    <3>1. CASE Send
      BY <3>1 DEF Send
    <3>2. CASE SendRest
      <4>1. wire # NoFrame
        BY <3>2 DEF SendRest
      <4>2. /\ wire' = [wire EXCEPT !.part = "full"]
            /\ wire \in [rec : Records, part : {"half", "full"}]
        BY <1>0, <3>2, <4>1 DEF SendRest, Typed, Frames
      <4> QED BY <1>3, <3>2, <4>1, <4>2 DEF SendRest
    <3> QED BY <1>7, <3>1, <3>2
  <2>3. \A i \in 1..(next' - 1) : log'[i] \in ToSet(Stored)'
    BY <1>S, <2>1, <2>2
  <2>4. /\ conn' \in {"open", "closing"} /\ answer' = "none"
        /\ conn' = "open" => wire'.rec = log'[next']
        /\ cursor' <= Len(log') /\ next' \in 1..(cursor' + 1)
        /\ next' # cursor' + 1
    BY <1>0, <2>1, <2>2
  <2> QED BY <2>1, <2>3, <2>4 DEF SessionOK, Holds
<1>8. CASE ReadAck
  <2>1. /\ pc = "ack" /\ answer = "ack" /\ next' = next + 1
        /\ UNCHANGED <<log, cursor, wire>>
    BY <1>8 DEF ReadAck
  <2>2. /\ cursor <= Len(log) /\ next \in 1..cursor
        /\ \A i \in 1..next : log[i] \in ToSet(Stored)
        /\ conn \in {"open", "closing"} /\ wire = NoFrame
    <3>1. /\ conn \in {"open", "closing"} /\ wire = NoFrame
          /\ \A i \in 1..(next - 1) : log[i] \in ToSet(Stored)
          /\ log[next] \in ToSet(Stored)
      BY <1>0, <2>1 DEF SessionOK, Holds
    <3> QED BY <1>0, <2>1, <3>1, NextIsThere
  <2>3. \/ /\ next < cursor /\ pc' = "send" /\ answer' = "none" /\ conn' = conn
        \/ /\ next >= cursor /\ pc' = "tail" /\ answer' = "none"
           /\ conn' = conn
        \/ /\ pc' = "idle" /\ answer' = "none"
           /\ conn' = IF conn = "open" THEN "left" ELSE conn
    BY <1>0, <1>8 DEF ReadAck, BatchDone, SessionEnds, Leaves
  <2>4. \A i \in 1..(next' - 1) : log'[i] \in ToSet(Stored)'
    <3>1. next' - 1 = next
      BY <1>0, <2>1
    <3> QED BY <1>S, <2>1, <2>2, <3>1
  <2>5. CASE pc' = "idle"
    BY <1>1, <2>1, <2>2, <2>3, <2>5
  <2>6. CASE pc' # "idle"
    <3>1. /\ conn' \in {"open", "closing"} /\ answer' = "none"
          /\ wire' = NoFrame
          /\ cursor' <= Len(log') /\ next' \in 1..(cursor' + 1)
          /\ pc' \in {"send", "tail"}
          /\ pc' = "tail" <=> next' = cursor' + 1
      BY <1>0, <2>1, <2>2, <2>3, <2>6
    <3> QED BY <2>4, <3>1 DEF SessionOK, Holds
  <2> QED BY <2>5, <2>6
<1>9. CASE Accept
  <2>1. /\ conn = "none" /\ pc = "wait" /\ wire' = NoFrame /\ log' = log
        /\ answer = "none"
    BY <1>3, <1>9 DEF Accept
  <2>2. CASE compromised
    BY <1>1, <1>9, <2>1, <2>2 DEF Accept, SessionFails, SessionEnds
  <2>3. CASE ~compromised
    <3>1. /\ conn' = "open" /\ pc' = "tail" /\ cursor' = 0 /\ next' = 1
          /\ answer' = "none"
      BY <1>9, <2>1, <2>3 DEF Accept
    <3> QED BY <1>0, <2>1, <3>1 DEF SessionOK
  <2> QED BY <2>2, <2>3
<1>10. CASE IngestDuplicate \/ Ingest
  <2>1. /\ conn \in {"open", "left"} /\ wire' = NoFrame
        /\ answer' = (IF conn = "open" THEN "ack" ELSE "none")
        /\ UNCHANGED <<log, cursor, next, pc, conn>>
    BY <1>10 DEF IngestDuplicate, Ingest, Answer, Arrived
  <2>2. wire # NoFrame /\ wire.rec \in ToSet(Stored)'
    <3>1. wire # NoFrame /\ wire.rec \in Records /\ ids = ToSet(Stored)
      BY <1>0, <1>10, ArrivedServes DEF IngestDuplicate, Ingest
    <3>2. CASE IngestDuplicate
      <4>1. wire.rec \in ToSet(Stored)
        BY <3>1, <3>2 DEF IngestDuplicate, Known
      <4> QED BY <1>S, <3>1, <4>1
    <3>3. CASE Ingest
      <4>1. up' /\ ~compromised' /\ ids' = ids \union {wire.rec}
        BY <1>0, <3>3, ArrivedServes DEF Ingest
      <4> QED BY <3>1, <4>1, StoreStep DEF StoreOK
    <3> QED BY <1>10, <3>2, <3>3
  <2>3. CASE conn = "left"
    BY <1>1, <1>3, <2>1, <2>3
  <2>4. CASE conn = "open"
    <3>1. pc = "ack" /\ wire.rec = log[next]
      BY <1>3, <2>2, <2>4
    <3> QED BY <1>0, <1>2, <2>1, <2>2, <2>4, <3>1
  <2> QED BY <2>1, <2>3, <2>4
<1>11. CASE IngestFails \/ ReadsGarbage
  <2>1. /\ conn \in {"open", "left"} /\ wire' = NoFrame /\ wire # NoFrame
        /\ conn' = (IF conn = "open" THEN "closing" ELSE "none")
        /\ answer' = (IF conn = "open" THEN "violation" ELSE "none")
        /\ UNCHANGED <<log, cursor, next, pc>>
    BY <1>11 DEF IngestFails, ReadsGarbage, Violate, Answer, Arrived
  <2>2. CASE conn = "left"
    BY <1>1, <1>3, <2>1, <2>2
  <2>3. CASE conn = "open"
    <3>1. pc = "ack"
      BY <1>3, <2>1, <2>3
    <3> QED BY <1>0, <1>2, <2>1, <2>3, <3>1
  <2> QED BY <2>1, <2>2, <2>3
<1>12. CASE LosesPlace \/ IdleClose \/ RelayRestart
  <2>1. /\ cursor' = cursor /\ next' = next /\ wire' = wire
        /\ answer' = answer /\ pc' = pc /\ log' = log
        /\ conn' = conn \/ (conn = "open" /\ conn' = "closing")
    BY <1>12 DEF LosesPlace, IdleClose, RelayRestart
  <2> QED BY <1>4, <2>1
<1>13. CASE ReadsClosed \/ Closed \/ RelayDies
  <2>1. /\ conn' = "none" /\ wire' = NoFrame
        /\ ReadsClosed => conn = "left" /\ pc' = pc /\ answer' = answer
        /\ ~ReadsClosed => answer' = "none"
        /\ Closed => pc' = "idle" \/ (pc' = pc /\ pc \notin InSession)
        /\ RelayDies => pc' = "idle"
    BY <1>13 DEF ReadsClosed, Closed, RelayDies, Dropped, SessionFails,
       SessionEnds
  <2> QED BY <1>1, <1>3, <1>13, <2>1
<1> QED
  BY <1>5, <1>6, <1>7, <1>8, <1>9, <1>10, <1>11, <1>12, <1>13
  DEF Next, Client, Server

-----------------------------------------------------------------------------
LEMMA StopStep ==
  ASSUME RelayInv, [Next]_vars
  PROVE  StopOK'
<1>0. /\ Typed /\ StoreOK /\ SessionOK /\ StopOK
      /\ log \in Seq(Lines) /\ Len(log) \in Nat /\ DOMAIN log = 1..Len(log)
      /\ cursor \in Nat /\ next \in Nat
  BY DEF RelayInv, Typed
<1>N. cursor \in Nat /\ next \in Nat /\ Len(log) \in Nat
  BY <1>0
<1>S. \A r : r \in ToSet(Stored) => r \in ToSet(Stored)'
  BY <1>0, StoreGrows DEF Holds
<1>1. ASSUME log' = log, tail' = tail, pc' = "idle",
             stage' = stage \/ (stage # "no" /\ stage' # "drained")
      PROVE  StopOK'
  BY <1>0, <1>S, <1>1 DEF StopOK, Holds
<1>2. ASSUME log' = log, tail' = tail, pc' = pc, stage' = stage,
             cursor' = cursor
      PROVE  StopOK'
  BY <1>0, <1>S, <1>2 DEF StopOK, Holds
<1>3. CASE Host
  <2>1. CASE BeginEmit \/ EndEmit \/ HostDies
    <3>1. stage' = "no"
      <4>1. CASE BeginEmit
        BY <4>1 DEF BeginEmit
      <4>2. CASE EndEmit
        BY <1>0, <4>2 DEF EndEmit, StopOK
      <4>3. CASE HostDies
        BY <4>3 DEF HostDies
      <4> QED BY <2>1, <4>1, <4>2, <4>3
    <3> QED BY <3>1 DEF StopOK
  <2>2. CASE HostRestart
    BY <1>2, <2>2 DEF HostRestart
  <2> QED BY <1>3, <2>1, <2>2 DEF Host
<1>4. CASE CannotConnect \/ TimesOut \/ SendGarbage \/ ReadViolation \/ Join
  <2>1. /\ log' = log /\ tail' = tail /\ pc' = "idle"
        /\ stage' = stage \/ (stage # "no" /\ stage' # "drained")
    BY <1>4 DEF CannotConnect, TimesOut, SendGarbage, ReadViolation, Join,
       SessionFails, SessionEnds
  <2> QED BY <1>1, <2>1
<1>5. CASE Connect \/ Stop \/ Send \/ SendRest
  <2>1. CASE Connect
    BY <1>0, <2>1 DEF Connect, StopOK
  <2>2. CASE Stop
    BY <1>0, <2>2 DEF Stop, StopOK
  <2>3. CASE Send \/ SendRest
    <3>1. /\ log' = log /\ tail' = tail /\ stage' = stage /\ cursor' = cursor
          /\ pc \in {"send", "ack"} /\ pc' = "ack"
      BY <2>3 DEF Send, SendRest
    <3> QED BY <1>0, <3>1 DEF StopOK
  <2> QED BY <1>5, <2>1, <2>2, <2>3
<1>6. CASE TailOnce
  <2>1. /\ pc = "tail" /\ log' = log /\ tail' = tail /\ cursor' = Len(log)
        /\ \/ pc' \in {"send", "tail"} /\ stage' = stage
           \/ /\ pc' = "idle" /\ stage # "no" /\ ~(cursor < Len(log))
              /\ stage' = IF stage = "pass" THEN "drained" ELSE stage
    BY <1>6 DEF TailOnce, BatchDone, SessionEnds
  <2>2. stage \notin {"drained", "failed"}
    BY <1>0, <2>1 DEF StopOK
  <2>3. /\ cursor <= Len(log)
        /\ \A i \in 1..cursor : log[i] \in ToSet(Stored)
    <3>1. /\ cursor <= Len(log) /\ next = cursor + 1
          /\ \A i \in 1..(next - 1) : log[i] \in ToSet(Stored)
      BY <1>0, <2>1 DEF SessionOK, Holds
    <3> QED BY <1>0, <3>1
  <2>4. stage' = "drained" => \A i \in DOMAIN log' : log'[i] \in ToSet(Stored)'
    <3>0. stage' = "drained" => ~(cursor < Len(log)) /\ cursor <= Len(log)
      BY <2>1, <2>2, <2>3
    <3>1. stage' = "drained" => cursor = Len(log)
      BY <1>N, <3>0
    <3>2. \A i \in 1..cursor : log[i] \in ToSet(Stored)'
      BY <1>S, <2>3
    <3>3. log' = log /\ DOMAIN log = 1..Len(log)
      BY <1>0, <2>1
    <3>4. stage' = "drained" =>
            \A i \in DOMAIN log : log[i] \in ToSet(Stored)'
      BY <3>1, <3>2, <3>3
    <3> QED BY <3>3, <3>4, Zenon
  <2> QED BY <1>0, <2>1, <2>2, <2>4 DEF StopOK, Holds
<1>7. CASE ReadAck
  <2>1. /\ pc = "ack" /\ answer = "ack" /\ cursor' = cursor
        /\ log' = log /\ tail' = tail
        /\ \/ pc' \in {"send", "tail"} /\ stage' = stage
           \/ /\ pc' = "idle" /\ stage # "no" /\ ~(next < cursor)
              /\ stage' = IF stage = "pass" THEN "drained" ELSE stage
    BY <1>7 DEF ReadAck, BatchDone, SessionEnds
  <2>2. /\ stage \notin {"drained", "failed"}
        /\ stage = "pass" => cursor = Len(log)
    BY <1>0, <2>1 DEF StopOK
  <2>3. /\ next \in 1..cursor
        /\ \A i \in 1..next : log[i] \in ToSet(Stored)
    <3>1. /\ \A i \in 1..(next - 1) : log[i] \in ToSet(Stored)
          /\ log[next] \in ToSet(Stored)
      BY <1>0, <2>1 DEF SessionOK, Holds
    <3> QED BY <1>0, <2>1, <3>1, NextIsThere
  <2>4. stage' = "drained" => \A i \in DOMAIN log' : log'[i] \in ToSet(Stored)'
    <3>0. /\ stage' = "drained" => ~(next < cursor) /\ cursor = Len(log)
          /\ next \in 1..cursor
      BY <2>1, <2>2, <2>3
    <3>1. stage' = "drained" => next = Len(log)
      BY <1>N, <3>0
    <3>2. \A i \in 1..next : log[i] \in ToSet(Stored)'
      BY <1>S, <2>3
    <3>3. log' = log /\ DOMAIN log = 1..Len(log)
      BY <1>0, <2>1
    <3>4. stage' = "drained" =>
            \A i \in DOMAIN log : log[i] \in ToSet(Stored)'
      BY <3>1, <3>2, <3>3
    <3> QED BY <3>3, <3>4, Zenon
  <2> QED BY <1>0, <2>1, <2>2, <2>4 DEF StopOK, Holds
<1>8. CASE Accept
  <2>1. log' = log /\ tail' = tail /\ pc = "wait"
    BY <1>8 DEF Accept
  <2>2. CASE compromised
    BY <1>1, <1>8, <2>1, <2>2 DEF Accept, SessionFails, SessionEnds
  <2>3. CASE ~compromised
    <3>1. pc' = "tail" /\ stage' = stage /\ stage \notin {"drained", "failed"}
      BY <1>0, <1>8, <2>1, <2>3 DEF Accept, StopOK
    <3> QED BY <1>0, <2>1, <3>1 DEF StopOK
  <2> QED BY <2>2, <2>3
<1>9. CASE Closed \/ RelayDies
  <2>1. /\ log' = log /\ tail' = tail /\ cursor' = cursor
        /\ \/ pc' = pc /\ stage' = stage
           \/ /\ pc' = "idle"
              /\ stage' = stage \/ (stage # "no" /\ stage' # "drained")
    BY <1>9 DEF Closed, RelayDies, Dropped, SessionFails, SessionEnds
  <2> QED BY <1>1, <1>2, <2>1
<1>10. CASE \/ IngestDuplicate \/ Ingest \/ IngestFails \/ LosesPlace
            \/ ReadsGarbage \/ ReadsClosed \/ IdleClose \/ RelayRestart
            \/ UNCHANGED vars
  <2>1. /\ log' = log /\ tail' = tail /\ pc' = pc /\ stage' = stage
        /\ cursor' = cursor
    BY <1>10 DEF IngestDuplicate, Ingest, IngestFails, LosesPlace,
       ReadsGarbage, ReadsClosed, IdleClose, RelayRestart
  <2> QED BY <1>2, <2>1
<1> QED
  BY <1>3, <1>4, <1>5, <1>6, <1>7, <1>8, <1>9, <1>10
  DEF Next, Client, Server

-----------------------------------------------------------------------------
LEMMA RelayInvInit == Init => RelayInv
<1> SUFFICES ASSUME Init PROVE RelayInv
  OBVIOUS
<1>1. file = <<>> /\ log = <<>>
  BY DEF Init
<1>2. Stored = <<>>
  BY <1>1 DEF Stored
<1>3. ToSet(Stored) = {} /\ DOMAIN log = {} /\ DOMAIN file = {}
  BY <1>1, <1>2 DEF ToSet
<1>4. Typed
  BY TypedInit
<1>5. StoreOK /\ PoisonInv /\ StopOK /\ SessionOK
  BY <1>1, <1>3 DEF Init, StoreOK, PoisonInv, StopOK, SessionOK
<1> QED BY <1>4, <1>5 DEF RelayInv

LEMMA RelayInvStep == RelayInv /\ [Next]_vars => RelayInv'
BY TypedStep, StoreStep, PoisonStep, SessionStep, StopStep DEF RelayInv

THEOREM RelayInvariant == Spec => []RelayInv
BY RelayInvInit, RelayInvStep, PTL DEF Spec

(* Every variable keeps to its kind, the client's place in its batch is in *)
(* the batch, and nothing is appended after a torn piece (run_client,      *)
(* serve_one, append_record).                                              *)
THEOREM TypeCorrect == Spec => []TypeOK
<1>1. RelayInv => TypeOK
  BY NextIsThere DEF RelayInv, Typed, StoreOK, SessionOK, TypeOK, Lines, Frames
<1> QED BY <1>1, RelayInvariant, PTL

(* A relay that refuses its host had an append of its own cut off, or lost *)
(* its place in the stream: no death of the host, timeout or restart does  *)
(* it (serve_loop, load_store).                                            *)
THEOREM PoisonsHaveCause == Spec => []PoisonHasCause
<1>1. RelayInv => PoisonHasCause
  BY DEF RelayInv, PoisonInv, PoisonHasCause
<1> QED BY <1>1, RelayInvariant, PTL

(* What stop() reports drained is stored to the log's last record, through *)
(* any crash of the relay before it (RelayClient::stop).                   *)
THEOREM StopsDrain == Spec => []StoppedIsDrained
<1>1. ASSUME RelayInv PROVE StoppedIsDrained
  <2>1. stage = "drained" => \A i \in DOMAIN log : log[i] \in ToSet(Stored)
    BY <1>1 DEF RelayInv, StopOK, Holds
  <2>2. ToSet(log) = {log[i] : i \in DOMAIN log}
    BY DEF ToSet
  <2> QED BY <2>1, <2>2 DEF StoppedIsDrained
<1> QED BY <1>1, RelayInvariant, PTL

-----------------------------------------------------------------------------
(* What a reader gets of a log: the lines before the first that does not   *)
(* parse.                                                                  *)
Cut(s) ==
  LET end == SelectInSeq(s, LAMBDA r : r = Garbage)
  IN  IF end = 0 THEN s ELSE SubSeq(s, 1, end - 1)

LEMMA ReadableIsCut == Readable = Cut(log) /\ Readable' = Cut(log')
<1>1. Readable = Cut(log)
  BY DEF Readable, Cut, SelectInSeq, Min
<1>2. Readable' = Cut(log')
  BY DEF Readable, Cut, SelectInSeq, Min
<1> QED BY <1>1, <1>2

IsCut(s, n) ==
  /\ n \in 0..Len(s) /\ Cut(s) = SubSeq(s, 1, n)
  /\ \A i \in 1..n : s[i] # Garbage
  /\ n < Len(s) => s[n + 1] = Garbage

LEMMA CutIs ==
  ASSUME NEW s \in Seq(Lines)
  PROVE  \E n \in 0..Len(s) : IsCut(s, n)
<1> DEFINE bad == {i \in 1..Len(s) : s[i] = Garbage}
           end == IF bad # {} THEN CHOOSE i \in bad : \A j \in bad : i =< j
                  ELSE 0
<1>1. Len(s) \in Nat /\ bad \subseteq 1..Len(s)
      /\ \A i : i \in bad <=> i \in 1..Len(s) /\ s[i] = Garbage
  OBVIOUS
<1>2. Cut(s) = IF end = 0 THEN s ELSE SubSeq(s, 1, end - 1)
  BY DEF Cut, SelectInSeq, Min
<1>3. CASE bad = {}
  <2>1. Cut(s) = s
    BY <1>2, <1>3
  <2>2. s = SubSeq(s, 1, Len(s))
    OBVIOUS
  <2> HIDE DEF bad
  <2>3. \A i \in 1..Len(s) : s[i] # Garbage
    BY <1>1, <1>3
  <2>4. IsCut(s, Len(s))
    BY <1>1, <2>1, <2>2, <2>3 DEF IsCut
  <2> QED BY <1>1, <2>4
<1>4. CASE bad # {}
  <2> DEFINE min == CHOOSE i \in bad : \A j \in bad : i =< j
  <2>1. end = min
    BY <1>4
  <2>2. bad \subseteq Nat
    BY <1>1
  <2> HIDE DEF bad, end
  <2>3. PICK i \in bad : \A j \in bad : ~(<<j, i>> \in OpToRel(<, Nat))
    BY <1>4, <2>2, WFMin, NatLessThanWellFounded
  <2>4. ASSUME NEW j \in bad PROVE i =< j
    <3>1. i \in Nat /\ j \in Nat
      BY <2>2
    <3>2. ~(<<j, i>> \in {ss \in Nat \X Nat : ss[1] < ss[2]})
      BY <2>3 DEF OpToRel
    <3> QED BY <3>1, <3>2
  <2>5. min \in bad /\ \A j \in bad : min =< j
    BY <2>4
  <2> HIDE DEF min
  <2>6. min \in 1..Len(s) /\ s[min] = Garbage
    BY <1>1, <2>5
  <2>7. Cut(s) = SubSeq(s, 1, min - 1)
    BY <1>1, <1>2, <2>1, <2>6
  <2>8. \A j \in 1..(min - 1) : s[j] # Garbage
    <3>1. \A j \in 1..(min - 1) : j \in 1..Len(s) /\ ~(min =< j)
      BY <1>1, <2>6
    <3> QED BY <1>1, <2>5, <3>1
  <2>9. PICK n \in 0..Len(s) : n = min - 1
    BY <1>1, <2>6
  <2>10. IsCut(s, n)
    <3>1. min = n + 1 /\ min - 1 = n
      BY <1>1, <2>6, <2>9
    <3> QED BY <2>6, <2>7, <2>8, <2>9, <3>1 DEF IsCut
  <2> QED BY <2>10
<1> QED BY <1>3, <1>4

LEMMA CutGrows ==
  ASSUME NEW s \in Seq(Lines), NEW t \in Seq(Lines), Len(s) <= Len(t),
         \A i \in 1..Len(s) : t[i] = s[i]
  PROVE  IsPrefix(Cut(s), Cut(t))
<1>0. Len(s) \in Nat /\ Len(t) \in Nat
  OBVIOUS
<1>1. PICK n \in 0..Len(s) : IsCut(s, n)
  BY CutIs
<1>2. PICK m \in 0..Len(t) : IsCut(t, m)
  BY CutIs
<1>3. n <= m
  <2>1. SUFFICES ASSUME m < n PROVE FALSE
    BY <1>0
  <2>2. m + 1 \in 1..n /\ m + 1 \in 1..Len(s) /\ m < Len(t)
    BY <1>0, <2>1
  <2>3. t[m + 1] = Garbage /\ s[m + 1] # Garbage
    BY <1>1, <1>2, <2>2 DEF IsCut
  <2> QED BY <2>2, <2>3
<1>4. /\ Cut(s) \in Seq(Lines) /\ Len(Cut(s)) = n
      /\ \A i \in 1..n : Cut(s)[i] = s[i]
  BY <1>0, <1>1 DEF IsCut
<1>5. /\ Cut(t) \in Seq(Lines) /\ Len(Cut(t)) = m
      /\ \A i \in 1..m : Cut(t)[i] = t[i]
  BY <1>0, <1>2 DEF IsCut
<1>6. \A i \in 1..n : Cut(s)[i] = Cut(t)[i]
  BY <1>0, <1>3, <1>4, <1>5
<1> HIDE DEF Cut
<1>7. SubSeq(Cut(s), 1, n) = SubSeq(Cut(t), 1, n)
  BY <1>0, <1>3, <1>4, <1>5, <1>6
<1> QED BY <1>0, <1>3, <1>4, <1>5, <1>7 DEF IsPrefix

-----------------------------------------------------------------------------
(* Host and relay implement Mirror.                                        *)
LEMMA LogGrowsOrShrinks ==
  ASSUME RelayInv, [Next]_vars, EndEmit \/ HostDies
  PROVE  IsPrefix(Readable, Readable') \/ IsPrefix(Readable', Readable)
<1>0. log \in Seq(Lines) /\ log' \in Seq(Lines) /\ Len(log) \in Nat
  BY TypedStep DEF RelayInv, Typed
<1>1. CASE EndEmit
  <2>1. \E x : log' = Append(log, x)
    BY <1>1 DEF EndEmit
  <2>2. Len(log) <= Len(log') /\ \A i \in 1..Len(log) : log'[i] = log[i]
    BY <1>0, <2>1
  <2>3. IsPrefix(Cut(log), Cut(log'))
    BY <1>0, <2>2, CutGrows
  <2> QED BY <2>3, ReadableIsCut
<1>2. CASE HostDies
  <2>1. PICK n \in 0..Len(log) : log' = SubSeq(log, 1, n)
    <3>1. CASE log' = log
      <4>1. log' = SubSeq(log, 1, Len(log)) /\ Len(log) \in 0..Len(log)
        BY <1>0, <3>1
      <4> QED BY <4>1
    <3> QED BY <1>2, <3>1 DEF HostDies
  <2>2. Len(log') <= Len(log) /\ \A i \in 1..Len(log') : log[i] = log'[i]
    BY <1>0, <2>1
  <2>3. IsPrefix(Cut(log'), Cut(log))
    BY <1>0, <2>2, CutGrows
  <2> QED BY <2>3, ReadableIsCut
<1> QED BY <1>1, <1>2

(* The line that is sent is one a reader of the log gets, and every line   *)
(* before it is stored.                                                    *)
LEMMA SendsNext ==
  ASSUME RelayInv, Send
  PROVE  /\ next \in DOMAIN Readable /\ wire'.rec = Readable[next]
         /\ \A j \in 1..(next - 1) : Readable[j] \in ToSet(Stored)
<1>0. /\ Typed /\ SessionOK /\ pc = "send" /\ log[next] # Garbage
      /\ wire'.rec = log[next]
      /\ log \in Seq(Lines) /\ Len(log) \in Nat
  BY DEF RelayInv, Typed, Send
<1>1. next \in 1..Len(log)
  BY <1>0, NextIsThere
<1>2. \A j \in 1..(next - 1) : log[j] \in ToSet(Stored)
  BY <1>0 DEF SessionOK, Holds
<1>3. \A j \in 1..(next - 1) : log[j] # Garbage
  BY <1>0, <1>2, StoredTyped, GarbageIsNone DEF Holds
<1>4. PICK n \in 0..Len(log) : IsCut(log, n)
  BY <1>0, CutIs
<1>5. next <= n
  <2>1. SUFFICES ASSUME n < next PROVE FALSE
    BY <1>1
  <2>2. n + 1 \in 1..next /\ n < Len(log)
    BY <1>0, <1>1, <2>1
  <2>3. log[n + 1] = Garbage
    BY <1>4, <2>2 DEF IsCut
  <2>4. n + 1 = next \/ n + 1 \in 1..(next - 1)
    BY <1>1, <2>2
  <2> QED BY <1>0, <1>3, <2>3, <2>4
<1>6. /\ Cut(log) \in Seq(Lines) /\ Len(Cut(log)) = n
      /\ \A j \in 1..n : Cut(log)[j] = log[j]
  BY <1>0, <1>4 DEF IsCut
<1> HIDE DEF Cut
<1>7. next \in DOMAIN Cut(log) /\ \A j \in 1..next : Cut(log)[j] = log[j]
  BY <1>1, <1>5, <1>6
<1>8. /\ next \in 1..next
      /\ \A j \in 1..(next - 1) : j \in 1..next
  BY <1>1
<1> QED BY <1>0, <1>2, <1>7, <1>8, ReadableIsCut

LEMMA MirrorInit == Init => Promise!Init
<1> SUFFICES ASSUME Init PROVE Promise!Init
  OBVIOUS
<1>1. Stored = <<>> /\ log = <<>> /\ wire.rec = Garbage /\ compromised = FALSE
  BY DEF Init, Stored
<1>2. Readable = <<>>
  <2>1. <<>> \in Seq(Lines) /\ Len(<<>>) = 0
    OBVIOUS
  <2>2. PICK n \in 0..0 : IsCut(<<>>, n)
    BY <2>1, CutIs
  <2>3. Cut(<<>>) = SubSeq(<<>>, 1, n)
    BY <2>2 DEF IsCut
  <2>4. Cut(<<>>) = <<>>
    BY <2>2, <2>3
  <2> QED BY <1>1, <2>4, ReadableIsCut
<1> QED BY <1>1, <1>2 DEF Promise!Init

(* Mirror has its own copy of the operators on sequences.                  *)
LEMMA SameOperators ==
  /\ \A s : Promise!ToSet(s) = ToSet(s)
  /\ \A s, t : Promise!IsPrefix(s, t) <=> IsPrefix(s, t)
BY DEF ToSet, Promise!ToSet, IsPrefix, Promise!IsPrefix

LEMMA MirrorStep ==
  RelayInv /\ [Next]_vars => [Promise!Next]_(Promise!vars)
<1> SUFFICES ASSUME RelayInv, [Next]_vars
             PROVE  [Promise!Next]_(Promise!vars)
  OBVIOUS
<1>0. /\ Typed /\ StoreOK /\ SessionOK /\ compromised' \in BOOLEAN
  BY TypedStep DEF RelayInv, Typed
<1>F. file' = file => Stored' = Stored
  BY DEF Stored
<1>L. log' = log => Readable' = Readable
  BY ReadableIsCut
<1>1. CASE EndEmit \/ HostDies
  <2>1. /\ Stored' = Stored /\ wire'.rec = wire.rec
        /\ compromised' = compromised
    BY <1>1, <1>F DEF EndEmit, HostDies
  <2>2. IsPrefix(Readable, Readable') \/ IsPrefix(Readable', Readable)
    BY <1>1, LogGrowsOrShrinks
  <2>3. Promise!HostStep
    BY <2>1, <2>2, SameOperators DEF Promise!HostStep
  <2> QED BY <2>3 DEF Promise!Next
<1>2. CASE Send
  <2>1. /\ Stored' = Stored /\ Readable' = Readable
        /\ compromised' = compromised
    BY <1>2, <1>F, <1>L DEF Send
  <2>2. Promise!Send
    BY <1>2, <2>1, SendsNext, SameOperators DEF Promise!Send
  <2> QED BY <2>2 DEF Promise!Next
<1>3. CASE \/ BeginEmit \/ HostRestart \/ Connect \/ CannotConnect \/ TimesOut
           \/ TailOnce \/ SendRest \/ SendGarbage \/ ReadAck \/ ReadViolation
           \/ Stop \/ Join \/ LosesPlace \/ IdleClose \/ UNCHANGED vars
  <2>1. /\ file' = file /\ log' = log /\ compromised' = compromised
        /\ SendRest \/ wire' = wire
    BY <1>3 DEF BeginEmit, HostRestart, Connect, CannotConnect, TimesOut,
       TailOnce, SendRest, SendGarbage, ReadAck, ReadViolation, Stop, Join,
       LosesPlace, IdleClose
  <2>2. wire'.rec = wire.rec
    <3>1. CASE SendRest
      <4>1. /\ wire.part = "half" /\ wire' = [wire EXCEPT !.part = "full"]
            /\ wire \in Frames
        BY <1>0, <3>1 DEF SendRest, Typed
      <4>2. wire \in [rec : Records, part : {"half", "full"}]
        BY <4>1 DEF Frames
      <4> QED BY <4>1, <4>2
    <3> QED BY <2>1, <3>1
  <2> QED BY <1>F, <1>L, <2>1, <2>2 DEF Promise!vars
<1>4. ASSUME wire' = NoFrame, log' = log,
             \/ Stored' = Stored
             \/ /\ Arrived /\ ~Known /\ Stored' = Append(Stored, wire.rec)
      PROVE  [Promise!Next]_(Promise!vars)
  <2>1. CASE Stored' = Stored
    <3>1. Promise!Drop
      BY <1>0, <1>4, <1>L, <2>1 DEF Promise!Drop
    <3> QED BY <3>1 DEF Promise!Next
  <2>2. CASE Arrived /\ ~Known /\ Stored' = Append(Stored, wire.rec)
    <3>1. /\ ~compromised /\ wire.rec \notin ToSet(Stored)
          /\ wire.rec # Garbage
      BY <1>0, <2>2, ArrivedServes, GarbageIsNone DEF Known
    <3>2. Promise!Store
      BY <1>0, <1>4, <1>L, <2>2, <3>1, SameOperators DEF Promise!Store
    <3> QED BY <3>2 DEF Promise!Next
  <2> QED BY <1>4, <2>1, <2>2
<1>5. CASE Ingest \/ IngestFails \/ RelayDies
  <2>1. wire' = NoFrame /\ log' = log
    BY <1>5 DEF Ingest, IngestFails, RelayDies, Violate
  <2> QED BY <1>0, <1>4, <2>1, StoreGrows
<1>6. CASE Accept \/ IngestDuplicate \/ ReadsGarbage \/ ReadsClosed \/ Closed
  <2>1. wire' = NoFrame /\ log' = log /\ file' = file
    BY <1>6 DEF Accept, IngestDuplicate, ReadsGarbage, ReadsClosed, Closed,
       Violate
  <2> QED BY <1>4, <1>F, <2>1
<1>7. CASE RelayRestart
  <2>1. wire' = wire /\ log' = log /\ file' = file /\ conn = "none"
    BY <1>0, <1>7 DEF RelayRestart, StoreOK
  <2>2. wire = NoFrame
    BY <1>0, <2>1 DEF SessionOK
  <2> QED BY <1>4, <1>F, <2>1, <2>2
<1> QED
  BY <1>1, <1>2, <1>3, <1>5, <1>6, <1>7 DEF Next, Host, Client, Server

(* The relay's store is a mirror of the host's log: a record is under way  *)
(* only when all before it are stored, is stored once, and stays, whatever *)
(* crashes (run_client, serve_one, ingest).                                *)
THEOREM MirrorKept == Spec => ImplementsMirror
BY MirrorInit, MirrorStep, RelayInvariant, PTL
   DEF Spec, ImplementsMirror, Promise!Spec
=============================================================================
