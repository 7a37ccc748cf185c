---------------------------- MODULE OutboxProofs ----------------------------
(***************************************************************************)
(* The accounting service never delivers a key twice: theorems about       *)
(* Outbox for every set of keys and digests, and any number of calls,      *)
(* storage failures, crashes and hosts.                                    *)
(***************************************************************************)
EXTENDS Outbox, TLAPS

(* The key whose receipt is at place i.                                    *)
KeyAt(i) == ledger[i].pair[1]

(* What the store remembers is on the ledger, ...                          *)
Remembered == \A k \in Keys : receipts[k] # 0 => KeyAt(receipts[k]) = k

(* ... and while it takes deliveries it remembers every line.              *)
Complete == up /\ ~refuse => \A i \in DOMAIN ledger : receipts[KeyAt(i)] = i

(* Only the last receipt may lack its effect file, and none does in a      *)
(* store that takes deliveries, but for the one that it is writing.        *)
Written ==
  /\ \A i \in DOMAIN ledger : i \in files \/ i = Len(ledger)
  /\ up /\ ~refuse /\ ~At("file") => files = DOMAIN ledger

(* The delivery that is being stored is new, or is the last receipt.       *)
Storing ==
  work # None =>
    /\ up /\ ~refuse
    /\ At("append") => receipts[work.pair[1]] = 0
    /\ At("file") => /\ receipts[work.pair[1]] = Len(ledger)
                     /\ Len(ledger) \in DOMAIN ledger
                     /\ ledger[Len(ledger)].pair = work.pair

StoreInv == TypeOK /\ OncePerKey /\ Remembered /\ Complete /\ Written /\ Storing

-----------------------------------------------------------------------------
(* At most one thing is under way, and in an open session it is the call   *)
(* that the host waits for.                                                *)
OneUnderWay ==
  /\ link = "open" => session = "open"
  /\ link \in {"idle", "failed"} => call = None
  /\ work # None => request = None
  /\ session = "none" => request = None /\ work = None
  /\ reply # Silent => call # None
  /\ session = "open" =>
       /\ request # None => call = request /\ reply = Silent
       /\ work # None => call = work.pair /\ reply = Silent

OnLedger(p) == \E i \in DOMAIN ledger : ledger[i].pair = p

Touched(p) == OnLedger(p) \/ request = p \/ (work # None /\ work.pair = p)

(* Some caller was told something else than "unavailable".                 *)
Doubted(p) == \E o \in told[p] : o # "unavailable"

Delivered == {ledger[i].pair : i \in files}

(* A delivery that reached the service is the host's concern; a refusal is *)
(* of one that did not, or that a caller was in doubt about before.        *)
Heard ==
  /\ \A p \in Pairs : Touched(p) => Doubted(p) \/ call = p
  /\ \A p \in Pairs : OnLedger(p) /\ request = p => Doubted(p)
  /\ reply = "refused" => ~Touched(call) \/ Doubted(call)
  /\ reply \in {"delivered", "duplicate"} => call \in Delivered

CallInv == OneUnderWay /\ Heard

-----------------------------------------------------------------------------
Job == [pair : Pairs, stage : {"append", "file"}]

LEMMA NoneIsNoPair == None \notin Pairs /\ None \notin Job
<1>1. DOMAIN None = {}
  BY DEF None
<1>2. ASSUME NEW p \in Pairs PROVE p # None
  <2>1. 1 \in DOMAIN p
    BY DEF Pairs
  <2> QED BY <1>1, <2>1
<1>3. ASSUME NEW w \in Job PROVE w # None
  <2>1. "pair" \in DOMAIN w
    BY DEF Job
  <2> QED BY <1>1, <2>1
<1> QED BY <1>2, <1>3

LEMMA InitTyped == Init => TypeOK
<1> SUFFICES ASSUME Init PROVE TypeOK
  OBVIOUS
<1>1. ledger \in Seq(Piece) /\ DOMAIN ledger = {}
  BY DEF Init
<1> QED BY <1>1 DEF Init, TypeOK, Forgotten, Silent

LEMMA InitStores == Init => StoreInv
BY InitTyped DEF Init, StoreInv, OncePerKey, Remembered, Complete, Written,
   Storing, KeyAt, At, Forgotten

(* A store that an operation leaves alone stays in order.                  *)
LEMMA StoreUntouched ==
  ASSUME StoreInv, UNCHANGED service, TypeOK'
  PROVE  StoreInv'
BY DEF StoreInv, service, OncePerKey, Remembered, Complete, Written, Storing,
       KeyAt, At

(* The host's operations leave the store alone.                            *)
LEMMA HostKeepsStore == StoreInv /\ HostStep => UNCHANGED service /\ TypeOK'
<1> SUFFICES ASSUME StoreInv, HostStep PROVE UNCHANGED service /\ TypeOK'
  OBVIOUS
<1> USE DEF host, Told
<1>t. TypeOK /\ \A p \in Pairs : p \in {None} \cup Pairs
  BY DEF StoreInv
<1>1. CASE OpenSession
  BY <1>1, <1>t DEF OpenSession, TypeOK, service
<1>2. CASE OpenFails
  BY <1>2, <1>t DEF OpenFails, TypeOK, service
<1>3. CASE DeliverReturns
  <2>1. Outcome(reply) \in Outcomes
    BY <1>t DEF Outcome, Outcomes
  <2> QED BY <1>3, <1>t, <2>1 DEF DeliverReturns, TypeOK, service
<1>4. CASE DeliverTimesOut
  BY <1>4, <1>t DEF DeliverTimesOut, HangUp, TypeOK, service, Outcomes
<1>5. CASE HostRestarts
  BY <1>5, <1>t DEF HostRestarts, HangUp, TypeOK, service, Outcomes
<1>6. CASE ConnectionBreaks
  BY <1>6, <1>t DEF ConnectionBreaks, TypeOK, service
<1>7. ASSUME NEW p \in Pairs, DeliverUnreachable(p)
      PROVE  UNCHANGED service /\ TypeOK'
  BY <1>7, <1>t DEF DeliverUnreachable, TypeOK, service, Outcomes
<1>8. ASSUME NEW p \in Pairs, Deliver(p)
      PROVE  UNCHANGED service /\ TypeOK'
  BY <1>8, <1>t DEF Deliver, TypeOK, service
<1> QED BY <1>1, <1>2, <1>3, <1>4, <1>5, <1>6, <1>7, <1>8 DEF HostStep

-----------------------------------------------------------------------------
LEMMA KeysTyped ==
  StoreInv => /\ ledger \in Seq(Piece)
              /\ \A i \in DOMAIN ledger :
                   ledger[i].pair \in Pairs /\ KeyAt(i) \in Keys
<1> SUFFICES ASSUME StoreInv, NEW i \in DOMAIN ledger
             PROVE  ledger[i].pair \in Pairs /\ KeyAt(i) \in Keys
  BY DEF StoreInv, TypeOK
<1>1. ledger[i] \in Piece
  BY DEF StoreInv, TypeOK
<1>2. ledger[i].pair \in Pairs
  BY <1>1 DEF Piece
<1> QED BY <1>2 DEF Pairs, KeyAt

(* What appending a record does to the ledger.                             *)
LEMMA OneMore ==
  ASSUME StoreInv, work # None, NEW part \in CutParts \cup {"whole"},
         Appends(part)
  PROVE  /\ ledger' \in Seq(Piece)
         /\ Len(ledger') = Len(ledger) + 1
         /\ DOMAIN ledger' = DOMAIN ledger \cup {Len(ledger) + 1}
         /\ Len(ledger) + 1 \notin DOMAIN ledger
         /\ \A i \in DOMAIN ledger : ledger'[i] = ledger[i]
         /\ ledger'[Len(ledger) + 1] = [pair |-> work.pair, part |-> part]
<1>1. ledger \in Seq(Piece) /\ work.pair \in Pairs
  BY DEF StoreInv, TypeOK
<1>2. [pair |-> work.pair, part |-> part] \in Piece
  BY <1>1 DEF Piece
<1> QED BY <1>1, <1>2 DEF Appends

(* A delivery that is about to be appended is new.                         *)
LEMMA KeyIsNew ==
  ASSUME StoreInv, At("append")
  PROVE  \A i \in DOMAIN ledger : KeyAt(i) # work.pair[1]
BY DEF StoreInv, TypeOK, Storing, Complete, At

LEMMA OncePerKeyAppended ==
  ASSUME StoreInv, At("append"), NEW part \in CutParts \cup {"whole"},
         Appends(part)
  PROVE  OncePerKey'
<1> DEFINE n == Len(ledger) + 1
<1>1. /\ DOMAIN ledger' = DOMAIN ledger \cup {n}
      /\ n \notin DOMAIN ledger
      /\ \A i \in DOMAIN ledger : ledger'[i] = ledger[i]
      /\ ledger'[n] = [pair |-> work.pair, part |-> part]
  BY OneMore DEF At
<1>2. ledger'[n].pair = work.pair
  BY <1>1
<1>3. \A i \in DOMAIN ledger : ledger'[i].pair[1] # ledger'[n].pair[1]
  BY <1>1, <1>2, KeyIsNew DEF KeyAt
<1> HIDE DEF n
<1>4. ASSUME NEW i \in DOMAIN ledger', NEW j \in DOMAIN ledger',
             ledger'[i].pair[1] = ledger'[j].pair[1]
      PROVE  i = j
  BY <1>1, <1>3, <1>4 DEF StoreInv, OncePerKey
<1> QED BY <1>4 DEF OncePerKey

(* A ledger that loads is loaded whole, and then remembered whole.         *)
LEMMA AllLoaded ==
  ASSUME StoreInv, Loadable
  PROVE  /\ Loaded = DOMAIN ledger
         /\ ReceiptsOf(Loaded) \in [Keys -> {0} \cup DOMAIN ledger]
         /\ \A k \in Keys : ReceiptsOf(Loaded)[k] # 0
                             => KeyAt(ReceiptsOf(Loaded)[k]) = k
         /\ \A i \in DOMAIN ledger : ReceiptsOf(Loaded)[KeyAt(i)] = i
<1>1. ledger \in Seq(Piece) /\ \A i \in DOMAIN ledger : KeyAt(i) \in Keys
  BY KeysTyped
<1>2. ASSUME NEW i \in DOMAIN ledger, NEW j \in 1..i
      PROVE  j \in DOMAIN ledger
  BY <1>1
<1>3. Loaded = DOMAIN ledger
  BY <1>2 DEF Loaded, Loadable
<1> DEFINE r == ReceiptsOf(Loaded)
           Of(k) == {i \in DOMAIN ledger : KeyAt(i) = k}
<1>4. ASSUME NEW k \in Keys
      PROVE  IF \E i \in DOMAIN ledger : KeyAt(i) = k
             THEN r[k] \in DOMAIN ledger /\ KeyAt(r[k]) = k
             ELSE r[k] = 0
  BY <1>3 DEF ReceiptsOf, KeyAt
<1>5. r \in [Keys -> {0} \cup DOMAIN ledger]
  <2>1. DOMAIN r = Keys /\ r = [k \in Keys |-> r[k]]
    BY DEF ReceiptsOf
  <2> HIDE DEF r
  <2> QED BY <1>4, <2>1
<1> HIDE DEF r
<1>6. \A k \in Keys : r[k] # 0 => KeyAt(r[k]) = k
  BY <1>4
<1>7. ASSUME NEW i \in DOMAIN ledger PROVE r[KeyAt(i)] = i
  <2> PICK k \in Keys : k = KeyAt(i)
    BY <1>1
  <2>1. r[k] \in DOMAIN ledger /\ KeyAt(r[k]) = KeyAt(i)
    BY <1>4
  <2> QED BY <2>1 DEF StoreInv, OncePerKey, KeyAt
<1> QED BY <1>3, <1>5, <1>6, <1>7 DEF r

-----------------------------------------------------------------------------
(* The operations that leave the service alone.                            *)
LEMMA QuietKeepsStore ==
  ASSUME StoreInv, HandlerEnds \/ \E p \in Pairs : Conflict(p) \/ Refused(p)
  PROVE  UNCHANGED service /\ TypeOK'
<1>1. TypeOK
  BY DEF StoreInv
<1> QED BY <1>1 DEF Conflict, Refused, HandlerEnds, Answers, host, service,
           TypeOK, Statuses

LEMMA DuplicateKeepsStore ==
  ASSUME StoreInv, NEW p \in Pairs, Duplicate(p)
  PROVE  StoreInv'
<1>1. /\ p[1] \in Keys /\ receipts[p[1]] \in DOMAIN ledger
      /\ files' = files \cup {receipts[p[1]]}
  BY DEF Duplicate, Known, StoreInv, TypeOK, Pairs
<1>2. TypeOK'
  BY <1>1 DEF Duplicate, Answers, host, StoreInv, TypeOK, Statuses
<1>3. OncePerKey' /\ Remembered' /\ Complete' /\ Storing'
  BY DEF Duplicate, host, StoreInv, OncePerKey, Remembered, Complete, Storing,
         KeyAt, At
<1>4. Written'
  BY <1>1, <1>2 DEF Duplicate, host, StoreInv, Written, At, TypeOK
<1> QED BY <1>2, <1>3, <1>4 DEF StoreInv

(* A store that stops taking deliveries needs not be complete.             *)
LEMMA DuplicateFailsKeepsStore ==
  ASSUME StoreInv, NEW p \in Pairs, DuplicateFails(p)
  PROVE  StoreInv'
<1>1. TypeOK'
  BY DEF DuplicateFails, Answers, host, StoreInv, TypeOK, Statuses
<1>2. OncePerKey' /\ Remembered' /\ Complete' /\ Storing' /\ Written'
  BY DEF DuplicateFails, Reads, host, StoreInv, OncePerKey, Remembered,
         Complete, Storing, Written, KeyAt, At
<1> QED BY <1>1, <1>2 DEF StoreInv

LEMMA AdmitKeepsStore ==
  ASSUME StoreInv, NEW p \in Pairs, Admit(p)
  PROVE  StoreInv'
<1>1. /\ up /\ ~refuse /\ work = None /\ receipts[p[1]] = 0
      /\ work' = [pair |-> p, stage |-> "append"]
      /\ UNCHANGED <<ledger, files, up, receipts, refuse, dropAck>>
  BY DEF Admit, Reads
<1>2. TypeOK'
  BY DEF Admit, host, StoreInv, TypeOK
<1>3. OncePerKey' /\ Remembered' /\ Complete'
  BY <1>1 DEF StoreInv, OncePerKey, Remembered, Complete, KeyAt
<1>4. Storing'
  BY <1>1 DEF Storing, At
<1>5. Written'
  BY <1>1 DEF StoreInv, Written, At
<1> QED BY <1>2, <1>3, <1>4, <1>5 DEF StoreInv

LEMMA AppendKeepsStore ==
  ASSUME StoreInv, AppendReceipt
  PROVE  StoreInv'
<1> DEFINE n == Len(ledger) + 1
<1> PICK k \in Keys : k = work.pair[1]
  BY DEF AppendReceipt, At, StoreInv, TypeOK, Pairs
<1>1. At("append") /\ Appends("whole")
  BY DEF AppendReceipt
<1>0. /\ receipts' = [receipts EXCEPT ![k] = n]
      /\ work' = [work EXCEPT !.stage = "file"]
      /\ UNCHANGED <<files, up, refuse>>
  BY DEF AppendReceipt
<1>2. /\ up /\ ~refuse /\ work # None /\ work \in Job
      /\ receipts' = [receipts EXCEPT ![k] = n]
      /\ work' = [work EXCEPT !.stage = "file"]
      /\ UNCHANGED <<files, up, refuse>>
  <2>1. work # None /\ work \in {None} \cup Job
    BY <1>1 DEF At, StoreInv, TypeOK, Job
  <2> QED BY <1>0, <1>1, <2>1 DEF At, StoreInv, Storing
<1>3. /\ ledger' \in Seq(Piece)
      /\ Len(ledger') = n
      /\ DOMAIN ledger' = DOMAIN ledger \cup {n}
      /\ n \notin DOMAIN ledger
      /\ \A i \in DOMAIN ledger : ledger'[i] = ledger[i]
      /\ ledger'[n].pair = work.pair
  <2>1. ledger'[n] = [pair |-> work.pair, part |-> "whole"]
    BY <1>1, <1>2, OneMore
  <2>2. ledger'[n].pair = work.pair
    BY <2>1
  <2>3. /\ ledger' \in Seq(Piece)
        /\ Len(ledger') = n
        /\ DOMAIN ledger' = DOMAIN ledger \cup {n}
        /\ n \notin DOMAIN ledger
        /\ \A i \in DOMAIN ledger : ledger'[i] = ledger[i]
    BY <1>1, <1>2, OneMore
  <2> QED BY <2>2, <2>3
<1> HIDE DEF n
<1>4. /\ receipts \in [Keys -> {0} \cup DOMAIN ledger]
      /\ files = DOMAIN ledger
  <2>1. ~At("file")
    BY <1>1 DEF At
  <2>2. receipts \in [Keys -> {0} \cup DOMAIN ledger]
    BY DEF StoreInv, TypeOK
  <2> QED BY <1>2, <2>1, <2>2 DEF StoreInv, Written
<1>5. TypeOK'
  <2>1. receipts' \in [Keys -> {0} \cup DOMAIN ledger']
    BY <1>2, <1>3, <1>4
  <2>2. files' \subseteq DOMAIN ledger'
    BY <1>2, <1>3, <1>4
  <2>3. work' \in Job
    BY <1>2 DEF Job
  <2> QED BY <1>3, <2>1, <2>2, <2>3 DEF AppendReceipt, host, StoreInv, TypeOK,
             Job
<1>6. OncePerKey'
  BY <1>1, OncePerKeyAppended
<1>7. \A i \in DOMAIN ledger : KeyAt(i) \in Keys /\ KeyAt(i) # k
  BY <1>1, KeyIsNew, KeysTyped
<1>8. Remembered'
  <2>1. ASSUME NEW m \in Keys, receipts'[m] # 0
        PROVE  ledger'[receipts'[m]].pair[1] = m
    <3>1. CASE m = k
      BY <1>2, <1>3, <1>4, <3>1
    <3>2. CASE m # k
      <4>1. receipts'[m] = receipts[m] /\ receipts[m] \in DOMAIN ledger
        BY <1>2, <1>4, <2>1, <3>2
      <4> QED BY <4>1, <1>3, <2>1 DEF StoreInv, Remembered, KeyAt
    <3> QED BY <3>1, <3>2
  <2> QED BY <2>1 DEF Remembered, KeyAt
<1>9. Complete'
  <2>1. ASSUME NEW i \in DOMAIN ledger' PROVE receipts'[ledger'[i].pair[1]] = i
    <3>1. CASE i = n
      BY <1>2, <1>3, <1>4, <3>1
    <3>2. CASE i \in DOMAIN ledger
      <4> PICK m \in Keys : m = ledger[i].pair[1] /\ m # k
        BY <3>2, <1>7 DEF KeyAt
      <4>1. receipts[m] = i
        BY <3>2, <1>2 DEF StoreInv, Complete, KeyAt
      <4> QED BY <4>1, <3>2, <1>2, <1>3, <1>4
    <3> QED BY <3>1, <3>2, <1>3
  <2> QED BY <2>1 DEF Complete, KeyAt
<1>10. Written'
  <2>1. work'.stage = "file" /\ work' # None
    BY <1>2, NoneIsNoPair DEF Job
  <2> QED BY <2>1, <1>2, <1>3, <1>4 DEF Written, At
<1>11. Storing'
  <2>1. work'.stage = "file" /\ work'.pair = work.pair
    BY <1>2 DEF Job
  <2>2. receipts'[k] = n
    BY <1>2, <1>4
  <2> QED BY <2>1, <2>2, <1>2, <1>3 DEF Storing, At
<1> QED BY <1>5, <1>6, <1>8, <1>9, <1>10, <1>11 DEF StoreInv

(* What a record that was cut off leaves of the ledger.                    *)
LEMMA LeftBehind ==
  ASSUME StoreInv, At("append"), NEW part \in Left \cup {"none"}, Leaves(part)
  PROVE  /\ ledger' \in Seq(Piece)
         /\ DOMAIN ledger \subseteq DOMAIN ledger'
         /\ \A i \in DOMAIN ledger : ledger'[i] = ledger[i]
         /\ \A i \in DOMAIN ledger' : i \in DOMAIN ledger \/ i = Len(ledger')
         /\ OncePerKey'
<1>1. CASE part = "none"
  BY <1>1 DEF Leaves, StoreInv, TypeOK, OncePerKey
<1>2. CASE part # "none"
  <2>1. part \in CutParts \cup {"whole"} /\ Appends(part) /\ work # None
    BY <1>2 DEF Leaves, Left, At
  <2> QED BY <2>1, OneMore, OncePerKeyAppended
<1> QED BY <1>1, <1>2

LEMMA AppendFailsKeepsStore ==
  ASSUME StoreInv, NEW part \in Left, AppendFails(part)
  PROVE  StoreInv'
<1>1. /\ At("append") /\ Leaves(part) /\ refuse' = TRUE /\ work' = None
      /\ UNCHANGED <<files, up, receipts, dropAck>>
  BY DEF AppendFails
<1>2. /\ ledger' \in Seq(Piece)
      /\ DOMAIN ledger \subseteq DOMAIN ledger'
      /\ \A i \in DOMAIN ledger : ledger'[i] = ledger[i]
      /\ \A i \in DOMAIN ledger' : i \in DOMAIN ledger \/ i = Len(ledger')
      /\ OncePerKey'
  BY <1>1, LeftBehind
<1>3. receipts \in [Keys -> {0} \cup DOMAIN ledger]
  BY DEF StoreInv, TypeOK
<1>4. files = DOMAIN ledger
  BY <1>1 DEF StoreInv, Written, Storing, At
<1>5. TypeOK'
  <2>1. receipts' \in [Keys -> {0} \cup DOMAIN ledger']
    BY <1>1, <1>2, <1>3
  <2>2. files' \subseteq DOMAIN ledger'
    BY <1>1, <1>2, <1>4
  <2> QED BY <1>1, <1>2, <2>1, <2>2
          DEF AppendFails, Closes, StoreInv, TypeOK
<1>6. Remembered'
  BY <1>1, <1>2, <1>3 DEF StoreInv, Remembered, KeyAt
<1>7. Complete' /\ Storing'
  BY <1>1 DEF Complete, Storing
<1>8. Written'
  BY <1>1, <1>2, <1>4 DEF Written
<1> QED BY <1>2, <1>5, <1>6, <1>7, <1>8 DEF StoreInv

LEMMA WriteFileKeepsStore ==
  ASSUME StoreInv, WriteFile
  PROVE  StoreInv'
<1>1. /\ At("file") /\ work' = None
      /\ files' = files \cup {receipts[work.pair[1]]}
      /\ UNCHANGED <<ledger, up, receipts, refuse, dropAck>>
  BY DEF WriteFile
<1>2. receipts[work.pair[1]] = Len(ledger) /\ Len(ledger) \in DOMAIN ledger
  BY <1>1 DEF StoreInv, Storing, At
<1>3. files' = DOMAIN ledger
  BY <1>1, <1>2 DEF StoreInv, TypeOK, Written
<1>4. TypeOK'
  BY <1>1, <1>3 DEF WriteFile, Closes, Answers, StoreInv, TypeOK, Statuses
<1>5. OncePerKey' /\ Remembered' /\ Complete' /\ Storing' /\ Written'
  BY <1>1, <1>3 DEF StoreInv, OncePerKey, Remembered, Complete, Storing,
     Written, KeyAt
<1> QED BY <1>4, <1>5 DEF StoreInv

LEMMA WriteFileFailsKeepsStore ==
  ASSUME StoreInv, WriteFileFails
  PROVE  StoreInv'
<1>1. TypeOK'
  BY DEF WriteFileFails, Answers, host, StoreInv, TypeOK, Statuses
<1>2. OncePerKey' /\ Remembered' /\ Complete' /\ Storing' /\ Written'
  BY DEF WriteFileFails, StoreInv, OncePerKey, Remembered, Complete, Storing,
     Written, KeyAt
<1> QED BY <1>1, <1>2 DEF StoreInv

LEMMA CrashKeepsStore ==
  ASSUME StoreInv, NEW part \in CutParts \cup {"none"}, Crash(part)
  PROVE  StoreInv'
<1>1. /\ IF At("append") THEN Leaves(part)
         ELSE part = "none" /\ UNCHANGED ledger
      /\ up' = FALSE /\ receipts' = Forgotten /\ refuse' = FALSE
      /\ dropAck' = FALSE /\ work' = None
      /\ UNCHANGED files
  BY DEF Crash
<1>2. /\ ledger' \in Seq(Piece)
      /\ files \subseteq DOMAIN ledger'
      /\ \A i \in DOMAIN ledger' : i \in files \/ i = Len(ledger')
      /\ OncePerKey'
  <2>1. CASE At("append")
    <3>1. files = DOMAIN ledger
      BY <2>1 DEF StoreInv, Written, Storing, At
    <3> QED BY <1>1, <2>1, <3>1, LeftBehind DEF Left
  <2>2. CASE ~At("append")
    BY <1>1, <2>2 DEF StoreInv, TypeOK, Written, OncePerKey
  <2> QED BY <2>1, <2>2
<1>3. TypeOK'
  BY <1>1, <1>2 DEF Crash, Closes, Forgotten, StoreInv, TypeOK
<1>4. Remembered' /\ Complete' /\ Storing' /\ Written'
  BY <1>1, <1>2 DEF Remembered, Forgotten, Complete, Storing, Written
<1> QED BY <1>2, <1>3, <1>4 DEF StoreInv

(* A service that starts has made every effect file good.                  *)
LEMMA BindKeepsStore ==
  ASSUME StoreInv, Bind
  PROVE  StoreInv'
<1>1. /\ Loaded = DOMAIN ledger
      /\ ReceiptsOf(Loaded) \in [Keys -> {0} \cup DOMAIN ledger]
      /\ \A k \in Keys : ReceiptsOf(Loaded)[k] # 0
                          => KeyAt(ReceiptsOf(Loaded)[k]) = k
      /\ \A i \in DOMAIN ledger : ReceiptsOf(Loaded)[KeyAt(i)] = i
  BY AllLoaded DEF Bind
<1>2. /\ ~up /\ up' = TRUE /\ receipts' = ReceiptsOf(Loaded)
      /\ files' = files \cup Loaded /\ refuse' \in BOOLEAN
      /\ dropAck' \in BOOLEAN
      /\ UNCHANGED <<ledger, work>>
  BY OutboxAssumption DEF Bind
<1>3. work = None /\ files' = DOMAIN ledger
  BY <1>1, <1>2 DEF StoreInv, TypeOK, Storing
<1>4. TypeOK'
  BY <1>1, <1>2, <1>3 DEF Bind, host, StoreInv, TypeOK
<1>5. OncePerKey' /\ Remembered' /\ Complete'
  BY <1>1, <1>2 DEF StoreInv, OncePerKey, Remembered, Complete, KeyAt
<1>6. Storing' /\ Written'
  BY <1>2, <1>3 DEF Storing, Written
<1> QED BY <1>4, <1>5, <1>6 DEF StoreInv

(* One that does not has made good those it read.                          *)
LEMMA FailedBindKeepsStore ==
  ASSUME StoreInv, BindRefuses \/ \E i \in DOMAIN ledger : BindFails(i)
  PROVE  StoreInv'
<1>1. /\ ~up /\ files \subseteq files' /\ files' \subseteq DOMAIN ledger
      /\ UNCHANGED <<ledger, up, receipts, refuse, dropAck, work>>
      /\ UNCHANGED <<session, link, call, request, reply, told>>
  BY DEF BindRefuses, BindFails, host, StoreInv, TypeOK, Loaded
<1>2. TypeOK'
  BY <1>1 DEF StoreInv, TypeOK
<1>3. OncePerKey' /\ Remembered' /\ Complete' /\ Storing' /\ Written'
  BY <1>1 DEF StoreInv, OncePerKey, Remembered, Complete, Storing, Written,
     KeyAt
<1> QED BY <1>2, <1>3 DEF StoreInv

LEMMA NextKeepsStore == StoreInv /\ [Next]_vars => StoreInv'
<1> SUFFICES ASSUME StoreInv, [Next]_vars PROVE StoreInv'
  OBVIOUS
<1>1. ASSUME NEW p \in Pairs, Handle(p) PROVE StoreInv'
  BY <1>1, QuietKeepsStore, StoreUntouched, DuplicateKeepsStore,
     DuplicateFailsKeepsStore, AdmitKeepsStore DEF Handle
<1>2. CASE ServiceStep
  BY <1>1, <1>2, AppendKeepsStore, WriteFileKeepsStore,
     WriteFileFailsKeepsStore, AppendFailsKeepsStore, QuietKeepsStore,
     StoreUntouched DEF ServiceStep
<1>3. CASE HostStep
  BY <1>3, HostKeepsStore, StoreUntouched
<1>4. CASE Process
  BY <1>4, CrashKeepsStore, BindKeepsStore, FailedBindKeepsStore DEF Process
<1>5. CASE UNCHANGED vars
  BY <1>5, StoreUntouched DEF vars, service, StoreInv, TypeOK
<1> QED BY <1>2, <1>3, <1>4, <1>5 DEF Next

LEMMA StoreAlways == Spec => []StoreInv
BY InitStores, NextKeepsStore, PTL DEF Spec

(* Whatever fails, crashes and is called again, the state of service and   *)
(* host is of the types Outbox states: a receipt points at a line of the   *)
(* ledger and an effect file belongs to one.                               *)
THEOREM TypeCorrect == Spec => []TypeOK
<1>1. StoreInv => TypeOK
  BY DEF StoreInv
<1> QED BY <1>1, StoreAlways, PTL

LEMMA StoreServes == StoreInv => OneReceiptServed
<1> SUFFICES ASSUME StoreInv, up, ~refuse, work = None
             PROVE  /\ files = DOMAIN ledger
                    /\ receipts = ReceiptsOf(DOMAIN ledger)
  BY DEF StoreInv, OneReceiptServed, ServedIsRecorded
<1>1. files = DOMAIN ledger
  BY DEF StoreInv, Written, At
<1>2. ASSUME NEW k \in Keys
      PROVE  receipts[k] = IF \E i \in DOMAIN ledger : ledger[i].pair[1] = k
                           THEN CHOOSE i \in DOMAIN ledger :
                                  ledger[i].pair[1] = k
                           ELSE 0
  <2>1. CASE \E i \in DOMAIN ledger : ledger[i].pair[1] = k
    <3> PICK c \in DOMAIN ledger :
          /\ c = CHOOSE i \in DOMAIN ledger : ledger[i].pair[1] = k
          /\ ledger[c].pair[1] = k
      BY <2>1
    <3> QED BY <2>1 DEF StoreInv, Complete, KeyAt
  <2>2. CASE ~\E i \in DOMAIN ledger : ledger[i].pair[1] = k
    BY <2>2 DEF StoreInv, TypeOK, Remembered, KeyAt
  <2> QED BY <2>1, <2>2
<1>3. receipts = [k \in Keys |-> receipts[k]]
  BY DEF StoreInv, TypeOK
<1> QED BY <1>1, <1>2, <1>3 DEF ReceiptsOf

(* For every way the writes fail, the crashes cut a record off and the     *)
(* calls are retried: no key is ever on the ledger twice, and between two  *)
(* deliveries a store that serves has every line in memory and an effect   *)
(* file for it.                                                            *)
THEOREM ServesOneReceipt == Spec => []OneReceiptServed
BY StoreAlways, StoreServes, PTL

-----------------------------------------------------------------------------
LEMMA InitCalls == Init => CallInv
BY DEF Init, CallInv, OneUnderWay, Heard, Touched, OnLedger, Silent, Pairs

(* What the host heard stays right in a step that touches no new pair and  *)
(* answers, if it does, rightly.                                           *)
LEMMA HeardKept ==
  ASSUME StoreInv, CallInv, UNCHANGED <<call, told>>,
         \A p \in Pairs : Touched(p)' => Touched(p),
         \A p \in Pairs : OnLedger(p)' /\ request' = p
                           => OnLedger(p) /\ request = p,
         Delivered \subseteq Delivered',
         \/ reply' \in {reply, Silent, "uncertain"}
         \/ /\ reply' = "refused"
            /\ call \in Pairs /\ (Doubted(call) \/ ~Touched(call)')
         \/ /\ reply' \in {"delivered", "duplicate"}
            /\ call \in Delivered'
  PROVE  Heard'
<1> PICK c : c = call
  OBVIOUS
<1>1. call' = c /\ told' = told
  OBVIOUS
<1>2. \A p \in Pairs : Touched(p)' => Doubted(p)' \/ call' = p
  BY DEF CallInv, Heard, Doubted
<1>3. \A p \in Pairs : OnLedger(p)' /\ request' = p => Doubted(p)'
  BY DEF CallInv, Heard, Doubted
<1>4. reply = "refused" => c \in Pairs
  BY DEF CallInv, OneUnderWay, StoreInv, TypeOK, Silent
<1>5. reply' = "refused" => ~Touched(c)' \/ Doubted(c)'
  <2>1. CASE reply' = "refused" /\ reply = "refused"
    BY <1>4, <2>1 DEF CallInv, Heard, Doubted
  <2>2. CASE reply' = "refused" /\ reply # "refused"
    BY <2>2 DEF Silent, Doubted
  <2> QED BY <2>1, <2>2
<1>6. reply' = "refused" => ~Touched(call)' \/ Doubted(call)'
  BY <1>1, <1>5 DEF Touched, OnLedger, Doubted
<1>7. reply' \in {"delivered", "duplicate"} => call' \in Delivered'
  BY <1>1 DEF CallInv, Heard, Silent
<1> QED BY <1>2, <1>3, <1>6, <1>7 DEF Heard

(* The ledger only grows, by the delivery that is being stored, and no     *)
(* effect file goes away.                                                  *)
Grows ==
  /\ files \subseteq files'
  /\ \A i \in DOMAIN ledger : i \in DOMAIN ledger' /\ ledger'[i] = ledger[i]
  /\ \A i \in DOMAIN ledger' :
       i \in DOMAIN ledger \/ (work # None /\ ledger'[i].pair = work.pair)

LEMMA LeavingGrows ==
  ASSUME StoreInv, work # None, files \subseteq files',
         NEW part \in Left \cup {"none"}, Leaves(part)
  PROVE  Grows
<1>1. CASE part = "none"
  BY <1>1 DEF Leaves, Grows
<1>2. CASE part # "none"
  <2> DEFINE n == Len(ledger) + 1
  <2>1. part \in CutParts \cup {"whole"} /\ Appends(part)
    BY <1>2 DEF Leaves, Left
  <2>2. /\ DOMAIN ledger' = DOMAIN ledger \cup {n}
        /\ \A i \in DOMAIN ledger : ledger'[i] = ledger[i]
        /\ ledger'[n] = [pair |-> work.pair, part |-> part]
    BY <2>1, OneMore
  <2>3. ledger'[n].pair = work.pair
    BY <2>2
  <2> HIDE DEF n
  <2> QED BY <2>2, <2>3 DEF Grows
<1> QED BY <1>1, <1>2

LEMMA NextGrows == StoreInv /\ [Next]_vars => Grows
<1> SUFFICES ASSUME StoreInv, [Next]_vars PROVE Grows
  OBVIOUS
<1>1. ASSUME NEW p \in Pairs, Handle(p) PROVE Grows
  BY <1>1 DEF Handle, Conflict, Duplicate, DuplicateFails, Refused, Admit,
     service, Grows
<1>2. CASE AppendReceipt
  <2>1. work # None /\ files' = files /\ Leaves("whole")
    BY <1>2 DEF AppendReceipt, At, Leaves
  <2> QED BY <2>1, LeavingGrows DEF Left
<1>3. ASSUME NEW part \in Left, AppendFails(part) PROVE Grows
  BY <1>3, LeavingGrows DEF AppendFails, At
<1>4. ASSUME NEW part \in CutParts \cup {"none"}, Crash(part) PROVE Grows
  <2>1. CASE At("append")
    BY <1>4, <2>1, LeavingGrows DEF Crash, At, Left
  <2>2. CASE ~At("append")
    BY <1>4, <2>2 DEF Crash, Grows
  <2> QED BY <2>1, <2>2
<1>5. CASE WriteFile \/ WriteFileFails \/ HandlerEnds
  BY <1>5 DEF WriteFile, WriteFileFails, HandlerEnds, service, Grows
<1>6. CASE Bind \/ BindRefuses \/ \E i \in DOMAIN ledger : BindFails(i)
  BY <1>6 DEF Bind, BindRefuses, BindFails, Grows
<1>7. CASE HostStep \/ UNCHANGED vars
  BY <1>7, HostKeepsStore DEF service, vars, Grows
<1> QED BY <1>1, <1>2, <1>3, <1>4, <1>5, <1>6, <1>7
        DEF Next, ServiceStep, Process

LEMMA GrowsByTheWork ==
  ASSUME StoreInv, Grows
  PROVE  /\ Delivered \subseteq Delivered'
         /\ \A p \in Pairs : OnLedger(p)' =>
                  OnLedger(p) \/ (work # None /\ work.pair = p)
<1>1. files \subseteq DOMAIN ledger
  BY DEF StoreInv, TypeOK
<1>2. Delivered \subseteq Delivered'
  BY <1>1 DEF Delivered, Grows
<1>3. \A p \in Pairs : OnLedger(p)' =>
        OnLedger(p) \/ (work # None /\ work.pair = p)
  BY DEF Grows, OnLedger
<1> QED BY <1>2, <1>3

(* A step that stores, fails or restarts: it answers no call, but may say  *)
(* that it cannot tell.                                                    *)
LEMMA StorageHears ==
  ASSUME StoreInv, CallInv, Grows, UNCHANGED <<call, told>>,
         request' \in {request, None},
         work' = None \/ (work # None /\ work'.pair = work.pair),
         reply' \in {reply, Silent, "uncertain"}
           \/ (reply' = "delivered" /\ call \in Delivered')
  PROVE  Heard'
<1>1. \A p \in Pairs : Touched(p)' => Touched(p)
  BY GrowsByTheWork, NoneIsNoPair DEF Touched
<1>2. ASSUME NEW p \in Pairs, OnLedger(p)', request' = p
      PROVE  OnLedger(p) /\ request = p
  BY <1>2, GrowsByTheWork, NoneIsNoPair DEF CallInv, OneUnderWay
<1> QED BY <1>1, <1>2, GrowsByTheWork, HeardKept

LEMMA ReadingHears ==
  ASSUME StoreInv, CallInv, NEW p \in Pairs, Handle(p)
  PROVE  CallInv'
<1>1. /\ request = p /\ work = None /\ request' = None
      /\ UNCHANGED <<ledger, call, told, link, session>>
      /\ request # None /\ session # "none"
  BY NoneIsNoPair DEF Handle, Conflict, Duplicate, DuplicateFails, Refused,
     Admit, Reads, service, host, CallInv, OneUnderWay
<1>2. session = "open" => call = p /\ reply = Silent
  BY <1>1 DEF CallInv, OneUnderWay
<1>3. Delivered \subseteq Delivered'
  BY NextGrows, GrowsByTheWork DEF Next, ServiceStep
<1>4. ASSUME NEW q \in Pairs
      PROVE  /\ OnLedger(q)' <=> OnLedger(q)
             /\ request' # q
  BY <1>1, NoneIsNoPair DEF OnLedger
<1>5. ASSUME work' = None PROVE \A q \in Pairs : Touched(q)' <=> OnLedger(q)
  BY <1>4, <1>5 DEF Touched
<1>6. ASSUME work' = None, reply' \in {reply, Silent} \cup Statuses,
             reply' # reply => session = "open",
             \/ reply' \in {reply, Silent, "uncertain"}
             \/ reply' = "refused" /\ (Doubted(p) \/ ~OnLedger(p))
             \/ reply' \in {"delivered", "duplicate"} /\ p \in Delivered'
      PROVE  CallInv'
  <2>1. Heard'
    <3>1. \A q \in Pairs : Touched(q)' => Touched(q)
      BY <1>5, <1>6 DEF Touched
    <3>2. CASE reply' \in {reply, Silent, "uncertain"}
      BY <1>1, <1>3, <1>4, <3>1, <3>2, HeardKept
    <3>3. CASE reply' \notin {reply, Silent, "uncertain"}
      <4>1. call = p
        BY <1>2, <1>6, <3>3
      <4>2. reply' = "refused" => Doubted(p) \/ ~Touched(p)'
        BY <1>5, <1>6, <3>3
      <4> PICK c : c = call
        OBVIOUS
      <4>3. reply' = "refused" =>
              call \in Pairs /\ (Doubted(call) \/ ~Touched(call)')
        BY <1>1, <4>1, <4>2 DEF Touched, OnLedger, Doubted
      <4> QED BY <1>1, <1>3, <1>4, <1>6, <3>1, <3>3, <4>1, <4>3, HeardKept
    <3> QED BY <3>2, <3>3
  <2>2. OneUnderWay'
    BY <1>1, <1>2, <1>6, NoneIsNoPair DEF CallInv, OneUnderWay
  <2> QED BY <2>1, <2>2 DEF CallInv
<1>7. CASE Conflict(p)
  <2>1. ~OnLedger(p)
    BY <1>7 DEF Conflict, OnLedger, StoreInv, TypeOK, OncePerKey, Remembered,
       KeyAt, Pairs
  <2> QED BY <1>1, <1>6, <1>7, <2>1
          DEF Conflict, Answers, service, Statuses
<1>8. CASE Duplicate(p)
  <2>1. p \in Delivered'
    BY <1>1, <1>8 DEF Duplicate, Known, Delivered
  <2> QED BY <1>1, <1>6, <1>8, <2>1 DEF Duplicate, Answers, Statuses
<1>9. CASE DuplicateFails(p)
  BY <1>1, <1>6, <1>9 DEF DuplicateFails, Answers, Statuses
<1>10. CASE Refused(p)
  <2>1. Doubted(p) \/ ~OnLedger(p)
    BY <1>1 DEF CallInv, Heard
  <2> QED BY <1>1, <1>6, <1>10, <2>1 DEF Refused, Answers, service, Statuses
<1>11. CASE Admit(p)
  <2>1. /\ work' # None /\ work'.pair = p /\ reply' = reply
    BY <1>11, NoneIsNoPair DEF Admit, Job
  <2>2. \A q \in Pairs : Touched(q)' => Touched(q)
    BY <1>1, <1>4, <2>1 DEF Touched
  <2>3. Heard'
    BY <1>1, <1>3, <1>4, <2>1, <2>2, HeardKept
  <2>4. OneUnderWay'
    BY <1>1, <1>2, <2>1 DEF CallInv, OneUnderWay
  <2> QED BY <2>3, <2>4 DEF CallInv
<1> QED BY <1>7, <1>8, <1>9, <1>10, <1>11 DEF Handle

LEMMA StoringHears ==
  ASSUME StoreInv, CallInv,
         \/ AppendReceipt \/ WriteFile \/ WriteFileFails \/ HandlerEnds
         \/ \E part \in Left : AppendFails(part)
  PROVE  CallInv'
<1>1. Grows
  BY NextGrows DEF Next, ServiceStep
<1>2. CASE AppendReceipt
  <2>1. work \in Job /\ work # None /\ work' = [work EXCEPT !.stage = "file"]
    BY <1>2 DEF AppendReceipt, At, StoreInv, TypeOK, Job
  <2>2. work' \in Job /\ work'.pair = work.pair /\ work' # None
    <3>1. work' \in Job /\ work'.pair = work.pair
      BY <2>1 DEF Job
    <3> QED BY <3>1, NoneIsNoPair
  <2>3. /\ work'.pair = work.pair /\ work' # None
        /\ UNCHANGED <<session, link, call, request, reply, told>>
    BY <1>2, <2>2 DEF AppendReceipt, host
  <2>4. Heard'
    BY <1>1, <2>1, <2>3, StorageHears
  <2>5. OneUnderWay'
    BY <2>1, <2>3 DEF CallInv, OneUnderWay
  <2> QED BY <2>4, <2>5 DEF CallInv
<1>3. CASE WriteFile
  <2>1. /\ At("file") /\ work # None /\ work' = None /\ UNCHANGED <<call, told>>
        /\ request' \in {request, None}
        /\ files' = files \cup {receipts[work.pair[1]]}
        /\ ledger' = ledger
    BY <1>3 DEF WriteFile, At, Closes
  <2>2. receipts[work.pair[1]] = Len(ledger)
        /\ ledger[Len(ledger)].pair = work.pair
    BY <2>1 DEF StoreInv, Storing
  <2>3. work.pair \in Delivered'
    BY <2>1, <2>2 DEF Delivered
  <2>4. reply' = reply \/ (reply' = "delivered" /\ session = "open")
    BY <1>3 DEF WriteFile, Answers
  <2>5. session = "open" => call = work.pair
    BY <2>1 DEF CallInv, OneUnderWay
  <2>6. Heard'
    BY <1>1, <2>1, <2>3, <2>4, <2>5, StorageHears
  <2>7. call \in Pairs => call # None
    BY NoneIsNoPair
  <2>8. work.pair \in Pairs
    BY <2>1 DEF StoreInv, TypeOK
  <2>9. OneUnderWay'
    BY <1>3, <2>1, <2>4, <2>5, <2>7, <2>8
       DEF WriteFile, Closes, CallInv, OneUnderWay
  <2> QED BY <2>6, <2>9 DEF CallInv
<1>4. CASE WriteFileFails
  <2>1. /\ At("file") /\ work # None /\ work' = None
        /\ UNCHANGED <<call, told, request, session, link>>
    BY <1>4 DEF WriteFileFails, At, host
  <2>2. reply' = reply \/ (reply' = "uncertain" /\ session = "open")
    BY <1>4 DEF WriteFileFails, Answers
  <2>3. session = "open" => call = work.pair /\ call # None
    BY <2>1, NoneIsNoPair DEF CallInv, OneUnderWay, StoreInv, TypeOK
  <2>4. Heard'
    BY <1>1, <2>1, <2>2, StorageHears
  <2>5. OneUnderWay'
    BY <2>1, <2>2, <2>3 DEF CallInv, OneUnderWay
  <2> QED BY <2>4, <2>5 DEF CallInv
<1>5. CASE HandlerEnds
  <2>1. /\ work = None /\ work' = None /\ request' = None /\ session' = "none"
        /\ UNCHANGED <<call, told, reply, link>>
        /\ session = "half" /\ request = None
    BY <1>5 DEF HandlerEnds, service, host
  <2>2. Heard'
    BY <1>1, <2>1, StorageHears
  <2>3. OneUnderWay'
    BY <2>1 DEF CallInv, OneUnderWay
  <2> QED BY <2>2, <2>3 DEF CallInv
<1>6. ASSUME NEW part \in Left, AppendFails(part) PROVE CallInv'
  <2>1. /\ work' = None /\ request' = None /\ session' = "none"
        /\ link' = IF link = "open" THEN "stale" ELSE link
        /\ UNCHANGED <<call, told, reply>>
    BY <1>6 DEF AppendFails, Closes
  <2>2. Heard'
    BY <1>1, <2>1, StorageHears
  <2>3. OneUnderWay'
    BY <2>1 DEF CallInv, OneUnderWay
  <2> QED BY <2>2, <2>3 DEF CallInv
<1> QED BY <1>2, <1>3, <1>4, <1>5, <1>6

LEMMA ProcessHears ==
  ASSUME StoreInv, CallInv, Process
  PROVE  CallInv'
<1>1. Grows
  BY NextGrows DEF Next
<1>2. ASSUME NEW part \in CutParts \cup {"none"}, Crash(part) PROVE CallInv'
  <2>1. /\ work' = None /\ request' = None /\ session' = "none"
        /\ link' = IF link = "open" THEN "stale" ELSE link
        /\ UNCHANGED <<call, told>> /\ reply' \in {reply, Silent}
    BY <1>2 DEF Crash, Closes
  <2>2. Heard'
    BY <1>1, <2>1, StorageHears
  <2>3. OneUnderWay'
    BY <2>1 DEF CallInv, OneUnderWay
  <2> QED BY <2>2, <2>3 DEF CallInv
<1>3. CASE Bind \/ BindRefuses \/ \E i \in DOMAIN ledger : BindFails(i)
  <2>1. /\ ~up /\ UNCHANGED <<work, session, link, call, request, reply, told>>
    BY <1>3 DEF Bind, BindRefuses, BindFails, host
  <2>2. work = None
    BY <2>1 DEF StoreInv, Storing
  <2>3. Heard'
    BY <1>1, <2>1, <2>2, StorageHears
  <2>4. OneUnderWay'
    BY <2>1 DEF CallInv, OneUnderWay
  <2> QED BY <2>3, <2>4 DEF CallInv
<1> QED BY <1>2, <1>3 DEF Process

(* A caller is told one thing at a time, and "ok" of what was delivered.   *)
LEMMA TellsRightly ==
  ASSUME StoreInv, CallInv, HostStep
  PROVE  told' = told \/ \E p \in Pairs, o \in Outcomes :
                            (o = "ok" => p \in Delivered) /\ Told(p, o)
<1>1. call # None => call \in Pairs
  BY DEF StoreInv, TypeOK
<1>2. {"uncertain", "lost", "unavailable"} \subseteq Outcomes
  BY DEF Outcomes
<1>3. CASE OpenSession \/ OpenFails \/ ConnectionBreaks
  BY <1>3 DEF OpenSession, OpenFails, ConnectionBreaks, host
<1>4. CASE DeliverReturns
  <2>1. Outcome(reply) \in Outcomes
    BY DEF Outcome, Outcomes
  <2>2. Outcome(reply) = "ok" => reply \in {"delivered", "duplicate"}
    BY DEF Outcome
  <2>3. Outcome(reply) = "ok" => call \in Delivered
    BY <2>2 DEF CallInv, Heard
  <2> QED BY <1>1, <1>4, <2>1, <2>3 DEF DeliverReturns
<1>5. CASE DeliverTimesOut \/ HostRestarts
  BY <1>1, <1>2, <1>5 DEF DeliverTimesOut, HostRestarts
<1>6. CASE \E p \in Pairs : DeliverUnreachable(p) \/ Deliver(p)
  BY <1>2, <1>6 DEF DeliverUnreachable, Deliver
<1> QED BY <1>3, <1>4, <1>5, <1>6 DEF HostStep

LEMMA DoubtKept ==
  ASSUME StoreInv, CallInv, HostStep
  PROVE  \A p \in Pairs : Doubted(p) => Doubted(p)'
<1>1. told \in [Pairs -> SUBSET Outcomes]
  BY DEF StoreInv, TypeOK
<1>2. \A p \in Pairs : told[p] \subseteq told'[p]
  BY <1>1, TellsRightly DEF Told
<1> QED BY <1>2 DEF Doubted

(* A caller that leaves its call, and whose delivery may have reached the  *)
(* service, is not told "unavailable".                                     *)
LEMMA LeavingHears ==
  ASSUME StoreInv, CallInv, UNCHANGED service, NEW o, o # "unavailable",
         call # None, Told(call, o), call' = None,
         reply' = Silent, request' \in {request, None}
  PROVE  Heard'
<1>1. /\ call \in Pairs /\ ledger' = ledger /\ work' = work
      /\ told \in [Pairs -> SUBSET Outcomes]
  BY DEF StoreInv, TypeOK, service
<1>2. ASSUME NEW p \in Pairs, Doubted(p) \/ p = call PROVE Doubted(p)'
  BY <1>1, <1>2 DEF Doubted, Told
<1>3. \A p \in Pairs : p # None
  BY NoneIsNoPair
<1>4. \A p \in Pairs : Touched(p)' => Doubted(p)'
  BY <1>1, <1>2, <1>3 DEF Touched, OnLedger, CallInv, Heard
<1>5. \A p \in Pairs : OnLedger(p)' /\ request' = p => Doubted(p)'
  BY <1>1, <1>2, <1>3 DEF OnLedger, CallInv, Heard
<1> QED BY <1>4, <1>5 DEF Heard, Silent

LEMMA HostHears ==
  ASSUME StoreInv, CallInv, HostStep
  PROVE  CallInv'
<1>1. /\ UNCHANGED service
      /\ ledger' = ledger /\ files' = files /\ work' = work
  BY HostKeepsStore DEF service
<1>2. Grows
  BY <1>1 DEF Grows
<1>3. \A p \in Pairs : p # None
  BY NoneIsNoPair
<1>t. /\ session = "open" => link = "open"
      /\ call \in {None} \cup Pairs
      /\ session \in {"none", "open", "half"}
      /\ told \in [Pairs -> SUBSET Outcomes]
  BY DEF StoreInv, TypeOK
<1>4. CASE OpenSession \/ OpenFails \/ ConnectionBreaks
  <2>1. /\ UNCHANGED <<call, told>> /\ request' \in {request, None}
        /\ reply' \in {reply, Silent}
    BY <1>4 DEF OpenSession, OpenFails, ConnectionBreaks, host
  <2>2. /\ \A p \in Pairs : Touched(p)' => Touched(p)
        /\ \A p \in Pairs : OnLedger(p)' /\ request' = p
                            => OnLedger(p) /\ request = p
    BY <1>1, <1>3, <2>1 DEF Touched, OnLedger
  <2>3. Heard'
    BY <1>2, <2>1, <2>2, GrowsByTheWork, HeardKept
  <2>4. OneUnderWay'
    BY <1>1, <1>4, <1>t DEF CallInv, OneUnderWay, OpenSession, OpenFails,
       ConnectionBreaks, host
  <2> QED BY <2>3, <2>4 DEF CallInv
<1>5. ASSUME NEW p \in Pairs, DeliverUnreachable(p) PROVE CallInv'
  <2>1. /\ Told(p, "unavailable")
        /\ UNCHANGED <<session, link, call, request, reply>>
        /\ UNCHANGED <<ledger, files, work>>
    BY <1>1, <1>5 DEF DeliverUnreachable
  <2>2. OneUnderWay'
    BY <2>1 DEF CallInv, OneUnderWay
  <2>3. \A q \in Pairs : Doubted(q) => Doubted(q)'
    BY DoubtKept
  <2>4. call = None /\ reply = Silent
    BY <1>5 DEF DeliverUnreachable, CallInv, OneUnderWay
  <2>5. Heard'
    BY <2>1, <2>3, <2>4
       DEF CallInv, Heard, Touched, OnLedger, Silent
  <2> QED BY <2>2, <2>5 DEF CallInv
<1>6. ASSUME NEW p \in Pairs, Deliver(p) PROVE CallInv'
  <2>1. /\ call = None /\ call' = p /\ link \in {"open", "stale"}
        /\ request' = IF link = "open" THEN p ELSE request
        /\ UNCHANGED <<session, link, reply, told, ledger, files, work>>
    BY <1>1, <1>6 DEF Deliver
  <2>2. reply = Silent
    BY <2>1 DEF CallInv, OneUnderWay
  <2>3. \A q \in Pairs : Touched(q) => Doubted(q)
    BY <1>3, <2>1 DEF CallInv, Heard
  <2>4. session = "open" => request = None /\ work = None
    <3>1. work # None => work.pair \in Pairs
      BY DEF StoreInv, TypeOK
    <3> QED BY <1>3, <2>1, <3>1 DEF CallInv, OneUnderWay, StoreInv, TypeOK
  <2>5. OneUnderWay'
    BY <1>3, <1>t, <2>1, <2>2, <2>4 DEF CallInv, OneUnderWay
  <2>6. \A q \in Pairs : Touched(q)' => Touched(q) \/ q = p
    BY <2>1 DEF Touched, OnLedger
  <2>7. \A q \in Pairs : /\ OnLedger(q)' => OnLedger(q)
                         /\ OnLedger(q) => Touched(q)
                         /\ Doubted(q)' <=> Doubted(q)
    BY <2>1 DEF OnLedger, Touched, Doubted
  <2>8. Heard'
    BY <2>1, <2>2, <2>3, <2>6, <2>7 DEF Heard, Silent
  <2> QED BY <2>5, <2>8 DEF CallInv
<1>7. CASE DeliverReturns
  <2>1. /\ call # None /\ call \in Pairs /\ reply # Silent
        /\ Told(call, Outcome(reply)) /\ call' = None /\ reply' = Silent
        /\ UNCHANGED <<session, link, request, ledger, files, work>>
    BY <1>1, <1>7, <1>t DEF DeliverReturns
  <2>2. OneUnderWay'
    BY <2>1 DEF CallInv, OneUnderWay
  <2>3. CASE reply = "refused"
    <3>1. \A q \in Pairs : Touched(q) => Doubted(q)
      BY <2>1, <2>3 DEF CallInv, Heard
    <3>2. \A q \in Pairs : Touched(q)' => Doubted(q)'
      BY <2>1, <3>1, DoubtKept DEF Touched, OnLedger
    <3>3. \A q \in Pairs : OnLedger(q)' => Touched(q)'
      BY DEF Touched
    <3>4. Heard'
      BY <2>1, <3>2, <3>3 DEF Heard, Silent
    <3> QED BY <2>2, <3>4 DEF CallInv
  <2>4. CASE reply # "refused"
    <3>1. reply \in {"delivered", "duplicate", "uncertain"}
      BY <2>1, <2>4 DEF StoreInv, TypeOK, Statuses
    <3>2. Outcome(reply) # "unavailable"
      BY <3>1 DEF Outcome
    <3>3. Heard'
      BY <1>1, <2>1, <3>2, LeavingHears
    <3> QED BY <2>2, <3>3 DEF CallInv
  <2> QED BY <2>3, <2>4
<1>8. CASE DeliverTimesOut \/ (HostRestarts /\ call # None)
  <2>1. /\ call # None /\ call' = None /\ HangUp /\ link' \in {"idle", "failed"}
        /\ \E o \in {"uncertain", "lost"} : Told(call, o)
    BY <1>8 DEF DeliverTimesOut, HostRestarts
  <2>2. request' \in {request, None} /\ reply' = Silent
    BY <2>1 DEF HangUp
  <2>3. Heard'
    BY <1>1, <2>1, <2>2, LeavingHears
  <2>4. /\ session' # "open"
        /\ session' = "none" => session = "none" /\ request' = request
    BY <1>t, <2>1 DEF HangUp
  <2>5. OneUnderWay'
    BY <1>1, <2>1, <2>2, <2>4 DEF CallInv, OneUnderWay
  <2> QED BY <2>3, <2>5 DEF CallInv
<1>9. CASE HostRestarts /\ call = None
  <2>1. /\ call' = None /\ HangUp /\ link' = "idle"
        /\ UNCHANGED <<call, told>>
    BY <1>9 DEF HostRestarts
  <2>2. request' \in {request, None} /\ reply' = Silent
    BY <2>1 DEF HangUp
  <2>3. /\ \A p \in Pairs : Touched(p)' => Touched(p)
        /\ \A p \in Pairs : OnLedger(p)' /\ request' = p
                            => OnLedger(p) /\ request = p
    BY <1>1, <1>3, <2>2 DEF Touched, OnLedger
  <2>4. Heard'
    BY <1>2, <2>1, <2>2, <2>3, GrowsByTheWork, HeardKept
  <2>5. /\ session' # "open"
        /\ session' = "none" => session = "none" /\ request' = request
    BY <1>t, <2>1 DEF HangUp
  <2>6. OneUnderWay'
    BY <1>1, <2>1, <2>2, <2>5 DEF CallInv, OneUnderWay
  <2> QED BY <2>4, <2>6 DEF CallInv
<1> QED BY <1>4, <1>5, <1>6, <1>7, <1>8, <1>9 DEF HostStep

LEMMA NextKeepsCalls == StoreInv /\ CallInv /\ [Next]_vars => CallInv'
<1> SUFFICES ASSUME StoreInv, CallInv, [Next]_vars PROVE CallInv'
  OBVIOUS
<1>1. CASE ServiceStep
  BY <1>1, ReadingHears, StoringHears DEF ServiceStep
<1>2. CASE HostStep
  BY <1>2, HostHears
<1>3. CASE Process
  BY <1>3, ProcessHears
<1>4. CASE UNCHANGED vars
  BY <1>4 DEF vars, CallInv, OneUnderWay, Heard, Touched, OnLedger, Doubted,
     Delivered
<1> QED BY <1>1, <1>2, <1>3, <1>4 DEF Next

LEMMA CallsAlways == Spec => [](StoreInv /\ CallInv)
<1>1. Init => StoreInv /\ CallInv
  BY InitStores, InitCalls
<1>2. StoreInv /\ CallInv /\ [Next]_vars => (StoreInv /\ CallInv)'
  BY NextKeepsStore, NextKeepsCalls
<1> QED BY <1>1, <1>2, PTL DEF Spec

(* For every order of calls, lost replies, failed writes, crashes and new  *)
(* hosts: what the host only ever heard to be unavailable is not on the    *)
(* ledger.                                                                 *)
THEOREM UnavailableMeansNot == Spec => []UnavailableIsNotDelivered
<1>1. StoreInv /\ CallInv => UnavailableIsNotDelivered
  BY DEF CallInv, Heard, Touched, OnLedger, Doubted, UnavailableIsNotDelivered
<1> QED BY <1>1, CallsAlways, PTL

-----------------------------------------------------------------------------
(* An effect file is only written for a receipt that is on the ledger.     *)
LEMMA ReceiptFirst == StoreInv /\ [Next]_vars => files' \subseteq DOMAIN ledger
<1> SUFFICES ASSUME StoreInv, [Next]_vars PROVE files' \subseteq DOMAIN ledger
  OBVIOUS
<1>1. files \subseteq DOMAIN ledger /\ Loaded \subseteq DOMAIN ledger
  BY DEF StoreInv, TypeOK, Loaded
<1>2. ASSUME NEW p \in Pairs, Duplicate(p) PROVE files' \subseteq DOMAIN ledger
  <2>1. receipts[p[1]] \in DOMAIN ledger
    BY <1>2 DEF Duplicate, Known, StoreInv, TypeOK, Pairs
  <2> QED BY <1>1, <1>2, <2>1 DEF Duplicate
<1>3. ASSUME NEW p \in Pairs,
             Conflict(p) \/ DuplicateFails(p) \/ Refused(p) \/ Admit(p)
      PROVE  files' = files
  BY <1>3 DEF Conflict, DuplicateFails, Refused, Admit, service
<1>4. CASE WriteFile
  <2>1. receipts[work.pair[1]] \in DOMAIN ledger
    BY <1>4 DEF WriteFile, At, StoreInv, Storing
  <2> QED BY <1>1, <1>4, <2>1 DEF WriteFile
<1>5. ASSUME \/ AppendReceipt \/ WriteFileFails \/ HandlerEnds
             \/ \E part \in Left : AppendFails(part)
             \/ \E part \in CutParts \cup {"none"} : Crash(part)
      PROVE  files' = files
  BY <1>5 DEF AppendReceipt, WriteFileFails, HandlerEnds, AppendFails, Crash,
     service
<1>6. CASE Bind \/ BindRefuses \/ \E i \in DOMAIN ledger : BindFails(i)
  BY <1>1, <1>6 DEF Bind, BindRefuses, BindFails
<1>7. ASSUME HostStep \/ UNCHANGED vars PROVE files' = files
  BY <1>7, HostKeepsStore DEF service, vars
<1> QED BY <1>1, <1>2, <1>3, <1>4, <1>5, <1>6, <1>7
        DEF Next, ServiceStep, Process, Handle

LEMMA InitPromises == Init => Promise!Init
BY DEF Init, Promise!Init, Promise!Pairs, Pairs

LEMMA DeliversOnce ==
  StoreInv /\ [Next]_vars => Promise!Deliver
<1> SUFFICES ASSUME StoreInv, [Next]_vars PROVE Promise!Deliver
  OBVIOUS
<1> DEFINE n == Len(ledger)
<1>1. /\ files \subseteq files' /\ files' \subseteq DOMAIN ledger
      /\ \A i \in DOMAIN ledger : ledger'[i] = ledger[i]
  BY NextGrows, ReceiptFirst DEF Grows
<1>2. \A i \in DOMAIN ledger : i \in files \/ i = n
  BY DEF StoreInv, Written
<1> HIDE DEF n
<1>3. CASE files' = files
  BY <1>1, <1>3 DEF Promise!Deliver
<1>4. CASE files' # files
  <2>1. n \in DOMAIN ledger /\ n \notin files /\ files' = files \cup {n}
    BY <1>1, <1>2, <1>4
  <2> PICK p \in Pairs : p = ledger[n].pair
    BY <2>1, KeysTyped
  <2>2. Delivered' = Delivered \cup {p}
    BY <1>1, <2>1 DEF Delivered
  <2>3. \A q \in Delivered : q[1] # p[1]
    BY <1>1, <2>1 DEF Delivered, StoreInv, OncePerKey
  <2> QED BY <2>2, <2>3 DEF Promise!Deliver, Promise!Fresh, Promise!Pairs,
             Delivered, Pairs
<1> QED BY <1>3, <1>4

LEMMA TellsWhatWas ==
  StoreInv /\ CallInv /\ [Next]_vars => Promise!Tell
<1> SUFFICES ASSUME StoreInv, CallInv, [Next]_vars PROVE Promise!Tell
  OBVIOUS
<1>1. CASE HostStep
  BY <1>1, TellsRightly DEF Told, Delivered, Promise!Tell, Promise!Pairs, Pairs
<1>2. ASSUME NEW p \in Pairs, Handle(p) PROVE told' = told
  BY <1>2 DEF Handle, Conflict, Duplicate, DuplicateFails, Refused, Admit, host
<1>3. ASSUME ServiceStep PROVE told' = told
  BY <1>2, <1>3 DEF ServiceStep, AppendReceipt, WriteFile, WriteFileFails,
     HandlerEnds, AppendFails, host
<1>4. ASSUME Process \/ UNCHANGED vars PROVE told' = told
  BY <1>4 DEF Process, Crash, Bind, BindRefuses, BindFails, host, vars
<1> QED BY <1>1, <1>3, <1>4 DEF Next, Promise!Tell

(* Host and service implement ExactlyOnce: every step of theirs delivers   *)
(* nothing or one pair whose key is new, takes no delivery back, and tells *)
(* "ok" only of a pair that was delivered.                                 *)
THEOREM PromiseKept == Spec => ImplementsExactlyOnce
<1>1. StoreInv /\ CallInv /\ [Next]_vars => [Promise!Next]_(Promise!vars)
  BY NextKeepsStore, DeliversOnce, TellsWhatWas DEF Promise!Next
<1> QED BY <1>1, InitPromises, CallsAlways, PTL
        DEF Spec, ImplementsExactlyOnce, Promise!Spec
=============================================================================
