---------------------------- MODULE LedgerProofs ----------------------------
(***************************************************************************)
(* Theorems about Ledger, for any number of records, crashes and cuts: the *)
(* types, and that it implements DurableLog.                               *)
(***************************************************************************)
EXTENDS Ledger, SequenceTheorems, FiniteSetTheorems, TLAPS

USE DEF vars

Phases == {"closed", "trimming", "scanning", "open", "refused"}

LEMMA CutsTyped ==
  /\ MaxRecords \in Nat /\ MaxCrashes \in Nat /\ MaxCuts \in Nat
BY LedgerAssumption

LEMMA PieceFields ==
  ASSUME NEW p \in PieceRec
  PROVE  /\ p.id \in 1..MaxRecords /\ p.prev \in 0..MaxRecords
         /\ p.part \in CutOffParts
         /\ \A part \in CutOffParts :
              /\ [p EXCEPT !.part = part] \in PieceRec
              /\ [p EXCEPT !.part = part].id = p.id
BY DEF PieceRec

-----------------------------------------------------------------------------
LEMMA PrefixTyped ==
  ASSUME NEW f \in Seq(PieceRec), NEW n \in Nat, n <= Len(f)
  PROVE  /\ SubSeq(f, 1, n) \in Seq(PieceRec)
         /\ Len(SubSeq(f, 1, n)) = n
         /\ DOMAIN SubSeq(f, 1, n) = 1..n
         /\ \A i \in 1..n : SubSeq(f, 1, n)[i] = f[i]
<1>1. \A i \in 1..n : f[i] \in PieceRec
  BY LenProperties, ElementOfSeq
<1>2. /\ SubSeq(f, 1, n) \in Seq(PieceRec)
      /\ Len(SubSeq(f, 1, n)) = IF 1 <= n THEN n - 1 + 1 ELSE 0
      /\ \A i \in 1 .. n - 1 + 1 : SubSeq(f, 1, n)[i] = f[1 + i - 1]
  BY <1>1, SubSeqProperties
<1>3. \A i \in 1..n : SubSeq(f, 1, n)[i] = f[i]
  BY <1>2, LenProperties
<1>4. Len(SubSeq(f, 1, n)) = n
  BY <1>2
<1> QED BY <1>2, <1>3, <1>4, LenProperties

LEMMA TrimmedIs ==
  ASSUME NEW f \in Seq(PieceRec), TornTail(f)
  PROVE  /\ Trimmed(f) \in Seq(PieceRec)
         /\ \E i \in DOMAIN f : /\ Broken(f) = {i} /\ Min(Broken(f)) = i
                                /\ Trimmed(f) = SubSeq(f, 1, i - 1)
<1>1. DOMAIN f = 1..Len(f) /\ Len(f) \in Nat
  BY LenProperties
<1>2. PICK i \in 1..Len(f) : Broken(f) = {i}
  BY <1>1 DEF TornTail, Lines
<1>3. Min({i}) = i
  BY <1>1 DEF Min
<1>4. Trimmed(f) = SubSeq(f, 1, i - 1)
  BY <1>2, <1>3 DEF Trimmed
<1>5. i - 1 \in Nat /\ i - 1 <= Len(f)
  BY <1>1
<1> QED BY <1>1, <1>2, <1>3, <1>4, <1>5, PrefixTyped

(* What a cut rewrite leaves is a prefix of what was to be written back,   *)
(* and maybe one piece more.                                               *)
LEMMA RewriteTyped ==
  ASSUME kept \in Seq(PieceRec), CutRewrite
  PROVE  file' \in Seq(PieceRec)
<1>1. PICK n \in 0..Len(kept) - 1 :
        \/ file' = SubSeq(kept, 1, n)
        \/ \E part \in CutOffParts :
             file' = Append(SubSeq(kept, 1, n),
                            [kept[n + 1] EXCEPT !.part = part])
  BY DEF CutRewrite
<1>2. Len(kept) \in Nat /\ n \in Nat /\ n <= Len(kept) /\ n + 1 \in 1..Len(kept)
  BY LenProperties
<1>3. SubSeq(kept, 1, n) \in Seq(PieceRec)
  BY <1>2, PrefixTyped
<1>4. ASSUME NEW part \in CutOffParts
      PROVE  [kept[n + 1] EXCEPT !.part = part] \in PieceRec
  <2>1. kept[n + 1] \in PieceRec /\ part \in CutOffParts
    BY <1>2, ElementOfSeq, CutsTyped
  <2> QED BY <2>1, PieceFields
<1>5. \A part \in CutOffParts :
        Append(SubSeq(kept, 1, n), [kept[n + 1] EXCEPT !.part = part])
          \in Seq(PieceRec)
  BY <1>3, <1>4, AppendProperties
<1> QED BY <1>1, <1>3, <1>5

LEMMA NextPiece ==
  ASSUME TypeOK, CanEmit, NEW part \in CutOffParts
  PROVE  /\ Piece(part) \in PieceRec
         /\ Piece(part).id = attempts + 1 /\ Piece(part).prev = last
         /\ Piece(part).part = part
         /\ attempts + 1 \in 1..MaxRecords
         /\ Append(file, Piece(part)) \in Seq(PieceRec)
<1>1. attempts + 1 \in 1..MaxRecords
  BY CutsTyped DEF TypeOK, CanEmit
<1>2. Piece(part) \in PieceRec
  BY <1>1 DEF Piece, PieceRec, TypeOK
<1> QED BY <1>1, <1>2, AppendProperties DEF Piece, TypeOK

LEMMA TypeStep == TypeOK /\ [Next]_vars => TypeOK'
<1> SUFFICES ASSUME TypeOK, [Next]_vars PROVE TypeOK'
  OBVIOUS
<1> USE CutsTyped
<1>0. /\ schema' = schema
      /\ attempts' \in {attempts, attempts + 1}
  BY DEF Next, Emit, CutOff, EmitFails, CrashInEmit, BootStep, TrimBegin,
     TrimWrite, TrimWriteFails, NothingToTrim, Scan, Refuse, Close, Retry,
     CrashInTrim, Crash
<1>1. CASE Emit
  BY <1>1, NextPiece, AppendProperties DEF Emit, TypeOK, CutOffParts, CanEmit
<1>2. ASSUME NEW part \in CutOffParts \cup {"none"},
             EmitFails(part) \/ CrashInEmit(part)
      PROVE  TypeOK'
  <2>1. CanEmit /\ Left(part)
    BY <1>2 DEF EmitFails, CrashInEmit
  <2>2. file' \in Seq(PieceRec)
    BY <2>1, NextPiece DEF Left, TypeOK
  <2>3. attempts' \in 0..MaxRecords
    BY <1>2, <2>1 DEF EmitFails, CrashInEmit, CanEmit, TypeOK
  <2>4. kept' = kept /\ kept = <<>>
    BY <1>2, <2>1 DEF EmitFails, CrashInEmit, CanEmit, TypeOK
  <2>5. /\ schema' = schema /\ acked' = acked /\ cuts' = cuts
        /\ phase' \in {"open", "closed"} /\ closed' \in BOOLEAN
        /\ last' \in {last, 0} /\ crashes' \in 0..MaxCrashes
    <3>1. phase = "open" /\ crashes \in 0..MaxCrashes /\ closed \in BOOLEAN
      BY <2>1 DEF CanEmit, TypeOK
    <3>2. CASE EmitFails(part)
      BY <3>1, <3>2 DEF EmitFails
    <3>3. CASE CrashInEmit(part)
      <4>1. crashes' \in 0..MaxCrashes
        BY <3>1, <3>3 DEF CrashInEmit
      <4> QED BY <3>1, <3>3, <4>1 DEF CrashInEmit
    <3> QED BY <1>2, <3>2, <3>3
  <2> QED BY <2>2, <2>3, <2>4, <2>5 DEF TypeOK
<1>3. CASE TrimBegin
  <2>1. kept' \in Seq(PieceRec)
    BY <1>3, TrimmedIs DEF TrimBegin, TypeOK
  <2> QED BY <1>3, <2>1, EmptySeq DEF TrimBegin, TypeOK
<1>4. CASE TrimWrite
  BY <1>4, EmptySeq DEF TrimWrite, TypeOK
<1>5. CASE TrimWriteFails \/ CrashInTrim
  <2>1. file' \in Seq(PieceRec)
    BY <1>5, RewriteTyped DEF TrimWriteFails, CrashInTrim, TypeOK
  <2>2. /\ kept' = <<>> /\ phase' \in {"scanning", "closed"}
        /\ cuts' \in 0..MaxCuts /\ crashes' \in 0..MaxCrashes
        /\ UNCHANGED <<schema, last, closed, attempts, acked>>
    BY <1>5 DEF TrimWriteFails, CrashInTrim, TypeOK
  <2> QED BY <2>1, <2>2, EmptySeq DEF TypeOK
<1>6. CASE NothingToTrim \/ Refuse \/ Close \/ Retry \/ Crash
  <2>1. /\ phase' \in {"scanning", "closed", "refused"}
        /\ last' \in {last, 0} /\ closed' \in BOOLEAN
        /\ crashes' \in 0..MaxCrashes /\ kept = <<>>
        /\ UNCHANGED <<schema, file, kept, attempts, acked, cuts>>
    <3>1. /\ crashes \in 0..MaxCrashes /\ closed \in BOOLEAN
          /\ kept # <<>> => phase = "trimming"
      BY DEF TypeOK
    <3>2. CASE NothingToTrim \/ Refuse \/ Retry
      BY <3>1, <3>2 DEF NothingToTrim, Refuse, Retry
    <3>3. CASE Close \/ Crash
      <4>1. crashes' \in 0..MaxCrashes
        BY <3>1, <3>3 DEF Close, Crash
      <4>2. kept = <<>>
        BY <3>1, <3>3 DEF Close, Crash
      <4> QED BY <3>3, <4>1, <4>2 DEF Close, Crash
    <3> QED BY <1>6, <3>2, <3>3
  <2> QED BY <2>1 DEF TypeOK
<1>7. CASE Scan
  <2>1. last' \in 0..MaxRecords
    <3>1. CASE file = <<>>
      BY <1>7, <3>1 DEF Scan
    <3>2. CASE file # <<>>
      <4>1. Len(file) \in 1..Len(file)
        BY <3>2, EmptySeq DEF TypeOK
      <4>2. file[Len(file)] \in PieceRec
        BY <4>1, ElementOfSeq DEF TypeOK
      <4> QED BY <1>7, <3>2, <4>2, PieceFields DEF Scan
    <3> QED BY <3>1, <3>2
  <2> QED BY <1>7, <2>1 DEF Scan, TypeOK
<1>8. CASE UNCHANGED vars
  BY <1>8 DEF TypeOK
<1> QED BY <1>1, <1>2, <1>3, <1>4, <1>5, <1>6, <1>7, <1>8
        DEF Next, CutOff, BootStep

LEMMA TypeInit == Init => TypeOK
<1> SUFFICES ASSUME Init PROVE TypeOK
  OBVIOUS
<1>1. <<>> \in Seq(PieceRec) /\ <<>> \in Seq(1..MaxRecords)
  BY EmptySeq
<1>2. /\ file = <<>> /\ kept = <<>> /\ acked = <<>> /\ phase = "closed"
      /\ last = 0 /\ attempts = 0 /\ crashes = 0 /\ cuts = 0
      /\ closed = FALSE /\ schema \in {"wal", "audit"}
  BY DEF Init
<1>3. 0 \in 0..MaxRecords /\ 0 \in 0..MaxCrashes /\ 0 \in 0..MaxCuts
  BY CutsTyped
<1> QED BY <1>1, <1>2, <1>3 DEF TypeOK

(* Every state has its type, whatever an append or a rewrite that is cut   *)
(* off may leave; only the rewrite of the trim keeps lines in memory       *)
(* (audit.rs:289-315).                                                     *)
THEOREM TypeCorrect == Spec => []TypeOK
BY TypeInit, TypeStep, PTL DEF Spec


-----------------------------------------------------------------------------
(* The contract.  The records of a file's first n pieces: ...              *)
Ids(f, n) == [i \in 1..n |-> f[i].id]

LEMMA FcnIsSeq ==
  ASSUME NEW S, NEW n \in Nat, NEW s \in [1..n -> S]
  PROVE  s \in Seq(S) /\ Len(s) = n
OBVIOUS

LEMMA IdsTyped ==
  ASSUME NEW f \in Seq(PieceRec), NEW n \in 0..Len(f)
  PROVE  /\ Ids(f, n) \in Seq(1..MaxRecords) /\ Len(Ids(f, n)) = n
         /\ DOMAIN Ids(f, n) = 1..n
         /\ \A i \in 1..n : Ids(f, n)[i] = f[i].id
<1>1. \A i \in 1..n : f[i].id \in 1..MaxRecords
  BY LenProperties, ElementOfSeq, PieceFields
<1>2. Ids(f, n) \in [1..n -> 1..MaxRecords]
  BY <1>1 DEF Ids
<1>3. n \in Nat
  BY LenProperties
<1>4. Ids(f, n) \in Seq(1..MaxRecords) /\ Len(Ids(f, n)) = n
  BY <1>2, <1>3, FcnIsSeq
<1> QED BY <1>2, <1>4 DEF Ids

LEMMA IdsGrow ==
  ASSUME NEW f \in Seq(PieceRec), NEW p \in PieceRec
  PROVE  /\ Ids(Append(f, p), Len(f)) = Ids(f, Len(f))
         /\ Ids(Append(f, p), Len(f) + 1) = Append(Ids(f, Len(f)), p.id)
<1> DEFINE g == Append(f, p)
           n == Len(f)
<1>1. /\ n \in Nat /\ g \in Seq(PieceRec) /\ Len(g) = n + 1
      /\ \A i \in 1..n : g[i] = f[i]
      /\ g[n + 1] = p
  BY LenProperties, AppendProperties
<1>2. p.id \in 1..MaxRecords
  BY PieceFields
<1> HIDE DEF g
<1>3. Ids(g, n) = Ids(f, n)
  BY <1>1 DEF Ids
<1>4. Ids(g, n + 1) = Append(Ids(f, n), p.id)
  <2>1. /\ Ids(g, n + 1) \in Seq(1..MaxRecords) /\ Len(Ids(g, n + 1)) = n + 1
        /\ \A i \in 1..n + 1 : Ids(g, n + 1)[i] = g[i].id
    <3>1. n + 1 \in 0..Len(g)
      BY <1>1
    <3> HIDE DEF n
    <3> QED BY <1>1, <3>1, IdsTyped
  <2>2. /\ Ids(f, n) \in Seq(1..MaxRecords) /\ Len(Ids(f, n)) = n
        /\ \A i \in 1..n : Ids(f, n)[i] = f[i].id
    <3>1. n \in 0..Len(f)
      BY <1>1
    <3> HIDE DEF n
    <3> QED BY <3>1, IdsTyped
  <2>3. /\ Append(Ids(f, n), p.id) \in Seq(1..MaxRecords)
        /\ Len(Append(Ids(f, n), p.id)) = n + 1
        /\ \A i \in 1..n : Append(Ids(f, n), p.id)[i] = f[i].id
        /\ Append(Ids(f, n), p.id)[n + 1] = p.id
    BY <1>2, <2>2, AppendProperties
  <2>4. \A i \in 1..n + 1 : Ids(g, n + 1)[i] = Append(Ids(f, n), p.id)[i]
    BY <1>1, <2>1, <2>3
  <2> HIDE DEF n
  <2> QED BY <2>1, <2>3, <2>4, SeqEqual
<1> QED BY <1>3, <1>4 DEF g

LEMMA IdsOfPrefix ==
  ASSUME NEW f \in Seq(PieceRec), NEW n \in Nat, n <= Len(f)
  PROVE  Ids(SubSeq(f, 1, n), n) = Ids(f, n)
BY PrefixTyped DEF Ids

(* ... a file all of whose pieces are whole; ...                           *)
AllWhole(f) == \A i \in DOMAIN f : f[i].part = "whole"

(* ... one that can be read to its end; ...                                *)
Clean(f) ==
  \A i \in DOMAIN f :
    f[i].part = "whole" \/ (i = Len(f) /\ f[i].part = "bare")

(* ... one whose last piece alone lacks anything.                          *)
Sound(f) == \A i \in DOMAIN f : f[i].part = "whole" \/ i = Len(f)

LastId(f) == IF f = <<>> THEN 0 ELSE f[Len(f)].id

LEMMA CleanIs ==
  ASSUME NEW f \in Seq(PieceRec), Clean(f)
  PROVE  /\ Broken(f) = {} /\ ~TornTail(f) /\ Sound(f) /\ ~Joined(f)
         /\ Readable(f) = Ids(f, Len(f))
<1>1. Broken(f) = {}
  BY DEF Clean, Broken, Lines, Parses
<1>2. ~Joined(f)
  BY LenProperties DEF Clean, Joined
<1> QED BY <1>1, <1>2 DEF TornTail, Readable, Ids, Clean, Sound

LEMMA WholeIs ==
  ASSUME NEW f \in Seq(PieceRec), AllWhole(f)
  PROVE  /\ Clean(f) /\ Broken(f) = {} /\ ~TornTail(f) /\ Sound(f)
         /\ ~Joined(f) /\ Readable(f) = Ids(f, Len(f))
<1>1. Clean(f)
  BY DEF AllWhole, Clean
<1> QED BY <1>1, CleanIs

LEMMA TornIs ==
  ASSUME NEW f \in Seq(PieceRec), Sound(f), ~Clean(f)
  PROVE  /\ Len(f) - 1 \in Nat /\ TornTail(f) /\ Broken(f) # {}
         /\ Readable(f) = Ids(f, Len(f) - 1)
<1> DEFINE n == Len(f)
<1>1. n \in Nat /\ DOMAIN f = 1..n
  BY LenProperties
<1>2. n \in DOMAIN f /\ f[n].part \notin {"whole", "bare"} /\ n - 1 \in Nat
  BY <1>1 DEF Sound, Clean
<1>3. \A i \in 1..n - 1 : f[i].part = "whole"
  BY <1>1 DEF Sound
<1>4. Lines(f) = 1..n
  <2>1. \A i \in 1..n : i = 1 \/ i - 1 \in 1..n - 1
    BY <1>1
  <2> QED BY <1>1, <1>3, <2>1 DEF Lines
<1>5. Broken(f) = {n}
  <2>1. ~Parses(f, n)
    BY <1>2 DEF Parses
  <2>2. \A i \in 1..n : i # n => Parses(f, i)
    <3> HIDE DEF n
    <3>1. \A i \in 1..n : i # n => i \in 1..n - 1
      <4>1. n \in Nat
        BY <1>1
      <4> QED BY <4>1
    <3>2. \A i \in 1..n : i # n => f[i].part = "whole"
      BY <1>3, <3>1
    <3> QED BY <3>2 DEF Parses
  <2>3. n \in Lines(f)
    BY <1>1, <1>2, <1>4
  <2> HIDE DEF n
  <2> QED BY <1>4, <2>1, <2>2, <2>3 DEF Broken
<1>6. TornTail(f)
  BY <1>1, <1>2, <1>4, <1>5 DEF TornTail
<1>7. Min({n}) = n
  BY <1>1 DEF Min
<1>8. Readable(f) = Ids(f, n - 1)
  BY <1>5, <1>7 DEF Readable, Ids
<1> QED BY <1>2, <1>5, <1>6, <1>8

(* Induction, for a set of numbers (from the pigeonhole principle): a map  *)
(* that moves each member of D one up and fixes the rest would be an       *)
(* injection of 0 .. n into 1 .. n.                                        *)
LEMMA Induct ==
  ASSUME NEW n \in Nat, NEW D, 0 \in D,
         \A i \in 0 .. n - 1 : i \in D => i + 1 \in D
  PROVE  n \in D
<1> SUFFICES ASSUME n \notin D PROVE FALSE
  OBVIOUS
<1> DEFINE f == [i \in 0 .. n |-> IF i \in D THEN i + 1 ELSE i]
<1>1. f \in [0 .. n -> 1 .. n]
  <2> SUFFICES ASSUME NEW i \in 0 .. n PROVE f[i] \in 1 .. n
    OBVIOUS
  <2>1. CASE i \in D
    BY <2>1
  <2>2. CASE i \notin D
    BY <2>2
  <2> QED BY <2>1, <2>2
<1>2. \A i, j \in 0 .. n : i # j => f[i] # f[j]
  OBVIOUS
<1>3. Cardinality(0 .. n) = n + 1 /\ IsFiniteSet(0 .. n)
  BY FS_Interval
<1>4. Cardinality(1 .. n) = n /\ IsFiniteSet(1 .. n)
  BY FS_Interval
<1> HIDE DEF f
<1>5. Cardinality(1 .. n) < Cardinality(0 .. n)
  BY <1>3, <1>4
<1> QED BY <1>1, <1>2, <1>3, <1>4, <1>5, FS_PigeonHole

(* A file with a line that does not parse has a first such line.           *)
LEMMA LeastLine ==
  ASSUME NEW n \in Nat, NEW S, S \subseteq 1..n, S # {}
  PROVE  Min(S) \in S
<1> SUFFICES ASSUME \A k \in S : ~(\A m \in S : k <= m) PROVE FALSE
  BY DEF Min
<1> DEFINE D == {k \in 0..n : \A m \in 1..k : m \notin S}
<1>1. 0 \in D
  OBVIOUS
<1>2. ASSUME NEW k \in 0..n - 1, k \in D PROVE k + 1 \in D
  <2>1. \A m \in 1..k + 1 : m \in 1..k \/ m = k + 1
    OBVIOUS
  <2>2. \A m \in S : m \in 1..n /\ (m \in 1..k \/ k + 1 <= m)
    OBVIOUS
  <2>3. k + 1 \notin S
    BY <1>2, <2>2
  <2> QED BY <1>2, <2>1, <2>3
<1>3. n \in D
  <2> HIDE DEF D
  <2> QED BY <1>1, <1>2, Induct
<1> QED BY <1>3

(* Every piece before the only line that does not parse has its newline.   *)
LEMMA WholeBefore ==
  ASSUME NEW f \in Seq(PieceRec), NEW i \in DOMAIN f, Broken(f) = {i}
  PROVE  \A k \in 1..i - 1 : f[k].part = "whole"
<1>1. DOMAIN f = 1..Len(f) /\ Len(f) \in Nat /\ i \in 1..Len(f)
  BY LenProperties
<1> DEFINE D == {k \in 0..i - 1 : \A j \in 1..k : f[j].part = "whole"}
<1>2. 0 \in D
  BY <1>1
<1>3. ASSUME NEW k \in 0..i - 2, k \in D
      PROVE  k + 1 \in D
  <2>1. /\ k + 1 \in 1..i - 1 /\ k + 1 \in DOMAIN f
        /\ k + 1 # Len(f) /\ k + 1 # i
    <3>1. k \in 0..i - 2 /\ i \in 1..Len(f) /\ Len(f) \in Nat
          /\ DOMAIN f = 1..Len(f)
      BY <1>1
    <3> HIDE DEF D
    <3>2. k + 1 \in 1..i - 1 /\ k + 1 \in 1..Len(f)
      BY <3>1
    <3>3. ASSUME NEW a \in Int, NEW b \in Int, NEW m \in 0..a - 2, a <= b
          PROVE  m + 1 # b /\ m + 1 # a
      BY <3>3
    <3>4. Len(f) \in Int /\ i \in Int /\ i <= Len(f)
      BY <3>1
    <3>5. k + 1 # Len(f) /\ k + 1 # i
      BY <3>1, <3>3, <3>4
    <3> QED BY <3>1, <3>2, <3>5
  <2>2. k + 1 = 1 \/ (k \in 1..k /\ (k + 1) - 1 = k)
    BY <1>1
  <2>3. k + 1 \in Lines(f)
    BY <1>3, <2>1, <2>2 DEF Lines
  <2>4. f[k + 1].part = "whole"
    <3>1. k + 1 \notin Broken(f)
      BY <2>1
    <3>2. Parses(f, k + 1)
      BY <2>3, <3>1 DEF Broken
    <3> QED BY <2>1, <3>2 DEF Parses
  <2>5. \A j \in 1..k + 1 : j \in 1..k \/ j = k + 1
    BY <1>1
  <2>6. \A j \in 1..k + 1 : f[j].part = "whole"
    BY <1>3, <2>4, <2>5
  <2>7. k + 1 \in 0..i - 1
    BY <1>1
  <2> QED BY <2>6, <2>7
<1>4. i - 1 \in Nat
  BY <1>1
<1>5. \A k \in 0..(i - 1) - 1 : k \in D => k + 1 \in D
  <2>1. \A k \in 0..(i - 1) - 1 : k \in 0..i - 2
    BY <1>1
  <2> HIDE DEF D
  <2> QED BY <1>3, <2>1
<1>6. i - 1 \in D
  <2> HIDE DEF D
  <2> QED BY <1>2, <1>4, <1>5, Induct
<1> QED BY <1>6

(* A piece appended to a chain.                                            *)
LEMMA Chains ==
  ASSUME NEW f \in Seq(PieceRec), Chained(f),
         NEW p \in PieceRec, p.prev = LastId(f)
  PROVE  /\ Chained(Append(f, p)) /\ LastId(Append(f, p)) = p.id
         /\ Joined(f) => Joined(Append(f, p))
         /\ Clean(f) /\ ~AllWhole(f) => Joined(Append(f, p))
         /\ AllWhole(f) => /\ Sound(Append(f, p))
                           /\ p.part = "whole" => AllWhole(Append(f, p))
         /\ AllWhole(f) /\ p.part \in {"whole", "bare"} =>
              /\ Clean(Append(f, p))
              /\ Readable(Append(f, p)) = Append(Readable(f), p.id)
         /\ AllWhole(f) /\ p.part = "torn" =>
              Readable(Append(f, p)) = Readable(f)
<1> DEFINE g == Append(f, p)
           n == Len(f)
<1>1. /\ n \in Nat /\ g \in Seq(PieceRec) /\ Len(g) = n + 1 /\ g # <<>>
      /\ \A i \in 1..n : g[i] = f[i]
      /\ g[n + 1] = p /\ DOMAIN f = 1..n /\ DOMAIN g = 1..n + 1
  BY LenProperties, AppendProperties
<1>2. /\ Ids(g, n) = Ids(f, n)
      /\ Ids(g, n + 1) = Append(Ids(f, n), p.id)
  BY IdsGrow
<1> HIDE DEF g
<1>3. \A i \in 1..n + 1 : i \in 1..n \/ i = n + 1
  BY <1>1
<1>4. LastId(g) = p.id
  BY <1>1 DEF LastId
<1>5. Chained(g)
  <2> SUFFICES ASSUME NEW i \in 1..n + 1
               PROVE  g[i].prev = IF i = 1 THEN 0 ELSE g[i - 1].id
    BY <1>1 DEF Chained
  <2>1. CASE i \in 1..n
    <3>1. i # 1 => i - 1 \in 1..n
      BY <1>1, <2>1
    <3> QED BY <1>1, <2>1, <3>1 DEF Chained
  <2>2. CASE i = n + 1
    <3>1. f = <<>> <=> n = 0
      BY <1>1, EmptySeq
    <3>2. n # 0 => n \in 1..n /\ i - 1 = n /\ i # 1
      BY <1>1, <2>2
    <3> QED BY <1>1, <2>2, <3>1, <3>2 DEF LastId
  <2> QED BY <1>3, <2>1, <2>2
<1>6. ASSUME NEW i \in 1..n, f[i].part = "bare"
      PROVE  Joined(g)
  <2>1. i \in 1..n + 1 /\ i < Len(g) /\ g[i].part = "bare"
    BY <1>1, <1>6
  <2> QED BY <1>1, <2>1 DEF Joined
<1>7. Joined(f) => Joined(g)
  BY <1>1, <1>6 DEF Joined
<1>8. Clean(f) /\ ~AllWhole(f) => Joined(g)
  BY <1>1, <1>6 DEF Clean, AllWhole
<1>9. ASSUME AllWhole(f)
      PROVE  /\ Sound(g) /\ Readable(f) = Ids(f, n)
             /\ p.part = "whole" => AllWhole(g)
             /\ p.part \in {"whole", "bare"} => Clean(g)
             /\ p.part = "torn" => ~Clean(g)
  <2>1. Readable(f) = Ids(f, n)
    BY <1>9, WholeIs
  <2>2. Sound(g)
    BY <1>1, <1>3, <1>9 DEF Sound, AllWhole
  <2>3. p.part = "whole" => AllWhole(g)
    BY <1>1, <1>3, <1>9 DEF AllWhole
  <2>4. p.part \in {"whole", "bare"} => Clean(g)
    BY <1>1, <1>3, <1>9 DEF AllWhole, Clean
  <2>5. n + 1 \in DOMAIN g
    BY <1>1
  <2>6. p.part = "torn" => ~Clean(g)
    BY <1>1, <2>5 DEF Clean
  <2> QED BY <2>1, <2>2, <2>3, <2>4, <2>6
<1>10. AllWhole(f) /\ p.part \in {"whole", "bare"} =>
         Readable(g) = Append(Readable(f), p.id)
  BY <1>1, <1>2, <1>9, CleanIs
<1>11. ASSUME AllWhole(f), p.part = "torn"
       PROVE  Readable(g) = Readable(f)
  <2>1. Len(g) - 1 = n
    BY <1>1
  <2> QED BY <1>1, <1>2, <1>9, <1>11, <2>1, TornIs
<1> QED BY <1>4, <1>5, <1>7, <1>8, <1>9, <1>10, <1>11 DEF g

LEMMA TrimKeeps ==
  ASSUME NEW f \in Seq(PieceRec), Chained(f), TornTail(f)
  PROVE  /\ AllWhole(Trimmed(f)) /\ Chained(Trimmed(f))
         /\ Readable(Trimmed(f)) = Readable(f)
<1>1. PICK i \in DOMAIN f : /\ Broken(f) = {i} /\ Min(Broken(f)) = i
                            /\ Trimmed(f) = SubSeq(f, 1, i - 1)
  BY TrimmedIs
<1> DEFINE n == i - 1
           g == SubSeq(f, 1, n)
<1>2. /\ n \in Nat /\ n <= Len(f) /\ DOMAIN f = 1..Len(f)
      /\ \A k \in 1..n : f[k].part = "whole"
  <2>1. DOMAIN f = 1..Len(f) /\ Len(f) \in Nat
    BY LenProperties
  <2>2. \A k \in 1..i - 1 : f[k].part = "whole"
    BY <1>1, WholeBefore
  <2>3. i - 1 \in Nat /\ i - 1 <= Len(f)
    BY <2>1
  <2> QED BY <2>1, <2>2, <2>3
<1>3. /\ g \in Seq(PieceRec) /\ Len(g) = n /\ DOMAIN g = 1..n
      /\ \A k \in 1..n : g[k] = f[k]
      /\ Ids(g, n) = Ids(f, n)
  <2> HIDE DEF n
  <2> QED BY <1>2, PrefixTyped, IdsOfPrefix
<1>4. Readable(f) = Ids(f, n)
  BY <1>1 DEF Readable, Ids
<1> HIDE DEF g
<1>5. AllWhole(g)
  BY <1>2, <1>3 DEF AllWhole
<1>6. Readable(g) = Readable(f)
  BY <1>3, <1>4, <1>5, WholeIs
<1>7. Chained(g)
  <2> SUFFICES ASSUME NEW k \in 1..n
               PROVE  g[k].prev = IF k = 1 THEN 0 ELSE g[k - 1].id
    BY <1>3 DEF Chained
  <2>1. k \in 1..Len(f) /\ (k # 1 => k - 1 \in 1..n)
    BY <1>2
  <2> QED BY <1>2, <1>3, <2>1 DEF Chained
<1> QED BY <1>1, <1>5, <1>6, <1>7 DEF g


-----------------------------------------------------------------------------
(* The log the contract talks of, and the part of it that is inductive.    *)
View == Readable(IF phase = "trimming" THEN kept ELSE file)

Live == phase = "open" /\ ~closed

(* A file no line of which holds two records: only its last piece can lack *)
(* anything, a process that appends can read all of it, and a write-ahead  *)
(* ledger is not refused.                                                  *)
Single ==
  /\ Sound(file)
  /\ Live => Clean(file)
  /\ phase = "scanning" /\ schema = "wal" => Clean(file)
  /\ phase = "refused" => schema # "wal"

(* Nothing was cut off in a rewrite: what is on disk, or held while it is  *)
(* rewritten, is a chain, and a process that appends knows its end.        *)
Sane ==
  /\ Chained(file) /\ AllWhole(kept) /\ Chained(kept)
  /\ Live => last = LastId(file)
  /\ phase = "trimming" => file = <<>>
  /\ Joined(file) \/ Single

LogInv == /\ closed => phase = "open"
          /\ cuts = 0 => Sane

LEMMA LogInit == Init => TypeOK /\ LogInv
<1> SUFFICES ASSUME Init PROVE LogInv
  BY TypeInit
<1>1. file = <<>> /\ kept = <<>> /\ phase = "closed" /\ closed = FALSE
  BY DEF Init
<1>2. DOMAIN file = {} /\ DOMAIN kept = {}
  BY <1>1
<1> QED BY <1>1, <1>2 DEF LogInv, Sane, Single, Live, Sound, Chained, AllWhole

(* What a step that cuts no rewrite off is for the log's users.            *)
Silent == View' = View /\ acked' = acked /\ (Live' => Live)

Opening == View' = View /\ acked' = acked /\ ~Live /\ Live'

Landing == /\ Live /\ Live' /\ View' = Append(View, attempts + 1)
           /\ Range(acked') = Range(acked) \cup {attempts + 1}

Cutting == /\ Live /\ ~Live' /\ View' = Append(View, attempts + 1)
           /\ acked' = acked

Kinds == Silent \/ Opening \/ Landing \/ Cutting

(* A step leaves the file with a line of two records, or is one of these;  *)
(* one that gets rid of such a line, the trim, closes nothing.             *)
Moves ==
  \/ Joined(file)'
  \/ ~Joined(file) /\ Kinds
  \/ View' = View /\ acked' = acked /\ ~Live'

LEMMA AppendMoves ==
  ASSUME TypeOK, LogInv, cuts = 0,
         \/ Emit
         \/ \E part \in CutOffParts \cup {"none"} :
              EmitFails(part) \/ CrashInEmit(part)
  PROVE  LogInv' /\ Moves
<1>1. CanEmit
  BY DEF Emit, EmitFails, CrashInEmit
<1>2. /\ Live /\ phase = "open" /\ Sane /\ Chained(file)
      /\ last = LastId(file) /\ file \in Seq(PieceRec) /\ View = Readable(file)
      /\ Joined(file) \/ Clean(file)
  BY <1>1 DEF CanEmit, LogInv, Sane, Single, Live, View, TypeOK
<1>3. ASSUME NEW part \in CutOffParts
      PROVE  LET g == Append(file, Piece(part)) IN
             /\ Chained(g) /\ LastId(g) = attempts + 1
             /\ ~Joined(g) =>
                  /\ AllWhole(file) /\ ~Joined(file) /\ Sound(g)
                  /\ part = "whole" => Clean(g)
                  /\ part \in {"whole", "bare"} =>
                       Readable(g) = Append(Readable(file), attempts + 1)
                  /\ part = "torn" => Readable(g) = Readable(file)
  <2>1. /\ Piece(part) \in PieceRec /\ Piece(part).id = attempts + 1
        /\ Piece(part).prev = LastId(file) /\ Piece(part).part = part
    BY <1>1, <1>2, NextPiece
  <2>2. AllWhole(file) => ~Joined(file)
    BY <1>2, WholeIs
  <2> QED BY <1>2, <2>1, <2>2, Chains
<1>4. CASE Emit
  <2>1. /\ file' = Append(file, Piece("whole")) /\ last' = attempts + 1
        /\ acked' = Append(acked, attempts + 1)
        /\ UNCHANGED <<schema, phase, kept, closed, cuts>>
    BY <1>4 DEF Emit
  <2>2. /\ Chained(file') /\ LastId(file') = attempts + 1
        /\ ~Joined(file') =>
             /\ ~Joined(file) /\ Sound(file') /\ Clean(file')
             /\ Readable(file') = Append(Readable(file), attempts + 1)
    BY <1>3, <2>1 DEF CutOffParts
  <2>3. LogInv'
    BY <1>2, <2>1, <2>2 DEF LogInv, Sane, Single, Live
  <2>4. Live' /\ View' = Readable(file')
    BY <1>2, <2>1 DEF Live, View
  <2>5. Range(acked') = Range(acked) \cup {attempts + 1}
    <3>1. attempts + 1 \in 1..MaxRecords /\ acked \in Seq(1..MaxRecords)
      BY <1>1, NextPiece DEF TypeOK, CutOffParts
    <3>2. /\ DOMAIN acked = 1..Len(acked) /\ Len(acked) \in Nat
          /\ DOMAIN acked' = 1..Len(acked) + 1
          /\ \A i \in 1..Len(acked) : acked'[i] = acked[i]
          /\ acked'[Len(acked) + 1] = attempts + 1
      BY <2>1, <3>1, AppendProperties, LenProperties
    <3>3. \A i \in 1..Len(acked) + 1 : i \in 1..Len(acked)
                                         \/ i = Len(acked) + 1
      BY <3>2
    <3>4. \A i \in 1..Len(acked) : i \in 1..Len(acked) + 1
      BY <3>2
    <3>5. Len(acked) + 1 \in 1..Len(acked) + 1
      BY <3>2
    <3> QED BY <3>2, <3>3, <3>4, <3>5 DEF Range
  <2> QED BY <1>2, <2>2, <2>3, <2>4, <2>5 DEF Moves, Kinds, Landing
<1>5. ASSUME NEW part \in CutOffParts \cup {"none"},
             EmitFails(part) \/ CrashInEmit(part)
      PROVE  LogInv' /\ Moves
  <2>1. /\ Left(part) /\ UNCHANGED <<schema, kept, acked, cuts>>
        /\ closed' => phase' = "open"
        /\ ~Live' /\ phase' \in {"open", "closed"}
    BY <1>2, <1>5 DEF EmitFails, CrashInEmit, Live
  <2>2. View' = Readable(file')
    BY <2>1 DEF View
  <2>3. /\ Chained(file')
        /\ ~Joined(file') =>
             /\ ~Joined(file) /\ Sound(file')
             /\ View' = View \/ View' = Append(View, attempts + 1)
    <3>1. CASE part = "none"
      <4>1. file' = file
        BY <2>1, <3>1 DEF Left
      <4>2. Clean(file) => Sound(file)
        BY <1>2, CleanIs
      <4> QED BY <1>2, <2>2, <4>1, <4>2
    <3>2. CASE part # "none"
      <4>1. file' = Append(file, Piece(part)) /\ part \in CutOffParts
        BY <2>1, <3>2 DEF Left
      <4>2. part \in {"whole", "bare"} \/ part = "torn"
        BY <4>1 DEF CutOffParts
      <4> QED BY <1>2, <1>3, <2>2, <4>1, <4>2
    <3> QED BY <3>1, <3>2
  <2>4. LogInv'
    BY <1>2, <2>1, <2>3 DEF LogInv, Sane, Single
  <2> QED BY <1>2, <2>1, <2>3, <2>4 DEF Moves, Kinds, Silent, Cutting
<1> QED BY <1>4, <1>5

LEMMA BootMoves ==
  ASSUME TypeOK, LogInv, cuts = 0,
         \/ TrimBegin \/ TrimWrite \/ NothingToTrim \/ Scan \/ Refuse
         \/ Crash \/ Close \/ Retry \/ UNCHANGED vars
  PROVE  LogInv' /\ Moves
<1>1. /\ Sane /\ file \in Seq(PieceRec) /\ kept \in Seq(PieceRec)
      /\ closed => phase = "open"
      /\ kept # <<>> => phase = "trimming"
  BY DEF LogInv, TypeOK
<1>2. \A f \in {<<>>} : AllWhole(f) /\ Chained(f) /\ Sound(f)
  <2>1. \A f \in {<<>>} : DOMAIN f = {}
    OBVIOUS
  <2> QED BY <2>1 DEF AllWhole, Chained, Sound
<1>3. CASE TrimBegin
  <2>1. /\ phase = "closed" /\ TornTail(file) /\ kept' = Trimmed(file)
        /\ file' = <<>> /\ phase' = "trimming"
        /\ UNCHANGED <<schema, last, closed, acked, cuts>>
    BY <1>3 DEF TrimBegin
  <2>2. /\ AllWhole(kept') /\ Chained(kept')
        /\ Readable(kept') = Readable(file)
    BY <1>1, <2>1, TrimKeeps DEF Sane
  <2>3. LogInv'
    BY <1>1, <1>2, <2>1, <2>2 DEF LogInv, Sane, Single, Live
  <2>4. View' = View /\ ~Live'
    BY <2>1, <2>2 DEF View, Live
  <2> QED BY <2>1, <2>3, <2>4 DEF Moves
<1>4. CASE TrimWrite
  <2>1. /\ phase = "trimming" /\ file' = kept /\ kept' = <<>>
        /\ phase' = "scanning"
        /\ UNCHANGED <<schema, last, closed, acked, cuts>>
    BY <1>4 DEF TrimWrite
  <2>2. Clean(file') /\ Chained(file') /\ Sound(file')
    BY <1>1, <2>1, WholeIs DEF Sane
  <2>3. LogInv'
    BY <1>1, <1>2, <2>1, <2>2 DEF LogInv, Sane, Single, Live
  <2>4. View' = View /\ ~Live'
    BY <2>1 DEF View, Live
  <2> QED BY <2>1, <2>3, <2>4 DEF Moves
<1>5. CASE NothingToTrim
  <2>1. /\ phase = "closed" /\ phase' = "scanning"
        /\ ~(schema = "wal" /\ TornTail(file))
        /\ UNCHANGED <<schema, file, kept, last, closed, acked, cuts>>
    BY <1>5 DEF NothingToTrim
  <2>2. Joined(file) \/ (Single /\ (schema = "wal" => Clean(file)))
    BY <1>1, <2>1, TornIs DEF Sane, Single
  <2>3. LogInv'
    BY <1>1, <2>1, <2>2 DEF LogInv, Sane, Single, Live
  <2>4. View' = View /\ ~Live'
    BY <2>1 DEF View, Live
  <2> QED BY <2>1, <2>3, <2>4 DEF Moves
<1>6. CASE Scan
  <2>1. /\ phase = "scanning" /\ Broken(file) = {} /\ phase' = "open"
        /\ last' = LastId(file)
        /\ UNCHANGED <<schema, file, kept, closed, acked, cuts>>
    BY <1>6 DEF Scan, LastId
  <2>2. Joined(file) \/ (Single /\ Clean(file))
    BY <1>1, <2>1, TornIs DEF Sane, Single
  <2>3. LogInv'
    BY <1>1, <2>1, <2>2 DEF LogInv, Sane, Single, Live
  <2>4. View' = View /\ ~Live /\ Live'
    BY <1>1, <2>1 DEF View, Live
  <2> QED BY <2>1, <2>3, <2>4 DEF Moves, Kinds, Opening
<1>7. CASE Refuse
  <2>1. /\ phase = "scanning" /\ phase' = "refused"
        /\ ~(Broken(file) = {} /\ Chained(file))
        /\ UNCHANGED <<schema, file, kept, last, closed, acked, cuts>>
    BY <1>7 DEF Refuse
  <2>2. Joined(file) \/ (Single /\ schema # "wal")
    BY <1>1, <2>1, CleanIs DEF Sane, Single
  <2>3. LogInv'
    BY <1>1, <2>1, <2>2 DEF LogInv, Sane, Single, Live
  <2>4. View' = View /\ ~Live'
    BY <2>1 DEF View, Live
  <2> QED BY <2>1, <2>3, <2>4 DEF Moves
<1>8. CASE Crash \/ Close \/ Retry
  <2>1. /\ phase \in {"scanning", "open", "refused"} /\ phase' = "closed"
        /\ closed' => FALSE
        /\ UNCHANGED <<schema, file, kept, acked, cuts>>
    BY <1>1, <1>8 DEF Crash, Close, Retry
  <2>2. LogInv'
    BY <1>1, <2>1 DEF LogInv, Sane, Single, Live
  <2>3. View' = View /\ ~Live'
    BY <2>1 DEF View, Live
  <2> QED BY <2>1, <2>2, <2>3 DEF Moves
<1>9. CASE UNCHANGED vars
  <2>1. View' = View /\ (Live' <=> Live)
    BY <1>9 DEF View, Live
  <2>2. LogInv' /\ (Joined(file)' <=> Joined(file))
    BY <1>9 DEF LogInv, Sane, Single, Sound, Clean, Chained, AllWhole, Live,
       LastId, Joined
  <2> QED BY <1>9, <2>1, <2>2 DEF Moves, Kinds, Silent
<1> QED BY <1>3, <1>4, <1>5, <1>6, <1>7, <1>8, <1>9

LEMMA LogStep ==
  ASSUME TypeOK, LogInv, [Next]_vars
  PROVE  LogInv' /\ (cuts' = 0 => cuts = 0 /\ Moves)
<1>0. cuts \in Nat /\ cuts' \in {cuts, cuts + 1}
  BY CutsTyped DEF TypeOK, Next, Emit, CutOff, EmitFails, CrashInEmit, BootStep,
     TrimBegin, TrimWrite, TrimWriteFails, NothingToTrim, Scan, Refuse, Close,
     Retry, CrashInTrim, Crash
<1>1. closed' => phase' = "open"
  BY DEF LogInv, Next, Emit, CutOff, EmitFails, CrashInEmit, BootStep,
     TrimBegin, TrimWrite, TrimWriteFails, NothingToTrim, Scan, Refuse, Close,
     Retry, CrashInTrim, Crash, CanEmit
<1>2. CASE cuts' # 0
  BY <1>1, <1>2 DEF LogInv
<1>3. CASE cuts' = 0
  <2>1. cuts = 0
    BY <1>0, <1>3
  <2>2. ~TrimWriteFails /\ ~CrashInTrim
    BY <1>0, <1>3 DEF TrimWriteFails, CrashInTrim
  <2> QED BY <2>1, <2>2, AppendMoves, BootMoves DEF Next, CutOff, BootStep
<1> QED BY <1>2, <1>3

LEMMA ViewTyped ==
  ASSUME TypeOK
  PROVE  View \in Seq(Nat)
<1> DEFINE f == IF phase = "trimming" THEN kept ELSE file
<1>1. f \in Seq(PieceRec) /\ Len(f) \in Nat /\ DOMAIN f = 1..Len(f)
  <2>1. file \in Seq(PieceRec) /\ kept \in Seq(PieceRec)
    BY DEF TypeOK
  <2> QED BY <2>1, LenProperties
<1> HIDE DEF f
<1>2. PICK n \in 0..Len(f) : Readable(f) = Ids(f, n)
  <2>1. Len(f) \in 0..Len(f)
    BY <1>1
  <2>2. CASE Broken(f) = {}
    BY <2>1, <2>2 DEF Readable, Ids
  <2>3. CASE Broken(f) # {}
    <3>1. Min(Broken(f)) \in DOMAIN f
      <4>1. Broken(f) \subseteq 1..Len(f)
        BY <1>1 DEF Broken, Lines
      <4> QED BY <1>1, <2>3, <4>1, LeastLine
    <3>2. Min(Broken(f)) - 1 \in 0..Len(f)
      BY <1>1, <3>1
    <3> QED BY <2>3, <3>2 DEF Readable, Ids
  <2> QED BY <2>2, <2>3
<1>3. Readable(f) \in Seq(1..MaxRecords)
  BY <1>1, <1>2, IdsTyped
<1>4. 1..MaxRecords \subseteq Nat
  BY CutsTyped
<1> QED BY <1>3, <1>4, SeqMonotonic DEF View, f

Refused == schema = "wal" /\ phase = "refused"

LEMMA RefinementInit == Init => Contract!Init
<1> SUFFICES ASSUME Init PROVE Contract!Init
  OBVIOUS
<1>1. /\ file = <<>> /\ phase = "closed" /\ acked = <<>> /\ cuts = 0
  BY DEF Init
<1>2. View = <<>>
  <2>1. AllWhole(<<>>) /\ <<>> \in Seq(PieceRec) /\ Len(<<>>) = 0
    BY EmptySeq DEF AllWhole
  <2>2. Readable(<<>>) = Ids(<<>>, 0)
    BY <2>1, WholeIs
  <2>3. 0 \in 0..Len(<<>>)
    BY <2>1
  <2>4. Ids(<<>>, 0) \in Seq(1..MaxRecords) /\ Len(Ids(<<>>, 0)) = 0
    BY <2>1, <2>3, IdsTyped
  <2>5. Ids(<<>>, 0) = <<>>
    BY <2>4, EmptySeq
  <2> QED BY <1>1, <2>2, <2>5 DEF View
<1>3. Range(<<>>) = {}
  BY DEF Range
<1>4. ~Joined(<<>>)
  BY DEF Joined
<1> QED BY <1>1, <1>2, <1>3, <1>4 DEF Contract!Init, View

LEMMA RefinementStep ==
  ASSUME TypeOK, LogInv, [Next]_vars
  PROVE  [Contract!Next]_(Contract!vars)
<1>0. TypeOK' /\ LogInv' /\ (cuts' = 0 => cuts = 0 /\ Moves)
  BY TypeStep, LogStep
<1>1. CASE cuts' # 0 \/ Joined(file)'
  <2>1. cuts' > 0 \/ Joined(file)'
    BY <1>0, <1>1, CutsTyped DEF TypeOK
  <2> QED BY <2>1 DEF Contract!Next, Joined
<1>2. CASE cuts' = 0 /\ ~Joined(file)'
  <2>1. /\ (cuts' > 0) = FALSE /\ Refused' = FALSE
        /\ (cuts' > 0 \/ Joined(file)') = FALSE
    BY <1>0, <1>2 DEF LogInv, Sane, Single, Refused
  <2>2. View \in Seq(Nat) /\ attempts + 1 \in Nat
    BY <1>0, <1>2, ViewTyped, CutsTyped DEF LogInv, TypeOK
  <2>3. ASSUME View' = Append(View, attempts + 1)
        PROVE  /\ Len(View') = Len(View) + 1
               /\ View'[Len(View')] = attempts + 1
    BY <2>2, <2>3, AppendProperties
  <2>4. CASE View' = View /\ acked' = acked /\ ~Live'
    BY <2>1, <2>4 DEF Contract!Next, Contract!Close, View, Live, Refused, Joined
  <2>5. ASSUME ~Joined(file), Kinds
        PROVE  [Contract!Next]_(Contract!vars)
    <3>1. /\ (cuts > 0) = FALSE /\ Refused = FALSE
          /\ (cuts > 0 \/ Joined(file)) = FALSE
      BY <1>0, <1>2, <2>5 DEF LogInv, Sane, Single, Refused
    <3>2. CASE Silent
      <4>1. CASE Live'
        <5>1. (Live' = Live) /\ View' = View /\ acked' = acked
          BY <3>2, <4>1 DEF Silent
        <5> QED BY <2>1, <3>1, <5>1 DEF Contract!vars, View, Live, Refused,
                Joined
      <4>2. CASE ~Live'
        BY <2>4, <3>2, <4>2 DEF Silent
      <4> QED BY <4>1, <4>2
    <3>3. CASE Opening
      BY <2>1, <3>3
         DEF Contract!Next, Contract!Open, View, Live, Refused, Opening, Joined
    <3>4. CASE Landing
      BY <2>1, <2>3, <3>4 DEF Contract!Next, Contract!Grow, Contract!Land,
         View, Live, Refused, Landing, Joined
    <3>5. CASE Cutting
      BY <2>1, <2>3, <3>5 DEF Contract!Next, Contract!Grow, Contract!CutOff,
         View, Live, Refused, Cutting, Joined
    <3> QED BY <2>5, <3>2, <3>3, <3>4, <3>5 DEF Kinds
  <2> QED BY <1>0, <1>2, <2>4, <2>5 DEF Moves
<1> QED BY <1>1, <1>2

(* The theorem behind ImplementsDurableLog: whatever appends fail, and     *)
(* wherever a crash cuts one off, the file's users see the contract until  *)
(* a rewrite is cut off, except while two records share a line: an         *)
(* acknowledged record stays, one cut off landed or left nothing, and the  *)
(* write-ahead ledger is not refused (audit.rs:88-216, 289-315).           *)
THEOREM KeepsTheContract == Spec => ImplementsDurableLog
<1>1. Init => TypeOK /\ LogInv /\ Contract!Init
  BY LogInit, RefinementInit
<1>2. TypeOK /\ LogInv /\ [Next]_vars =>
        TypeOK' /\ LogInv' /\ [Contract!Next]_(Contract!vars)
  BY TypeStep, LogStep, RefinementStep
<1> QED BY <1>1, <1>2, PTL DEF Spec, ImplementsDurableLog, Contract!Spec
=============================================================================
