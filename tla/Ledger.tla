------------------------------- MODULE Ledger -------------------------------
(***************************************************************************)
(* One HMAC-chained JSON-lines file (rust/src/audit.rs), down to the way   *)
(* an append can be cut off: the write-ahead ledger when Trims, the audit  *)
(* log when not.                                                           *)
(*                                                                         *)
(* The file is a sequence of pieces, one per append that reached the disk. *)
(* A "whole" piece has its newline; a "bare" one has every byte but the    *)
(* newline; a "torn" one lacks more.  The piece that follows a bare or a   *)
(* torn one is on the same line, and a line parses only if it is a single  *)
(* piece, whole or bare.                                                   *)
(***************************************************************************)
EXTENDS Naturals, Sequences, FiniteSetsExt

CONSTANTS
  MaxRecords,  \* bound: appends attempted
  MaxCrashes,  \* bound: crashes
  MaxCuts      \* bound: rewrites of the trim that are cut off

ASSUME LedgerAssumption ==
  MaxRecords \in Nat /\ MaxCrashes \in Nat /\ MaxCuts \in Nat

(* What an append that is cut off may leave, unless it leaves nothing.     *)
CutOffParts == {"torn", "bare", "whole"}

VARIABLES
  schema,   \* "wal" or "audit": open_chain trims the write-ahead ledger only
  file,     \* the pieces on disk
  phase,    \* "closed", "trimming", "scanning", "open" or "refused"
  kept,     \* while trimming: the lines to be written back
  last,     \* last_hash: the record the next one is chained to, 0 is genesis
  closed,   \* AuditState.closed: an append failed in this process
  attempts, \* records whose append was attempted; the next one's id
  crashes, cuts,
  acked     \* history: records whose append reported success

vars == <<schema, file, phase, kept, last, closed, attempts, crashes, cuts,
          acked>>

-----------------------------------------------------------------------------
(* The lines of a file, each named by the index of its first piece.        *)
Lines(f) == {i \in DOMAIN f : i = 1 \/ f[i - 1].part = "whole"}

Parses(f, i) ==
  f[i].part = "whole" \/ (f[i].part = "bare" /\ i = Len(f))

Broken(f) == {i \in Lines(f) : ~Parses(f, i)}

(* trim_partial_tail acts when the only line that does not parse is the    *)
(* last one, and keeps the lines before it.                                *)
TornTail(f) ==
  \E i \in Lines(f) : Broken(f) = {i} /\ \A j \in Lines(f) : j <= i

TrimmedTooFar(f) == SubSeq(f, 1, Min(Broken(f)) - 2)  \* mutant

Trimmed(f) == SubSeq(f, 1, Min(Broken(f)) - 1)

(* The records a reader gets: those of the lines before the first that     *)
(* does not parse.                                                         *)
Readable(f) ==
  LET n == IF Broken(f) = {} THEN Len(f) ELSE Min(Broken(f)) - 1
  IN  [i \in 1..n |-> f[i].id]

(* Two records are on one line, which neither can be read from.            *)
Joined(f) == \E i \in DOMAIN f : i < Len(f) /\ f[i].part = "bare"

Chained(f) ==
  \A i \in DOMAIN f : f[i].prev = IF i = 1 THEN 0 ELSE f[i - 1].id

-----------------------------------------------------------------------------
Init ==
  /\ schema \in {"wal", "audit"}
  /\ file = <<>> /\ phase = "closed" /\ kept = <<>>
  /\ last = 0 /\ closed = FALSE
  /\ attempts = 0 /\ crashes = 0 /\ cuts = 0 /\ acked = <<>>

Piece(part) == [id |-> attempts + 1, prev |-> last, part |-> part]

CanEmit == phase = "open" /\ ~closed /\ attempts < MaxRecords

Emit ==
  /\ CanEmit
  /\ file' = Append(file, Piece("whole"))
  /\ last' = attempts + 1
  /\ acked' = Append(acked, attempts + 1)
  /\ attempts' = attempts + 1
  /\ UNCHANGED <<schema, phase, kept, closed, crashes, cuts>>

(* What a write_all that does not finish leaves: nothing, or a piece.      *)
Left(part) == file' = IF part = "none" THEN file
                      ELSE Append(file, Piece(part))

(* write_all reports an error: the log refuses every later append.         *)
EmitFails(part) ==
  /\ CanEmit /\ part # "whole"
  /\ Left(part)
  /\ closed' = TRUE
  /\ attempts' = attempts + 1
  /\ UNCHANGED <<schema, phase, kept, last, crashes, acked, cuts>>

CrashInEmit(part) ==
  /\ CanEmit /\ crashes < MaxCrashes
  /\ Left(part)
  /\ attempts' = attempts + 1
  /\ phase' = "closed" /\ last' = 0 /\ closed' = FALSE
  /\ crashes' = crashes + 1
  /\ UNCHANGED <<schema, kept, acked, cuts>>

Crash ==
  /\ phase \in {"scanning", "open"} /\ crashes < MaxCrashes
  /\ phase' = "closed" /\ last' = 0 /\ closed' = FALSE
  /\ crashes' = crashes + 1
  /\ UNCHANGED <<schema, file, kept, attempts, acked, cuts>>

-----------------------------------------------------------------------------
(* open_chain.  fs::write truncates the file before it writes the kept     *)
(* lines back, and its result is ignored.                                  *)
TrimBegin ==
  /\ phase = "closed" /\ schema = "wal" /\ TornTail(file)
  /\ kept' = Trimmed(file)
  /\ file' = <<>>
  /\ phase' = "trimming"
  /\ UNCHANGED <<schema, last, closed, attempts, crashes, acked,
                 cuts>>

TrimWriteKeeps ==  \* mutant
  /\ phase = "trimming"
  /\ file' = kept /\ phase' = "scanning"
  /\ UNCHANGED <<schema, kept, last, closed, attempts, crashes, acked,
                 cuts>>

TrimWrite ==
  /\ phase = "trimming"
  /\ file' = kept /\ kept' = <<>>
  /\ phase' = "scanning"
  /\ UNCHANGED <<schema, last, closed, attempts, crashes, acked,
                 cuts>>

(* What a rewrite that is cut off leaves: the first lines, and maybe a     *)
(* part of the next one.                                                   *)
CutRewrite ==
  \E n \in 0..Len(kept) - 1 :
    \/ file' = SubSeq(kept, 1, n)
    \/ \E part \in CutOffParts :
         file' = Append(SubSeq(kept, 1, n), [kept[n + 1] EXCEPT !.part = part])

TrimWriteFails ==
  /\ phase = "trimming" /\ cuts < MaxCuts
  /\ CutRewrite /\ kept' = <<>>
  /\ phase' = "scanning" /\ cuts' = cuts + 1
  /\ UNCHANGED <<schema, last, closed, attempts, crashes, acked>>

CrashInTrim ==
  /\ phase = "trimming" /\ cuts < MaxCuts /\ crashes < MaxCrashes
  /\ CutRewrite /\ kept' = <<>>
  /\ phase' = "closed"
  /\ crashes' = crashes + 1 /\ cuts' = cuts + 1
  /\ UNCHANGED <<schema, last, closed, attempts, acked>>

NothingToTrim ==
  /\ phase = "closed" /\ ~(schema = "wal" /\ TornTail(file))
  /\ phase' = "scanning"
  /\ UNCHANGED <<schema, file, kept, last, closed, attempts, crashes, acked,
                 cuts>>

(* scan_tail, then verify_integrity.                                       *)
ScanSkipsLast ==  \* mutant: the chain restarts at genesis
  /\ phase = "scanning" /\ Broken(file) = {} /\ Chained(file)
  /\ last' = 0
  /\ phase' = "open"
  /\ UNCHANGED <<schema, file, kept, closed, attempts, crashes, acked,
                 cuts>>

Scan ==
  /\ phase = "scanning" /\ Broken(file) = {} /\ Chained(file)
  /\ last' = IF file = <<>> THEN 0 ELSE file[Len(file)].id
  /\ phase' = "open"
  /\ UNCHANGED <<schema, file, kept, closed, attempts, crashes, acked,
                 cuts>>

Refuse ==
  /\ phase = "scanning" /\ ~(Broken(file) = {} /\ Chained(file))
  /\ phase' = "refused"
  /\ UNCHANGED <<schema, file, kept, last, closed, attempts, crashes, acked,
                 cuts>>

(* VossRuntime::close.                                                     *)
Close ==
  /\ phase = "open"
  /\ phase' = "closed" /\ last' = 0 /\ closed' = FALSE
  /\ UNCHANGED <<schema, file, kept, attempts, crashes, acked, cuts>>

(* A process whose open was refused exits; the operator starts another.    *)
Retry ==
  /\ phase = "refused"
  /\ phase' = "closed"
  /\ UNCHANGED <<schema, file, kept, last, closed, attempts, crashes, acked,
                 cuts>>

CutOff == \E part \in CutOffParts \cup {"none"} :
            EmitFails(part) \/ CrashInEmit(part)

BootStep ==
  TrimBegin \/ TrimWrite \/ TrimWriteFails \/ NothingToTrim \/ Scan \/ Refuse

Next ==
  \/ Emit \/ CutOff
  \/ BootStep \/ Close \/ Retry
  \/ CrashInTrim \/ Crash

Spec == Init /\ [][Next]_vars

(* A boot runs to its end, and a refused one is tried again.               *)
FairSpec == Spec /\ WF_vars(BootStep) /\ WF_vars(Retry)

-----------------------------------------------------------------------------
PieceRec == [id : 1..MaxRecords, prev : 0..MaxRecords, part : CutOffParts]

(* The type of the state; only the rewrite keeps lines in memory.          *)
TypeOK ==
  /\ schema \in {"wal", "audit"}
  /\ file \in Seq(PieceRec) /\ kept \in Seq(PieceRec)
  /\ phase \in {"closed", "trimming", "scanning", "open", "refused"}
  /\ kept # <<>> => phase = "trimming"
  /\ last \in 0..MaxRecords /\ closed \in BOOLEAN
  /\ attempts \in 0..MaxRecords /\ crashes \in 0..MaxCrashes
  /\ cuts \in 0..MaxCuts
  /\ acked \in Seq(1..MaxRecords)

(* Whatever a failed append, a cut rewrite or a crash left, some later     *)
(* boot opens the write-ahead ledger again (open_chain, trim_partial_tail),*)
(* unless a record was written to the line of one that lacks its newline.  *)
OpensAgain ==
  schema = "wal" /\ phase # "open" ~> phase = "open" \/ Joined(file)

(* "crash exactly when a record is mid-append is tolerated: the one        *)
(* incomplete trailing record is trimmed" (PROTOTYPE.md:235-236): while no *)
(* rewrite is cut off, the write-ahead ledger is never refused.            *)
CrashIsTolerated == schema = "wal" /\ cuts = 0 => phase # "refused"

Contract == INSTANCE DurableLog
              WITH log <- Readable(IF phase = "trimming" THEN kept ELSE file),
                   acked <- Range(acked),
                   live <- phase = "open" /\ ~closed,
                   refused <- schema = "wal" /\ phase = "refused",
                   damaged <- cuts > 0 \/ Joined(file)

(* Both files keep the contract their users rely on, across failed         *)
(* appends, crashes and trims, wherever an append was cut off: until a     *)
(* rewrite is cut off, and except while two records share a line, an       *)
(* acknowledged record stays, one cut off landed or left nothing, and the  *)
(* write-ahead ledger is not refused (audit.rs:88-216, 289-315).           *)
ImplementsDurableLog == Contract!Spec
=============================================================================
