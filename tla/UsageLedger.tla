----------------------------- MODULE UsageLedger -----------------------------
(***************************************************************************)
(* The usage ledger of src/src/storage/costTracker.js: usage.jsonl, whose  *)
(* rows are sealed into a hash chain, the anchor usage.head beside it, the *)
(* gateway that appends to both and keeps its head in memory, and the      *)
(* `tollpike verify --seal` process that rewrites them.                    *)
(*                                                                         *)
(* Hashing is injective here: the seal of a row is the sequence of the     *)
(* payloads it commits to.                                                 *)
(***************************************************************************)
EXTENDS Integers, Sequences, FiniteSets

CONSTANTS
  Legacy,      \* rows written before the chain existed, at the head of the file
  MaxRows,     \* bound: rows ever recorded
  Trusts       \* what the environment may be trusted with: sets of assumptions

(* "whole writes": an append to the file happens entirely or not at all.   *)
(* "gateway stopped": it does not run while a --seal does.                 *)
(* "seal finishes": that process is not killed half way.                   *)
(* "no deletions": nobody removes rows from the file.                      *)
Environment == {"whole writes", "gateway stopped", "seal finishes", "no deletions"}

ASSUME LedgerAssumption ==
  Legacy \in Nat /\ MaxRows \in Nat /\ Trusts \subseteq SUBSET Environment

VARIABLES
  file,       \* lines of usage.jsonl
  open,       \* the last of them is not ended by a newline
  anchor,     \* usage.head: how many sealed rows there are, and the last seal
  up,         \* the gateway runs
  head,       \* its agg.chainHead
  chained,    \* its agg.integrity.chained
  counted,    \* the rows in its aggregates
  sealer,     \* the other process: what it read, and whether it has rewritten it
  written,    \* history: rows ever recorded; they are numbered in order
  durable,    \* history: those whose append succeeded
  deleted,    \* history: somebody removed anchored rows
  trusted     \* what the environment is trusted with in this behaviour

ledgerVars == <<file, open, anchor, up, head, chained, counted, sealer, written, durable, deleted, trusted>>

GENESIS == <<>>
NoSeal  == <<0>>                          \* a row without `h`
Junk    == [row |-> 0, h |-> NoSeal]      \* a line JSON.parse rejects

NoAnchor == [count |-> 0 - 1, head |-> GENESIS]   \* -1 never equals a real length

Idle == [step |-> "idle", lines |-> <<>>]

chainHash(prev, row) == Append(prev, row)

-----------------------------------------------------------------------------
(* walkChain and buildReport, on a file f and an anchor a.                  *)

Sealed(f)   == {i \in DOMAIN f : f[i].h # NoSeal}
Readable(f) == {i \in DOMAIN f : f[i] # Junk}

(* The seal of the nearest sealed row before line i: the stored one, so     *)
(* that one bad row does not condemn all that follow.                       *)
HeadBefore(f, i) ==
  LET before == {j \in Sealed(f) : j < i}
  IN  IF before = {} THEN GENESIS ELSE f[CHOOSE j \in before : \A k \in before : k <= j].h

LastSeal(f) == HeadBefore(f, Len(f) + 1)

(* A seal that does not match, or an unsealed row after the chain began.    *)
BrokenLinks(f) ==
  {i \in Sealed(f) : f[i].h # chainHash(HeadBefore(f, i), f[i].row)}
    \cup {i \in Readable(f) \ Sealed(f) : \E j \in Sealed(f) : j < i}

HeadAt(f, n) ==
  LET ends == {i \in Sealed(f) : Cardinality({j \in Sealed(f) : j <= i}) = n}
  IN  IF n = 0 THEN GENESIS ELSE f[CHOOSE i \in ends : TRUE].h

truncated(f, a)  == a # NoAnchor /\ Cardinality(Sealed(f)) < a.count
rolledBack(f, a) == a # NoAnchor /\ ~truncated(f, a) /\ HeadAt(f, a.count) # a.head

intact(f, a) == BrokenLinks(f) = {} /\ ~truncated(f, a) /\ ~rolledBack(f, a)

-----------------------------------------------------------------------------
(* The gateway.                                                             *)

LedgerInit ==
  /\ file = [i \in 1 .. Legacy |-> [row |-> i, h |-> NoSeal]]
  /\ open = FALSE
  /\ anchor = NoAnchor
  /\ up = FALSE
  /\ head = GENESIS /\ chained = 0 /\ counted = {}
  /\ sealer = Idle
  /\ written = Legacy /\ durable = 1 .. Legacy
  /\ deleted = FALSE
  /\ trusted \in Trusts

(* load, at start-up or from the MCP tool usage.reload.                     *)
load ==
  /\ head' = LastSeal(file)
  /\ chained' = Cardinality(Sealed(file))
  /\ counted' = {file[i].row : i \in Readable(file)}
  /\ UNCHANGED <<file, open, anchor, sealer, written, durable, deleted>>

Boot ==
  /\ ~up /\ up' = TRUE
  /\ "gateway stopped" \in trusted => sealer = Idle
  /\ load

Reload == up /\ load /\ UNCHANGED up

(* What the file is after more is appended to it.  Text that follows an     *)
(* unfinished line makes one unreadable line with it.                       *)
Extended(line) ==
  IF open THEN [file EXCEPT ![Len(file)] = Junk] ELSE Append(file, line)

NextRow == [row |-> written + 1, h |-> chainHash(head, written + 1)]

(* Mutant: a row is written without its newline.                            *)
recordUsageUnended ==
  /\ up /\ written < Legacy + MaxRows
  /\ file' = Extended(NextRow) /\ open' = TRUE
  /\ head' = NextRow.h
  /\ chained' = chained + 1
  /\ anchor' \in {anchor, [count |-> chained + 1, head |-> NextRow.h]}
  /\ counted' = counted \cup {NextRow.row}
  /\ written' = NextRow.row /\ durable' = durable \cup {NextRow.row}
  /\ UNCHANGED <<up, sealer, deleted>>

(* recordUsage: the row, then the anchor, whose failure is only logged.     *)
recordUsage ==
  /\ up /\ written < Legacy + MaxRows
  /\ file' = Extended(NextRow) /\ open' = FALSE
  /\ head' = NextRow.h
  /\ chained' = chained + 1
  /\ anchor' \in {anchor, [count |-> chained + 1, head |-> NextRow.h]}
  /\ counted' = counted \cup {NextRow.row}
  /\ written' = NextRow.row /\ durable' = durable \cup {NextRow.row}
  /\ UNCHANGED <<up, sealer, deleted>>

(* What an append that did not succeed leaves: nothing; a fragment of the   *)
(* row; all of it but the newline.                                          *)
Unfinished ==
  \/ UNCHANGED <<file, open>>
  \/ /\ "whole writes" \notin trusted
     /\ open' = TRUE
     /\ file' \in {Extended(Junk), Extended(NextRow)}

(* Mutant: the anchor is written first.                                     *)
AnchorFirst ==
  /\ up /\ written < Legacy + MaxRows
  /\ Unfinished
  /\ anchor' = [count |-> chained + 1, head |-> NextRow.h]
  /\ counted' = counted \cup {NextRow.row}
  /\ written' = NextRow.row
  /\ UNCHANGED <<up, head, chained, sealer, durable, deleted>>

(* The append threw: the row is accounted for in memory, and not chained.   *)
AppendFails ==
  /\ up /\ written < Legacy + MaxRows
  /\ Unfinished
  /\ counted' = counted \cup {NextRow.row}
  /\ written' = NextRow.row
  /\ UNCHANGED <<anchor, up, head, chained, sealer, durable, deleted>>

(* The process dies in recordUsage, in the append or before the anchor.     *)
Crash ==
  /\ up /\ written < Legacy + MaxRows /\ up' = FALSE
  /\ Unfinished \/ (file' = Extended(NextRow) /\ open' = FALSE)
  /\ written' = NextRow.row
  /\ UNCHANGED <<anchor, head, chained, counted, sealer, durable, deleted>>

(* It stops, or dies, between two calls. *)
Stop == up /\ up' = FALSE
          /\ UNCHANGED <<file, open, anchor, head, chained, counted, sealer, written, durable, deleted>>

-----------------------------------------------------------------------------
(* tollpike verify --seal, in a process of its own.                         *)

(* It refuses a ledger that fails verification or has unreadable lines, and *)
(* has nothing to do if no row is unsealed.                                 *)
SealRead ==
  /\ sealer = Idle
  /\ "gateway stopped" \in trusted => ~up
  /\ intact(file, anchor)
  /\ Readable(file) = DOMAIN file /\ Sealed(file) # DOMAIN file
  /\ sealer' = [step |-> "read", lines |-> file]
  /\ UNCHANGED <<file, open, anchor, up, head, chained, counted, written, durable, deleted>>

Resealed(f) ==
  [i \in DOMAIN f |-> [row |-> f[i].row, h |-> [j \in 1 .. i |-> f[j].row]]]

(* The backup and the temporary file are written, and that one is renamed   *)
(* over the ledger.                                                         *)
SealRename ==
  /\ sealer.step = "read"
  /\ file' = Resealed(sealer.lines) /\ open' = FALSE
  /\ sealer' = [step |-> "renamed", lines |-> file']
  /\ UNCHANGED <<anchor, up, head, chained, counted, written, durable, deleted>>

SealAnchor ==
  /\ sealer.step = "renamed"
  /\ anchor' = [count |-> Len(sealer.lines), head |-> LastSeal(sealer.lines)]
  /\ sealer' = Idle
  /\ UNCHANGED <<file, open, up, head, chained, counted, written, durable, deleted>>

SealDies ==
  /\ "seal finishes" \notin trusted /\ sealer # Idle /\ sealer' = Idle
  /\ UNCHANGED <<file, open, anchor, up, head, chained, counted, written, durable, deleted>>

(* Somebody removes the last row from the file, while the gateway is down.  *)
DeleteLast ==
  /\ "no deletions" \notin trusted
  /\ ~up /\ sealer = Idle /\ file # <<>> /\ ~open
  /\ Len(file) \in Sealed(file) /\ anchor.count = Cardinality(Sealed(file))
  /\ file' = SubSeq(file, 1, Len(file) - 1)
  /\ deleted' = TRUE
  /\ UNCHANGED <<open, anchor, up, head, chained, counted, sealer, written, durable>>

LedgerNext ==
  /\ \/ Boot \/ Reload \/ recordUsage \/ AppendFails \/ Crash \/ Stop
     \/ SealRead \/ SealRename \/ SealAnchor \/ SealDies
     \/ DeleteLast
  /\ UNCHANGED trusted

LedgerSpec == LedgerInit /\ [][LedgerNext]_ledgerVars

-----------------------------------------------------------------------------
(* A ledger only the gateway and a --seal have written verifies, whatever   *)
(* crashed or failed in between: "a state verification reads as a pending   *)
(* append, never as a truncation", costTracker.js:187.  It takes all of the *)
(* trust: between the rename and the anchor of a --seal it need not.        *)
NoFalseAlarm ==
  trusted = Environment /\ sealer.step # "renamed" => intact(file, anchor)

(* The head the gateway seals the next row against is the one a reader of   *)
(* the file would arrive at, and it counts the rows that reader would, if a *)
(* seal never runs beside it; this needs neither the end of the seal nor    *)
(* that nobody deletes rows.                                                *)
MemoryFollowsFile ==
  up /\ {"whole writes", "gateway stopped"} \subseteq trusted =>
    head = LastSeal(file) /\ chained = Cardinality(Sealed(file))

(* The file, the anchor beside it and the gateway's memory agree.           *)
LedgerAgrees == NoFalseAlarm /\ MemoryFollowsFile

(* "One bad byte should cost one row of history", costTracker.js:112.  With *)
(* whole writes a row whose append succeeded is there for every later       *)
(* reader.  A torn one costs its own row, and one more: at most the row     *)
(* recorded next, which is glued to it.                                     *)
TearCostsOneMore ==
  "gateway stopped" \in trusted /\ ~deleted =>
    \A r \in durable :
      \/ \E i \in Readable(file) : file[i].row = r
      \/ "whole writes" \notin trusted /\ r > 1 /\ r - 1 \notin durable

(* "Deleting only the most recent rows is caught as well", README.md:1039.  *)
DeletionStaysReported == deleted => ~intact(file, anchor)
=============================================================================
