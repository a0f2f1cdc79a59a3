------------------------------ MODULE Collector ------------------------------
(***************************************************************************)
(* src/src/audit/endpoint/collect.js: a collector on an agent's machine,   *)
(* which follows a log file, or polls the log of Sysmon, and sends what is *)
(* new to the gateway.  Where it is in the file it knows in memory, and    *)
(* has in a bookmark that it writes after a batch was accepted.  A line is *)
(* told by its place; "bad" is one with bytes that are not UTF-8, whose    *)
(* text is longer in bytes than the line, so that the offset runs ahead.   *)
(* A file that is truncated in place is not modelled.                      *)
(***************************************************************************)
EXTENDS Integers, Sequences, FiniteSets

CONSTANTS NoMark,
          BATCH,    \* lines in a read of 4 MB, or events in one of Sysmon
          MaxLines, MaxRestarts, MaxRotations

ASSUME CollectorAssumption ==
  {BATCH, MaxLines, MaxRestarts, MaxRotations} \subseteq Nat \ {0}

VARIABLES source,     \* "tail" or "sysmon", and whether from the start
          logFile,    \* its identity, its lines, whether the last is half-written
          follower,   \* state: identity, lines read, and whether it ran ahead
          bookmark,
          got,        \* of each line of each file, how often it arrived whole
          excuses,    \* lines that the follower passed over on purpose, those that
                      \* arrived cut, and those whose answer was lost
          restarts

collectorVars == <<source, logFile, follower, bookmark, got, excuses, restarts>>

Down == [identity |-> 0, at |-> 0, ahead |-> FALSE, known |-> FALSE, up |-> FALSE]

CollectorInit ==
  /\ source \in [kind : {"tail", "sysmon"}, fromStart : BOOLEAN]
  /\ source.kind = "sysmon" => source.fromStart
  /\ logFile \in {[identity |-> 1, lines |-> l, half |-> FALSE] : l \in {<<>>, <<"plain">>}}
  /\ follower = Down /\ bookmark = NoMark
  /\ got = [l \in (1..MaxRotations + 1) \X (1..MaxLines) |-> 0]
  /\ excuses = {} /\ restarts = 0

size == Len(logFile.lines)

(* What the sensor writes: a line, or the first half of one and the rest.  *)
WriteLine ==
  /\ \/ /\ ~logFile.half /\ size < MaxLines
        /\ \E kind \in {"plain", "bad"}, half \in BOOLEAN :
             /\ source.kind = "sysmon" => kind = "plain" /\ ~half
             /\ logFile' = [logFile EXCEPT !.lines = Append(@, kind), !.half = half]
     \/ logFile.half /\ logFile' = [logFile EXCEPT !.half = FALSE]
  /\ UNCHANGED <<source, follower, bookmark, got, excuses, restarts>>

(* The file is moved away and another takes its place: lines that were not *)
(* read yet are not looked for.                                            *)
Rotate ==
  /\ source.kind = "tail" /\ logFile.identity <= MaxRotations
  /\ logFile' = [identity |-> logFile.identity + 1, lines |-> <<>>, half |-> FALSE]
  /\ UNCHANGED <<source, follower, bookmark, got, excuses, restarts>>

StartCollector ==
  /\ ~follower.up
  /\ follower' = IF bookmark = NoMark THEN [Down EXCEPT !.up = TRUE] ELSE bookmark
  /\ UNCHANGED <<source, logFile, bookmark, got, excuses, restarts>>

StopCollector ==
  /\ follower.up /\ restarts < MaxRestarts
  /\ restarts' = restarts + 1 /\ follower' = Down
  /\ UNCHANGED <<source, logFile, bookmark, got, excuses>>

(* Where reading goes on: at the end on a first run, at the start of       *)
(* another file or of one that is shorter than the offset, as it also      *)
(* seems to be when the offset ran ahead of its last line.                 *)
Resume ==
  IF ~follower.known
  THEN [follower EXCEPT !.known = TRUE, !.identity = logFile.identity,
          !.at = IF source.fromStart THEN 0 ELSE size]
  ELSE IF \/ follower.identity # logFile.identity \/ size < follower.at
          \/ follower.ahead /\ size = follower.at
  THEN [follower EXCEPT !.identity = logFile.identity, !.at = 0, !.ahead = FALSE]
  ELSE follower

(* Mutant: all that was read is sent, and a line half-written with it.     *)
cutNowhere(from) == IF from + BATCH < size THEN from + BATCH ELSE size

(* Only whole lines are sent, as many as a read holds.                     *)
cut(from) ==
  LET whole == IF logFile.half THEN size - 1 ELSE size
  IN IF from + BATCH < whole THEN from + BATCH ELSE whole

(* One turn of the loop: the lines are sent, and if they were accepted the *)
(* bookmark is written.  Or the gateway refuses them, or its answer is     *)
(* lost; or the collector ends in between.                                 *)
Poll ==
  /\ follower.up
  /\ LET state == Resume
         to == cut(state.at)
         batch == state.at + 1..to
         first == state.at + 1
         broken == {i \in batch : (i = first /\ state.ahead) \/ (i = to /\ logFile.half /\ to = size)}
         next == [state EXCEPT !.at = to, !.ahead = \E i \in batch : logFile.lines[i] = "bad"]
         skipped == IF follower.known \/ source.fromStart THEN {} ELSE 1..size
         arrive == [l \in DOMAIN got |-> IF l[1] = logFile.identity /\ l[2] \in batch \ broken
                                         THEN got[l] + 1 ELSE got[l]]
         excused(lines) == excuses' = excuses \cup {<<logFile.identity, i>> : i \in lines}
         aside == skipped \cup {i \in broken : i = first /\ state.ahead}
     IN IF to <= state.at
        THEN follower' = state /\ excused(aside) /\ UNCHANGED <<bookmark, got, restarts>>
        ELSE \/ /\ follower' = next /\ bookmark' = next /\ got' = arrive
                /\ excused(aside) /\ UNCHANGED restarts
             \/ /\ follower' = state /\ got' = got
                /\ excused(aside) /\ UNCHANGED <<bookmark, restarts>>
             \/ /\ follower' = state /\ got' = arrive
                /\ excused(aside \cup batch) /\ UNCHANGED <<bookmark, restarts>>
             \/ /\ restarts < MaxRestarts /\ restarts' = restarts + 1
                /\ follower' = Down /\ got' = arrive
                /\ excused(aside) /\ UNCHANGED bookmark
  /\ \A l \in DOMAIN got' : got'[l] <= 2
  /\ UNCHANGED <<source, logFile>>

CollectorNext == WriteLine \/ Rotate \/ StartCollector \/ StopCollector \/ Poll

CollectorSpec == CollectorInit /\ [][CollectorNext]_collectorVars

-----------------------------------------------------------------------------
(* A line of the file that the collector has left behind arrived whole, or *)
(* was there before its first look, or follows one with bytes that are not *)
(* UTF-8; whatever was refused, whichever answer was lost and wherever the *)
(* collector was stopped (collect.js:266, 270).                            *)
LeftBehindArrived ==
  \A s \in {follower, bookmark} \ {NoMark} : s.known /\ s.identity = logFile.identity =>
    \A i \in 1..s.at : i <= size =>
      got[<<s.identity, i>>] > 0 \/ <<s.identity, i>> \in excuses

(* A restart neither resends nor skips lines: none of a file arrives twice *)
(* though every answer to the collector arrives (collect.js:243).          *)
RestartIsExact ==
  \A l \in DOMAIN got : got[l] > 1 => l \in excuses
==============================================================================
