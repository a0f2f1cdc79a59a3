---------------------------- MODULE AuditLogProofs ----------------------------
(***************************************************************************)
(* The lock of the audit log, for any number of processes and events: with *)
(* the trust it needs, a process that dies at any step leaves a lock that  *)
(* one other process takes over, and a file that only grows by lines.      *)
(* And what the vendors' logs bring to it: a pull passes nothing over.     *)
(***************************************************************************)
EXTENDS AuditLog, VendorPull, SequenceTheorems, WellFoundedInduction, FiniteSetTheorems, TLAPS

USE AuditAssumption

(* HeadBefore takes the last of a set of lines; that it has a last one      *)
(* cannot be had by induction, so it is kept as a part of the invariant.    *)
Before(f, i) == {j \in Parsable(f) : j < i}
Topped(S)    == S # {} => \E m \in S : \A k \in S : k <= m
AllTopped(f) == \A i \in 1 .. Len(f) + 1 : Topped(Before(f, i))

LEMMA LineType ==
  /\ Junk \in Line
  /\ \A l \in Line : l # Junk => l.event \in Events /\ l.h \in Seals
BY DEF Line

LEMMA BeforeAppend ==
  ASSUME NEW f \in Seq(Line), NEW l \in Line, NEW i \in 1 .. Len(f) + 1
  PROVE  Before(Append(f, l), i) = Before(f, i)
BY DEF Before, Parsable

LEMMA BeforeLast ==
  ASSUME NEW f \in Seq(Line), NEW l \in Line
  PROVE  Before(Append(f, l), Len(f) + 2)
           = IF l = Junk THEN Before(f, Len(f) + 1) ELSE Before(f, Len(f) + 1) \cup {Len(f) + 1}
BY DEF Before, Parsable

(* A file that grows by a line, or whose last line is glued to another.     *)
LEMMA ToppedAppend ==
  ASSUME NEW f \in Seq(Line), NEW l \in Line, AllTopped(f)
  PROVE  AllTopped(Append(f, l))
<1> SUFFICES ASSUME NEW i \in 1 .. Len(Append(f, l)) + 1
             PROVE  Topped(Before(Append(f, l), i))
  BY DEF AllTopped
<1>1. CASE i \in 1 .. Len(f) + 1
  BY <1>1, BeforeAppend DEF AllTopped
<1>2. CASE i = Len(f) + 2
  <2>1. Topped(Before(f, Len(f) + 1))
    BY DEF AllTopped
  <2>2. \A k \in Before(f, Len(f) + 1) : k \in Nat /\ k <= Len(f) + 1
    BY DEF Before, Parsable
  <2>3. CASE l = Junk
    <3>1. Before(Append(f, l), i) = Before(f, Len(f) + 1)
      BY <1>2, <2>3, BeforeLast
    <3> QED BY <2>1, <3>1
  <2>4. CASE l # Junk
    <3>1. Before(Append(f, l), i) = Before(f, Len(f) + 1) \cup {Len(f) + 1}
      BY <1>2, <2>4, BeforeLast
    <3>2. \A k \in Before(Append(f, l), i) : k <= Len(f) + 1
      BY <2>2, <3>1
    <3> QED BY <3>1, <3>2 DEF Topped
  <2> QED BY <2>3, <2>4
<1> QED BY <1>1, <1>2

LEMMA ToppedGlued ==
  ASSUME NEW f \in Seq(Line), f # <<>>, AllTopped(f)
  PROVE  AllTopped([f EXCEPT ![Len(f)] = Junk])
<1> DEFINE g == [f EXCEPT ![Len(f)] = Junk]
<1>0. g \in Seq(Line) /\ Len(g) = Len(f) /\ Len(f) \in Nat \ {0}
  BY LineType
<1> SUFFICES ASSUME NEW i \in 1 .. Len(f) + 1
             PROVE  Topped(Before(g, i))
  BY <1>0 DEF AllTopped
<1>1. CASE i \in 1 .. Len(f)
  <2>1. Before(g, i) = Before(f, i)
    BY <1>0, <1>1 DEF Before, Parsable
  <2> QED BY <1>1, <2>1 DEF AllTopped
<1>2. CASE i = Len(f) + 1
  <2>1. Before(g, i) = Before(f, Len(f))
    BY <1>0, <1>2 DEF Before, Parsable
  <2>2. Len(f) \in 1 .. Len(f) + 1
    BY <1>0
  <2> QED BY <2>1, <2>2 DEF AllTopped
<1> QED BY <1>1, <1>2

(* What HeadBefore is: the seal of the last line that parses.               *)
LEMMA HeadIs ==
  ASSUME NEW f \in Seq(Line), AllTopped(f), NEW i \in 1 .. Len(f) + 1
  PROVE  \/ Before(f, i) = {} /\ HeadBefore(f, i) = GENESIS
         \/ \E m \in Before(f, i) : /\ \A k \in Before(f, i) : k <= m
                                    /\ HeadBefore(f, i) = f[m].h
<1>1. CASE Before(f, i) = {}
  BY <1>1 DEF HeadBefore, Before
<1>2. CASE Before(f, i) # {}
  <2> DEFINE m == CHOOSE j \in Before(f, i) : \A k \in Before(f, i) : k <= j
  <2>1. \E j \in Before(f, i) : \A k \in Before(f, i) : k <= j
    BY <1>2 DEF AllTopped, Topped
  <2>2. m \in Before(f, i) /\ \A k \in Before(f, i) : k <= m
    BY <2>1
  <2>3. HeadBefore(f, i) = f[m].h
    BY <1>2 DEF HeadBefore, Before
  <2> QED BY <2>2, <2>3
<1> QED BY <1>1, <1>2

LEMMA HeadType ==
  ASSUME NEW f \in Seq(Line), AllTopped(f), NEW i \in 1 .. Len(f) + 1
  PROVE  HeadBefore(f, i) \in Seals
<1>1. GENESIS \in Seals
  BY DEF GENESIS, Seals
<1>2. \A m \in Before(f, i) : f[m] \in Line /\ f[m] # Junk
  BY DEF Before, Parsable
<1> QED BY <1>1, <1>2, HeadIs, LineType

LEMMA HeadAppend ==
  ASSUME NEW f \in Seq(Line), NEW l \in Line, AllTopped(f), NEW i \in 1 .. Len(f) + 1
  PROVE  HeadBefore(Append(f, l), i) = HeadBefore(f, i)
<1> DEFINE g == Append(f, l)
<1>1. g \in Seq(Line) /\ AllTopped(g) /\ i \in 1 .. Len(g) + 1
  BY ToppedAppend
<1>2. Before(g, i) = Before(f, i)
  BY BeforeAppend
<1>3. \A m \in Before(f, i) : m \in 1 .. Len(f) /\ g[m] = f[m]
  BY DEF Before, Parsable
<1>4. CASE Before(f, i) = {}
  BY <1>1, <1>2, <1>4, HeadIs
<1>5. CASE Before(f, i) # {}
  <2>1. PICK m \in Before(f, i) : /\ \A k \in Before(f, i) : k <= m
                                  /\ HeadBefore(f, i) = f[m].h
    BY <1>5, HeadIs
  <2>2. PICK n \in Before(f, i) : /\ \A k \in Before(f, i) : k <= n
                                  /\ HeadBefore(g, i) = g[n].h
    <3> HIDE DEF g
    <3> QED BY <1>1, <1>2, <1>5, HeadIs
  <2>3. m = n
    BY <1>3, <2>1, <2>2
  <2> QED BY <1>3, <2>1, <2>2, <2>3
<1> QED BY <1>4, <1>5

LEMMA HeadLast ==
  ASSUME NEW f \in Seq(Line), NEW l \in Line, AllTopped(f)
  PROVE  HeadBefore(Append(f, l), Len(f) + 2)
           = IF l = Junk THEN HeadBefore(f, Len(f) + 1) ELSE l.h
<1> DEFINE g == Append(f, l)
           n == Len(f) + 1
<1>1. g \in Seq(Line) /\ AllTopped(g) /\ Len(f) + 2 \in 1 .. Len(g) + 1 /\ n \in 1 .. Len(f) + 1
  BY ToppedAppend
<1>2. \A m \in Before(f, n) : m \in 1 .. Len(f) /\ g[m] = f[m]
  BY DEF Before, Parsable
<1>3. CASE l = Junk
  <2>1. Before(g, Len(f) + 2) = Before(f, n)
    BY <1>3, BeforeLast
  <2>2. CASE Before(f, n) = {}
    BY <1>1, <1>3, <2>1, <2>2, HeadIs
  <2>3. CASE Before(f, n) # {}
    <3>1. PICK m \in Before(f, n) : /\ \A k \in Before(f, n) : k <= m
                                    /\ HeadBefore(f, n) = f[m].h
      BY <1>1, <2>3, HeadIs
    <3>2. PICK j \in Before(f, n) : /\ \A k \in Before(f, n) : k <= j
                                    /\ HeadBefore(g, Len(f) + 2) = g[j].h
      <4> HIDE DEF g, n
      <4> QED BY <1>1, <2>1, <2>3, HeadIs
    <3>3. m = j
      BY <1>2, <3>1, <3>2
    <3> QED BY <1>2, <1>3, <3>1, <3>2, <3>3
  <2> QED BY <2>2, <2>3
<1>4. CASE l # Junk
  <2>1. Before(g, Len(f) + 2) = Before(f, n) \cup {n}
    BY <1>4, BeforeLast
  <2>2. PICK j \in Before(f, n) \cup {n} : /\ \A k \in Before(f, n) \cup {n} : k <= j
                                           /\ HeadBefore(g, Len(f) + 2) = g[j].h
    <3> HIDE DEF g, n
    <3> QED BY <1>1, <2>1, HeadIs
  <2>3. j = n
    BY <1>2, <2>2
  <2> QED BY <1>4, <2>2, <2>3
<1> QED BY <1>3, <1>4

-----------------------------------------------------------------------------
(* Whatever the trust: types, and what an append under way has read.        *)
Begun ==
  \A p \in Processes :
    /\ pc[p] # "idle" => event[p] \in Events
    /\ pc[p] \in {"append", "anchor"} => cache[p].size \in Nat

Typed == TypeOK /\ AllTopped(file) /\ (open => file # <<>>) /\ Begun

(* With it, the lock: who works holds it, nobody's lock grows old in his    *)
(* hands, and one process at a time removes an old one.                     *)
Working == {"load", "append", "anchor", "release"}

Locked ==
  /\ \A p \in Processes :
       /\ pc[p] \in Working => held[p] = TRUE
       /\ held[p] = TRUE => pc[p] \in Working /\ lock = p /\ ~old
       /\ pc[p] = "takeover" => lock # Nobody /\ old
  /\ \A p, q \in Processes : pc[p] = "takeover" /\ pc[q] = "takeover" => p = q

(* And the file: what a process has read of it is true as long as the size  *)
(* it remembers is, and while it appends.                                   *)
Current(p) == cache[p].head = HeadBefore(file, Len(file) + 1) /\ cache[p].count = Len(file)

Linked(f) ==
  \A i \in DOMAIN f : f[i] = Junk \/ f[i].h = chainHash(HeadBefore(f, i), f[i].event)

Known ==
  \A p \in Processes :
    /\ cache[p].size <= size
    /\ cache[p].size = size => Current(p)
    /\ pc[p] \in {"append", "anchor"} => Current(p)
    /\ pc[p] = "append" => lead[p] = open
    /\ pc[p] = "anchor" => file[Len(file)].h = cache[p].head

Anchored == ~truncated /\ ~rolledBack

Chained == Linked(file) /\ Anchored /\ NothingLost /\ Known

Inv == Typed /\ (trusted = Environment => Locked /\ Chained)

-----------------------------------------------------------------------------
LEMMA InitInv == Init => Inv
<1> SUFFICES ASSUME Init PROVE Inv
  OBVIOUS
<1>1. Typed
  <2>1. TypeOK
    <3>1. GENESIS \in Seals /\ Unknown \in Cache
      BY DEF GENESIS, Seals, Cache
    <3>2. file \in Seq(Line) /\ anchor \in [count : Nat, head : Seals]
      BY <3>1 DEF Init, NoAnchor
    <3>3. cache \in [Processes -> Cache]
      BY <3>1 DEF Init
    <3>4. /\ pc \in [Processes -> {"idle", "lock", "takeover", "load", "append", "anchor", "release"}]
          /\ event \in [Processes -> 0 .. MaxEvents] /\ tried \in 0 .. MaxEvents
      BY DEF Init
    <3>5. held \in [Processes -> BOOLEAN] /\ lead \in [Processes -> BOOLEAN] /\ open \in BOOLEAN
      BY DEF Init
    <3> QED BY <3>2, <3>3, <3>4, <3>5 DEF Init, TypeOK
  <2>2. AllTopped(file)
    BY DEF Init, AllTopped, Topped, Before, Parsable
  <2> QED BY <2>1, <2>2 DEF Init, Typed, Begun
<1>2. Locked
  BY DEF Init, Locked, Working
<1>3. Chained
  BY DEF Init, Chained, Linked, Anchored, truncated, rolledBack, NoAnchor, NothingLost,
         Parsable, Known, Unknown
<1> QED BY <1>1, <1>2, <1>3 DEF Inv

(* What is written is a line, and the head that is read is a seal.          *)
LEMMA SealedType ==
  ASSUME Typed, NEW p \in Processes, pc[p] = "append"
  PROVE  Sealed(p) \in Line /\ Sealed(p) # Junk /\ Sealed(p).h \in Seals
<1>1. event[p] \in Events /\ event[p] # 0
  BY DEF Typed, Begun, Events
<1>2. cache[p].head \in Seals
  <2>1. cache[p] \in Cache /\ GENESIS \in Seals
    BY DEF Typed, TypeOK, GENESIS, Seals
  <2> QED BY <2>1 DEF Cache, Unknown
<1>3. chainHash(cache[p].head, event[p]) \in Seals
  BY <1>1, <1>2 DEF chainHash, Seals
<1> QED BY <1>1, <1>3 DEF Sealed, Line, Junk

LEMMA HeadNow ==
  ASSUME Typed
  PROVE  HeadBefore(file, Len(file) + 1) \in Seals /\ Len(file) \in Nat
<1>1. Len(file) + 1 \in 1 .. Len(file) + 1 /\ file \in Seq(Line) /\ AllTopped(file)
  BY DEF Typed, TypeOK
<1> QED BY <1>1, HeadType

LEMMA ExtendedType ==
  ASSUME Typed, NEW p \in Processes, NEW l \in Line
  PROVE  /\ Extended(p, l) \in Seq(Line) /\ Extended(p, l) # <<>>
         /\ AllTopped(Extended(p, l))
<1>0. file \in Seq(Line) /\ AllTopped(file) /\ (open => file # <<>>)
  BY DEF Typed, TypeOK
<1>1. CASE open /\ ~lead[p]
  <2>1. Extended(p, l) = [file EXCEPT ![Len(file)] = Junk]
    BY <1>1 DEF Extended
  <2> DEFINE g == [file EXCEPT ![Len(file)] = Junk]
  <2>2. g \in Seq(Line) /\ Len(g) = Len(file) /\ Len(file) # 0
    BY <1>0, <1>1, LineType
  <2>3. g # <<>>
    BY <2>2
  <2>4. AllTopped(g)
    BY <1>0, <1>1, ToppedGlued
  <2> QED BY <2>1, <2>2, <2>3, <2>4
<1>2. CASE ~(open /\ ~lead[p])
  <2>1. Extended(p, l) = Append(file, l)
    BY <1>2 DEF Extended
  <2> QED BY <1>0, <2>1, ToppedAppend
<1> QED BY <1>1, <1>2

LEMMA HalfAppendedType ==
  ASSUME Typed, NEW p \in Processes, pc[p] = "append", HalfAppended(p)
  PROVE  /\ file' \in Seq(Line) /\ open' \in BOOLEAN /\ size' \in Nat
         /\ AllTopped(file)' /\ (open' => file' # <<>>)
<1>1. CASE UNCHANGED <<file, open, size>>
  BY <1>1 DEF Typed, TypeOK, AllTopped, Topped, Before, Parsable
<1>2. CASE /\ file' \in {Extended(p, Junk), Extended(p, Sealed(p))}
           /\ open' = TRUE /\ size' = size + 1
  <2>1. AllTopped(file') /\ file' \in Seq(Line) /\ file' # <<>>
    BY <1>2, ExtendedType, SealedType, LineType
  <2>2. AllTopped(file)'
    BY <2>1 DEF AllTopped, Topped, Before, Parsable
  <2> QED BY <1>2, <2>1, <2>2 DEF Typed, TypeOK
<1> QED BY <1>1, <1>2 DEF HalfAppended

LEMMA TypedNext == Typed /\ [Next]_vars => Typed'
<1> SUFFICES ASSUME Typed, [Next]_vars PROVE Typed'
  OBVIOUS
<1> USE DEF files, locks, histories
<1>0. trusted' = trusted
  BY DEF Next, Works, Ages, vars
<1>1. ASSUME NEW p \in Processes, Begin(p) PROVE Typed'
  <2>1. tried' \in 0 .. MaxEvents /\ tried + 1 \in Events
    BY <1>1 DEF Begin, Typed, TypeOK, Events
  <2>2. event' \in [Processes -> 0 .. MaxEvents] /\ event'[p] \in Events
        /\ \A q \in Processes \ {p} : event'[q] = event[q]
    BY <1>1, <2>1 DEF Begin, Typed, TypeOK, Events
  <2>3. TypeOK'
    BY <1>0, <1>1, <2>1, <2>2 DEF Begin, Typed, TypeOK
  <2> QED BY <1>1, <2>2, <2>3 DEF Begin, Typed, TypeOK, Begun, AllTopped, Topped, Before, Parsable
<1>2. ASSUME NEW p \in Processes, TakeLock(p) PROVE Typed'
  BY <1>0, <1>2 DEF TakeLock, Typed, TypeOK, Begun, AllTopped, Topped, Before, Parsable
<1>3. ASSUME NEW p \in Processes, SeeStale(p) PROVE Typed'
  BY <1>0, <1>3 DEF SeeStale, Typed, TypeOK, Begun, AllTopped, Topped, Before, Parsable
<1>4. ASSUME NEW p \in Processes, RemoveStale(p) PROVE Typed'
  BY <1>0, <1>4 DEF RemoveStale, Typed, TypeOK, Begun, AllTopped, Topped, Before, Parsable
<1>5. ASSUME NEW p \in Processes, GoAhead(p) PROVE Typed'
  BY <1>0, <1>5 DEF GoAhead, Typed, TypeOK, Begun, AllTopped, Topped, Before, Parsable
<1>6. ASSUME NEW p \in Processes, Load(p) PROVE Typed'
  <2>1. cache' \in [Processes -> Cache] /\ cache'[p].size \in Nat
        /\ \A q \in Processes \ {p} : cache'[q] = cache[q]
    BY <1>6, HeadNow DEF Load, Typed, TypeOK, Cache, Unknown
  <2> QED BY <1>0, <1>6, <2>1 DEF Load, Typed, TypeOK, Begun, AllTopped, Topped, Before, Parsable
<1>7. ASSUME NEW p \in Processes, AppendRow(p) PROVE Typed'
  <2>1. cache[p].size \in Nat /\ event[p] \in Events
    BY <1>7 DEF AppendRow, Typed, Begun
  <2>2. cache' \in [Processes -> Cache] /\ cache'[p].size = cache[p].size
        /\ \A q \in Processes \ {p} : cache'[q] = cache[q]
    <3>1. cache[p] \in [head : Seals, count : Nat, size : Nat]
      BY <2>1 DEF Typed, TypeOK, Cache, Unknown
    <3>2. Sealed(p).h \in Seals
      BY <1>7, SealedType DEF AppendRow
    <3>3. cache' = [cache EXCEPT ![p] = [head |-> Sealed(p).h, count |-> cache[p].count + 1,
                                        size |-> cache[p].size]]
      BY <1>7 DEF AppendRow
    <3> QED BY <3>1, <3>2, <3>3 DEF Typed, TypeOK, Cache
  <2>3. AllTopped(file') /\ file' \in Seq(Line)
    BY <1>7, ExtendedType, SealedType DEF AppendRow
  <2>4. AllTopped(file)'
    BY <2>3 DEF AllTopped, Topped, Before, Parsable
  <2>5. TypeOK'
    <3>1. durable' \subseteq Events
      BY <1>7, <2>1 DEF AppendRow, Typed, TypeOK
    <3>5. size' \in Nat
      BY <1>7 DEF AppendRow, Typed, TypeOK
    <3>6. open' \in BOOLEAN
      BY <1>7, Zenon DEF AppendRow
    <3>2. pc' \in [Processes -> {"idle", "lock", "takeover", "load", "append", "anchor", "release"}]
      BY <1>7 DEF AppendRow, Typed, TypeOK
    <3>3. UNCHANGED <<anchor, lock, old, held, lead, tried, event, trusted>>
      BY <1>0, <1>7 DEF AppendRow
    <3>4. TypeOK
      BY DEF Typed
    <3> QED BY <2>2, <2>3, <3>1, <3>2, <3>3, <3>4, <3>5, <3>6 DEF TypeOK
  <2> QED BY <1>7, <2>1, <2>2, <2>4, <2>5 DEF AppendRow, Typed, TypeOK, Begun
<1>8. ASSUME NEW p \in Processes, AppendFails(p) PROVE Typed'
  <2>1. pc[p] = "append" /\ HalfAppended(p)
    BY <1>8 DEF AppendFails
  <2> QED BY <1>0, <1>8, <2>1, HalfAppendedType DEF AppendFails, Typed, TypeOK, Begun
<1>9. ASSUME NEW p \in Processes, WriteAnchor(p) PROVE Typed'
  <2>1. cache[p].size \in Nat /\ size \in Nat /\ cache[p] \in Cache
    BY <1>9 DEF WriteAnchor, Typed, TypeOK, Begun
  <2>2. cache[p].head \in Seals /\ cache[p].count \in Nat
    BY <2>1 DEF Cache, Unknown, GENESIS, Seals
  <2>3. cache' \in [Processes -> Cache] /\ cache'[p].size = size
        /\ \A q \in Processes \ {p} : cache'[q] = cache[q]
    BY <1>9, <2>1 DEF WriteAnchor, Typed, TypeOK, Cache, Unknown
  <2>4. anchor' \in [count : Nat, head : Seals]
    BY <1>9, <2>2 DEF WriteAnchor, Typed, TypeOK
  <2> QED BY <1>0, <1>9, <2>3, <2>4
          DEF WriteAnchor, Typed, TypeOK, Begun, AllTopped, Topped, Before, Parsable
<1>10. ASSUME NEW p \in Processes, Release(p) PROVE Typed'
  BY <1>0, <1>10 DEF Release, Typed, TypeOK, Begun, AllTopped, Topped, Before, Parsable
<1>11. ASSUME NEW p \in Processes, Crash(p) PROVE Typed'
  <2>1. /\ file' \in Seq(Line) /\ open' \in BOOLEAN /\ size' \in Nat
        /\ AllTopped(file)' /\ (open' => file' # <<>>)
    <3>1. CASE pc[p] = "append"
      BY <1>11, <3>1, HalfAppendedType DEF Crash
    <3>2. CASE pc[p] # "append"
      BY <1>11, <3>2 DEF Crash, Typed, TypeOK, AllTopped, Topped, Before, Parsable
    <3> QED BY <3>1, <3>2
  <2>2. cache' \in [Processes -> Cache] /\ \A q \in Processes \ {p} : cache'[q] = cache[q]
    BY <1>11 DEF Crash, Typed, TypeOK, Cache
  <2> QED BY <1>0, <1>11, <2>1, <2>2 DEF Crash, Typed, TypeOK, Begun
<1>12. ASSUME Ages PROVE Typed'
  BY <1>0, <1>12 DEF Ages, LockAges, Typed, TypeOK, Begun, AllTopped, Topped, Before, Parsable
<1>13. ASSUME UNCHANGED vars PROVE Typed'
  BY <1>13 DEF vars, Typed, TypeOK, Begun, AllTopped, Topped, Before, Parsable
<1> QED BY <1>1, <1>2, <1>3, <1>4, <1>5, <1>6, <1>7, <1>8, <1>9, <1>10, <1>11, <1>12, <1>13
        DEF Next, Works

-----------------------------------------------------------------------------
LEMMA Environs == trusted = Environment =>
  "quick holders" \in trusted /\ "lone takeover" \in trusted /\ "patience" \in trusted
BY DEF Environment

LEMMA OneWorks ==
  ASSUME Locked, NEW p \in Processes, NEW q \in Processes,
         pc[p] \in Working, pc[q] \in Working
  PROVE  p = q
BY DEF Locked

(* Who removes a stale lock removes a dead process's: nobody holds it.      *)
LEMMA LockedNext ==
  ASSUME Typed, Locked, trusted = Environment, [Next]_vars
  PROVE  Locked'
<1> USE DEF locks
<1>1. ASSUME NEW p \in Processes, Begin(p) PROVE Locked'
  BY <1>1 DEF Begin, Locked, Working, Typed, TypeOK
<1>2. ASSUME NEW p \in Processes, TakeLock(p) PROVE Locked'
  BY <1>2 DEF TakeLock, Locked, Working, Typed, TypeOK
<1>3. ASSUME NEW p \in Processes, SeeStale(p) PROVE Locked'
  BY <1>3, Environs DEF SeeStale, Locked, Working, Typed, TypeOK
<1>4. ASSUME NEW p \in Processes, RemoveStale(p) PROVE Locked'
  BY <1>4 DEF RemoveStale, Locked, Working, Typed, TypeOK
<1>5. ASSUME NEW p \in Processes, GoAhead(p) PROVE Locked'
  BY <1>5, Environs DEF GoAhead
<1>6. ASSUME NEW p \in Processes, Load(p) PROVE Locked'
  BY <1>6 DEF Load, Locked, Working, Typed, TypeOK
<1>7. ASSUME NEW p \in Processes, AppendRow(p) PROVE Locked'
  BY <1>7 DEF AppendRow, Locked, Working, Typed, TypeOK
<1>8. ASSUME NEW p \in Processes, AppendFails(p) PROVE Locked'
  BY <1>8 DEF AppendFails, Locked, Working, Typed, TypeOK
<1>9. ASSUME NEW p \in Processes, WriteAnchor(p) PROVE Locked'
  BY <1>9 DEF WriteAnchor, Locked, Working, Typed, TypeOK
<1>10. ASSUME NEW p \in Processes, Release(p) PROVE Locked'
  BY <1>10 DEF Release, Locked, Working, Typed, TypeOK
<1>11. ASSUME NEW p \in Processes, Crash(p) PROVE Locked'
  BY <1>11 DEF Crash, Locked, Working, Typed, TypeOK
<1>12. ASSUME Ages PROVE Locked'
  BY <1>12, Environs DEF Ages, LockAges, Locked, Working, Typed, TypeOK
<1>13. ASSUME UNCHANGED vars PROVE Locked'
  BY <1>13 DEF vars, Locked
<1> QED BY <1>1, <1>2, <1>3, <1>4, <1>5, <1>6, <1>7, <1>8, <1>9, <1>10, <1>11, <1>12, <1>13
        DEF Next, Works

-----------------------------------------------------------------------------
(* A line that is torn, or chained from the head of the file.               *)
Fits(l) == l \in Line /\ (l # Junk => l.h = chainHash(HeadBefore(file, Len(file) + 1), l.event))

LEMMA LinkedAppend ==
  ASSUME Typed, Linked(file), NEW l, Fits(l)
  PROVE  Linked(Append(file, l))
<1>0. file \in Seq(Line) /\ AllTopped(file) /\ l \in Line /\ Len(file) \in Nat
  BY DEF Typed, TypeOK, Fits
<1> SUFFICES ASSUME NEW i \in 1 .. Len(file) + 1, Append(file, l)[i] # Junk
             PROVE  Append(file, l)[i].h
                      = chainHash(HeadBefore(Append(file, l), i), Append(file, l)[i].event)
  BY <1>0 DEF Linked
<1>1. HeadBefore(Append(file, l), i) = HeadBefore(file, i)
  BY <1>0, HeadAppend
<1>2. CASE i \in 1 .. Len(file)
  BY <1>0, <1>1, <1>2 DEF Linked
<1>3. CASE i = Len(file) + 1
  BY <1>0, <1>1, <1>3 DEF Fits
<1> QED BY <1>2, <1>3

LEMMA AnchoredAppend ==
  ASSUME Typed, Anchored, NEW l \in Line, file' = Append(file, l), anchor' = anchor
  PROVE  Anchored'
<1>1. file \in Seq(Line) /\ anchor.count \in Nat /\ anchor.count <= Len(file)
  BY DEF Typed, TypeOK, Anchored, truncated
<1>2. ~truncated'
  BY <1>1 DEF truncated
<1>3. ~rolledBack'
  BY <1>1 DEF rolledBack, Anchored, Parsable
<1> QED BY <1>2, <1>3 DEF Anchored

LEMMA NothingLostAppend ==
  ASSUME Typed, NothingLost, NEW l \in Line, file' = Append(file, l),
         durable' = durable \/ (l # Junk /\ durable' = durable \cup {l.event})
  PROVE  NothingLost'
<1>1. file \in Seq(Line) /\ Len(file) \in Nat
  BY DEF Typed, TypeOK
<1> SUFFICES ASSUME NEW e \in durable'
             PROVE  \E i \in Parsable(file') : e = file'[i].event
  BY DEF NothingLost
<1>2. CASE e \in durable
  <2>1. PICK i \in Parsable(file) : e = file[i].event
    BY <1>2 DEF NothingLost
  <2> QED BY <1>1, <2>1 DEF Parsable
<1>3. CASE l # Junk /\ e = l.event
  <2>1. Len(file) + 1 \in Parsable(file') /\ file'[Len(file) + 1] = l
    BY <1>1, <1>3 DEF Parsable
  <2> QED BY <1>3, <2>1
<1> QED BY <1>2, <1>3

(* The row fits while its process knows the head; so does a torn one.       *)
LEMMA RowFits ==
  ASSUME Typed, Known, NEW p \in Processes, pc[p] = "append"
  PROVE  /\ Fits(Sealed(p)) /\ Fits(Junk)
         /\ \A l \in Line : Extended(p, l) = Append(file, l)
<1>1. cache[p].head = HeadBefore(file, Len(file) + 1) /\ lead[p] = open
  BY DEF Known, Current
<1>2. Sealed(p).h = chainHash(HeadBefore(file, Len(file) + 1), Sealed(p).event)
  BY <1>1 DEF Sealed
<1> QED BY <1>1, <1>2, SealedType, LineType DEF Fits, Extended

(* A step that leaves the files alone, and what was read of them.           *)
LEMMA ChainedSame ==
  ASSUME Chained, UNCHANGED <<file, anchor, size, durable>>
  PROVE  /\ Linked(file)' /\ Anchored' /\ NothingLost'
         /\ \A p \in Processes : cache'[p] = cache[p] => (Current(p) <=> Current(p)')
BY DEF Chained, Linked, HeadBefore, Parsable, Anchored, truncated, rolledBack, NothingLost, Current

LEMMA ChainedTorn ==
  ASSUME Typed, Locked, Chained, NEW p \in Processes, pc[p] = "append", HalfAppended(p),
         UNCHANGED <<anchor, durable, lead>>,
         NEW x \in {"release", "idle"}, pc' = [pc EXCEPT ![p] = x],
         cache' = cache \/ cache' = [cache EXCEPT ![p] = Unknown]
  PROVE  Chained'
<1>0. size \in Nat /\ cache \in [Processes -> Cache] /\ pc'[p] \in {"release", "idle"}
      /\ \A q \in Processes : pc'[q] \notin {"append", "anchor"}
  BY OneWorks DEF Typed, TypeOK, Working
<1>1. \A q \in Processes : cache'[q] = cache[q] \/ cache'[q].size = -1
  BY <1>0 DEF Unknown
<1>2. CASE UNCHANGED <<file, open, size>>
  <2>1. \A q \in Processes : cache'[q].size <= size' /\ (cache'[q].size = size' => Current(q)')
    BY <1>0, <1>1, <1>2, ChainedSame DEF Chained, Known
  <2>2. Known'
    BY <1>0, <2>1 DEF Known
  <2> QED BY <1>2, <2>2, ChainedSame DEF Chained
<1>3. CASE file' \in {Extended(p, Junk), Extended(p, Sealed(p))} /\ size' = size + 1
  <2>1. PICK l \in Line : Fits(l) /\ file' = Append(file, l)
    BY <1>3, RowFits, SealedType, LineType DEF Chained
  <2>2. Linked(file)'
    <3>1. Linked(file')
      BY <2>1, LinkedAppend DEF Chained
    <3> QED BY <3>1 DEF Linked, HeadBefore, Parsable
  <2>3. Anchored'
    BY <2>1, AnchoredAppend DEF Chained, Fits
  <2>7. NothingLost'
    BY <2>1, NothingLostAppend DEF Chained, Fits
  <2>4. \A q \in Processes : cache'[q].size <= size
    BY <1>0, <1>1 DEF Chained, Known
  <2>5. \A q \in Processes : cache'[q].size \in Int
    BY <1>0, <1>1 DEF Cache, Unknown
  <2>6. Known'
    BY <1>0, <1>3, <2>4, <2>5 DEF Known
  <2> QED BY <2>2, <2>3, <2>6, <2>7 DEF Chained
<1> QED BY <1>2, <1>3 DEF HalfAppended

LEMMA ChainedNext ==
  ASSUME Typed, Locked, Chained, trusted = Environment, [Next]_vars
  PROVE  Chained'
<1> USE DEF files, locks, histories
<1>0. size \in Nat /\ cache \in [Processes -> Cache] /\ Len(file) \in Nat /\ file \in Seq(Line)
      /\ pc \in [Processes -> {"idle", "lock", "takeover", "load", "append", "anchor", "release"}]
  BY HeadNow DEF Typed, TypeOK
<1>1. ASSUME UNCHANGED <<files, cache, lead, durable>>,
             \A q \in Processes : pc'[q] \in {"append", "anchor"} => pc'[q] = pc[q]
      PROVE  Chained'
  <2>1. Known'
    BY <1>1, ChainedSame DEF Chained, Known
  <2> QED BY <1>1, <2>1, ChainedSame DEF Chained
<1>2. ASSUME NEW p \in Processes,
             Begin(p) \/ TakeLock(p) \/ SeeStale(p) \/ RemoveStale(p) \/ GoAhead(p) \/ Release(p)
      PROVE  Chained'
  BY <1>0, <1>1, <1>2 DEF Begin, TakeLock, SeeStale, RemoveStale, GoAhead, Release
<1>3. ASSUME NEW p \in Processes, Load(p) PROVE Chained'
  <2>0. UNCHANGED <<file, anchor, size, durable, open>> /\ pc[p] = "load" /\ pc'[p] = "append"
        /\ lead'[p] = open /\ \A q \in Processes \ {p} : cache'[q] = cache[q] /\ pc'[q] = pc[q]
                                                          /\ lead'[q] = lead[q]
    BY <1>0, <1>3 DEF Load, Typed, TypeOK
  <2>1. cache'[p].size = size /\ Current(p)'
    <3>1. CASE cache[p].size = size
      BY <1>3, <2>0, <3>1, ChainedSame DEF Load, Chained, Known
    <3>2. CASE cache[p].size # size
      <4>1. cache'[p] = [head |-> HeadBefore(file, Len(file) + 1), count |-> Len(file), size |-> size]
        BY <1>0, <1>3, <3>2 DEF Load
      <4> QED BY <2>0, <4>1 DEF Current, HeadBefore, Parsable
    <3> QED BY <3>1, <3>2
  <2>2. Known'
    BY <1>0, <2>0, <2>1, ChainedSame DEF Chained, Known
  <2> QED BY <2>0, <2>2, ChainedSame DEF Chained
<1>4. ASSUME NEW p \in Processes, AppendRow(p) PROVE Chained'
  <2> DEFINE l == Sealed(p)
  <2>0. pc[p] = "append" /\ size' = size + 1 /\ anchor' = anchor
        /\ durable' = durable \cup {event[p]} /\ file' = Extended(p, l)
        /\ pc' = [pc EXCEPT ![p] = "anchor"]
        /\ cache' = [cache EXCEPT ![p] = [head |-> l.h, count |-> cache[p].count + 1,
                                         size |-> cache[p].size]]
    BY <1>4 DEF AppendRow
  <2>1. Fits(l) /\ l \in Line /\ l # Junk /\ file' = Append(file, l)
    BY <2>0, RowFits, SealedType DEF Chained
  <2>2. Linked(file)'
    <3>1. Linked(file')
      BY <2>1, LinkedAppend DEF Chained
    <3> QED BY <3>1 DEF Linked, HeadBefore, Parsable
  <2>3. Anchored'
    BY <2>0, <2>1, AnchoredAppend DEF Chained
  <2>12. NothingLost'
    <3>1. durable' = durable \cup {l.event}
      BY <2>0, <2>1 DEF Sealed
    <3> HIDE DEF l
    <3> QED BY <2>1, <3>1, NothingLostAppend DEF Chained
  <2>4. \A q \in Processes : cache'[q].size = cache[q].size
    BY <1>0, <2>0
  <2>5. \A q \in Processes : cache'[q].size \in Int /\ cache'[q].size <= size
    BY <1>0, <2>4 DEF Chained, Known, Cache, Unknown
  <2>6. Len(file') = Len(file) + 1 /\ file'[Len(file')] = l
    BY <1>0, <2>1
  <2>7. cache'[p].head = l.h /\ cache'[p].count = Len(file')
    BY <1>0, <2>0, <2>6 DEF Chained, Known, Current
  <2>8. HeadBefore(file', Len(file') + 1) = l.h
    BY <1>0, <2>1, <2>6, HeadLast DEF Typed
  <2>9. Current(p)'
    BY <2>7, <2>8 DEF Current, HeadBefore, Parsable
  <2>10. \A q \in Processes : pc'[q] \in {"append", "anchor"} => q = p
    BY <1>0, <2>0, OneWorks DEF Working
  <2>11. Known'
    BY <1>0, <2>0, <2>5, <2>6, <2>7, <2>9, <2>10 DEF Known
  <2> QED BY <2>2, <2>3, <2>11, <2>12 DEF Chained
<1>5. ASSUME NEW p \in Processes, AppendFails(p) PROVE Chained'
  BY <1>5, ChainedTorn DEF AppendFails
<1>6. ASSUME NEW p \in Processes, WriteAnchor(p) PROVE Chained'
  <2>0. UNCHANGED <<file, size, durable, open, lead>> /\ pc[p] = "anchor" /\ pc'[p] = "release"
        /\ \A q \in Processes \ {p} : cache'[q] = cache[q] /\ pc'[q] = pc[q]
    BY <1>0, <1>6 DEF WriteAnchor
  <2>1. cache'[p].size = size /\ cache'[p].head = cache[p].head /\ cache'[p].count = cache[p].count
    BY <1>0, <1>6 DEF WriteAnchor, Cache, Unknown
  <2>2. Current(p)
    BY <2>0 DEF Chained, Known
  <2>3. Current(p)'
    BY <2>0, <2>1, <2>2 DEF Current, HeadBefore, Parsable
  <2>4. Linked(file)'
    BY <2>0 DEF Chained, Linked, HeadBefore, Parsable
  <2>8. NothingLost'
    BY <2>0 DEF Chained, Parsable, NothingLost
  <2>5. \A q \in Processes \ {p} : Current(q) <=> Current(q)'
    BY <2>0 DEF Current, HeadBefore, Parsable
  <2>6. Known'
    BY <1>0, <2>0, <2>1, <2>3, <2>5 DEF Chained, Known
  <2>7. Anchored'
    <3>1. CASE anchor' = anchor
      BY <2>0, <3>1 DEF Chained, Anchored, truncated, rolledBack, Parsable
    <3>2. CASE anchor' = [count |-> cache[p].count, head |-> cache[p].head]
      <4>1. anchor'.count = Len(file) /\ anchor'.head = cache[p].head
        BY <2>2, <3>2 DEF Current
      <4>2. file[Len(file)].h = cache[p].head
        BY <2>0 DEF Chained, Known
      <4> QED BY <1>0, <2>0, <4>1, <4>2 DEF Anchored, truncated, rolledBack
    <3> QED BY <1>6, <3>1, <3>2 DEF WriteAnchor
  <2> QED BY <2>4, <2>6, <2>7, <2>8 DEF Chained
<1>7. ASSUME NEW p \in Processes, Crash(p) PROVE Chained'
  <2>1. CASE pc[p] = "append"
    BY <1>7, <2>1, ChainedTorn DEF Crash
  <2>2. CASE pc[p] # "append"
    <3>1. UNCHANGED <<file, anchor, size, durable, open, lead>> /\ pc'[p] = "idle"
          /\ cache'[p].size = -1 /\ \A q \in Processes \ {p} : cache'[q] = cache[q] /\ pc'[q] = pc[q]
      BY <1>0, <1>7, <2>2 DEF Crash, Unknown
    <3>2. Known'
      BY <1>0, <3>1, ChainedSame DEF Chained, Known
    <3> QED BY <3>1, <3>2, ChainedSame DEF Chained
  <2> QED BY <2>1, <2>2
<1>8. ASSUME Ages \/ UNCHANGED vars PROVE Chained'
  BY <1>0, <1>1, <1>8 DEF Ages, LockAges, vars
<1> QED BY <1>2, <1>3, <1>4, <1>5, <1>6, <1>7, <1>8 DEF Next, Works

-----------------------------------------------------------------------------
LEMMA NextInv == Inv /\ [Next]_vars => Inv'
<1> SUFFICES ASSUME Inv, [Next]_vars PROVE Inv'
  OBVIOUS
<1>1. trusted' = trusted
  BY DEF Next, Works, Ages, vars
<1>2. Typed'
  BY TypedNext DEF Inv
<1>3. trusted' = Environment => Locked' /\ Chained'
  BY <1>1, LockedNext, ChainedNext DEF Inv
<1> QED BY <1>2, <1>3 DEF Inv

LEMMA InvKeeps == Inv => LockKeepsTheLog
<1> SUFFICES ASSUME Inv PROVE LockKeepsTheLog
  OBVIOUS
<1>1. OneWriter
  BY OneWorks DEF Inv, OneWriter, Working
<1>2. OnlyTearsBreak
  BY DEF Inv, Chained, Linked, Anchored, OnlyTearsBreak, brokenAt
<1>3. DurableIsReadable
  BY DEF Inv, Chained, DurableIsReadable
<1> QED BY <1>1, <1>2, <1>3 DEF Inv, Typed, LockKeepsTheLog

(* "Appends take a lock file so each one chains from the true head"         *)
(* (log.js:17), for any number of processes that may die at any step of     *)
(* appendEvent: as long as a lock is held shorter than it takes to go       *)
(* stale, a stale one is removed by one process at a time and nobody goes   *)
(* ahead without it, one process appends at a time, the chain breaks only   *)
(* at lines a crash tore, the anchor agrees with the file, and every event  *)
(* whose append succeeded is in it.                                         *)
THEOREM LockSafe == Spec => []LockKeepsTheLog
<1> QED BY InitInv, NextInv, InvKeeps, PTL DEF Spec

-----------------------------------------------------------------------------
(* With no trust in anybody: a torn line stays in the file for ever, so a   *)
(* file without one never had two rows glued together.                      *)
Whole(f) == \A i \in DOMAIN f : f[i] # Junk
WholeInv == Typed /\ (Whole(file) => NothingLost)

(* A row that finds the last line unfinished makes one torn line of both.   *)
LEMMA WholeExtended ==
  ASSUME Typed, NEW p \in Processes, NEW l \in Line, Whole(Extended(p, l))
  PROVE  l # Junk /\ Whole(file) /\ Extended(p, l) = Append(file, l)
<1>0. file \in Seq(Line) /\ Len(file) \in Nat /\ (open => Len(file) # 0)
  BY DEF Typed, TypeOK
<1>1. ~(open /\ ~lead[p])
  <2> SUFFICES ASSUME open, ~lead[p] PROVE FALSE
    OBVIOUS
  <2>1. Extended(p, l) = [file EXCEPT ![Len(file)] = Junk]
    BY DEF Extended
  <2>2. Len(file) \in DOMAIN file
    BY <1>0
  <2> QED BY <2>1, <2>2 DEF Whole
<1>2. Extended(p, l) = Append(file, l)
  BY <1>1 DEF Extended
<1>3. /\ Len(file) + 1 \in DOMAIN Append(file, l) /\ Append(file, l)[Len(file) + 1] = l
      /\ \A i \in DOMAIN file : i \in DOMAIN Append(file, l) /\ Append(file, l)[i] = file[i]
  BY <1>0
<1>4. l # Junk
  BY <1>2, <1>3 DEF Whole
<1>5. Whole(file)
  BY <1>2, <1>3 DEF Whole
<1> QED BY <1>2, <1>4, <1>5

LEMMA WholeGrown ==
  ASSUME WholeInv, NEW p \in Processes, NEW l \in Line, file' = Extended(p, l),
         durable' = durable \/ durable' = durable \cup {l.event}, Whole(file')
  PROVE  NothingLost'
<1>1. l # Junk /\ Whole(file) /\ file' = Append(file, l)
  BY WholeExtended DEF WholeInv
<1> QED BY <1>1, NothingLostAppend DEF WholeInv

LEMMA WholeNext == WholeInv /\ [Next]_vars => WholeInv'
<1> SUFFICES ASSUME WholeInv, [Next]_vars PROVE WholeInv'
  OBVIOUS
<1> USE DEF files, histories
<1>1. Typed'
  BY TypedNext DEF WholeInv
<1>2. SUFFICES ASSUME Whole(file') PROVE NothingLost'
  BY <1>1 DEF WholeInv, Whole
<1>3. ASSUME UNCHANGED <<file, durable>> PROVE NothingLost'
  BY <1>2, <1>3 DEF WholeInv, Whole, NothingLost, Parsable
<1>4. ASSUME NEW p \in Processes, HalfAppended(p), pc[p] = "append", durable' = durable
      PROVE  NothingLost'
  <2>1. CASE UNCHANGED <<file, open, size>>
    BY <1>3, <1>4, <2>1
  <2>2. CASE file' \in {Extended(p, Junk), Extended(p, Sealed(p))}
    <3>1. PICK l \in Line : file' = Extended(p, l)
      BY <1>4, <2>2, SealedType, LineType DEF WholeInv
    <3> QED BY <1>2, <1>4, <3>1, WholeGrown
  <2> QED BY <1>4, <2>1, <2>2 DEF HalfAppended
<1>5. ASSUME NEW p \in Processes, AppendRow(p) PROVE NothingLost'
  <2>1. Sealed(p) \in Line
    BY <1>5, SealedType DEF AppendRow, WholeInv
  <2>2. file' = Extended(p, Sealed(p)) /\ durable' = durable \cup {Sealed(p).event}
    BY <1>5 DEF AppendRow, Sealed
  <2> QED BY <1>2, <2>1, <2>2, WholeGrown
<1>6. ASSUME NEW p \in Processes, AppendFails(p) PROVE NothingLost'
  BY <1>4, <1>6 DEF AppendFails
<1>7. ASSUME NEW p \in Processes, Crash(p) PROVE NothingLost'
  BY <1>3, <1>4, <1>7 DEF Crash
<1>8. ASSUME NEW p \in Processes,
             \/ Begin(p) \/ TakeLock(p) \/ SeeStale(p) \/ RemoveStale(p) \/ GoAhead(p)
             \/ Load(p) \/ WriteAnchor(p) \/ Release(p)
      PROVE  NothingLost'
  BY <1>3, <1>8 DEF Begin, TakeLock, SeeStale, RemoveStale, GoAhead, Load, WriteAnchor, Release
<1>9. ASSUME Ages \/ UNCHANGED vars PROVE NothingLost'
  BY <1>3, <1>9 DEF Ages, LockAges, vars
<1> QED BY <1>5, <1>6, <1>7, <1>8, <1>9 DEF Next, Works

(* "A rare fork, which verify then reports, is better than losing the       *)
(* event" (log.js:162): whoever dies, whoever goes ahead without the lock,  *)
(* and however late a stale one is taken over, a log that verifies has      *)
(* every event whose append succeeded.  What guards it is neither the chain *)
(* nor the anchor, but that a row glued to another one no longer parses.    *)
THEOREM LossIsNeverSilent == Spec => []NoSilentLoss
<1>1. Init => WholeInv
  BY InitInv DEF Inv, Init, WholeInv, NothingLost
<1>2. WholeInv => NoSilentLoss
  BY DEF WholeInv, Whole, NoSilentLoss, brokenAt
<1> QED BY <1>1, <1>2, WholeNext, PTL DEF Spec

-----------------------------------------------------------------------------
HIDE AuditAssumption

(* A non-empty set of numbers has a least element.                          *)
LEMMA LeastNumber ==
  ASSUME NEW T, T \subseteq Nat, T # {}
  PROVE  \E n \in T : \A m \in T : n <= m
<1> DEFINE below == OpToRel(<, Nat)
<1>1. IsWellFoundedOn(below, Nat)
  BY NatLessThanWellFounded
<1>2. \E x \in T : \A y \in T : ~ (<<y, x>> \in below)
  <2> HIDE DEF below
  <2> QED BY <1>1, WFMin
<1>3. PICK x \in T : \A y \in T : ~ (<<y, x>> \in below)
  BY <1>2
<1>4. ASSUME NEW y \in T PROVE x <= y
  <2>1. ~ (<<y, x>> \in below)
    BY <1>3
  <2>2. ~ (y < x)
    BY <2>1 DEF OpToRel
  <2> QED BY <2>2
<1> QED BY <1>4

LEMMA GreatestNumber ==
  ASSUME NEW n \in Nat, NEW T, T \subseteq 1 .. n, T # {}
  PROVE  \E m \in T : \A k \in T : k <= m
<1> DEFINE U == {n - j : j \in T}
<1>1. U \subseteq Nat /\ U # {}
  <2>1. \A j \in T : n - j \in Nat
    OBVIOUS
  <2>2. PICK j \in T : TRUE
    OBVIOUS
  <2>3. n - j \in U
    BY <2>2
  <2> QED BY <2>1, <2>3
<1>2. PICK d \in U : \A e \in U : d <= e
  <2> HIDE DEF U
  <2> QED BY <1>1, LeastNumber
<1>3. PICK m \in T : d = n - m
  OBVIOUS
<1>4. ASSUME NEW k \in T PROVE k <= m
  <2>1. n - k \in U
    OBVIOUS
  <2>2. d <= n - k
    BY <1>2, <2>1
  <2> QED BY <1>3, <2>2
<1> QED BY <1>4

(* The vendors: what is handled first on a page has its place in it.        *)
LEMMA GreatestTime ==
  ASSUME NEW n \in Nat, NEW T, T \subseteq 0 .. n, T # {}
  PROVE  Max(T) \in T /\ \A t \in T : t <= Max(T)
<1> DEFINE U == {n - t : t \in T}
<1>1. U \subseteq Nat /\ U # {}
  <2>1. \A t \in T : n - t \in Nat
    OBVIOUS
  <2>2. PICK t \in T : TRUE
    OBVIOUS
  <2>3. n - t \in U
    BY <2>2
  <2> QED BY <2>1, <2>3
<1>2. PICK d \in U : \A e \in U : d <= e
  <2> HIDE DEF U
  <2> QED BY <1>1, LeastNumber
<1>3. PICK m \in T : d = n - m
  OBVIOUS
<1>4. ASSUME NEW k \in T PROVE m >= k
  <2>1. n - k \in U
    OBVIOUS
  <2>2. d <= n - k
    BY <1>2, <2>1
  <2> QED BY <1>3, <2>2
<1>5. Max(T) = CHOOSE x \in T : \A y \in T : x >= y
  BY DEF Max
<1>6. Max(T) \in T /\ \A y \in T : Max(T) >= y
  BY <1>4, <1>5
<1> QED BY <1>6

LEMMA Sooner ==
  ASSUME NEW i \in Nat, NEW j \in Nat
  PROVE  /\ ~sooner(i, i)
         /\ i = j \/ sooner(i, j) \/ sooner(j, i)
         /\ \A k \in Nat : sooner(i, j) /\ sooner(j, k) => sooner(i, k)
         /\ ~(sooner(i, j) /\ sooner(j, i))
BY DEF sooner

LEMMA AheadGrows ==
  ASSUME NEW ids, ids \subseteq Nat, IsFiniteSet(ids)
  PROVE  /\ Cardinality(ids) \in Nat
         /\ \A i \in ids : Cardinality(ahead(ids, i)) \in 0 .. Cardinality(ids) - 1
         /\ \A i \in ids, j \in ids :
              sooner(i, j) <=> Cardinality(ahead(ids, i)) < Cardinality(ahead(ids, j))
         /\ \A i \in ids, j \in ids :
              Cardinality(ahead(ids, i)) = Cardinality(ahead(ids, j)) => i = j
<1> DEFINE of(i) == Cardinality(ahead(ids, i))
<1>0. Cardinality(ids) \in Nat
  BY FS_CardinalityType
<1>1. \A i \in ids : ahead(ids, i) \in SUBSET ids /\ i \notin ahead(ids, i)
  BY Sooner DEF ahead
<1>2. ASSUME NEW i \in ids PROVE IsFiniteSet(ahead(ids, i)) /\ of(i) \in 0 .. Cardinality(ids) - 1
  <2>1. /\ IsFiniteSet(ahead(ids, i)) /\ Cardinality(ahead(ids, i)) <= Cardinality(ids)
        /\ Cardinality(ids) = Cardinality(ahead(ids, i)) => ids = ahead(ids, i)
    BY <1>1, FS_Subset
  <2>2. Cardinality(ahead(ids, i)) \in Nat
    BY <2>1, FS_CardinalityType
  <2>3. Cardinality(ids) # Cardinality(ahead(ids, i))
    BY <1>1, <2>1
  <2> QED BY <1>0, <2>1, <2>2, <2>3
<1>3. ASSUME NEW i \in ids, NEW j \in ids, sooner(i, j) PROVE of(i) < of(j)
  <2>1. ahead(ids, i) \in SUBSET ahead(ids, j)
    BY <1>3, Sooner DEF ahead
  <2>2. i \in ahead(ids, j) /\ i \notin ahead(ids, i)
    BY <1>1, <1>3 DEF ahead
  <2>3. IsFiniteSet(ahead(ids, j))
    BY <1>2
  <2>4. /\ Cardinality(ahead(ids, i)) <= Cardinality(ahead(ids, j))
        /\ Cardinality(ahead(ids, j)) = Cardinality(ahead(ids, i)) => ahead(ids, j) = ahead(ids, i)
    BY <2>1, <2>3, FS_Subset
  <2>5. of(i) # of(j)
    BY <2>2, <2>4
  <2>6. of(i) \in Int /\ of(j) \in Int
    BY <1>2
  <2> QED BY <2>4, <2>5, <2>6
<1> HIDE DEF of
<1>4. ASSUME NEW i \in ids, NEW j \in ids, of(i) < of(j) PROVE sooner(i, j)
  <2>1. of(i) \in Int /\ of(j) \in Int
    BY <1>2
  <2>2. ~sooner(j, i) /\ i # j
    BY <1>3, <1>4, <2>1
  <2> QED BY <2>2, Sooner
<1>5. ASSUME NEW i \in ids, NEW j \in ids, of(i) = of(j) PROVE i = j
  <2>1. of(i) \in Int /\ of(j) \in Int
    BY <1>2
  <2>2. ~sooner(j, i) /\ ~sooner(i, j)
    BY <1>3, <1>5, <2>1
  <2> QED BY <2>2, Sooner
<1> QED BY <1>0, <1>2, <1>3, <1>4, <1>5 DEF of

LEMMA InTurnIs ==
  ASSUME NEW ids, ids \subseteq Nat, IsFiniteSet(ids)
  PROVE  inTurn(ids) \in Seq(ids) /\ Range(inTurn(ids)) = ids
<1> DEFINE n == Cardinality(ids)
           of(i) == Cardinality(ahead(ids, i))
           s == inTurn(ids)
<1>1. /\ n \in Nat /\ \A i \in ids : of(i) \in 0 .. n - 1
      /\ \A i \in ids, j \in ids : of(i) = of(j) => i = j
  BY AheadGrows
<1>2. s = [k \in 1 .. n |-> CHOOSE i \in ids : of(i) = k - 1]
  BY DEF inTurn
<1>3. ASSUME NEW k \in 0 .. n - 1 PROVE \E i \in ids : of(i) = k
  <2> DEFINE f == [i \in ids |-> of(i)]
  <2>1. f \in Injection(ids, 0 .. n - 1)
    <3> HIDE DEF of
    <3> QED BY <1>1 DEF Injection, IsInjective
  <2>2. IsFiniteSet(0 .. n - 1) /\ Cardinality(0 .. n - 1) = n
    <3>1. 0 \in Int /\ n - 1 \in Int
      BY <1>1
    <3>2. IsFiniteSet(0 .. n - 1) /\ Cardinality(0 .. n - 1) = IF 0 > n - 1 THEN 0 ELSE n - 1 - 0 + 1
      BY <3>1, FS_Interval
    <3> QED BY <1>1, <3>2
  <2>3. f \in Surjection(ids, 0 .. n - 1)
    <3> HIDE DEF f, of
    <3> QED BY <2>1, <2>2, FS_Injection
  <2> QED BY <2>3 DEF Surjection
<1>4. ASSUME NEW k \in 1 .. n PROVE s[k] \in ids /\ of(s[k]) = k - 1
  <2>1. k - 1 \in 0 .. n - 1
    BY <1>1
  <2> HIDE DEF of
  <2>2. \E i \in ids : of(i) = k - 1
    BY <1>3, <2>1
  <2> QED BY <1>2, <2>2
<1>5. DOMAIN s = 1 .. n
  BY <1>2
<1> HIDE DEF s, of, n
<1>6. s \in Seq(ids)
  <2>1. s = [k \in 1 .. n |-> s[k]]
    BY <1>2
  <2> QED BY <1>1, <1>4, <2>1
<1>7. ASSUME NEW i \in ids PROVE \E k \in DOMAIN s : s[k] = i
  <2>1. of(i) + 1 \in 1 .. n /\ (of(i) + 1) - 1 = of(i)
    BY <1>1
  <2>2. s[of(i) + 1] \in ids /\ of(s[of(i) + 1]) = of(i)
    BY <1>4, <2>1
  <2> QED BY <1>1, <1>5, <2>1, <2>2
<1>8. Range(s) = ids
  BY <1>4, <1>5, <1>7 DEF Range
<1> QED BY <1>6, <1>8 DEF s

-----------------------------------------------------------------------------
(* The connectors, as far as the argument needs them.                       *)
Shape(c) ==
  /\ c.order \in {"newest", "oldest", "windows", "snapshot"}
  /\ c.again \in BOOLEAN /\ c.closed \in BOOLEAN
  /\ c.moves \in {"tail", "last", "each"}
  /\ c.closed => c.order = "newest" /\ c.moves = "tail"
  /\ c.moves = "tail" => c.order = "newest"
  /\ c.moves = "each" => c.order # "newest"
  /\ c.order = "windows" => c.again /\ c.moves = "each"
  /\ c.ascending => c.order = "oldest"

LEMMA Shapes == connector \in Connectors => Shape(connector)
<1>1. Shape(openaiPlatform)
  BY DEF Shape, openaiPlatform
<1>2. Shape(chatgptEnterprise)
  BY DEF Shape, chatgptEnterprise
<1>3. Shape(anthropicCompliance)
  BY DEF Shape, anthropicCompliance
<1>4. Shape(cursorAudit)
  BY DEF Shape, cursorAudit
<1>5. Shape(githubCopilot)
  BY DEF Shape, githubCopilot
<1>6. Shape(googleGemini)
  BY DEF Shape, googleGemini
<1>7. Shape(microsoftCopilot)
  BY DEF Shape, microsoftCopilot
<1>8. Shape(microsoftCopilotChat)
  BY DEF Shape, microsoftCopilotChat
<1>9. Shape(anthropicAdmin)
  BY DEF Shape, anthropicAdmin
<1>10. connector \in Connectors =>
         connector \in {openaiPlatform, chatgptEnterprise, anthropicCompliance, cursorAudit,
                        githubCopilot, googleGemini, microsoftCopilot, microsoftCopilotChat,
                        anthropicAdmin}
  BY ConnectorsAssumption
<1> QED BY <1>1, <1>2, <1>3, <1>4, <1>5, <1>6, <1>7, <1>8, <1>9, <1>10

LEMMA VendorNone == None \notin Nat /\ PAGE \in Nat /\ WINDOW \in Nat
BY VendorAssumption

(* The vendor's records come in the order of their times.                   *)
Fates == {"recorded", "twice", "failed", "off", "edge", "gap"}

Timed ==
  /\ connector \in Connectors /\ now \in Nat
  /\ log \in Seq(Nat) /\ fate \in Seq(SUBSET Fates) /\ Len(fate) = Len(log)
  /\ now >= 1 /\ \A i \in DOMAIN log : 1 <= log[i] /\ log[i] <= now
  /\ \A i \in DOMAIN log, j \in DOMAIN log :
       i < j => log[i] <= log[j] /\ (~connector.again => log[i] < log[j])

(* The records something became of.                                         *)
Handled == {i \in DOMAIN log : fate[i] # {}}

(* A record that is added now is asked for from t on.                       *)
Past(t) ==
  t \in Nat /\ IF connector.again THEN t <= now ELSE t < now \/ \E i \in DOMAIN log : t <= log[i]

Covered(t, done) == \A i \in DOMAIN log : i \in done \/ Offered(i, t)

(* What a pull has settled, by the order in which it reads.                 *)
ByNewest(p, done) ==
  /\ p.at <= Len(log) + 1
  /\ \A i \in Match(p.since, p.end) :
       i \in done \/ i < p.at \/ (~connector.closed /\ Offered(i, p.newest))
ByOldest(p, done) ==
  /\ p.at <= Len(log)
  /\ \A i \in Match(p.since, p.end) : i \in done \/ i > p.at
  /\ p.newestTs # None => \E j \in DOMAIN log : j <= p.at /\ p.newestTs = log[j]
ByWindow(p, done) ==
  p.from \in Nat /\ p.from <= now /\ \A i \in DOMAIN log : i \in done \/ log[i] >= p.from

Progress(p, done) ==
  /\ p.since \in Nat /\ p.end \in Nat /\ p.end < now /\ p.at \in Nat
  /\ Past(p.since) /\ Past(p.newest) /\ (p.newestTs = None \/ Past(p.newestTs))
  /\ Covered(p.since, done)
  /\ connector.order = "newest" => ByNewest(p, done)
  /\ connector.order = "oldest" => ByOldest(p, done)
  /\ connector.order = "windows" => ByWindow(p, done)
  /\ p.tail \in BOOLEAN /\ (p.tail => connector.order = "newest" /\ Left(p) = {})

LEMMA TimedIs ==
  ASSUME Timed
  PROVE  /\ Len(log) \in Nat /\ DOMAIN log = 1 .. Len(log) /\ DOMAIN fate = DOMAIN log
         /\ IsFiniteSet(DOMAIN log)
         /\ \A i \in DOMAIN log : i \in Nat /\ log[i] \in Nat /\ log[i] <= now /\ Past(log[i])
<1>1. Len(log) \in Nat /\ DOMAIN log = 1 .. Len(log) /\ DOMAIN fate = 1 .. Len(fate)
  BY DEF Timed
<1>2. IsFiniteSet(1 .. Len(log))
  BY <1>1, FS_Interval
<1>3. \A i \in DOMAIN log : i \in Nat /\ log[i] \in Nat /\ log[i] <= now
  BY <1>1 DEF Timed
<1> QED BY <1>1, <1>2, <1>3 DEF Timed, Past

LEMMA NewestIs ==
  ASSUME Timed, NEW ids, ids \subseteq DOMAIN log, NEW t \in Nat \cup {None}
  PROVE  /\ Newest(t, ids) = t \/ \E k \in ids : Newest(t, ids) = log[k]
         /\ t # None => Newest(t, ids) \in Nat /\ t <= Newest(t, ids)
         /\ \A k \in ids : Newest(t, ids) \in Nat /\ log[k] <= Newest(t, ids)
<1> DEFINE times == ({t} \cup {log[i] : i \in ids}) \ {None}
           n == IF t # None /\ t > now THEN t ELSE now
           m == Newest(t, ids)
<1>0. /\ \A i \in ids : log[i] \in Nat /\ log[i] <= now
      /\ now \in Nat /\ None \notin Nat
  BY TimedIs, VendorNone DEF Timed
<1>1. n \in Nat /\ times \subseteq 0 .. n
  BY <1>0
<1>2. m = IF times = {} THEN None ELSE Max(times)
  BY DEF Newest
<1>3. \A s : s \in times <=> s # None /\ (s = t \/ \E i \in ids : s = log[i])
  OBVIOUS
<1>4. times # {} => Max(times) \in times /\ \A s \in times : s <= Max(times)
  <2> HIDE DEF times, n
  <2> QED BY <1>1, GreatestTime
<1>5. times \subseteq Nat
  BY <1>1
<1> HIDE DEF times, m
<1>6. CASE times = {}
  BY <1>0, <1>2, <1>3, <1>6 DEF m
<1>7. CASE times # {}
  <2>1. m \in times /\ m \in Nat /\ \A s \in times : s <= m
    BY <1>2, <1>4, <1>5, <1>7
  <2> QED BY <1>0, <1>3, <2>1 DEF m
<1> QED BY <1>6, <1>7

(* The records of a page are the next ones that are left.                   *)
LEMMA RecordsAre ==
  ASSUME Timed, NEW p, connector.order # "windows"
  PROVE  /\ Records(p) \subseteq Left(p) /\ Left(p) \subseteq DOMAIN log
         /\ \A i \in Left(p), k \in Records(p) : sooner(i, k) => i \in Records(p)
<1>1. Left(p) \subseteq DOMAIN log /\ Left(p) \subseteq Nat
  BY TimedIs DEF Left, Match
<1>2. IsFiniteSet(Left(p))
  BY <1>1, TimedIs, FS_Subset
<1>3. Records(p) = {i \in Left(p) : Cardinality(ahead(Left(p), i)) < PAGE}
  BY DEF Records
<1>4. ASSUME NEW i \in Left(p), NEW k \in Records(p), sooner(i, k) PROVE i \in Records(p)
  <2>1. k \in Left(p) /\ Cardinality(ahead(Left(p), k)) < PAGE
    BY <1>3
  <2>2. Cardinality(ahead(Left(p), i)) < Cardinality(ahead(Left(p), k))
    BY <1>1, <1>2, <1>4, <2>1, AheadGrows
  <2>3. Cardinality(ahead(Left(p), i)) \in Int /\ Cardinality(ahead(Left(p), k)) \in Int
    BY <1>1, <1>2, <2>1, AheadGrows
  <2>4. Cardinality(ahead(Left(p), i)) < PAGE
    BY <2>1, <2>2, <2>3, VendorNone
  <2> QED BY <1>3, <2>4
<1> QED BY <1>1, <1>3, <1>4

LEMMA FinalIs ==
  ASSUME Timed, NEW ids, ids \subseteq DOMAIN log, ids # {}
  PROVE  final(ids) \in ids /\ \A j \in ids : j = final(ids) \/ sooner(j, final(ids))
<1>1. ids \subseteq Nat /\ ids \subseteq 0 .. Len(log) /\ Len(log) \in Nat
  BY TimedIs
<1>2. \E i \in ids : \A j \in ids : j = i \/ sooner(j, i)
  <2>1. CASE connector.order = "newest"
    <3>1. PICK i \in ids : \A j \in ids : i <= j
      BY <1>1, LeastNumber
    <3> QED BY <1>1, <2>1, <3>1 DEF sooner
  <2>2. CASE connector.order # "newest"
    <3>1. Max(ids) \in ids /\ \A j \in ids : j <= Max(ids)
      BY <1>1, GreatestTime
    <3> QED BY <1>1, <2>2, <3>1 DEF sooner
  <2> QED BY <2>1, <2>2
<1> QED BY <1>2 DEF final

LEMMA OfferedIs ==
  ASSUME Timed, NEW i \in DOMAIN log
  PROVE  /\ \A k \in DOMAIN log : k < i => Offered(i, log[k])
         /\ \A t \in Nat : Offered(i, t) <=> IF connector.again THEN log[i] >= t ELSE log[i] > t
BY TimedIs, VendorNone DEF Offered, Timed

(* Whatever is read next, what was settled stays so.                        *)
LEMMA MoreSettled ==
  ASSUME NEW p, NEW done, NEW more, done \subseteq more, Progress(p, done)
  PROVE  Progress(p, more)
BY DEF Progress, Covered, ByNewest, ByOldest, ByWindow

(* What a page leaves behind, in each of the three orders.  Its records are *)
(* settled by then.                                                         *)
LEMMA NewestStep ==
  ASSUME Timed, connector.order = "newest", NEW done, NEW p, Progress(p, done), ~p.tail,
         Records(p) \subseteq done,
         NEW q, q.since = p.since, q.end = p.end, q.newest = Newest(p.newest, Records(p)),
         q.at = IF Records(p) = {} THEN p.at ELSE final(Records(p))
  PROVE  /\ ByNewest(q, done) /\ q.at \in Nat /\ Past(q.newest)
         /\ Records(p) = Left(p) => Left(q) = {}
<1> DEFINE ids == Records(p)
           new == Newest(p.newest, ids)
           at == IF ids = {} THEN p.at ELSE final(ids)
<1>0. /\ p.at \in Nat /\ p.at <= Len(log) + 1 /\ Past(p.newest) /\ p.newest \in Nat
      /\ \A i \in Match(p.since, p.end) :
           i \in done \/ i < p.at \/ (~connector.closed /\ Offered(i, p.newest))
  BY DEF Progress, ByNewest, Past
<1>1. Left(p) = {i \in Match(p.since, p.end) : i < p.at}
      /\ Left(q) = {i \in Match(p.since, p.end) : i < q.at}
  BY DEF Left
<1>2. /\ ids \subseteq Left(p) /\ Left(p) \subseteq DOMAIN log
      /\ \A i \in Left(p), k \in ids : i > k => i \in ids
  <2>1. connector.order # "windows"
    OBVIOUS
  <2>2. \A i \in Left(p), k \in Records(p) : sooner(i, k) => i \in Records(p)
    BY <2>1, RecordsAre
  <2> QED BY <2>1, <2>2, RecordsAre DEF sooner
<1>3. /\ Len(log) \in Nat /\ DOMAIN log = 1 .. Len(log)
      /\ \A i \in DOMAIN log : i \in Nat /\ Past(log[i]) /\ log[i] \in Nat
  BY TimedIs
<1>4. /\ new = p.newest \/ \E k \in ids : new = log[k]
      /\ new \in Nat
  <2>1. ids \subseteq DOMAIN log /\ p.newest # None
    BY <1>0, <1>2, VendorNone
  <2> HIDE DEF ids
  <2> QED BY <1>0, <2>1, NewestIs
<1>5. ids # {} => at \in ids /\ \A j \in ids : at <= j
  <2>1. ids # {} => final(ids) \in ids /\ \A j \in ids : j = final(ids) \/ sooner(j, final(ids))
    <3>1. ids \subseteq DOMAIN log
      BY <1>2
    <3> HIDE DEF ids
    <3> QED BY <3>1, FinalIs
  <2>2. ids \subseteq Nat
    BY <1>2, <1>3
  <2> QED BY <2>1, <2>2 DEF sooner
<1>6. q.at = at /\ q.newest = new
  OBVIOUS
<1> HIDE DEF new, at, ids
<1>7. at \in Nat /\ at <= p.at /\ (ids = {} => at = p.at)
  <2>1. ids = {} => at = p.at
    BY DEF at
  <2> QED BY <1>0, <1>1, <1>2, <1>3, <1>5, <2>1
<1>8. ASSUME NEW i \in Match(p.since, p.end), i \notin done, ~(i < at)
      PROVE  ~connector.closed /\ Offered(i, new)
  <2>0. i \in DOMAIN log /\ i \in Nat
    BY <1>3 DEF Match
  <2>1. ~(i < p.at)
    <3> SUFFICES ASSUME i < p.at PROVE FALSE
      OBVIOUS
    <3>1. i \in Left(p)
      BY <1>1
    <3>2. ids # {}
      BY <1>7, <1>8
    <3>3. at \in ids /\ at <= i /\ at \in Nat
      BY <1>5, <1>7, <1>8, <2>0, <3>2
    <3>4. i \in ids
      BY <1>2, <2>0, <3>1, <3>3
    <3> QED BY <1>8, <3>4 DEF ids
  <2>2. ~connector.closed /\ Offered(i, p.newest)
    BY <1>0, <1>8, <2>1
  <2>3. ASSUME NEW k \in ids PROVE Offered(i, log[k])
    <3>1. k \in DOMAIN log /\ k \in Nat /\ k < p.at
      BY <1>1, <1>2, <1>3
    <3>2. k < i
      BY <1>0, <2>0, <2>1, <3>1
    <3> QED BY <2>0, <3>1, <3>2, OfferedIs
  <2> QED BY <1>4, <2>2, <2>3
<1>9. Past(new)
  BY <1>0, <1>2, <1>3, <1>4
<1>10. ASSUME ids = Left(p) PROVE Left(q) = {}
  <2> SUFFICES ASSUME NEW i \in Left(q) PROVE FALSE
    OBVIOUS
  <2>1. i \in Match(p.since, p.end) /\ i < at
    BY <1>1, <1>6
  <2>2. i \in Nat
    BY <1>3, <2>1 DEF Match
  <2>3. i \in Left(p)
    BY <1>0, <1>1, <1>7, <2>1, <2>2
  <2>4. i \in ids /\ ids # {}
    BY <1>10, <2>3
  <2>5. at <= i
    BY <1>5, <2>4
  <2> QED BY <1>7, <2>1, <2>2, <2>5
<1>11. ByNewest(q, done)
  <2>1. q.at <= Len(log) + 1
    BY <1>0, <1>3, <1>6, <1>7
  <2> QED BY <1>6, <1>8, <2>1 DEF ByNewest
<1> QED BY <1>6, <1>7, <1>9, <1>10, <1>11 DEF ids

LEMMA OldestStep ==
  ASSUME Timed, connector.order = "oldest", NEW done, NEW p, Progress(p, done), ~p.tail,
         Records(p) \subseteq done, NEW fresh, fresh \subseteq Records(p),
         NEW q, q.since = p.since, q.end = p.end, q.newestTs = Newest(p.newestTs, fresh),
         q.at = IF Records(p) = {} THEN p.at ELSE final(Records(p))
  PROVE  /\ ByOldest(q, done) /\ q.at \in Nat
         /\ Records(p) # {} => q.at = final(Records(p)) /\ q.at \in DOMAIN log
         /\ Records(p) = Left(p) => Left(q) = {}
<1> DEFINE ids == Records(p)
           at == IF ids = {} THEN p.at ELSE final(ids)
           ts == Newest(p.newestTs, fresh)
<1>0. /\ p.at \in Nat /\ p.at <= Len(log)
      /\ \A i \in Match(p.since, p.end) : i \in done \/ i > p.at
      /\ p.newestTs # None => \E j \in DOMAIN log : j <= p.at /\ p.newestTs = log[j]
      /\ p.newestTs \in Nat \cup {None}
  BY DEF Progress, ByOldest, Past
<1>1. Left(p) = {i \in Match(p.since, p.end) : i > p.at}
      /\ Left(q) = {i \in Match(p.since, p.end) : i > q.at}
  BY DEF Left
<1>2. /\ ids \subseteq Left(p) /\ Left(p) \subseteq DOMAIN log
      /\ \A i \in Left(p), k \in ids : i < k => i \in ids
  <2>1. connector.order # "windows"
    OBVIOUS
  <2>2. \A i \in Left(p), k \in Records(p) : sooner(i, k) => i \in Records(p)
    BY <2>1, RecordsAre
  <2> QED BY <2>1, <2>2, RecordsAre DEF sooner
<1>3. /\ Len(log) \in Nat /\ DOMAIN log = 1 .. Len(log)
      /\ \A i \in DOMAIN log : i \in Nat /\ Past(log[i]) /\ log[i] \in Nat
  BY TimedIs
<1>4. ts = p.newestTs \/ \E k \in ids : ts = log[k]
  <2>1. fresh \subseteq DOMAIN log
    BY <1>2
  <2>2. ts = p.newestTs \/ \E k \in fresh : ts = log[k]
    BY <1>0, <2>1, NewestIs
  <2> QED BY <2>2
<1>5. ids # {} => at \in ids /\ \A j \in ids : j <= at
  <2>1. ids # {} => final(ids) \in ids /\ \A j \in ids : j = final(ids) \/ sooner(j, final(ids))
    <3>1. ids \subseteq DOMAIN log
      BY <1>2
    <3> HIDE DEF ids
    <3> QED BY <3>1, FinalIs
  <2>2. ids \subseteq Nat
    BY <1>2, <1>3
  <2> QED BY <2>1, <2>2 DEF sooner
<1>6. q.at = at /\ q.newestTs = ts /\ (ids # {} => at = final(ids))
  OBVIOUS
<1> HIDE DEF ts, at, ids
<1>7. at \in Nat /\ p.at <= at /\ at <= Len(log) /\ (ids = {} => at = p.at)
  <2>1. ids = {} => at = p.at
    BY DEF at
  <2> QED BY <1>0, <1>1, <1>2, <1>3, <1>5, <2>1
<1>8. ASSUME NEW i \in Match(p.since, p.end), i \notin done, ~(i > at)
      PROVE  FALSE
  <2>0. i \in DOMAIN log /\ i \in Nat
    BY <1>3 DEF Match
  <2>1. i > p.at
    BY <1>0, <1>8
  <2>2. i \in Left(p)
    BY <1>1, <2>1
  <2>3. ids # {}
    BY <1>7, <1>8, <2>1
  <2>4. at \in ids /\ i <= at
    BY <1>5, <1>7, <1>8, <2>0, <2>3
  <2>5. i \in ids
    BY <1>2, <1>7, <2>0, <2>2, <2>4
  <2> QED BY <1>8, <2>5 DEF ids
<1>9. ts # None => \E j \in DOMAIN log : j <= at /\ ts = log[j]
  <2>1. CASE ts = p.newestTs
    <3> SUFFICES ASSUME ts # None PROVE \E j \in DOMAIN log : j <= at /\ ts = log[j]
      OBVIOUS
    <3>1. PICK j \in DOMAIN log : j <= p.at /\ p.newestTs = log[j]
      BY <1>0, <2>1
    <3> QED BY <1>0, <1>3, <1>7, <2>1, <3>1
  <2>2. ASSUME NEW k \in ids, ts = log[k] PROVE k \in DOMAIN log /\ k <= at
    BY <1>2, <1>5
  <2> QED BY <1>4, <2>1, <2>2
<1>10. ASSUME ids = Left(p) PROVE Left(q) = {}
  <2> SUFFICES ASSUME NEW i \in Left(q) PROVE FALSE
    OBVIOUS
  <2>1. i \in Match(p.since, p.end) /\ i > at
    BY <1>1, <1>6
  <2>2. i \in Nat
    BY <1>3, <2>1 DEF Match
  <2>3. i \in Left(p)
    BY <1>0, <1>1, <1>7, <2>1, <2>2
  <2>4. i \in ids /\ ids # {}
    BY <1>10, <2>3
  <2>5. i <= at
    BY <1>5, <2>4
  <2> QED BY <1>7, <2>1, <2>2, <2>5
<1>11. ByOldest(q, done)
  BY <1>6, <1>7, <1>8, <1>9 DEF ByOldest
<1>12. ids # {} => at \in DOMAIN log
  BY <1>2, <1>5
<1> QED BY <1>6, <1>7, <1>10, <1>11, <1>12 DEF ids

LEMMA WindowStep ==
  ASSUME Timed, connector.order = "windows", NEW done, NEW p, Progress(p, done),
         Records(p) \subseteq done
  PROVE  /\ to(p) \in Nat /\ to(p) <= now
         /\ \A i \in DOMAIN log : i \in done \/ log[i] >= to(p)
<1>1. p.from \in Nat /\ p.from <= now /\ \A i \in DOMAIN log : i \in done \/ log[i] >= p.from
  BY DEF Progress, ByWindow
<1>2. now \in Nat /\ WINDOW \in Nat /\ \A i \in DOMAIN log : log[i] \in Nat
  BY TimedIs, VendorNone DEF Timed
<1>3. to(p) \in Nat /\ to(p) <= now
  BY <1>1, <1>2 DEF to
<1>4. \A i \in DOMAIN log : p.from <= log[i] /\ log[i] < to(p) => i \in done
  BY DEF Records, Window
<1> QED BY <1>1, <1>2, <1>3, <1>4

LEMMA MatchIs ==
  ASSUME Timed, NEW i \in DOMAIN log, NEW t \in Nat, NEW end
  PROVE  i \in Match(t, end) <=> Offered(i, t) /\ (connector.closed => log[i] < end)
<1>1. Offered(i, t) <=> IF connector.again THEN log[i] >= t ELSE log[i] > t
  BY OfferedIs
<1> QED BY <1>1 DEF Match

(* When nothing is left of a query, the newest time it read is a cursor     *)
(* that covers what it settled.                                             *)
LEMMA EndOfNewest ==
  ASSUME Timed, NEW done, NEW q, q.since \in Nat, ~connector.closed,
         connector.order = "newest", ByNewest(q, done), Left(q) = {}, Covered(q.since, done)
  PROVE  Covered(q.newest, done)
<1> SUFFICES ASSUME NEW i \in DOMAIN log, i \notin done PROVE Offered(i, q.newest)
  BY DEF Covered
<1>1. i \in Match(q.since, q.end)
  BY MatchIs DEF Covered
<1>2. ~(i < q.at)
  BY <1>1 DEF Left
<1> QED BY <1>1, <1>2 DEF ByNewest

LEMMA TailCovers ==
  ASSUME Timed, NEW done, NEW p, Progress(p, done), p.tail, NEW c,
         c = IF connector.closed THEN p.end ELSE p.newest
  PROVE  Past(c) /\ \A i \in DOMAIN log : i \in done \/ i \in Edge(c) \/ Offered(i, c)
<1>1. /\ connector.order = "newest" /\ Left(p) = {} /\ ByNewest(p, done)
      /\ p.since \in Nat /\ p.end \in Nat /\ p.end < now /\ Past(p.newest) /\ Covered(p.since, done)
  BY DEF Progress
<1>2. CASE ~connector.closed
  <2>1. Covered(p.newest, done)
    BY <1>1, <1>2, EndOfNewest
  <2> QED BY <1>1, <1>2, <2>1 DEF Covered
<1>3. CASE connector.closed
  <2>1. c = p.end
    BY <1>3
  <2>2. Past(c)
    <3>1. now \in Nat
      BY DEF Timed
    <3> QED BY <1>1, <2>1, <3>1 DEF Past
  <2>3. ASSUME NEW i \in DOMAIN log, i \notin done PROVE i \in Edge(c) \/ Offered(i, c)
    <3>1. Offered(i, p.since)
      BY <1>1, <2>3 DEF Covered
    <3>2. ~(log[i] < p.end)
      <4> SUFFICES ASSUME log[i] < p.end PROVE FALSE
        OBVIOUS
      <4>1. i \in Match(p.since, p.end)
        BY <1>1, <3>1, MatchIs
      <4>2. i < p.at
        BY <1>1, <1>3, <2>3, <4>1 DEF ByNewest
      <4>3. i \in Left(p)
        BY <1>1, <4>1, <4>2 DEF Left
      <4> QED BY <1>1, <4>3
    <3>3. log[i] \in Nat
      BY TimedIs
    <3>4. Offered(i, c) <=> IF connector.again THEN log[i] >= c ELSE log[i] > c
      BY <1>1, <2>1, OfferedIs
    <3> QED BY <1>1, <1>3, <2>1, <3>2, <3>3, <3>4 DEF Edge
  <2> QED BY <2>2, <2>3
<1> QED BY <1>2, <1>3

LEMMA CursorCovers ==
  ASSUME Timed, NEW done, NEW p, Progress(p, done), ~p.tail, Records(p) \subseteq done,
         connector.order # "snapshot", Cursor(p, Records(p)) # None
  PROVE  Past(Cursor(p, Records(p))) /\ Covered(Cursor(p, Records(p)), done)
<1> DEFINE ids == Records(p)
           c == Cursor(p, ids)
           q == [since |-> p.since, end |-> p.end, newest |-> Newest(p.newest, ids),
                 newestTs |-> Newest(p.newestTs, {}),
                 at |-> IF ids = {} THEN p.at ELSE final(ids)]
<1>0. /\ connector.order \in {"newest", "oldest", "windows"}
      /\ connector.moves \in {"tail", "last", "each"}
      /\ connector.closed => connector.order = "newest" /\ connector.moves = "tail"
      /\ connector.moves = "tail" => connector.order = "newest"
      /\ connector.moves = "each" => connector.order # "newest"
      /\ connector.order = "windows" => connector.again
  BY Shapes DEF Timed, Shape
<1>1. p.since \in Nat /\ Covered(p.since, done) /\ Past(p.newest) /\ p.newest \in Nat
      /\ p.newestTs \in Nat \cup {None}
  BY DEF Progress, Past
<1>2. CASE connector.order = "windows"
  <2>1. c = to(p)
    BY <1>2 DEF Cursor
  <2>2. to(p) \in Nat /\ to(p) <= now /\ \A i \in DOMAIN log : i \in done \/ log[i] >= to(p)
    BY <1>2, WindowStep
  <2>3. \A i \in DOMAIN log : i \in done \/ Offered(i, c)
    BY <1>0, <1>2, <2>1, <2>2, OfferedIs
  <2> QED BY <1>0, <1>2, <2>1, <2>2, <2>3 DEF Past, Covered
<1>3. CASE connector.order # "windows"
  <2>1. c = IF connector.moves = "each" THEN IF ids = {} THEN None ELSE log[final(ids)]
            ELSE IF connector.moves = "last" /\ ~More(p, ids) THEN Newest(p.newest, ids) ELSE None
    BY <1>0, <1>3 DEF Cursor
  <2>2. ~More(p, ids) <=> ids = Left(p)
    BY <1>3 DEF More
  <2>3. ids \subseteq DOMAIN log
    BY <1>3, RecordsAre
  <2>4. /\ q.since = p.since /\ q.end = p.end /\ q.newest = Newest(p.newest, Records(p))
        /\ q.newestTs = Newest(p.newestTs, {})
        /\ q.at = IF Records(p) = {} THEN p.at ELSE final(Records(p))
    OBVIOUS
  <2> HIDE DEF q, c
  <2>5. connector.order = "oldest" =>
          /\ ByOldest(q, done) /\ q.at \in Nat
          /\ ids # {} => q.at = final(ids) /\ q.at \in DOMAIN log
          /\ ids = Left(p) => Left(q) = {}
    <3> SUFFICES ASSUME connector.order = "oldest"
                 PROVE  /\ ByOldest(q, done) /\ q.at \in Nat
                        /\ Records(p) # {} => q.at = final(Records(p)) /\ q.at \in DOMAIN log
                        /\ Records(p) = Left(p) => Left(q) = {}
      OBVIOUS
    <3>1. {} \subseteq Records(p)
      OBVIOUS
    <3> QED BY <2>4, <3>1, OldestStep
  <2>6. connector.order = "newest" => ByNewest(q, done) /\ (ids = Left(p) => Left(q) = {})
    BY <2>4, NewestStep
  <2> HIDE DEF ids
  <2>7. CASE connector.moves = "each"
    <3>1. connector.order = "oldest" /\ ids # {} /\ c = log[final(ids)] /\ ~connector.closed
      BY <1>0, <1>3, <2>1, <2>7 DEF c, ids
    <3>2. ByOldest(q, done) /\ q.at = final(ids) /\ q.at \in DOMAIN log /\ c = log[q.at]
      BY <2>5, <3>1
    <3>3. Past(c)
      BY <3>2, TimedIs
    <3>4. ASSUME NEW i \in DOMAIN log, i \notin done PROVE Offered(i, c)
      <4>1. i \in Match(q.since, q.end)
        BY <1>1, <2>4, <3>1, <3>4, MatchIs DEF Covered
      <4>2. i > q.at
        BY <3>2, <3>4, <4>1 DEF ByOldest
      <4>3. q.at < i
        BY <4>2, <3>2, TimedIs
      <4> QED BY <3>2, <4>3, OfferedIs
    <3> QED BY <3>3, <3>4 DEF Covered, c, ids
  <2>8. CASE connector.moves # "each"
    <3>1. ids = Left(p) /\ c = Newest(p.newest, ids) /\ connector.moves = "last"
      BY <2>1, <2>2, <2>8 DEF c, ids
    <3>2. c = p.newest \/ \E k \in ids : c = log[k]
      BY <1>1, <2>3, <3>1, NewestIs
    <3>3. Past(c)
      BY <1>1, <2>3, <3>2, TimedIs
    <3>4. CASE connector.order = "newest"
      <4>1. Covered(q.newest, done)
        BY <1>0, <1>1, <2>4, <2>6, <3>1, <3>4, EndOfNewest
      <4> QED BY <2>4, <3>1, <3>3, <4>1 DEF c, ids
    <3>5. CASE connector.order = "oldest"
      <4>1. ByOldest(q, done) /\ Left(q) = {}
        BY <2>5, <3>1, <3>5
      <4>2. ASSUME NEW i \in DOMAIN log, i \notin done PROVE FALSE
        <5>1. i \in Match(q.since, q.end)
          BY <1>0, <1>1, <2>4, <3>5, <4>2, MatchIs DEF Covered
        <5>2. i > q.at
          BY <4>1, <4>2, <5>1 DEF ByOldest
        <5>3. i \in Left(q)
          BY <3>5, <5>1, <5>2 DEF Left
        <5> QED BY <4>1, <5>3
      <4> QED BY <3>3, <4>2 DEF Covered, c, ids
    <3> QED BY <1>0, <1>3, <3>4, <3>5
  <2> QED BY <2>7, <2>8
<1> QED BY <1>2, <1>3

LEMMA SkipCovers ==
  ASSUME Timed, NEW done, NEW p, Progress(p, done), ~p.tail, Records(p) \subseteq done,
         connector.order # "snapshot", NEW fresh, fresh \subseteq Records(p),
         NEW t, t = Newest(p.newestTs, fresh), t # None
  PROVE  Past(t) /\ \A i \in DOMAIN log : i \in done \/ i \in gap(p, t) \/ Offered(i, t)
<1>0. /\ connector.ascending => connector.order = "oldest"
      /\ connector.closed => connector.order = "newest"
  BY Shapes DEF Timed, Shape
<1>1. p.since \in Nat /\ Covered(p.since, done) /\ p.newestTs \in Nat \cup {None}
      /\ (p.newestTs = None \/ Past(p.newestTs))
  BY DEF Progress, Past
<1>2. fresh \subseteq DOMAIN log
  <2>1. Records(p) \subseteq DOMAIN log
    <3>1. CASE connector.order = "windows"
      BY <3>1 DEF Records, Window
    <3>2. CASE connector.order # "windows"
      BY <3>2, RecordsAre
    <3> QED BY <3>1, <3>2
  <2> QED BY <2>1
<1>3. t = p.newestTs \/ \E k \in fresh : t = log[k]
  BY <1>1, <1>2, NewestIs
<1>4. Past(t) /\ t \in Nat
  <2>1. Past(t)
    BY <1>1, <1>2, <1>3, TimedIs
  <2> QED BY <2>1 DEF Past
<1>5. ASSUME NEW i \in DOMAIN log, i \notin done, ~Offered(i, t) PROVE i \in gap(p, t)
  <2>1. Offered(i, p.since)
    BY <1>1, <1>5 DEF Covered
  <2>2. log[i] \in Nat
    BY TimedIs
  <2>3. log[i] <= t
    BY <1>4, <1>5, <2>2, OfferedIs
  <2>4. p.since <= log[i]
    BY <1>1, <2>1, <2>2, OfferedIs
  <2>5. CASE ~connector.ascending
    BY <2>3, <2>4, <2>5 DEF gap
  <2>6. CASE connector.ascending
    <3> DEFINE q == [since |-> p.since, end |-> p.end, newestTs |-> t,
                     at |-> IF Records(p) = {} THEN p.at ELSE final(Records(p))]
    <3>1. /\ q.since = p.since /\ q.end = p.end /\ q.newestTs = t
          /\ q.at = IF Records(p) = {} THEN p.at ELSE final(Records(p))
      OBVIOUS
    <3> HIDE DEF q
    <3>2. ByOldest(q, done) /\ q.at \in Nat
      BY <1>0, <2>6, <3>1, OldestStep
    <3>3. PICK j \in DOMAIN log : j <= q.at /\ t = log[j]
      BY <3>1, <3>2 DEF ByOldest
    <3>4. ~(j < i) /\ i \in Nat /\ j \in Nat
      BY <1>5, <3>3, OfferedIs, TimedIs
    <3>5. i \in Match(q.since, q.end)
      BY <1>0, <1>1, <2>1, <2>6, <3>1, MatchIs
    <3>6. i > q.at
      BY <1>5, <3>2, <3>5 DEF ByOldest
    <3> QED BY <3>2, <3>3, <3>4, <3>6
  <2> QED BY <2>5, <2>6
<1> QED BY <1>4, <1>5

-----------------------------------------------------------------------------
(* A record is handled twice only when the seen window let go of it.        *)
Once ==
  \A i \in DOMAIN log :
    /\ "twice" \in fate[i] => i \in excused
    /\ "recorded" \in fate[i] => i \in excused \/ i \in ToSet(saved.seen)

KeptUp ==
  /\ saved.cursor = None \/ Past(saved.cursor)
  /\ Covered(saved.cursor, Handled)
  /\ saved.seen \in Seq(Nat) /\ ToSet(saved.seen) \subseteq Handled
  /\ Once

Pulls == [since : Nat, end : Nat, from : Nat, at : Nat, newest : Nat, newestTs : Nat \cup {None},
          moved : BOOLEAN, pages : Nat, tail : BOOLEAN, seen : SUBSET Nat]

Pulling ==
  /\ pull \in Pulls /\ Progress(pull, Handled)
  /\ pull.seen \subseteq Handled /\ ToSet(saved.seen) \subseteq pull.seen

(* Every record is settled, or will be asked for from the saved cursor; and *)
(* while a pull runs, from where it stands.                                 *)
VendorInv ==
  /\ Timed
  /\ saved = [cursor |-> saved.cursor, seen |-> saved.seen, snapshot |-> saved.snapshot]
  /\ IF connector.order = "snapshot" THEN log = <<>> /\ pull = None ELSE KeptUp
  /\ pull # None => Pulling

LEMMA VendorStart == VendorInit => VendorInv
<1> SUFFICES ASSUME VendorInit PROVE VendorInv
  OBVIOUS
<1>1. /\ log = <<>> /\ fate = <<>> /\ DOMAIN log = {} /\ DOMAIN fate = {}
      /\ Len(log) = 0 /\ Len(fate) = 0
      /\ log \in Seq(Nat) /\ fate \in Seq(SUBSET Fates)
  BY DEF VendorInit
<1>2. Timed
  BY <1>1 DEF VendorInit, Timed
<1>3. saved.cursor = None /\ saved.seen = <<>> /\ saved.seen \in Seq(Nat)
  BY DEF VendorInit
<1>4. saved = [cursor |-> saved.cursor, seen |-> saved.seen, snapshot |-> saved.snapshot]
  BY DEF VendorInit
<1>5. KeptUp
  <2>1. ToSet(saved.seen) = {}
    BY <1>3 DEF ToSet
  <2> QED BY <1>1, <1>3, <2>1 DEF KeptUp, Covered, Once
<1> QED BY <1>1, <1>2, <1>4, <1>5 DEF VendorInv, VendorInit

(* What stands still while nothing is added at the vendor.                  *)
LEMMA StandsStill ==
  ASSUME connector' = connector, now' = now, log' = log, NEW q, NEW d
  PROVE  /\ Past(q)' <=> Past(q)
         /\ Covered(q, d)' <=> Covered(q, d)
         /\ Progress(q, d)' <=> Progress(q, d)
<1>1. Past(q)' <=> Past(q)
  BY DEF Past
<1>2. Covered(q, d)' <=> Covered(q, d)
  BY DEF Covered, Offered
<1> QED BY <1>1, <1>2 DEF Progress, ByNewest, ByOldest, ByWindow, Past, Covered, Offered, Match, Left

LEMMA PullStands ==
  ASSUME connector' = connector, now' = now, log' = log, NEW q, NEW d, q = pull', d = Handled',
         Progress(q, d)
  PROVE  Progress(pull, Handled)'
<1> HIDE DEF Handled
<1>1. Progress(q, d)'
  BY StandsStill
<1>2. Progress(q, d)' <=> Progress(pull, Handled)'
  BY DEF Progress, ByNewest, ByOldest, ByWindow, Past, Covered, Offered, Match, Left
<1> QED BY <1>1, <1>2

LEMMA PullBegins ==
  ASSUME VendorInv, StartPull
  PROVE  VendorInv'
<1>1. /\ connector' = connector /\ now' = now /\ log' = log /\ saved' = saved
      /\ fate' = fate /\ excused' = excused /\ connector.order # "snapshot"
  BY DEF StartPull
<1>2. Timed /\ KeptUp /\ saved = [cursor |-> saved.cursor, seen |-> saved.seen, snapshot |-> saved.snapshot]
  BY <1>1 DEF VendorInv
<1>3. Timed' /\ Handled' = Handled
  BY <1>1, <1>2 DEF Timed, Handled
<1>4. KeptUp'
  <2>1. /\ Past(saved.cursor)' <=> Past(saved.cursor)
        /\ Covered(saved.cursor, Handled)' <=> Covered(saved.cursor, Handled)
    BY <1>1, <1>3 DEF Past, Covered, Offered
  <2> QED BY <1>1, <1>2, <1>3, <2>1 DEF KeptUp, Once
<1>5. ASSUME pull' # None PROVE Pulling'
  <2> DEFINE since == IF saved.cursor = None THEN 0 ELSE saved.cursor
             p == [since |-> since, end |-> now - 1, from |-> since,
                   at |-> IF connector.order = "newest" THEN Len(log) + 1 ELSE 0,
                   newest |-> since, newestTs |-> None, moved |-> FALSE, pages |-> 0,
                   tail |-> FALSE, seen |-> ToSet(saved.seen)]
  <2>1. pull' = p
    BY <1>5 DEF StartPull
  <2>2. since \in Nat /\ Past(since)
    <3>1. CASE saved.cursor = None
      <4>1. now \in Nat /\ now >= 1
        BY <1>2 DEF Timed
      <4> QED BY <3>1, <4>1 DEF Past
    <3>2. CASE saved.cursor # None
      BY <1>2, <3>2 DEF KeptUp, Past
    <3> QED BY <3>1, <3>2
  <2>3. Covered(since, Handled)
    <3>1. CASE saved.cursor = None
      <4>1. \A i \in DOMAIN log : log[i] \in Nat /\ log[i] >= 1
        BY <1>2, TimedIs DEF Timed
      <4> QED BY <3>1, <4>1 DEF Covered, Offered
    <3>2. CASE saved.cursor # None
      BY <1>2, <3>2 DEF KeptUp
    <3> QED BY <3>1, <3>2
  <2>4. /\ now \in Nat /\ now >= 1 /\ Len(log) \in Nat
        /\ DOMAIN log = 1 .. Len(log) /\ \A i \in DOMAIN log : log[i] \in Nat
    BY <1>2, TimedIs DEF Timed
  <2>5. Handled \subseteq Nat /\ ToSet(saved.seen) \subseteq Handled
    BY <1>2, <2>4 DEF Handled, KeptUp
  <2> DEFINE atFirst == IF connector.order = "newest" THEN Len(log) + 1 ELSE 0
  <2>6. /\ p.since = since /\ p.end = now - 1 /\ p.from = since /\ p.at = atFirst
        /\ p.newest = since /\ p.newestTs = None /\ p.tail = FALSE /\ p.seen = ToSet(saved.seen)
    OBVIOUS
  <2>7. p \in Pulls
    <3>1. p = [since |-> since, end |-> now - 1, from |-> since, at |-> atFirst,
               newest |-> since, newestTs |-> None, moved |-> FALSE, pages |-> 0,
               tail |-> FALSE, seen |-> ToSet(saved.seen)]
      OBVIOUS
    <3>2. atFirst \in Nat /\ now - 1 \in Nat
      BY <2>4
    <3>4. ToSet(saved.seen) \in SUBSET Nat
      BY <2>5
    <3> HIDE DEF p, since, atFirst
    <3> QED BY <2>2, <3>1, <3>2, <3>4 DEF Pulls
  <2>71. p.at \in Nat /\ p.at <= Len(log) + 1
    BY <2>4
  <2> HIDE DEF p, since
  <2>8. connector.order = "newest" => ByNewest(p, Handled)
    BY <2>4, <2>6 DEF ByNewest, Match
  <2>9. connector.order = "oldest" => ByOldest(p, Handled)
    BY <2>4, <2>6 DEF ByOldest, Match
  <2>10. connector.order = "windows" => ByWindow(p, Handled)
    <3> SUFFICES ASSUME connector.order = "windows" PROVE ByWindow(p, Handled)
      OBVIOUS
    <3>1. connector.again
      BY <1>2, Shapes DEF Timed, Shape
    <3>2. \A i \in DOMAIN log : i \in Handled \/ log[i] >= since
      BY <1>2, <2>2, <2>3, <3>1, OfferedIs DEF Covered
    <3> QED BY <2>2, <2>6, <3>1, <3>2 DEF ByWindow, Past
  <2>11. Progress(p, Handled)
    <3>1. p.since \in Nat /\ p.end \in Nat /\ p.end < now /\ p.newestTs = None
      BY <2>2, <2>4, <2>6
    <3> QED BY <2>2, <2>3, <2>6, <2>71, <2>8, <2>9, <2>10, <3>1 DEF Progress
  <2>12. Progress(pull, Handled)'
    <3>1. PICK q : q = p
      OBVIOUS
    <3>2. PICK d : d = Handled
      OBVIOUS
    <3>3. Progress(q, d)
      BY <2>11, <3>1, <3>2
    <3>4. q = pull' /\ d = Handled'
      BY <1>3, <2>1, <3>1, <3>2
    <3> HIDE DEF Handled
    <3> QED BY <1>1, <3>3, <3>4, PullStands
  <2> QED BY <1>1, <1>2, <1>3, <2>1, <2>5, <2>6, <2>7, <2>12 DEF Pulling, Pulls
<1> QED BY <1>1, <1>2, <1>3, <1>4, <1>5 DEF VendorInv

(* The seen window holds what it held and what is new, and nothing else.    *)
LEMMA RememberIs ==
  ASSUME saved.seen \in Seq(Nat), NEW s, s \in Seq(Nat)
  PROVE  rememberSeen(s) \in Seq(Nat) /\ ToSet(rememberSeen(s)) \subseteq ToSet(saved.seen) \cup ToSet(s)
<1> DEFINE all == saved.seen \o s
           n == Len(all)
<1>1. all \in Seq(Nat) /\ n \in Nat /\ ToSet(all) \subseteq ToSet(saved.seen) \cup ToSet(s)
  BY DEF ToSet
<1>2. rememberSeen(s) = IF n > SEEN_MAX THEN SubSeq(all, n - SEEN_MAX + 1, n) ELSE all
  BY DEF rememberSeen
<1>3. SEEN_MAX \in Nat
  BY VendorAssumption
<1>4. n = Len(all)
  OBVIOUS
<1> HIDE DEF all, n
<1>5. CASE n > SEEN_MAX
  <2> DEFINE m == n - SEEN_MAX + 1
  <2>1. m \in 1 .. n + 1 /\ m \in Nat /\ m >= 1
    BY <1>1, <1>3, <1>5
  <2>2. DOMAIN all = 1 .. n
    BY <1>1, <1>4
  <2> HIDE DEF m
  <2>3. /\ SubSeq(all, m, n) \in Seq(Nat) /\ Len(SubSeq(all, m, n)) = n - m + 1
        /\ \A i \in 1 .. n - m + 1 : SubSeq(all, m, n)[i] = all[m + i - 1]
    BY <1>1, <1>4, <2>1
  <2>4. ASSUME NEW i \in 1 .. n - m + 1 PROVE SubSeq(all, m, n)[i] \in ToSet(all)
    <3>1. m + i - 1 \in DOMAIN all
      BY <1>1, <2>1, <2>2
    <3> QED BY <2>3, <3>1 DEF ToSet
  <2>5. DOMAIN SubSeq(all, m, n) = 1 .. n - m + 1
    BY <2>3
  <2>6. ToSet(SubSeq(all, m, n)) \subseteq ToSet(all)
    BY <2>4, <2>5 DEF ToSet
  <2> QED BY <1>1, <1>2, <1>5, <2>3, <2>6 DEF m
<1>6. CASE ~(n > SEEN_MAX)
  BY <1>1, <1>2, <1>6
<1> QED BY <1>5, <1>6

(* Wherever a page leaves the saved cursor, what lies behind it is settled. *)
LEMMA PageCovers ==
  ASSUME Timed, connector.order # "snapshot", NEW p, NEW done, Progress(p, done),
         NEW ids, ids = (IF p.tail THEN {} ELSE Records(p)), ids \subseteq done,
         NEW fresh, fresh \subseteq ids, NEW t, t = Newest(p.newestTs, fresh),
         NEW c, c = Cursor(p, ids), NEW skip, skip => c = None /\ t # None,
         NEW was, was = None \/ Past(was), Covered(was, done),
         NEW cursor, cursor = (IF c # None THEN c ELSE IF skip THEN t ELSE was),
         Edge(cursor) \subseteq done, skip => gap(p, t) \subseteq done
  PROVE  (cursor = None \/ Past(cursor)) /\ Covered(cursor, done)
<1>1. CASE p.tail
  <2>1. c = IF connector.closed THEN p.end ELSE p.newest
    BY <1>1 DEF Cursor
  <2>2. Past(c) /\ \A i \in DOMAIN log : i \in done \/ i \in Edge(c) \/ Offered(i, c)
    BY <1>1, <2>1, TailCovers
  <2>3. c # None
    BY <2>2, VendorNone DEF Past
  <2> QED BY <2>2, <2>3 DEF Covered
<1>2. CASE ~p.tail /\ c # None
  <2>1. ids = Records(p)
    BY <1>2
  <2>2. Past(c) /\ Covered(c, done)
    BY <1>2, <2>1, CursorCovers
  <2> QED BY <1>2, <2>2
<1>3. CASE ~p.tail /\ c = None /\ skip
  <2>1. ids = Records(p)
    BY <1>3
  <2>2. Past(t) /\ \A i \in DOMAIN log : i \in done \/ i \in gap(p, t) \/ Offered(i, t)
    BY <1>3, <2>1, SkipCovers
  <2>3. cursor = t /\ gap(p, t) \subseteq done
    BY <1>3
  <2> QED BY <2>2, <2>3 DEF Covered
<1>4. CASE ~p.tail /\ c = None /\ ~skip
  BY <1>4
<1> QED BY <1>1, <1>2, <1>3, <1>4

(* A page's part of a pull's progress.                                      *)
LEMMA PullGoesOn ==
  ASSUME Timed, connector.order # "snapshot", NEW p, p \in Pulls, NEW done, Progress(p, done),
         ~p.tail, Records(p) \subseteq done, NEW fresh, fresh \subseteq Records(p),
         More(p, Records(p)) \/ connector.moves = "tail",
         NEW q, q \in Pulls, q.since = p.since, q.end = p.end,
         q.newest = Newest(p.newest, Records(p)), q.newestTs = Newest(p.newestTs, fresh),
         q.at = (IF Records(p) = {} THEN p.at ELSE final(Records(p))),
         q.from = (IF connector.order = "windows" THEN to(p) ELSE p.from),
         q.tail = ~More(p, Records(p))
  PROVE  Progress(q, done)
<1>1. /\ p.since \in Nat /\ p.end \in Nat /\ p.end < now /\ Past(p.since) /\ Covered(p.since, done)
      /\ Past(p.newest) /\ p.newest \in Nat /\ (p.newestTs = None \/ Past(p.newestTs))
      /\ p.newestTs \in Nat \cup {None}
  BY DEF Progress, Past
<1>2. Records(p) \subseteq DOMAIN log
  <2>1. CASE connector.order = "windows"
    BY <2>1 DEF Records, Window
  <2>2. CASE connector.order # "windows"
    BY <2>2, RecordsAre
  <2> QED BY <2>1, <2>2
<1>3. Past(q.newest)
  <2>1. q.newest = p.newest \/ \E k \in Records(p) : q.newest = log[k]
    BY <1>1, <1>2, NewestIs
  <2> QED BY <1>1, <1>2, <2>1, TimedIs
<1>4. q.newestTs = None \/ Past(q.newestTs)
  <2>1. fresh \subseteq DOMAIN log
    BY <1>2
  <2>2. q.newestTs = p.newestTs \/ \E k \in fresh : q.newestTs = log[k]
    BY <1>1, <2>1, NewestIs
  <2> QED BY <1>1, <2>1, <2>2, TimedIs
<1>5. connector.order = "newest" => ByNewest(q, done)
  BY NewestStep
<1>6. connector.order = "oldest" => ByOldest(q, done)
  BY OldestStep
<1>7. connector.order = "windows" => ByWindow(q, done)
  BY WindowStep DEF ByWindow
<1>8. q.tail => connector.order = "newest" /\ Left(q) = {}
  <2> SUFFICES ASSUME q.tail PROVE connector.order = "newest" /\ Left(q) = {}
    OBVIOUS
  <2>1. ~More(p, Records(p)) /\ connector.moves = "tail"
    OBVIOUS
  <2>2. connector.order = "newest"
    BY <2>1, Shapes DEF Timed, Shape
  <2>3. Records(p) = Left(p)
    BY <2>1, <2>2 DEF More
  <2> QED BY <2>2, <2>3, NewestStep
<1>9. q.at \in Nat /\ q.tail \in BOOLEAN
  BY DEF Pulls
<1> QED BY <1>1, <1>3, <1>4, <1>5, <1>6, <1>7, <1>8, <1>9 DEF Progress

LEMMA PageTurns ==
  ASSUME VendorInv, Page
  PROVE  VendorInv'
<1> DEFINE p == pull
           ids == IF p.tail THEN {} ELSE Records(p)
           fresh == ids \ p.seen
           t == Newest(p.newestTs, fresh)
           c == Cursor(p, ids)
           moved == p.moved \/ c # None
           capped == p.pages + 1 >= MAX_PAGES
           skip == capped /\ ~moved /\ t # None
           cursor == IF c # None THEN c ELSE IF skip THEN t ELSE saved.cursor
           over == p.tail \/ (~More(p, ids) /\ connector.moves # "tail")
<1>0. pull # None /\ connector' = connector /\ now' = now /\ log' = log
  BY DEF Page
<1>1. /\ Timed /\ KeptUp /\ Pulling /\ connector.order # "snapshot"
      /\ saved = [cursor |-> saved.cursor, seen |-> saved.seen, snapshot |-> saved.snapshot]
  BY <1>0 DEF VendorInv
<1>2. PICK failed \in SUBSET fresh, keeping \in BOOLEAN :
        /\ ~keeping => failed = {}
        /\ LET marked == fresh \ failed
               seen == rememberSeen(inTurn(marked))
           IN /\ saved' = [saved EXCEPT !.cursor = cursor, !.seen = seen]
              /\ excused' = excused \cup ((ToSet(saved.seen) \cup marked) \ ToSet(seen))
              /\ fate' = [i \in DOMAIN log |->
                   IF i \in fresh
                   THEN fate[i] \cup {IF ~keeping THEN "off"
                                       ELSE IF i \in failed THEN "failed"
                                       ELSE IF "recorded" \in fate[i] THEN "twice"
                                       ELSE "recorded"}
                   ELSE IF i \in Edge(cursor) THEN fate[i] \cup {"edge"}
                   ELSE IF skip /\ i \in gap(p, t) THEN fate[i] \cup {"gap"}
                   ELSE fate[i]]
              /\ pull' = IF over \/ capped THEN None
                   ELSE [p EXCEPT !.pages = @ + 1, !.moved = moved, !.newestTs = t,
                           !.newest = Newest(@, ids), !.seen = @ \cup marked,
                           !.at = IF ids = {} THEN @ ELSE final(ids),
                           !.from = IF connector.order = "windows" THEN to(p) ELSE @,
                           !.tail = ~More(p, ids)]
  BY Zenon DEF Page
<1> DEFINE marked == fresh \ failed
           seen == rememberSeen(inTurn(marked))
<1>3. /\ p \in Pulls /\ Progress(p, Handled) /\ p.seen \subseteq Handled
      /\ ToSet(saved.seen) \subseteq p.seen
  BY <1>1 DEF Pulling
<1>4. ids \subseteq DOMAIN log
  <2>1. CASE connector.order = "windows"
    BY <2>1 DEF Records, Window
  <2>2. CASE connector.order # "windows"
    BY <1>1, <2>2, RecordsAre
  <2> QED BY <2>1, <2>2
<1>5. skip => c = None /\ t # None
  OBVIOUS
<1>6. fresh \subseteq ids /\ marked \subseteq fresh /\ ids \subseteq fresh \cup p.seen
  OBVIOUS
<1> HIDE DEF ids, fresh, c, t, marked, skip, cursor, seen
<1>7. /\ DOMAIN fate' = DOMAIN log
      /\ \A i \in DOMAIN log :
           fate'[i] = IF i \in fresh
             THEN fate[i] \cup {IF ~keeping THEN "off"
                                 ELSE IF i \in failed THEN "failed"
                                 ELSE IF "recorded" \in fate[i] THEN "twice"
                                 ELSE "recorded"}
             ELSE IF i \in Edge(cursor) THEN fate[i] \cup {"edge"}
             ELSE IF skip /\ i \in gap(p, t) THEN fate[i] \cup {"gap"}
             ELSE fate[i]
  BY <1>2
<1>8. /\ \A i \in DOMAIN log : fate[i] \in SUBSET Fates
      /\ Len(log) \in Nat /\ DOMAIN log = 1 .. Len(log) /\ IsFiniteSet(DOMAIN log)
  BY <1>1, TimedIs DEF Timed
<1>9. \A i \in DOMAIN log :
        /\ fate'[i] \in SUBSET Fates /\ fate[i] \subseteq fate'[i]
        /\ i \in fresh \/ i \in Edge(cursor) \/ (skip /\ i \in gap(p, t)) => fate'[i] # {}
  <2> SUFFICES ASSUME NEW i \in DOMAIN log
               PROVE  /\ fate'[i] \in SUBSET Fates /\ fate[i] \subseteq fate'[i]
                      /\ i \in fresh \/ i \in Edge(cursor) \/ (skip /\ i \in gap(p, t)) => fate'[i] # {}
    OBVIOUS
  <2>1. {"off", "failed", "twice", "recorded", "edge", "gap"} \subseteq Fates
    BY DEF Fates
  <2> QED BY <1>7, <1>8, <2>1
<1>10. \A i \in DOMAIN log :
         /\ "twice" \in fate'[i] => "twice" \in fate[i] \/ (i \in marked /\ "recorded" \in fate[i])
         /\ "recorded" \in fate'[i] => "recorded" \in fate[i] \/ i \in marked
  BY <1>2, <1>7 DEF marked
<1>11. Timed'
  <2>1. fate' \in Seq(SUBSET Fates) /\ Len(fate') = Len(log)
    <3>1. fate' = [i \in 1 .. Len(log) |-> fate'[i]]
      BY <1>2, <1>8
    <3>2. \A i \in 1 .. Len(log) : fate'[i] \in SUBSET Fates
      BY <1>8, <1>9
    <3> QED BY <1>8, <3>1, <3>2
  <2> QED BY <1>0, <1>1, <2>1 DEF Timed
<1>12. PICK done : done = Handled'
  OBVIOUS
<1>13. done = {i \in DOMAIN log : fate'[i] # {}}
  BY <1>0, <1>12 DEF Handled
<1>14. Handled \subseteq done
  BY <1>9, <1>13 DEF Handled
<1>15. /\ ids \subseteq done /\ marked \subseteq done
       /\ Edge(cursor) \subseteq done /\ (skip => gap(p, t) \subseteq done)
  <2>1. fresh \subseteq done
    BY <1>4, <1>6, <1>9, <1>13
  <2>2. Edge(cursor) \subseteq DOMAIN log /\ gap(p, t) \subseteq DOMAIN log
    BY DEF Edge, gap
  <2> QED BY <1>3, <1>6, <1>9, <1>13, <1>14, <2>1, <2>2
<1>16. Progress(p, done)
  <2> HIDE DEF p
  <2> QED BY <1>3, <1>14, MoreSettled
<1>17. (cursor = None \/ Past(cursor)) /\ Covered(cursor, done)
  <2>1. (saved.cursor = None \/ Past(saved.cursor)) /\ Covered(saved.cursor, done)
    BY <1>1, <1>14 DEF KeptUp, Covered
  <2>2. /\ ids = (IF p.tail THEN {} ELSE Records(p)) /\ t = Newest(p.newestTs, fresh)
        /\ c = Cursor(p, ids) /\ cursor = (IF c # None THEN c ELSE IF skip THEN t ELSE saved.cursor)
    BY DEF ids, t, c, cursor
  <2> HIDE DEF p
  <2>3. PICK q : q = p
    OBVIOUS
  <2> QED BY <1>1, <1>5, <1>6, <1>15, <1>16, <2>1, <2>2, PageCovers
<1>18. seen \in Seq(Nat) /\ ToSet(seen) \subseteq ToSet(saved.seen) \cup marked
  <2>1. marked \subseteq Nat /\ IsFiniteSet(marked)
    <3>1. marked \subseteq DOMAIN log
      BY <1>4, <1>6
    <3> QED BY <1>8, <3>1, FS_Subset
  <2>2. inTurn(marked) \in Seq(marked) /\ Range(inTurn(marked)) = marked
    BY <2>1, InTurnIs
  <2> DEFINE s == inTurn(marked)
  <2> HIDE DEF s
  <2>3. s \in Seq(Nat) /\ ToSet(s) = marked
    <3>1. ToSet(s) = Range(s)
      BY DEF Range, ToSet
    <3>2. s \in Seq(marked) /\ Range(s) = marked
      BY <2>2 DEF s
    <3>3. s \in Seq(Nat)
      <4>1. Len(s) \in Nat /\ s = [k \in 1 .. Len(s) |-> s[k]] /\ \A k \in 1 .. Len(s) : s[k] \in marked
        BY <3>2
      <4>2. \A k \in 1 .. Len(s) : s[k] \in Nat
        BY <2>1, <4>1
      <4> QED BY <4>1, <4>2
    <3> QED BY <3>1, <3>2, <3>3
  <2>4. saved.seen \in Seq(Nat)
    BY <1>1 DEF KeptUp
  <2> QED BY <2>3, <2>4, RememberIs DEF seen, s
<1>19. /\ saved'.cursor = cursor /\ saved'.seen = seen
       /\ saved' = [cursor |-> saved'.cursor, seen |-> saved'.seen, snapshot |-> saved'.snapshot]
  <2>1. saved' = [saved EXCEPT !.cursor = cursor, !.seen = seen]
    BY <1>2 DEF cursor, seen, marked
  <2> QED BY <1>1, <2>1
<1>20. excused' = excused \cup ((ToSet(saved.seen) \cup marked) \ ToSet(seen))
  BY <1>2 DEF seen, marked
<1>21. ToSet(seen) \subseteq done
  BY <1>1, <1>14, <1>15, <1>18 DEF KeptUp
<1>22. KeptUp'
  <2>1. saved'.cursor = None \/ Past(saved.cursor)'
    BY <1>0, <1>17, <1>19 DEF Past
  <2>2. Covered(saved.cursor, Handled)'
    BY <1>0, <1>12, <1>17, <1>19 DEF Covered, Offered
  <2>3. saved'.seen \in Seq(Nat) /\ ToSet(saved'.seen) \subseteq Handled'
    BY <1>12, <1>18, <1>19, <1>21
  <2>4. Once'
    <3> SUFFICES ASSUME NEW i \in DOMAIN log
                 PROVE  /\ "twice" \in fate'[i] => i \in excused'
                        /\ "recorded" \in fate'[i] => i \in excused' \/ i \in ToSet(saved'.seen)
      BY <1>0 DEF Once
    <3>1. /\ "twice" \in fate[i] => i \in excused
          /\ "recorded" \in fate[i] => i \in excused \/ i \in ToSet(saved.seen)
      BY <1>1 DEF KeptUp, Once
    <3>2. i \in marked => i \notin ToSet(saved.seen)
      BY <1>3, <1>6 DEF fresh
    <3> QED BY <1>10, <1>19, <1>20, <3>1, <3>2
  <2> QED BY <2>1, <2>2, <2>3, <2>4 DEF KeptUp
<1>23. ASSUME pull' # None PROVE Pulling'
  <2>1. ~over /\ ~capped
    BY <1>2, <1>23
  <2>2. ~p.tail /\ ids = Records(p) /\ (More(p, ids) \/ connector.moves = "tail")
    BY <2>1 DEF ids
  <2>3. PICK q : q = pull'
    OBVIOUS
  <2>4. q = [p EXCEPT !.pages = @ + 1, !.moved = moved, !.newestTs = t,
                     !.newest = Newest(@, ids), !.seen = @ \cup marked,
                     !.at = IF ids = {} THEN @ ELSE final(ids),
                     !.from = IF connector.order = "windows" THEN to(p) ELSE @,
                     !.tail = ~More(p, ids)]
    BY <1>2, <2>1, <2>3 DEF t, marked
  <2> DEFINE r == [since |-> p.since, end |-> p.end,
                   from |-> IF connector.order = "windows" THEN to(p) ELSE p.from,
                   at |-> IF ids = {} THEN p.at ELSE final(ids),
                   newest |-> Newest(p.newest, ids), newestTs |-> t, moved |-> moved,
                   pages |-> p.pages + 1, tail |-> ~More(p, ids), seen |-> p.seen \cup marked]
  <2>5. q = r
    <3>1. p = [since |-> p.since, end |-> p.end, from |-> p.from, at |-> p.at,
               newest |-> p.newest, newestTs |-> p.newestTs, moved |-> p.moved,
               pages |-> p.pages, tail |-> p.tail, seen |-> p.seen]
      BY <1>3 DEF Pulls
    <3> HIDE DEF p, moved
    <3> QED BY <2>4, <3>1
  <2>6. q \in Pulls
    <3> DEFINE newest == Newest(p.newest, ids)
               at == IF ids = {} THEN p.at ELSE final(ids)
               from == IF connector.order = "windows" THEN to(p) ELSE p.from
               seenBy == p.seen \cup marked
    <3>1. /\ p.since \in Nat /\ p.end \in Nat /\ p.from \in Nat /\ p.at \in Nat /\ p.newest \in Nat
          /\ p.newestTs \in Nat \cup {None} /\ p.moved \in BOOLEAN /\ p.pages \in Nat
          /\ p.seen \in SUBSET Nat
      BY <1>3 DEF Pulls
    <3>2. newest \in Nat
      <4>1. p.newest \in Nat \cup {None} /\ p.newest # None
        BY <3>1, VendorNone
      <4> HIDE DEF p
      <4> QED BY <1>1, <1>4, <4>1, NewestIs
    <3>3. t \in Nat \cup {None}
      <4>1. fresh \subseteq DOMAIN log
        BY <1>4, <1>6
      <4>2. t = p.newestTs \/ \E k \in fresh : t = log[k]
        <5> HIDE DEF p
        <5> QED BY <1>1, <3>1, <4>1, NewestIs DEF t
      <4> QED BY <1>1, <3>1, <4>1, <4>2, TimedIs
    <3>4. at \in Nat
      <4>1. ids # {} => final(ids) \in Nat
        BY <1>1, <1>4, <1>8, FinalIs
      <4> QED BY <3>1, <4>1
    <3>5. from \in Nat
      <4>1. connector.order = "windows" => to(p) \in Nat
        <5> HIDE DEF p
        <5> QED BY <1>1, <1>15, <1>16, <2>2, WindowStep
      <4> QED BY <3>1, <4>1
    <3>6. seenBy \in SUBSET Nat
      <4>1. marked \subseteq Nat
        BY <1>4, <1>6, <1>8
      <4> QED BY <3>1, <4>1
    <3>7. moved \in BOOLEAN /\ (~More(p, ids)) \in BOOLEAN /\ p.pages + 1 \in Nat
      BY <3>1
    <3> DEFINE tail == ~More(p, ids)
               pages == p.pages + 1
    <3>8. q = [since |-> p.since, end |-> p.end, from |-> from, at |-> at, newest |-> newest,
               newestTs |-> t, moved |-> moved, pages |-> pages, tail |-> tail, seen |-> seenBy]
      BY <2>5
    <3>9. tail \in BOOLEAN /\ pages \in Nat
      BY <3>7
    <3> HIDE DEF newest, at, from, seenBy, moved, p, tail, pages
    <3> QED BY <3>1, <3>2, <3>3, <3>4, <3>5, <3>6, <3>7, <3>8, <3>9 DEF Pulls
  <2>7. /\ q.since = p.since /\ q.end = p.end
        /\ q.newest = Newest(p.newest, Records(p)) /\ q.newestTs = Newest(p.newestTs, fresh)
        /\ q.at = (IF Records(p) = {} THEN p.at ELSE final(Records(p)))
        /\ q.from = (IF connector.order = "windows" THEN to(p) ELSE p.from)
        /\ q.tail = ~More(p, Records(p)) /\ q.seen = p.seen \cup marked
    BY <2>2, <2>5 DEF t
  <2>8. Progress(q, done)
    <3>1. PICK was : was = p
      OBVIOUS
    <3>2. fresh \subseteq Records(p) /\ Records(p) \subseteq done
      BY <1>6, <1>15, <2>2
    <3>3. More(p, Records(p)) \/ connector.moves = "tail"
      BY <2>2
    <3> HIDE DEF p
    <3> QED BY <1>1, <1>3, <1>16, <2>2, <2>6, <2>7, <3>1, <3>2, <3>3, PullGoesOn
  <2>9. Progress(pull, Handled)'
    <3> HIDE DEF p, Handled
    <3> QED BY <1>0, <1>12, <2>3, <2>8, PullStands
  <2>10. q.seen \subseteq done /\ ToSet(seen) \subseteq q.seen
    BY <1>3, <1>14, <1>15, <1>18, <2>7
  <2> QED BY <1>12, <1>19, <2>3, <2>6, <2>9, <2>10 DEF Pulling, Pulls
<1> QED BY <1>0, <1>1, <1>11, <1>19, <1>22, <1>23 DEF VendorInv

LEMMA PullIsCutShort ==
  ASSUME VendorInv, CutShort
  PROVE  VendorInv'
<1>1. /\ connector' = connector /\ now' = now /\ log' = log /\ saved' = saved
      /\ pull # None /\ pull' = None
  BY DEF CutShort
<1>2. /\ Timed /\ KeptUp /\ connector.order # "snapshot"
      /\ saved = [cursor |-> saved.cursor, seen |-> saved.seen, snapshot |-> saved.snapshot]
  BY <1>1 DEF VendorInv
<1> DEFINE fresh == Records(pull) \ pull.seen
           upTo(n) == {i \in fresh : Cardinality(ahead(fresh, i)) < n}
<1>3. PICK n \in 0 .. Cardinality(fresh) :
        /\ fate' = [i \in DOMAIN log |->
             IF i \notin upTo(n) THEN fate[i]
             ELSE IF "recorded" \in fate[i] THEN fate[i] \cup {"twice"}
             ELSE fate[i] \cup {"recorded"}]
        /\ excused' = excused \cup upTo(n)
  BY Zenon DEF CutShort
<1>4. PICK some : some = upTo(n)
  OBVIOUS
<1> HIDE DEF upTo, fresh
<1>5. /\ excused' = excused \cup some /\ DOMAIN fate' = DOMAIN log
      /\ fate' = [i \in DOMAIN log |-> fate'[i]]
      /\ \A i \in DOMAIN log :
           fate'[i] = IF i \notin some THEN fate[i]
                      ELSE IF "recorded" \in fate[i] THEN fate[i] \cup {"twice"}
                      ELSE fate[i] \cup {"recorded"}
  BY <1>3, <1>4
<1>6. /\ Len(log) \in Nat /\ DOMAIN log = 1 .. Len(log)
      /\ \A i \in DOMAIN log : fate[i] \in SUBSET Fates
  BY <1>2, TimedIs DEF Timed
<1>7. \A i \in DOMAIN log : fate'[i] \in SUBSET Fates /\ fate[i] \subseteq fate'[i]
  <2>1. "recorded" \in Fates /\ "twice" \in Fates
    BY DEF Fates
  <2> QED BY <1>5, <1>6, <2>1
<1>8. Timed'
  <2>1. fate' \in Seq(SUBSET Fates) /\ Len(fate') = Len(log)
    BY <1>5, <1>6, <1>7
  <2> QED BY <1>1, <1>2, <2>1 DEF Timed
<1>9. Handled \subseteq Handled'
  BY <1>1, <1>7 DEF Handled
<1>10. KeptUp'
  <2>1. saved'.cursor = None \/ Past(saved.cursor)'
    BY <1>1, <1>2 DEF KeptUp, Past
  <2>2. Covered(saved.cursor, Handled)'
    BY <1>1, <1>2, <1>9 DEF KeptUp, Covered, Offered
  <2>3. Once'
    <3> SUFFICES ASSUME NEW i \in DOMAIN log
                 PROVE  /\ "twice" \in fate'[i] => i \in excused'
                        /\ "recorded" \in fate'[i] => i \in excused' \/ i \in ToSet(saved.seen)
      BY <1>1 DEF Once
    <3>1. /\ "twice" \in fate[i] => i \in excused
          /\ "recorded" \in fate[i] => i \in excused \/ i \in ToSet(saved.seen)
      BY <1>2 DEF KeptUp, Once
    <3> QED BY <1>5, <3>1
  <2> QED BY <1>1, <1>2, <1>9, <2>1, <2>2, <2>3 DEF KeptUp
<1> QED BY <1>1, <1>2, <1>8, <1>10 DEF VendorInv

(* Nothing that the invariant speaks of has changed, but perhaps the pull,  *)
(* which has ended.                                                         *)
LEMMA NothingMoved ==
  ASSUME VendorInv, connector' = connector, now' = now, log' = log, fate' = fate, saved' = saved,
         excused' = excused, pull' = pull \/ pull' = None
  PROVE  VendorInv'
<1>1. Timed /\ Timed' /\ Handled' = Handled
  BY DEF VendorInv, Timed, Handled
<1>2. KeptUp => KeptUp'
  <2>1. /\ Past(saved.cursor)' <=> Past(saved.cursor)
        /\ Covered(saved.cursor, Handled)' <=> Covered(saved.cursor, Handled)
    BY <1>1 DEF Past, Covered, Offered
  <2> QED BY <1>1, <2>1 DEF KeptUp, Once
<1>3. ASSUME pull' # None PROVE Pulling'
  <2>1. pull' = pull /\ Pulling
    BY <1>3 DEF VendorInv
  <2>2. Progress(pull, Handled)'
    <3>1. PICK q : q = pull
      OBVIOUS
    <3>2. PICK d : d = Handled
      OBVIOUS
    <3>3. Progress(q, d) /\ q = pull' /\ d = Handled'
      BY <1>1, <2>1, <3>1, <3>2 DEF Pulling
    <3> HIDE DEF Handled
    <3> QED BY <3>3, PullStands
  <2> QED BY <1>1, <2>1, <2>2 DEF Pulling, Pulls
<1> QED BY <1>1, <1>2, <1>3 DEF VendorInv

LEMMA SnapshotIsTaken ==
  ASSUME VendorInv, PullSnapshot
  PROVE  VendorInv'
<1>1. /\ connector' = connector /\ now' = now /\ log' = log /\ fate' = fate /\ pull' = pull
      /\ connector.order = "snapshot"
  BY DEF PullSnapshot
<1>2. /\ Timed /\ log = <<>> /\ pull = None
      /\ saved = [cursor |-> saved.cursor, seen |-> saved.seen, snapshot |-> saved.snapshot]
  BY <1>1 DEF VendorInv
<1>3. PICK s : saved' = [saved EXCEPT !.snapshot = role, !.cursor = now, !.seen = s]
  BY Zenon DEF PullSnapshot
<1>4. saved' = [cursor |-> saved'.cursor, seen |-> saved'.seen, snapshot |-> saved'.snapshot]
  BY <1>2, <1>3
<1> QED BY <1>1, <1>2, <1>4 DEF VendorInv, Timed

LEMMA TimePasses ==
  ASSUME VendorInv, VendorTick
  PROVE  VendorInv'
<1>1. /\ connector' = connector /\ now' = now + 1 /\ log' = log /\ fate' = fate /\ saved' = saved
      /\ excused' = excused /\ pull' = pull
  BY DEF VendorTick
<1>2. Timed /\ now \in Nat
  BY DEF VendorInv, Timed
<1>3. Timed' /\ Handled' = Handled
  <2>1. \A i \in DOMAIN log : log[i] \in Nat /\ log[i] <= now + 1
    BY <1>2, TimedIs
  <2> QED BY <1>1, <1>2, <2>1 DEF Timed, Handled
<1>4. ASSUME NEW t, Past(t) PROVE Past(t)'
  BY <1>1, <1>2, <1>4 DEF Past
<1>5. KeptUp => KeptUp'
  <2> SUFFICES ASSUME KeptUp PROVE KeptUp'
    OBVIOUS
  <2>1. saved.cursor = None \/ Past(saved.cursor)'
    <3>1. PICK t : t = saved.cursor
      OBVIOUS
    <3>2. t = None \/ Past(t)'
      BY <1>4, <3>1 DEF KeptUp
    <3> QED BY <1>1, <3>1, <3>2 DEF Past
  <2>2. Covered(saved.cursor, Handled)'
    BY <1>1, <1>3 DEF KeptUp, Covered, Offered
  <2> QED BY <1>1, <1>3, <2>1, <2>2 DEF KeptUp, Once
<1>6. Pulling => Pulling'
  <2> SUFFICES ASSUME Pulling PROVE Pulling'
    OBVIOUS
  <2>1. PICK q : q = pull
    OBVIOUS
  <2>2. PICK d : d = Handled
    OBVIOUS
  <2>3. Progress(q, d) /\ q \in Pulls
    BY <2>1, <2>2 DEF Pulling
  <2>4. /\ Past(q.since)' /\ Past(q.newest)' /\ (q.newestTs = None \/ Past(q.newestTs)')
    BY <1>4, <2>3 DEF Progress
  <2>5. Covered(q.since, d)'
    BY <1>1, <2>3 DEF Progress, Covered, Offered
  <2>6. connector.order = "newest" => ByNewest(q, d)'
    BY <1>1, <2>3 DEF Progress, ByNewest, Match, Offered
  <2>7. connector.order = "oldest" => ByOldest(q, d)'
    BY <1>1, <2>3 DEF Progress, ByOldest, Match
  <2>8. connector.order = "windows" => ByWindow(q, d)'
    BY <1>1, <1>2, <2>3 DEF Progress, ByWindow
  <2>9. q.tail => connector.order = "newest" /\ Left(q)' = {}
    BY <1>1, <2>3 DEF Progress, Left, Match
  <2>10. q.end \in Nat /\ q.end < now + 1
    BY <1>2, <2>3 DEF Progress
  <2>11. Progress(q, d)'
    <3> HIDE DEF ByNewest, ByOldest, ByWindow, Past, Covered, Left
    <3> QED BY <1>1, <2>3, <2>4, <2>5, <2>6, <2>7, <2>8, <2>9, <2>10 DEF Progress
  <2>12. Progress(pull, Handled)'
    <3>1. q = pull' /\ d = Handled'
      BY <1>1, <1>3, <2>1, <2>2
    <3> HIDE DEF Handled
    <3> QED BY <2>11, <3>1 DEF Progress, ByNewest, ByOldest, ByWindow, Past, Covered, Offered, Match, Left
  <2> QED BY <1>1, <1>3, <2>12 DEF Pulling, Pulls
<1> QED BY <1>1, <1>3, <1>5, <1>6 DEF VendorInv

LEMMA RecordArrives ==
  ASSUME VendorInv, Arrive
  PROVE  VendorInv'
<1>0. PICK n : n = Len(log) + 1
  OBVIOUS
<1>1. /\ connector' = connector /\ now' = now /\ saved' = saved /\ excused' = excused /\ pull' = pull
      /\ connector.order # "snapshot"
      /\ ~connector.again /\ log # <<>> => Last(log) < now
      /\ log' = Append(log, now) /\ fate' = Append(fate, {})
  BY DEF Arrive
<1>2. /\ Timed /\ KeptUp
      /\ saved = [cursor |-> saved.cursor, seen |-> saved.seen, snapshot |-> saved.snapshot]
  BY <1>1 DEF VendorInv
<1>3. /\ Len(log) \in Nat /\ DOMAIN log = 1 .. Len(log) /\ DOMAIN fate = DOMAIN log
      /\ now \in Nat /\ now >= 1 /\ log \in Seq(Nat) /\ fate \in Seq(SUBSET Fates)
      /\ Len(fate) = Len(log)
      /\ \A i \in DOMAIN log : i \in Nat /\ log[i] \in Nat /\ 1 <= log[i] /\ log[i] <= now
  BY <1>2, TimedIs DEF Timed
<1>4. /\ n \in Nat /\ n \notin DOMAIN log /\ DOMAIN log' = 1 .. n /\ DOMAIN log' = DOMAIN log \cup {n}
      /\ log' \in Seq(Nat) /\ Len(log') = n /\ log'[n] = now
      /\ \A i \in DOMAIN log : log'[i] = log[i]
  BY <1>0, <1>1, <1>3
<1>5. /\ fate' \in Seq(SUBSET Fates) /\ Len(fate') = n /\ fate'[n] = {}
      /\ \A i \in DOMAIN log : fate'[i] = fate[i]
  <2>1. {} \in SUBSET Fates
    OBVIOUS
  <2> QED BY <1>0, <1>1, <1>3, <2>1
<1>6. ASSUME ~connector.again, NEW i \in DOMAIN log PROVE log[i] < now
  <2>1. log # <<>> /\ Len(log) \in DOMAIN log /\ Last(log) = log[Len(log)] /\ i <= Len(log)
    BY <1>3 DEF Last
  <2>2. Last(log) < now
    BY <1>1, <1>6, <2>1
  <2>3. log[i] <= log[Len(log)]
    <3>1. i = Len(log) \/ i < Len(log)
      BY <1>3, <2>1
    <3> QED BY <1>2, <1>3, <2>1, <3>1 DEF Timed
  <2> QED BY <1>3, <2>1, <2>2, <2>3
<1>7. Timed'
  <2>1. \A i \in DOMAIN log' : 1 <= log'[i] /\ log'[i] <= now
    BY <1>3, <1>4
  <2>2. ASSUME NEW i \in DOMAIN log', NEW j \in DOMAIN log', i < j
        PROVE  log'[i] <= log'[j] /\ (~connector.again => log'[i] < log'[j])
    <3>1. i \in DOMAIN log /\ log'[i] = log[i]
      BY <1>3, <1>4, <2>2
    <3>2. CASE j = n
      BY <1>3, <1>4, <1>6, <3>1, <3>2
    <3>3. CASE j # n
      BY <1>2, <1>4, <2>2, <3>1, <3>3 DEF Timed
    <3> QED BY <3>2, <3>3
  <2> QED BY <1>1, <1>2, <1>3, <1>4, <1>5, <2>1, <2>2 DEF Timed
<1>8. Handled' = Handled
  BY <1>4, <1>5 DEF Handled
<1>9. ASSUME NEW t, Past(t)
      PROVE  /\ Past(t)' /\ t \in Nat
             /\ IF connector.again THEN now >= t ELSE now > t
  <2>1. CASE connector.again
    BY <1>1, <1>3, <1>9, <2>1 DEF Past
  <2>2. CASE ~connector.again
    <3>1. t \in Nat /\ (t < now \/ \E i \in DOMAIN log : t <= log[i])
      BY <1>9, <2>2 DEF Past
    <3>2. \A i \in DOMAIN log : t <= log[i] => t < now
      BY <1>3, <1>6, <2>2, <3>1
    <3>3. t < now
      BY <3>1, <3>2
    <3> QED BY <1>1, <1>3, <2>2, <3>1, <3>3 DEF Past
  <2> QED BY <2>1, <2>2
<1>10. ASSUME NEW t, t = None \/ Past(t)
       PROVE  /\ Offered(n, t)'
              /\ \A i \in DOMAIN log : Offered(i, t)' <=> Offered(i, t)
  BY <1>1, <1>4, <1>9, <1>10 DEF Offered
<1>11. ASSUME NEW t, NEW d, t = None \/ Past(t), Covered(t, d) PROVE Covered(t, d)'
  BY <1>4, <1>10, <1>11 DEF Covered
<1>12. KeptUp'
  <2>1. PICK t, d : t = saved.cursor /\ d = Handled
    OBVIOUS
  <2>2. (t = None \/ Past(t)') /\ Covered(t, d)'
    BY <1>2, <1>9, <1>11, <2>1 DEF KeptUp
  <2>3. saved'.cursor = None \/ Past(saved.cursor)'
    BY <1>1, <2>1, <2>2 DEF Past
  <2>4. Covered(saved.cursor, Handled)'
    BY <1>1, <1>8, <2>1, <2>2 DEF Covered, Offered
  <2>5. Once'
    BY <1>1, <1>2, <1>4, <1>5 DEF KeptUp, Once
  <2> QED BY <1>1, <1>2, <1>8, <2>3, <2>4, <2>5 DEF KeptUp
<1>13. Pulling => Pulling'
  <2> SUFFICES ASSUME Pulling PROVE Pulling'
    OBVIOUS
  <2>1. PICK q : q = pull
    OBVIOUS
  <2>2. PICK d : d = Handled
    OBVIOUS
  <2>3. Progress(q, d) /\ q \in Pulls
    BY <2>1, <2>2 DEF Pulling
  <2>4. /\ Past(q.since)' /\ Past(q.newest)' /\ (q.newestTs = None \/ Past(q.newestTs)')
        /\ Covered(q.since, d)'
    BY <1>9, <1>11, <2>3 DEF Progress
  <2>5. \A i \in DOMAIN log : i \in Match(q.since, q.end)' <=> i \in Match(q.since, q.end)
    BY <1>1, <1>4 DEF Match
  <2>6. connector.closed => n \notin Match(q.since, q.end)'
    <3>1. ~(now < q.end)
      BY <1>3, <2>3 DEF Progress
    <3> QED BY <1>1, <1>4, <3>1 DEF Match
  <2>7. Match(q.since, q.end)' \subseteq DOMAIN log \cup {n}
    BY <1>4 DEF Match
  <2>8. connector.order = "newest" => ByNewest(q, d)'
    <3> SUFFICES ASSUME connector.order = "newest" PROVE ByNewest(q, d)'
      OBVIOUS
    <3>1. ByNewest(q, d) /\ Past(q.newest) /\ q.at \in Nat
      BY <2>3 DEF Progress
    <3>2. q.at <= Len(log') + 1
      BY <1>0, <1>3, <1>4, <3>1 DEF ByNewest
    <3>3. ASSUME NEW i \in Match(q.since, q.end)'
          PROVE  i \in d \/ i < q.at \/ (~connector.closed /\ Offered(i, q.newest)')
      <4>1. CASE i = n
        BY <1>10, <2>6, <3>1, <3>3, <4>1
      <4>2. CASE i \in DOMAIN log
        BY <1>10, <2>5, <3>1, <3>3, <4>2 DEF ByNewest
      <4> QED BY <2>7, <3>3, <4>1, <4>2
    <3> QED BY <1>1, <3>2, <3>3 DEF ByNewest
  <2>9. connector.order = "oldest" => ByOldest(q, d)'
    <3> SUFFICES ASSUME connector.order = "oldest" PROVE ByOldest(q, d)'
      OBVIOUS
    <3>1. ByOldest(q, d) /\ q.at \in Nat
      BY <2>3 DEF Progress
    <3>2. q.at <= Len(log') /\ n > q.at
      BY <1>0, <1>3, <1>4, <3>1 DEF ByOldest
    <3>3. \A i \in Match(q.since, q.end)' : i \in d \/ i > q.at
      BY <2>5, <2>7, <3>1, <3>2 DEF ByOldest
    <3>4. q.newestTs # None => \E j \in DOMAIN log' : j <= q.at /\ q.newestTs = log'[j]
      BY <1>4, <3>1 DEF ByOldest
    <3> QED BY <3>2, <3>3, <3>4 DEF ByOldest
  <2>10. connector.order = "windows" => ByWindow(q, d)'
    BY <1>1, <1>3, <1>4, <2>3 DEF Progress, ByWindow
  <2>11. q.tail => connector.order = "newest" /\ Left(q)' = {}
    <3> SUFFICES ASSUME q.tail PROVE connector.order = "newest" /\ Left(q)' = {}
      OBVIOUS
    <3>1. connector.order = "newest" /\ Left(q) = {} /\ ByNewest(q, d) /\ q.at \in Nat
      BY <2>3 DEF Progress
    <3>2. ~(n < q.at)
      BY <1>0, <1>3, <3>1 DEF ByNewest
    <3>3. \A i \in Match(q.since, q.end)' : ~(i < q.at)
      BY <2>5, <2>7, <3>1, <3>2 DEF Left
    <3> QED BY <1>1, <3>1, <3>3 DEF Left
  <2>12. q.end \in Nat /\ q.end < now /\ q.since \in Nat /\ q.at \in Nat /\ q.tail \in BOOLEAN
    BY <2>3 DEF Progress
  <2>13. Progress(q, d)'
    <3> HIDE DEF ByNewest, ByOldest, ByWindow, Past, Covered, Left
    <3> QED BY <1>1, <2>4, <2>8, <2>9, <2>10, <2>11, <2>12 DEF Progress
  <2>14. Progress(pull, Handled)'
    <3>1. q = pull' /\ d = Handled'
      BY <1>1, <1>8, <2>1, <2>2
    <3> HIDE DEF Handled
    <3> QED BY <2>13, <3>1 DEF Progress, ByNewest, ByOldest, ByWindow, Past, Covered, Offered, Match, Left
  <2> QED BY <1>1, <1>8, <2>14 DEF Pulling, Pulls
<1> QED BY <1>1, <1>2, <1>7, <1>12, <1>13 DEF VendorInv

LEMMA VendorSteps == VendorInv /\ [VendorNext]_vendorVars => VendorInv'
<1> SUFFICES ASSUME VendorInv, [VendorNext]_vendorVars PROVE VendorInv'
  OBVIOUS
<1>1. CASE StartPull
  BY <1>1, PullBegins
<1>2. CASE Page
  BY <1>2, PageTurns
<1>3. CASE CutShort
  BY <1>3, PullIsCutShort
<1>4. CASE PageFails
  BY <1>4, NothingMoved DEF PageFails
<1>5. CASE PullSnapshot
  BY <1>5, SnapshotIsTaken
<1>6. CASE Arrive
  BY <1>6, RecordArrives
<1>7. CASE ChangeRole
  BY <1>7, NothingMoved DEF ChangeRole
<1>8. CASE VendorTick
  BY <1>8, TimePasses
<1>9. CASE UNCHANGED vendorVars
  BY <1>9, NothingMoved DEF vendorVars
<1> QED BY <1>1, <1>2, <1>3, <1>4, <1>5, <1>6, <1>7, <1>8, <1>9 DEF VendorNext

(* A record the vendor will not be asked for again was recorded, could not  *)
(* be, was told not to be, or lies in a gap the log tells of; and it is     *)
(* there once, for every connector, page size, seen window and bound on the *)
(* pages of a pull (index.js, pullVendor: cursor, seen and the cut).        *)
THEOREM NothingIsSkipped == VendorSpec => []NothingSkippedSilently
<1>1. VendorInv => NothingSkippedSilently
  <2> SUFFICES ASSUME VendorInv, NEW i \in DOMAIN log
               PROVE  /\ ~Offered(i, saved.cursor) => fate[i] # {}
                      /\ "twice" \in fate[i] => i \in excused
    BY DEF NothingSkippedSilently
  <2>1. KeptUp
    <3>1. DOMAIN <<>> = {}
      OBVIOUS
    <3> QED BY <3>1 DEF VendorInv
  <2> QED BY <2>1 DEF KeptUp, Covered, Once, Handled
<1> QED BY <1>1, VendorStart, VendorSteps, PTL DEF VendorSpec
==============================================================================
