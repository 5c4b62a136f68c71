----------------------------- MODULE ElogProofs -----------------------------
(***************************************************************************)
(* Proofs about Elog for a log of any size, events of any length and any   *)
(* number of resets and faults: the types, that there is always room for   *)
(* the next event, that elog.c is right in what it believes of the flash,  *)
(* and that it implements the abstract log of EventLog.                    *)
(***************************************************************************)
EXTENDS Elog, NaturalsInduction, SequenceTheorems, WellFoundedInduction, TLAPS

\* The mirror is never filled further.
Limit == full_threshold - 1

\* The sizes as ElogAssumption has them, with the limit in between.
LEMMA Sizes ==
  /\ LogSize \in Nat /\ MaxEvent \in Nat /\ ShrinkSize \in Nat /\ Header \in Nat
  /\ Header >= 1 /\ Header < MaxEvent /\ 2 * MaxEvent <= ShrinkSize
  /\ Limit \in Nat /\ ShrinkSize <= Limit /\ LogSize = Limit + 1 + 2 * MaxEvent
  /\ full_threshold = Limit + 1
BY ElogAssumption DEF Limit, full_threshold

-----------------------------------------------------------------------------
(* Loops that go from offset to offset.                                    *)

\* The order of the naturals as a set of pairs.
Less == {p \in Nat \X Nat : p[1] < p[2]}

\* It is well founded.
LEMMA LessWF == IsWellFoundedOn(Less, Nat)
BY NatLessThanWellFounded DEF OpToRel, Less

\* A bounded nonempty set of naturals has a greatest element.
LEMMA Greatest ==
  ASSUME NEW n \in Nat, NEW T \in SUBSET (0 .. n), T # {}
  PROVE  \E x \in T : \A y \in T : y <= x
<1> DEFINE U == {k \in Nat : n - k \in T}
<1>1. \A y \in T : n - y \in U /\ n - (n - y) = y
  <2> TAKE y \in T
  <2>1. n - (n - y) = y /\ n - y \in Nat
    OBVIOUS
  <2> QED BY <2>1
<1>2. U # {} /\ U \in SUBSET Nat
  BY <1>1
<1>3. \A k \in U : k \in Nat /\ n - k \in T
  OBVIOUS
<1> HIDE DEF U
<1>4. PICK k \in U : \A j \in U : ~(<<j, k>> \in Less)
  BY <1>2, LessWF, WFMin
<1>5. \A j \in U : ~(j < k)
  BY <1>3, <1>4 DEF Less
<1>6. \A y \in T : y <= n - k
  <2> TAKE y \in T
  <2>1. n - y \in U /\ ~(n - y < k) /\ y \in Nat /\ k \in Nat
    BY <1>1, <1>3, <1>5
  <2> QED BY <2>1
<1> QED BY <1>3, <1>6

\* Where a loop stops that leaves o for nx[o] while o is in P.
Chases(f, a, b, P, nx) == f = [o \in a .. b |-> IF o \in P THEN f[nx[o]] ELSE o]

\* Such a loop ends: there is a function that says where.
LEMMA ChaseExists ==
  ASSUME NEW a \in Nat, NEW b \in Nat, NEW P, NEW nx,
         \A o \in a .. b : o \in P => nx[o] \in a .. b /\ o < nx[o]
  PROVE  \E f : Chases(f, a, b, P, nx)
<1> DEFINE Way(o, m, D) == /\ o \in D /\ m \in D /\ m \notin P
                           /\ \A x \in D : x <= m /\ (x # m => x \in P /\ nx[x] \in D)
           M(o) == {m \in a .. b : \E D \in SUBSET (a .. b) : Way(o, m, D)}
           f == [o \in a .. b |-> CHOOSE m \in M(o) : TRUE]
<1>1. ASSUME NEW o \in a .. b, o \notin P PROVE M(o) = {o}
  <2>1. {o} \in SUBSET (a .. b) /\ Way(o, o, {o})
    BY <1>1
  <2>2. o \in M(o)
    BY <2>1
  <2>3. ASSUME NEW m \in M(o) PROVE m = o
    BY <1>1
  <2> QED BY <2>2, <2>3
<1>2. ASSUME NEW o \in a .. b, o \in P PROVE M(o) = M(nx[o])
  <2>0. nx[o] \in a .. b /\ o < nx[o]
    BY <1>2
  <2>1. ASSUME NEW m \in M(o) PROVE m \in M(nx[o])
    <3>1. PICK D \in SUBSET (a .. b) : Way(o, m, D)
      BY <2>1
    <3>2. Way(nx[o], m, D)
      BY <1>2, <3>1
    <3> QED BY <3>2
  <2>2. ASSUME NEW m \in M(nx[o]) PROVE m \in M(o)
    <3>1. PICK D \in SUBSET (a .. b) : Way(nx[o], m, D)
      BY <2>2
    <3>2. D \cup {o} \in SUBSET (a .. b) /\ o <= m /\ nx[o] <= m
      BY <2>0, <3>1
    <3>3. Way(o, m, D \cup {o})
      BY <1>2, <3>1, <3>2
    <3> QED BY <3>2, <3>3
  <2> QED BY <2>1, <2>2
<1> HIDE DEF M
<1>3. \A o \in a .. b : f[o] = IF o \in P THEN f[nx[o]] ELSE o
  <2> TAKE o \in a .. b
  <2>1. CASE o \in P
    <3>1. nx[o] \in a .. b
      BY <2>1
    <3> QED BY <1>2, <2>1, <3>1
  <2>2. CASE o \notin P
    <3>1. M(o) = {o}
      BY <1>1, <2>2
    <3> QED BY <2>2, <3>1
  <2> QED BY <2>1, <2>2
<1>4. f = [o \in a .. b |-> f[o]]
  OBVIOUS
<1> HIDE DEF f
<1>5. Chases(f, a, b, P, nx)
  BY <1>3, <1>4 DEF Chases
<1> QED BY <1>5

\* The loop stops ahead, outside P, and in any set that it cannot leave.
LEMMA ChaseEnds ==
  ASSUME NEW a \in Nat, NEW b \in Nat, NEW P, NEW nx, NEW f,
         \A o \in a .. b : o \in P => nx[o] \in a .. b /\ o < nx[o],
         Chases(f, a, b, P, nx),
         NEW D \in SUBSET (a .. b), \A o \in D : o \in P => nx[o] \in D
  PROVE  \A o \in D : f[o] \in D /\ f[o] \notin P /\ o <= f[o]
<1> DEFINE T == {o \in D : ~(f[o] \in D /\ f[o] \notin P /\ o <= f[o])}
<1>1. SUFFICES ASSUME T # {} PROVE FALSE
  OBVIOUS
<1>2. T \in SUBSET (0 .. b)
  <2>1. \A x \in a .. b : x \in 0 .. b
    OBVIOUS
  <2>2. T \subseteq D
    OBVIOUS
  <2> HIDE DEF T
  <2> QED BY <2>1, <2>2
<1>3. PICK o \in T : \A y \in T : y <= o
  <2> HIDE DEF T
  <2> QED BY <1>1, <1>2, Greatest
<1>4. o \in D /\ o \in a .. b /\ o \in Nat
  BY <1>3
<1>5. f[o] = IF o \in P THEN f[nx[o]] ELSE o
  BY <1>4 DEF Chases
<1>6. CASE o \notin P
  BY <1>3, <1>4, <1>5, <1>6
<1>7. CASE o \in P
  <2>1. nx[o] \in D /\ o < nx[o] /\ nx[o] \in a .. b
    BY <1>4, <1>7
  <2>2. nx[o] \notin T
    BY <1>3, <1>4, <2>1
  <2>3. f[nx[o]] \in D /\ f[nx[o]] \notin P /\ nx[o] <= f[nx[o]]
    BY <2>1, <2>2
  <2>4. f[nx[o]] \in Nat /\ o <= f[nx[o]]
    <3>1. \A x \in a .. b : x \in Nat
      OBVIOUS
    <3>2. f[nx[o]] \in Nat /\ nx[o] \in Nat
      BY <2>1, <2>3, <3>1
    <3> QED BY <1>4, <2>1, <2>3, <3>2
  <2> QED BY <1>3, <1>4, <1>5, <1>7, <2>3, <2>4
<1> QED BY <1>6, <1>7

-----------------------------------------------------------------------------
(* Runs of events.                                                         *)

\* A buffer of cells whose length fields can be followed.
IsLog(buf) ==
  /\ buf = [a \in Cells |-> buf[a]]
  /\ \A a \in Cells : buf[a].len \in 1 .. MaxEvent

\* From the header to m, following the lengths leads through D and over no
\* end of the log.
Chained(buf, m, D) ==
  /\ Header \in D /\ m \in D /\ D \subseteq Header .. m
  /\ \A o \in D : o # m => buf[o] # Eol /\ o + buf[o].len \in D

\* The same, and every step is over a whole event.
Run(buf, m, D) ==
  /\ Chained(buf, m, D)
  /\ \A o \in D : o # m => EventAt(buf, o)

\* An event ends behind its start, within the log, and no cell of it is blank.
LEMMA EventCells ==
  ASSUME NEW buf, IsLog(buf), NEW o \in Header .. LogSize, EventAt(buf, o)
  PROVE  /\ o \in Cells /\ buf[o].len \in 1 .. MaxEvent
         /\ o + buf[o].len \in Header .. LogSize /\ o < o + buf[o].len
         /\ \A a \in o .. o + buf[o].len - 1 : a \in Cells /\ buf[a] # Eol
<1>1. o \in Nat /\ o < LogSize /\ o + buf[o].len <= LogSize /\ buf[o].type # "eol"
      /\ \A i \in 1 .. buf[o].len : buf[o + i - 1] = Cell(buf[o], i)
  BY Sizes DEF EventAt
<1>2. o \in Cells
  BY <1>1, Sizes DEF Cells
<1>3. PICK n \in 1 .. MaxEvent : buf[o].len = n
  BY <1>2 DEF IsLog
<1>4. ASSUME NEW a \in o .. o + n - 1 PROVE a \in Cells /\ buf[a] # Eol
  <2>1. a \in Cells /\ a - o + 1 \in 1 .. n /\ o + (a - o + 1) - 1 = a
    BY <1>1, <1>3, Sizes DEF Cells
  <2>2. buf[a] = Cell(buf[o], a - o + 1)
    BY <1>1, <1>3, <2>1
  <2>3. buf[a].type = buf[o].type
    BY <2>2 DEF Cell
  <2>4. Eol.type = "eol"
    BY DEF Eol, Plain
  <2> QED BY <1>1, <2>1, <2>3, <2>4
<1> QED BY <1>1, <1>2, <1>3, <1>4, Sizes

\* The loop of elog_update_event_buffer_state, as a function of its offset.
ScanFn(buf) ==
  CHOOSE f : f = [o \in Header .. LogSize |->
                    IF EventAt(buf, o) THEN f[o + buf[o].len] ELSE o]

\* The scan stops in front of what is not an event, in any set that following
\* the events does not leave; and it has followed a run of events.
LEMMA Scan ==
  ASSUME NEW buf, IsLog(buf)
  PROVE  /\ ScanEnd(buf) \in Header .. LogSize
         /\ ~EventAt(buf, ScanEnd(buf))
         /\ \E D \in SUBSET (Header .. LogSize) : Run(buf, ScanEnd(buf), D)
         /\ \A D \in SUBSET (Header .. LogSize) :
              Header \in D /\ (\A o \in D : EventAt(buf, o) => o + buf[o].len \in D)
                => ScanEnd(buf) \in D
<1> DEFINE dom == Header .. LogSize
           P == {o \in dom : EventAt(buf, o)}
           nx == [o \in dom |-> o + buf[o].len]
           f == ScanFn(buf)
<1>1. \A o \in dom : o \in P => nx[o] \in dom /\ o < nx[o]
  BY EventCells
<1>2. ASSUME NEW g
      PROVE  Chases(g, Header, LogSize, P, nx) <=>
             g = [o \in dom |-> IF EventAt(buf, o) THEN g[o + buf[o].len] ELSE o]
  <2>1. [o \in dom |-> IF o \in P THEN g[nx[o]] ELSE o]
        = [o \in dom |-> IF EventAt(buf, o) THEN g[o + buf[o].len] ELSE o]
    OBVIOUS
  <2> QED BY <2>1 DEF Chases
<1>3. \E g : Chases(g, Header, LogSize, P, nx)
  <2> HIDE DEF P, nx
  <2> QED BY <1>1, Sizes, ChaseExists
<1>4. \E g : g = [o \in dom |-> IF EventAt(buf, o) THEN g[o + buf[o].len] ELSE o]
  BY <1>2, <1>3
<1>5. f = [o \in dom |-> IF EventAt(buf, o) THEN f[o + buf[o].len] ELSE o]
  BY <1>4, Zenon DEF ScanFn
<1>6. Chases(f, Header, LogSize, P, nx)
  BY <1>2, <1>5
<1>7. ScanEnd(buf) = f[Header]
  BY DEF ScanEnd, ScanFn
<1> HIDE DEF f
<1>8. ASSUME NEW D \in SUBSET dom,
             \A o \in D : EventAt(buf, o) => o + buf[o].len \in D
      PROVE  \A o \in D : f[o] \in D /\ ~EventAt(buf, f[o]) /\ o <= f[o]
  <2>1. \A o \in D : o \in P => nx[o] \in D
    BY <1>8
  <2>2. \A o \in D : f[o] \in D /\ f[o] \notin P /\ o <= f[o]
    <3> HIDE DEF P, nx
    <3> QED BY <1>1, <1>6, <2>1, Sizes, ChaseEnds
  <2> QED BY <2>2
<1>9. \A o \in dom : f[o] \in dom /\ ~EventAt(buf, f[o]) /\ o <= f[o]
  <2>1. \A o \in dom : EventAt(buf, o) => o + buf[o].len \in dom
    BY EventCells
  <2> QED BY <1>8, <2>1
<1>10. Header \in dom
  BY Sizes
<1> DEFINE E == f[Header]
           W == {o \in Header .. E : f[o] = E}
<1>11. E \in dom /\ E \in Nat /\ Header <= E /\ ~EventAt(buf, E)
  BY <1>9, <1>10, Sizes
<1>12. f[E] = E
  BY <1>5, <1>11
<1>13. W \in SUBSET dom
  BY <1>11, Sizes
<1>14. ASSUME NEW o \in W, o # E
       PROVE  EventAt(buf, o) /\ buf[o] # Eol /\ o + buf[o].len \in W
  <2>1. o \in dom /\ f[o] = E
    BY <1>13
  <2>2. EventAt(buf, o)
    BY <1>5, <1>14, <2>1
  <2>3. f[o + buf[o].len] = E
    BY <1>5, <2>1, <2>2
  <2>4. o + buf[o].len \in dom /\ buf[o] # Eol
    <3>1. o \in o .. o + buf[o].len - 1
      BY <2>1, <2>2, Sizes, EventCells
    <3> QED BY <2>1, <2>2, <3>1, EventCells
  <2>5. o + buf[o].len <= E
    BY <1>9, <2>3, <2>4
  <2>6. o + buf[o].len \in Header .. E
    BY <1>11, <2>4, <2>5, Sizes
  <2> QED BY <2>2, <2>3, <2>4, <2>6
<1>15. Header \in W /\ E \in W /\ W \subseteq Header .. E
  BY <1>11, <1>12, Sizes
<1> HIDE DEF W
<1>16. Run(buf, ScanEnd(buf), W)
  BY <1>7, <1>14, <1>15 DEF Run, Chained
<1> QED BY <1>7, <1>8, <1>10, <1>11, <1>13, <1>16

\* A run of events that nothing follows is what a scan finds.
LEMMA RunIsScanned ==
  ASSUME NEW buf, IsLog(buf), NEW m \in Header .. LogSize, NEW D, Run(buf, m, D),
         ~EventAt(buf, m)
  PROVE  ScanEnd(buf) = m
<1>1. D \in SUBSET (Header .. LogSize)
  BY Sizes DEF Run, Chained
<1>2. Header \in D /\ \A o \in D : EventAt(buf, o) => o + buf[o].len \in D
  BY DEF Run, Chained
<1>3. ScanEnd(buf) \in D /\ ~EventAt(buf, ScanEnd(buf))
  BY <1>1, <1>2, Scan
<1> QED BY <1>3 DEF Run

\* The loop of elog_do_shrink, as a function of its offset.
ShrinkFn(buf) ==
  CHOOSE f : f = [o \in Header .. LogSize + MaxEvent |->
                    IF o > ShrinkSize \/ o >= LogSize THEN o
                    ELSE IF buf[o] = Eol THEN o ELSE f[o + buf[o].len]]

\* elog_do_shrink stops at the start of an event, behind the shrink size.
LEMMA Shrinks ==
  ASSUME NEW buf, IsLog(buf), NEW m \in Nat, m > ShrinkSize, m <= LogSize,
         NEW D, Chained(buf, m, D)
  PROVE  /\ ShrinkOffset(buf) \in D /\ ShrinkOffset(buf) \in ShrinkSize + 1 .. m
<1> DEFINE b == LogSize + MaxEvent
           dom == Header .. b
           P == {o \in dom : ~(o > ShrinkSize \/ o >= LogSize) /\ buf[o] # Eol}
           nx == [o \in dom |-> o + buf[o].len]
           f == ShrinkFn(buf)
<1>0. b \in Nat
  BY Sizes
<1>1. \A o \in dom : o \in P => nx[o] \in dom /\ o < nx[o]
  <2> SUFFICES ASSUME NEW o \in dom, o \in P PROVE nx[o] \in dom /\ o < nx[o]
    OBVIOUS
  <2>1. o \in Cells /\ o \in Nat /\ o < LogSize
    BY Sizes DEF Cells
  <2>2. PICK n \in 1 .. MaxEvent : buf[o].len = n
    BY <2>1 DEF IsLog
  <2>3. nx[o] = o + n
    BY <2>2
  <2> QED BY <2>1, <2>3, Sizes
<1>2. ASSUME NEW g
      PROVE  Chases(g, Header, b, P, nx) <=>
             g = [o \in dom |-> IF o > ShrinkSize \/ o >= LogSize THEN o
                                ELSE IF buf[o] = Eol THEN o ELSE g[o + buf[o].len]]
  <2>1. [o \in dom |-> IF o \in P THEN g[nx[o]] ELSE o]
        = [o \in dom |-> IF o > ShrinkSize \/ o >= LogSize THEN o
                         ELSE IF buf[o] = Eol THEN o ELSE g[o + buf[o].len]]
    OBVIOUS
  <2> QED BY <2>1 DEF Chases
<1>3. \E g : Chases(g, Header, b, P, nx)
  <2> HIDE DEF P, nx, b
  <2> QED BY <1>0, <1>1, Sizes, ChaseExists
<1>4. \E g : g = [o \in dom |-> IF o > ShrinkSize \/ o >= LogSize THEN o
                                ELSE IF buf[o] = Eol THEN o ELSE g[o + buf[o].len]]
  BY <1>2, <1>3
<1>5. f = [o \in dom |-> IF o > ShrinkSize \/ o >= LogSize THEN o
                         ELSE IF buf[o] = Eol THEN o ELSE f[o + buf[o].len]]
  BY <1>4, Zenon DEF ShrinkFn
<1>6. Chases(f, Header, b, P, nx)
  BY <1>2, <1>5
<1>7. ShrinkOffset(buf) = f[Header]
  BY DEF ShrinkOffset, ShrinkFn
<1> HIDE DEF f
<1>8. D \in SUBSET dom
  BY Sizes DEF Chained
<1>9. \A o \in D : o \in P => nx[o] \in D
  <2> SUFFICES ASSUME NEW o \in D, o \in P PROVE nx[o] \in D
    OBVIOUS
  <2>1. o # m
    OBVIOUS
  <2> QED BY <2>1 DEF Chained
<1>10. f[Header] \in D /\ f[Header] \notin P
  <2> HIDE DEF P, nx, b
  <2> QED BY <1>0, <1>1, <1>6, <1>8, <1>9, Sizes, ChaseEnds DEF Chained
<1>11. \A x \in D : x \in dom /\ x \in Nat /\ x <= m /\ (x # m => buf[x] # Eol)
  <2>1. \A x \in D : x \in dom /\ x \in Header .. m /\ (x # m => buf[x] # Eol)
    BY <1>8 DEF Chained
  <2>2. \A x \in Header .. m : x \in Nat /\ x <= m
    BY Sizes
  <2> QED BY <2>1, <2>2
<1>12. ASSUME NEW x \in D, x \notin P PROVE x \in ShrinkSize + 1 .. m
  <2>1. x \in dom /\ x \in Nat /\ x <= m
    BY <1>11
  <2>2. CASE x = m
    BY <2>2, Sizes
  <2>3. CASE x # m
    <3>1. x > ShrinkSize \/ x >= LogSize
      BY <1>11, <1>12, <2>1, <2>3
    <3> QED BY <2>1, <2>3, <3>1, Sizes
  <2> QED BY <2>2, <2>3
<1> QED BY <1>7, <1>10, <1>12

-----------------------------------------------------------------------------
(* What the operations make of a run.                                      *)

\* An event has a length, is no mark, and is not the call of elog_clear.
LEMMA EventFacts ==
  ASSUME NEW e \in Events
  PROVE  e.len \in 1 .. MaxEvent /\ e.type \notin {"eol", "header", "bad"} /\ e # ClearLog
<1>1. CASE e \in UserEvents
  <2>1. e.len \in 1 .. MaxEvent /\ e.type \notin {"eol", "header", "bad"}
    BY <1>1, ElogAssumption
  <2>2. ClearLog.len = 0
    BY DEF ClearLog
  <2>3. e.len # 0
    BY <2>1
  <2> QED BY <2>1, <2>2, <2>3
<1>2. CASE e = Boot
  <2>1. e.len = 1 /\ e.type = "boot" /\ ClearLog.len = 0
    BY <1>2 DEF Boot, ClearLog
  <2> QED BY <2>1, Sizes
<1>3. CASE \E n \in 0 .. LogSize : e = Clear(n)
  <2>1. e.len = 1 /\ e.type = "clear" /\ ClearLog.len = 0
    BY <1>3 DEF Clear, ClearLog
  <2> QED BY <2>1, Sizes
<1> QED BY <1>1, <1>2, <1>3 DEF Events

\* A run depends on nothing behind it.
LEMMA RunLocal ==
  ASSUME NEW buf, IsLog(buf), NEW buf2, NEW m \in Header .. LogSize, NEW D,
         \A a \in Cells : a < m => buf2[a] = buf[a]
  PROVE  /\ Chained(buf, m, D) => Chained(buf2, m, D)
         /\ Run(buf, m, D) => Run(buf2, m, D)
<1>1. ASSUME Chained(buf, m, D), NEW o \in D, o # m
      PROVE  o \in Cells /\ o < m /\ buf2[o] = buf[o] /\ o \in Header .. LogSize
  <2>1. o \in Header .. m
    BY <1>1 DEF Chained
  <2>2. o \in Cells /\ o < m /\ o \in Header .. LogSize
    BY <1>1, <2>1, Sizes DEF Cells
  <2> QED BY <2>2
<1>2. ASSUME Chained(buf, m, D) PROVE Chained(buf2, m, D)
  BY <1>1, <1>2 DEF Chained
<1>3. ASSUME Run(buf, m, D), NEW o \in D, o # m PROVE EventAt(buf2, o)
  <2>1. Chained(buf, m, D) /\ EventAt(buf, o)
    BY <1>3 DEF Run
  <2>2. o \in Cells /\ o < m /\ buf2[o] = buf[o] /\ o \in Header .. LogSize
    BY <1>1, <1>3, <2>1
  <2>4. PICK n \in 1 .. MaxEvent : buf[o].len = n
    BY <2>1, <2>2, EventCells
  <2>3. o + n \in Header .. m /\ o \in Nat
    <3>1. o + n \in D
      BY <1>3, <2>1, <2>4 DEF Chained
    <3>2. D \subseteq Header .. m
      BY <2>1 DEF Chained
    <3>3. o \in Nat
      BY <2>2, Sizes
    <3> QED BY <3>1, <3>2, <3>3
  <2>5. \A i \in 1 .. n : o + i - 1 \in Cells /\ o + i - 1 < m
    BY <2>2, <2>3, <2>4, Sizes DEF Cells
  <2>6. \A i \in 1 .. n : buf2[o + i - 1] = buf[o + i - 1]
    BY <2>5
  <2>7. \A i \in 1 .. n : buf2[o + i - 1] = Cell(buf2[o], i)
    BY <2>1, <2>2, <2>4, <2>6 DEF EventAt
  <2>8. o < LogSize /\ buf[o].type \notin {"eol", "header", "bad"} /\ o + n <= LogSize
    BY <2>1, <2>4 DEF EventAt
  <2> QED BY <2>2, <2>4, <2>7, <2>8 DEF EventAt
<1> QED BY <1>2, <1>3 DEF Run

\* An event is added behind a run.
LEMMA RunAppend ==
  ASSUME NEW buf, IsLog(buf), NEW m \in 0 .. LogSize, NEW e \in Events,
         m + e.len <= LogSize
  PROVE  /\ IsLog(WithEvent(buf, m, e))
         /\ \A a \in Cells : a < m \/ a >= m + e.len => WithEvent(buf, m, e)[a] = buf[a]
         /\ m + e.len \in Nat /\ m + e.len > m
         /\ \A D : Chained(buf, m, D) =>
              Chained(WithEvent(buf, m, e), m + e.len, D \cup {m + e.len})
         /\ \A D : Run(buf, m, D) =>
              Run(WithEvent(buf, m, e), m + e.len, D \cup {m + e.len})
<1>1. PICK n \in 1 .. MaxEvent : e.len = n
  BY EventFacts
<1>2. n \in Nat /\ m \in Nat /\ m + n <= LogSize /\ e.type \notin {"eol", "header", "bad"}
  BY <1>1, EventFacts, Sizes
<1> DEFINE b2 == WithEvent(buf, m, e)
<1>3. b2 = [a \in Cells |-> IF a \in m .. m + n - 1 THEN Cell(e, a - m + 1) ELSE buf[a]]
  BY <1>1 DEF WithEvent
<1>4. \A a \in Cells : b2[a] = IF a \in m .. m + n - 1 THEN Cell(e, a - m + 1) ELSE buf[a]
  BY <1>3
<1>5. \A i : Cell(e, i).len = n /\ Cell(e, i).type = e.type
  BY <1>1 DEF Cell
<1>6. IsLog(b2)
  <2>1. b2 = [a \in Cells |-> b2[a]]
    BY <1>3
  <2>2. ASSUME NEW a \in Cells PROVE b2[a].len \in 1 .. MaxEvent
    <3> HIDE DEF b2
    <3>1. CASE a \in m .. m + n - 1
      BY <1>4, <1>5, <3>1
    <3>2. CASE a \notin m .. m + n - 1
      BY <1>4, <3>2 DEF IsLog
    <3> QED BY <3>1, <3>2
  <2> QED BY <2>1, <2>2 DEF IsLog
<1> HIDE DEF b2
<1>7. \A a \in Cells : a < m \/ a >= m + n => b2[a] = buf[a]
  <2>1. \A a \in Cells : a < m \/ a >= m + n => a \notin m .. m + n - 1
    BY <1>2, Sizes DEF Cells
  <2> QED BY <1>4, <2>1
<1>8. m \in Cells /\ b2[m] = Cell(e, 1)
  <2>1. m \in Cells /\ m \in m .. m + n - 1 /\ m - m + 1 = 1
    BY <1>2, Sizes DEF Cells
  <2> QED BY <1>4, <2>1
<1>9. b2[m].len = n /\ b2[m].type = e.type
  BY <1>5, <1>8
<1>10. EventAt(b2, m)
  <2>1. \A i \in 1 .. n : b2[m + i - 1] = Cell(e, i)
    <3> TAKE i \in 1 .. n
    <3>1. m + i - 1 \in Cells /\ m + i - 1 \in m .. m + n - 1 /\ (m + i - 1) - m + 1 = i
      BY <1>2, Sizes DEF Cells
    <3> QED BY <1>4, <3>1
  <2>2. \A i \in 1 .. n : Cell(e, i) = Cell(b2[m], i)
    BY <1>8 DEF Cell
  <2>3. \A i \in 1 .. n : b2[m + i - 1] = Cell(b2[m], i)
    BY <2>1, <2>2
  <2>4. m < LogSize
    BY <1>2, Sizes
  <2> QED BY <1>2, <1>9, <2>3, <2>4 DEF EventAt
<1>11. b2[m] # Eol
  <2>1. Eol.type = "eol"
    BY DEF Eol, Plain
  <2> QED BY <1>2, <1>9, <2>1
<1>12. ASSUME NEW D, Chained(buf, m, D) PROVE Chained(b2, m + n, D \cup {m + n})
  <2>0. m \in Header .. LogSize
    <3>1. m \in Header .. m
      BY <1>12 DEF Chained
    <3> QED BY <1>2, <3>1, Sizes
  <2>1. Chained(b2, m, D)
    BY <1>7, <1>12, <2>0, RunLocal
  <2>2. ASSUME NEW o \in D, o # m + n
        PROVE  b2[o] # Eol /\ o + b2[o].len \in D \cup {m + n}
    <3>1. CASE o = m
      BY <1>9, <1>11, <3>1
    <3>2. CASE o # m
      BY <2>1, <3>2 DEF Chained
    <3> QED BY <3>1, <3>2
  <2>3. D \cup {m + n} \subseteq Header .. m + n
    BY <1>2, <2>0, <2>1, Sizes DEF Chained
  <2>4. Header \in D
    BY <1>12 DEF Chained
  <2> QED BY <2>2, <2>3, <2>4 DEF Chained
<1>13. ASSUME NEW D, Run(buf, m, D) PROVE Run(b2, m + n, D \cup {m + n})
  <2>1. Chained(buf, m, D)
    BY <1>13 DEF Run
  <2>2. m \in Header .. LogSize
    <3>1. m \in Header .. m
      BY <2>1 DEF Chained
    <3> QED BY <1>2, <3>1, Sizes
  <2>3. Run(b2, m, D)
    BY <1>7, <1>13, <2>2, RunLocal
  <2>4. \A o \in D : EventAt(b2, o)
    BY <1>10, <2>3 DEF Run
  <2> QED BY <1>12, <2>1, <2>4 DEF Run
<1> QED BY <1>1, <1>2, <1>6, <1>7, <1>12, <1>13 DEF b2

\* A log that is only a header.
LEMMA HeaderOnly ==
  ASSUME NEW buf, IsLog(buf)
  PROVE  /\ IsLog(WithHeader(buf)) /\ HeaderValid(WithHeader(buf))
         /\ \A a \in Cells : a >= Header => WithHeader(buf)[a] = buf[a]
         /\ \A b : Run(b, Header, {Header})
<1> DEFINE b2 == WithHeader(buf)
<1>1. b2 = [a \in Cells |-> IF a < Header THEN Hdr ELSE buf[a]]
  BY DEF WithHeader
<1>2. \A a \in Cells : b2[a] = IF a < Header THEN Hdr ELSE buf[a]
  BY <1>1
<1>3. b2 = [a \in Cells |-> b2[a]]
  BY <1>1
<1> HIDE DEF b2
<1>4. Hdr.len \in 1 .. MaxEvent
  BY Sizes DEF Hdr, Plain
<1>5. IsLog(b2)
  BY <1>2, <1>3, <1>4 DEF IsLog
<1>6. \A a \in 0 .. Header - 1 : a \in Cells /\ a < Header
  BY Sizes DEF Cells
<1>7. HeaderValid(b2)
  BY <1>2, <1>6 DEF HeaderValid
<1>8. \A a \in Cells : a >= Header => ~(a < Header)
  BY Sizes DEF Cells
<1>9. \A b : Run(b, Header, {Header})
  BY Sizes DEF Run, Chained
<1> QED BY <1>2, <1>5, <1>7, <1>8, <1>9 DEF b2

\* The events from offset on move to the front.
LEMMA RunMoved ==
  ASSUME NEW buf, IsLog(buf), NEW m \in Header .. LogSize, NEW D, NEW offset \in D,
         Chained(buf, m, D)
  PROVE  LET k == Header + m - offset
             b2 == Moved(buf, m, offset)
         IN  /\ IsLog(b2) /\ HeaderValid(b2) /\ k \in Header .. m
             /\ \E D2 : Chained(b2, k, D2)
             /\ Run(buf, m, D) => \E D2 : Run(b2, k, D2)
<1> DEFINE k == Header + m - offset
           b2 == Moved(buf, m, offset)
           D2 == {o \in Header .. k : o - Header + offset \in D}
<1>1. offset \in Header .. m /\ offset \in Nat /\ m \in Nat /\ m <= LogSize
      /\ k \in Header .. m /\ k \in Nat
  <2>1. offset \in Header .. m
    BY DEF Chained
  <2> QED BY <2>1, Sizes
<1>2. b2 = [a \in Cells |-> IF a < Header THEN Hdr
                            ELSE IF a < k THEN buf[a - Header + offset] ELSE Eol]
  BY DEF Moved
<1>3. \A a \in Cells : b2[a] = IF a < Header THEN Hdr
                               ELSE IF a < k THEN buf[a - Header + offset] ELSE Eol
  BY <1>2
<1>4. b2 = [a \in Cells |-> b2[a]]
  BY <1>2
<1> HIDE DEF b2
<1>5. \A a \in Cells : ~(a < Header) /\ a < k => a - Header + offset \in Cells
  BY <1>1, Sizes DEF Cells
<1>6. Hdr.len \in 1 .. MaxEvent /\ Eol.len \in 1 .. MaxEvent
  BY Sizes DEF Hdr, Eol, Plain
<1>7. IsLog(b2)
  <2>1. ASSUME NEW a \in Cells PROVE b2[a].len \in 1 .. MaxEvent
    <3>1. CASE a < Header
      BY <1>3, <1>6, <3>1
    <3>2. CASE ~(a < Header) /\ a < k
      BY <1>3, <1>5, <3>2 DEF IsLog
    <3>3. CASE ~(a < Header) /\ ~(a < k)
      BY <1>3, <1>6, <3>3
    <3> QED BY <3>1, <3>2, <3>3
  <2> QED BY <1>4, <2>1 DEF IsLog
<1>8. HeaderValid(b2)
  <2>1. \A a \in 0 .. Header - 1 : a \in Cells /\ a < Header
    BY Sizes DEF Cells
  <2> QED BY <1>3, <2>1 DEF HeaderValid
<1>9. ASSUME NEW o \in D2, o # k
      PROVE  LET p == o - Header + offset
             IN  /\ o \in Nat /\ o >= Header /\ o < k /\ p \in D /\ p # m /\ p < m
                 /\ p \in Header .. LogSize /\ p \in Cells /\ o \in Cells
                 /\ b2[o] = buf[p]
  <2>1. o \in Nat /\ o >= Header /\ o < k /\ o - Header + offset \in D /\ o \in Cells
    BY <1>1, <1>9, Sizes DEF Cells
  <2>2. /\ o - Header + offset # m /\ o - Header + offset < m
        /\ o - Header + offset \in Cells
        /\ o - Header + offset \in Header .. LogSize
    BY <1>1, <2>1, Sizes DEF Cells
  <2>3. ~(o < Header)
    BY <2>1, Sizes
  <2> QED BY <1>3, <2>1, <2>2, <2>3
<1>10. Chained(b2, k, D2)
  <2>1. Header \in D2 /\ k \in D2 /\ D2 \subseteq Header .. k
    <3>1. Header - Header + offset = offset /\ k - Header + offset = m
      BY <1>1, Sizes
    <3>2. Header \in Header .. k /\ k \in Header .. k
      BY <1>1, Sizes
    <3> HIDE DEF k
    <3> QED BY <3>1, <3>2 DEF Chained
  <2>2. ASSUME NEW o \in D2, o # k PROVE b2[o] # Eol /\ o + b2[o].len \in D2
    <3> DEFINE p == o - Header + offset
    <3>1. /\ o \in Nat /\ o >= Header /\ o < k /\ p \in D /\ p # m /\ p \in Cells
          /\ b2[o] = buf[p]
      BY <1>9, <2>2
    <3>2. PICK n \in 1 .. MaxEvent : buf[p].len = n
      BY <3>1 DEF IsLog
    <3>3. buf[p] # Eol /\ p + n \in D
      BY <3>1, <3>2 DEF Chained
    <3>4. p + n \in Header .. m
      BY <3>3 DEF Chained
    <3>5. (o + n) - Header + offset = p + n /\ o + n \in Header .. k
      BY <1>1, <3>1, <3>2, <3>4, Sizes
    <3>6. o + n \in D2
      BY <3>3, <3>5
    <3> HIDE DEF D2, p
    <3> QED BY <3>1, <3>2, <3>3, <3>6
  <2> HIDE DEF D2
  <2> QED BY <2>1, <2>2 DEF Chained
<1>11. ASSUME Run(buf, m, D), NEW o \in D2, o # k PROVE EventAt(b2, o)
  <2> DEFINE p == o - Header + offset
  <2>1. /\ o \in Nat /\ o >= Header /\ o < k /\ p \in D /\ p # m /\ p \in Cells
        /\ p \in Header .. LogSize /\ b2[o] = buf[p]
    BY <1>9, <1>11
  <2>2. EventAt(buf, p)
    BY <1>11, <2>1 DEF Run
  <2>3. PICK n \in 1 .. MaxEvent : buf[p].len = n
    BY <2>1 DEF IsLog
  <2>4. p + n \in Header .. m
    BY <2>1, <2>3 DEF Chained
  <2>5. o + n <= k /\ k <= LogSize /\ o < LogSize
    BY <1>1, <2>1, <2>3, <2>4, Sizes
  <2>6. ASSUME NEW i \in 1 .. n PROVE b2[o + i - 1] = Cell(b2[o], i)
    <3>1. o + i - 1 \in Cells /\ ~(o + i - 1 < Header) /\ o + i - 1 < k
          /\ (o + i - 1) - Header + offset = p + i - 1
      BY <1>1, <2>1, <2>3, <2>5, Sizes DEF Cells
    <3>2. b2[o + i - 1] = buf[p + i - 1]
      BY <1>3, <3>1
    <3>3. buf[p + i - 1] = Cell(buf[p], i)
      BY <2>2, <2>3 DEF EventAt
    <3> QED BY <2>1, <3>2, <3>3
  <2>7. buf[p].type \notin {"eol", "header", "bad"}
    BY <2>2 DEF EventAt
  <2>8. b2[o].len = n /\ o + n <= LogSize
    BY <1>1, <2>1, <2>3, <2>5, Sizes
  <2> HIDE DEF p
  <2> QED BY <2>1, <2>5, <2>6, <2>7, <2>8 DEF EventAt
<1>12. Run(buf, m, D) => Run(b2, k, D2)
  BY <1>10, <1>11 DEF Run
<1> HIDE DEF D2
<1> QED BY <1>1, <1>7, <1>8, <1>10, <1>12 DEF b2

-----------------------------------------------------------------------------
(* The flash.                                                              *)

\* Nothing was ever programmed behind the limit.
TopClear(buf) == \A a \in Cells : a >= Limit => buf[a] = Eol

\* A scan of such a log leaves room.
LEMMA ScanLimit ==
  ASSUME NEW buf, IsLog(buf), TopClear(buf)
  PROVE  ScanEnd(buf) \in Header .. Limit /\ Scanned(buf) \in 0 .. Limit
<1> DEFINE D == Header .. Limit
<1>1. D \in SUBSET (Header .. LogSize) /\ Header \in D
  BY Sizes
<1>2. ASSUME NEW o \in D, EventAt(buf, o) PROVE o + buf[o].len \in D
  <2>1. o \in Header .. LogSize
    BY <1>1
  <2>2. PICK n \in 1 .. MaxEvent : buf[o].len = n
    BY <1>2, <2>1, EventCells
  <2>3. o + n - 1 \in o .. o + n - 1 /\ o + n \in Header .. LogSize /\ o \in Nat
    BY <1>2, <2>1, <2>2, Sizes, EventCells
  <2>4. o + n - 1 \in Cells /\ buf[o + n - 1] # Eol
    BY <1>2, <2>1, <2>2, <2>3, EventCells
  <2>5. ~(o + n - 1 >= Limit)
    BY <2>4 DEF TopClear
  <2>6. o + n \in D
    BY <2>2, <2>3, <2>5, Sizes
  <2> QED BY <2>2, <2>6
<1>3. ScanEnd(buf) \in D
  <2> HIDE DEF D
  <2> QED BY <1>1, <1>2, Scan
<1> QED BY <1>3, Sizes DEF Scanned

\* What a scan makes of a header, a run of events and nothing behind it.
LEMMA GoodLog ==
  ASSUME NEW buf, IsLog(buf), HeaderValid(buf), NEW m \in Header .. LogSize - 1,
         IsClear(buf, m), NEW D, Run(buf, m, D)
  PROVE  Valid(buf) /\ Scanned(buf) = m
<1>1. m \in Header .. LogSize /\ m \in m .. LogSize - 1 /\ m < LogSize
  BY Sizes
<1>2. buf[m] = Eol
  BY <1>1 DEF IsClear
<1>3. ~EventAt(buf, m)
  <2>1. Eol.type = "eol"
    BY DEF Eol, Plain
  <2> QED BY <1>2, <2>1 DEF EventAt
<1>4. ScanEnd(buf) = m
  BY <1>1, <1>3, RunIsScanned
<1>5. ~IsClear(buf, 0)
  <2>1. 0 \in 0 .. Header - 1 /\ 0 \in 0 .. LogSize - 1
    BY Sizes
  <2>2. buf[0] = Hdr
    BY <2>1 DEF HeaderValid
  <2>3. Hdr.type = "header" /\ Eol.type = "eol"
    BY DEF Hdr, Eol, Plain
  <2> QED BY <2>1, <2>2, <2>3 DEF IsClear
<1> QED BY <1>1, <1>4, <1>5 DEF Valid, Scanned

\* A valid log is such a log.
LEMMA ValidIs ==
  ASSUME NEW buf, IsLog(buf), Valid(buf)
  PROVE  /\ HeaderValid(buf) /\ Scanned(buf) = ScanEnd(buf)
         /\ IsClear(buf, ScanEnd(buf)) /\ \E D : Run(buf, ScanEnd(buf), D)
<1>1. HeaderValid(buf) /\ IsClear(buf, ScanEnd(buf))
  BY DEF Valid
<1>2. ~IsClear(buf, 0)
  <2>1. 0 \in 0 .. Header - 1 /\ 0 \in 0 .. LogSize - 1
    BY Sizes
  <2>2. buf[0] = Hdr
    BY <1>1, <2>1 DEF HeaderValid
  <2>3. Hdr.type = "header" /\ Eol.type = "eol"
    BY DEF Hdr, Eol, Plain
  <2> QED BY <2>1, <2>2, <2>3 DEF IsClear
<1> QED BY <1>1, <1>2, Scan DEF Scanned

\* Programming and erasing leave cells, and nothing behind the limit.
LEMMA FlashOps ==
  ASSUME IsLog(flash), IsLog(mirror), TopClear(flash), mlast \in 0 .. Limit
  PROVE  /\ \A S : IsLog(Erased(S)) /\ TopClear(Erased(S))
         /\ nlast \in 0 .. mlast =>
              /\ IsLog(Written(mlast - nlast)) /\ TopClear(Written(mlast - nlast))
              /\ \A n \in 0 .. mlast - nlast - 1 : \A g \in TornWrites(n) :
                   IsLog(g) /\ TopClear(g)
<1>1. Eol.len \in 1 .. MaxEvent /\ Bad.len \in 1 .. MaxEvent
  BY Sizes DEF Eol, Bad, Plain
<1>2. ASSUME NEW S PROVE IsLog(Erased(S)) /\ TopClear(Erased(S))
  <2>1. \A a \in Cells : Erased(S)[a] = IF a \in S THEN Eol ELSE flash[a]
    BY DEF Erased
  <2>2. Erased(S) = [a \in Cells |-> Erased(S)[a]]
    BY DEF Erased
  <2> QED BY <1>1, <2>1, <2>2 DEF IsLog, TopClear
<1>3. \A x, y : Program(x, y) = y \/ Program(x, y) = Bad
  BY DEF Program
<1>4. ASSUME nlast \in 0 .. mlast, NEW n \in 0 .. mlast - nlast
      PROVE  IsLog(Written(n)) /\ TopClear(Written(n))
  <2>1. \A a \in Cells : Written(n)[a] = IF a \in nlast .. nlast + n - 1
                                         THEN Program(flash[a], mirror[a]) ELSE flash[a]
    BY DEF Written
  <2>2. Written(n) = [a \in Cells |-> Written(n)[a]]
    BY DEF Written
  <2>3. \A a \in Cells : Written(n)[a] \in {flash[a], mirror[a], Bad}
    BY <1>3, <2>1
  <2>4. \A a \in Cells : a >= Limit => a \notin nlast .. nlast + n - 1
    BY <1>4, Sizes DEF Cells
  <2>5. IsLog(Written(n))
    BY <1>1, <2>2, <2>3 DEF IsLog
  <2>6. TopClear(Written(n))
    BY <2>1, <2>4 DEF TopClear
  <2> QED BY <2>5, <2>6
<1>5. ASSUME nlast \in 0 .. mlast, NEW n \in 0 .. mlast - nlast - 1, NEW g \in TornWrites(n)
      PROVE  IsLog(g) /\ TopClear(g)
  <2>1. n \in 0 .. mlast - nlast /\ nlast + n \in 0 .. Limit - 1 /\ nlast + n \in Cells
    BY <1>5, Sizes DEF Cells
  <2> DEFINE w == Written(n)
             x == Program(flash[nlast + n], Bad)
  <2>2. IsLog(w) /\ TopClear(w)
    BY <1>4, <1>5, <2>1
  <2>3. x = Bad
    BY <1>3
  <2>4. g = w \/ g = [w EXCEPT ![nlast + n] = x]
    BY DEF TornWrites
  <2> HIDE DEF w, x
  <2>5. CASE g = [w EXCEPT ![nlast + n] = x]
    <3>1. DOMAIN w = Cells
      BY <2>2 DEF IsLog
    <3>2. /\ g = [a \in Cells |-> g[a]]
          /\ \A a \in Cells : g[a] = IF a = nlast + n THEN Bad ELSE w[a]
      BY <2>3, <2>5, <3>1
    <3>3. \A a \in Cells : a >= Limit => a # nlast + n
      BY <2>1, Sizes DEF Cells
    <3> QED BY <1>1, <2>2, <3>2, <3>3 DEF IsLog, TopClear
  <2> QED BY <2>2, <2>4, <2>5
<1>6. nlast \in 0 .. mlast => mlast - nlast \in 0 .. mlast - nlast
  BY Sizes
<1> QED BY <1>2, <1>4, <1>5, <1>6

\* A mirror that was never read has cells whose lengths can be followed.
LEMMA AllBad ==
  /\ IsLog([a \in Cells |-> Bad])
  /\ \A m \in Header .. LogSize : Chained([a \in Cells |-> Bad], m, Header .. m)
<1> DEFINE b == [a \in Cells |-> Bad]
<1>1. Bad.len = 1 /\ 1 \in 1 .. MaxEvent /\ Bad # Eol
  <2>1. Bad.type = "bad" /\ Eol.type = "eol" /\ Bad.len = 1
    BY DEF Bad, Eol, Plain
  <2> QED BY <2>1, Sizes
<1>2. b = [a \in Cells |-> b[a]] /\ \A a \in Cells : b[a] = Bad
  OBVIOUS
<1> HIDE DEF b
<1>3. IsLog(b)
  BY <1>1, <1>2 DEF IsLog
<1>4. ASSUME NEW m \in Header .. LogSize PROVE Chained(b, m, Header .. m)
  <2>1. Header \in Header .. m /\ m \in Header .. m
    BY Sizes
  <2>2. \A o \in Header .. m : o # m => o \in Cells /\ o + 1 \in Header .. m
    BY Sizes DEF Cells
  <2> QED BY <1>1, <1>2, <2>1, <2>2 DEF Chained
<1> QED BY <1>3, <1>4 DEF b

-----------------------------------------------------------------------------
(* The events of a call.                                                   *)

NoClear(t) == \A i \in 1 .. Len(t) : t[i].type # "clear"

\* Only the first of them is a clear event; three are left only when the log
\* has just been emptied.
Plan(t) ==
  /\ t \in Seq(Events \cup {ClearLog})
  /\ Len(t) <= 3
  /\ Len(t) = 3 => t[1] = Clear(total_event_space)
  /\ \A i \in 2 .. Len(t) : t[i].type # "clear"

\* The first event is done.
LEMMA PlanTail ==
  ASSUME NEW t, Plan(t), t # <<>>
  PROVE  /\ Len(t) \in 1 .. 3 /\ Head(t) = t[1] /\ t[1] \in Events \cup {ClearLog}
         /\ Plan(Tail(t)) /\ NoClear(Tail(t)) /\ Len(Tail(t)) = Len(t) - 1
         /\ Tail(t) \in Seq(Events \cup {ClearLog})
         /\ Len(t) = 1 => Tail(t) = <<>>
<1>1. t \in Seq(Events \cup {ClearLog}) /\ Len(t) \in Nat /\ Len(t) <= 3
  BY DEF Plan
<1>2. /\ Len(t) >= 1 /\ Tail(t) \in Seq(Events \cup {ClearLog})
      /\ Len(Tail(t)) = Len(t) - 1 /\ Head(t) = t[1] /\ t[1] \in Events \cup {ClearLog}
      /\ \A i \in 1 .. Len(Tail(t)) : Tail(t)[i] = t[i + 1]
  BY <1>1
<1>3. \A i \in 1 .. Len(Tail(t)) : i + 1 \in 2 .. Len(t)
  BY <1>1, <1>2
<1>4. NoClear(Tail(t))
  BY <1>2, <1>3 DEF NoClear, Plan
<1>5. Len(Tail(t)) \in Nat /\ Len(Tail(t)) <= 2
  BY <1>1, <1>2
<1>6. \A i \in 2 .. Len(Tail(t)) : i \in 1 .. Len(Tail(t))
  BY <1>5
<1>7. Plan(Tail(t))
  <2>0. \A n \in Nat : n <= 2 => n <= 3 /\ n # 3
    OBVIOUS
  <2>1. Len(Tail(t)) <= 3 /\ Len(Tail(t)) # 3
    BY <1>5, <2>0, Zenon
  <2> QED BY <1>2, <1>4, <1>6, <2>1 DEF Plan, NoClear
<1>8. Len(t) = 1 => Tail(t) = <<>>
  <2>1. Len(t) = 1 => Len(Tail(t)) = 0
    BY <1>2
  <2> QED BY <1>2, <2>1, EmptySeq
<1> QED BY <1>1, <1>2, <1>4, <1>7, <1>8

\* An event is put in front.
LEMMA PlanCons ==
  ASSUME NEW t, t \in Seq(Events \cup {ClearLog}), NoClear(t), Len(t) <= 2,
         NEW x \in Events, Len(t) = 2 => x = Clear(total_event_space)
  PROVE  /\ Plan(<<x>> \o t) /\ Len(<<x>> \o t) = Len(t) + 1
         /\ (<<x>> \o t)[1] = x /\ <<x>> \o t # <<>>
         /\ x.type # "clear" => NoClear(<<x>> \o t)
<1> DEFINE w == <<x>>
           u == w \o t
<1>1. w \in Seq(Events \cup {ClearLog}) /\ Len(w) = 1 /\ w[1] = x
  OBVIOUS
<1>2. Len(t) \in Nat
  OBVIOUS
<1>3. /\ u \in Seq(Events \cup {ClearLog}) /\ Len(u) = 1 + Len(t)
      /\ u[1] = x /\ \A i \in 2 .. Len(u) : u[i] = t[i - 1] /\ i - 1 \in 1 .. Len(t)
  <2> HIDE DEF w
  <2>1. /\ u \in Seq(Events \cup {ClearLog}) /\ Len(u) = Len(w) + Len(t)
        /\ \A i \in 1 .. Len(w) + Len(t) : u[i] = IF i <= Len(w) THEN w[i] ELSE t[i - Len(w)]
    BY <1>1, ConcatProperties
  <2> HIDE DEF u
  <2> QED BY <1>1, <1>2, <2>1
<1> HIDE DEF u, w
<1>4. \A i \in 2 .. Len(u) : u[i].type # "clear"
  BY <1>3 DEF NoClear
<1>5. Len(u) = 3 => Len(t) = 2
  <2>1. \A n \in Nat : 1 + n = 3 => n = 2
    OBVIOUS
  <2> QED BY <1>2, <1>3, <2>1, Zenon
<1>6. Plan(u)
  BY <1>2, <1>3, <1>4, <1>5 DEF Plan
<1>7. x.type # "clear" => NoClear(u)
  <2>1. \A i \in 1 .. Len(u) : i = 1 \/ i \in 2 .. Len(u)
    BY <1>2, <1>3
  <2> QED BY <1>3, <1>4, <2>1 DEF NoClear
<1>8. u # <<>>
  <2>1. Len(<<>>) = 0 /\ Len(u) # 0
    BY <1>2, <1>3
  <2> QED BY <2>1
<1>9. Len(u) = Len(t) + 1
  BY <1>2, <1>3
<1> QED BY <1>3, <1>6, <1>7, <1>8, <1>9 DEF u, w

\* The clear event is an event of one cell.
LEMMA ClearIs ==
  ASSUME NEW n \in 0 .. LogSize
  PROVE  Clear(n) \in Events /\ Clear(n).type = "clear" /\ Clear(n).len = 1
BY DEF Events, Clear

\* No other event has its type.
LEMMA ClearLength ==
  ASSUME NEW e \in Events, e.type = "clear"
  PROVE  e.len = 1
<1>1. e \notin UserEvents
  BY ElogAssumption
<1>2. e # Boot
  BY DEF Boot
<1> QED BY <1>1, <1>2 DEF Events, Clear

\* The events of a call once elog_init has scanned, with or without the boot.
LEMMA BootPlan ==
  ASSUME NEW t, Plan(t), NoClear(t), Len(t) = 1, NEW boot \in {<<>>, <<Boot>>}
  PROVE  /\ Plan(boot \o t) /\ NoClear(boot \o t) /\ boot \o t # <<>>
         /\ Plan(<<Clear(total_event_space)>> \o boot \o t)
         /\ (<<Clear(total_event_space)>> \o boot \o t)[1] = Clear(total_event_space)
         /\ <<Clear(total_event_space)>> \o boot \o t # <<>>
         /\ <<Clear(total_event_space)>> \o boot \o t =
              <<Clear(total_event_space)>> \o (boot \o t)
<1> DEFINE S == Events \cup {ClearLog}
           C == Clear(total_event_space)
           w == <<C>>
<1>1. t \in Seq(S) /\ Len(t) <= 2 /\ Len(t) # 2 /\ t # <<>>
  BY DEF Plan
<1>2. C \in Events /\ Boot \in Events /\ Boot.type # "clear"
  <2>1. total_event_space \in 0 .. LogSize
    BY Sizes DEF total_event_space
  <2> QED BY <2>1, ClearIs DEF Events, Boot
<1>3. w \in Seq(S)
  BY <1>2
<1> HIDE DEF C, S
<1>4. CASE boot = <<>>
  <2>1. boot \o t = t
    BY <1>1, <1>4, ConcatEmptySeq
  <2>2. w \o boot = w
    <3> HIDE DEF w
    <3> QED BY <1>3, <1>4, ConcatEmptySeq
  <2>3. Plan(w \o t) /\ (w \o t)[1] = C /\ w \o t # <<>>
    BY <1>1, <1>2, PlanCons DEF S, C
  <2>4. w \o boot \o t = w \o t
    <3> HIDE DEF w
    <3> QED BY <2>2
  <2> QED BY <1>1, <2>1, <2>3, <2>4 DEF C
<1>5. CASE boot = <<Boot>>
  <2> DEFINE u == boot \o t
  <2>1. Plan(u) /\ Len(u) = Len(t) + 1 /\ u # <<>> /\ NoClear(u)
    BY <1>1, <1>2, <1>5, PlanCons DEF S
  <2>2. u \in Seq(S) /\ boot \in Seq(S)
    BY <1>2, <1>5, <2>1 DEF Plan, S
  <2>3. w \o boot \o t = w \o u
    <3> HIDE DEF w
    <3> QED BY <1>1, <1>3, <2>2, ConcatAssociative
  <2>4. Len(u) = 2
    BY <2>1
  <2> HIDE DEF u
  <2>5. Plan(w \o u) /\ (w \o u)[1] = C /\ w \o u # <<>>
    <3>1. Len(u) <= 2
      BY <2>4
    <3> QED BY <1>2, <2>1, <2>2, <3>1, PlanCons DEF S, C
  <2> QED BY <2>1, <2>3, <2>5 DEF u, C
<1> QED BY <1>4, <1>5

-----------------------------------------------------------------------------
(* The inductive invariant.                                                *)

Types == TypeOK /\ IsLog(flash) /\ IsLog(mirror)

Bounded ==
  /\ mlast <= Limit /\ TopClear(flash)
  /\ nlast # NV_NEEDS_ERASE => nlast <= mlast

\* Where a call can be, and what it has still to add.
Calls ==
  /\ Plan(todo)
  /\ pc = "idle" <=> todo = <<>>
  /\ pc = "scan" => state = "uninitialized" /\ Len(todo) = 1 /\ NoClear(todo)
  /\ state = "uninitialized" => pc \in {"idle", "scan"}
  /\ pc \in {"erase", "rescan"} => state = "initialized"
  /\ pc # "idle" /\ state = "broken" => Len(todo) = 1
  /\ pc = "idle" /\ state = "initialized" => nlast # NV_NEEDS_ERASE
  /\ pc = "add" /\ nlast = NV_NEEDS_ERASE => todo[1].type = "clear"
  /\ pc = "add" /\ todo[1].type = "clear" => mlast + 1 < full_threshold
  /\ pc = "write" => nlast # NV_NEEDS_ERASE
  /\ pc = "rescan" => nlast = mlast
  /\ erased => pc = "write" /\ state = "initialized"
  /\ state = "broken" => failed

\* The mirror is a header and a run of events.  A broken log has at least
\* lengths that can be followed, or is too short to be shrunk.
Shape ==
  /\ state = "initialized" => HeaderValid(mirror) /\ \E D : Run(mirror, mlast, D)
  /\ state = "broken" => \/ \E D : Chained(mirror, mlast, D)
                         \/ mlast <= Header
                         \/ pc # "add" /\ mlast <= Header + MaxEvent

\* While no flash operation has failed: what the flash holds at each point.
Trusted ==
  ~failed /\ state = "initialized" =>
    /\ pc \in {"idle", "add"} /\ nlast \notin {0, NV_NEEDS_ERASE} =>
         flash = mirror /\ nlast = mlast /\ IsClear(mirror, mlast)
    /\ pc = "idle" => nlast # 0
    /\ pc = "add" /\ nlast = 0 =>
         todo[1].type = "clear" /\ IsClear(flash, 0) /\ IsClear(mirror, mlast)
    /\ pc = "write" =>
         /\ \A a \in Cells : flash[a] = IF a < nlast THEN mirror[a] ELSE Eol
         /\ ~erased => IsClear(mirror, mlast)
    /\ pc = "rescan" =>
         HeaderValid(flash) /\ IsClear(flash, mlast) /\ \E D : Run(flash, mlast, D)

Inv == Types /\ Bounded /\ Calls /\ Shape /\ Trusted

\* A header and a run begin with the header.
LEMMA RunStarts ==
  ASSUME NEW buf, NEW m, NEW D, Run(buf, m, D)
  PROVE  Chained(buf, m, D) /\ m \in Header .. m
BY DEF Run, Chained

\* The last writes as numbers.
LEMMA Numbers ==
  ASSUME TypeOK, Bounded
  PROVE  /\ mlast \in Nat /\ mlast \in 0 .. Limit /\ mlast \in 0 .. LogSize
         /\ nlast # NV_NEEDS_ERASE => nlast \in 0 .. mlast /\ nlast \in Nat
         /\ mlast + MaxEvent < LogSize /\ mlast # NV_NEEDS_ERASE
BY Sizes DEF TypeOK, Bounded, NV_NEEDS_ERASE

LEMMA InitInv == Init => Inv
<1> SUFFICES ASSUME Init PROVE Inv
  OBVIOUS
<1> USE DEF Init
<1>1. <<>> \in Seq(Events \cup {ClearLog}) /\ Len(<<>>) = 0
  OBVIOUS
<1>2. TypeOK
  <2>1. 0 \in 0 .. LogSize /\ 0 \in 0 .. MaxResets /\ 0 \in 0 .. MaxFaults
    BY ElogAssumption
  <2>2. erased \in BOOLEAN /\ failed \in BOOLEAN
    OBVIOUS
  <2> QED BY <1>1, <2>1, <2>2 DEF TypeOK
<1>3. Eol.len \in 1 .. MaxEvent
  BY Sizes DEF Eol, Plain
<1>4. flash = [a \in Cells |-> flash[a]] /\ \A a \in Cells : flash[a] = Eol
  OBVIOUS
<1>5. IsLog(flash) /\ TopClear(flash)
  BY <1>3, <1>4 DEF IsLog, TopClear
<1>6. Types
  BY <1>2, <1>5, AllBad DEF Types
<1>7. Bounded
  BY <1>5, Sizes DEF Bounded
<1>8. Plan(todo)
  BY <1>1 DEF Plan
<1>9. Calls /\ Shape /\ Trusted
  BY <1>8 DEF Calls, Shape, Trusted
<1> QED BY <1>6, <1>7, <1>9 DEF Inv

\* One lemma per action: it preserves the invariant.
LEMMA CallStep ==
  ASSUME Inv, NEW e \in UserEvents \cup {ClearLog}, Call(e)
  PROVE  Inv'
<1>1. /\ Types /\ Bounded /\ Calls /\ Shape /\ Trusted /\ pc = "idle"
      /\ state # "broken" /\ todo' = <<e>>
      /\ pc' = IF state = "uninitialized" THEN "scan" ELSE "add"
      /\ flash' = flash /\ mirror' = mirror /\ mlast' = mlast /\ nlast' = nlast
      /\ state' = state /\ erased' = erased /\ failed' = failed /\ resets' = resets
      /\ faults' = faults
  BY DEF Inv, Call
<1>2. e \in Events \cup {ClearLog} /\ e.type # "clear"
  BY ElogAssumption DEF Events, ClearLog
<1>3. todo' \in Seq(Events \cup {ClearLog}) /\ Len(todo') = 1 /\ todo'[1] = e
      /\ todo' # <<>>
  BY <1>1, <1>2
<1>4. Plan(todo') /\ NoClear(todo')
  <2>1. Len(todo') <= 3 /\ Len(todo') # 3 /\ 2 .. Len(todo') = {}
        /\ \A i \in 1 .. Len(todo') : i = 1
    BY <1>3
  <2> QED BY <1>2, <1>3, <2>1 DEF Plan, NoClear
<1>5. Types' /\ Bounded'
  <2>1. TypeOK'
    BY <1>1, <1>3 DEF Types, TypeOK
  <2> QED BY <1>1, <2>1 DEF Types, IsLog, Bounded, TopClear
<1>6. state \in {"uninitialized", "initialized"}
  BY <1>1 DEF Types, TypeOK
<1>7. Calls'
  BY <1>1, <1>2, <1>3, <1>4, <1>6 DEF Calls
<1>8. Shape'
  BY <1>1 DEF Shape, HeaderValid, Run, Chained, EventAt
<1>9. Trusted'
  BY <1>1, <1>6 DEF Trusted, Calls, IsClear
<1> QED BY <1>5, <1>7, <1>8, <1>9 DEF Inv

\* The log is emptied, or turned out to be empty: only the clear event follows.
LEMMA EmptiedStep ==
  ASSUME Inv, NEW buf, IsLog(buf), NEW n \in 0 .. LogSize \cup {NV_NEEDS_ERASE},
         PrepareEmpty(buf, n), NEW t, Plan(t), t[1] = Clear(total_event_space), t # <<>>,
         Continue(t), flash' = flash, erased' = erased, ~erased,
         state' \in {"initialized", "broken"},
         state' = "broken" => failed' /\ Len(t) = 1,
         failed' \in BOOLEAN, resets' \in 0 .. MaxResets, faults' \in 0 .. MaxFaults,
         ~failed' /\ n = 0 => IsClear(flash, 0) /\ buf = flash
  PROVE  Inv'
<1>1. /\ Types /\ Bounded /\ todo' = t /\ pc' = "add" /\ mlast' = Header
      /\ mirror' = WithHeader(buf) /\ nlast' = IF n # 0 THEN NV_NEEDS_ERASE ELSE 0
  BY DEF Inv, Continue, PrepareEmpty, elog_nv_needs_possible_erase
<1>2. /\ IsLog(mirror') /\ HeaderValid(mirror') /\ Run(mirror', Header, {Header})
      /\ \A a \in Cells : a >= Header => mirror'[a] = buf[a]
  BY <1>1, HeaderOnly
<1>3. t[1].type = "clear"
  BY DEF Clear
<1>4. Types'
  <2>1. DOMAIN mirror' = Cells
    BY <1>2 DEF IsLog
  <2>2. Header \in 0 .. LogSize /\ nlast' \in 0 .. LogSize \cup {NV_NEEDS_ERASE}
    BY <1>1, Sizes
  <2>3. erased' \in BOOLEAN
    BY <1>1 DEF Types, TypeOK
  <2>4. t \in Seq(Events \cup {ClearLog})
    BY DEF Plan
  <2>5. TypeOK'
    BY <1>1, <2>1, <2>2, <2>3, <2>4 DEF Types, TypeOK
  <2> QED BY <1>1, <1>2, <2>5 DEF Types, IsLog
<1>5. Bounded'
  BY <1>1, Sizes DEF Bounded, TopClear
<1>6. Header + 1 < full_threshold
  BY Sizes
<1>7. Calls'
  BY <1>1, <1>3, <1>6 DEF Calls
<1>8. Shape'
  BY <1>1, <1>2, RunStarts DEF Shape
<1>9. Trusted'
  <2>1. SUFFICES ASSUME ~failed', nlast' = 0
                 PROVE  IsClear(flash, 0) /\ IsClear(mirror', Header)
    BY <1>1, <1>3 DEF Trusted, IsClear
  <2>2. n = 0
    BY <1>1, <2>1, Sizes DEF NV_NEEDS_ERASE
  <2>3. IsClear(flash, 0) /\ buf = flash
    BY <2>1, <2>2
  <2>4. \A a \in Header .. LogSize - 1 : a \in Cells /\ a >= Header /\ a \in 0 .. LogSize - 1
    BY Sizes DEF Cells
  <2> QED BY <1>2, <2>3, <2>4 DEF IsClear
<1> QED BY <1>4, <1>5, <1>7, <1>8, <1>9 DEF Inv

\* The flash was read into the mirror and is valid.
LEMMA ValidStep ==
  ASSUME Inv, Valid(flash), mirror' = flash, mlast' = Scanned(flash),
         nlast' = Scanned(flash), NEW t, Plan(t), NoClear(t), Continue(t),
         flash' = flash, erased' = erased, ~erased, state' = "initialized",
         failed' = failed, resets' = resets, faults' = faults
  PROVE  Inv'
<1>1. Types /\ Bounded /\ IsLog(flash) /\ todo' = t
      /\ pc' = IF t = <<>> THEN "idle" ELSE "add"
  BY DEF Inv, Types, Continue
<1> DEFINE E == ScanEnd(flash)
<1>2. /\ HeaderValid(flash) /\ Scanned(flash) = E /\ IsClear(flash, E)
      /\ (\E D : Run(flash, E, D)) /\ E \in Header .. Limit
  BY <1>1, ValidIs, ScanLimit DEF Bounded
<1> HIDE DEF E
<1>3. E \in Nat /\ E \in 0 .. LogSize /\ E <= Limit /\ E # 0 /\ E # NV_NEEDS_ERASE
  BY <1>2, Sizes DEF NV_NEEDS_ERASE
<1>4. Types'
  <2>1. DOMAIN mirror' = Cells
    BY <1>1 DEF IsLog
  <2>2. t \in Seq(Events \cup {ClearLog})
    BY DEF Plan
  <2>3. TypeOK'
    BY <1>1, <1>2, <1>3, <2>1, <2>2 DEF Types, TypeOK
  <2> QED BY <1>1, <2>3 DEF Types, IsLog
<1>5. Bounded'
  BY <1>1, <1>2, <1>3 DEF Bounded, TopClear
<1>6. t # <<>> => t[1].type # "clear"
  <2>1. t # <<>> => 1 \in 1 .. Len(t)
    BY DEF Plan
  <2> QED BY <2>1 DEF NoClear
<1>7. Calls'
  BY <1>1, <1>2, <1>3, <1>6 DEF Calls
<1>8. Shape'
  BY <1>2 DEF Shape, HeaderValid, Run, Chained, EventAt
<1>9. Trusted'
  BY <1>1, <1>2, <1>3 DEF Trusted, IsClear
<1> QED BY <1>4, <1>5, <1>7, <1>8, <1>9 DEF Inv

LEMMA InitScanStep ==
  ASSUME Inv, InitScan
  PROVE  Inv'
<1>1. /\ Types /\ Bounded /\ Calls /\ pc = "scan" /\ state' = "initialized"
      /\ flash' = flash /\ erased' = erased /\ failed' = failed /\ resets' = resets
      /\ faults' = faults /\ ~erased
  BY DEF Inv, InitScan, Calls
<1>2. Plan(todo) /\ NoClear(todo) /\ Len(todo) = 1
  BY <1>1 DEF Calls
<1>3. PICK boot \in {<<>>, <<Boot>>} :
        \/ /\ Valid(flash)
           /\ mirror' = flash /\ mlast' = Scanned(flash) /\ nlast' = Scanned(flash)
           /\ Continue(boot \o todo)
        \/ /\ ~Valid(flash)
           /\ PrepareEmpty(flash, Scanned(flash))
           /\ Continue(<<Clear(total_event_space)>> \o boot \o todo)
  BY DEF InitScan
<1> DEFINE t1 == boot \o todo
           t2 == <<Clear(total_event_space)>> \o boot \o todo
<1>4. /\ Plan(t1) /\ NoClear(t1) /\ Plan(t2) /\ t2[1] = Clear(total_event_space)
      /\ t2 # <<>>
  BY <1>2, BootPlan
<1> HIDE DEF t1, t2
<1>5. CASE Valid(flash)
  <2>1. /\ mirror' = flash /\ mlast' = Scanned(flash) /\ nlast' = Scanned(flash)
        /\ Continue(t1)
    BY <1>3, <1>5 DEF t1
  <2> QED BY <1>1, <1>4, <1>5, <2>1, ValidStep
<1>6. CASE ~Valid(flash)
  <2>1. PrepareEmpty(flash, Scanned(flash)) /\ Continue(t2)
    BY <1>3, <1>6 DEF t2
  <2>2. IsLog(flash) /\ Scanned(flash) \in 0 .. LogSize \cup {NV_NEEDS_ERASE}
    BY <1>1, Sizes, ScanLimit DEF Types, Bounded
  <2>3. Scanned(flash) = 0 => IsClear(flash, 0)
    <3>1. ScanEnd(flash) # 0
      BY <2>2, Sizes, Scan
    <3> QED BY <3>1, Sizes DEF Scanned
  <2>4. failed' \in BOOLEAN /\ resets' \in 0 .. MaxResets /\ faults' \in 0 .. MaxFaults
    BY <1>1 DEF Types, TypeOK
  <2> DEFINE n == Scanned(flash)
  <2> HIDE DEF n
  <2>5. /\ PrepareEmpty(flash, n) /\ n \in 0 .. LogSize \cup {NV_NEEDS_ERASE}
        /\ (n = 0 => IsClear(flash, 0))
    BY <2>1, <2>2, <2>3 DEF n
  <2> QED BY <1>1, <1>4, <2>1, <2>2, <2>4, <2>5, EmptiedStep
<1> QED BY <1>5, <1>6

\* A reported error is counted and remembered.
LEMMA ReportIs ==
  ASSUME TypeOK, Report
  PROVE  failed' = TRUE /\ failed' \in BOOLEAN /\ faults' \in 0 .. MaxFaults
BY ElogAssumption DEF TypeOK, Report

LEMMA InitReadFailsStep ==
  ASSUME Inv, InitReadFails
  PROVE  Inv'
<1>1. /\ Types /\ Bounded /\ Calls /\ pc = "scan" /\ state' = "initialized" /\ Report
      /\ flash' = flash /\ erased' = erased /\ resets' = resets /\ ~erased
      /\ PrepareEmpty(mirror, nlast) /\ TypeOK /\ IsLog(mirror)
  BY DEF Inv, InitReadFails, Calls, Types
<1>2. Plan(todo) /\ NoClear(todo) /\ Len(todo) = 1
  BY <1>1 DEF Calls
<1>3. PICK boot \in {<<>>, <<Boot>>} :
        Continue(<<Clear(total_event_space)>> \o boot \o todo)
  BY DEF InitReadFails
<1> DEFINE t2 == <<Clear(total_event_space)>> \o boot \o todo
<1>4. Plan(t2) /\ t2[1] = Clear(total_event_space) /\ t2 # <<>> /\ Continue(t2)
  BY <1>2, <1>3, BootPlan
<1> HIDE DEF t2
<1>5. failed' = TRUE /\ failed' \in BOOLEAN /\ faults' \in 0 .. MaxFaults
  BY <1>1, ReportIs
<1>6. resets' \in 0 .. MaxResets /\ nlast \in 0 .. LogSize \cup {NV_NEEDS_ERASE}
  BY <1>1 DEF TypeOK
<1> QED BY <1>1, <1>4, <1>5, <1>6, EmptiedStep

LEMMA AddClearLogStep ==
  ASSUME Inv, AddClearLog
  PROVE  Inv'
<1>1. /\ Types /\ Bounded /\ Calls /\ Trusted /\ pc = "add" /\ Head(todo) = ClearLog
      /\ PrepareEmpty(mirror, nlast)
      /\ Continue(<<Clear(total_event_space)>> \o Tail(todo))
      /\ flash' = flash /\ erased' = erased /\ resets' = resets /\ ~erased
      /\ state' = state /\ failed' = failed /\ faults' = faults
      /\ TypeOK /\ IsLog(mirror)
  BY DEF Inv, AddClearLog, Calls, Types
<1>2. Plan(todo) /\ todo # <<>>
  BY <1>1 DEF Calls
<1>3. /\ Len(todo) \in 1 .. 3 /\ todo[1] = ClearLog /\ NoClear(Tail(todo))
      /\ Len(Tail(todo)) = Len(todo) - 1 /\ Tail(todo) \in Seq(Events \cup {ClearLog})
  BY <1>1, <1>2, PlanTail
<1> DEFINE t == <<Clear(total_event_space)>> \o Tail(todo)
<1>4. Plan(t) /\ t[1] = Clear(total_event_space) /\ t # <<>> /\ Len(t) = Len(Tail(todo)) + 1
  <2>1. total_event_space \in 0 .. LogSize
    BY Sizes DEF total_event_space
  <2>2. Len(Tail(todo)) <= 2
    BY <1>3
  <2> QED BY <1>3, <2>1, <2>2, ClearIs, PlanCons
<1>5. Len(t) = Len(todo)
  BY <1>3, <1>4
<1>6. Continue(t)
  BY <1>1
<1> HIDE DEF t
<1>7. state' \in {"initialized", "broken"} /\ (state' = "broken" => failed' /\ Len(t) = 1)
  BY <1>1, <1>5 DEF Calls, TypeOK
<1>8. ~failed' => nlast # 0
  <2>1. ClearLog.type # "clear"
    BY DEF ClearLog
  <2>2. ~failed => state = "initialized"
    BY <1>1 DEF Calls, TypeOK
  <2> QED BY <1>1, <1>3, <2>1, <2>2 DEF Trusted
<1>9. /\ failed' \in BOOLEAN /\ resets' \in 0 .. MaxResets /\ faults' \in 0 .. MaxFaults
      /\ nlast \in 0 .. LogSize \cup {NV_NEEDS_ERASE}
  BY <1>1 DEF TypeOK
<1> QED BY <1>1, <1>4, <1>6, <1>7, <1>8, <1>9, EmptiedStep

\* The event that is added next, and that it fits.
LEMMA AddFacts ==
  ASSUME Inv, pc = "add", Head(todo) # ClearLog
  PROVE  /\ todo # <<>> /\ Plan(todo) /\ Head(todo) = todo[1] /\ todo[1] \in Events
         /\ todo[1].len \in 1 .. MaxEvent /\ mlast + todo[1].len <= LogSize
         /\ mlast + todo[1].len <= mlast + MaxEvent
         /\ ~erased /\ state \in {"initialized", "broken"}
<1>1. Types /\ Bounded /\ Calls /\ TypeOK
  BY DEF Inv, Types
<1>2. Plan(todo) /\ todo # <<>> /\ ~erased /\ state \in {"initialized", "broken"}
  BY <1>1 DEF Calls, TypeOK
<1>3. Head(todo) = todo[1] /\ todo[1] \in Events
  BY <1>2, PlanTail
<1>4. PICK n \in 1 .. MaxEvent : todo[1].len = n
  BY <1>3, EventFacts
<1>5. mlast + n <= LogSize /\ mlast + n <= mlast + MaxEvent
  BY <1>1, <1>4, Numbers, Sizes
<1> QED BY <1>2, <1>3, <1>4, <1>5

LEMMA AddRefusedStep ==
  ASSUME Inv, AddRefused
  PROVE  Inv'
<1>1. /\ Types /\ Bounded /\ Calls /\ Shape /\ pc = "add" /\ Head(todo) # ClearLog
      /\ Continue(Tail(todo))
      /\ flash' = flash /\ mirror' = mirror /\ mlast' = mlast /\ nlast' = nlast
      /\ state' = state /\ erased' = erased /\ failed' = failed /\ resets' = resets
      /\ faults' = faults
  BY DEF Inv, AddRefused
<1>2. /\ todo # <<>> /\ Plan(todo) /\ Head(todo) = todo[1] /\ ~erased
      /\ mlast + Head(todo).len <= LogSize
  BY <1>1, AddFacts
<1>3. ~(mlast + Head(todo).len > LogSize)
  <2>1. mlast + todo[1].len \in Int
    <3>1. PICK n \in 1 .. MaxEvent : todo[1].len = n
      BY <1>1, AddFacts
    <3>2. mlast \in Nat
      BY <1>1, Numbers DEF Types
    <3> QED BY <3>1, <3>2, Sizes
  <2> QED BY <1>2, <2>1, Sizes
<1>4. state = "broken"
  BY <1>3 DEF AddRefused
<1>5. failed /\ Len(todo) = 1
  BY <1>1, <1>4 DEF Calls
<1>6. Plan(Tail(todo)) /\ Tail(todo) = <<>>
  BY <1>2, <1>5, PlanTail
<1>7. todo' = <<>> /\ pc' = "idle" /\ Plan(todo')
  BY <1>1, <1>6 DEF Continue
<1>8. Types' /\ Bounded'
  <2>1. todo' \in Seq(Events \cup {ClearLog})
    BY <1>7 DEF Plan
  <2>2. TypeOK'
    BY <1>1, <1>7, <2>1 DEF Types, TypeOK
  <2> QED BY <1>1, <2>2 DEF Types, IsLog, Bounded, TopClear
<1>9. Calls'
  BY <1>1, <1>2, <1>4, <1>5, <1>7 DEF Calls
<1>10. Shape'
  BY <1>1, <1>4 DEF Shape, Chained
<1>11. Trusted'
  BY <1>1, <1>4 DEF Trusted
<1> QED BY <1>8, <1>9, <1>10, <1>11 DEF Inv

\* The event goes to the mirror, and the flash is next.
LEMMA KeepStep ==
  ASSUME Inv, pc = "add", Head(todo) # ClearLog,
         ~(Head(todo).type = "clear" /\ state = "broken"),
         ~elog_should_shrink(mlast + Head(todo).len),
         mirror' = WithEvent(mirror, mlast, Head(todo)),
         mlast' = mlast + Head(todo).len,
         pc' = IF nlast = NV_NEEDS_ERASE THEN "erase" ELSE "write",
         nlast' = nlast, todo' = todo, flash' = flash, state' = state,
         erased' = erased, failed' = failed, resets' = resets, faults' = faults
  PROVE  Inv'
<1> DEFINE e == todo[1]
<1>1. Types /\ Bounded /\ Calls /\ Shape /\ Trusted /\ TypeOK /\ IsLog(mirror)
  BY DEF Inv, Types
<1>2. /\ todo # <<>> /\ Plan(todo) /\ Head(todo) = e /\ e \in Events /\ ~erased
      /\ state \in {"initialized", "broken"} /\ mlast + e.len <= LogSize
  BY AddFacts
<1>3. PICK n \in 1 .. MaxEvent : e.len = n
  BY AddFacts
<1>4. mlast \in Nat /\ mlast \in 0 .. LogSize /\ mlast <= Limit
  BY <1>1, Numbers DEF Bounded
<1>5. mlast' = mlast + n /\ mlast + n <= Limit /\ mlast + n \in 0 .. LogSize /\ n \in Nat
  <2>1. ~(mlast + n >= full_threshold)
    BY <1>2, <1>3 DEF elog_should_shrink
  <2> QED BY <1>2, <1>3, <1>4, <2>1, Sizes
<1>6. /\ IsLog(mirror')
      /\ \A a \in Cells : a < mlast \/ a >= mlast + n => mirror'[a] = mirror[a]
      /\ \A D : Chained(mirror, mlast, D) => Chained(mirror', mlast', D \cup {mlast'})
      /\ \A D : Run(mirror, mlast, D) => Run(mirror', mlast', D \cup {mlast'})
  <2> DEFINE b2 == WithEvent(mirror, mlast, e)
  <2>1. /\ IsLog(b2)
        /\ \A a \in Cells : a < mlast \/ a >= mlast + e.len => b2[a] = mirror[a]
        /\ \A D : Chained(mirror, mlast, D) =>
              Chained(b2, mlast + e.len, D \cup {mlast + e.len})
        /\ \A D : Run(mirror, mlast, D) => Run(b2, mlast + e.len, D \cup {mlast + e.len})
    BY <1>1, <1>2, <1>4, RunAppend
  <2>2. mirror' = b2
    BY <1>2
  <2> HIDE DEF b2, e
  <2> QED BY <1>3, <1>5, <2>1, <2>2
<1> HIDE DEF e
<1>7. Types'
  <2>1. DOMAIN mirror' = Cells
    BY <1>6 DEF IsLog
  <2>2. pc' \in {"idle", "scan", "add", "erase", "write", "rescan"}
    OBVIOUS
  <2>3. TypeOK'
    BY <1>1, <1>5, <2>1, <2>2 DEF TypeOK
  <2> QED BY <1>1, <1>6, <2>3 DEF Types, IsLog
<1>8. Bounded'
  <2>1. nlast # NV_NEEDS_ERASE => nlast <= mlast + n
    BY <1>1, <1>4, <1>5, Numbers
  <2> QED BY <1>1, <1>5, <2>1 DEF Bounded, TopClear
<1>9. nlast = NV_NEEDS_ERASE => state = "initialized"
  BY <1>1, <1>2 DEF Calls, e
<1>10. Calls'
  BY <1>1, <1>2, <1>9 DEF Calls
<1>11. state = "initialized" => HeaderValid(mirror') /\ \E D : Run(mirror', mlast', D)
  <2> SUFFICES ASSUME state = "initialized"
               PROVE  HeaderValid(mirror') /\ \E D : Run(mirror', mlast', D)
    OBVIOUS
  <2>1. PICK D : HeaderValid(mirror) /\ Run(mirror, mlast, D)
    BY <1>1 DEF Shape
  <2>2. mlast >= Header
    BY <1>4, <2>1, Sizes, RunStarts
  <2>3. \A a \in 0 .. Header - 1 : a \in Cells /\ a < mlast
    BY <1>4, <2>2, Sizes DEF Cells
  <2> QED BY <1>6, <2>1, <2>3 DEF HeaderValid
<1>12. Shape'
  <2>1. ASSUME state = "broken"
        PROVE  (\E D : Chained(mirror', mlast', D)) \/ mlast' <= Header + MaxEvent
    <3>1. CASE mlast <= Header
      <4>1. mlast + n <= Header + MaxEvent
        BY <1>3, <1>4, <3>1, Sizes
      <4> QED BY <1>5, <4>1
    <3>2. CASE \E D : Chained(mirror, mlast, D)
      BY <1>6, <3>2
    <3> QED BY <1>1, <2>1, <3>1, <3>2 DEF Shape
  <2>2. pc' # "add"
    OBVIOUS
  <2>3. state' = "initialized" => HeaderValid(mirror') /\ \E D : Run(mirror', mlast', D)
    BY <1>11
  <2>4. state' = "broken" => (\E D : Chained(mirror', mlast', D)) \/ mlast' <= Header + MaxEvent
    BY <2>1
  <2>5. HeaderValid(mirror') => HeaderValid(mirror)'
    BY DEF HeaderValid
  <2>6. \A D : Run(mirror', mlast', D) => Run(mirror, mlast, D)'
    BY DEF Run, Chained, EventAt
  <2>7. \A D : Chained(mirror', mlast', D) => Chained(mirror, mlast, D)'
    BY DEF Chained
  <2> QED BY <2>2, <2>3, <2>4, <2>5, <2>6, <2>7 DEF Shape
<1>13. Trusted'
  <2> SUFFICES ASSUME ~failed, state = "initialized", nlast # NV_NEEDS_ERASE
               PROVE  /\ \A a \in Cells : flash[a] = IF a < nlast THEN mirror'[a] ELSE Eol
                      /\ IsClear(mirror', mlast')
    BY DEF Trusted, IsClear
  <2>1. IsClear(mirror, mlast)
    BY <1>1 DEF Trusted
  <2>2. \A a \in mlast + n .. LogSize - 1 :
          a \in Cells /\ a >= mlast + n /\ a \in mlast .. LogSize - 1
    BY <1>4, <1>5, Sizes DEF Cells
  <2>3. IsClear(mirror', mlast')
    BY <1>5, <1>6, <2>1, <2>2 DEF IsClear
  <2>4. \A a \in Cells : ~(a < 0) /\ a \in 0 .. LogSize - 1
                         /\ (~(a < mlast) => a \in mlast .. LogSize - 1)
    BY <1>4, Sizes DEF Cells
  <2>5. CASE nlast = 0
    <3>1. IsClear(flash, 0)
      BY <1>1, <2>5 DEF Trusted
    <3> QED BY <2>3, <2>4, <2>5, <3>1 DEF IsClear
  <2>6. CASE nlast # 0
    <3>1. flash = mirror /\ nlast = mlast
      BY <1>1, <2>6 DEF Trusted
    <3> QED BY <1>6, <2>1, <2>3, <2>4, <3>1 DEF IsClear
  <2> QED BY <2>5, <2>6
<1> QED BY <1>7, <1>8, <1>10, <1>12, <1>13 DEF Inv

\* The mirror is full: its oldest events are dropped and the clear event follows.
LEMMA ShrinkStep ==
  ASSUME Inv, pc = "add", Head(todo) # ClearLog, NEW buf,
         buf = WithEvent(mirror, mlast, Head(todo)),
         elog_should_shrink(mlast + Head(todo).len),
         nlast' = elog_nv_needs_possible_erase(nlast),
         mirror' = Moved(buf, mlast + Head(todo).len, ShrinkOffset(buf)),
         mlast' = Remaining(mlast + Head(todo).len, ShrinkOffset(buf)),
         Continue(<<Clear(ShrunkSize(ShrinkOffset(buf)))>> \o Tail(todo)),
         flash' = flash, state' = state, erased' = erased, failed' = failed,
         resets' = resets, faults' = faults
  PROVE  Inv'
<1> DEFINE e == todo[1]
           offset == ShrinkOffset(buf)
<1>1. Types /\ Bounded /\ Calls /\ Shape /\ Trusted /\ TypeOK /\ IsLog(mirror)
  BY DEF Inv, Types
<1>2. /\ todo # <<>> /\ Plan(todo) /\ Head(todo) = e /\ e \in Events /\ ~erased
      /\ state \in {"initialized", "broken"} /\ mlast + e.len <= LogSize
  BY AddFacts
<1>3. PICK n \in 1 .. MaxEvent : e.len = n
  BY AddFacts
<1>4. mlast \in Nat /\ mlast \in 0 .. LogSize /\ mlast <= Limit
  BY <1>1, Numbers DEF Bounded
<1> DEFINE m == mlast + n
<1>5. m \in Nat /\ m <= LogSize /\ m >= full_threshold /\ m > Limit /\ m <= Limit + MaxEvent
      /\ m > ShrinkSize /\ m \in Header .. LogSize
  <2>1. mlast + n >= full_threshold /\ mlast + n <= LogSize
    BY <1>2, <1>3 DEF elog_should_shrink
  <2> QED BY <1>3, <1>4, <2>1, Sizes
<1>6. /\ IsLog(buf)
      /\ \A D : Chained(mirror, mlast, D) => Chained(buf, m, D \cup {m})
      /\ \A D : Run(mirror, mlast, D) => Run(buf, m, D \cup {m})
  <2>1. /\ IsLog(WithEvent(mirror, mlast, e))
        /\ \A D : Chained(mirror, mlast, D) =>
              Chained(WithEvent(mirror, mlast, e), mlast + e.len, D \cup {mlast + e.len})
        /\ \A D : Run(mirror, mlast, D) =>
              Run(WithEvent(mirror, mlast, e), mlast + e.len, D \cup {mlast + e.len})
    BY <1>1, <1>2, <1>4, RunAppend
  <2>2. buf = WithEvent(mirror, mlast, e)
    BY <1>2
  <2> HIDE DEF e
  <2> QED BY <1>3, <2>1, <2>2
<1>7. e.type # "clear" /\ nlast # NV_NEEDS_ERASE
  <2>1. ~(mlast + 1 < full_threshold) \/ n # 1
    BY <1>4, <1>5, Sizes
  <2>2. e.type = "clear" => n = 1
    BY <1>2, <1>3, ClearLength
  <2> QED BY <1>1, <2>1, <2>2 DEF Calls
<1>8. Len(todo) \in 1 .. 2
  <2>1. Len(todo) \in 1 .. 3
    BY <1>2, PlanTail
  <2>2. Len(todo) # 3
    BY <1>2, <1>7 DEF Plan, Clear
  <2>3. \A i \in 1 .. 3 : i # 3 => i \in 1 .. 2
    OBVIOUS
  <2> QED BY <2>1, <2>2, <2>3, Zenon
<1>9. /\ mirror' = Moved(buf, m, offset) /\ mlast' = Remaining(m, offset)
      /\ Continue(<<Clear(ShrunkSize(offset))>> \o Tail(todo))
  BY <1>2, <1>3
<1> HIDE DEF e, offset, m
<1>10. PICK D : Chained(buf, m, D) /\ (state = "initialized" => Run(buf, m, D))
  <2>1. CASE state = "initialized"
    <3>1. PICK D0 : Run(mirror, mlast, D0)
      BY <1>1, <2>1 DEF Shape
    <3>2. Run(buf, m, D0 \cup {m})
      BY <1>6, <3>1
    <3> QED BY <3>2, RunStarts
  <2>2. CASE state = "broken"
    <3>1. ~(mlast <= Header)
      BY <1>3, <1>4, <1>5, Sizes DEF m
    <3>2. PICK D0 : Chained(mirror, mlast, D0)
      BY <1>1, <2>2, <3>1 DEF Shape
    <3> QED BY <1>6, <2>2, <3>2
  <2> QED BY <1>2, <2>1, <2>2
<1>11. offset \in D /\ offset \in ShrinkSize + 1 .. m
  BY <1>5, <1>6, <1>10, Shrinks DEF offset
<1> DEFINE k == Header + m - offset
<1>12. /\ IsLog(mirror') /\ HeaderValid(mirror') /\ k \in Header .. m
       /\ \E D2 : Chained(mirror', k, D2)
       /\ state = "initialized" => \E D2 : Run(mirror', k, D2)
  BY <1>5, <1>6, <1>9, <1>10, <1>11, RunMoved
<1>13. mlast' = k /\ k \in Nat /\ k + 1 < full_threshold /\ k <= Limit /\ k \in 0 .. LogSize
       /\ offset - Header \in 0 .. LogSize
  <2>1. mlast' = k
    BY <1>9 DEF Remaining
  <2>2. offset \in Nat /\ offset >= ShrinkSize + 1 /\ offset <= m
    BY <1>5, <1>11, Sizes
  <2> QED BY <1>5, <2>1, <2>2, Sizes
<1> HIDE DEF k
<1> DEFINE c == Clear(offset - Header)
           t == <<c>> \o Tail(todo)
<1>14. c \in Events /\ c.type = "clear"
  BY <1>13, ClearIs
<1>15. /\ NoClear(Tail(todo)) /\ Len(Tail(todo)) = Len(todo) - 1
       /\ Tail(todo) \in Seq(Events \cup {ClearLog})
  BY <1>2, PlanTail
<1>16. Plan(t) /\ t[1] = c /\ t # <<>> /\ Len(t) = Len(todo)
  <2>1. Len(Tail(todo)) <= 2 /\ Len(Tail(todo)) # 2
    <3>1. \A i \in 1 .. 2 : i - 1 <= 2 /\ i - 1 # 2
      OBVIOUS
    <3> QED BY <1>8, <1>15, <3>1, Zenon
  <2> HIDE DEF c
  <2>2. Plan(t) /\ t[1] = c /\ t # <<>> /\ Len(t) = Len(Tail(todo)) + 1
    BY <1>14, <1>15, <2>1, PlanCons
  <2> HIDE DEF t
  <2>3. Len(t) = Len(todo)
    BY <1>8, <1>15, <2>2
  <2> QED BY <2>2, <2>3
<1>17. todo' = t /\ pc' = "add"
  <2>1. Continue(t)
    BY <1>9 DEF ShrunkSize
  <2> HIDE DEF t
  <2> QED BY <1>16, <2>1 DEF Continue
<1> HIDE DEF c, t
<1>18. todo' # <<>> /\ Plan(todo') /\ todo'[1].type = "clear" /\ Len(todo') = Len(todo)
  BY <1>14, <1>16, <1>17
<1>19. nlast' \in {0, NV_NEEDS_ERASE} /\ (nlast' = 0 => nlast = 0)
  BY Sizes DEF elog_nv_needs_possible_erase, NV_NEEDS_ERASE
<1>20. Types'
  <2>1. DOMAIN mirror' = Cells
    BY <1>12 DEF IsLog
  <2>2. nlast' \in 0 .. LogSize \cup {NV_NEEDS_ERASE} /\ mlast' \in 0 .. LogSize
    BY <1>13, <1>19, Sizes
  <2>3. todo' \in Seq(Events \cup {ClearLog})
    BY <1>18 DEF Plan
  <2>4. TypeOK'
    BY <1>1, <1>17, <2>1, <2>2, <2>3 DEF TypeOK
  <2> QED BY <1>1, <1>12, <2>4 DEF Types, IsLog
<1>21. Bounded'
  <2>1. mlast' <= Limit /\ (nlast' # NV_NEEDS_ERASE => nlast' <= mlast')
    BY <1>13, <1>19
  <2> QED BY <1>1, <2>1 DEF Bounded, TopClear
<1>22. mlast' + 1 < full_threshold
  BY <1>13
<1>23. Calls'
  <2>1. state = "broken" => failed /\ Len(todo) = 1
    BY <1>1 DEF Calls
  <2> QED BY <1>2, <1>17, <1>18, <1>22, <2>1 DEF Calls
<1>24. Shape'
  <2>1. HeaderValid(mirror') => HeaderValid(mirror)'
    BY DEF HeaderValid
  <2>2. \A D2 : Run(mirror', mlast', D2) => Run(mirror, mlast, D2)'
    BY DEF Run, Chained, EventAt
  <2>3. \A D2 : Chained(mirror', mlast', D2) => Chained(mirror, mlast, D2)'
    BY DEF Chained
  <2> QED BY <1>12, <1>13, <2>1, <2>2, <2>3 DEF Shape
<1>25. ~failed /\ state = "initialized" => nlast' # 0
  BY <1>1, <1>7, <1>19 DEF Trusted, e
<1>26. Trusted'
  BY <1>17, <1>19, <1>25 DEF Trusted
<1> QED BY <1>20, <1>21, <1>23, <1>24, <1>26 DEF Inv

LEMMA AddEventStep ==
  ASSUME Inv, AddEvent
  PROVE  Inv'
<1> DEFINE buf == WithEvent(mirror, mlast, Head(todo))
           m == mlast + Head(todo).len
           offset == ShrinkOffset(buf)
<1>1. /\ pc = "add" /\ Head(todo) # ClearLog
      /\ ~(Head(todo).type = "clear" /\ state = "broken")
      /\ flash' = flash /\ state' = state /\ erased' = erased /\ failed' = failed
      /\ resets' = resets /\ faults' = faults
  BY DEF AddEvent
<1>2. CASE /\ elog_should_shrink(m)
           /\ nlast' = elog_nv_needs_possible_erase(nlast)
           /\ mirror' = Moved(buf, m, offset)
           /\ mlast' = Remaining(m, offset)
           /\ Continue(<<Clear(ShrunkSize(offset))>> \o Tail(todo))
  <2> DEFINE b == buf
  <2>1. b = WithEvent(mirror, mlast, Head(todo))
    OBVIOUS
  <2>2. /\ elog_should_shrink(mlast + Head(todo).len)
        /\ nlast' = elog_nv_needs_possible_erase(nlast)
        /\ mirror' = Moved(b, mlast + Head(todo).len, ShrinkOffset(b))
        /\ mlast' = Remaining(mlast + Head(todo).len, ShrinkOffset(b))
        /\ Continue(<<Clear(ShrunkSize(ShrinkOffset(b)))>> \o Tail(todo))
    BY <1>2
  <2> HIDE DEF b
  <2> QED BY <1>1, <2>1, <2>2, ShrinkStep
<1>3. CASE /\ ~elog_should_shrink(m)
           /\ mirror' = buf /\ mlast' = m
           /\ pc' = IF nlast = NV_NEEDS_ERASE THEN "erase" ELSE "write"
           /\ UNCHANGED <<nlast, todo>>
  <2>1. nlast' = nlast /\ todo' = todo
    BY <1>3
  <2> QED BY <1>1, <1>3, <2>1, KeepStep
<1> QED BY <1>2, <1>3 DEF AddEvent

LEMMA EraseNvStep ==
  ASSUME Inv, EraseNv
  PROVE  Inv'
<1>1. /\ Types /\ Bounded /\ Calls /\ Shape /\ TypeOK /\ IsLog(flash) /\ IsLog(mirror)
      /\ TopClear(flash) /\ pc = "erase" /\ nlast' = 0 /\ erased' = TRUE /\ pc' = "write"
      /\ mirror' = mirror /\ mlast' = mlast /\ state' = state /\ todo' = todo
      /\ resets' = resets
  BY DEF Inv, Types, Bounded, EraseNv, volatile
<1>2. /\ mlast \in 0 .. Limit /\ mlast \in Nat /\ nlast' <= mlast
      /\ nlast' \in 0 .. LogSize \cup {NV_NEEDS_ERASE} /\ nlast' # NV_NEEDS_ERASE
  BY <1>1, Numbers, Sizes DEF NV_NEEDS_ERASE
<1>3. /\ IsLog(flash') /\ TopClear(flash') /\ failed' \in BOOLEAN
      /\ faults' \in 0 .. MaxFaults
      /\ ~failed' => \A a \in Cells : flash'[a] = Eol
  <2>1. CASE flash' = Erased(Cells) /\ UNCHANGED <<failed, faults>>
    <3>1. IsLog(Erased(Cells)) /\ TopClear(Erased(Cells))
      BY <1>1, <1>2, FlashOps
    <3>2. \A a \in Cells : Erased(Cells)[a] = Eol
      BY DEF Erased
    <3> QED BY <1>1, <2>1, <3>1, <3>2 DEF TypeOK
  <2>2. CASE PartlyErased /\ Report
    <3>1. \A S : IsLog(Erased(S)) /\ TopClear(Erased(S))
      BY <1>1, <1>2, FlashOps
    <3>2. IsLog(flash') /\ TopClear(flash')
      BY <1>1, <2>2, <3>1 DEF PartlyErased
    <3> QED BY <1>1, <2>2, <3>2, ReportIs
  <2> QED BY <2>1, <2>2 DEF EraseNv
<1>4. Types'
  <2>1. DOMAIN flash' = Cells
    BY <1>3 DEF IsLog
  <2>2. erased' \in BOOLEAN
    BY <1>1
  <2>3. TypeOK'
    BY <1>1, <1>2, <1>3, <2>1, <2>2 DEF TypeOK
  <2> QED BY <1>1, <1>3, <2>3 DEF Types, IsLog
<1>5. Bounded'
  BY <1>1, <1>2, <1>3 DEF Bounded, TopClear
<1>6. Calls'
  BY <1>1, <1>2 DEF Calls
<1>7. Shape'
  BY <1>1 DEF Shape, Calls, HeaderValid, Run, Chained, EventAt
<1>8. Trusted'
  <2>1. \A a \in Cells : ~(a < 0)
    BY Sizes DEF Cells
  <2> QED BY <1>1, <1>3, <2>1 DEF Trusted
<1> QED BY <1>4, <1>5, <1>6, <1>7, <1>8 DEF Inv

\* A region that was written without an error is in the flash.
LEMMA WrittenIs ==
  ASSUME IsLog(flash), IsLog(mirror), mlast \in Nat, nlast \in 0 .. mlast,
         \A a \in Cells : flash[a] = IF a < nlast THEN mirror[a] ELSE Eol
  PROVE  \A a \in Cells : Written(mlast - nlast)[a] = IF a < mlast THEN mirror[a] ELSE Eol
<1> TAKE a \in Cells
<1>1. a \in Nat /\ nlast \in Nat /\ nlast + (mlast - nlast) - 1 = mlast - 1
  BY Sizes DEF Cells
<1>2. Written(mlast - nlast)[a] =
        IF a \in nlast .. nlast + (mlast - nlast) - 1
        THEN Program(flash[a], mirror[a]) ELSE flash[a]
  BY DEF Written
<1>3. CASE a < nlast
  <2>1. a \notin nlast .. mlast - 1 /\ a < mlast
    BY <1>1, <1>3
  <2> QED BY <1>1, <1>2, <1>3, <2>1
<1>4. CASE ~(a < nlast) /\ a < mlast
  <2>1. a \in nlast .. mlast - 1
    BY <1>1, <1>4
  <2>2. flash[a] = Eol /\ Program(Eol, mirror[a]) = mirror[a]
    BY <1>4 DEF Program
  <2> QED BY <1>1, <1>2, <1>4, <2>1, <2>2
<1>5. CASE ~(a < mlast)
  <2>1. a \notin nlast .. mlast - 1 /\ ~(a < nlast)
    BY <1>1, <1>5
  <2> QED BY <1>1, <1>2, <1>5, <2>1
<1> QED BY <1>3, <1>4, <1>5

LEMMA WriteNvStep ==
  ASSUME Inv, WriteNv
  PROVE  Inv'
<1>1. /\ Types /\ Bounded /\ Calls /\ Shape /\ Trusted /\ TypeOK /\ IsLog(flash)
      /\ IsLog(mirror) /\ TopClear(flash) /\ pc = "write" /\ nlast' = mlast
      /\ erased' = FALSE /\ mirror' = mirror /\ mlast' = mlast /\ state' = state
      /\ resets' = resets
  BY DEF Inv, Types, Bounded, WriteNv
<1>2. /\ mlast \in 0 .. Limit /\ mlast \in Nat /\ mlast \in 0 .. LogSize
      /\ nlast \in 0 .. mlast /\ mlast # NV_NEEDS_ERASE
  BY <1>1, Numbers DEF Calls
<1>3. /\ IsLog(flash') /\ TopClear(flash') /\ failed' \in BOOLEAN
      /\ faults' \in 0 .. MaxFaults
      /\ ~failed' => ~failed /\ flash' = Written(mlast - nlast)
      /\ failed => failed'
  <2>1. CASE flash' = Written(mlast - nlast) /\ UNCHANGED <<failed, faults>>
    <3>1. IsLog(Written(mlast - nlast)) /\ TopClear(Written(mlast - nlast))
      BY <1>1, <1>2, FlashOps
    <3> QED BY <1>1, <2>1, <3>1 DEF TypeOK
  <2>2. CASE /\ \E n \in 0 .. mlast - nlast - 1 : flash' \in TornWrites(n)
             /\ Report
    <3>1. IsLog(flash') /\ TopClear(flash')
      BY <1>1, <1>2, <2>2, FlashOps
    <3> QED BY <1>1, <2>2, <3>1, ReportIs
  <2> QED BY <2>1, <2>2 DEF WriteNv
<1>4. Plan(todo) /\ todo # <<>> /\ state \in {"initialized", "broken"}
  BY <1>1 DEF Calls, TypeOK
<1>5. /\ Plan(Tail(todo)) /\ NoClear(Tail(todo)) /\ Tail(todo) \in Seq(Events \cup {ClearLog})
      /\ Len(todo) = 1 => Tail(todo) = <<>>
  BY <1>4, PlanTail
<1>6. \/ erased /\ pc' = "rescan" /\ todo' = todo
      \/ ~erased /\ todo' = Tail(todo) /\ pc' = IF Tail(todo) = <<>> THEN "idle" ELSE "add"
  BY DEF WriteNv, Continue
<1>7. Types' /\ Bounded'
  <2>1. DOMAIN flash' = Cells
    BY <1>3 DEF IsLog
  <2>2. todo' \in Seq(Events \cup {ClearLog}) /\ erased' \in BOOLEAN
        /\ pc' \in {"idle", "scan", "add", "erase", "write", "rescan"}
    BY <1>1, <1>5, <1>6 DEF TypeOK
  <2>3. TypeOK'
    BY <1>1, <1>2, <1>3, <2>1, <2>2 DEF TypeOK
  <2>4. Types'
    BY <1>1, <1>3, <2>3 DEF Types, IsLog
  <2>5. Bounded'
    BY <1>1, <1>2, <1>3 DEF Bounded, TopClear
  <2> QED BY <2>4, <2>5
<1>8. Tail(todo) # <<>> => Tail(todo)[1].type # "clear"
  <2>1. Tail(todo) # <<>> => 1 \in 1 .. Len(Tail(todo))
    BY <1>5
  <2> QED BY <1>5, <2>1 DEF NoClear
<1>9. Calls'
  <2>1. CASE erased
    BY <1>1, <1>2, <1>4, <1>6, <2>1 DEF Calls
  <2>2. CASE ~erased
    <3>1. state = "broken" => Tail(todo) = <<>> /\ failed'
      BY <1>1, <1>3, <1>5 DEF Calls
    <3> QED BY <1>1, <1>2, <1>4, <1>5, <1>6, <1>8, <2>2, <3>1 DEF Calls
  <2> QED BY <2>1, <2>2
<1>10. Shape'
  <2>1. state = "broken" => pc' # "add"
    BY <1>1, <1>5, <1>6 DEF Calls
  <2> QED BY <1>1, <2>1 DEF Shape, HeaderValid, Run, Chained, EventAt
<1>11. Trusted'
  <2> SUFFICES ASSUME ~failed', state = "initialized" PROVE Trusted'
    BY <1>1 DEF Trusted
  <2>1. ~failed /\ flash' = Written(mlast - nlast)
    BY <1>3
  <2>2. /\ \A a \in Cells : flash[a] = IF a < nlast THEN mirror[a] ELSE Eol
        /\ ~erased => IsClear(mirror, mlast)
    BY <1>1, <2>1 DEF Trusted
  <2>3. \A a \in Cells : flash'[a] = IF a < mlast THEN mirror[a] ELSE Eol
    BY <1>1, <1>2, <2>1, <2>2, WrittenIs
  <2>4. PICK D : HeaderValid(mirror) /\ Run(mirror, mlast, D)
    BY <1>1 DEF Shape
  <2>5. mlast >= Header /\ mlast # 0 /\ mlast \in Header .. LogSize
    BY <1>2, <2>4, Sizes, RunStarts
  <2>6. \A a \in mlast .. LogSize - 1 : a \in Cells /\ ~(a < mlast)
    BY <1>2, Sizes DEF Cells
  <2>7. CASE erased
    <3>1. Run(flash', mlast, D)
      BY <1>1, <2>3, <2>4, <2>5, RunLocal
    <3>2. \A a \in 0 .. Header - 1 : a \in Cells /\ a < mlast
      BY <1>2, <2>5, Sizes DEF Cells
    <3>3. HeaderValid(flash') /\ IsClear(flash', mlast)
      BY <2>3, <2>4, <2>6, <3>2 DEF HeaderValid, IsClear
    <3> QED BY <1>1, <1>6, <2>7, <3>1, <3>3
            DEF Trusted, HeaderValid, IsClear, Run, Chained, EventAt
  <2>8. CASE ~erased
    <3>1. \A a \in Cells : ~(a < mlast) => a \in mlast .. LogSize - 1
      BY <1>2, Sizes DEF Cells
    <3>2. \A a \in Cells : flash'[a] = mirror[a]
      BY <2>2, <2>3, <2>8, <3>1 DEF IsClear
    <3>3. flash' = mirror
      BY <1>1, <1>3, <3>2 DEF IsLog
    <3> QED BY <1>1, <1>6, <2>2, <2>5, <2>8, <3>3 DEF Trusted, IsClear
  <2> QED BY <2>7, <2>8
<1> QED BY <1>7, <1>9, <1>10, <1>11 DEF Inv

LEMMA RescanStep ==
  ASSUME Inv, Rescan
  PROVE  Inv'
<1>1. /\ Calls /\ TypeOK /\ pc = "rescan" /\ Valid(flash) /\ mirror' = flash
      /\ mlast' = Scanned(flash) /\ nlast' = Scanned(flash) /\ Continue(Tail(todo))
      /\ flash' = flash /\ state' = state /\ erased' = erased /\ failed' = failed
      /\ resets' = resets /\ faults' = faults
  BY DEF Inv, Types, Rescan
<1>2. Plan(todo) /\ todo # <<>> /\ ~erased /\ state = "initialized"
  BY <1>1 DEF Calls
<1>3. Plan(Tail(todo)) /\ NoClear(Tail(todo))
  BY <1>2, PlanTail
<1> QED BY <1>1, <1>2, <1>3, ValidStep

\* The scan of a flash that was written without an error succeeds.
LEMMA RescanSucceeds ==
  ASSUME Inv, pc = "rescan", ~Valid(flash)
  PROVE  failed
<1> SUFFICES ASSUME ~failed PROVE FALSE
  OBVIOUS
<1>1. Types /\ Bounded /\ Trusted /\ TypeOK /\ IsLog(flash) /\ state = "initialized"
  BY DEF Inv, Types, Calls
<1>2. PICK D : HeaderValid(flash) /\ IsClear(flash, mlast) /\ Run(flash, mlast, D)
  BY <1>1 DEF Trusted
<1>3. mlast \in Header .. LogSize - 1
  <2>1. mlast \in Nat /\ mlast <= Limit
    BY <1>1, Numbers DEF Bounded
  <2>2. mlast \in Header .. mlast
    BY <1>2, RunStarts
  <2> QED BY <2>1, <2>2, Sizes
<1> QED BY <1>1, <1>2, <1>3, GoodLog

LEMMA RescanFailsStep ==
  ASSUME Inv, RescanFails
  PROVE  Inv'
<1>1. /\ Types /\ Bounded /\ Calls /\ Shape /\ TypeOK /\ IsLog(flash) /\ IsLog(mirror)
      /\ TopClear(flash) /\ pc = "rescan" /\ state' = "broken" /\ flash' = flash
      /\ erased' = erased /\ resets' = resets
      /\ Continue(IF Head(todo) = Clear(total_event_space) THEN <<>> ELSE Tail(todo))
  BY DEF Inv, Types, Bounded, RescanFails, Broken
<1>2. Plan(todo) /\ todo # <<>> /\ ~erased /\ state = "initialized" /\ nlast = mlast
  BY <1>1 DEF Calls
<1>3. /\ Plan(Tail(todo)) /\ NoClear(Tail(todo)) /\ Len(Tail(todo)) = Len(todo) - 1
      /\ Len(todo) \in 1 .. 3 /\ Head(todo) = todo[1]
      /\ Tail(todo) \in Seq(Events \cup {ClearLog})
  BY <1>2, PlanTail
<1> DEFINE t == IF Head(todo) = Clear(total_event_space) THEN <<>> ELSE Tail(todo)
<1>4. Plan(t) /\ NoClear(t) /\ (t # <<>> => Len(t) = 1)
  <2>1. CASE t = <<>>
    <3>1. <<>> \in Seq(Events \cup {ClearLog}) /\ Len(<<>>) = 0
      OBVIOUS
    <3> HIDE DEF t
    <3> QED BY <2>1, <3>1 DEF Plan, NoClear
  <2>2. CASE t # <<>>
    <3>1. Head(todo) # Clear(total_event_space) /\ t = Tail(todo)
      BY <2>2
    <3>2. Len(todo) # 3
      BY <1>2, <1>3, <3>1 DEF Plan
    <3>3. Len(t) # 0
      <4>1. t \in Seq(Events \cup {ClearLog})
        BY <1>3, <3>1
      <4> HIDE DEF t
      <4> QED BY <2>2, <4>1, EmptySeq
    <3>4. \A i \in 1 .. 3 : i # 3 /\ i - 1 # 0 => i - 1 = 1
      OBVIOUS
    <3> HIDE DEF t
    <3>5. Len(t) = 1
      BY <1>3, <3>1, <3>2, <3>3, <3>4, Zenon
    <3> QED BY <1>3, <3>1, <3>5
  <2> QED BY <2>1, <2>2
<1>5. todo' = t /\ pc' = IF t = <<>> THEN "idle" ELSE "add"
  BY <1>1 DEF Continue
<1> HIDE DEF t
<1>6. t # <<>> => t[1].type # "clear"
  <2>1. t # <<>> => 1 \in 1 .. Len(t)
    BY <1>4
  <2> QED BY <1>4, <2>1 DEF NoClear
<1>7. mlast \in Nat /\ mlast \in 0 .. Limit
  BY <1>1, Numbers
<1>8. /\ failed' = TRUE /\ faults' \in 0 .. MaxFaults /\ IsLog(mirror')
      /\ mlast' \in 0 .. Limit /\ nlast' = mlast'
      /\ mlast' <= Header \/ \E D : Chained(mirror', mlast', D)
  <2>1. CASE /\ ~Valid(flash)
             /\ mirror' = flash /\ mlast' = Scanned(flash) /\ nlast' = Scanned(flash)
             /\ UNCHANGED <<failed, faults>>
    <3>1. failed
      BY <1>1, <2>1, RescanSucceeds
    <3>2. failed' = TRUE /\ faults' \in 0 .. MaxFaults
      BY <1>1, <2>1, <3>1 DEF TypeOK
    <3>3. Scanned(flash) \in 0 .. Limit
      BY <1>1, ScanLimit
    <3>4. \E D : Chained(flash, ScanEnd(flash), D)
      BY <1>1, Scan, RunStarts
    <3>5. Scanned(flash) <= Header \/ Scanned(flash) = ScanEnd(flash)
      BY Sizes DEF Scanned
    <3> QED BY <1>1, <2>1, <3>2, <3>3, <3>4, <3>5
  <2>2. CASE /\ Report
             /\ mirror' = [a \in Cells |-> Bad] /\ UNCHANGED <<mlast, nlast>>
    <3>1. mlast \in Header .. LogSize
      <4>1. mlast \in Header .. mlast
        BY <1>1, <1>2, RunStarts DEF Shape
      <4> QED BY <1>7, <4>1, Sizes
    <3>2. IsLog(mirror') /\ Chained(mirror', mlast, Header .. mlast)
      BY <2>2, <3>1, AllBad
    <3> QED BY <1>1, <1>2, <1>7, <2>2, <3>2, ReportIs
  <2> QED BY <2>1, <2>2 DEF RescanFails
<1>9. mlast' \in Nat /\ mlast' \in 0 .. LogSize /\ mlast' <= Limit /\ mlast' # NV_NEEDS_ERASE
  BY <1>8, Sizes DEF NV_NEEDS_ERASE
<1>10. Types' /\ Bounded'
  <2>1. DOMAIN mirror' = Cells
    BY <1>8 DEF IsLog
  <2>2. failed' \in BOOLEAN /\ todo' \in Seq(Events \cup {ClearLog})
    BY <1>4, <1>5, <1>8 DEF Plan
  <2>3. pc' \in {"idle", "scan", "add", "erase", "write", "rescan"}
    BY <1>5
  <2>4. TypeOK'
    BY <1>1, <1>8, <1>9, <2>1, <2>2, <2>3 DEF TypeOK
  <2>5. Types'
    BY <1>1, <1>8, <2>4 DEF Types, IsLog
  <2>6. Bounded'
    BY <1>1, <1>8, <1>9 DEF Bounded, TopClear
  <2> QED BY <2>5, <2>6
<1>11. Calls'
  BY <1>1, <1>2, <1>4, <1>5, <1>6, <1>8, <1>9 DEF Calls
<1>12. Shape'
  BY <1>1, <1>8 DEF Shape, Chained
<1>13. Trusted'
  BY <1>1 DEF Trusted
<1> QED BY <1>10, <1>11, <1>12, <1>13 DEF Inv

LEMMA ResetStep ==
  ASSUME Inv, Reset
  PROVE  Inv'
<1>1. /\ Types /\ Bounded /\ Calls /\ TypeOK /\ IsLog(flash) /\ IsLog(mirror)
      /\ TopClear(flash) /\ CutFlash /\ mirror' = [a \in Cells |-> Bad]
      /\ mlast' = 0 /\ nlast' = 0 /\ state' = "uninitialized" /\ pc' = "idle"
      /\ todo' = <<>> /\ erased' = FALSE /\ failed' = FALSE /\ faults' = faults
  BY DEF Inv, Types, Bounded, Reset
<1>2. resets' \in 0 .. MaxResets
  BY <1>1, ElogAssumption DEF TypeOK, Reset
<1>3. IsLog(flash') /\ TopClear(flash')
  <2>1. mlast \in 0 .. Limit
    BY <1>1, Numbers
  <2>2. \A S : IsLog(Erased(S)) /\ TopClear(Erased(S))
    BY <1>1, <2>1, FlashOps
  <2>3. ASSUME pc = "write", NEW n \in 0 .. mlast - nlast - 1, flash' \in TornWrites(n)
        PROVE  IsLog(flash') /\ TopClear(flash')
    <3>1. nlast \in 0 .. mlast
      BY <1>1, <2>3, Numbers DEF Calls
    <3> QED BY <1>1, <2>1, <2>3, <3>1, FlashOps
  <2> QED BY <1>1, <2>2, <2>3 DEF CutFlash, PartlyErased
<1>4. <<>> \in Seq(Events \cup {ClearLog}) /\ Len(<<>>) = 0
  OBVIOUS
<1>5. Types'
  <2>1. DOMAIN flash' = Cells /\ DOMAIN mirror' = Cells
    BY <1>1, <1>3 DEF IsLog
  <2>2. 0 \in 0 .. LogSize
    BY Sizes
  <2>3. erased' \in BOOLEAN /\ failed' \in BOOLEAN
    BY <1>1
  <2>4. TypeOK'
    BY <1>1, <1>2, <1>4, <2>1, <2>2, <2>3 DEF TypeOK
  <2>5. IsLog(mirror')
    BY <1>1, AllBad
  <2> QED BY <1>3, <2>4, <2>5 DEF Types, IsLog
<1>6. Bounded'
  BY <1>1, <1>3, Sizes DEF Bounded, TopClear
<1>7. Plan(todo')
  BY <1>1, <1>4 DEF Plan
<1>8. Calls' /\ Shape' /\ Trusted'
  BY <1>1, <1>7 DEF Calls, Shape, Trusted
<1> QED BY <1>5, <1>6, <1>8 DEF Inv

LEMMA StutterStep ==
  ASSUME Inv, UNCHANGED vars
  PROVE  Inv'
<1> USE DEF vars
<1>1. Types' /\ Bounded' /\ Calls'
  BY DEF Inv, Types, TypeOK, IsLog, Bounded, TopClear, Calls
<1>2. Shape' /\ Trusted'
  BY DEF Inv, Shape, Trusted, HeaderValid, IsClear, Run, Chained, EventAt
<1> QED BY <1>1, <1>2 DEF Inv

LEMMA Inductive == Inv /\ [Next]_vars => Inv'
<1> SUFFICES ASSUME Inv, [Next]_vars PROVE Inv'
  OBVIOUS
<1>1. CASE UNCHANGED vars
  BY <1>1, StutterStep
<1>2. CASE \E e \in UserEvents \cup {ClearLog} : Call(e)
  BY <1>2, CallStep
<1>3. CASE CallBroken
  BY <1>3, StutterStep DEF CallBroken
<1>4. CASE InitScan
  BY <1>4, InitScanStep
<1>5. CASE InitReadFails
  BY <1>5, InitReadFailsStep
<1>6. CASE AddClearLog
  BY <1>6, AddClearLogStep
<1>7. CASE AddRefused
  BY <1>7, AddRefusedStep
<1>8. CASE AddEvent
  BY <1>8, AddEventStep
<1>9. CASE EraseNv
  BY <1>9, EraseNvStep
<1>10. CASE WriteNv
  BY <1>10, WriteNvStep
<1>11. CASE Rescan
  BY <1>11, RescanStep
<1>12. CASE RescanFails
  BY <1>12, RescanFailsStep
<1>13. CASE Reset
  BY <1>13, ResetStep
<1> QED BY <1>1, <1>2, <1>3, <1>4, <1>5, <1>6, <1>7, <1>8, <1>9, <1>10, <1>11,
           <1>12, <1>13 DEF Next, Step

LEMMA Always == Spec => []Inv
BY InitInv, Inductive, PTL DEF Spec

-----------------------------------------------------------------------------
(* The theorems.                                                           *)

\* The variables of elog.c stay in their types: both last writes are within the
\* area or mark a pending erase, and a call has only known events to add.
THEOREM ElogTypeCorrect == Spec => []TypeOK
<1>1. Inv => TypeOK
  BY DEF Inv, Types
<1> QED BY <1>1, Always, PTL

\* elog_add_event_raw finds room for the longest event, and elog_shrink for the
\* clear event without shrinking again, in a log of any size and after any
\* sequence of events, torn writes, failed erases and resets: the mirror never
\* grows beyond full_threshold, the flash holds nothing behind it that a scan
\* could follow, and a shrink drops at least what one event can add.
THEOREM RoomIsLeft == Spec => []RoomLeft
<1>1. ASSUME Inv PROVE RoomLeft
  <2>1. Types /\ Bounded /\ Calls /\ TypeOK
    BY <1>1 DEF Inv, Types
  <2>2. mlast + MaxEvent < LogSize
    BY <2>1, Numbers
  <2>3. ASSUME pc = "add", Head(todo).type = "clear"
        PROVE  mlast + Head(todo).len < full_threshold
    <3>1. Plan(todo) /\ todo # <<>>
      BY <2>1, <2>3 DEF Calls
    <3>2. Head(todo) = todo[1] /\ todo[1] \in Events
      <4>1. ClearLog.type # "clear"
        BY DEF ClearLog
      <4> QED BY <2>3, <3>1, <4>1, PlanTail
    <3>3. Head(todo).len = 1
      BY <2>3, <3>2, ClearLength
    <3>4. mlast + 1 < full_threshold
      BY <2>1, <2>3, <3>2 DEF Calls
    <3> QED BY <3>3, <3>4
  <2>4. pc = "write" => nlast <= mlast
    BY <2>1 DEF Calls, Bounded
  <2> QED BY <2>2, <2>3, <2>4 DEF RoomLeft
<1> QED BY <1>1, Always, PTL

\* While no flash operation reports an error, what elog.c believes of the flash
\* is so: the log never gives up, and between calls the mirror is the flash, a
\* valid log that ends where both last writes are, whatever power losses in an
\* erase or a write came before.
THEOREM LogIsCoherent == Spec => []Coherent
<1>1. ASSUME Inv PROVE Coherent
  <2> SUFFICES ASSUME ~failed PROVE Coherent
    BY DEF Coherent
  <2>1. Types /\ Bounded /\ Calls /\ Shape /\ Trusted /\ TypeOK /\ IsLog(flash)
    BY <1>1 DEF Inv, Types
  <2>2. state # "broken"
    BY <2>1 DEF Calls
  <2>3. ASSUME pc = "idle", state = "initialized"
        PROVE  /\ Valid(flash) /\ mirror = flash
               /\ mlast = Scanned(flash) /\ nlast = mlast
    <3>1. flash = mirror /\ nlast = mlast /\ IsClear(mirror, mlast)
      BY <2>1, <2>3 DEF Calls, Trusted
    <3>2. PICK D : HeaderValid(mirror) /\ Run(mirror, mlast, D)
      BY <2>1, <2>3 DEF Shape
    <3>3. mlast \in Header .. LogSize - 1
      <4>1. mlast \in Nat /\ mlast <= Limit
        BY <2>1, Numbers DEF Bounded
      <4>2. mlast \in Header .. mlast
        BY <3>2, RunStarts
      <4> QED BY <4>1, <4>2, Sizes
    <3>4. Valid(flash) /\ Scanned(flash) = mlast
      BY <2>1, <3>1, <3>2, <3>3, GoodLog
    <3> QED BY <3>1, <3>4
  <2> QED BY <2>2, <2>3 DEF Coherent
<1> QED BY <1>1, Always, PTL

-----------------------------------------------------------------------------
(* The events of a log: the path through it, and what is read on it.       *)

\* The event whose first cell is at o.
Rec(buf, o) == [type |-> buf[o].type, len |-> buf[o].len, data |-> buf[o].data]

\* EventsOf goes on from o.
Starts(buf, limit, o) == o < limit /\ EventAt(buf, o)

\* From o over n events, p[i] is where the one behind the first i starts.
Path(buf, limit, o, n, p) ==
  /\ n \in Nat /\ p \in [0 .. n -> Header .. LogSize] /\ p[0] = o
  /\ \A i \in 0 .. n - 1 : Starts(buf, limit, p[i]) /\ p[i + 1] = p[i] + buf[p[i]].len
  /\ ~Starts(buf, limit, p[n])

\* The n events on the path.
Read(buf, n, p) == [i \in 1 .. n |-> Rec(buf, p[i - 1])]

\* One event more in front.
LEMMA PathFront ==
  ASSUME NEW buf, IsLog(buf), NEW limit, NEW o \in Header .. LogSize,
         Starts(buf, limit, o), NEW n \in Nat, NEW p,
         Path(buf, limit, o + buf[o].len, n, p)
  PROVE  LET q == [i \in 0 .. n + 1 |-> IF i = 0 THEN o ELSE p[i - 1]]
         IN  Path(buf, limit, o, n + 1, q)
<1> DEFINE q == [i \in 0 .. n + 1 |-> IF i = 0 THEN o ELSE p[i - 1]]
<1>1. /\ p \in [0 .. n -> Header .. LogSize] /\ p[0] = o + buf[o].len
      /\ ~Starts(buf, limit, p[n])
      /\ \A i \in 0 .. n - 1 : Starts(buf, limit, p[i]) /\ p[i + 1] = p[i] + buf[p[i]].len
  BY DEF Path
<1>2. /\ q \in [0 .. n + 1 -> Header .. LogSize] /\ q[0] = o
      /\ \A i \in 1 .. n + 1 : q[i] = p[i - 1]
  BY <1>1
<1> HIDE DEF q
<1>3. q[n + 1] = p[n]
  BY <1>2
<1>4. ASSUME NEW i \in 0 .. n
      PROVE  Starts(buf, limit, q[i]) /\ q[i + 1] = q[i] + buf[q[i]].len
  <2>1. CASE i = 0
    BY <2>1, <1>1, <1>2
  <2>2. CASE i # 0
    <3>1. /\ i - 1 \in 0 .. n - 1 /\ (i - 1) + 1 = i /\ (i + 1) - 1 = i
          /\ i \in 1 .. n + 1 /\ i + 1 \in 1 .. n + 1
      BY <2>2
    <3>2. q[i] = p[i - 1] /\ q[i + 1] = p[i]
      BY <3>1, <1>2
    <3> QED BY <3>1, <3>2, <1>1
  <2> QED BY <2>1, <2>2
<1> QED BY <1>2, <1>3, <1>4 DEF Path, q

\* From every offset the events lead somewhere.
LEMMA PathExists ==
  ASSUME NEW buf, IsLog(buf), NEW limit, NEW o \in Header .. LogSize
  PROVE  \E n, p : Path(buf, limit, o, n, p)
<1> DEFINE T == {x \in Header .. LogSize : ~\E n, p : Path(buf, limit, x, n, p)}
<1> SUFFICES ASSUME T # {} PROVE FALSE
  OBVIOUS
<1>1. LogSize \in Nat /\ T \in SUBSET (0 .. LogSize)
  BY Sizes
<1>2. PICK x \in T : \A y \in T : y <= x
  <2> HIDE DEF T
  <2> QED BY <1>1, Greatest
<1>3. x \in Header .. LogSize /\ ~\E n, p : Path(buf, limit, x, n, p)
  OBVIOUS
<1>4. CASE ~Starts(buf, limit, x)
  <2> DEFINE q == [i \in 0 .. 0 |-> x]
  <2>1. q \in [0 .. 0 -> Header .. LogSize] /\ q[0] = x
    BY <1>3
  <2> HIDE DEF q
  <2>2. Path(buf, limit, x, 0, q)
    BY <2>1, <1>4 DEF Path
  <2> QED BY <2>2, <1>3
<1>5. CASE Starts(buf, limit, x)
  <2>1. x + buf[x].len \in Header .. LogSize /\ x < x + buf[x].len
    BY <1>5, <1>3, EventCells DEF Starts
  <2>2. x \in Nat
    BY <1>3, Sizes
  <2>3. PICK y \in Header .. LogSize : y = x + buf[x].len
    BY <2>1
  <2>4. y \notin T
    BY <2>1, <2>2, <2>3, <1>2, Sizes
  <2>5. PICK n, p : Path(buf, limit, y, n, p)
    BY <2>4
  <2>6. n \in Nat
    BY <2>5 DEF Path
  <2> QED BY <2>3, <2>5, <2>6, <1>3, <1>5, PathFront
<1> QED BY <1>4, <1>5

\* It is one path only.
LEMMA PathUnique ==
  ASSUME NEW buf, IsLog(buf), NEW limit, NEW o, NEW n, NEW p, NEW k, NEW q,
         Path(buf, limit, o, n, p), Path(buf, limit, o, k, q)
  PROVE  n = k /\ p = q
<1>1. /\ n \in Nat /\ p \in [0 .. n -> Header .. LogSize] /\ p[0] = o
      /\ \A i \in 0 .. n - 1 : Starts(buf, limit, p[i]) /\ p[i + 1] = p[i] + buf[p[i]].len
      /\ ~Starts(buf, limit, p[n])
  BY DEF Path
<1>2. /\ k \in Nat /\ q \in [0 .. k -> Header .. LogSize] /\ q[0] = o
      /\ \A i \in 0 .. k - 1 : Starts(buf, limit, q[i]) /\ q[i + 1] = q[i] + buf[q[i]].len
      /\ ~Starts(buf, limit, q[k])
  BY DEF Path
<1> DEFINE T == {i \in 0 .. n : i <= k /\ \A j \in 0 .. i : p[j] = q[j]}
<1>3. 0 \in T /\ T \in SUBSET (0 .. n)
  BY <1>1, <1>2
<1>4. PICK x \in T : \A y \in T : y <= x
  <2> HIDE DEF T
  <2> QED BY <1>1, <1>3, Greatest
<1>5. x \in 0 .. n /\ x <= k /\ \A j \in 0 .. x : p[j] = q[j]
  OBVIOUS
<1>6. x \in Nat /\ p[x] = q[x]
  BY <1>5
<1>7. ~(x < n /\ x < k)
  <2> SUFFICES ASSUME x < n, x < k PROVE FALSE
    OBVIOUS
  <2>1. x \in 0 .. n - 1 /\ x \in 0 .. k - 1 /\ x + 1 \in 0 .. n /\ x + 1 <= k
    BY <1>1, <1>2, <1>6
  <2>2. p[x + 1] = q[x + 1]
    BY <2>1, <1>1, <1>2, <1>6
  <2>3. \A j \in 0 .. x + 1 : j = x + 1 \/ j \in 0 .. x
    BY <1>6
  <2>4. x + 1 \in T
    <3>1. \A j \in 0 .. x + 1 : p[j] = q[j]
      BY <2>2, <2>3, <1>5
    <3> QED BY <2>1, <3>1
  <2>5. x + 1 <= x
    <3> HIDE DEF T
    <3> QED BY <2>4, <1>4
  <2> QED BY <2>5, <1>6
<1>8. x = n /\ x = k
  <2>0. /\ x < n => x \in 0 .. n - 1
        /\ x < k => x \in 0 .. k - 1
    BY <1>1, <1>2, <1>6
  <2>1. x < n => Starts(buf, limit, p[x])
    BY <2>0, <1>1
  <2>2. x < k => Starts(buf, limit, q[x])
    BY <2>0, <1>2
  <2>3. x = n \/ x = k
    BY <1>1, <1>2, <1>5, <1>7
  <2> QED BY <2>1, <2>2, <2>3, <1>1, <1>2, <1>5, <1>6
<1> QED BY <1>1, <1>2, <1>5, <1>8

\* What is read is a sequence.
LEMMA ReadIs ==
  ASSUME NEW buf, NEW n \in Nat, NEW p \in [0 .. n -> Header .. LogSize],
         NEW S, \A i \in 0 .. n - 1 : Rec(buf, p[i]) \in S
  PROVE  /\ Read(buf, n, p) \in Seq(S) /\ Len(Read(buf, n, p)) = n
         /\ \A i \in 1 .. n : Read(buf, n, p)[i] = Rec(buf, p[i - 1])
<1> DEFINE s == Read(buf, n, p)
<1>1. \A i \in 1 .. n : i - 1 \in 0 .. n - 1
  OBVIOUS
<1>2. s \in [1 .. n -> S]
  BY <1>1 DEF Read
<1>3. \A i \in 1 .. n : s[i] = Rec(buf, p[i - 1])
  BY DEF Read
<1> HIDE DEF s
<1>4. s \in Seq(S)
  BY <1>2, SeqDef
<1>5. Len(s) \in Nat /\ DOMAIN s = 1 .. Len(s)
  BY <1>4, LenProperties
<1>6. DOMAIN s = 1 .. n
  BY <1>2
<1>7. Len(s) = n
  <2>1. ASSUME NEW l \in Nat, 1 .. l = 1 .. n PROVE l = n
    <3>1. (l >= 1 => l \in 1 .. n) /\ (n >= 1 => n \in 1 .. l)
      BY <2>1
    <3> QED BY <3>1
  <2> QED BY <2>1, <1>5, <1>6
<1> QED BY <1>3, <1>4, <1>7 DEF s

\* What is read from one event earlier on has that event in front.
LEMMA ReadFront ==
  ASSUME NEW buf, IsLog(buf), NEW limit, NEW o \in Header .. LogSize,
         Starts(buf, limit, o), NEW n \in Nat, NEW p,
         Path(buf, limit, o + buf[o].len, n, p)
  PROVE  LET q == [i \in 0 .. n + 1 |-> IF i = 0 THEN o ELSE p[i - 1]]
         IN  Read(buf, n + 1, q) = <<Rec(buf, o)>> \o Read(buf, n, p)
<1> DEFINE q == [i \in 0 .. n + 1 |-> IF i = 0 THEN o ELSE p[i - 1]]
           S == {Rec(buf, a) : a \in Header .. LogSize}
           s == Read(buf, n, p)
           t == Read(buf, n + 1, q)
           r == <<Rec(buf, o)>>
<1>1. p \in [0 .. n -> Header .. LogSize]
  BY DEF Path
<1>2. /\ q \in [0 .. n + 1 -> Header .. LogSize] /\ q[0] = o
      /\ \A i \in 1 .. n + 1 : q[i] = p[i - 1]
  BY <1>1
<1> HIDE DEF q
<1>3. /\ \A i \in 0 .. n - 1 : Rec(buf, p[i]) \in S
      /\ \A i \in 0 .. (n + 1) - 1 : Rec(buf, q[i]) \in S
      /\ Rec(buf, o) \in S
  BY <1>1, <1>2
<1> HIDE DEF S
<1>4. s \in Seq(S) /\ Len(s) = n /\ \A i \in 1 .. n : s[i] = Rec(buf, p[i - 1])
  BY <1>1, <1>3, ReadIs
<1>5. t \in Seq(S) /\ Len(t) = n + 1 /\ \A i \in 1 .. n + 1 : t[i] = Rec(buf, q[i - 1])
  <2>1. n + 1 \in Nat
    OBVIOUS
  <2> QED BY <2>1, <1>2, <1>3, ReadIs
<1>6. r \in Seq(S) /\ Len(r) = 1 /\ r[1] = Rec(buf, o)
  BY <1>3
<1> HIDE DEF s, t, r
<1>7. /\ r \o s \in Seq(S) /\ Len(r \o s) = n + 1
      /\ \A i \in 1 .. n + 1 : (r \o s)[i] = IF i <= 1 THEN r[i] ELSE s[i - 1]
  <2>1. /\ r \o s \in Seq(S) /\ Len(r \o s) = Len(r) + Len(s)
        /\ \A i \in 1 .. Len(r) + Len(s) :
             (r \o s)[i] = IF i <= Len(r) THEN r[i] ELSE s[i - Len(r)]
    BY <1>4, <1>6, ConcatProperties
  <2>2. Len(r) + Len(s) = n + 1
    BY <1>4, <1>6
  <2> QED BY <2>1, <2>2, <1>6, Zenon
<1>8. ASSUME NEW i \in 1 .. n + 1
      PROVE  t[i] = (r \o s)[i]
  <2>1. CASE i = 1
    <3>1. 1 <= 1 /\ 1 \in 1 .. n + 1 /\ 1 - 1 = 0
      OBVIOUS
    <3>2. t[1] = Rec(buf, q[0]) /\ (r \o s)[1] = r[1]
      BY <3>1, <1>5, <1>7
    <3> QED BY <2>1, <3>2, <1>2, <1>6
  <2>2. CASE i # 1
    <3>1. i - 1 \in 1 .. n /\ i - 1 \in 1 .. n + 1 /\ ~(i <= 1)
      BY <2>2
    <3>2. (r \o s)[i] = s[i - 1]
      BY <3>1, <1>7
    <3>3. s[i - 1] = Rec(buf, p[(i - 1) - 1]) /\ q[i - 1] = p[(i - 1) - 1]
      BY <3>1, <1>2, <1>4
    <3> QED BY <3>2, <3>3, <1>5
  <2> QED BY <2>1, <2>2
<1>9. t = r \o s
  BY <1>5, <1>7, <1>8, SeqEqual
<1> QED BY <1>9 DEF t, r, s, q

\* EventsOf as a function of the offset.
EventsFn(buf, limit) ==
  CHOOSE f : f = [o \in Header .. LogSize |->
                    IF o < limit /\ EventAt(buf, o)
                    THEN <<[type |-> buf[o].type, len |-> buf[o].len, data |-> buf[o].data]>>
                           \o f[o + buf[o].len]
                    ELSE <<>>]

\* EventsOf reads along the path.
LEMMA EventsAre ==
  ASSUME NEW buf, IsLog(buf), NEW limit, NEW n, NEW p, Path(buf, limit, Header, n, p)
  PROVE  EventsOf(buf, limit) = Read(buf, n, p)
<1> DEFINE Is(o, s) == \E k, q : Path(buf, limit, o, k, q) /\ s = Read(buf, k, q)
           F == [o \in Header .. LogSize |-> CHOOSE s : Is(o, s)]
           End(o) == o + buf[o].len
<1>1. ASSUME NEW o \in Header .. LogSize, NEW s, Is(o, s)
      PROVE  F[o] = s
  <2>1. \A t : Is(o, t) => t = s
    BY <1>1, PathUnique
  <2> QED BY <1>1, <2>1
<1>2. ASSUME NEW o \in Header .. LogSize
      PROVE  \E k, q : Path(buf, limit, o, k, q) /\ F[o] = Read(buf, k, q)
  <2>1. PICK k, q : Path(buf, limit, o, k, q)
    BY PathExists
  <2>2. Is(o, Read(buf, k, q))
    BY <2>1
  <2> HIDE DEF F, Is
  <2> QED BY <2>1, <2>2, <1>1
<1>3. ASSUME NEW o \in Header .. LogSize, ~Starts(buf, limit, o)
      PROVE  F[o] = <<>>
  <2> HIDE DEF F
  <2>1. PICK k, q : Path(buf, limit, o, k, q) /\ F[o] = Read(buf, k, q)
    BY <1>2
  <2>2. k \in Nat /\ q[0] = o /\ \A i \in 0 .. k - 1 : Starts(buf, limit, q[i])
    BY <2>1 DEF Path
  <2>3. k = 0
    BY <2>2, <1>3
  <2>4. Read(buf, 0, q) = <<>>
    BY DEF Read
  <2> QED BY <2>1, <2>3, <2>4
<1>4. ASSUME NEW o \in Header .. LogSize, Starts(buf, limit, o)
      PROVE  /\ o < End(o) /\ End(o) \in Header .. LogSize
             /\ F[o] = <<Rec(buf, o)>> \o F[End(o)]
  <2>1. o < End(o) /\ End(o) \in Header .. LogSize
    BY <1>4, EventCells DEF Starts
  <2> HIDE DEF F, Is
  <2>2. PICK k, q : Path(buf, limit, End(o), k, q) /\ F[End(o)] = Read(buf, k, q)
    BY <2>1, <1>2
  <2>3. k \in Nat
    BY <2>2 DEF Path
  <2> DEFINE q1 == [i \in 0 .. k + 1 |-> IF i = 0 THEN o ELSE q[i - 1]]
  <2>4. Path(buf, limit, o + buf[o].len, k, q)
    BY <2>2
  <2>5. /\ Path(buf, limit, o, k + 1, q1)
        /\ Read(buf, k + 1, q1) = <<Rec(buf, o)>> \o Read(buf, k, q)
    <3>1. Path(buf, limit, o, k + 1, q1)
      BY <2>3, <2>4, <1>4, PathFront
    <3>2. Read(buf, k + 1, q1) = <<Rec(buf, o)>> \o Read(buf, k, q)
      BY ONLY IsLog(buf), o \in Header .. LogSize, <1>4, <2>3, <2>4, ReadFront
    <3> QED BY <3>1, <3>2
  <2> HIDE DEF q1
  <2>6. Is(o, Read(buf, k + 1, q1))
    BY <2>5, Zenon DEF Is
  <2>7. F[o] = Read(buf, k + 1, q1)
    BY <2>6, <1>1
  <2> QED BY <2>1, <2>2, <2>5, <2>7
<1> DEFINE Eq(f) == f = [o \in Header .. LogSize |->
                    IF o < limit /\ EventAt(buf, o)
                    THEN <<[type |-> buf[o].type, len |-> buf[o].len, data |-> buf[o].data]>>
                           \o f[o + buf[o].len]
                    ELSE <<>>]
<1>5. Eq(F)
  <2>1. \A o \in Header .. LogSize :
          F[o] = IF o < limit /\ EventAt(buf, o)
                 THEN <<[type |-> buf[o].type, len |-> buf[o].len, data |-> buf[o].data]>>
                           \o F[o + buf[o].len]
                 ELSE <<>>
    <3> HIDE DEF F
    <3> QED BY <1>3, <1>4 DEF Starts, Rec
  <2>2. F = [o \in Header .. LogSize |-> F[o]]
    OBVIOUS
  <2> HIDE DEF F
  <2> QED BY <2>1, <2>2
<1> DEFINE g == EventsFn(buf, limit)
<1>6. Eq(g)
  BY <1>5, Zenon DEF EventsFn
<1>7. EventsOf(buf, limit) = g[Header]
  BY DEF EventsOf, EventsFn
<1> HIDE DEF g, F
<1>8. /\ \A o \in Header .. LogSize : ~Starts(buf, limit, o) => g[o] = <<>>
      /\ \A o \in Header .. LogSize : Starts(buf, limit, o) => g[o] = <<Rec(buf, o)>> \o g[End(o)]
  BY <1>6 DEF Starts, Rec
<1> HIDE DEF Eq
<1>9. \A o \in Header .. LogSize : g[o] = F[o]
  <2> DEFINE T == {o \in Header .. LogSize : g[o] # F[o]}
  <2> SUFFICES ASSUME T # {} PROVE FALSE
    OBVIOUS
  <2>1. LogSize \in Nat /\ T \in SUBSET (0 .. LogSize)
    BY Sizes
  <2>2. PICK x \in T : \A y \in T : y <= x
    <3> HIDE DEF T
    <3> QED BY <2>1, Greatest
  <2>3. x \in Header .. LogSize /\ g[x] # F[x] /\ x \in Nat
    BY Sizes
  <2>4. Starts(buf, limit, x)
    BY <2>3, <1>3, <1>8
  <2>5. PICK y \in Header .. LogSize : y = End(x) /\ x < y
    BY <2>3, <2>4, <1>4
  <2>6. y \notin T
    BY <2>2, <2>3, <2>5, Sizes
  <2>7. g[y] = F[y]
    BY <2>6
  <2>8. g[x] = <<Rec(buf, x)>> \o g[End(x)]
    BY <2>3, <2>4, <1>8, Zenon
  <2>9. F[x] = <<Rec(buf, x)>> \o F[End(x)]
    BY <2>3, <2>4, <1>4, Zenon
  <2> HIDE DEF End
  <2> QED BY <2>3, <2>5, <2>7, <2>8, <2>9, Zenon
<1>10. Header \in Header .. LogSize
  BY Sizes
<1>11. F[Header] = Read(buf, n, p)
  <2>1. Is(Header, Read(buf, n, p))
    OBVIOUS
  <2> HIDE DEF Is
  <2> QED BY <2>1, <1>1, <1>10
<1> QED BY <1>7, <1>9, <1>10, <1>11

\* What holds at 0 and goes on from each i to the next holds up to n.
LEMMA Climb ==
  ASSUME NEW n \in Nat, NEW T, 0 \in T, \A i \in 0 .. n - 1 : i \in T => i + 1 \in T
  PROVE  \A i \in 0 .. n : i \in T
<1> DEFINE U == {i \in 0 .. n : \A j \in 0 .. i : j \in T}
<1>1. 0 \in U /\ U \in SUBSET (0 .. n)
  OBVIOUS
<1>2. PICK x \in U : \A y \in U : y <= x
  <2> HIDE DEF U
  <2> QED BY <1>1, Greatest
<1>3. x \in 0 .. n /\ \A j \in 0 .. x : j \in T
  OBVIOUS
<1>4. x = n
  <2> SUFFICES ASSUME x # n PROVE FALSE
    OBVIOUS
  <2>1. x \in 0 .. n - 1 /\ x \in 0 .. x /\ x + 1 \in 0 .. n /\ x \in Nat
    BY <1>3
  <2>2. x + 1 \in T
    BY <2>1, <1>3
  <2>3. \A j \in 0 .. x + 1 : j = x + 1 \/ j \in 0 .. x
    BY <2>1
  <2>4. \A j \in 0 .. x + 1 : j \in T
    BY <2>2, <2>3, <1>3
  <2>5. x + 1 \in U
    BY <2>1, <2>4
  <2>6. x + 1 <= x
    <3> HIDE DEF U
    <3> QED BY <2>5, <1>2
  <2> QED BY <2>1, <2>6
<1> QED BY <1>3, <1>4

\* The path leads to m.
To(buf, m, n, p) == Path(buf, m, Header, n, p) /\ p[n] = m

\* The path and its offsets.
LEMMA ToIs ==
  ASSUME NEW buf, NEW m, NEW n, NEW p, To(buf, m, n, p)
  PROVE  /\ n \in Nat /\ p \in [0 .. n -> Header .. LogSize] /\ p[0] = Header /\ p[n] = m
         /\ \A i \in 0 .. n - 1 : /\ p[i] < m /\ EventAt(buf, p[i])
                                  /\ p[i + 1] = p[i] + buf[p[i]].len
BY DEF To, Path, Starts

\* A run of events is a path, and the path is a run.
LEMMA RunTo ==
  ASSUME NEW buf, IsLog(buf), NEW m \in Header .. LogSize, NEW D, Run(buf, m, D)
  PROVE  \E n, p : To(buf, m, n, p)
<1>1. Header \in Header .. LogSize /\ m \in Nat
  BY Sizes
<1>2. PICK n, p : Path(buf, m, Header, n, p)
  BY <1>1, PathExists
<1>3. /\ n \in Nat /\ p \in [0 .. n -> Header .. LogSize] /\ p[0] = Header
      /\ \A i \in 0 .. n - 1 : Starts(buf, m, p[i]) /\ p[i + 1] = p[i] + buf[p[i]].len
      /\ ~Starts(buf, m, p[n])
  BY <1>2 DEF Path
<1>4. /\ Header \in D /\ m \in D /\ D \subseteq Header .. m
      /\ \A o \in D : o # m => EventAt(buf, o) /\ o + buf[o].len \in D
  BY DEF Run, Chained
<1> DEFINE T == {i \in 0 .. n : p[i] \in D}
<1>5. 0 \in T
  BY <1>3, <1>4
<1>6. ASSUME NEW i \in 0 .. n - 1, i \in T PROVE i + 1 \in T
  <2>1. p[i] \in D /\ p[i] # m /\ p[i + 1] = p[i] + buf[p[i]].len /\ i + 1 \in 0 .. n
    <3>1. p[i] < m /\ p[i] \in Header .. LogSize
      BY <1>3, <1>6 DEF Starts
    <3> QED BY <3>1, <1>1, <1>3, <1>6, Sizes
  <2> QED BY <2>1, <1>4
<1>7. n \in T
  <2> HIDE DEF T
  <2>1. \A i \in 0 .. n : i \in T
    BY <1>3, <1>5, <1>6, Climb
  <2> QED BY <2>1, <1>3
<1>8. p[n] \in D /\ p[n] \in Header .. m
  BY <1>4, <1>7
<1>9. p[n] = m
  BY <1>1, <1>3, <1>4, <1>8, Sizes DEF Starts
<1> QED BY <1>2, <1>9 DEF To

\* The offsets of a path are a run.
LEMMA ToRun ==
  ASSUME NEW buf, IsLog(buf), NEW m \in Header .. LogSize, NEW n, NEW p, To(buf, m, n, p)
  PROVE  Run(buf, m, {p[i] : i \in 0 .. n})
<1> DEFINE D == {p[i] : i \in 0 .. n}
<1>1. /\ n \in Nat /\ p \in [0 .. n -> Header .. LogSize] /\ p[0] = Header /\ p[n] = m
      /\ \A i \in 0 .. n - 1 : /\ p[i] < m /\ EventAt(buf, p[i])
                               /\ p[i + 1] = p[i] + buf[p[i]].len
  BY ToIs
<1>2. Header \in D /\ m \in D
  BY <1>1
<1>3. ASSUME NEW o \in D
      PROVE  o \in Header .. m /\ (o # m => EventAt(buf, o) /\ buf[o] # Eol /\ o + buf[o].len \in D)
  <2>1. PICK i \in 0 .. n : o = p[i]
    OBVIOUS
  <2>2. CASE i = n
    BY <2>1, <2>2, <1>1, Sizes
  <2>3. CASE i # n
    <3>1. i \in 0 .. n - 1 /\ i + 1 \in 0 .. n
      BY <2>3, <1>1
    <3>2. o < m /\ EventAt(buf, o) /\ p[i + 1] = o + buf[o].len /\ o \in Header .. LogSize
      BY <2>1, <3>1, <1>1
    <3>3. o + buf[o].len \in D
      BY <3>1, <3>2
    <3>4. buf[o].type # "eol" /\ Eol.type = "eol"
      BY <3>2 DEF EventAt, Eol, Plain
    <3> HIDE DEF D
    <3> QED BY <3>2, <3>3, <3>4, Sizes
  <2> QED BY <2>2, <2>3
<1> HIDE DEF D
<1>4. Run(buf, m, D)
  BY <1>2, <1>3 DEF Run, Chained
<1> QED BY <1>4 DEF D

\* What lies in front of m decides the path to m, and what is read on it.
LEMMA ToLocal ==
  ASSUME NEW buf, IsLog(buf), NEW buf2, IsLog(buf2), NEW m \in Header .. LogSize,
         NEW n, NEW p, To(buf, m, n, p), \A a \in Cells : a < m => buf2[a] = buf[a]
  PROVE  To(buf2, m, n, p) /\ Read(buf2, n, p) = Read(buf, n, p)
<1> DEFINE D == {p[i] : i \in 0 .. n}
<1>1. /\ n \in Nat /\ p \in [0 .. n -> Header .. LogSize] /\ p[0] = Header /\ p[n] = m
      /\ \A i \in 0 .. n - 1 : /\ p[i] < m /\ EventAt(buf, p[i])
                               /\ p[i + 1] = p[i] + buf[p[i]].len
  BY ToIs
<1>2. Run(buf2, m, D)
  <2>1. Run(buf, m, D)
    BY ToRun
  <2> HIDE DEF D
  <2> QED BY <2>1, RunLocal
<1>3. ASSUME NEW i \in 0 .. n - 1
      PROVE  EventAt(buf2, p[i]) /\ buf2[p[i]] = buf[p[i]]
  <2>1. p[i] \in D /\ p[i] < m /\ p[i] \in Header .. LogSize
    BY <1>1
  <2>2. p[i] # m /\ p[i] \in Cells
    BY <2>1, Sizes DEF Cells
  <2> HIDE DEF D
  <2> QED BY <1>2, <2>1, <2>2 DEF Run
<1>4. ~Starts(buf2, m, p[n])
  BY <1>1, Sizes DEF Starts
<1>5. To(buf2, m, n, p)
  BY <1>1, <1>3, <1>4 DEF To, Path, Starts
<1>6. \A i \in 1 .. n : Rec(buf2, p[i - 1]) = Rec(buf, p[i - 1])
  <2>1. \A i \in 1 .. n : i - 1 \in 0 .. n - 1
    BY <1>1
  <2> QED BY <2>1, <1>3 DEF Rec
<1> QED BY <1>5, <1>6 DEF Read

\* The event behind m is read next.
LEMMA ToNext ==
  ASSUME NEW buf, IsLog(buf), NEW m \in Header .. LogSize, EventAt(buf, m),
         NEW n, NEW p, To(buf, m, n, p)
  PROVE  LET q == [i \in 0 .. n + 1 |-> IF i = n + 1 THEN m + buf[m].len ELSE p[i]]
         IN  /\ To(buf, m + buf[m].len, n + 1, q)
             /\ Read(buf, n + 1, q) = Append(Read(buf, n, p), Rec(buf, m))
<1> DEFINE e == m + buf[m].len
           q == [i \in 0 .. n + 1 |-> IF i = n + 1 THEN e ELSE p[i]]
           s == Read(buf, n, p)
           t == Read(buf, n + 1, q)
           S == {Rec(buf, a) : a \in Header .. LogSize}
<1>1. /\ n \in Nat /\ p \in [0 .. n -> Header .. LogSize] /\ p[0] = Header /\ p[n] = m
      /\ \A i \in 0 .. n - 1 : /\ p[i] < m /\ EventAt(buf, p[i])
                               /\ p[i + 1] = p[i] + buf[p[i]].len
  BY ToIs
<1>2. e \in Header .. LogSize /\ m < e /\ m \in Nat
  BY EventCells, Sizes
<1> HIDE DEF e
<1>3. /\ q \in [0 .. n + 1 -> Header .. LogSize] /\ q[0] = Header /\ q[n + 1] = e
      /\ \A i \in 0 .. n : q[i] = p[i]
  BY <1>1, <1>2
<1> HIDE DEF q
<1>4. ASSUME NEW i \in 0 .. n
      PROVE  Starts(buf, e, q[i]) /\ q[i + 1] = q[i] + buf[q[i]].len
  <2>1. CASE i = n
    BY <2>1, <1>1, <1>2, <1>3 DEF Starts, e
  <2>2. CASE i # n
    <3>1. i \in 0 .. n - 1 /\ i + 1 \in 0 .. n
      BY <2>2, <1>1
    <3>2. p[i] \in Header .. LogSize
      BY <1>1
    <3>3. p[i] < e
      BY <3>1, <3>2, <1>1, <1>2, Sizes
    <3> QED BY <3>1, <3>3, <1>1, <1>3 DEF Starts
  <2> QED BY <2>1, <2>2
<1>5. To(buf, e, n + 1, q)
  <2>1. ~Starts(buf, e, q[n + 1])
    BY <1>2, <1>3, Sizes DEF Starts
  <2>2. n + 1 \in Nat /\ (n + 1) - 1 = n
    BY <1>1
  <2> QED BY <2>1, <2>2, <1>3, <1>4 DEF To, Path
<1>6. /\ \A i \in 0 .. n - 1 : Rec(buf, p[i]) \in S
      /\ \A i \in 0 .. (n + 1) - 1 : Rec(buf, q[i]) \in S
      /\ Rec(buf, m) \in S
  BY <1>1, <1>3
<1> HIDE DEF S
<1>7. s \in Seq(S) /\ Len(s) = n /\ \A i \in 1 .. n : s[i] = Rec(buf, p[i - 1])
  BY <1>1, <1>6, ReadIs
<1>8. t \in Seq(S) /\ Len(t) = n + 1 /\ \A i \in 1 .. n + 1 : t[i] = Rec(buf, q[i - 1])
  <2>1. n + 1 \in Nat
    BY <1>1
  <2> QED BY <2>1, <1>3, <1>6, ReadIs
<1> HIDE DEF s, t
<1>9. /\ Append(s, Rec(buf, m)) \in Seq(S) /\ Len(Append(s, Rec(buf, m))) = n + 1
      /\ \A i \in 1 .. n : Append(s, Rec(buf, m))[i] = s[i]
      /\ Append(s, Rec(buf, m))[n + 1] = Rec(buf, m)
  BY <1>6, <1>7, AppendProperties
<1>10. ASSUME NEW i \in 1 .. n + 1
       PROVE  t[i] = Append(s, Rec(buf, m))[i]
  <2>1. CASE i = n + 1
    <3>1. (n + 1) - 1 = n /\ n + 1 \in 1 .. n + 1 /\ n \in 0 .. n
      BY <1>1
    <3>2. t[n + 1] = Rec(buf, q[n]) /\ q[n] = m
      BY <3>1, <1>1, <1>3, <1>8
    <3> QED BY <2>1, <3>2, <1>9
  <2>2. CASE i # n + 1
    <3>1. i \in 1 .. n /\ i - 1 \in 0 .. n
      BY <2>2, <1>1
    <3> QED BY <3>1, <1>3, <1>7, <1>8, <1>9
  <2> QED BY <2>1, <2>2
<1>11. t = Append(s, Rec(buf, m))
  BY <1>8, <1>9, <1>10, SeqEqual
<1> QED BY <1>5, <1>11 DEF q, s, t, e

\* The events in front of m, and when none starts at m those of the log.
LEMMA EventsTo ==
  ASSUME NEW buf, IsLog(buf), NEW m \in Header .. LogSize, NEW n, NEW p, To(buf, m, n, p)
  PROVE  /\ EventsOf(buf, m) = Read(buf, n, p)
         /\ ~EventAt(buf, m) => EventsOf(buf, LogSize) = Read(buf, n, p)
<1>1. Path(buf, m, Header, n, p)
  BY DEF To
<1>2. ASSUME ~EventAt(buf, m) PROVE Path(buf, LogSize, Header, n, p)
  <2>1. \A o : EventAt(buf, o) => o < LogSize
    BY DEF EventAt
  <2> QED BY <1>2, <2>1 DEF To, Path, Starts
<1> QED BY <1>1, <1>2, EventsAre

\* No event in front of the first.
LEMMA EventsNone ==
  ASSUME NEW buf, IsLog(buf)
  PROVE  EventsOf(buf, Header) = <<>>
<1> DEFINE p == [i \in 0 .. 0 |-> Header]
<1>1. p \in [0 .. 0 -> Header .. LogSize] /\ p[0] = Header
  BY Sizes
<1> HIDE DEF p
<1>2. ~Starts(buf, Header, Header)
  BY Sizes DEF Starts
<1>3. Path(buf, Header, Header, 0, p)
  BY <1>1, <1>2 DEF Path
<1>4. Read(buf, 0, p) = <<>>
  BY DEF Read
<1> QED BY <1>3, <1>4, EventsAre

\* The events of a run are all of the log when none follows, whatever follows.
LEMMA EventsOfRun ==
  ASSUME NEW buf, IsLog(buf), NEW buf2, IsLog(buf2), NEW m \in Header .. LogSize,
         NEW D, Run(buf, m, D), \A a \in Cells : a < m => buf2[a] = buf[a]
  PROVE  /\ EventsOf(buf2, m) = EventsOf(buf, m)
         /\ ~EventAt(buf2, m) => EventsOf(buf2, LogSize) = EventsOf(buf, m)
<1>1. PICK n, p : To(buf, m, n, p)
  BY RunTo
<1>2. To(buf2, m, n, p) /\ Read(buf2, n, p) = Read(buf, n, p)
  BY <1>1, ToLocal
<1> QED BY <1>1, <1>2, EventsTo

\* One event more.
LEMMA EventsNext ==
  ASSUME NEW buf, IsLog(buf), NEW m \in Header .. LogSize, NEW D, Run(buf, m, D),
         EventAt(buf, m)
  PROVE  EventsOf(buf, m + buf[m].len) = Append(EventsOf(buf, m), Rec(buf, m))
<1>1. PICK n, p : To(buf, m, n, p)
  BY RunTo
<1> DEFINE q == [i \in 0 .. n + 1 |-> IF i = n + 1 THEN m + buf[m].len ELSE p[i]]
<1>2. /\ To(buf, m + buf[m].len, n + 1, q)
      /\ Read(buf, n + 1, q) = Append(Read(buf, n, p), Rec(buf, m))
  BY <1>1, ToNext
<1> HIDE DEF q
<1>3. m + buf[m].len \in Header .. LogSize
  BY EventCells
<1> QED BY <1>1, <1>2, <1>3, EventsTo

\* The sum of the lengths, as a function of how many.
SizeFn(s) ==
  CHOOSE f : f = [i \in 0 .. Len(s) |-> IF i = 0 THEN 0 ELSE f[i - 1] + s[i].len]

\* Log!Size adds up the lengths.
LEMMA SizeIs ==
  ASSUME NEW s, NEW n \in Nat, Len(s) = n, NEW q \in [0 .. n -> Int], q[0] = 0,
         \A i \in 1 .. n : q[i] = q[i - 1] + s[i].len
  PROVE  Log!Size(s) = q[n]
<1> DEFINE Eq(f) == f = [i \in 0 .. Len(s) |-> IF i = 0 THEN 0 ELSE f[i - 1] + s[i].len]
           g == SizeFn(s)
<1>1. Eq(q)
  <2>1. \A i \in 0 .. n : q[i] = IF i = 0 THEN 0 ELSE q[i - 1] + s[i].len
    <3> TAKE i \in 0 .. n
    <3>1. i # 0 => i \in 1 .. n
      OBVIOUS
    <3> QED BY <3>1
  <2> QED BY <2>1
<1>2. Eq(g)
  BY <1>1, Zenon DEF SizeFn
<1>3. Log!Size(s) = g[n]
  BY DEF Log!Size, SizeFn
<1> HIDE DEF g
<1>4. \A i \in 0 .. n : g[i] = IF i = 0 THEN 0 ELSE g[i - 1] + s[i].len
  BY <1>2
<1> DEFINE T == {i \in 0 .. n : g[i] = q[i]}
<1>5. 0 \in T
  BY <1>4
<1>6. ASSUME NEW i \in 0 .. n - 1, i \in T PROVE i + 1 \in T
  <2>1. i + 1 \in 0 .. n /\ i + 1 \in 1 .. n /\ (i + 1) - 1 = i /\ i + 1 # 0 /\ g[i] = q[i]
    BY <1>6
  <2>2. g[i + 1] = g[i] + s[i + 1].len
    BY <2>1, <1>4
  <2>3. q[i + 1] = q[i] + s[i + 1].len
    BY <2>1
  <2> QED BY <2>1, <2>2, <2>3
<1>7. \A i \in 0 .. n : i \in T
  <2> HIDE DEF T
  <2> QED BY <1>5, <1>6, Climb
<1> QED BY <1>3, <1>7

\* The size of the first k events is where the next one starts.
LEMMA SizeTo ==
  ASSUME NEW buf, IsLog(buf), NEW m, NEW n, NEW p, To(buf, m, n, p), NEW k \in 0 .. n
  PROVE  Log!Size(SubSeq(Read(buf, n, p), 1, k)) = p[k] - Header
<1>1. /\ n \in Nat /\ p \in [0 .. n -> Header .. LogSize] /\ p[0] = Header /\ p[n] = m
      /\ \A i \in 0 .. n - 1 : /\ p[i] < m /\ EventAt(buf, p[i])
                               /\ p[i + 1] = p[i] + buf[p[i]].len
  BY ToIs
<1> DEFINE S == {Rec(buf, a) : a \in Header .. LogSize}
           s == Read(buf, n, p)
           t == SubSeq(s, 1, k)
           q == [i \in 0 .. k |-> p[i] - Header]
<1>2. \A i \in 0 .. n - 1 : Rec(buf, p[i]) \in S
  BY <1>1
<1> HIDE DEF S
<1>3. s \in Seq(S) /\ Len(s) = n /\ \A i \in 1 .. n : s[i] = Rec(buf, p[i - 1])
  BY <1>1, <1>2, ReadIs
<1> HIDE DEF s
<1>4. k \in Nat /\ \A i \in 1 .. k : i \in 1 .. n /\ i - 1 \in 0 .. n - 1 /\ i - 1 \in 0 .. k
                                   /\ i \in 0 .. k /\ (i - 1) + 1 = i
  BY <1>1
<1>5. Len(t) = k /\ \A i \in 1 .. k : t[i] = s[i]
  <2>1. \A i \in 1 .. k : s[i] \in S
    BY <1>3, <1>4, ElementOfSeq
  <2>2. /\ Len(t) = IF 1 <= k THEN k - 1 + 1 ELSE 0
        /\ \A i \in 1 .. k - 1 + 1 : t[i] = s[1 + i - 1]
    BY <2>1, <1>4, SubSeqProperties
  <2>3. k - 1 + 1 = k /\ (~(1 <= k) => k = 0) /\ \A i \in 1 .. k : 1 + i - 1 = i
    BY <1>4
  <2> QED BY <2>2, <2>3
<1> HIDE DEF t
<1>6. q \in [0 .. k -> Int] /\ q[0] = 0 /\ q[k] = p[k] - Header
  BY <1>1, <1>4, Sizes
<1>7. ASSUME NEW i \in 1 .. k PROVE q[i] = q[i - 1] + t[i].len
  <2>1. q[i] = p[i] - Header /\ q[i - 1] = p[i - 1] - Header
    BY <1>4
  <2>2. t[i].len = buf[p[i - 1]].len
    BY <1>3, <1>4, <1>5 DEF Rec
  <2>3. p[i] = p[i - 1] + buf[p[i - 1]].len /\ EventAt(buf, p[i - 1])
    BY <1>1, <1>4
  <2>4. p[i - 1] \in Header .. LogSize
    BY <1>1, <1>4
  <2>5. PICK l \in 1 .. MaxEvent : buf[p[i - 1]].len = l
    BY <2>3, <2>4, EventCells
  <2>6. PICK a \in Int : a = p[i - 1]
    BY <2>4, Sizes
  <2> HIDE DEF q
  <2> QED BY <2>1, <2>2, <2>3, <2>5, <2>6, Sizes
<1> HIDE DEF q
<1>8. Log!Size(t) = q[k]
  <2>1. k \in Nat /\ Len(t) = k /\ q \in [0 .. k -> Int] /\ q[0] = 0
    BY <1>4, <1>5, <1>6
  <2> QED BY <2>1, <1>7, SizeIs, Zenon
<1> QED BY <1>6, <1>8 DEF t, s

\* Offsets only grow along a path.
LEMMA ToGrows ==
  ASSUME NEW buf, IsLog(buf), NEW m, NEW n, NEW p, To(buf, m, n, p), NEW k \in 0 .. n
  PROVE  \A i \in 0 .. n - k : p[k] <= p[k + i]
<1>1. /\ n \in Nat /\ p \in [0 .. n -> Header .. LogSize]
      /\ \A i \in 0 .. n - 1 : /\ p[i] < m /\ EventAt(buf, p[i])
                               /\ p[i + 1] = p[i] + buf[p[i]].len
  BY ToIs
<1>2. n - k \in Nat /\ k \in Nat /\ \A i \in 0 .. n : p[i] \in Int
  BY <1>1, Sizes
<1> DEFINE T == {i \in 0 .. n - k : p[k] <= p[k + i]}
<1>3. 0 \in T
  BY <1>2
<1>4. ASSUME NEW i \in 0 .. (n - k) - 1, i \in T PROVE i + 1 \in T
  <2>1. i + 1 \in 0 .. n - k /\ k + i \in 0 .. n - 1 /\ k + i \in 0 .. n /\ (k + i) + 1 \in 0 .. n
        /\ k + (i + 1) = (k + i) + 1
    BY <1>1, <1>2
  <2>2. p[k + i] \in Header .. LogSize /\ EventAt(buf, p[k + i])
        /\ p[(k + i) + 1] = p[k + i] + buf[p[k + i]].len
    BY <2>1, <1>1
  <2>3. p[k + i] < p[(k + i) + 1]
    BY <2>2, EventCells
  <2>4. p[k] \in Int /\ p[k + i] \in Int /\ p[(k + i) + 1] \in Int /\ p[k] <= p[k + i]
    BY <2>1, <1>2, <1>4
  <2> QED BY <2>1, <2>3, <2>4
<1>5. \A i \in 0 .. n - k : i \in T
  <2> HIDE DEF T
  <2> QED BY <1>2, <1>3, <1>4, Climb
<1> QED BY <1>5

\* elog_move_events_to_front keeps the events from the kth on.
LEMMA ToMoved ==
  ASSUME NEW buf, IsLog(buf), NEW m \in Header .. LogSize, NEW n, NEW p,
         To(buf, m, n, p), NEW k \in 0 .. n
  PROVE  EventsOf(Moved(buf, m, p[k]), Header + m - p[k]) =
           SubSeq(Read(buf, n, p), k + 1, n)
<1> DEFINE b2 == Moved(buf, m, p[k])
           m2 == Header + m - p[k]
           q == [i \in 0 .. n - k |-> Header + p[k + i] - p[k]]
           S == {Rec(buf, a) : a \in Header .. LogSize}
           s == Read(buf, n, p)
           t == Read(b2, n - k, q)
           u == SubSeq(s, k + 1, n)
<1>1. /\ n \in Nat /\ p \in [0 .. n -> Header .. LogSize] /\ p[0] = Header /\ p[n] = m
      /\ \A i \in 0 .. n - 1 : /\ p[i] < m /\ EventAt(buf, p[i])
                               /\ p[i + 1] = p[i] + buf[p[i]].len
  BY ToIs
<1>2. n - k \in Nat /\ k \in Nat /\ m \in Nat /\ (\A i \in 0 .. n : p[i] \in Int)
      /\ (\A i \in 0 .. n - k : k + i \in 0 .. n)
  BY <1>1, Sizes
<1>3. IsLog(b2) /\ m2 \in Header .. m
  <2> DEFINE D == {p[i] : i \in 0 .. n}
  <2>1. Chained(buf, m, D) /\ p[k] \in D
    BY ToRun DEF Run
  <2> HIDE DEF D
  <2> QED BY <2>1, RunMoved
<1>4. \A i \in 0 .. n - k : p[k] <= p[k + i] /\ p[k + i] <= m
  <2>1. \A i \in 0 .. n - k : p[k] <= p[k + i]
    BY ToGrows
  <2>2. \A j \in 0 .. n : p[j] <= m
    <3> TAKE j \in 0 .. n
    <3>1. j = n \/ j \in 0 .. n - 1
      BY <1>1
    <3> QED BY <3>1, <1>1, <1>2
  <2> QED BY <2>1, <2>2, <1>2
<1>5. /\ q \in [0 .. n - k -> Header .. LogSize] /\ q[0] = Header /\ q[n - k] = m2
      /\ \A i \in 0 .. n - k : q[i] = Header + p[k + i] - p[k]
  <2>1. ASSUME NEW i \in 0 .. n - k PROVE Header + p[k + i] - p[k] \in Header .. LogSize
    <3>1. p[k + i] \in Int /\ p[k] \in Int /\ p[k] <= p[k + i] /\ p[k + i] <= m /\ p[k] >= Header
      BY <1>1, <1>2, <1>4, Sizes
    <3> QED BY <3>1, Sizes
  <2>2. k + 0 = k /\ k + (n - k) = n /\ 0 \in 0 .. n - k /\ n - k \in 0 .. n - k /\ p[k] \in Int
    BY <1>1, <1>2
  <2>3. q[0] = Header + p[k] - p[k] /\ q[n - k] = Header + p[n] - p[k]
    BY <2>2
  <2>4. Header + p[k] - p[k] = Header
    BY <2>2, Sizes
  <2>5. q \in [0 .. n - k -> Header .. LogSize]
    BY <2>1
  <2> QED BY <2>3, <2>4, <2>5, <1>1
<1>6. \A a \in Cells : Header <= a /\ a < m2 => b2[a] = buf[a - Header + p[k]]
  <2>1. \A a \in Cells : a \in Int
    BY Sizes DEF Cells
  <2> QED BY <2>1, Sizes DEF Moved
<1> HIDE DEF b2, q, m2
<1>7. ASSUME NEW i \in 0 .. (n - k) - 1
      PROVE  /\ q[i] < m2 /\ EventAt(b2, q[i]) /\ q[i + 1] = q[i] + b2[q[i]].len
             /\ b2[q[i]] = buf[p[k + i]]
  <2>1. i \in 0 .. n - k /\ i + 1 \in 0 .. n - k /\ k + i \in 0 .. n - 1 /\ k + i \in 0 .. n
        /\ k + (i + 1) = (k + i) + 1 /\ (k + i) + 1 \in 0 .. n
    BY <1>1, <1>2
  <2>2. PICK o \in Header .. LogSize : o = p[k + i]
    BY <2>1, <1>1
  <2>3. o < m /\ EventAt(buf, o) /\ p[(k + i) + 1] = o + buf[o].len
    BY <2>1, <2>2, <1>1
  <2>4. PICK l \in 1 .. MaxEvent : buf[o].len = l
    BY <2>2, <2>3, EventCells
  <2>5. PICK f \in Int : f = p[k]
    BY <1>2
  <2>6. o \in Int /\ f <= o /\ o + l <= m /\ p[k + (i + 1)] = o + l /\ f >= Header
    <3>1. p[k + (i + 1)] = o + l /\ p[k + (i + 1)] <= m
      BY <2>1, <2>3, <2>4, <1>4
    <3>2. f <= o /\ f \in Header .. LogSize
      BY <2>1, <2>2, <2>5, <1>1, <1>4
    <3> QED BY <3>1, <3>2, Sizes
  <2>7. q[i] = Header + o - f /\ q[i + 1] = Header + (o + l) - f /\ m2 = Header + m - f
    BY <2>1, <2>2, <2>5, <2>6, <1>5 DEF m2
  <2>8. PICK x \in Int : x = Header + o - f
    BY <2>5, <2>6, Sizes
  <2>9. /\ q[i] = x /\ x >= Header /\ x < m2 /\ x + l <= m2 /\ q[i + 1] = x + l
        /\ m2 \in Int /\ m2 <= LogSize
    BY <2>6, <2>7, <2>8, <1>2, <1>3, Sizes
  <2>10. ASSUME NEW j \in 1 .. l PROVE b2[x + j - 1] = buf[o + j - 1]
    <3>1. x + j - 1 \in Cells /\ Header <= x + j - 1 /\ x + j - 1 < m2
      BY <2>9, Sizes DEF Cells
    <3>2. (x + j - 1) - Header + p[k] = o + j - 1
      BY <2>5, <2>6, <2>8, Sizes
    <3> QED BY <3>1, <3>2, <1>6
  <2>11. b2[x] = buf[o]
    <3>1. 1 \in 1 .. l /\ x + 1 - 1 = x /\ o + 1 - 1 = o
      BY <2>6
    <3>2. b2[x + 1 - 1] = buf[o + 1 - 1]
      BY <3>1, <2>10
    <3> QED BY <3>1, <3>2
  <2>12. \A j \in 1 .. l : buf[o + j - 1] = Cell(buf[o], j)
    BY <2>3, <2>4 DEF EventAt
  <2>13. EventAt(b2, x)
    <3>1. x < LogSize /\ x + l <= LogSize
      BY <2>9, Sizes
    <3>2. buf[o].type \notin {"eol", "header", "bad"}
      BY <2>3 DEF EventAt
    <3> QED BY <3>1, <3>2, <2>4, <2>10, <2>11, <2>12 DEF EventAt
  <2> QED BY <2>2, <2>4, <2>9, <2>11, <2>13
<1>8. To(b2, m2, n - k, q)
  <2>1. ~Starts(b2, m2, q[n - k])
    BY <1>3, <1>5, Sizes DEF Starts
  <2> QED BY <2>1, <1>2, <1>5, <1>7 DEF To, Path, Starts
<1>9. EventsOf(b2, m2) = t
  <2>1. m2 \in Header .. LogSize
    BY <1>2, <1>3, Sizes
  <2> QED BY <2>1, <1>3, <1>8, EventsTo
<1>10. /\ \A i \in 0 .. n - 1 : Rec(buf, p[i]) \in S
       /\ \A i \in 0 .. (n - k) - 1 : Rec(b2, q[i]) \in S
  <2>1. \A i \in 0 .. n : Rec(buf, p[i]) \in S
    BY <1>1
  <2>2. \A i \in 0 .. (n - k) - 1 : Rec(b2, q[i]) = Rec(buf, p[k + i]) /\ k + i \in 0 .. n
    BY <1>2, <1>7 DEF Rec
  <2> HIDE DEF S
  <2> QED BY <2>1, <2>2, <1>1
<1> HIDE DEF S
<1>11. s \in Seq(S) /\ Len(s) = n /\ \A i \in 1 .. n : s[i] = Rec(buf, p[i - 1])
  BY <1>1, <1>10, ReadIs
<1>12. t \in Seq(S) /\ Len(t) = n - k /\ \A i \in 1 .. n - k : t[i] = Rec(b2, q[i - 1])
  BY <1>2, <1>5, <1>10, ReadIs
<1> HIDE DEF s, t
<1>13. u \in Seq(S) /\ Len(u) = n - k /\ \A i \in 1 .. n - k : u[i] = s[k + i]
  <2>1. \A i \in k + 1 .. n : i \in 1 .. Len(s)
    BY <1>2, <1>11
  <2>2. \A i \in k + 1 .. n : s[i] \in S
    BY <2>1, <1>11, ElementOfSeq
  <2>3. /\ u \in Seq(S)
        /\ Len(u) = IF k + 1 <= n THEN n - (k + 1) + 1 ELSE 0
        /\ \A i \in 1 .. n - (k + 1) + 1 : u[i] = s[(k + 1) + i - 1]
    BY <2>2, <1>1, <1>2, SubSeqProperties
  <2>4. /\ n - (k + 1) + 1 = n - k /\ (~(k + 1 <= n) => n - k = 0)
        /\ \A i \in 1 .. n - k : (k + 1) + i - 1 = k + i
    BY <1>1, <1>2
  <2> QED BY <2>3, <2>4
<1>14. ASSUME NEW i \in 1 .. n - k PROVE t[i] = u[i]
  <2>1. i - 1 \in 0 .. (n - k) - 1 /\ k + i \in 1 .. n /\ (k + i) - 1 = k + (i - 1)
    BY <1>1, <1>2
  <2>2. b2[q[i - 1]] = buf[p[k + (i - 1)]]
    BY <2>1, <1>7
  <2>3. t[i] = Rec(b2, q[i - 1]) /\ u[i] = s[k + i]
    BY <1>12, <1>13
  <2>4. s[k + i] = Rec(buf, p[(k + i) - 1])
    BY <2>1, <1>11
  <2>5. Rec(b2, q[i - 1]) = Rec(buf, p[k + (i - 1)])
    BY <2>2 DEF Rec
  <2> QED BY <2>1, <2>3, <2>4, <2>5
<1>15. t = u
  BY <1>12, <1>13, <1>14, SeqEqual
<1> QED BY <1>9, <1>15 DEF b2, m2, s


-----------------------------------------------------------------------------
(* Dropping the oldest events, and prefixes.                               *)

\* elog_do_shrink keeps at least the newest event and drops at least one; the
\* offset it stops at tells how much went.
LEMMA Trims ==
  ASSUME NEW buf, IsLog(buf), NEW m \in Header .. LogSize, m > ShrinkSize,
         NEW D, Run(buf, m, D), EventAt(buf, m), NEW c, c = m + buf[m].len
  PROVE  LET all == EventsOf(buf, c)
             offset == ShrinkOffset(buf)
         IN  /\ Log!Size(all) = c - Header
             /\ \E k \in 1 .. Len(EventsOf(buf, m)) :
                  /\ EventsOf(Moved(buf, c, offset), Header + c - offset) =
                       SubSeq(all, k + 1, Len(all))
                  /\ Log!Size(SubSeq(all, 1, k)) = offset - Header
<1> DEFINE all == EventsOf(buf, c)
           offset == ShrinkOffset(buf)
<1>1. PICK n, p : To(buf, m, n, p)
  BY RunTo
<1>2. n \in Nat /\ p \in [0 .. n -> Header .. LogSize] /\ p[0] = Header
  BY <1>1, ToIs
<1>3. \E k \in 1 .. n : offset = p[k]
  <2> DEFINE D0 == {p[i] : i \in 0 .. n}
  <2>1. Run(buf, m, D0)
    BY <1>1, ToRun
  <2>2. offset \in D0 /\ offset \in ShrinkSize + 1 .. m
    <3> HIDE DEF D0
    <3>1. m \in Nat /\ m <= LogSize /\ Chained(buf, m, D0)
      BY <2>1, Sizes DEF Run
    <3> QED BY <3>1, Shrinks
  <2>3. PICK k \in 0 .. n : offset = p[k]
    BY <2>2
  <2>4. k # 0
    BY <2>2, <2>3, <1>2, Sizes
  <2> QED BY <2>3, <2>4
<1>4. PICK k \in 1 .. n : offset = p[k]
  BY <1>3
<1> DEFINE q == [i \in 0 .. n + 1 |-> IF i = n + 1 THEN m + buf[m].len ELSE p[i]]
<1>5. /\ To(buf, c, n + 1, q) /\ c \in Header .. LogSize
      /\ q[k] = offset /\ q[n + 1] = c /\ k \in 0 .. n + 1 /\ n + 1 \in 0 .. n + 1
  <2>1. To(buf, c, n + 1, q)
    BY <1>1, ToNext
  <2>2. c \in Header .. LogSize
    BY EventCells
  <2>3. k \in 0 .. n + 1 /\ n + 1 \in 0 .. n + 1 /\ k # n + 1
    BY <1>2
  <2> HIDE DEF offset
  <2> QED BY <2>1, <2>2, <2>3, <1>4
<1> HIDE DEF q, offset
<1>6. all = Read(buf, n + 1, q) /\ EventsOf(buf, m) = Read(buf, n, p)
  BY <1>1, <1>5, EventsTo
<1> HIDE DEF all
<1>7. \E S : all \in Seq(S) /\ Len(all) = n + 1 /\ Len(EventsOf(buf, m)) = n
  <2> DEFINE S == {Rec(buf, a) : a \in Header .. LogSize}
  <2>1. n + 1 \in Nat /\ q \in [0 .. n + 1 -> Header .. LogSize]
    BY <1>5, <1>2, ToIs
  <2>2. /\ \A i \in 0 .. n - 1 : Rec(buf, p[i]) \in S
        /\ \A i \in 0 .. (n + 1) - 1 : Rec(buf, q[i]) \in S
    BY <2>1, <1>2
  <2> HIDE DEF S
  <2>3. Read(buf, n + 1, q) \in Seq(S) /\ Len(Read(buf, n + 1, q)) = n + 1
    BY <2>1, <2>2, ReadIs
  <2>4. Len(Read(buf, n, p)) = n
    BY <2>2, <1>2, ReadIs
  <2> QED BY <2>3, <2>4, <1>6
<1>8. Log!Size(all) = c - Header
  <2>1. SubSeq(all, 1, n + 1) = all
    BY <1>7, SubSeqFull
  <2>2. Log!Size(SubSeq(all, 1, n + 1)) = c - Header
    BY <1>5, <1>6, SizeTo
  <2> QED BY <2>1, <2>2
<1>9. Log!Size(SubSeq(all, 1, k)) = offset - Header
  BY <1>5, <1>6, SizeTo
<1>10. EventsOf(Moved(buf, c, offset), Header + c - offset) = SubSeq(all, k + 1, Len(all))
  <2>1. ASSUME NEW N, N = n + 1
        PROVE  EventsOf(Moved(buf, c, q[k]), Header + c - q[k]) = SubSeq(Read(buf, N, q), k + 1, N)
    <3>1. To(buf, c, N, q) /\ c \in Header .. LogSize /\ k \in 0 .. N
      BY <2>1, <1>5
    <3> QED BY ONLY <3>1, IsLog(buf), ToMoved
  <2> QED BY <2>1, <1>5, <1>6, <1>7
<1>11. k \in 1 .. Len(EventsOf(buf, m))
  BY <1>7
<1> QED BY <1>8, <1>9, <1>10, <1>11 DEF all, offset

\* A log all of whose events are events of another holds a prefix of those.
LEMMA PrefixOf ==
  ASSUME NEW buf, IsLog(buf), NEW buf2, IsLog(buf2), NEW c,
         \A o \in Header .. LogSize :
           EventAt(buf2, o) => o < c /\ EventAt(buf, o) /\ buf2[o] = buf[o]
  PROVE  EventsOf(buf2, LogSize) \in Log!Prefixes(EventsOf(buf, c))
<1>1. PICK n, p : Path(buf, c, Header, n, p)
  BY PathExists, Sizes
<1>2. /\ n \in Nat /\ p \in [0 .. n -> Header .. LogSize] /\ p[0] = Header
      /\ \A i \in 0 .. n - 1 : Starts(buf, c, p[i]) /\ p[i + 1] = p[i] + buf[p[i]].len
      /\ ~Starts(buf, c, p[n])
  BY <1>1 DEF Path
<1> DEFINE U == {i \in 0 .. n : \A j \in 0 .. i - 1 : EventAt(buf2, p[j])}
<1>3. 0 \in U /\ U \in SUBSET (0 .. n)
  BY <1>2
<1>4. PICK l \in U : \A y \in U : y <= l
  <2> HIDE DEF U
  <2> QED BY <1>2, <1>3, Greatest
<1>5. l \in 0 .. n /\ l \in Nat /\ \A j \in 0 .. l - 1 : EventAt(buf2, p[j])
  OBVIOUS
<1>6. ~EventAt(buf2, p[l])
  <2> SUFFICES ASSUME EventAt(buf2, p[l]) PROVE FALSE
    OBVIOUS
  <2>1. l # n
    <3>1. p[l] \in Header .. LogSize
      BY <1>2, <1>5
    <3>2. Starts(buf, c, p[l])
      BY <3>1 DEF Starts
    <3> QED BY <3>2, <1>2
  <2>2. l + 1 \in 0 .. n /\ \A j \in 0 .. (l + 1) - 1 : j = l \/ j \in 0 .. l - 1
    BY <2>1, <1>2, <1>5
  <2>3. \A j \in 0 .. (l + 1) - 1 : EventAt(buf2, p[j])
    BY <2>2, <1>5
  <2>4. l + 1 \in U
    BY <2>2, <2>3
  <2>5. l + 1 <= l
    <3> HIDE DEF U
    <3> QED BY <2>4, <1>4
  <2> QED BY <2>5, <1>5
<1> DEFINE q == [i \in 0 .. l |-> p[i]]
<1>7. q \in [0 .. l -> Header .. LogSize] /\ q[0] = Header /\ \A i \in 0 .. l : q[i] = p[i]
  BY <1>2, <1>5
<1> HIDE DEF q
<1>8. ASSUME NEW i \in 0 .. l - 1
      PROVE  /\ Starts(buf2, LogSize, q[i]) /\ q[i + 1] = q[i] + buf2[q[i]].len
             /\ Rec(buf2, q[i]) = Rec(buf, p[i])
  <2>1. i \in 0 .. l /\ i + 1 \in 0 .. l /\ i \in 0 .. n - 1 /\ i \in 0 .. n
    BY <1>2, <1>5
  <2>2. EventAt(buf2, p[i]) /\ p[i] \in Header .. LogSize
    BY <2>1, <1>2, <1>5
  <2>3. buf2[p[i]] = buf[p[i]]
    BY <2>2
  <2>4. p[i] < LogSize
    BY <2>2 DEF EventAt
  <2> QED BY <2>1, <2>2, <2>3, <2>4, <1>2, <1>7 DEF Starts, Rec
<1>9. Path(buf2, LogSize, Header, l, q)
  <2>1. ~Starts(buf2, LogSize, q[l])
    BY <1>5, <1>6, <1>7 DEF Starts
  <2> QED BY <2>1, <1>5, <1>7, <1>8 DEF Path
<1> DEFINE S == {Rec(buf, a) : a \in Header .. LogSize}
           s == Read(buf, n, p)
           t == Read(buf2, l, q)
           u == SubSeq(s, 1, l)
<1>10. EventsOf(buf2, LogSize) = t /\ EventsOf(buf, c) = s
  BY <1>1, <1>9, EventsAre
<1>11. /\ \A i \in 0 .. n : Rec(buf, p[i]) \in S
       /\ \A i \in 0 .. l - 1 : i \in 0 .. n
       /\ \A i \in 0 .. n - 1 : i \in 0 .. n
  BY <1>2, <1>5
<1> HIDE DEF S
<1>12. s \in Seq(S) /\ Len(s) = n /\ \A i \in 1 .. n : s[i] = Rec(buf, p[i - 1])
  BY <1>2, <1>11, ReadIs
<1>13. t \in Seq(S) /\ Len(t) = l /\ \A i \in 1 .. l : t[i] = Rec(buf2, q[i - 1])
  <2>1. \A i \in 0 .. l - 1 : Rec(buf2, q[i]) \in S
    BY <1>8, <1>11
  <2> QED BY <2>1, <1>5, <1>7, ReadIs
<1> HIDE DEF s, t
<1>14. u \in Seq(S) /\ Len(u) = l /\ \A i \in 1 .. l : u[i] = s[i]
  <2>1. \A i \in 1 .. l : i \in 1 .. Len(s)
    BY <1>2, <1>5, <1>12
  <2>2. \A i \in 1 .. l : s[i] \in S
    BY <2>1, <1>12, ElementOfSeq
  <2>3. /\ u \in Seq(S)
        /\ Len(u) = IF 1 <= l THEN l - 1 + 1 ELSE 0
        /\ \A i \in 1 .. l - 1 + 1 : u[i] = s[1 + i - 1]
    BY <2>2, <1>5, SubSeqProperties
  <2>4. l - 1 + 1 = l /\ (~(1 <= l) => l = 0) /\ \A i \in 1 .. l : 1 + i - 1 = i
    BY <1>5
  <2> QED BY <2>3, <2>4
<1>15. ASSUME NEW i \in 1 .. l PROVE t[i] = u[i]
  <2>1. i - 1 \in 0 .. l - 1 /\ i \in 1 .. n
    BY <1>2, <1>5
  <2>2. Rec(buf2, q[i - 1]) = Rec(buf, p[i - 1])
    BY <2>1, <1>8
  <2> QED BY <2>1, <2>2, <1>12, <1>13, <1>14
<1>16. t = u
  BY <1>13, <1>14, <1>15, SeqEqual
<1> QED BY <1>5, <1>10, <1>12, <1>16 DEF Log!Prefixes


-----------------------------------------------------------------------------
(* The invariant of the refinement.                                        *)

\* An event is a record of its type, length and data.
LEMMA EventForm ==
  ASSUME NEW e \in Events
  PROVE  e = [type |-> e.type, len |-> e.len, data |-> e.data]
BY ElogAssumption DEF Events, Boot, Clear

\* The event that WithEvent adds is there, behind what was there before.
LEMMA Added ==
  ASSUME NEW buf, IsLog(buf), NEW m \in Header .. LogSize, NEW D, Run(buf, m, D),
         NEW e \in Events, m + e.len <= LogSize
  PROVE  LET b == WithEvent(buf, m, e)
         IN  /\ IsLog(b) /\ Run(b, m, D) /\ EventAt(b, m)
             /\ b[m].len = e.len /\ Rec(b, m) = e /\ m + e.len \in Header .. LogSize
             /\ EventsOf(b, m) = EventsOf(buf, m)
<1> DEFINE b == WithEvent(buf, m, e)
<1>1. /\ IsLog(b) /\ \A a \in Cells : a < m => b[a] = buf[a]
      /\ m + e.len \in Nat /\ m + e.len > m
      /\ Run(b, m + e.len, D \cup {m + e.len})
  <2>1. m \in 0 .. LogSize
    BY Sizes
  <2> QED BY <2>1, RunAppend
<1>2. Run(b, m, D)
  <2> HIDE DEF b
  <2> QED BY <1>1, RunLocal
<1>3. EventAt(b, m)
  <2>1. m \in D
    BY DEF Run, Chained
  <2>2. m # m + e.len
    BY <1>1, Sizes
  <2> HIDE DEF b
  <2> QED BY <2>1, <2>2, <1>1 DEF Run
<1>4. b[m] = Cell(e, 1)
  <2>1. e.len \in 1 .. MaxEvent /\ m \in Nat
    BY EventFacts, Sizes
  <2>2. PICK l \in 1 .. MaxEvent : e.len = l
    BY <2>1
  <2>3. m \in Cells /\ m \in m .. m + l - 1 /\ m - m + 1 = 1
    BY <1>3, <2>1, <2>2, Sizes DEF Cells, EventAt
  <2> QED BY <2>2, <2>3 DEF WithEvent
<1>5. b[m].len = e.len /\ Rec(b, m) = [type |-> e.type, len |-> e.len, data |-> e.data]
  BY <1>4 DEF Rec, Cell
<1>6. EventsOf(b, m) = EventsOf(buf, m)
  <2> HIDE DEF b
  <2> QED BY <1>1, EventsOfRun
<1>7. m + e.len \in Header .. LogSize
  BY <1>1, Sizes
<1> QED BY <1>1, <1>2, <1>3, <1>5, <1>6, <1>7, EventForm

\* What is on its way to the flash: one event behind what the flash holds, or
\* all of the mirror, the event of the call last.
Newest ==
  ~failed /\ state = "initialized" /\ pc \in {"erase", "write"} =>
    /\ pc = "erase" => nlast = NV_NEEDS_ERASE
    /\ \E o \in Header .. LogSize :
         /\ EventAt(mirror, o) /\ o + mirror[o].len = mlast
         /\ Rec(mirror, o) = todo[1]
         /\ \E D : Run(mirror, o, D)
         /\ pc = "write" /\ nlast # 0 => o = nlast

\* The strengthening of Inv that the refinement needs.
LogInv == Inv /\ Newest

\* A log that was scanned and found valid has a header.
LEMMA ScannedPositive ==
  ASSUME NEW buf, IsLog(buf), Valid(buf)
  PROVE  Scanned(buf) \notin {0, NV_NEEDS_ERASE}
<1>1. Scanned(buf) \in Header .. LogSize
  BY ValidIs, Scan
<1> QED BY <1>1, Sizes DEF NV_NEEDS_ERASE

\* An event is refused only by a log that is broken.
LEMMA RefusedFailed ==
  ASSUME LogInv, AddRefused
  PROVE  failed' = TRUE
<1>1. pc = "add" /\ Head(todo) # ClearLog /\ failed' = failed
  BY DEF AddRefused
<1>2. Head(todo) = todo[1] /\ todo[1].len \in 1 .. MaxEvent /\ mlast + todo[1].len <= LogSize
  BY <1>1, AddFacts DEF LogInv
<1>3. mlast \in Nat
  BY Numbers DEF LogInv, Inv, Types
<1>4. state = "broken"
  <2>1. PICK l \in 1 .. MaxEvent : l = todo[1].len
    BY <1>2
  <2>2. ~(mlast + l > LogSize)
    BY <1>2, <1>3, <2>1, Sizes
  <2> QED BY <2>1, <2>2, <1>2 DEF AddRefused
<1>5. failed /\ failed \in BOOLEAN
  BY <1>4 DEF LogInv, Inv, Calls, Types, TypeOK
<1> QED BY <1>1, <1>5

\* No event starts in a blank cell, or behind the log.
LEMMA NoEvent ==
  ASSUME NEW buf, NEW m \in 0 .. LogSize, m < LogSize => buf[m] = Eol
  PROVE  ~EventAt(buf, m)
<1>1. Eol.type = "eol"
  BY DEF Eol, Plain
<1> QED BY <1>1 DEF EventAt

\* The mirror, with the flash when nothing is pending.
LEMMA MirrorIs ==
  ASSUME LogInv, ~failed, state = "initialized"
  PROVE  /\ IsLog(flash) /\ IsLog(mirror) /\ HeaderValid(mirror)
         /\ \E D : Run(mirror, mlast, D)
         /\ mlast \in Header .. LogSize - 1 /\ mlast \in Header .. LogSize /\ mlast \in Nat
         /\ mlast \notin {0, NV_NEEDS_ERASE}
<1>1. Types /\ Bounded /\ TypeOK /\ Shape
  BY DEF LogInv, Inv, Types
<1>2. PICK D : Run(mirror, mlast, D)
  BY <1>1 DEF Shape
<1>3. mlast \in Header .. mlast
  BY <1>2, RunStarts
<1>4. mlast \in Nat /\ mlast <= Limit /\ mlast >= Header
  BY <1>1, <1>3, Numbers, Sizes DEF Bounded
<1>5. /\ mlast \in Header .. LogSize - 1 /\ mlast \in Header .. LogSize
      /\ mlast # 0 /\ mlast # LogSize + 1
  BY <1>4, Sizes
<1> QED BY <1>1, <1>2, <1>4, <1>5 DEF Types, Shape, NV_NEEDS_ERASE

\* Between calls and before an event is added to a log that is not empty, the
\* flash is valid and holds what the mirror holds.
LEMMA Settled ==
  ASSUME LogInv, ~failed, state = "initialized", pc \in {"idle", "add"},
         nlast \notin {0, NV_NEEDS_ERASE}
  PROVE  /\ flash = mirror /\ nlast = mlast /\ Valid(flash)
         /\ Kept = EventsOf(mirror, mlast)
<1>1. flash = mirror /\ nlast = mlast /\ IsClear(mirror, mlast)
  BY DEF LogInv, Inv, Trusted
<1>2. /\ IsLog(mirror) /\ HeaderValid(mirror) /\ mlast \in Header .. LogSize - 1
      /\ mlast \in Header .. LogSize /\ mlast \in Nat
  BY MirrorIs
<1>3. PICK D : Run(mirror, mlast, D)
  BY MirrorIs
<1>4. Valid(flash)
  BY <1>1, <1>2, <1>3, GoodLog
<1>5. ~EventAt(mirror, mlast)
  <2>1. mirror[mlast] = Eol /\ mlast \in 0 .. LogSize
    BY <1>1, <1>2, Sizes DEF IsClear
  <2> QED BY <2>1, NoEvent
<1>6. EventsOf(mirror, LogSize) = EventsOf(mirror, mlast)
  BY <1>2, <1>3, <1>5, EventsOfRun
<1> QED BY <1>1, <1>2, <1>4, <1>6 DEF Kept

\* What AddEvent finds when the log is in order.
LEMMA AddedToMirror ==
  ASSUME LogInv, ~failed, state = "initialized", pc = "add", Head(todo) # ClearLog,
         NEW e, e = Head(todo), NEW buf, buf = WithEvent(mirror, mlast, e)
  PROVE  /\ IsLog(buf) /\ (\E D : Run(buf, mlast, D)) /\ EventAt(buf, mlast)
         /\ buf[mlast].len = e.len /\ Rec(buf, mlast) = e /\ e \in Events
         /\ mlast + e.len \in Header .. LogSize
         /\ EventsOf(buf, mlast) = EventsOf(mirror, mlast)
         /\ e.type = "clear" => mlast + e.len < full_threshold
         /\ nlast = NV_NEEDS_ERASE \/ nlast = 0 => e.type = "clear"
         /\ e = todo[1]
<1>1. IsLog(mirror) /\ mlast \in Header .. LogSize
  BY MirrorIs
<1>2. PICK D : Run(mirror, mlast, D)
  BY MirrorIs
<1>3. e = todo[1] /\ e \in Events /\ mlast + e.len <= LogSize
  BY AddFacts DEF LogInv
<1>4. e.type = "clear" => mlast + e.len < full_threshold
  <2>1. e.type = "clear" => e.len = 1 /\ mlast + 1 < full_threshold
    BY <1>3, ClearLength DEF LogInv, Inv, Calls
  <2> QED BY <2>1
<1>5. nlast = NV_NEEDS_ERASE \/ nlast = 0 => e.type = "clear"
  BY <1>3 DEF LogInv, Inv, Calls, Trusted
<1>6. /\ IsLog(buf) /\ Run(buf, mlast, D) /\ EventAt(buf, mlast)
      /\ buf[mlast].len = e.len /\ Rec(buf, mlast) = e
      /\ mlast + e.len \in Header .. LogSize
      /\ EventsOf(buf, mlast) = EventsOf(mirror, mlast)
  BY <1>1, <1>2, <1>3, Added
<1> QED BY <1>3, <1>4, <1>5, <1>6

\* The event that goes to the mirror is the newest.
LEMMA KeepNewest ==
  ASSUME LogInv, pc = "add", Head(todo) # ClearLog,
         mirror' = WithEvent(mirror, mlast, Head(todo)),
         mlast' = mlast + Head(todo).len,
         pc' = IF nlast = NV_NEEDS_ERASE THEN "erase" ELSE "write",
         nlast' = nlast, todo' = todo, state' = state, failed' = failed
  PROVE  Newest'
<1>1. ASSUME ~failed, state = "initialized" PROVE Newest'
  <2> DEFINE e == Head(todo)
             buf == WithEvent(mirror, mlast, e)
  <2>1. /\ EventAt(buf, mlast) /\ buf[mlast].len = e.len /\ Rec(buf, mlast) = todo[1]
        /\ \E D : Run(buf, mlast, D)
    BY <1>1, AddedToMirror
  <2>2. mlast \in Header .. LogSize
    BY <1>1, MirrorIs
  <2>3. nlast \notin {0, NV_NEEDS_ERASE} => nlast = mlast
    BY <1>1, Settled
  <2>4. mirror' = buf /\ mlast' = mlast + e.len
    OBVIOUS
  <2> HIDE DEF buf, e
  <2>5. \E o \in Header .. LogSize :
          /\ EventAt(mirror', o) /\ o + mirror'[o].len = mlast'
          /\ Rec(mirror', o) = todo'[1]
          /\ \E D : Run(mirror', o, D)
          /\ pc' = "write" /\ nlast' # 0 => o = nlast'
    BY <2>1, <2>2, <2>3, <2>4
  <2>6. pc' = "erase" => nlast' = NV_NEEDS_ERASE
    OBVIOUS
  <2>7. (\E o \in Header .. LogSize :
          /\ EventAt(mirror, o) /\ o + mirror[o].len = mlast
          /\ Rec(mirror, o) = todo[1]
          /\ \E D : Run(mirror, o, D)
          /\ pc = "write" /\ nlast # 0 => o = nlast)'
    BY <2>5
  <2> QED BY <2>6, <2>7 DEF Newest, NV_NEEDS_ERASE
<1>2. ASSUME failed \/ state # "initialized" PROVE Newest'
  BY <1>2 DEF Newest
<1> QED BY <1>1, <1>2

\* AddEvent is one of two steps.
LEMMA AddCases ==
  ASSUME AddEvent, NEW buf, buf = WithEvent(mirror, mlast, Head(todo))
  PROVE  /\ pc = "add" /\ Head(todo) # ClearLog
         /\ flash' = flash /\ state' = state /\ erased' = erased /\ failed' = failed
         /\ \/ /\ elog_should_shrink(mlast + Head(todo).len)
               /\ nlast' = elog_nv_needs_possible_erase(nlast)
               /\ mirror' = Moved(buf, mlast + Head(todo).len, ShrinkOffset(buf))
               /\ mlast' = Remaining(mlast + Head(todo).len, ShrinkOffset(buf))
               /\ Continue(<<Clear(ShrunkSize(ShrinkOffset(buf)))>> \o Tail(todo))
            \/ /\ mirror' = buf /\ mlast' = mlast + Head(todo).len
               /\ pc' = IF nlast = NV_NEEDS_ERASE THEN "erase" ELSE "write"
               /\ nlast' = nlast /\ todo' = todo
BY DEF AddEvent

\* Both of them keep the invariant.
LEMMA AddEventNewest ==
  ASSUME LogInv, AddEvent
  PROVE  Newest'
<1> DEFINE buf == WithEvent(mirror, mlast, Head(todo))
<1>1. buf = WithEvent(mirror, mlast, Head(todo))
  OBVIOUS
<1> HIDE DEF buf
<1>2. pc = "add" /\ Head(todo) # ClearLog /\ state' = state /\ failed' = failed
  BY <1>1, AddCases
<1>3. CASE Continue(<<Clear(ShrunkSize(ShrinkOffset(buf)))>> \o Tail(todo))
  BY <1>3 DEF Newest, Continue
<1>4. CASE /\ mirror' = buf /\ mlast' = mlast + Head(todo).len
           /\ pc' = IF nlast = NV_NEEDS_ERASE THEN "erase" ELSE "write"
           /\ nlast' = nlast /\ todo' = todo
  BY <1>1, <1>2, <1>4, KeepNewest
<1> QED BY <1>1, <1>3, <1>4, AddCases

\* The erase leaves the mirror alone.
LEMMA EraseNvNewest ==
  ASSUME LogInv, EraseNv
  PROVE  Newest'
<1>1. /\ pc = "erase" /\ pc' = "write" /\ nlast' = 0
      /\ mirror' = mirror /\ mlast' = mlast /\ state' = state /\ todo' = todo
      /\ failed' = failed \/ failed' = TRUE
  BY DEF EraseNv, volatile, Report
<1>2. ASSUME ~failed, failed' = failed, state = "initialized" PROVE Newest'
  <2>1. PICK o \in Header .. LogSize :
          /\ EventAt(mirror, o) /\ o + mirror[o].len = mlast
          /\ Rec(mirror, o) = todo[1]
          /\ \E D : Run(mirror, o, D)
    BY <1>1, <1>2 DEF LogInv, Newest
  <2>2. (/\ EventAt(mirror, o) /\ o + mirror[o].len = mlast
         /\ Rec(mirror, o) = todo[1]
         /\ \E D : Run(mirror, o, D))'
    BY <1>1, <2>1
  <2> QED BY <1>1, <2>2 DEF Newest
<1> QED BY <1>1, <1>2 DEF Newest

\* Every step keeps the invariant.
LEMMA LogInductive == LogInv /\ [Next]_vars => LogInv'
<1> SUFFICES ASSUME LogInv, [Next]_vars PROVE LogInv'
  OBVIOUS
<1> SUFFICES Newest'
  <2>1. Inv'
    BY Inductive DEF LogInv
  <2> QED BY <2>1 DEF LogInv
<1>1. CASE UNCHANGED vars
  BY <1>1 DEF LogInv, Newest, NV_NEEDS_ERASE, vars
<1>2. CASE \E e \in UserEvents \cup {ClearLog} : Call(e)
  BY <1>2 DEF Call, Newest
<1>3. CASE CallBroken
  BY <1>3 DEF CallBroken, LogInv, Newest, NV_NEEDS_ERASE, vars
<1>4. CASE InitScan \/ AddClearLog \/ AddRefused \/ Rescan
  BY <1>4 DEF InitScan, AddClearLog, AddRefused, Rescan, Continue, Newest
<1>5. CASE InitReadFails \/ RescanFails
  BY <1>5 DEF InitReadFails, RescanFails, Report, Broken, Newest
<1>6. CASE AddEvent
  BY <1>6, AddEventNewest
<1>7. CASE EraseNv
  BY <1>7, EraseNvNewest
<1>8. CASE WriteNv
  BY <1>8 DEF WriteNv, Continue, Newest
<1>9. CASE Reset
  BY <1>9 DEF Reset, Newest
<1> QED
  BY <1>1, <1>2, <1>3, <1>4, <1>5, <1>6, <1>7, <1>8, <1>9 DEF Next, Step

\* It always holds.
LEMMA LogAlways == Spec => []LogInv
<1>1. Init => LogInv
  <2>1. Init => Newest
    BY DEF Init, Newest
  <2> QED BY <2>1, InitInv DEF LogInv
<1> QED BY <1>1, LogInductive, PTL DEF Spec

-----------------------------------------------------------------------------
(* Every step is a step of the abstract log.                               *)

\* A header that is blank.
LEMMA NoHeader ==
  ASSUME flash[0] = Eol
  PROVE  Kept = <<>>
<1>1. Hdr # Eol /\ 0 \in 0 .. Header - 1
  BY Sizes DEF Hdr, Eol, Plain
<1>2. ~HeaderValid(flash)
  BY <1>1 DEF HeaderValid
<1> QED BY <1>2 DEF Kept

\* An error, now or earlier in this boot, promises nothing.
LEMMA FaultStep ==
  ASSUME failed' = TRUE
  PROVE  Log!Next
BY DEF Log!Next, Log!Fault

\* The abstract log sees of the flash what can be read.
LEMMA FlashKept ==
  ASSUME flash' = flash
  PROVE  Kept' = Kept /\ Readable' = Readable
BY DEF Kept, Readable

\* An event of a log that is in order is added, or the log is to be replaced.
LEMMA AddingFacts ==
  ASSUME LogInv, ~failed, pc = "add"
  PROVE  /\ state = "initialized" /\ Plan(todo) /\ todo # <<>> /\ Head(todo) = todo[1]
         /\ Rewriting => todo[1].type = "clear"
<1>1. Calls /\ Trusted /\ TypeOK
  BY DEF LogInv, Inv, Types
<1>2. state = "initialized" /\ Plan(todo) /\ todo # <<>>
  BY <1>1 DEF Calls, TypeOK
<1>3. Head(todo) = todo[1]
  BY <1>2, PlanTail
<1> QED BY <1>1, <1>2, <1>3 DEF Rewriting, Calls, Trusted

\* elog_prepare_empty leaves no event in the mirror.
LEMMA EmptyMirror ==
  ASSUME NEW buf, IsLog(buf), NEW n, PrepareEmpty(buf, n), state' = "initialized",
         pc' = "add"
  PROVE  Rewriting' = TRUE /\ Coming' = <<>>
<1>1. mirror' = WithHeader(buf) /\ mlast' = Header /\ nlast' \in {0, NV_NEEDS_ERASE}
  BY DEF PrepareEmpty, elog_nv_needs_possible_erase
<1>2. IsLog(WithHeader(buf))
  BY HeaderOnly
<1>3. EventsOf(WithHeader(buf), Header) = <<>>
  BY <1>2, EventsNone
<1>4. Rewriting' = TRUE
  BY <1>1 DEF Rewriting, NV_NEEDS_ERASE
<1>5. EventsOf(mirror, mlast)' = <<>>
  BY <1>1, <1>3
<1> QED BY <1>4, <1>5 DEF Coming

\* A call begins.
LEMMA CallMaps ==
  ASSUME LogInv, NEW e \in UserEvents \cup {ClearLog}, Call(e)
  PROVE  Log!Next
<1>1. /\ pc = "idle" /\ todo' = <<e>> /\ pc' \in {"scan", "add"} /\ flash' = flash
      /\ nlast' = nlast /\ state' = state /\ failed' = failed
  BY DEF Call
<1>2. CASE failed
  BY <1>1, <1>2, FaultStep DEF LogInv, Inv, Types, TypeOK
<1>3. CASE ~failed
  <2>1. todo = <<>> /\ (state = "initialized" => nlast \notin {0, NV_NEEDS_ERASE})
    BY <1>1, <1>3 DEF LogInv, Inv, Calls, Trusted
  <2>2. Due = <<>> /\ Due' = <<e>>
    BY <1>1, <2>1 DEF Due
  <2>3. Rewriting = FALSE /\ Rewriting' = FALSE
    BY <1>1, <2>1 DEF Rewriting, NV_NEEDS_ERASE
  <2>4. Coming = <<>> /\ Coming' = <<>>
    BY <2>3 DEF Coming
  <2>5. Kept' = Kept /\ Readable' = Readable
    BY <1>1, FlashKept
  <2>6. /\ (state # "uninitialized")' = (state # "uninitialized")
        /\ (pc \in {"erase", "write"})' = (pc \in {"erase", "write"})
    BY <1>1
  <2>7. Log!Call(e)
    BY <1>1, <2>2, <2>3, <2>4, <2>5, <2>6 DEF Log!Call
  <2> QED BY <1>3, <2>7 DEF Log!Next
<1> QED BY <1>2, <1>3

\* elog_init goes on with a log that is valid and empties one that is not.
LEMMA InitScanMaps ==
  ASSUME LogInv, InitScan
  PROVE  Log!Next
<1>1. /\ pc = "scan" /\ state' = "initialized" /\ flash' = flash /\ failed' = failed
  BY DEF InitScan
<1>2. CASE failed
  BY <1>1, <1>2, FaultStep DEF LogInv, Inv, Types, TypeOK
<1>3. CASE ~failed
  <2>1. /\ IsLog(flash) /\ Plan(todo) /\ NoClear(todo) /\ Len(todo) = 1
        /\ state = "uninitialized"
    BY <1>1 DEF LogInv, Inv, Types, Calls
  <2>2. todo # <<>> /\ todo \in Seq(Events \cup {ClearLog})
    BY <2>1 DEF Plan
  <2>3. Due = todo /\ Rewriting = FALSE
    BY <1>1 DEF Due, Rewriting
  <2>4. Coming = <<>>
    BY <2>3 DEF Coming
  <2>5. Kept' = Kept /\ Readable' = Readable
    BY <1>1, FlashKept
  <2>6. PICK boot \in {<<>>, <<Boot>>} :
          \/ /\ Valid(flash) /\ nlast' = Scanned(flash) /\ Continue(boot \o todo)
          \/ /\ ~Valid(flash) /\ PrepareEmpty(flash, Scanned(flash))
             /\ Continue(<<Clear(total_event_space)>> \o boot \o todo)
    BY DEF InitScan
  <2>7. CASE Valid(flash) /\ nlast' = Scanned(flash) /\ Continue(boot \o todo)
    <3>1. pc' = "add" /\ todo' = boot \o todo
      BY <2>1, <2>7, BootPlan DEF Continue
    <3>2. Due' = boot \o todo
      BY <3>1 DEF Due
    <3>3. nlast' \notin {0, NV_NEEDS_ERASE}
      BY <2>1, <2>7, ScannedPositive
    <3>4. Rewriting' = FALSE
      BY <3>3 DEF Rewriting, NV_NEEDS_ERASE
    <3>5. Coming' = <<>> /\ Readable
      BY <2>7, <3>4 DEF Coming, Readable
    <3>6. /\ (state # "uninitialized") = FALSE /\ (state # "uninitialized")' = TRUE
          /\ (pc \in {"erase", "write"})' = (pc \in {"erase", "write"})
      BY <1>1, <2>1, <3>1
    <3>7. /\ Readable /\ Due' = boot \o Due /\ Rewriting' = Rewriting /\ Coming' = Coming
          /\ Due # <<>>
      BY <2>2, <2>3, <2>4, <3>2, <3>4, <3>5
    <3>8. Log!Ready
      BY <1>1, <2>5, <3>6, <3>7 DEF Log!Ready
    <3> QED BY <1>3, <3>8 DEF Log!Next
  <2>8. CASE /\ ~Valid(flash) /\ PrepareEmpty(flash, Scanned(flash))
             /\ Continue(<<Clear(total_event_space)>> \o boot \o todo)
    <3>1. pc' = "add" /\ todo' = <<Clear(total_event_space)>> \o boot \o todo
      BY <2>1, <2>8, BootPlan DEF Continue
    <3>2. <<Clear(total_event_space)>> \o boot \o todo =
            <<Clear(total_event_space)>> \o (boot \o todo)
      BY <2>1, BootPlan
    <3>3. Due' = <<Clear(total_event_space)>> \o (boot \o todo)
      BY <3>1, <3>2 DEF Due
    <3>4. Rewriting' = TRUE /\ Coming' = <<>>
      BY <1>1, <2>1, <2>8, <3>1, EmptyMirror
    <3>5. ~Readable \/ Kept = <<>>
      <4>1. Readable => flash[0] = Eol
        BY <2>8, Sizes DEF Readable, IsClear
      <4> QED BY <4>1, NoHeader
    <3>6. Log!Replace(<<>>, total_event_space, boot \o Due)
      BY <2>3, <3>3, <3>4 DEF Log!Replace
    <3>7. /\ (state # "uninitialized") = FALSE /\ (state # "uninitialized")' = TRUE
          /\ (pc \in {"erase", "write"})' = (pc \in {"erase", "write"})
          /\ Due # <<>>
      BY <1>1, <2>1, <2>2, <2>3, <3>1
    <3>8. Log!Ready
      BY <1>1, <2>5, <3>5, <3>6, <3>7 DEF Log!Ready
    <3> QED BY <1>3, <3>8 DEF Log!Next
  <2> QED BY <2>6, <2>7, <2>8
<1> QED BY <1>2, <1>3

\* elog_clear empties the log.
LEMMA AddClearLogMaps ==
  ASSUME LogInv, AddClearLog
  PROVE  Log!Next
<1>1. /\ pc = "add" /\ Head(todo) = ClearLog /\ PrepareEmpty(mirror, nlast)
      /\ Continue(<<Clear(total_event_space)>> \o Tail(todo))
      /\ flash' = flash /\ state' = state /\ failed' = failed
  BY DEF AddClearLog
<1>2. CASE failed
  BY <1>1, <1>2, FaultStep DEF LogInv, Inv, Types, TypeOK
<1>3. CASE ~failed
  <2>1. /\ state = "initialized" /\ Plan(todo) /\ todo # <<>> /\ Head(todo) = todo[1]
        /\ Rewriting => todo[1].type = "clear"
    BY <1>1, <1>3, AddingFacts
  <2>2. Rewriting = FALSE
    <3>1. ~Rewriting
      BY <1>1, <2>1 DEF ClearLog
    <3> QED BY <3>1 DEF Rewriting
  <2>3. Tail(todo) \in Seq(Events \cup {ClearLog})
    BY <2>1, PlanTail
  <2>4. <<Clear(total_event_space)>> \o Tail(todo) # <<>>
    BY <2>3
  <2>5. pc' = "add" /\ todo' = <<Clear(total_event_space)>> \o Tail(todo)
    BY <1>1, <2>4 DEF Continue
  <2>6. Due = todo /\ Due' = <<Clear(total_event_space)>> \o Tail(todo)
    BY <1>1, <2>5 DEF Due
  <2>7. Rewriting' = TRUE /\ Coming' = <<>>
    BY <1>1, <2>1, <2>5, EmptyMirror DEF LogInv, Inv, Types
  <2>8. Kept' = Kept /\ Readable' = Readable
    BY <1>1, FlashKept
  <2>9. Log!Replace(<<>>, total_event_space, Tail(Due))
    BY <2>2, <2>6, <2>7 DEF Log!Replace
  <2>10. Log!Empty
    BY <1>1, <2>1, <2>5, <2>6, <2>8, <2>9 DEF Log!Empty
  <2> QED BY <1>3, <2>10 DEF Log!Next
<1> QED BY <1>2, <1>3

\* A shrink leaves the mirror without the oldest events, and the clear event to
\* add.
LEMMA ShrinkMaps ==
  ASSUME LogInv, pc = "add", Head(todo) # ClearLog, NEW buf,
         buf = WithEvent(mirror, mlast, Head(todo)),
         elog_should_shrink(mlast + Head(todo).len),
         nlast' = elog_nv_needs_possible_erase(nlast),
         mirror' = Moved(buf, mlast + Head(todo).len, ShrinkOffset(buf)),
         mlast' = Remaining(mlast + Head(todo).len, ShrinkOffset(buf)),
         Continue(<<Clear(ShrunkSize(ShrinkOffset(buf)))>> \o Tail(todo)),
         flash' = flash, state' = state, failed' = failed
  PROVE  Log!Next
<1>1. CASE failed
  BY <1>1, FaultStep DEF LogInv, Inv, Types, TypeOK
<1>2. CASE ~failed
  <2> DEFINE e == Head(todo)
             m == mlast + e.len
             offset == ShrinkOffset(buf)
  <2>1. /\ state = "initialized" /\ Plan(todo) /\ todo # <<>> /\ Head(todo) = todo[1]
        /\ Rewriting => todo[1].type = "clear"
    BY <1>2, AddingFacts
  <2>2. /\ IsLog(buf) /\ EventAt(buf, mlast)
        /\ buf[mlast].len = e.len /\ Rec(buf, mlast) = e /\ e \in Events
        /\ m \in Header .. LogSize
        /\ EventsOf(buf, mlast) = EventsOf(mirror, mlast)
        /\ e.type = "clear" => m < full_threshold
        /\ nlast = NV_NEEDS_ERASE \/ nlast = 0 => e.type = "clear"
    BY <1>2, <2>1, AddedToMirror
  <2>3. PICK D : Run(buf, mlast, D)
    BY <1>2, <2>1, AddedToMirror
  <2>4. m >= full_threshold
    BY DEF elog_should_shrink
  <2>5. nlast \notin {0, NV_NEEDS_ERASE}
    BY <2>2, <2>4, Sizes
  <2>6. Valid(flash) /\ Kept = EventsOf(mirror, mlast)
    BY <1>2, <2>1, <2>5, Settled
  <2>7. mlast \in Header .. LogSize /\ mlast > ShrinkSize
    <3>1. mlast \in Header .. LogSize /\ mlast \in Nat
      BY <1>2, <2>1, MirrorIs
    <3>2. PICK l \in 1 .. MaxEvent : e.len = l
      BY <2>2, EventFacts
    <3>3. mlast + l >= LogSize - 2 * MaxEvent
      BY <2>4, <3>2 DEF full_threshold
    <3>4. /\ ShrinkSize + 3 * MaxEvent < LogSize
          /\ MaxEvent \in Nat /\ LogSize \in Nat /\ ShrinkSize \in Nat
      BY ElogAssumption
    <3> QED BY <3>1, <3>2, <3>3, <3>4
  <2>8. m = mlast + buf[mlast].len
    BY <2>2
  <2> HIDE DEF m, offset, e
  <2> DEFINE all == EventsOf(buf, m)
  <2>9. /\ Log!Size(all) = m - Header
        /\ \E k \in 1 .. Len(EventsOf(buf, mlast)) :
             /\ EventsOf(Moved(buf, m, offset), Header + m - offset) = SubSeq(all, k + 1, Len(all))
             /\ Log!Size(SubSeq(all, 1, k)) = offset - Header
    <3>1. IsLog(buf) /\ EventAt(buf, mlast) /\ Run(buf, mlast, D)
      BY <2>2, <2>3
    <3> QED BY ONLY <3>1, <2>7, <2>8, Trims DEF offset
  <2>10. all = Append(Kept, e)
    <3>1. EventsOf(buf, mlast + buf[mlast].len) = Append(EventsOf(buf, mlast), Rec(buf, mlast))
      BY <2>2, <2>3, <2>7, EventsNext
    <3> QED BY <3>1, <2>2, <2>6, <2>8
  <2> HIDE DEF all
  <2>11. PICK k \in 1 .. Len(Kept) :
           /\ EventsOf(Moved(buf, m, offset), Header + m - offset) = SubSeq(all, k + 1, Len(all))
           /\ Log!Size(SubSeq(all, 1, k)) = offset - Header
    BY <2>2, <2>6, <2>9
  <2>12. mirror' = Moved(buf, m, offset) /\ mlast' = Header + m - offset
    BY DEF m, offset, e, Remaining
  <2>13. todo' = <<Clear(offset - Header)>> \o Tail(todo) /\ pc' = "add"
    <3>1. Tail(todo) \in Seq(Events \cup {ClearLog})
      BY <2>1, PlanTail
    <3>2. <<Clear(offset - Header)>> \o Tail(todo) # <<>>
      BY <3>1
    <3> QED BY <3>2 DEF offset, Continue, ShrunkSize
  <2>14. Log!Size(all) >= full_threshold - Header
    <3>1. m - Header >= full_threshold - Header
      BY <2>2, <2>4, Sizes DEF m
    <3> QED BY <2>9, <3>1
  <2>15. nlast' = NV_NEEDS_ERASE
    BY <2>5 DEF elog_nv_needs_possible_erase
  <2>16. Rewriting = FALSE /\ Rewriting' = TRUE
    BY <2>1, <2>5, <2>13, <2>15 DEF Rewriting, NV_NEEDS_ERASE
  <2>17. Coming' = SubSeq(all, k + 1, Len(all))
    BY <2>11, <2>12, <2>16 DEF Coming
  <2>18. Due = todo /\ Due' = <<Clear(Log!Size(SubSeq(all, 1, k)))>> \o Tail(Due)
    BY <2>11, <2>13 DEF Due
  <2>19. Kept' = Kept /\ Readable' = Readable /\ Readable
    BY <2>6, FlashKept DEF Readable
  <2>20. Log!Replace(SubSeq(all, k + 1, Len(all)), Log!Size(SubSeq(all, 1, k)), Tail(Due))
    BY <2>16, <2>17, <2>18 DEF Log!Replace
  <2>21. all = Append(Kept, Head(Due))
    BY <2>10, <2>18 DEF e
  <2>22. Log!Trim(k)
    BY <2>1, <2>13, <2>14, <2>18, <2>19, <2>20, <2>21 DEF Log!Trim
  <2> QED BY <1>2, <2>22 DEF Log!Next
<1> QED BY <1>1, <1>2

\* An event that goes to the mirror without a shrink starts an append, or the
\* write of a log that is to be replaced.
LEMMA KeepMaps ==
  ASSUME LogInv, pc = "add", Head(todo) # ClearLog,
         mirror' = WithEvent(mirror, mlast, Head(todo)),
         mlast' = mlast + Head(todo).len,
         pc' = IF nlast = NV_NEEDS_ERASE THEN "erase" ELSE "write",
         nlast' = nlast, todo' = todo,
         flash' = flash, state' = state, failed' = failed
  PROVE  Log!Next
<1>1. CASE failed
  BY <1>1, FaultStep DEF LogInv, Inv, Types, TypeOK
<1>2. CASE ~failed
  <2>1. state = "initialized" /\ todo # <<>> /\ Head(todo) = todo[1]
    BY <1>2, AddingFacts
  <2>2. Kept' = Kept /\ Readable' = Readable
    BY FlashKept
  <2>3. Due = todo /\ Due' = todo
    BY DEF Due
  <2>4. /\ nlast \notin {0, NV_NEEDS_ERASE} => Rewriting = FALSE /\ Rewriting' = FALSE
        /\ nlast \in {0, NV_NEEDS_ERASE} => Rewriting = TRUE /\ Rewriting' = TRUE
    BY <2>1 DEF Rewriting, NV_NEEDS_ERASE
  <2>5. CASE nlast \notin {0, NV_NEEDS_ERASE}
    <3>1. Readable
      BY <1>2, <2>1, <2>5, Settled DEF Readable
    <3>2. ~Rewriting /\ ~Rewriting'
      BY <2>4, <2>5
    <3>3. Coming = <<>> /\ Coming' = <<>>
      BY <3>2 DEF Coming
    <3>4. Log!StartWrite
      BY <2>1, <2>2, <2>3, <2>4, <2>5, <3>1, <3>2, <3>3 DEF Log!StartWrite
    <3> QED BY <1>2, <3>4 DEF Log!Next
  <2>6. CASE nlast \in {0, NV_NEEDS_ERASE}
    <3> DEFINE e == Head(todo)
               buf == WithEvent(mirror, mlast, e)
    <3>1. /\ IsLog(buf) /\ EventAt(buf, mlast)
          /\ buf[mlast].len = e.len /\ Rec(buf, mlast) = e
          /\ EventsOf(buf, mlast) = EventsOf(mirror, mlast) /\ e = todo[1]
      BY <1>2, <2>1, AddedToMirror
    <3>2. PICK D : Run(buf, mlast, D)
      BY <1>2, <2>1, AddedToMirror
    <3>3. mirror' = buf /\ mlast' = mlast + e.len
      OBVIOUS
    <3>4. mlast \in Header .. LogSize
      BY <1>2, <2>1, MirrorIs
    <3>5. e = Head(todo)
      OBVIOUS
    <3> HIDE DEF buf, e
    <3>6. EventsOf(buf, mlast + buf[mlast].len) = Append(EventsOf(buf, mlast), Rec(buf, mlast))
      BY <3>1, <3>2, <3>4, EventsNext
    <3>7. EventsOf(mirror, mlast)' = Append(EventsOf(mirror, mlast), e)
      BY <3>1, <3>3, <3>6
    <3>8. Rewriting /\ Rewriting'
      BY <2>4, <2>6
    <3>9. Coming' = Append(Coming, Head(Due))
      BY <2>3, <3>5, <3>7, <3>8 DEF Coming
    <3>10. Log!StartWrite
      BY <2>1, <2>2, <2>3, <2>4, <2>6, <3>8, <3>9 DEF Log!StartWrite
    <3> QED BY <1>2, <3>10 DEF Log!Next
  <2> QED BY <2>5, <2>6
<1> QED BY <1>1, <1>2

\* Both cases of an event that is added.
LEMMA AddEventMaps ==
  ASSUME LogInv, AddEvent
  PROVE  Log!Next
<1> DEFINE buf == WithEvent(mirror, mlast, Head(todo))
<1>1. buf = WithEvent(mirror, mlast, Head(todo))
  OBVIOUS
<1> HIDE DEF buf
<1>2. /\ pc = "add" /\ Head(todo) # ClearLog
      /\ flash' = flash /\ state' = state /\ failed' = failed
  BY <1>1, AddCases
<1>3. CASE /\ elog_should_shrink(mlast + Head(todo).len)
           /\ nlast' = elog_nv_needs_possible_erase(nlast)
           /\ mirror' = Moved(buf, mlast + Head(todo).len, ShrinkOffset(buf))
           /\ mlast' = Remaining(mlast + Head(todo).len, ShrinkOffset(buf))
           /\ Continue(<<Clear(ShrunkSize(ShrinkOffset(buf)))>> \o Tail(todo))
  BY <1>1, <1>2, <1>3, ShrinkMaps
<1>4. CASE /\ mirror' = buf /\ mlast' = mlast + Head(todo).len
           /\ pc' = IF nlast = NV_NEEDS_ERASE THEN "erase" ELSE "write"
           /\ nlast' = nlast /\ todo' = todo
  BY <1>1, <1>2, <1>4, KeepMaps
<1> QED BY <1>1, <1>3, <1>4, AddCases

\* elog_nv_erase is the abstract erase.
LEMMA EraseMaps ==
  ASSUME LogInv, EraseNv
  PROVE  Log!Next
<1>1. CASE failed' = TRUE
  BY <1>1, FaultStep
<1>2. CASE failed' # TRUE
  <2>1. /\ pc = "erase" /\ pc' = "write" /\ nlast' = 0 /\ mirror' = mirror
        /\ mlast' = mlast /\ state' = state /\ todo' = todo
        /\ flash' = Erased(Cells) /\ failed' = failed
    BY <1>2 DEF EraseNv, Report, volatile
  <2>2. ~failed /\ state = "initialized"
    BY <1>2, <2>1 DEF LogInv, Inv, Types, TypeOK, Calls
  <2>3. \A a \in Cells : flash'[a] = Eol
    BY <2>1 DEF Erased
  <2>4. Readable' = TRUE
    <3>1. IsClear(flash', 0)
      BY <2>3, Sizes DEF IsClear, Cells
    <3> QED BY <3>1 DEF Readable
  <2>5. Kept' = <<>>
    <3>1. flash'[0] = Eol
      BY <2>3, Sizes DEF Cells
    <3>2. Hdr # Eol /\ 0 \in 0 .. Header - 1
      BY Sizes DEF Hdr, Eol, Plain
    <3>3. ~HeaderValid(flash')
      BY <3>1, <3>2 DEF HeaderValid
    <3> QED BY <3>3 DEF Kept
  <2>6. nlast = NV_NEEDS_ERASE
    BY <2>1, <2>2 DEF LogInv, Newest
  <2>7. Rewriting = TRUE /\ Rewriting' = TRUE
    BY <2>1, <2>2, <2>6 DEF Rewriting
  <2>8. Coming' = Coming
    BY <2>1, <2>7 DEF Coming
  <2>9. Due' = Due
    BY <2>1 DEF Due
  <2>10. Log!Erase
    BY <2>1, <2>4, <2>5, <2>7, <2>8, <2>9 DEF Log!Erase
  <2> QED BY <2>2, <2>10 DEF Log!Next
<1> QED BY <1>1, <1>2

\* What the flash holds while it is written.
LEMMA BeforeWrite ==
  ASSUME LogInv, ~failed, state = "initialized", pc = "write"
  PROVE  /\ \A a \in Cells : flash[a] = IF a < nlast THEN mirror[a] ELSE Eol
         /\ nlast \in 0 .. mlast /\ nlast \in Nat
         /\ nlast = 0 => IsClear(flash, 0) /\ Kept = <<>>
         /\ Rewriting = (nlast = 0)
<1>1. /\ \A a \in Cells : flash[a] = IF a < nlast THEN mirror[a] ELSE Eol
      /\ nlast # NV_NEEDS_ERASE
  BY DEF LogInv, Inv, Calls, Trusted
<1>2. nlast \in 0 .. mlast /\ nlast \in Nat
  BY <1>1, Numbers DEF LogInv, Inv, Types
<1>3. nlast = 0 => IsClear(flash, 0) /\ flash[0] = Eol
  BY <1>1, Sizes DEF IsClear, Cells
<1>4. Rewriting = (nlast = 0)
  BY <1>1 DEF Rewriting
<1> QED BY <1>1, <1>2, <1>3, <1>4, NoHeader

\* An event behind the flash: where it starts, and what the flash holds.
LEMMA BeforeAppend ==
  ASSUME LogInv, ~failed, state = "initialized", pc = "write", nlast # 0
  PROVE  /\ nlast \in Header .. LogSize
         /\ EventAt(mirror, nlast) /\ nlast + mirror[nlast].len = mlast
         /\ Rec(mirror, nlast) = todo[1]
         /\ (\E D : Run(mirror, nlast, D))
         /\ Kept = EventsOf(mirror, nlast) /\ Readable = TRUE
         /\ HeaderValid(flash)
<1>1. /\ \A a \in Cells : flash[a] = IF a < nlast THEN mirror[a] ELSE Eol
      /\ nlast \in 0 .. mlast /\ nlast \in Nat
  BY BeforeWrite
<1>2. /\ nlast \in Header .. LogSize
      /\ EventAt(mirror, nlast) /\ nlast + mirror[nlast].len = mlast
      /\ Rec(mirror, nlast) = todo[1]
      /\ (\E D : Run(mirror, nlast, D))
  BY DEF LogInv, Newest
<1>3. /\ IsLog(flash) /\ IsLog(mirror) /\ HeaderValid(mirror)
      /\ mlast \in Nat /\ mlast \in Header .. LogSize - 1
  BY MirrorIs
<1>4. nlast \in Header .. LogSize - 1 /\ nlast \in 0 .. LogSize
  BY <1>1, <1>2, <1>3, Sizes
<1>5. PICK D : Run(mirror, nlast, D)
  BY <1>2
<1>6. \A a \in Cells : a < nlast => flash[a] = mirror[a]
  BY <1>1
<1>7. Run(flash, nlast, D)
  BY <1>2, <1>3, <1>5, <1>6, RunLocal
<1>8. IsClear(flash, nlast)
  <2>1. \A a \in nlast .. LogSize - 1 : a \in Cells /\ ~(a < nlast)
    BY <1>1, Sizes DEF Cells
  <2> QED BY <1>1, <2>1 DEF IsClear
<1>9. HeaderValid(flash)
  <2>1. \A a \in 0 .. Header - 1 : a \in Cells /\ a < nlast
    BY <1>4, Sizes DEF Cells
  <2> QED BY <1>3, <1>6, <2>1 DEF HeaderValid
<1>10. Valid(flash)
  BY <1>3, <1>4, <1>7, <1>8, <1>9, GoodLog
<1>11. ~EventAt(flash, nlast)
  <2>1. flash[nlast] = Eol
    BY <1>4, <1>8 DEF IsClear
  <2> QED BY <1>4, <2>1, NoEvent
<1>12. EventsOf(flash, LogSize) = EventsOf(mirror, nlast)
  BY <1>2, <1>3, <1>5, <1>6, <1>11, EventsOfRun
<1>13. Readable = TRUE
  BY <1>10 DEF Readable
<1> QED BY <1>2, <1>9, <1>12, <1>13 DEF Kept

\* After the write the flash is what the mirror was.
LEMMA AfterWrite ==
  ASSUME LogInv, ~failed, state = "initialized", pc = "write",
         flash' = Written(mlast - nlast)
  PROVE  Valid(flash)' /\ Kept' = EventsOf(mirror, mlast)
<1>1. /\ IsLog(flash) /\ IsLog(mirror) /\ HeaderValid(mirror) /\ mlast \in Nat
      /\ mlast \in Header .. LogSize - 1 /\ mlast \in Header .. LogSize
  BY MirrorIs
<1>2. PICK D : Run(mirror, mlast, D)
  BY MirrorIs
<1>3. \A a \in Cells : flash'[a] = IF a < mlast THEN mirror[a] ELSE Eol
  BY <1>1, BeforeWrite, WrittenIs
<1>4. IsLog(flash')
  <2>1. TopClear(flash) /\ mlast \in 0 .. Limit /\ nlast \in 0 .. mlast
    BY BeforeWrite, Numbers DEF LogInv, Inv, Types, Bounded
  <2> QED BY <2>1, <1>1, FlashOps
<1>5. /\ IsClear(flash', mlast) /\ HeaderValid(flash')
      /\ \A a \in Cells : a < mlast => flash'[a] = mirror[a]
  <2>1. \A a \in mlast .. LogSize - 1 : a \in Cells /\ ~(a < mlast)
    BY <1>1, Sizes DEF Cells
  <2>2. \A a \in 0 .. Header - 1 : a \in Cells /\ a < mlast
    BY <1>1, Sizes DEF Cells
  <2>3. \A a \in Cells : a < mlast => flash'[a] = mirror[a]
    BY <1>3
  <2> QED BY <1>1, <1>3, <2>1, <2>2, <2>3 DEF IsClear, HeaderValid
<1>6. Run(flash', mlast, D)
  BY <1>1, <1>2, <1>5, RunLocal
<1>7. Valid(flash')
  BY <1>1, <1>4, <1>5, <1>6, GoodLog
<1>8. ~EventAt(flash', mlast)
  <2>1. flash'[mlast] = Eol /\ mlast \in 0 .. LogSize
    BY <1>1, <1>5, Sizes DEF IsClear
  <2> QED BY <2>1, NoEvent
<1>9. EventsOf(flash', LogSize) = EventsOf(mirror, mlast)
  BY <1>1, <1>2, <1>4, <1>5, <1>8, EventsOfRun
<1> QED BY <1>5, <1>7, <1>9 DEF Kept

\* elog_nv_write ends an append, or replaces the log.
LEMMA WriteMaps ==
  ASSUME LogInv, WriteNv
  PROVE  Log!Next
<1>1. CASE failed' = TRUE
  BY <1>1, FaultStep
<1>2. CASE failed' # TRUE
  <2>1. /\ pc = "write" /\ flash' = Written(mlast - nlast) /\ failed' = failed
        /\ nlast' = mlast /\ state' = state
        /\ \/ pc' = "rescan" /\ todo' = todo
           \/ pc' \in {"idle", "add"} /\ todo' = Tail(todo)
    BY <1>2 DEF WriteNv, Report, Continue
  <2>2. ~failed /\ state = "initialized" /\ Plan(todo) /\ todo # <<>>
    BY <1>2, <2>1 DEF LogInv, Inv, Types, TypeOK, Calls
  <2>3. Head(todo) = todo[1]
    BY <2>2, PlanTail
  <2>4. Valid(flash)' /\ Kept' = EventsOf(mirror, mlast)
    BY <2>1, <2>2, AfterWrite
  <2>5. Readable' = TRUE
    BY <2>4 DEF Readable
  <2>6. nlast' \notin {0, NV_NEEDS_ERASE}
    BY <2>1, <2>2, MirrorIs
  <2>7. Rewriting' = FALSE
    BY <2>6 DEF Rewriting, NV_NEEDS_ERASE
  <2>8. Coming' = <<>>
    BY <2>7 DEF Coming
  <2>9. Due = todo /\ Due' = Tail(todo)
    BY <2>1 DEF Due
  <2>10. /\ nlast = 0 => IsClear(flash, 0) /\ Kept = <<>>
         /\ Rewriting = (nlast = 0)
    BY <2>1, <2>2, BeforeWrite
  <2>11. CASE nlast = 0
    <3>1. Readable = TRUE /\ Rewriting
      BY <2>10, <2>11 DEF Readable
    <3>2. Kept' = Coming /\ Kept = <<>>
      BY <2>4, <2>10, <2>11, <3>1 DEF Coming
    <3>3. Log!FinishWrite
      BY <2>1, <2>5, <2>7, <2>8, <2>9, <3>1, <3>2 DEF Log!FinishWrite
    <3> QED BY <2>2, <3>3 DEF Log!Next
  <2>12. CASE nlast # 0
    <3>1. /\ nlast \in Header .. LogSize
          /\ EventAt(mirror, nlast) /\ nlast + mirror[nlast].len = mlast
          /\ Rec(mirror, nlast) = todo[1]
          /\ (\E D : Run(mirror, nlast, D))
          /\ Kept = EventsOf(mirror, nlast) /\ Readable = TRUE
      BY <2>1, <2>2, <2>12, BeforeAppend
    <3>2. PICK D : Run(mirror, nlast, D)
      BY <3>1
    <3>3. IsLog(mirror)
      BY <2>2, MirrorIs
    <3>4. EventsOf(mirror, nlast + mirror[nlast].len) =
            Append(EventsOf(mirror, nlast), Rec(mirror, nlast))
      BY <3>1, <3>2, <3>3, EventsNext
    <3>5. Kept' = Append(Kept, Head(Due))
      BY <2>3, <2>4, <2>9, <3>1, <3>4
    <3>6. ~Rewriting
      BY <2>10, <2>12
    <3>7. Log!FinishWrite
      BY <2>1, <2>5, <2>7, <2>8, <2>9, <3>1, <3>5, <3>6 DEF Log!FinishWrite
    <3> QED BY <2>2, <3>7 DEF Log!Next
  <2> QED BY <2>11, <2>12
<1> QED BY <1>1, <1>2

\* The scan after an erase finds what was written, and is not seen.
LEMMA RescanMaps ==
  ASSUME LogInv, Rescan
  PROVE  UNCHANGED Log!vars
<1>1. /\ pc = "rescan" /\ Valid(flash) /\ nlast' = Scanned(flash)
      /\ todo' = Tail(todo) /\ pc' \in {"idle", "add"}
      /\ flash' = flash /\ state' = state /\ failed' = failed
  BY DEF Rescan, Continue
<1>2. nlast' \notin {0, NV_NEEDS_ERASE}
  BY <1>1, ScannedPositive DEF LogInv, Inv, Types
<1>3. Rewriting = FALSE /\ Rewriting' = FALSE
  BY <1>1, <1>2 DEF Rewriting, NV_NEEDS_ERASE
<1>4. Coming' = Coming
  BY <1>3 DEF Coming
<1>5. Due' = Due
  BY <1>1 DEF Due
<1>6. Kept' = Kept /\ Readable' = Readable
  BY <1>1, FlashKept
<1>7. /\ (state # "uninitialized")' = (state # "uninitialized")
      /\ (pc \in {"erase", "write"})' = (pc \in {"erase", "write"})
  BY <1>1
<1> QED BY <1>1, <1>3, <1>4, <1>5, <1>6, <1>7 DEF Log!vars

\* An event lies in front of what is blank or torn, and is there in every
\* buffer that is the same up to there.
LEMMA EventWithin ==
  ASSUME NEW g, IsLog(g), NEW buf, NEW c \in 0 .. LogSize, NEW o \in Header .. LogSize,
         EventAt(g, o), \A a \in Cells : a >= c => g[a] \in {Eol, Bad},
         \A a \in Cells : a < c => g[a] = buf[a]
  PROVE  EventAt(buf, o) /\ g[o] = buf[o] /\ o + g[o].len <= c
<1>1. /\ o \in Cells /\ g[o].len \in 1 .. MaxEvent /\ o \in Nat
  BY EventCells, Sizes
<1>2. PICK l \in 1 .. MaxEvent : g[o].len = l
  BY <1>1
<1>3. /\ g[o].type \notin {"eol", "header", "bad"} /\ o + l <= LogSize
      /\ \A i \in 1 .. l : g[o + i - 1] = Cell(g[o], i)
  BY <1>2 DEF EventAt
<1>4. ASSUME NEW i \in 1 .. l
      PROVE  o + i - 1 \in Cells /\ o + i - 1 < c /\ g[o + i - 1] = buf[o + i - 1]
  <2>1. o + i - 1 \in Cells /\ o + i - 1 \in Nat
    BY <1>1, <1>3, Sizes DEF Cells
  <2>2. g[o + i - 1].type = g[o].type
    <3>1. g[o + i - 1] = Cell(g[o], i)
      BY <1>3
    <3>2. Cell(g[o], i).type = g[o].type
      BY DEF Cell
    <3> QED BY <3>1, <3>2
  <2>3. Eol.type = "eol" /\ Bad.type = "bad"
    BY DEF Eol, Bad, Plain
  <2>4. ~(o + i - 1 >= c)
    BY <1>3, <2>1, <2>2, <2>3
  <2> QED BY <2>1, <2>4, Sizes
<1>5. o + l <= c
  <2>1. o + l - 1 < c
    BY <1>4
  <2> QED BY <2>1, <1>1, Sizes
<1>6. g[o] = buf[o]
  <2>1. 1 \in 1 .. l /\ o + 1 - 1 = o
    BY <1>1
  <2> QED BY <2>1, <1>4
<1>7. EventAt(buf, o)
  <2>1. o < LogSize
    BY DEF EventAt
  <2>2. \A i \in 1 .. l : buf[o + i - 1] = Cell(buf[o], i)
    BY <1>3, <1>4, <1>6
  <2> QED BY <2>1, <2>2, <1>2, <1>3, <1>6 DEF EventAt
<1> QED BY <1>2, <1>5, <1>6, <1>7

\* No event is a prefix of any log.
LEMMA EmptyPrefix ==
  ASSUME NEW buf, IsLog(buf), NEW c
  PROVE  <<>> \in Log!Prefixes(EventsOf(buf, c))
<1>1. PICK n, p : Path(buf, c, Header, n, p)
  BY PathExists, Sizes
<1>2. n \in Nat /\ p \in [0 .. n -> Header .. LogSize]
  BY <1>1 DEF Path
<1> DEFINE S == {Rec(buf, a) : a \in Header .. LogSize}
<1>3. \A i \in 0 .. n - 1 : Rec(buf, p[i]) \in S
  BY <1>2
<1> HIDE DEF S
<1>4. Len(Read(buf, n, p)) = n
  BY <1>2, <1>3, ReadIs
<1>5. EventsOf(buf, c) = Read(buf, n, p)
  BY <1>1, EventsAre
<1>6. SubSeq(EventsOf(buf, c), 1, 0) = <<>>
  BY SubSeqEmpty
<1>7. 0 \in 0 .. Len(EventsOf(buf, c))
  BY <1>2, <1>4, <1>5
<1> QED BY <1>6, <1>7 DEF Log!Prefixes

\* A write that was cut: the mirror up to a cell that is torn or blank.
LEMMA TornIs ==
  ASSUME LogInv, ~failed, state = "initialized", pc = "write",
         NEW n \in 0 .. mlast - nlast - 1, NEW g \in TornWrites(n)
  PROVE  /\ IsLog(g) /\ nlast + n \in 0 .. LogSize /\ nlast + n < mlast
         /\ \A a \in Cells : a < nlast + n => g[a] = mirror[a]
         /\ \A a \in Cells : a >= nlast + n => g[a] \in {Eol, Bad}
<1>1. /\ IsLog(flash) /\ IsLog(mirror) /\ mlast \in Nat /\ mlast \in Header .. LogSize - 1
  BY MirrorIs
<1>2. /\ \A a \in Cells : flash[a] = IF a < nlast THEN mirror[a] ELSE Eol
      /\ nlast \in 0 .. mlast /\ nlast \in Nat
  BY BeforeWrite
<1>3. IsLog(g)
  <2>1. TopClear(flash) /\ mlast \in 0 .. Limit
    BY Numbers DEF LogInv, Inv, Types, Bounded
  <2> QED BY <2>1, <1>1, <1>2, FlashOps
<1> DEFINE x == nlast + n
<1>4. x \in 0 .. LogSize /\ x < mlast /\ x \in Cells /\ n \in Nat /\ x \in Nat
  BY <1>1, <1>2, Sizes DEF Cells
<1>5. ASSUME NEW a \in Cells
      PROVE  /\ a < x => Written(n)[a] = mirror[a]
             /\ a >= x => Written(n)[a] = Eol /\ flash[a] = Eol
  <2>1. a \in Nat
    BY Sizes DEF Cells
  <2>2. Written(n)[a] = IF a \in nlast .. nlast + n - 1
                        THEN Program(flash[a], mirror[a]) ELSE flash[a]
    BY DEF Written
  <2>3. CASE a < nlast
    BY <1>2, <1>4, <2>1, <2>2, <2>3
  <2>4. CASE a >= nlast /\ a < x
    <3>1. a \in nlast .. nlast + n - 1 /\ ~(a < nlast)
      BY <1>2, <1>4, <2>1, <2>4
    <3> QED BY <1>2, <1>4, <2>1, <2>2, <2>4, <3>1 DEF Program
  <2>5. CASE a >= x
    <3>1. a \notin nlast .. nlast + n - 1 /\ ~(a < nlast) /\ ~(a < x)
      BY <1>2, <1>4, <2>1, <2>5
    <3> QED BY <1>2, <2>2, <3>1
  <2> QED BY <1>2, <1>4, <2>1, <2>3, <2>4, <2>5
<1> HIDE DEF x
<1>6. g = Written(n) \/ g = [Written(n) EXCEPT ![x] = Program(flash[x], Bad)]
  BY DEF TornWrites, x
<1>7. CASE g = Written(n)
  BY <1>3, <1>4, <1>5, <1>7 DEF x
<1>8. CASE g = [Written(n) EXCEPT ![x] = Program(flash[x], Bad)]
  <2>1. Program(flash[x], Bad) = Bad
    <3>1. flash[x] = Eol
      BY <1>4, <1>5
    <3> QED BY <3>1 DEF Program
  <2>2. \A a \in Cells : g[a] = IF a = x THEN Bad ELSE Written(n)[a]
    BY <1>8, <2>1 DEF Written
  <2>3. \A a \in Cells : a < x => a # x
    BY <1>4, Sizes DEF Cells
  <2> QED BY <1>3, <1>4, <1>5, <2>2, <2>3 DEF x
<1> QED BY <1>6, <1>7, <1>8

\* A write that was cut leaves the log as it was, when it was an append, and
\* otherwise the first of the events that were to be written.
LEMMA CutWrite ==
  ASSUME LogInv, ~failed, state = "initialized", pc = "write",
         NEW n \in 0 .. mlast - nlast - 1, flash' \in TornWrites(n)
  PROVE  /\ nlast = 0 => Kept' \in Log!Prefixes(EventsOf(mirror, mlast))
         /\ nlast # 0 => Kept' = Kept
<1>1. /\ IsLog(flash') /\ nlast + n \in 0 .. LogSize /\ nlast + n < mlast
      /\ \A a \in Cells : a < nlast + n => flash'[a] = mirror[a]
      /\ \A a \in Cells : a >= nlast + n => flash'[a] \in {Eol, Bad}
  BY TornIs
<1>2. /\ IsLog(flash) /\ IsLog(mirror) /\ mlast \in Nat /\ mlast \in Header .. LogSize - 1
  BY MirrorIs
<1>3. /\ \A a \in Cells : flash[a] = IF a < nlast THEN mirror[a] ELSE Eol
      /\ nlast \in 0 .. mlast /\ nlast \in Nat
  BY BeforeWrite
<1>4. ASSUME NEW o \in Header .. LogSize, EventAt(flash', o)
      PROVE  EventAt(mirror, o) /\ flash'[o] = mirror[o] /\ o + flash'[o].len <= nlast + n
  BY <1>1, <1>4, EventWithin
<1>5. Kept' \in Log!Prefixes(EventsOf(mirror, mlast))
  <2>1. ASSUME NEW o \in Header .. LogSize, EventAt(flash', o)
        PROVE  o < mlast
    <3>1. PICK l \in 1 .. MaxEvent : flash'[o].len = l
      BY <1>1, <2>1, EventCells
    <3>2. o + l <= nlast + n /\ o \in Nat
      BY <1>4, <2>1, <3>1, Sizes
    <3> QED BY <1>1, <1>2, <1>3, <3>1, <3>2, Sizes
  <2>2. EventsOf(flash', LogSize) \in Log!Prefixes(EventsOf(mirror, mlast))
    BY <1>1, <1>2, <1>4, <2>1, PrefixOf
  <2>3. <<>> \in Log!Prefixes(EventsOf(mirror, mlast))
    BY <1>2, EmptyPrefix
  <2> QED BY <2>2, <2>3 DEF Kept
<1>6. ASSUME nlast # 0 PROVE Kept' = Kept
  <2>1. /\ nlast \in Header .. LogSize
        /\ EventAt(mirror, nlast) /\ nlast + mirror[nlast].len = mlast
        /\ (\E D : Run(mirror, nlast, D))
        /\ Kept = EventsOf(mirror, nlast)
        /\ HeaderValid(flash)
    BY <1>6, BeforeAppend
  <2>2. PICK D : Run(mirror, nlast, D)
    BY <2>1
  <2>3. ~EventAt(flash', nlast)
    <3> SUFFICES ASSUME EventAt(flash', nlast) PROVE FALSE
      OBVIOUS
    <3>1. mirror[nlast] = flash'[nlast] /\ nlast + flash'[nlast].len <= nlast + n
      BY <1>4, <2>1
    <3>2. mlast <= nlast + n
      BY <2>1, <3>1
    <3> QED BY <1>1, <1>2, <3>2, Sizes
  <2>4. \A a \in Cells : a < nlast => a < nlast + n
    BY <1>1, <1>3, Sizes DEF Cells
  <2>5. HeaderValid(flash')
    <3>1. \A a \in 0 .. Header - 1 : a \in Cells /\ a < nlast
      BY <2>1, Sizes DEF Cells
    <3>2. \A a \in 0 .. Header - 1 : flash'[a] = flash[a]
      BY <2>4, <3>1, <1>1, <1>3
    <3> QED BY <2>1, <3>2 DEF HeaderValid
  <2>6. \A a \in Cells : a < nlast => flash'[a] = mirror[a]
    BY <1>1, <2>4
  <2>7. EventsOf(flash', LogSize) = EventsOf(mirror, nlast)
    BY <1>1, <1>2, <2>1, <2>2, <2>3, <2>6, EventsOfRun
  <2> QED BY <2>1, <2>5, <2>7 DEF Kept
<1> QED BY <1>5, <1>6

\* An erase that was cut leaves nothing, or the first events of the log.
LEMMA CutErase ==
  ASSUME LogInv, ~failed, state = "initialized", NEW k \in Cells,
         flash' \in {Erased(0 .. k), Erased(k .. LogSize - 1)}
  PROVE  Kept' \in Log!Prefixes(Kept) \cup Log!Prefixes(EventsOf(mirror, mlast))
<1>1. IsLog(flash) /\ IsLog(mirror)
  BY MirrorIs
<1>2. <<>> \in Log!Prefixes(EventsOf(mirror, mlast))
  BY <1>1, EmptyPrefix
<1>3. k \in Nat /\ k \in 0 .. LogSize /\ 0 \in Cells
  BY Sizes DEF Cells
<1>4. Hdr # Eol /\ 0 \in 0 .. Header - 1
  BY Sizes DEF Hdr, Eol, Plain
<1>5. CASE flash' = Erased(0 .. k)
  <2>1. flash'[0] = Eol
    BY <1>3, <1>5 DEF Erased
  <2>2. ~HeaderValid(flash')
    BY <1>4, <2>1 DEF HeaderValid
  <2> QED BY <1>2, <2>2 DEF Kept
<1>6. CASE flash' = Erased(k .. LogSize - 1)
  <2>1. \A a \in Cells : (a >= k => flash'[a] = Eol) /\ (a < k => flash'[a] = flash[a])
    BY <1>3, <1>6, Sizes DEF Erased, Cells
  <2>2. IsLog(flash')
    BY <1>6, FlashOps, Numbers, MirrorIs DEF LogInv, Inv, Types, Bounded
  <2>3. CASE ~HeaderValid(flash')
    BY <1>2, <2>3 DEF Kept
  <2>4. CASE HeaderValid(flash')
    <3>1. k >= Header
      <4> SUFFICES ASSUME k < Header PROVE FALSE
        BY <1>3, Sizes
      <4>1. k \in 0 .. Header - 1 /\ flash'[k] = Eol
        BY <1>3, <2>1, Sizes
      <4> QED BY <1>4, <2>4, <4>1 DEF HeaderValid
    <3>2. HeaderValid(flash)
      <4>1. \A a \in 0 .. Header - 1 : a \in Cells /\ a < k
        BY <1>3, <3>1, Sizes DEF Cells
      <4> QED BY <2>1, <2>4, <4>1 DEF HeaderValid
    <3>3. ASSUME NEW o \in Header .. LogSize, EventAt(flash', o)
          PROVE  o < LogSize /\ EventAt(flash, o) /\ flash'[o] = flash[o]
      <4>1. EventAt(flash, o) /\ flash'[o] = flash[o]
        BY <1>3, <2>1, <2>2, <3>3, EventWithin
      <4> QED BY <4>1 DEF EventAt
    <3>4. EventsOf(flash', LogSize) \in Log!Prefixes(EventsOf(flash, LogSize))
      BY <1>1, <2>2, <3>3, PrefixOf
    <3> QED BY <2>4, <3>2, <3>4 DEF Kept
  <2> QED BY <2>3, <2>4
<1> QED BY <1>5, <1>6

\* Losing power costs no more than the abstract log allows.
LEMMA ResetMaps ==
  ASSUME LogInv, Reset
  PROVE  Log!Next
<1>1. /\ CutFlash /\ pc' = "idle" /\ todo' = <<>> /\ state' = "uninitialized"
      /\ failed' = FALSE
  BY DEF Reset
<1>2. Rewriting' = FALSE /\ Due' = <<>>
  BY <1>1 DEF Rewriting, Due
<1>3. Coming' = <<>>
  BY <1>2 DEF Coming
<1> SUFFICES \/ Kept' = Kept /\ Readable' = Readable
             \/ pc \in {"erase", "write"} /\ Kept' = Kept
             \/ /\ pc \in {"erase", "write"} /\ Rewriting
                /\ Kept' \in Log!Prefixes(Kept) \cup Log!Prefixes(Coming)
             \/ failed
  BY <1>1, <1>2, <1>3 DEF Log!Next, Log!Reset
<1>4. CASE flash' = flash
  BY <1>4, FlashKept
<1>5. CASE ~failed /\ pc = "write" /\ \E n \in 0 .. mlast - nlast - 1 : flash' \in TornWrites(n)
  <2>1. state = "initialized"
    BY <1>5 DEF LogInv, Inv, Calls, Types, TypeOK
  <2>2. /\ nlast = 0 => Kept' \in Log!Prefixes(EventsOf(mirror, mlast))
        /\ nlast # 0 => Kept' = Kept
    BY <1>5, <2>1, CutWrite
  <2>3. Rewriting = (nlast = 0)
    BY <1>5, <2>1, BeforeWrite
  <2>4. nlast = 0 => Coming = EventsOf(mirror, mlast)
    BY <2>3 DEF Coming
  <2> QED BY <1>5, <2>2, <2>3, <2>4
<1>6. CASE ~failed /\ pc = "erase" /\ PartlyErased /\ flash' # flash
  <2>1. state = "initialized" /\ nlast = NV_NEEDS_ERASE
    BY <1>6 DEF LogInv, Inv, Calls, Newest
  <2>2. Kept' \in Log!Prefixes(Kept) \cup Log!Prefixes(EventsOf(mirror, mlast))
    BY <1>6, <2>1, CutErase DEF PartlyErased
  <2>3. Rewriting
    BY <1>6, <2>1 DEF Rewriting
  <2>4. Coming = EventsOf(mirror, mlast)
    BY <2>3 DEF Coming
  <2> QED BY <1>6, <2>2, <2>3, <2>4
<1> QED BY <1>1, <1>4, <1>5, <1>6 DEF CutFlash, PartlyErased

\* Every step of elog.c is a step of the abstract log, or none.
LEMMA StepMaps == LogInv /\ [Next]_vars => [Log!Next]_(Log!vars)
<1> SUFFICES ASSUME LogInv, [Next]_vars PROVE Log!Next \/ UNCHANGED Log!vars
  OBVIOUS
<1>1. CASE UNCHANGED vars
  <2>1. Kept' = Kept /\ Readable' = Readable
    BY <1>1, FlashKept DEF vars
  <2>2. Rewriting' = Rewriting /\ Due' = Due
    BY <1>1 DEF vars, Rewriting, Due, NV_NEEDS_ERASE
  <2>3. Coming' = Coming
    BY <1>1, <2>2 DEF vars, Coming
  <2> QED BY <1>1, <2>1, <2>2, <2>3 DEF Log!vars, vars
<1>2. CASE \E e \in UserEvents \cup {ClearLog} : Call(e)
  BY <1>2, CallMaps
<1>3. CASE CallBroken
  BY <1>1, <1>3 DEF CallBroken
<1>4. CASE InitScan
  BY <1>4, InitScanMaps
<1>5. CASE InitReadFails
  BY <1>5, FaultStep DEF InitReadFails, Report
<1>6. CASE AddClearLog
  BY <1>6, AddClearLogMaps
<1>7. CASE AddRefused
  BY <1>7, RefusedFailed, FaultStep
<1>8. CASE AddEvent
  BY <1>8, AddEventMaps
<1>9. CASE EraseNv
  BY <1>9, EraseMaps
<1>10. CASE WriteNv
  BY <1>10, WriteMaps
<1>11. CASE Rescan
  BY <1>11, RescanMaps
<1>12. CASE RescanFails
  <2>1. failed' = TRUE
    <3>1. CASE ~Valid(flash) /\ UNCHANGED <<failed, faults>>
      <4>1. failed
        BY <1>12, <3>1, RescanSucceeds DEF LogInv, RescanFails
      <4> QED BY <3>1, <4>1 DEF LogInv, Inv, Types, TypeOK
    <3>2. CASE Report
      BY <3>2 DEF Report
    <3> QED BY <1>12, <3>1, <3>2 DEF RescanFails
  <2> QED BY <2>1, FaultStep
<1>13. CASE Reset
  BY <1>13, ResetMaps
<1> QED BY <1>1, <1>2, <1>3, <1>4, <1>5, <1>6, <1>7, <1>8, <1>9, <1>10, <1>11,
           <1>12, <1>13 DEF Next, Step

\* elog.c implements the abstract log of EventLog, for a log of any size and
\* events of any length: every event that a call logs is added, once and behind
\* the older ones; a shrink drops only the oldest events, and the clear event
\* tells how many cells went; the log is emptied only by elog_clear, or by
\* elog_init when it cannot be read; a torn append leaves every older event
\* readable, and a cut erase or rewrite a prefix of the old or of the new log.
THEOREM LogImplementsEventLog == Spec => ImplementsLog
<1>1. Init => Log!Init
  <2> SUFFICES ASSUME Init PROVE Log!Init
    OBVIOUS
  <2>1. \A a \in Cells : flash[a] = Eol
    BY DEF Init
  <2>2. Kept = <<>> /\ Readable = TRUE
    <3>1. IsClear(flash, 0) /\ flash[0] = Eol
      BY <2>1, Sizes DEF IsClear, Cells
    <3> QED BY <3>1, NoHeader DEF Readable
  <2>3. Rewriting = FALSE /\ Due = <<>>
    BY DEF Init, Rewriting, Due
  <2>4. Coming = <<>>
    BY <2>3 DEF Coming
  <2> QED BY <2>2, <2>3, <2>4 DEF Init, Log!Init
<1> QED BY <1>1, LogAlways, StepMaps, PTL DEF Spec, ImplementsLog, Log!Spec
=============================================================================
