---------------------- MODULE RuntimeDiagnosticsProofs ----------------------
(***************************************************************************)
(* For any number of consoles and any limits, the cursor never passes a    *)
(* line that is not accounted for, and the pages of a console join.        *)
(* DiagnosticsInv is inductive: the table only grows, so what a harvest    *)
(* knows of it when it read the cursor stays true until it moves it.       *)
(***************************************************************************)
EXTENDS RuntimeDiagnostics, SequenceTheorems, FiniteSetTheorems, TLAPS

\* Appending rows keeps the rows that are there.
LEMMA Appended ==
  ASSUME NEW a \in Seq(Rows), NEW b \in Seq(Rows)
  PROVE  /\ a \o b \in Seq(Rows)
         /\ Len(a) <= Len(a \o b)
         /\ \A row : Shown(row, a) \/ Shown(row, b) => Shown(row, a \o b)
         /\ \A k \in 0 .. Len(a) : SubSeq(a \o b, 1, k) = SubSeq(a, 1, k)
<1>1. /\ a \o b \in Seq(Rows) /\ Len(a \o b) = Len(a) + Len(b)
      /\ \A i \in 1 .. Len(a) : (a \o b)[i] = a[i]
      /\ \A i \in 1 .. Len(b) : (a \o b)[Len(a) + i] = b[i]
  OBVIOUS
<1>2. ASSUME NEW row, Shown(row, a) PROVE Shown(row, a \o b)
  BY <1>1, <1>2 DEF Shown
<1>3. ASSUME NEW row, Shown(row, b) PROVE Shown(row, a \o b)
  <2>1. PICK i \in 1 .. Len(b) : b[i] = row
    BY <1>3 DEF Shown
  <2>2. Len(a) + i \in DOMAIN (a \o b) /\ (a \o b)[Len(a) + i] = row
    BY <1>1, <2>1
  <2>3. QED
    BY <2>2 DEF Shown
<1>4. ASSUME NEW k \in 0 .. Len(a) PROVE SubSeq(a \o b, 1, k) = SubSeq(a, 1, k)
  <2>1. CASE k = 0
    BY <2>1, SubSeqEmpty
  <2>2. CASE k \in 1 .. Len(a)
    BY <2>2, SubSeqOfConcat1
  <2>3. QED
    BY <2>1, <2>2
<1>5. QED
  BY <1>1, <1>2, <1>3, <1>4

\* Sets of line numbers are finite.
LEMMA FiniteLines ==
  ASSUME NEW a \in Nat, NEW b \in Nat, NEW S \in SUBSET (a .. b)
  PROVE  IsFiniteSet(S) /\ Cardinality(S) \in Nat
<1>1. IsFiniteSet(a .. b)
  BY FS_Interval
<1>2. IsFiniteSet(S)
  BY <1>1, FS_Subset
<1>3. QED
  BY <1>2, FS_CardinalityType

\* A step that appends rows keeps what is accounted for, and the pages.
LEMMA LogGrows ==
  ASSUME TypeOK, PagesJoin, NEW rows \in Seq(Rows), log' = log \o rows, UNCHANGED <<lost, console>>
  PROVE  /\ log' \in Seq(Rows)
         /\ \A n : Accounted(n) => Accounted(n)'
         /\ PagesJoin'
<1>1. log \in Seq(Rows)
  BY DEF TypeOK
<1>2. ASSUME NEW n, Accounted(n) PROVE Accounted(n)'
  <2>1. \A row : Shown(row, log) => Shown(row, log \o rows)
    BY <1>1, Appended
  <2>2. CASE Shown(Line(n), log)
    BY <2>1, <2>2 DEF Accounted, Shown
  <2>3. CASE n \in lost /\ Shown(Degraded, log)
    BY <2>1, <2>3 DEF Accounted, Shown
  <2>4. QED
    BY <1>2, <2>2, <2>3 DEF Accounted
<1>3. PagesJoin'
  <2> SUFFICES ASSUME NEW c \in Consoles
               PROVE  /\ after[c] <= Len(log')
                      /\ seen[c] = SubSeq(log', 1, after[c])
    BY DEF PagesJoin, console
  <2>1. after[c] \in 0 .. Len(log) /\ seen[c] = SubSeq(log, 1, after[c])
    BY <1>1 DEF PagesJoin, TypeOK
  <2>2. QED
    BY <1>1, <2>1, Appended
<1>4. QED
  BY <1>1, <1>2, <1>3, Appended

\* An empty table and no call in progress.
LEMMA DiagnosticsInit == Init => DiagnosticsInv
<1> SUFFICES ASSUME Init PROVE DiagnosticsInv
  OBVIOUS
<1>1. TypeOK
  <2>1. <<>> \in Seq(Rows) /\ 0 \in 0 .. MaxOutput /\ Idle \in Polls
    BY DiagnosticsAssumption DEF Polls, Idle
  <2>2. QED
    BY <2>1 DEF Init, TypeOK
<1>2. PagesJoin
  BY SubSeqEmpty DEF Init, PagesJoin
<1>3. QED
  BY <1>1, <1>2 DEF Init, DiagnosticsInv, NothingSkipped, HarvestFacts, Idle

\* A call reads the cursor and asks the runtime.
LEMMA HarvestStep ==
  ASSUME DiagnosticsInv, NEW c \in Consoles, ReadCursor(c) \/ Fetch(c) \/ FetchFails(c)
  PROVE  DiagnosticsInv'
<1> USE DEF DiagnosticsInv
<1>1. CASE ReadCursor(c)
  <2>1. TypeOK'
    BY <1>1 DEF ReadCursor, TypeOK, Polls, Idle, stored, runtime, console
  <2>2. QED
    BY <1>1, <2>1 DEF ReadCursor, TypeOK, Idle, stored, runtime, console, NothingSkipped,
                      PagesJoin, HarvestFacts, Accounted
<1>2. CASE Fetch(c)
  <2> DEFINE from == poll[c].from  items == Items(from)
  <2>1. PICK next \in 0 .. MaxOutput + from :
           /\ IF items = {} THEN next = from ELSE IsLast(next, items)
           /\ poll' = [poll EXCEPT ![c] =
                  [pc |-> "append", from |-> from, items |-> items, next |-> next,
                   degraded |-> \E n \in lost : from < n /\ n < next]]
    BY <1>2 DEF Fetch
  <2>2. from \in Nat /\ items \subseteq Lines /\ next \in Nat /\ out \in Nat
    BY <2>1, DiagnosticsAssumption, SMTT(30) DEF TypeOK, Polls, Items, Kept, Lines
  <2>3. TypeOK'
    BY <1>2, <2>1, <2>2 DEF Fetch, TypeOK, Polls, stored, runtime, console
  <2>4. ASSUME NEW n \in 1 .. next, ~(n <= from), n \notin items
        PROVE  n \in lost /\ \E k \in lost : from < k /\ k < next
    <3>1. items # {} /\ IsLast(next, items)
      BY <2>1, <2>2, <2>4
    <3>2. next \in items /\ n # next /\ n < next /\ next \in Kept(from)
      BY <2>2, <2>4, <3>1 DEF IsLast, Items
    <3>3. CASE n \in lost
      BY <2>2, <2>4, <3>2, <3>3
    <3>4. CASE n \notin lost
      <4> DEFINE Before(k) == {j \in Kept(from) : j < k}
      <4>1. n \in Kept(from) /\ Before(n) \subseteq Before(next)
        BY <2>2, <2>4, <3>2, <3>4 DEF Kept
      <4>2. IsFiniteSet(Before(next))
        <5>1. Before(next) \in SUBSET (from + 1 .. out)
          BY DEF Kept
        <5>2. from + 1 \in Nat
          BY <2>2
        <5>3. QED
          BY <2>2, <5>1, <5>2, FiniteLines
      <4>3. Cardinality(Before(n)) <= Cardinality(Before(next))
        BY <4>1, <4>2, FS_Subset
      <4>4. Cardinality(Before(next)) < HarvestLimit
        BY <3>2 DEF Items
      <4>5. Cardinality(Before(n)) \in Nat /\ Cardinality(Before(next)) \in Nat
        BY <4>1, <4>2, FS_Subset, FS_CardinalityType
      <4>6. n \in items
        BY <4>1, <4>3, <4>4, <4>5, DiagnosticsAssumption DEF Items
      <4>7. QED
        BY <2>4, <4>6
    <3>5. QED
      BY <3>3, <3>4
  <2> HIDE DEF from, items
  <2>5. poll'[c].pc = "append" /\ poll'[c].from = from /\ poll'[c].items = items
        /\ poll'[c].next = next
        /\ (poll'[c].degraded <=> \E n \in lost : from < n /\ n < next)
        /\ poll[c].pc = "fetch" /\ poll[c].from = from
    BY <1>2, <2>1 DEF Fetch, TypeOK, from
  <2>6. \A d \in Consoles \ {c} : poll'[d] = poll[d]
    BY <2>1 DEF TypeOK
  <2>7. UNCHANGED <<lost, log, cursor, after, seen>>
    BY <1>2 DEF Fetch, stored, runtime, console
  <2>8. HarvestFacts'
    BY <2>2, <2>4, <2>5, <2>6, <2>7 DEF HarvestFacts, Accounted
  <2>9. QED
    BY <2>3, <2>7, <2>8 DEF NothingSkipped, PagesJoin, Accounted
<1>3. CASE FetchFails(c)
  <2>1. TypeOK'
    <3>1. faults' \in Nat
      BY <1>3 DEF FetchFails, TypeOK
    <3>2. QED
      BY <1>3, <3>1 DEF FetchFails, Goto, TypeOK, Polls, Idle, stored, runtime, console
  <2>2. QED
    BY <1>3, <2>1 DEF FetchFails, Goto, TypeOK, Idle, stored, runtime, console, NothingSkipped,
                      PagesJoin, HarvestFacts, Accounted
<1>4. QED
  BY <1>1, <1>2, <1>3

\* The rows of one harvest.
LEMMA HarvestRows ==
  ASSUME NEW items \in SUBSET Lines, NEW s \in [1 .. Cardinality(items) -> items],
         Ascending(s, items), NEW degraded \in BOOLEAN
  PROVE  /\ Documents(s, degraded) \in Seq(Rows)
         /\ \A n \in items : Shown(Line(n), Documents(s, degraded))
         /\ degraded => Shown(Degraded, Documents(s, degraded))
<1> DEFINE lines == [i \in DOMAIN s |-> Line(s[i])]
<1>1. Cardinality(items) \in Nat
  <2>1. items \in SUBSET (1 .. MaxOutput) /\ 1 \in Nat /\ MaxOutput \in Nat
    BY DiagnosticsAssumption DEF Lines
  <2>2. QED
    BY <2>1, FiniteLines
<1>2. lines \in Seq(Rows)
  <2>1. \A i \in 1 .. Cardinality(items) : Line(s[i]) \in Rows
    <3>0. items \subseteq Nat
      BY DiagnosticsAssumption DEF Lines
    <3>1. \A i \in 1 .. Cardinality(items) : s[i] \in Nat
      BY <3>0
    <3>2. QED
      BY <3>1 DEF Line, Rows
  <2>2. DOMAIN s = 1 .. Cardinality(items)
    OBVIOUS
  <2>3. lines \in [1 .. Cardinality(items) -> Rows]
    BY <2>1, <2>2
  <2> HIDE DEF lines
  <2>4. QED
    BY <1>1, <2>3, SeqDef
<1>3. Note(degraded) \in Seq(Rows)
  <2>1. Degraded \in Rows
    BY DEF Degraded, Rows
  <2>2. QED
    BY <2>1 DEF Note
<1>4. degraded => Shown(Degraded, Note(degraded))
  BY DEF Note, Shown
<1>5. \A n \in items : Shown(Line(n), lines)
  BY DEF Ascending, Shown
<1>6. Documents(s, degraded) = lines \o Note(degraded)
  BY DEF Documents
<1> HIDE DEF lines
<1>7. QED
  BY <1>2, <1>3, <1>4, <1>5, <1>6, Appended

\* A call stores what it harvested and moves the cursor.
LEMMA StoreStep ==
  ASSUME DiagnosticsInv, NEW c \in Consoles, AppendRows(c) \/ Advance(c)
  PROVE  DiagnosticsInv'
<1> USE DEF DiagnosticsInv
<1>1. CASE AppendRows(c)
  <2> DEFINE items == poll[c].items
  <2>1. PICK s \in [1 .. Cardinality(items) -> items] :
           /\ Ascending(s, items)
           /\ log' = log \o Documents(s, poll[c].degraded)
    BY <1>1 DEF AppendRows
  <2> DEFINE rows == Documents(s, poll[c].degraded)
  <2>2. /\ items \in SUBSET Lines /\ poll[c].degraded \in BOOLEAN /\ poll[c].next \in Nat
        /\ poll[c].from \in Nat /\ poll[c].pc = "append" /\ log \in Seq(Rows)
    BY <1>1 DEF TypeOK, Polls, AppendRows
  <2>3. /\ rows \in Seq(Rows)
        /\ \A n \in items : Shown(Line(n), rows)
        /\ poll[c].degraded => Shown(Degraded, rows)
    BY <2>1, <2>2, HarvestRows
  <2>4. log' = log \o rows
    BY <2>1
  <2> HIDE DEF rows, items
  <2>5. /\ log' \in Seq(Rows) /\ PagesJoin'
        /\ \A n : Accounted(n) => Accounted(n)'
    BY <1>1, <2>3, <2>4, LogGrows DEF AppendRows, runtime, console
  <2>6. \A row : Shown(row, rows) => Shown(row, log')
    BY <2>2, <2>3, <2>4, Appended
  <2>7. \A n \in 1 .. poll[c].next : Accounted(n)'
    <3> SUFFICES ASSUME NEW n \in 1 .. poll[c].next
                 PROVE  Accounted(n)'
      OBVIOUS
    <3>1. UNCHANGED lost
      BY <1>1 DEF AppendRows, runtime
    <3>2. n <= poll[c].from \/ n \in items \/ (n \in lost /\ poll[c].degraded)
      BY <2>2 DEF HarvestFacts, items
    <3>3. CASE n <= poll[c].from
      BY <2>2, <2>5, <3>3 DEF HarvestFacts
    <3>4. CASE n \in items
      BY <2>3, <2>6, <3>4 DEF Accounted, Shown
    <3>5. CASE n \in lost /\ poll[c].degraded
      BY <2>3, <2>6, <3>1, <3>5 DEF Accounted, Shown
    <3>6. QED
      BY <3>2, <3>3, <3>4, <3>5
  <2>8. TypeOK'
    BY <1>1, <2>2, <2>5 DEF AppendRows, Goto, TypeOK, Polls, Idle, runtime, console
  <2>9. poll'[c].pc = "advance" /\ poll'[c].next = poll[c].next
        /\ \A d \in Consoles \ {c} : poll'[d] = poll[d]
    BY <1>1 DEF AppendRows, Goto, Idle, TypeOK
  <2>10. UNCHANGED <<cursor, lost>>
    BY <1>1 DEF AppendRows, runtime
  <2> HIDE DEF DiagnosticsInv
  <2>11. HarvestFacts'
    BY <2>5, <2>7, <2>9, <2>10 DEF DiagnosticsInv, HarvestFacts
  <2>12. NothingSkipped'
    BY <2>5, <2>10 DEF DiagnosticsInv, NothingSkipped
  <2>13. QED
    BY <2>5, <2>8, <2>11, <2>12 DEF DiagnosticsInv
<1>2. CASE Advance(c)
  <2>1. TypeOK'
    BY <1>2 DEF Advance, Goto, TypeOK, Polls, Idle, runtime, console
  <2>2. QED
    BY <1>2, <2>1 DEF Advance, Goto, TypeOK, Idle, runtime, console, NothingSkipped, PagesJoin,
                      HarvestFacts, Accounted
<1>3. QED
  BY <1>1, <1>2

\* The page goes to the console, or its response is lost.
LEMMA PageStep ==
  ASSUME DiagnosticsInv, NEW c \in Consoles, List(c) \/ ResponseLost(c)
  PROVE  DiagnosticsInv'
<1> USE DEF DiagnosticsInv
<1>1. CASE List(c)
  <2>1. PICK k \in Bounded(Listed(c)) :
           /\ seen' = [seen EXCEPT ![c] = @ \o SubSeq(log, after[c] + 1, after[c] + k)]
           /\ after' = [after EXCEPT ![c] = after[c] + k]
    BY <1>1 DEF List, NextSequence
  <2>2. log \in Seq(Rows) /\ after[c] \in 0 .. Len(log) /\ seen[c] = SubSeq(log, 1, after[c])
    BY DEF TypeOK, PagesJoin
  <2>3. k \in Nat /\ after[c] + k \in after[c] .. Len(log)
    <3>1. Listed(c) \in 0 .. Len(log) - after[c]
      BY <2>2, DiagnosticsAssumption DEF Listed
    <3>2. QED
      BY <2>1, <2>2, <3>1 DEF Bounded
  <2>4. seen[c] \o SubSeq(log, after[c] + 1, after[c] + k) = SubSeq(log, 1, after[c] + k)
    <3>1. 1 \in 1 .. Len(log) + 1 /\ after[c] \in 1 - 1 .. Len(log)
      BY <2>2
    <3>2. QED
      BY <2>2, <2>3, <3>1, ConcatAdjacentSubSeq
  <2>5. SubSeq(log, 1, after[c] + k) \in Seq(Rows)
    <3>1. \A i \in 1 .. after[c] + k : log[i] \in Rows
      BY <2>2, <2>3
    <3>2. QED
      BY <2>2, <2>3, <3>1, SubSeqProperties
  <2>6. /\ after'[c] = after[c] + k /\ seen'[c] = SubSeq(log, 1, after[c] + k)
        /\ \A d \in Consoles \ {c} : after'[d] = after[d] /\ seen'[d] = seen[d]
    BY <2>1, <2>4 DEF TypeOK
  <2>7. UNCHANGED <<linked, log, cursor, out, lost, faults>>
    BY <1>1 DEF List, stored, runtime
  <2>8. PagesJoin'
    BY <2>3, <2>6, <2>7 DEF PagesJoin
  <2>9. poll' = [poll EXCEPT ![c] = Idle]
    BY <1>1 DEF List
  <2>10. seen' \in [Consoles -> Seq(Rows)] /\ after' \in [Consoles -> Nat]
    BY <2>1, <2>2, <2>3, <2>4, <2>5, SMTT(60) DEF TypeOK
  <2>11. TypeOK'
    BY <2>7, <2>9, <2>10 DEF TypeOK, Polls, Idle
  <2>12. QED
    BY <2>7, <2>8, <2>9, <2>11 DEF TypeOK, Idle, NothingSkipped, HarvestFacts, Accounted
<1>2. CASE ResponseLost(c)
  <2>1. TypeOK'
    <3>1. faults' \in Nat
      BY <1>2 DEF ResponseLost, TypeOK
    <3>2. QED
      BY <1>2, <3>1 DEF ResponseLost, TypeOK, Polls, Idle, stored, runtime, console
  <2>2. QED
    BY <1>2, <2>1 DEF ResponseLost, TypeOK, Idle, stored, runtime, console, NothingSkipped,
                      PagesJoin, HarvestFacts, Accounted
<1>3. QED
  BY <1>1, <1>2

\* What happens beside the calls.
LEMMA OtherStep ==
  ASSUME DiagnosticsInv, Crash \/ Link \/ RecordDiagnostic \/ RuntimeWrites \/ RuntimeLoses
  PROVE  DiagnosticsInv'
<1> USE DEF DiagnosticsInv
<1>1. CASE Crash
  <2>1. TypeOK'
    <3>1. faults' \in Nat
      BY <1>1 DEF Crash, TypeOK
    <3>2. QED
      BY <1>1, <3>1 DEF Crash, TypeOK, Polls, Idle, stored, runtime, console
  <2>2. QED
    BY <1>1, <2>1 DEF Crash, Idle, stored, runtime, console, NothingSkipped, PagesJoin,
                      HarvestFacts, Accounted
<1>2. CASE Link
  BY <1>2 DEF Link, TypeOK, runtime, console, NothingSkipped, PagesJoin, HarvestFacts, Accounted
<1>3. CASE RecordDiagnostic
  <2>1. log \in Seq(Rows) /\ <<Product>> \in Seq(Rows)
    <3>1. Product \in Rows
      BY DEF Product, Rows
    <3>2. QED
      BY <3>1 DEF TypeOK
  <2>2. log' = log \o <<Product>>
    BY <1>3, <2>1 DEF RecordDiagnostic
  <2>3. UNCHANGED <<linked, out, lost, cursor, poll, after, seen, faults>>
    BY <1>3 DEF RecordDiagnostic, runtime, console
  <2>4. log' \in Seq(Rows) /\ PagesJoin' /\ \A n : Accounted(n) => Accounted(n)'
    BY <2>1, <2>2, <2>3, LogGrows DEF console
  <2>5. TypeOK'
    BY <2>3, <2>4 DEF TypeOK
  <2>6. NothingSkipped'
    BY <2>3, <2>4 DEF NothingSkipped
  <2>7. HarvestFacts'
    BY <2>3, <2>4 DEF HarvestFacts
  <2>8. QED
    BY <2>4, <2>5, <2>6, <2>7
<1>4. CASE RuntimeWrites
  <2>1. out' \in 0 .. MaxOutput
    BY <1>4, DiagnosticsAssumption DEF RuntimeWrites, TypeOK
  <2>2. QED
    BY <1>4, <2>1 DEF RuntimeWrites, TypeOK, stored, console, NothingSkipped, PagesJoin,
                      HarvestFacts, Accounted
<1>5. CASE RuntimeLoses
  <2>1. PICK m \in 1 .. out : lost' = lost \cup {m}
    BY <1>5 DEF RuntimeLoses
  <2>2. lost' \subseteq Lines /\ faults' \in Nat /\ lost \subseteq lost'
    <3>1. m \in Lines
      BY DiagnosticsAssumption DEF TypeOK, Lines
    <3>2. faults' \in Nat
      BY <1>5 DEF RuntimeLoses, TypeOK
    <3>3. QED
      BY <2>1, <3>1, <3>2 DEF TypeOK
  <2>3. UNCHANGED <<linked, out, log, cursor, poll, after, seen>>
    BY <1>5 DEF RuntimeLoses, stored, console
  <2>4. \A n : Accounted(n) => Accounted(n)'
    BY <2>2, <2>3 DEF Accounted, Shown
  <2>5. TypeOK' /\ PagesJoin'
    BY <2>2, <2>3 DEF TypeOK, PagesJoin
  <2>6. NothingSkipped' /\ HarvestFacts'
    BY <2>2, <2>3, <2>4 DEF NothingSkipped, HarvestFacts
  <2>7. QED
    BY <2>5, <2>6
<1>6. QED
  BY <1>1, <1>2, <1>3, <1>4, <1>5

\* The invariant is inductive.
LEMMA DiagnosticsNext == DiagnosticsInv /\ [Next]_vars => DiagnosticsInv'
<1> SUFFICES ASSUME DiagnosticsInv, [Next]_vars PROVE DiagnosticsInv'
  OBVIOUS
<1>1. CASE \E c \in Consoles : PollStep(c) \/ FetchFails(c) \/ ResponseLost(c)
  BY <1>1, HarvestStep, StoreStep, PageStep DEF PollStep
<1>2. CASE Crash \/ Link \/ RecordDiagnostic \/ RuntimeWrites \/ RuntimeLoses
  BY <1>2, OtherStep
<1>3. CASE UNCHANGED vars
  BY <1>3 DEF vars, DiagnosticsInv, TypeOK, NothingSkipped, PagesJoin, HarvestFacts, Accounted
<1>4. QED
  BY <1>1, <1>2, <1>3 DEF Next

\* The invariant holds in every reachable state.
THEOREM DiagnosticsInvariant == Spec => []DiagnosticsInv
BY DiagnosticsInit, DiagnosticsNext, PTL DEF Spec

\* _harvest_runtime_diagnostics never moves the cursor past a line that is
\* neither stored nor reported as lost.
THEOREM OutputIsAccounted == Spec => []NothingSkipped
<1>1. DiagnosticsInv => NothingSkipped
  BY DEF DiagnosticsInv
<1>2. QED
  BY <1>1, DiagnosticsInvariant, PTL

\* The pages of deployment_diagnostics join without gap or repetition.
THEOREM ConsolesSeeTheTable == Spec => []PagesJoin
<1>1. DiagnosticsInv => PagesJoin
  BY DEF DiagnosticsInv
<1>2. QED
  BY <1>1, DiagnosticsInvariant, PTL
=============================================================================
