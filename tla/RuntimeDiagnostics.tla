------------------------- MODULE RuntimeDiagnostics -------------------------
(***************************************************************************)
(* The diagnostics of one deployment (service.py, store.py): every GET of  *)
(* a console harvests the output of the serving runtime into the           *)
(* deployment_diagnostics table, which also takes the Product's own lines, *)
(* and returns the next page of it.  The route runs in a thread pool and   *)
(* holds no lock between reading the runtime's cursor, asking the runtime, *)
(* appending its records, moving the cursor and listing the page.          *)
(***************************************************************************)
EXTENDS Naturals, Sequences, FiniteSets

CONSTANTS Consoles,      \* consoles, each with one GET in flight at a time
          MaxOutput,     \* bound on the lines the runtime writes
          MaxProduct,    \* bound on the Product's own lines
          MaxFaults,     \* bound on failed requests, lost lines and responses, and crashes
          HarvestLimit,  \* limit of the request to the runtime (500)
          PageLimit      \* limit of a console's request

ASSUME DiagnosticsAssumption ==
    /\ MaxOutput \in Nat /\ MaxProduct \in Nat /\ MaxFaults \in Nat
    /\ HarvestLimit \in Nat \ {0} /\ PageLimit \in Nat \ {0}

VARIABLES
    linked,  \* deployment_execution_evidence has an execution_ref
    out,     \* external: lines the runtime has written, numbered 1..out
    lost,    \* external: those that it could not keep
    log,     \* the deployment_diagnostics rows, in sequence order
    cursor,  \* runtime_sequence in deployment_diagnostics_cursors
    poll,    \* locals of the deployment_diagnostics call of each console
    after,   \* nextSequence of the last page that a console received
    seen,    \* (history) the records that a console was shown
    faults   \* (bound) faults so far

vars == <<linked, out, lost, log, cursor, poll, after, seen, faults>>

\* A row has the source runtime (one of its lines, or the note that it lost
\* output) or product.
Lines    == 1 .. MaxOutput
Line(n)  == <<"runtime", n>>
Degraded == <<"runtime", 0>>
Product  == <<"product", 0>>
Rows     == {"runtime", "product"} \X Nat

\* Locals: cursor as it was read, and the page that the runtime answered with.
Polls == [pc : {"idle", "fetch", "append", "advance", "list"}, from : Nat, items : SUBSET Lines,
          next : Nat, degraded : BOOLEAN]
Idle  == [pc |-> "idle", from |-> 0, items |-> {}, next |-> 0, degraded |-> FALSE]

\* The rows, the cursor and the locals of the calls have their shapes.
TypeOK ==
    /\ linked \in BOOLEAN
    /\ out \in 0 .. MaxOutput
    /\ lost \subseteq Lines
    /\ log \in Seq(Rows)
    /\ cursor \in Nat
    /\ poll \in [Consoles -> Polls]
    /\ after \in [Consoles -> Nat]
    /\ seen \in [Consoles -> Seq(Rows)]
    /\ faults \in Nat

Init ==
    /\ linked = FALSE
    /\ out = 0 /\ lost = {}
    /\ log = <<>> /\ cursor = 0
    /\ poll = [c \in Consoles |-> Idle]
    /\ after = [c \in Consoles |-> 0]
    /\ seen = [c \in Consoles |-> <<>>]
    /\ faults = 0

stored  == <<linked, log, cursor>>
runtime == <<out, lost>>
console == <<after, seen>>

-----------------------------------------------------------------------------
(* deployment_diagnostics and _harvest_runtime_diagnostics *)

\* Locals that are not read again are forgotten.
Goto(c, pc, next) == poll' = [poll EXCEPT ![c] = [Idle EXCEPT !.pc = pc, !.next = next]]

\* Read the evidence and the cursor; nothing is harvested before _launch has
\* stored an execution_ref.
ReadCursor(c) ==
    /\ poll[c].pc = "idle"
    /\ poll' = [poll EXCEPT ![c] = IF linked THEN [Idle EXCEPT !.pc = "fetch", !.from = cursor]
                                             ELSE [Idle EXCEPT !.pc = "list"]]
    /\ UNCHANGED <<stored, runtime, console, faults>>

\* What the runtime answers: the first lines it kept after the cursor, and
\* whether lines before them are missing.
Kept(from)  == (from + 1 .. out) \ lost
Items(from) == {n \in Kept(from) : Cardinality({k \in Kept(from) : k < n}) < HarvestLimit}
IsLast(n, S) == n \in S /\ \A k \in S : k <= n

\* Mutant of Fetch: the cursor is set before the lines are appended.
FetchAndAdvance(c) ==
    LET from  == poll[c].from
        items == Items(from)
    IN  /\ poll[c].pc = "fetch"
        /\ \E next \in 0 .. MaxOutput + from :
             /\ IF items = {} THEN next = from ELSE IsLast(next, items)
             /\ poll' = [poll EXCEPT ![c] =
                    [pc |-> "append", from |-> from, items |-> items, next |-> next,
                     degraded |-> \E n \in lost : from < n /\ n < next]]
             /\ cursor' = next
        /\ UNCHANGED <<linked, log, runtime, console, faults>>

Fetch(c) ==
    LET from  == poll[c].from
        items == Items(from)
    IN  /\ poll[c].pc = "fetch"
        /\ \E next \in 0 .. MaxOutput + from :
             /\ IF items = {} THEN next = from ELSE IsLast(next, items)
             /\ poll' = [poll EXCEPT ![c] =
                    [pc |-> "append", from |-> from, items |-> items, next |-> next,
                     degraded |-> \E n \in lost : from < n /\ n < next]]
        /\ UNCHANGED <<stored, runtime, console, faults>>

\* A legacy binding, or one that does not answer: nothing is harvested.
FetchFails(c) ==
    /\ poll[c].pc = "fetch" /\ faults < MaxFaults
    /\ faults' = faults + 1
    /\ Goto(c, "list", 0)
    /\ UNCHANGED <<stored, runtime, console>>

\* The sequence s lists the set S in ascending order.
Ascending(s, S) ==
    /\ \A n \in S : \E i \in DOMAIN s : s[i] = n
    /\ \A i, j \in DOMAIN s : i < j => s[i] < s[j]

\* The document that stands for lost lines.
Note(degraded) == IF degraded THEN <<Degraded>> ELSE <<>>

\* The documents of a harvest.
Documents(s, degraded) == [i \in DOMAIN s |-> Line(s[i])] \o Note(degraded)

\* append_deployment_diagnostics adds the lines and the note in one transaction.
AppendRows(c) ==
    /\ poll[c].pc = "append"
    /\ \E s \in [1 .. Cardinality(poll[c].items) -> poll[c].items] :
         /\ Ascending(s, poll[c].items)
         /\ log' = log \o Documents(s, poll[c].degraded)
    /\ Goto(c, "advance", poll[c].next)
    /\ UNCHANGED <<linked, cursor, runtime, console, faults>>

Advance(c) ==
    /\ poll[c].pc = "advance"
    /\ cursor' = poll[c].next
    /\ Goto(c, "list", 0)
    /\ UNCHANGED <<linked, log, runtime, console, faults>>

\* list_deployment_diagnostics returns the rows after the console's cursor, at
\* most its limit.
Listed(c) ==
    LET rest == Len(log) - after[c]
    IN  IF rest < PageLimit THEN rest ELSE PageLimit

\* _bound_diagnostics keeps a prefix that fits the byte budget of 1 MiB.  One row always
\* fits: the rows are DiagnosticRecords, whose fields domain.py bounds (8192 characters
\* at most).
Bounded(k) == IF k = 0 THEN {0} ELSE 1 .. k

\* Mutant of NextSequence: taken from the rows before they were bounded.
NextSequenceUnbounded(c, k) == after[c] + Listed(c)

\* The sequence of the last of the k rows of the page.
NextSequence(c, k) == after[c] + k

List(c) ==
    /\ poll[c].pc = "list"
    /\ \E k \in Bounded(Listed(c)) :
         /\ seen' = [seen EXCEPT ![c] = @ \o SubSeq(log, after[c] + 1, after[c] + k)]
         /\ after' = [after EXCEPT ![c] = NextSequence(c, k)]
    /\ poll' = [poll EXCEPT ![c] = Idle]
    /\ UNCHANGED <<stored, runtime, faults>>

ResponseLost(c) ==
    /\ poll[c].pc = "list" /\ faults < MaxFaults
    /\ faults' = faults + 1
    /\ poll' = [poll EXCEPT ![c] = Idle]
    /\ UNCHANGED <<stored, runtime, console>>

\* The Product process stops and is started again on the same database.
Crash ==
    /\ faults < MaxFaults
    /\ faults' = faults + 1
    /\ poll' = [c \in Consoles |-> Idle]
    /\ UNCHANGED <<stored, runtime, console>>

-----------------------------------------------------------------------------
(* The other writers *)

\* _launch stores the execution_ref.
Link ==
    /\ ~linked
    /\ linked' = TRUE
    /\ UNCHANGED <<log, cursor, runtime, poll, console, faults>>

\* record_deployment_diagnostic, from the command in progress.
RecordDiagnostic ==
    /\ Cardinality({i \in DOMAIN log : log[i] = Product}) < MaxProduct
    /\ log' = Append(log, Product)
    /\ UNCHANGED <<linked, cursor, runtime, poll, console, faults>>

RuntimeWrites ==
    /\ linked /\ out < MaxOutput
    /\ out' = out + 1
    /\ UNCHANGED <<lost, stored, poll, console, faults>>

RuntimeLoses ==
    /\ faults < MaxFaults
    /\ faults' = faults + 1
    /\ \E n \in 1 .. out : n \notin lost /\ lost' = lost \cup {n}
    /\ UNCHANGED <<out, stored, poll, console>>

-----------------------------------------------------------------------------

PollStep(c) ==
    \/ ReadCursor(c) \/ Fetch(c) \/ AppendRows(c) \/ Advance(c) \/ List(c)

Next ==
    \/ \E c \in Consoles : PollStep(c) \/ FetchFails(c) \/ ResponseLost(c)
    \/ Crash
    \/ Link
    \/ RecordDiagnostic
    \/ RuntimeWrites
    \/ RuntimeLoses

Spec == Init /\ [][Next]_vars

\* The consoles keep polling and the server answers.
FairSpec == Spec /\ \A c \in Consoles : WF_vars(PollStep(c))

-----------------------------------------------------------------------------
(* Properties *)

Shown(row, s) == \E i \in DOMAIN s : s[i] = row

\* A line is stored, or the table says that lines are missing.
Accounted(n) ==
    \/ Shown(Line(n), log)
    \/ n \in lost /\ Shown(Degraded, log)

\* The cursor never moves past a line that is not in deployment_diagnostics,
\* unless the runtime lost it and the table says so; for any crash between
\* append and set_runtime_diagnostics_cursor and any two concurrent harvests.
NothingSkipped == \A n \in 1 .. cursor : Accounted(n)

\* The pages of a console join into the table from its first row on: nothing is
\* repeated or left out, although pages are cut to the byte budget, responses
\* are lost and other consoles append meanwhile.
PagesJoin ==
    \A c \in Consoles : /\ after[c] <= Len(log)
                        /\ seen[c] = SubSeq(log, 1, after[c])

\* What a harvest in progress knows.
HarvestFacts ==
    \A c \in Consoles :
        LET p == poll[c]
        IN  /\ p.pc \in {"fetch", "append"} => \A n \in 1 .. p.from : Accounted(n)
            /\ p.pc = "append" =>
                 \A n \in 1 .. p.next : \/ n <= p.from
                                        \/ n \in p.items
                                        \/ n \in lost /\ p.degraded
            /\ p.pc = "advance" => \A n \in 1 .. p.next : Accounted(n)

\* The inductive invariant behind NothingSkipped and PagesJoin.
DiagnosticsInv == TypeOK /\ NothingSkipped /\ PagesJoin /\ HarvestFacts

\* Runtime output is harvested once ("polling again does not duplicate it").
HarvestedOnce ==
    \A i, j \in DOMAIN log : \A n \in Lines : log[i] = Line(n) /\ log[j] = Line(n) => i = j

\* Every line that the runtime keeps reaches every console that keeps polling.
OutputIsShown ==
    \A c \in Consoles, n \in Lines :
        n <= out ~> (n \in lost \/ Shown(Line(n), seen[c]))
=============================================================================
