---------------------------- MODULE ConfigWatcher ----------------------------
(***************************************************************************)
(* Hot reload of the configuration file (ConfigWatcher).  A watchdog       *)
(* observer, or a polling thread, and the callers of reload_now() run      *)
(* _do_reload against a file that is written behind their back.  The file  *)
(* holds a version of the configuration; contents do not recur, so a hash  *)
(* is the version it was taken of.                                         *)
(***************************************************************************)
EXTENDS Naturals

CONSTANTS Callers,      \* threads that call reload_now()
          Watchers,     \* observer or polling threads: one start() makes one
          None,         \* the lock is free
          Refused,      \* versions that load_worker_config rejects
          MaxWrites     \* bound: writes of the file

ASSUME WatcherAssumption ==
    /\ Watchers \cap Callers = {}
    /\ None \notin Callers \cup Watchers
    /\ Refused \subseteq Nat
    /\ MaxWrites \in Nat

VARIABLES
    watchdog,  \* _use_watchdog: watchdog is installed and wanted
    file,      \* external: version of the file's content
    present,   \* external: the file can be read
    hash,      \* _current_hash
    recent,    \* less than debounce_seconds since _last_reload_time
    running,   \* _running
    alive,     \* watcher threads that have not ended
    notices,   \* external: modifications the observer has not delivered yet
    lock,      \* holder of _lock
    pc,        \* where a thread is in _do_reload
    config,    \* new_config of a thread
    tried,     \* (history) version the last load_worker_config was given
    applied,   \* (history) version the callbacks were last given
    since      \* (history) version reload_now found, 0 once it cannot be read

vars == <<watchdog, file, present, hash, recent, running, alive, notices, lock, pc, config,
          tried, applied, since>>

disk    == <<watchdog, file, present>>
loaded  == <<config, tried, applied>>
Threads == Callers \cup Watchers
Pcs     == {"idle", "enter", "hash", "load", "apply", "done"}

\* Versions, the lock and the threads' positions.
TypeOK ==
    /\ file \in Nat /\ hash \in Nat /\ tried \in Nat /\ applied \in Nat
    /\ watchdog \in BOOLEAN /\ present \in BOOLEAN /\ recent \in BOOLEAN /\ running \in BOOLEAN
    /\ alive \subseteq Watchers /\ notices \in Nat
    /\ lock \in Threads \cup {None}
    /\ pc \in [Threads -> Pcs]
    /\ config \in [Threads -> Nat]
    /\ since \in [Callers -> Nat]

\* The constructor hashes the file that the program has loaded.
Init ==
    /\ watchdog \in BOOLEAN
    /\ file = 0 /\ present = TRUE
    /\ hash = 0 /\ recent = FALSE /\ running = FALSE
    /\ alive = {} /\ notices = 0
    /\ lock = None
    /\ pc = [t \in Threads |-> "idle"]
    /\ config = [t \in Threads |-> 0]
    /\ tried = 0 /\ applied = 0
    /\ since = [c \in Callers |-> 0]

-----------------------------------------------------------------------------
(* start() and stop() *)

\* start() makes a thread.
Start ==
    /\ ~running
    /\ running' = TRUE
    /\ \E w \in Watchers \ alive : alive' = alive \cup {w}
    /\ UNCHANGED <<disk, hash, recent, notices, lock, pc, loaded, since>>

\* The observer takes no further notice; stop() waits 5 seconds for the thread
\* and then leaves it to itself.
Stop ==
    /\ running
    /\ running' = FALSE
    /\ notices' = 0
    /\ UNCHANGED <<disk, hash, recent, alive, lock, pc, loaded, since>>

\* A thread sees that the watcher was stopped.
Exit(w) ==
    /\ ~running
    /\ w \in alive /\ pc[w] = "idle"
    /\ alive' = alive \ {w}
    /\ UNCHANGED <<disk, hash, recent, running, notices, lock, pc, loaded, since>>

-----------------------------------------------------------------------------
(* What makes a thread call _do_reload *)

\* The observer delivers a modification: on_modified.
OnModified(w) ==
    /\ watchdog /\ running /\ notices > 0
    /\ w \in alive /\ pc[w] = "idle"
    /\ notices' = notices - 1
    /\ pc' = [pc EXCEPT ![w] = "enter"]
    /\ UNCHANGED <<disk, hash, recent, running, alive, lock, loaded, since>>

\* _polling_loop: _update_hash stores the new hash, without the lock, and then
\* _do_reload is called.
Poll(w) ==
    /\ ~watchdog /\ running
    /\ w \in alive /\ pc[w] = "idle"
    /\ present /\ file # hash
    /\ hash' = file
    /\ pc' = [pc EXCEPT ![w] = "enter"]
    /\ UNCHANGED <<disk, recent, running, alive, notices, lock, loaded, since>>

\* Mutant of ReloadNow: the debounce time is kept.
ReloadNowDebounced(c) ==
    /\ pc[c] = "idle"
    /\ since' = [since EXCEPT ![c] = IF present THEN file ELSE 0]
    /\ pc' = [pc EXCEPT ![c] = "enter"]
    /\ UNCHANGED <<disk, hash, recent, running, alive, notices, lock, loaded>>

\* reload_now() resets the debounce time without the lock.
ReloadNow(c) ==
    /\ pc[c] = "idle"
    /\ recent' = FALSE
    /\ since' = [since EXCEPT ![c] = IF present THEN file ELSE 0]
    /\ pc' = [pc EXCEPT ![c] = "enter"]
    /\ UNCHANGED <<disk, hash, running, alive, notices, lock, loaded>>

\* reload_now() answers TRUE: no exception leaves _do_reload.
ReloadReturns(c) ==
    /\ pc[c] = "done"
    /\ pc' = [pc EXCEPT ![c] = "idle"]
    /\ UNCHANGED <<disk, hash, recent, running, alive, notices, lock, loaded, since>>

-----------------------------------------------------------------------------
(* _do_reload *)

Done(t)    == pc' = [pc EXCEPT ![t] = IF t \in Watchers THEN "idle" ELSE "done"]
Goto(t, l) == pc' = [pc EXCEPT ![t] = l]

\* Mutant of Enter: the lock is not waited for.
EnterAnyway(t) ==
    /\ pc[t] = "enter"
    /\ IF recent THEN Done(t) /\ UNCHANGED lock ELSE Goto(t, "hash") /\ lock' = t
    /\ UNCHANGED <<disk, hash, recent, running, alive, notices, loaded, since>>

\* Under the lock, _should_reload drops the call inside the debounce time.
Enter(t) ==
    /\ pc[t] = "enter" /\ lock = None
    /\ IF recent THEN Done(t) /\ UNCHANGED lock ELSE Goto(t, "hash") /\ lock' = t
    /\ UNCHANGED <<disk, hash, recent, running, alive, notices, loaded, since>>

\* The file is hashed: an unreadable or unchanged file ends the call.
Compare(t) ==
    /\ pc[t] = "hash"
    /\ IF present /\ file # hash
       THEN hash' = file /\ recent' = TRUE /\ Goto(t, "load") /\ UNCHANGED lock
       ELSE Done(t) /\ lock' = None /\ UNCHANGED <<hash, recent>>
    /\ UNCHANGED <<disk, running, alive, notices, loaded, since>>

\* Mutant of Load: the path of the error leaves the lock taken.
LoadKeepsLock(t) ==
    /\ pc[t] = "load"
    /\ tried' = IF present THEN file ELSE tried
    /\ IF present /\ file \notin Refused
       THEN config' = [config EXCEPT ![t] = file] /\ Goto(t, "apply")
       ELSE Done(t) /\ UNCHANGED config
    /\ UNCHANGED <<disk, hash, recent, running, alive, notices, lock, applied, since>>

\* load_worker_config reads the file again.  Its error goes to the error
\* callbacks and ends the call.
Load(t) ==
    /\ pc[t] = "load"
    /\ tried' = IF present THEN file ELSE tried
    /\ IF present /\ file \notin Refused
       THEN config' = [config EXCEPT ![t] = file] /\ Goto(t, "apply") /\ UNCHANGED lock
       ELSE Done(t) /\ lock' = None /\ UNCHANGED config
    /\ UNCHANGED <<disk, hash, recent, running, alive, notices, applied, since>>

\* The callbacks get the new configuration.
Apply(t) ==
    /\ pc[t] = "apply"
    /\ applied' = config[t]
    /\ Done(t) /\ lock' = None
    /\ UNCHANGED <<disk, hash, recent, running, alive, notices, config, tried, since>>

\* debounce_seconds pass.
DebounceEnds ==
    /\ recent
    /\ recent' = FALSE
    /\ UNCHANGED <<disk, hash, running, alive, notices, lock, pc, loaded, since>>

-----------------------------------------------------------------------------
(* Who edits the file *)

\* A write is noticed by a running observer; it may merge with a notice that
\* waits already.
Write ==
    /\ file < MaxWrites
    /\ file' = file + 1
    /\ present' = TRUE
    /\ \/ watchdog /\ running /\ notices' = notices + 1
       \/ (~watchdog \/ ~running \/ notices > 0) /\ UNCHANGED notices
    /\ UNCHANGED <<watchdog, hash, recent, running, alive, lock, pc, loaded, since>>

\* The file is removed, to be written again.
Remove ==
    /\ present /\ file < MaxWrites
    /\ present' = FALSE
    /\ since' = [c \in Callers |-> 0]
    /\ UNCHANGED <<watchdog, file, hash, recent, running, alive, notices, lock, pc, loaded>>

-----------------------------------------------------------------------------

Reload(t) == Enter(t) \/ Compare(t) \/ Load(t) \/ Apply(t)

Next ==
    \/ Start \/ Stop
    \/ \E w \in Watchers : Exit(w) \/ OnModified(w) \/ Poll(w)
    \/ \E c \in Callers : ReloadNow(c) \/ ReloadReturns(c)
    \/ \E t \in Threads : Reload(t)
    \/ DebounceEnds \/ Write \/ Remove

Spec == Init /\ [][Next]_vars

\* Threads run, the observer delivers, the polling thread wakes up and time
\* passes.  Nobody has to call, start or stop anything.
FairSpec ==
    /\ Spec
    /\ WF_vars(DebounceEnds)
    /\ \A w \in Watchers : WF_vars(OnModified(w)) /\ WF_vars(Poll(w)) /\ WF_vars(Exit(w))
    /\ \A c \in Callers : WF_vars(ReloadReturns(c))
    /\ \A t \in Threads : WF_vars(Reload(t))

-----------------------------------------------------------------------------
(* Properties *)

\* Only the holder of _lock is past _should_reload.
LockFacts ==
    \A t \in Threads : pc[t] \in {"hash", "load", "apply"} <=> lock = t

\* The file that was hashed is loaded, or will be by the holder of _lock.
HashFacts ==
    /\ hash <= file /\ tried <= file /\ applied <= tried
    /\ \A t \in Threads : pc[t] = "apply" => config[t] = tried
    /\ watchdog /\ present /\ hash = file => tried = file \/ (lock # None /\ pc[lock] = "load")

\* reload_now() under way: its file was loaded, or the debounce time has not
\* started again, or the thread that started it has still to read the file.
CallFacts ==
    \A c \in Callers :
        /\ since[c] <= file
        /\ ~present => since[c] = 0
        /\ watchdog /\ pc[c] = "apply" => tried >= since[c]
        /\ watchdog /\ pc[c] = "enter" =>
             tried >= since[c] \/ ~recent \/ (lock # None /\ pc[lock] = "load")

\* In watchdog mode, when reload_now() returns, load_worker_config was given the
\* file in the version it had at the call, or a later one, whatever the observer
\* and other callers do meanwhile: what reload_now resets the debounce time for.
ReloadNowIsFresh ==
    \A c \in Callers : watchdog /\ pc[c] = "done" => tried >= since[c]

\* The inductive invariant of both modes.
WatcherInv == TypeOK /\ LockFacts /\ HashFacts /\ CallFacts /\ ReloadNowIsFresh

\* The callbacks never get an older configuration after a newer one, although
\* two threads reload and the file is read twice (_do_reload holds _lock over
\* the callbacks).
NeverBackwards == [][applied' >= applied /\ tried' >= tried]_vars

\* A change of the file that the observer is told of, or that a poll can see,
\* reaches the callbacks while the watcher runs: the module promises to watch
\* the file and to reload it by itself.
ChangesAreLoaded ==
    \A v \in 1..MaxWrites :
        (running /\ present /\ file = v /\ v \notin Refused /\ (watchdog => notices > 0)) ~>
            (applied = v \/ ~running \/ ~present \/ file # v)

\* A change that the observer is told of outside the debounce time reaches the
\* callbacks, while the watcher runs and the file stays as it is: other reloads,
\* refused versions before it, and a restart of the watcher do not lose it, and
\* every path of _do_reload gives _lock back.
QuietChangesAreLoaded ==
    \A v \in 1..MaxWrites :
        (watchdog /\ running /\ present /\ ~recent /\ notices > 0 /\ file = v /\ v \notin Refused)
            ~> (applied = v \/ ~running \/ ~present \/ file # v)

\* reload_now() answers whether the reload succeeded.
ReloadNowTellsSuccess ==
    \A c \in Callers : pc[c] = "done" => applied >= since[c]
=============================================================================
