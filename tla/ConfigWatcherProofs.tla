------------------------- MODULE ConfigWatcherProofs -------------------------
(***************************************************************************)
(* With any number of threads and writes: in watchdog mode reload_now()    *)
(* returns after its file was loaded and the callbacks never go backwards. *)
(***************************************************************************)
EXTENDS ConfigWatcher, TLAPS

\* Nothing is under way when the watcher is made.
LEMMA InitInv == Init => WatcherInv
<1> SUFFICES ASSUME Init PROVE WatcherInv
  OBVIOUS
<1> USE WatcherAssumption DEF Init, Threads, Pcs
<1>1. TypeOK
  BY DEF TypeOK
<1>2. LockFacts
  BY DEF LockFacts
<1>3. HashFacts
  BY DEF HashFacts
<1>4. CallFacts
  <2> SUFFICES ASSUME NEW c \in Callers
               PROVE  /\ since[c] <= file
                      /\ since[c] = 0
                      /\ pc[c] # "enter" /\ pc[c] # "apply"
    BY Zenon DEF CallFacts
  <2> QED
    OBVIOUS
<1>5. ReloadNowIsFresh
  BY DEF ReloadNowIsFresh
<1> QED
  BY <1>1, <1>2, <1>3, <1>4, <1>5 DEF WatcherInv

\* Every step of the watcher, of the editor and of time keeps the invariant.
LEMMA StepInv ==
    ASSUME WatcherInv, [Next]_vars
    PROVE  WatcherInv'
<1> USE WatcherAssumption
<1> USE DEF WatcherInv, TypeOK, Threads, Pcs, LockFacts, HashFacts, CallFacts, ReloadNowIsFresh,
            disk, loaded
<1>1. CASE Start
  BY <1>1 DEF Start
<1>2. CASE Stop
  BY <1>2 DEF Stop
<1>3. CASE \E w \in Watchers : Exit(w) \/ OnModified(w) \/ Poll(w)
  <2>1. PICK w \in Watchers : Exit(w) \/ OnModified(w) \/ Poll(w)
    BY <1>3
  <2>2. CASE Exit(w)
    BY <2>2 DEF Exit
  <2>3. CASE OnModified(w)
    BY <2>3 DEF OnModified
  <2>4. CASE Poll(w)
    BY <2>4 DEF Poll
  <2> QED
    BY <2>1, <2>2, <2>3, <2>4
<1>4. CASE \E c \in Callers : ReloadNow(c) \/ ReloadReturns(c)
  <2>1. PICK c \in Callers : ReloadNow(c) \/ ReloadReturns(c)
    BY <1>4
  <2>2. CASE ReloadNow(c)
    <3>1. TypeOK'
      BY <2>2 DEF ReloadNow
    <3>2. LockFacts'
      BY <2>2 DEF ReloadNow
    <3>3. HashFacts'
      BY <2>2 DEF ReloadNow
    <3>4. CallFacts'
      BY <2>2 DEF ReloadNow
    <3>5. ReloadNowIsFresh'
      BY <2>2 DEF ReloadNow
    <3> QED
      BY <3>1, <3>2, <3>3, <3>4, <3>5 DEF WatcherInv
  <2>3. CASE ReloadReturns(c)
    BY <2>3 DEF ReloadReturns
  <2> QED
    BY <2>1, <2>2, <2>3
<1>5. CASE \E t \in Threads : Reload(t)
  <2>1. PICK t \in Threads : Enter(t) \/ Compare(t) \/ Load(t) \/ Apply(t)
    BY <1>5 DEF Reload
  <2>2. CASE Enter(t)
    BY <2>2 DEF Enter, Done, Goto
  <2>3. CASE Compare(t)
    <3>1. TypeOK'
      BY <2>3 DEF Compare, Done, Goto
    <3>2. LockFacts'
      BY <2>3 DEF Compare, Done, Goto
    <3>3. HashFacts'
      BY <2>3 DEF Compare, Done, Goto
    <3>4. CallFacts'
      BY <2>3 DEF Compare, Done, Goto
    <3>5. ReloadNowIsFresh'
      BY <2>3 DEF Compare, Done, Goto
    <3> QED
      BY <3>1, <3>2, <3>3, <3>4, <3>5 DEF WatcherInv
  <2>4. CASE Load(t)
    BY <2>4 DEF Load, Done, Goto
  <2>5. CASE Apply(t)
    <3>1. TypeOK'
      BY <2>5 DEF Apply, Done, Goto
    <3>2. LockFacts'
      BY <2>5 DEF Apply, Done, Goto
    <3>3. HashFacts'
      BY <2>5 DEF Apply, Done, Goto
    <3>4. CallFacts'
      <4>1. pc[lock] = "apply" /\ lock # None
        BY <2>5 DEF Apply
      <4>2. \A c \in Callers :
              (pc'[c] = "enter" => pc[c] = "enter") /\ (pc'[c] = "apply" => pc[c] = "apply")
        BY <2>5 DEF Apply, Done
      <4>3. UNCHANGED <<watchdog, file, present, recent, tried, since>>
        BY <2>5 DEF Apply
      <4>4. SUFFICES ASSUME NEW c \in Callers
                     PROVE  /\ since[c] <= file
                            /\ ~present => since[c] = 0
                            /\ watchdog /\ pc[c] = "apply" => tried >= since[c]
                            /\ watchdog /\ pc[c] = "enter" => tried >= since[c] \/ ~recent
        BY <4>2, <4>3, Zenon
      <4> QED
        BY <4>1, <4>4
    <3>5. ReloadNowIsFresh'
      BY <2>5 DEF Apply, Done, Goto
    <3> QED
      BY <3>1, <3>2, <3>3, <3>4, <3>5 DEF WatcherInv
  <2> QED
    BY <2>1, <2>2, <2>3, <2>4, <2>5
<1>6. CASE DebounceEnds
  BY <1>6 DEF DebounceEnds
<1>7. CASE Write
  <2>1. TypeOK'
    BY <1>7 DEF Write
  <2>2. LockFacts'
    BY <1>7 DEF Write
  <2>3. HashFacts'
    BY <1>7 DEF Write
  <2>4. CallFacts'
    BY <1>7 DEF Write
  <2>5. ReloadNowIsFresh'
    BY <1>7 DEF Write
  <2> QED
    BY <2>1, <2>2, <2>3, <2>4, <2>5 DEF WatcherInv
<1>8. CASE Remove
  <2>1. TypeOK' /\ LockFacts' /\ HashFacts'
    BY <1>8 DEF Remove
  <2>2. \A c \in Callers : since'[c] = 0
    BY <1>8 DEF Remove
  <2>3. CallFacts' /\ ReloadNowIsFresh'
    BY <1>8, <2>1, <2>2 DEF Remove
  <2> QED
    BY <2>1, <2>3
<1>9. CASE UNCHANGED vars
  BY <1>9 DEF vars
<1> QED
  BY <1>1, <1>2, <1>3, <1>4, <1>5, <1>6, <1>7, <1>8, <1>9 DEF Next

\* The invariant of the watcher's threads holds in both modes, for any number of
\* callers, restarts and writes.
THEOREM WatcherInvariant == Spec => []WatcherInv
<1>1. WatcherInv /\ [Next]_vars => WatcherInv'
  BY StepInv
<1> QED
  BY <1>1, InitInv, PTL DEF Spec

\* In watchdog mode reload_now() returns after load_worker_config was given the
\* file of the call or a later one (reload_now resets the debounce time).
THEOREM ReloadIsFresh == Spec => []ReloadNowIsFresh
<1>1. WatcherInv => ReloadNowIsFresh
  BY DEF WatcherInv
<1> QED
  BY <1>1, WatcherInvariant, PTL

\* The callbacks never get an older configuration after a newer one (_do_reload holds _lock over the callbacks).
THEOREM CallbacksGoForward == Spec => NeverBackwards
<1>1. WatcherInv /\ [Next]_vars => [applied' >= applied /\ tried' >= tried]_vars
  <2> SUFFICES ASSUME WatcherInv, Next
               PROVE  applied' >= applied /\ tried' >= tried
    OBVIOUS
  <2> USE DEF WatcherInv, TypeOK, HashFacts, disk, loaded
  <2>1. CASE \E t \in Threads : Reload(t)
    <3>1. PICK t \in Threads : Enter(t) \/ Compare(t) \/ Load(t) \/ Apply(t)
      BY <2>1 DEF Reload
    <3> QED
      BY <3>1 DEF Enter, Compare, Load, Apply
  <2>2. CASE ~ \E t \in Threads : Reload(t)
    BY <2>2 DEF Next, Start, Stop, Exit, OnModified, Poll, ReloadNow, ReloadReturns, DebounceEnds,
                Write, Remove
  <2> QED
    BY <2>1, <2>2
<1> QED
  BY <1>1, WatcherInvariant, PTL DEF Spec, NeverBackwards
=============================================================================
