------------------------ MODULE TurnLifecycleProofs ------------------------
(***************************************************************************)
(* Proofs about the turn lifecycle, for every number of turns, turn states *)
(* and input items.                                                        *)
(*                                                                         *)
(* Alive holds whatever threads of control take part.  Exclusive holds     *)
(* when neither the goal extension nor the guardian is configured, so that *)
(* the submission loop is the only one to start and to abort turns.        *)
(***************************************************************************)
EXTENDS TurnLifecycle, TLAPS

USE DistinctActors, NoTaskIsNone, NoStateIsNone, TriggersAreMails, OtherKindsAreKinds
USE DEF Procs, Items, Kinds, PCs, RunPCs, FinishPCs, StartPCs, AbortPCs

-----------------------------------------------------------------------------
(***************************************************************************)
(* The invariant that does not depend on the configuration.                *)
(***************************************************************************)

\* A start under way has a turn of its own that has not begun.
Starters ==
  /\ \A p \in Procs : /\ pc[p] \in {"collect", "open", "install"} => starting[p] \in Tasks
                      /\ starting[p] # NoTask => pc[starting[p]] = "new"
  /\ \A p, q \in Procs : starting[p] # NoTask /\ starting[p] = starting[q] => p = q

\* An abort under way has cancelled its task and holds its turn state.
Aborters ==
  \A p \in Procs : pc[p] \in {"waiting", "report", "purge"} =>
                     victim[p] \in cancelled /\ ref[p] \in States

\* Only a task that was started is ever cancelled.
CancelledWereStarted == \A t \in cancelled : pc[t] \notin {"unused", "new"}

\* A task that finishes and a continuation that reserved know their turn state.
Holders == \A t \in Tasks : pc[t] \in {"record", "event", "clear", "check"} => ref[t] \in States

\* The loop and the guardian never run a turn, and a task never aborts one.
Roles ==
  /\ \A p \in {Loop, Guard} : pc[p] \in {"ready", "closed", "pend", "collect", "open",
                                         "install"} \cup AbortPCs
  /\ \A t \in Tasks : pc[t] \notin {"ready", "closed"} \cup AbortPCs

GInv == TypeOK /\ SlotTaskIsAlive /\ Starters /\ Aborters /\ CancelledWereStarted /\ Holders /\ Roles

\* It holds in a session that has just started.
LEMMA InitGInv == Init => GInv
  BY DEF Init, GInv, TypeOK, SlotTaskIsAlive, Starters, Aborters, CancelledWereStarted,
         Holders, Roles

\* Every step preserves the invariant.
LEMMA StepGInv == GInv /\ [Next]_vars => GInv'
<1> SUFFICES ASSUME GInv, [Next]_vars PROVE GInv'
  OBVIOUS
<1> USE DEF GInv, TypeOK, SlotTaskIsAlive, Starters, Aborters, CancelledWereStarted, Holders,
            Roles, slot, queues, locals, turn, fate
<1>1. ASSUME NEW i \in UserItems, Steer(i) PROVE GInv'
  BY <1>1 DEF Steer, Steerable
<1>2. ASSUME NEW i \in UserItems, NEW t \in Tasks, UserInput(i, t) PROVE GInv'
  BY <1>2 DEF UserInput, Spawn
<1>3. ASSUME NEW t \in Tasks, NEW k \in OtherKinds, OtherTask(t, k) PROVE GInv'
  BY <1>3 DEF OtherTask, Spawn
<1>4. ASSUME NEW m \in Mails, Communicate(m) PROVE GInv'
  BY <1>4 DEF Communicate, Goto
<1>5. ASSUME Interrupt PROVE GInv'
  BY <1>5 DEF Interrupt, Goto
<1>6. ASSUME Shutdown PROVE GInv'
  BY <1>6 DEF Shutdown, Goto
<1>7. ASSUME NEW i \in InjectItems, Inject(i) PROVE GInv'
  BY <1>7 DEF Inject
<1>8. ASSUME NEW t \in Tasks, GuardianTrips(t) PROVE GInv'
  BY <1>8 DEF GuardianTrips, Goto
<1>9. ASSUME NEW p \in {Loop, Guard}, AbortTakes(p) PROVE GInv'
  BY <1>9 DEF AbortTakes, Aborts, EmptySlot, Goto
<1>10. ASSUME NEW p \in {Loop, Guard}, AbortFindsNone(p) PROVE GInv'
  BY <1>10 DEF AbortFindsNone, Aborts, EmptySlot, Goto, Rest
<1>11. ASSUME NEW p \in {Loop, Guard}, AbortKills(p) PROVE GInv'
  BY <1>11 DEF AbortKills
<1>12. ASSUME NEW p \in {Loop, Guard}, AbortReports(p) PROVE GInv'
  BY <1>12 DEF AbortReports, Terminal, Goto
<1>13. ASSUME NEW p \in {Loop, Guard}, AbortPurges(p) PROVE GInv'
  BY <1>13 DEF AbortPurges, Goto
<1>14. ASSUME NEW p \in Procs, NEW s \in States, NEW t \in Tasks, StartForMail(p, s, t) PROVE GInv'
  BY SMTT(40), <1>14 DEF StartForMail, Reserve, NewTurn
<1>15. ASSUME NEW p \in Procs, NoStartForMail(p) PROVE GInv'
  BY <1>15 DEF NoStartForMail, Goto, Rest
<1>16. ASSUME NEW p \in Procs, Collect(p) PROVE GInv'
  BY <1>16 DEF Collect, PendingInput, PendingOfTurn, DrainPendingInput, Goto
<1>17. ASSUME NEW p \in Procs, NEW s \in States, Open(p, s) PROVE GInv'
  BY SMTT(40), <1>17 DEF Open, Reserve, Goto
<1>18. ASSUME NEW p \in Procs, NEW s \in States, Install(p, s) PROVE GInv'
  <2>1. /\ pc[p] = "install"
        /\ starting[p] \in Tasks
        /\ pc[starting[p]] = "new"
        /\ activeTask # NoTask => pc[activeTask] \in RunPCs \cup {"finish"}
    BY <1>18 DEF Install
  <2>2. Rest(p) \in {"gone", "closed", "ready"} /\ (p \in Tasks <=> Rest(p) = "gone")
    BY DEF Rest
  <2>3. TypeOK'
    BY SMTT(40), <1>18, <2>1, <2>2 DEF Install, Reserve
  <2>4. pc' = IF activeTask = NoTask
              THEN [pc EXCEPT ![p] = Rest(p), ![starting[p]] = "begin"]
              ELSE [pc EXCEPT ![p] = Rest(p), ![starting[p]] = "begin", ![activeTask] = "gone"]
    BY <1>18 DEF Install
  <2>5. SlotTaskIsAlive' /\ CancelledWereStarted'
    BY <1>18, <2>1, <2>2, <2>4 DEF Install, Reserve
  <2>6. Starters'
    BY <1>18, <2>1, <2>2, <2>4 DEF Install
  <2>7. Aborters' /\ Holders' /\ Roles'
    BY <1>18, <2>1, <2>2, <2>4 DEF Install
  <2>8. QED
    BY <2>3, <2>5, <2>6, <2>7
<1>19. ASSUME NEW t \in Tasks, NEW s \in States, TryReserves(t, s) PROVE GInv'
  BY <1>19 DEF TryReserves, Reserve, Goto
<1>20. ASSUME NEW t \in Tasks, TryRejected(t) PROVE GInv'
  BY <1>20 DEF TryRejected, Goto
<1>21. ASSUME NEW t \in Tasks, TryYields(t) PROVE GInv'
  BY <1>21 DEF TryYields, StillReserved, EmptySlot, Goto
<1>22. ASSUME NEW t \in Tasks, NEW u \in Tasks, TryStarts(t, u) PROVE GInv'
  BY <1>22 DEF TryStarts, NewTurn
<1>23. ASSUME NEW t \in Tasks, TryBusy(t) PROVE GInv'
  BY <1>23 DEF TryBusy, Goto
<1>24. ASSUME NEW t \in Tasks, Begin(t) PROVE GInv'
  BY <1>24 DEF Begin, Goto
<1>25. ASSUME NEW t \in Tasks, Drain(t) PROVE GInv'
  BY <1>25 DEF Drain, PendingInput, PendingOfTurn, DrainPendingInput, Goto
<1>26. ASSUME NEW t \in Tasks, Defer(t) PROVE GInv'
  BY <1>26 DEF Defer
<1>27. ASSUME NEW t \in Tasks, Reopen(t) PROVE GInv'
  BY <1>27 DEF Reopen
<1>28. ASSUME NEW t \in Tasks, FollowUp(t) PROVE GInv'
  BY <1>28 DEF FollowUp, Goto
<1>29. ASSUME NEW t \in Tasks, WorkEnds(t) PROVE GInv'
  BY <1>29 DEF WorkEnds, Goto
<1>30. ASSUME NEW t \in Tasks, OuterLoop(t) PROVE GInv'
  BY <1>30 DEF OuterLoop, Goto
<1>31. ASSUME NEW t \in Tasks, ObserveCancel(t) PROVE GInv'
  BY <1>31 DEF ObserveCancel, Goto
<1>32. ASSUME NEW t \in Tasks, Flush(t) PROVE GInv'
  BY <1>32 DEF Flush, Goto
<1>33. ASSUME NEW t \in Tasks, FinishTakes(t) PROVE GInv'
  BY <1>33 DEF FinishTakes, Goto
<1>34. ASSUME NEW t \in Tasks, FinishFindsNone(t) PROVE GInv'
  BY <1>34 DEF FinishFindsNone, Goto
<1>35. ASSUME NEW t \in Tasks, FinishRecords(t) PROVE GInv'
  BY <1>35 DEF FinishRecords, Goto
<1>36. ASSUME NEW t \in Tasks, FinishReports(t) PROVE GInv'
  BY <1>36 DEF FinishReports, Terminal, Goto
<1>37. ASSUME NEW t \in Tasks, FinishClears(t) PROVE GInv'
  BY <1>37 DEF FinishClears, StillReserved, EmptySlot, Goto
<1>38. ASSUME NEW t \in Tasks, IdleContinues(t) PROVE GInv'
  BY <1>38 DEF IdleContinues, Goto
<1>39. ASSUME NEW t \in Tasks, IdleEnds(t) PROVE GInv'
  BY <1>39 DEF IdleEnds, Goto
<1>40. ASSUME UNCHANGED vars PROVE GInv'
  BY <1>40 DEF vars
<1>q. QED
  BY ZenonT(60), <1>1, <1>2, <1>3, <1>4, <1>5, <1>6, <1>7, <1>8, <1>9, <1>10, <1>11, <1>12, <1>13,
     <1>14, <1>15, <1>16, <1>17, <1>18, <1>19, <1>20, <1>21, <1>22, <1>23, <1>24, <1>25,
     <1>26, <1>27, <1>28, <1>29, <1>30, <1>31, <1>32, <1>33, <1>34, <1>35, <1>36, <1>37,
     <1>38, <1>39, <1>40
     DEF Next, ClientStep, AbortStep, StartStep, TryStep, RunStep, FinishStep

\* active_turn, the queues and every caller's locals hold what the session's
\* types say (TypeOK), with whatever extensions are configured.
THEOREM WellTyped == Spec => []TypeOK
<1>1. GInv => TypeOK
  BY DEF GInv
<1>2. QED
  BY InitGInv, StepGInv, <1>1, PTL DEF Spec

\* The task in the slot is always one that is alive (SlotTaskIsAlive), so the
\* session is never kept busy by a task that is over, with whatever extensions
\* are configured.
THEOREM Alive == Spec => []SlotTaskIsAlive
<1>1. GInv => SlotTaskIsAlive
  BY DEF GInv
<1>2. QED
  BY InitGInv, StepGInv, <1>1, PTL DEF Spec

-----------------------------------------------------------------------------
(***************************************************************************)
(* The loop alone starts and aborts turns when no extension is configured. *)
(***************************************************************************)

\* Nobody but the loop starts or aborts a turn.
LoopOnly == pc[Guard] = "ready" /\ \A t \in Tasks : pc[t] \notin StartPCs

\* A task that runs is in the slot, or the loop is waiting for it to end.
RunningIsKnown ==
  \A t \in Tasks : pc[t] \in RunPCs \cup {"finish"} =>
     IF t \in cancelled THEN pc[Loop] = "waiting" /\ victim[Loop] = t ELSE activeTask = t

\* From the moment the loop has taken the slot until it installs a task, no
\* task is in it.
SlotStaysEmpty ==
  pc[Loop] \in {"waiting", "report", "purge", "collect", "open", "install"} => activeTask = NoTask

\* A terminal event is sent by a task that is past its end or by the loop for
\* a task it killed, and then only once.
Reports ==
  /\ \A t \in Tasks : /\ outcome[t] # "twice"
                      /\ outcome[t] # "none" => pc[t] \in {"clear", "idle", "gone"}
  /\ pc[Loop] = "waiting" => pc[victim[Loop]] \in RunPCs \cup {"finish", "gone"}
  /\ pc[Loop] \in {"report", "purge"} => pc[victim[Loop]] = "gone"
  /\ pc[Loop] \in {"waiting", "report"} => outcome[victim[Loop]] = "none"

\* A slot without a task belongs to a finishing task or to the loop.
SlotHasOwner ==
  activeState # NoState /\ activeTask = NoTask =>
    \/ pc[Loop] \in {"collect", "open", "install"}
    \/ \E t \in Tasks : pc[t] \in {"record", "event", "clear"} /\ ref[t] = activeState

LInv == LoopOnly /\ RunningIsKnown /\ SlotStaysEmpty /\ Reports /\ SlotHasOwner /\ NoTaskOverwritten

\* It holds in a session that has just started.
LEMMA InitLInv == Init => LInv
  BY DEF Init, LInv, LoopOnly, RunningIsKnown, SlotStaysEmpty, Reports, SlotHasOwner,
         NoTaskOverwritten

\* Every step preserves the loop's invariant.
LEMMA StepLInv == ASSUME Extensions = {} PROVE GInv /\ LInv /\ [Next]_vars => LInv'
<1> SUFFICES ASSUME GInv, LInv, [Next]_vars PROVE LInv'
  OBVIOUS
<1> USE DEF GInv, TypeOK, SlotTaskIsAlive, Starters, Aborters, Holders, CancelledWereStarted, Roles,
            LInv, LoopOnly, RunningIsKnown, SlotStaysEmpty, Reports, SlotHasOwner, NoTaskOverwritten,
            slot, queues, locals, turn, fate
<1>1. ASSUME NEW i \in UserItems, Steer(i) PROVE LInv'
  BY <1>1 DEF Steer, Steerable
<1>2. ASSUME NEW i \in UserItems, NEW t \in Tasks, UserInput(i, t) PROVE LInv'
  BY SMTT(40), <1>2 DEF UserInput, Spawn
<1>3. ASSUME NEW t \in Tasks, NEW k \in OtherKinds, OtherTask(t, k) PROVE LInv'
  BY SMTT(40), <1>3 DEF OtherTask, Spawn
<1>4. ASSUME NEW m \in Mails, Communicate(m) PROVE LInv'
  BY <1>4 DEF Communicate, Goto
<1>5. ASSUME Interrupt PROVE LInv'
  BY <1>5 DEF Interrupt, Goto
<1>6. ASSUME Shutdown PROVE LInv'
  BY <1>6 DEF Shutdown, Goto
<1>7. ASSUME NEW i \in InjectItems, Inject(i) PROVE LInv'
  BY <1>7 DEF Inject
<1>8. ASSUME NEW t \in Tasks, GuardianTrips(t) PROVE LInv'
  BY <1>8 DEF GuardianTrips, Goto
<1>9. ASSUME NEW p \in {Loop, Guard}, AbortTakes(p) PROVE LInv'
  <2>1. p = Loop /\ activeTask \in Tasks
    BY <1>9 DEF AbortTakes, Aborts
  <2>2. /\ pc' = [pc EXCEPT ![Loop] = "waiting"]
        /\ victim' = [victim EXCEPT ![Loop] = activeTask]
        /\ cancelled' = cancelled \cup {activeTask}
        /\ activeTask' = NoTask /\ activeState' = NoState
        /\ UNCHANGED <<outcome, overwritten>>
        /\ pc[Loop] = "abort"
    BY <1>9, <2>1 DEF AbortTakes, EmptySlot, Goto
  <2>3. LoopOnly' /\ SlotStaysEmpty' /\ SlotHasOwner' /\ NoTaskOverwritten'
    BY <2>2
  <2>4. RunningIsKnown'
    BY <2>1, <2>2
  <2>5. outcome[activeTask] = "none" /\ pc[activeTask] \in RunPCs \cup {"finish"}
    BY <2>1
  <2>6. Reports'
    BY <2>1, <2>2, <2>5
  <2>7. QED
    BY <2>3, <2>4, <2>6
<1>10. ASSUME NEW p \in {Loop, Guard}, AbortFindsNone(p) PROVE LInv'
  BY <1>10 DEF AbortFindsNone, Aborts, EmptySlot, Goto, Rest
<1>11. ASSUME NEW p \in {Loop, Guard}, AbortKills(p) PROVE LInv'
  BY SMTT(40), <1>11 DEF AbortKills
<1>12. ASSUME NEW p \in {Loop, Guard}, AbortReports(p) PROVE LInv'
  BY <1>12 DEF AbortReports, Terminal, Goto
<1>13. ASSUME NEW p \in {Loop, Guard}, AbortPurges(p) PROVE LInv'
  BY <1>13 DEF AbortPurges, Goto
<1>14. ASSUME NEW p \in Procs, NEW s \in States, NEW t \in Tasks, StartForMail(p, s, t) PROVE LInv'
  <2>1. p = Loop /\ activeTask = NoTask /\ pc[Loop] = "pend" /\ pc[t] = "unused"
    BY <1>14 DEF StartForMail, NewTurn
  <2>2. /\ pc' = [pc EXCEPT ![Loop] = "collect", ![t] = "new"]
        /\ UNCHANGED <<activeTask, victim, cancelled, outcome, overwritten>>
    BY <1>14, <2>1 DEF StartForMail, NewTurn
  <2>3. LoopOnly' /\ SlotStaysEmpty' /\ SlotHasOwner' /\ NoTaskOverwritten'
    BY <2>1, <2>2
  <2>4. RunningIsKnown' /\ Reports'
    BY <2>1, <2>2
  <2>5. QED
    BY <2>3, <2>4
<1>15. ASSUME NEW p \in Procs, NoStartForMail(p) PROVE LInv'
  BY <1>15 DEF NoStartForMail, Goto, Rest
<1>16. ASSUME NEW p \in Procs, Collect(p) PROVE LInv'
  BY <1>16 DEF Collect, PendingInput, PendingOfTurn, DrainPendingInput, Goto
<1>17. ASSUME NEW p \in Procs, NEW s \in States, Open(p, s) PROVE LInv'
  BY <1>17 DEF Open, Reserve, Goto
<1>18. ASSUME NEW p \in Procs, NEW s \in States, Install(p, s) PROVE LInv'
  BY <1>18 DEF Install, Reserve, Rest
<1>19. ASSUME NEW t \in Tasks, NEW s \in States, TryReserves(t, s) PROVE LInv'
  BY <1>19 DEF TryReserves, Reserve, Goto
<1>20. ASSUME NEW t \in Tasks, TryRejected(t) PROVE LInv'
  BY <1>20 DEF TryRejected, Goto
<1>21. ASSUME NEW t \in Tasks, TryYields(t) PROVE LInv'
  BY <1>21 DEF TryYields, StillReserved, EmptySlot, Goto
<1>22. ASSUME NEW t \in Tasks, NEW u \in Tasks, TryStarts(t, u) PROVE LInv'
  BY <1>22 DEF TryStarts, NewTurn
<1>23. ASSUME NEW t \in Tasks, TryBusy(t) PROVE LInv'
  BY <1>23 DEF TryBusy, Goto
<1>24. ASSUME NEW t \in Tasks, Begin(t) PROVE LInv'
  BY <1>24 DEF Begin, Goto
<1>25. ASSUME NEW t \in Tasks, Drain(t) PROVE LInv'
  BY <1>25 DEF Drain, PendingInput, PendingOfTurn, DrainPendingInput, Goto
<1>26. ASSUME NEW t \in Tasks, Defer(t) PROVE LInv'
  BY <1>26 DEF Defer
<1>27. ASSUME NEW t \in Tasks, Reopen(t) PROVE LInv'
  BY <1>27 DEF Reopen
<1>28. ASSUME NEW t \in Tasks, FollowUp(t) PROVE LInv'
  BY <1>28 DEF FollowUp, Goto
<1>29. ASSUME NEW t \in Tasks, WorkEnds(t) PROVE LInv'
  BY <1>29 DEF WorkEnds, Goto
<1>30. ASSUME NEW t \in Tasks, OuterLoop(t) PROVE LInv'
  BY <1>30 DEF OuterLoop, Goto
<1>31. ASSUME NEW t \in Tasks, ObserveCancel(t) PROVE LInv'
  BY <1>31 DEF ObserveCancel, Goto
<1>32. ASSUME NEW t \in Tasks, Flush(t) PROVE LInv'
  BY <1>32 DEF Flush, Goto
<1>33. ASSUME NEW t \in Tasks, FinishTakes(t) PROVE LInv'
  BY <1>33 DEF FinishTakes, Goto
<1>34. ASSUME NEW t \in Tasks, FinishFindsNone(t) PROVE LInv'
  BY <1>34 DEF FinishFindsNone, Goto
<1>35. ASSUME NEW t \in Tasks, FinishRecords(t) PROVE LInv'
  BY <1>35 DEF FinishRecords, Goto
<1>36. ASSUME NEW t \in Tasks, FinishReports(t) PROVE LInv'
  BY <1>36 DEF FinishReports, Terminal, Goto
<1>37. ASSUME NEW t \in Tasks, FinishClears(t) PROVE LInv'
  <2>1. /\ pc[t] = "clear" /\ activeTask' = activeTask
        /\ pc' \in {[pc EXCEPT ![t] = "idle"], [pc EXCEPT ![t] = "gone"]}
        /\ UNCHANGED <<victim, cancelled, outcome, overwritten>>
    BY <1>37 DEF FinishClears, StillReserved, EmptySlot, Goto
  <2>2. LoopOnly' /\ RunningIsKnown' /\ SlotStaysEmpty' /\ Reports' /\ NoTaskOverwritten'
    BY <2>1
  <2>3. SlotHasOwner'
    BY <1>37, <2>1 DEF FinishClears, StillReserved, EmptySlot, Goto
  <2>4. QED
    BY <2>2, <2>3
<1>38. ASSUME NEW t \in Tasks, IdleContinues(t) PROVE LInv'
  BY <1>38 DEF IdleContinues, Goto
<1>39. ASSUME NEW t \in Tasks, IdleEnds(t) PROVE LInv'
  BY <1>39 DEF IdleEnds, Goto
<1>40. ASSUME UNCHANGED vars PROVE LInv'
  BY <1>40 DEF vars
<1> HIDE DEF GInv, LInv, TypeOK
<1>q. QED
  BY <1>1, <1>2, <1>3, <1>4, <1>5, <1>6, <1>7, <1>8, <1>9, <1>10, <1>11, <1>12, <1>13,
     <1>14, <1>15, <1>16, <1>17, <1>18, <1>19, <1>20, <1>21, <1>22, <1>23, <1>24, <1>25,
     <1>26, <1>27, <1>28, <1>29, <1>30, <1>31, <1>32, <1>33, <1>34, <1>35, <1>36, <1>37,
     <1>38, <1>39, <1>40
     DEF Next, ClientStep, AbortStep, StartStep, TryStep, RunStep, FinishStep

\* Both invariants hold in every state of a session whose only caller is the loop.
LEMMA LoopSafety == ASSUME Extensions = {} PROVE Spec => [](GInv /\ LInv)
<1>1. QED
  BY InitGInv, StepGInv, InitLInv, StepLInv, PTL DEF Spec

\* With the loop alone, spawn_task's abort is over before the next task begins:
\* a session never runs two tasks (OneTaskRunning).
THEOREM Exclusive == ASSUME Extensions = {} PROVE Spec => []OneTaskRunning
<1>1. GInv /\ LInv => OneTaskRunning
  BY DEF GInv, TypeOK, LInv, RunningIsKnown, SlotStaysEmpty, OneTaskRunning
<1>2. QED
  BY LoopSafety, <1>1, PTL

\* With the loop alone, a task that was not cancelled can always be steered and
\* interrupted through the slot (RunningTaskIsInSlot).
THEOREM Reachable == ASSUME Extensions = {} PROVE Spec => []RunningTaskIsInSlot
<1>1. LInv => RunningTaskIsInSlot
  BY DEF LInv, RunningIsKnown, RunningTaskIsInSlot
<1>2. QED
  BY LoopSafety, <1>1, PTL

\* With the loop alone, handle_task_abort and on_task_finished never both
\* report the end of a turn (OneTerminalEvent).
THEOREM ReportedOnce == ASSUME Extensions = {} PROVE Spec => []OneTerminalEvent
<1>1. LInv => OneTerminalEvent
  BY DEF LInv, Reports, OneTerminalEvent
<1>2. QED
  BY LoopSafety, <1>1, PTL

\* With the loop alone, start_task's debug_assert holds (NoTaskOverwritten).
THEOREM AssertionHolds == ASSUME Extensions = {} PROVE Spec => []NoTaskOverwritten
<1>1. LInv => NoTaskOverwritten
  BY DEF LInv
<1>2. QED
  BY LoopSafety, <1>1, PTL

\* With the loop alone, a slot without a task is always about to be filled or
\* emptied (ReservedSlotHasOwner): the session cannot look busy for ever.
THEOREM Owned == ASSUME Extensions = {} PROVE Spec => []ReservedSlotHasOwner
<1>1. LInv => ReservedSlotHasOwner
  BY DEF LInv, SlotHasOwner, ReservedSlotHasOwner
<1>2. QED
  BY LoopSafety, <1>1, PTL

-----------------------------------------------------------------------------
(***************************************************************************)
(* What the session accepted is kept, with the loop alone.                 *)
(***************************************************************************)

\* A turn state is held by the task that finishes its turn or by the loop that
\* aborts it, and the loop aborts with the slot empty.
StatesAreHeld ==
  /\ \A t \in Tasks : ref[t] # NoState => pc[t] \in {"record", "event", "clear"}
  /\ ref[Guard] = NoState
  /\ ref[Loop] # NoState => pc[Loop] \in {"waiting", "report", "purge"}
  /\ pc[Loop] \in {"waiting", "report", "purge"} => activeState = NoState

\* The turn state of a finishing task takes no input but injected items: no
\* task and no start uses it any more.
FinishedTurnsAreQuiet ==
  \A t \in Tasks :
    /\ ref[t] # NoState /\ ref[t] = activeState =>
         activeTask = NoTask /\ pc[Loop] \notin {"collect", "open", "install"}
    /\ pc[t] \in {"event", "clear"} => pending[ref[t]] \subseteq InjectItems

\* Items in nobody's queue are those the loop is about to give to a turn and
\* those a turn was created with and has not recorded yet.
ItemsInHand ==
  /\ \A p \in Procs : held[p] # {} => p = Loop /\ pc[Loop] = "open"
  /\ \A t \in Tasks : input[t] # {} => pc[t] \in {"new", "begin"}

\* Everything but injected items can be found.
OthersFound == \A i \in sent \ InjectItems : Found(i)

KInv == StatesAreHeld /\ FinishedTurnsAreQuiet /\ ItemsInHand /\ OthersFound

\* It holds before anything is sent.
LEMMA InitKInv == Init => KInv
  BY DEF Init, KInv, StatesAreHeld, FinishedTurnsAreQuiet, ItemsInHand, OthersFound

\* Every step preserves that.
LEMMA StepKInv == ASSUME Extensions = {} PROVE GInv /\ LInv /\ KInv /\ [Next]_vars => KInv'
<1> SUFFICES ASSUME GInv, LInv, KInv, [Next]_vars PROVE KInv'
  OBVIOUS
<1> USE DEF GInv, TypeOK, SlotTaskIsAlive, Starters, Aborters, Holders, Roles,
            LInv, LoopOnly, RunningIsKnown, SlotStaysEmpty, Reports, SlotHasOwner,
            KInv, StatesAreHeld, FinishedTurnsAreQuiet, ItemsInHand, OthersFound, Found,
            slot, queues, locals, turn, fate
<1>1. ASSUME NEW i \in UserItems, Steer(i) PROVE KInv'
  BY <1>1 DEF Steer, Steerable
<1>2. ASSUME NEW i \in UserItems, NEW t \in Tasks, UserInput(i, t) PROVE KInv'
  BY SMTT(40), <1>2 DEF UserInput, Spawn
<1>3. ASSUME NEW t \in Tasks, NEW k \in OtherKinds, OtherTask(t, k) PROVE KInv'
  <2>1. pc[t] = "unused" /\ pc[Loop] = "ready"
    BY <1>3 DEF OtherTask, Spawn
  <2>2. /\ pc' = [pc EXCEPT ![Loop] = "abort", ![t] = "new"]
        /\ input' = [input EXCEPT ![t] = {}]
        /\ UNCHANGED <<slot, queues, ref, held, fate>>
    BY <1>3 DEF OtherTask, Spawn
  <2>3. StatesAreHeld' /\ FinishedTurnsAreQuiet' /\ ItemsInHand'
    BY SMTT(40), <2>1, <2>2
  <2>4. input[t] = {}
    BY <2>1
  <2>5. OthersFound'
    BY <2>2, <2>4
  <2>6. QED
    BY <2>3, <2>5
<1>4. ASSUME NEW m \in Mails, Communicate(m) PROVE KInv'
  BY <1>4 DEF Communicate, Goto
<1>5. ASSUME Interrupt PROVE KInv'
  BY <1>5 DEF Interrupt, Goto
<1>6. ASSUME Shutdown PROVE KInv'
  BY <1>6 DEF Shutdown, Goto
<1>7. ASSUME NEW i \in InjectItems, Inject(i) PROVE KInv'
  BY <1>7 DEF Inject
<1>8. ASSUME NEW t \in Tasks, GuardianTrips(t) PROVE KInv'
  BY <1>8 DEF GuardianTrips, Goto
<1>9. ASSUME NEW p \in {Loop, Guard}, AbortTakes(p) PROVE KInv'
  BY <1>9 DEF AbortTakes, Aborts, EmptySlot, Goto
<1>10. ASSUME NEW p \in {Loop, Guard}, AbortFindsNone(p) PROVE KInv'
  BY SMTT(40), <1>10 DEF AbortFindsNone, Aborts, EmptySlot, Goto, Rest
<1>11. ASSUME NEW p \in {Loop, Guard}, AbortKills(p) PROVE KInv'
  <2>1. p = Loop /\ pc[Loop] = "waiting" /\ victim[Loop] \in Tasks
    BY <1>11 DEF AbortKills
  <2> DEFINE t == victim[Loop]
  <2>2. pc[t] \in RunPCs \cup {"finish", "gone"} /\ ref[t] = NoState
    BY <2>1
  <2>3. /\ pc' = [pc EXCEPT ![Loop] = "report", ![t] = "gone"]
        /\ discarded' = discarded \cup input[t] \cup held[t]
        /\ input' = [input EXCEPT ![t] = {}]
        /\ held' = [held EXCEPT ![t] = {}]
        /\ ref' = [ref EXCEPT ![t] = NoState]
        /\ UNCHANGED <<slot, queues, sent, recorded>>
    BY <1>11, <2>1 DEF AbortKills
  <2>4. ref' = ref
    BY <2>1, <2>2, <2>3
  <2>5. StatesAreHeld' /\ FinishedTurnsAreQuiet' /\ ItemsInHand'
    <3>1. pc'[Loop] = "report" /\ \A q \in Procs : q # Loop => pc'[q] \in {pc[q], "gone"}
      BY <2>1, <2>3
    <3>2. \A q \in Tasks : ref[q] # NoState => pc'[q] = pc[q]
      BY <2>1, <2>2, <2>3
    <3>3. /\ activeState' = activeState /\ activeTask' = activeTask /\ pending' = pending
          /\ activeState = NoState
      BY <2>1, <2>3
    <3>4. StatesAreHeld'
      BY <2>4, <3>1, <3>2, <3>3
    <3>5. FinishedTurnsAreQuiet'
      BY <2>4, <3>1, <3>2, <3>3
    <3>6. ItemsInHand'
      BY <2>1, <2>2, <2>3
    <3>7. QED
      BY <3>4, <3>5, <3>6
  <2>6. ASSUME NEW i \in sent, Found(i) PROVE Found(i)'
    <3>1. /\ mailbox' = mailbox /\ recorded' = recorded /\ discarded \subseteq discarded'
          /\ activeState' = activeState /\ pending' = pending
      BY <2>3
    <3>2. \A q \in Procs : held'[q] = held[q] \/ (q = t /\ held[q] \subseteq discarded')
      BY <2>1, <2>3
    <3>3. \A u \in Tasks : input'[u] = input[u] \/ (u = t /\ input[u] \subseteq discarded')
      BY <2>1, <2>3
    <3>4. QED
      BY <2>4, <2>6, <3>1, <3>2, <3>3
  <2>7. OthersFound'
    BY <2>3, <2>6
  <2>8. QED
    BY <2>5, <2>7
<1>12. ASSUME NEW p \in {Loop, Guard}, AbortReports(p) PROVE KInv'
  BY <1>12 DEF AbortReports, Terminal, Goto
<1>13. ASSUME NEW p \in {Loop, Guard}, AbortPurges(p) PROVE KInv'
  BY SMTT(40), <1>13 DEF AbortPurges, Goto
<1>14. ASSUME NEW p \in Procs, NEW s \in States, NEW t \in Tasks, StartForMail(p, s, t) PROVE KInv'
  BY SMTT(40), <1>14 DEF StartForMail, Reserve, Unreferenced, NewTurn
<1>15. ASSUME NEW p \in Procs, NoStartForMail(p) PROVE KInv'
  BY <1>15 DEF NoStartForMail, Goto, Rest
<1>16. ASSUME NEW p \in Procs, Collect(p) PROVE KInv'
  BY <1>16 DEF Collect, PendingInput, PendingOfTurn, DrainPendingInput, Goto
<1>17. ASSUME NEW p \in Procs, NEW s \in States, Open(p, s) PROVE KInv'
  BY <1>17 DEF Open, Reserve, Unreferenced, Goto
<1>18. ASSUME NEW p \in Procs, NEW s \in States, Install(p, s) PROVE KInv'
  BY SMTT(40), <1>18 DEF Install, Reserve, Unreferenced, Rest
<1>19. ASSUME NEW t \in Tasks, NEW s \in States, TryReserves(t, s) PROVE KInv'
  BY <1>19 DEF TryReserves, Reserve, Goto
<1>20. ASSUME NEW t \in Tasks, TryRejected(t) PROVE KInv'
  BY <1>20 DEF TryRejected, Goto
<1>21. ASSUME NEW t \in Tasks, TryYields(t) PROVE KInv'
  BY <1>21 DEF TryYields, StillReserved, EmptySlot, Goto
<1>22. ASSUME NEW t \in Tasks, NEW u \in Tasks, TryStarts(t, u) PROVE KInv'
  BY <1>22 DEF TryStarts, NewTurn
<1>23. ASSUME NEW t \in Tasks, TryBusy(t) PROVE KInv'
  BY <1>23 DEF TryBusy, Goto
<1>24. ASSUME NEW t \in Tasks, Begin(t) PROVE KInv'
  BY SMTT(40), <1>24 DEF Begin, Goto
<1>25. ASSUME NEW t \in Tasks, Drain(t) PROVE KInv'
  BY <1>25 DEF Drain, PendingInput, PendingOfTurn, DrainPendingInput, Goto
<1>26. ASSUME NEW t \in Tasks, Defer(t) PROVE KInv'
  BY <1>26 DEF Defer
<1>27. ASSUME NEW t \in Tasks, Reopen(t) PROVE KInv'
  BY <1>27 DEF Reopen
<1>28. ASSUME NEW t \in Tasks, FollowUp(t) PROVE KInv'
  BY <1>28 DEF FollowUp, Goto
<1>29. ASSUME NEW t \in Tasks, WorkEnds(t) PROVE KInv'
  BY <1>29 DEF WorkEnds, Goto
<1>30. ASSUME NEW t \in Tasks, OuterLoop(t) PROVE KInv'
  BY <1>30 DEF OuterLoop, Goto
<1>31. ASSUME NEW t \in Tasks, ObserveCancel(t) PROVE KInv'
  BY <1>31 DEF ObserveCancel, Goto
<1>32. ASSUME NEW t \in Tasks, Flush(t) PROVE KInv'
  BY <1>32 DEF Flush, Goto
<1>33. ASSUME NEW t \in Tasks, FinishTakes(t) PROVE KInv'
  BY <1>33 DEF FinishTakes, Goto
<1>34. ASSUME NEW t \in Tasks, FinishFindsNone(t) PROVE KInv'
  BY <1>34 DEF FinishFindsNone, Goto
<1>35. ASSUME NEW t \in Tasks, FinishRecords(t) PROVE KInv'
  BY <1>35 DEF FinishRecords, Goto
<1>36. ASSUME NEW t \in Tasks, FinishReports(t) PROVE KInv'
  BY SMTT(40), <1>36 DEF FinishReports, Terminal, Goto
<1>37. ASSUME NEW t \in Tasks, FinishClears(t) PROVE KInv'
  BY <1>37 DEF FinishClears, StillReserved, EmptySlot, Goto
<1>38. ASSUME NEW t \in Tasks, IdleContinues(t) PROVE KInv'
  BY <1>38 DEF IdleContinues, Goto
<1>39. ASSUME NEW t \in Tasks, IdleEnds(t) PROVE KInv'
  BY <1>39 DEF IdleEnds, Goto
<1>40. ASSUME UNCHANGED vars PROVE KInv'
  BY <1>40 DEF vars
<1> HIDE DEF GInv, LInv, KInv, TypeOK
<1>q. QED
  BY <1>1, <1>2, <1>3, <1>4, <1>5, <1>6, <1>7, <1>8, <1>9, <1>10, <1>11, <1>12, <1>13,
     <1>14, <1>15, <1>16, <1>17, <1>18, <1>19, <1>20, <1>21, <1>22, <1>23, <1>24, <1>25,
     <1>26, <1>27, <1>28, <1>29, <1>30, <1>31, <1>32, <1>33, <1>34, <1>35, <1>36, <1>37,
     <1>38, <1>39, <1>40
     DEF Next, ClientStep, AbortStep, StartStep, TryStep, RunStep, FinishStep

\* With the loop alone, of all that the session accepts only items injected
\* into a turn that is ending can get lost: user input and mail never do.
THEOREM OnlyInjectedItemsGetLost == ASSUME Extensions = {} PROVE Spec => []OthersFound
<1>1. KInv => OthersFound
  BY DEF KInv
<1>2. QED
  BY LoopSafety, InitKInv, StepKInv, <1>1, PTL DEF Spec

\* Without injected items nothing is lost (NoInputLost): steering, mail, the
\* end of a turn, its abort and the start of the next one hand over all input.
THEOREM InputIsKept ==
  ASSUME Extensions = {}, InjectItems = {} PROVE Spec => []NoInputLost
<1>1. OthersFound => NoInputLost
  BY DEF OthersFound, NoInputLost
<1>2. QED
  BY OnlyInjectedItemsGetLost, <1>1, PTL
=============================================================================
