------------------------ MODULE TaskPoolOrder_proofs ------------------------
(***************************************************************************)
(* What tasks still wait for: the lists m_TasksToWaitOn and                *)
(* m_TasksWaitingOnThis of two tasks agree, and an entry whose reason is   *)
(* gone is removed by a call that is under way.  And the order in which    *)
(* tasks run: what a task has to come after is either settled, or ahead of *)
(* it in the lane of its device, or covered by a dependency the task still *)
(* has.                                                                    *)
(***************************************************************************)
EXTENDS TaskPool_proofs

-----------------------------------------------------------------------------
(* The inductive invariant of the waits *)

\* A call of function fn of task t still has d on its list.
Owes(fn, t, d) == \E f \in ToSet(stack) : f.fn = fn /\ f.task = t /\ d \in f.todo

\* A call of Task::Complete has yet to clear the lists of t.
Ended(t) == \E f \in ToSet(stack) : f.fn = "Complete" /\ f.task = t

\* d waits for t with reason: t knows of it, and while t is on its way out a
\* call is about to tell d, at the latest when t is ready if it is for the
\* same device.
Reason(t, d) ==
  /\ d \in waiters[t]
  /\ Finished(t) => Owes("Complete", t, d)
  /\ DeviceOfTask(t) = DeviceOfTask(d) /\ state[t] = Ready => Owes("Ready", t, d)
  /\ DeviceOfTask(t) = DeviceOfTask(d) => state[t] # Running

WaitsInv ==
  /\ \A d \in Created : Finished(d) /\ waitOn[d] # {} => Ended(d)
  /\ \A d \in Created : ~Finished(d) => \A t \in waitOn[d] : Reason(t, d)

-----------------------------------------------------------------------------
(* What a step has to do to keep it *)

\* Tasks, and the entries of their lists, only go.
OnlyGo ==
  /\ UNCHANGED <<created, home>>
  /\ \A d \in Created : waitOn'[d] \subseteq waitOn[d]
  /\ \A d \in Created : Finished(d) => Finished(d)'
  /\ \A d, t \in Created :
       t \in waitOn'[d] /\ ~Finished(d)' /\ d \in waiters[t] => d \in waiters'[t]

\* A task that ends or becomes ready has a call for all who wait for it, and
\* one is recorded only while no call is under way.
Announced ==
  \A t \in Created :
    /\ Finished(t)' /\ ~Finished(t) =>
         Ended(t)' /\ \A d \in waiters[t] : Owes("Complete", t, d)'
    /\ state'[t] = Ready /\ state[t] # Ready => \A d \in waiters[t] : Owes("Ready", t, d)'
    /\ state'[t] = Running /\ state[t] # Running => state[t] = Ready /\ stack = <<>>

\* A call leaves its list only when the entry is gone, or was not its own.
Told ==
  \A d, t \in Created :
    /\ Ended(d) => Ended(d)' \/ waitOn'[d] = {}
    /\ Owes("Complete", t, d) =>
         Owes("Complete", t, d)' \/ t \notin waitOn'[d] \/ Finished(d)'
    /\ Owes("Ready", t, d) =>
         Owes("Ready", t, d)' \/ t \notin waitOn'[d] \/ DeviceOfTask(t) # DeviceOfTask(d)

(* ... and that is enough.                                                 *)
LEMMA WaitsKept ==
  ASSUME PoolInv, WaitsInv, OnlyGo, Announced, Told
  PROVE  WaitsInv'
<1>1. Created' = Created /\ \A t : DeviceOfTask(t)' = DeviceOfTask(t)
  BY DEF OnlyGo, Created, DeviceOfTask
<1>2. \A d \in Created : Finished(d)' /\ waitOn'[d] # {} => Ended(d)'
  BY DEF WaitsInv, OnlyGo, Announced, Told
<1>3. ASSUME NEW d \in Created, ~Finished(d)', NEW t \in waitOn'[d]
      PROVE  Reason(t, d)'
  <2>1. ~Finished(d) /\ t \in waitOn[d] /\ t \in Created /\ TypeOK
    <3>1. t \in waitOn[d] /\ ~Finished(d) /\ TypeOK
      BY <1>3 DEF OnlyGo, PoolInv, QueueInv, TypeInv
    <3> QED BY <3>1, TaskFacts
  <2>2. Reason(t, d)
    BY <2>1 DEF WaitsInv
  <2>3. d \in waiters'[t]
    BY <1>3, <2>1, <2>2 DEF OnlyGo, Reason
  <2>4. d \in waiters[t]
    BY <2>2 DEF Reason
  <2>5. Finished(t)' => Owes("Complete", t, d)'
    BY <1>3, <2>1, <2>2, <2>4 DEF Reason, Announced, Told
  <2>6. ASSUME DeviceOfTask(t) = DeviceOfTask(d), state'[t] = Ready
        PROVE  Owes("Ready", t, d)'
    BY <1>3, <2>1, <2>2, <2>4, <2>6 DEF Reason, Announced, Told
  <2>7. ASSUME DeviceOfTask(t) = DeviceOfTask(d)
        PROVE  state'[t] # Running
    <3>1. ASSUME stack = <<>>
          PROVE  ~Owes("Ready", t, d)
      BY <3>1 DEF Owes, ToSet
    <3> QED BY <2>1, <2>2, <2>7, <3>1 DEF Reason, Announced
  <2> QED BY <1>1, <2>3, <2>5, <2>6, <2>7 DEF Reason
<1> QED BY <1>1, <1>2, <1>3 DEF WaitsInv

-----------------------------------------------------------------------------
(* The calls under way *)

(* The calls under way after each kind of step.                            *)
LEMMA StackAfter ==
  ASSUME PoolInv, stack # <<>>
  PROVE  /\ Returns => ToSet(stack') = ToSet(Callers)
         /\ \A r \in Frames : GoesOn(r) => ToSet(stack') = {r} \cup ToSet(Callers)
         /\ \A r, g \in Frames : Calling(g, r) => ToSet(stack') = {g, r} \cup ToSet(Callers)
<1>1. stack \in Seq(Frames)
  BY FramesOf
<1>2. /\ \A r \in Frames : ToSet(<<r>> \o Tail(stack)) = {r} \cup ToSet(Tail(stack))
      /\ \A r \in Frames, g \in Frames :
           ToSet(<<g>> \o (<<r>> \o Tail(stack))) = {g, r} \cup ToSet(Tail(stack))
  BY <1>1, StackSets
<1> QED BY <1>2 DEF Returns, GoesOn, Calling, Callers

(* Only the innermost call can leave the stack, ...                        *)
LEMMA OwesCallers ==
  ASSUME PoolInv, stack # <<>>, ToSet(Callers) \subseteq ToSet(stack')
  PROVE  /\ \A fn, t, d : Owes(fn, t, d) =>
              \/ Owes(fn, t, d)'
              \/ Head(stack).fn = fn /\ Head(stack).task = t /\ d \in Head(stack).todo
         /\ \A d : Ended(d) => Ended(d)' \/ (Head(stack).fn = "Complete" /\ Head(stack).task = d)
<1>1. ToSet(stack) = {Head(stack)} \cup ToSet(Callers)
  BY FramesOf
<1> QED BY <1>1 DEF Owes, Ended

(* ... and one that goes on is through with no more than one entry.        *)
LEMMA OwesDone ==
  ASSUME PoolInv, NEW fn \in {"SubmitTask", "Ready", "Complete", "clWaitForEvents"},
         Executing(fn), NEW x \in Head(stack).todo,
         Done(x) \in ToSet(stack'), ToSet(Callers) \subseteq ToSet(stack')
  PROVE  /\ \A g \in {"Ready", "Complete"} : \A t, d : Owes(g, t, d) =>
              Owes(g, t, d)' \/ (g = fn /\ t = Head(stack).task /\ d = x)
         /\ \A d : Ended(d) => Ended(d)'
<1>1. /\ stack # <<>> /\ Head(stack).fn = fn /\ TypeOK
  BY DEF Executing, PoolInv, QueueInv, TypeInv
<1>2. /\ Done(x).fn = fn /\ Done(x).todo = Head(stack).todo \ {x}
      /\ fn # "clWaitForEvents" => Done(x).task = Head(stack).task
  BY <1>1, DoneFields
<1>3. \A t, d : Owes(fn, t, d)' \/ ~(fn \in {"Ready", "Complete"}) \/ d = x
                  \/ t # Head(stack).task \/ d \notin Head(stack).todo
  BY <1>2 DEF Owes
<1>4. \A d : fn = "Complete" /\ Head(stack).task = d => Ended(d)'
  BY <1>2 DEF Ended
<1> QED BY <1>1, <1>3, <1>4, OwesCallers

-----------------------------------------------------------------------------
(* The steps of the lock holder *)

(* A step that only moves calls, or tasks between containers.              *)
LEMMA WaitsQuiet ==
  ASSUME PoolInv, WaitsInv, UNCHANGED <<taskVars, state, depVars>>, Told
  PROVE  WaitsInv'
<1>1. OnlyGo /\ Announced
  BY DEF OnlyGo, Announced, taskVars, depVars, Finished
<1> QED BY <1>1, WaitsKept

(* A task that is submitted is ready only if nothing is to be waited for.  *)
LEMMA WaitsSubmits ==
  ASSUME PoolInv, WaitsInv, NEW q \in Queue, NEW t \in Created, Told,
         \/ Submits(t, q)
         \/ SubmitsReady(t, q) /\ ReadyFrame(t, waiters[t]) \in ToSet(stack')
  PROVE  WaitsInv'
<1>1. TypeOK /\ Created \subseteq Task
  BY CreatedTasks DEF PoolInv, QueueInv, TypeInv
<1>2. Leaves(t, q)
  BY DEF Submits, SubmitsReady
<1>3. state[t] = Queued
  BY <1>2, Oldest, Zenon
<1>4. UNCHANGED <<created, home, depVars>>
  BY DEF Submits, SubmitsReady, TurnsReady, taskVars, depVars
<1>5. /\ \A u \in Created : u # t => state'[u] = state[u]
      /\ \/ state'[t] = Submitted
         \/ state'[t] = Ready /\ ReadyFrame(t, waiters[t]) \in ToSet(stack')
  <2>1. t \in Task /\ state \in [Task -> Status]
    BY <1>1 DEF TypeOK
  <2>2. CASE Submits(t, q)
    BY <1>1, <2>1, <2>2 DEF Submits
  <2>3. CASE SubmitsReady(t, q) /\ ReadyFrame(t, waiters[t]) \in ToSet(stack')
    BY <1>1, <2>1, <2>3 DEF SubmitsReady, TurnsReady
  <2> QED BY <2>2, <2>3
<1>6. state'[t] = Ready => \A d \in waiters[t] : Owes("Ready", t, d)'
  BY <1>5, NewFields, StatusOrder DEF Owes
<1>7. \A u \in Created : (Finished(u) <=> Finished(u)')
  BY <1>3, <1>5, StatusOrder DEF Finished
<1>8. Announced
  BY <1>3, <1>5, <1>6, <1>7, StatusOrder DEF Announced
<1>9. OnlyGo
  BY <1>4, <1>7 DEF OnlyGo, depVars
<1> QED BY <1>8, <1>9, WaitsKept

(* A task that is released goes on its way.                                *)
LEMMA WaitsReleases ==
  ASSUME PoolInv, WaitsInv, NEW fn \in {"Ready", "Complete"}, Executing(fn),
         NEW d \in Head(stack).todo, NEW v \in Created, v = Head(stack).task, ReleaseStep(v, d)
  PROVE  WaitsInv'
<1>1. /\ TypeOK /\ Created \subseteq Task /\ stack # <<>>
  BY CreatedTasks DEF PoolInv, QueueInv, TypeInv, Executing
<1>2. d \in Created /\ Done(d) \in Frames
  BY <1>1, DoneFields
<1>3. /\ UNCHANGED <<created, home, waiters>>
      /\ \A u \in Created : waitOn'[u] = IF u = d THEN waitOn[d] \ {v} ELSE waitOn[u]
  BY <1>1, <1>2 DEF ReleaseStep, Releases, ReleasesLast, TurnsReady, taskVars, TypeOK
<1>4. ReadyFrame(d, waiters[d]) \in Frames
  BY <1>1, <1>2, TaskFacts, FrameTypes
<1>5. ToSet(Callers) \subseteq ToSet(stack') /\ Done(d) \in ToSet(stack')
  <2>1. PICK r \in Frames : r = Done(d)
    BY <1>2
  <2>2. PICK g \in Frames : g = ReadyFrame(d, waiters[d])
    BY <1>4
  <2>3. GoesOn(r) \/ Calling(g, r)
    BY <2>1, <2>2 DEF ReleaseStep
  <2>4. r \in ToSet(stack') /\ ToSet(Callers) \subseteq ToSet(stack')
    BY <1>1, <2>3, StackAfter
  <2> QED BY <2>1, <2>4
<1>6. \/ UNCHANGED state
      \/ /\ state[d] = Submitted /\ ReadyFrame(d, waiters[d]) \in ToSet(stack')
         /\ \A u \in Created : state'[u] = IF u = d THEN Ready ELSE state[u]
  <2>1. CASE Releases(v, d)
    BY <2>1 DEF Releases
  <2>2. CASE ReleasesLast(v, d) /\ Calling(ReadyFrame(d, waiters[d]), Done(d))
    <3>1. PICK r \in Frames, g \in Frames : r = Done(d) /\ g = ReadyFrame(d, waiters[d])
      BY <1>2, <1>4
    <3>2. g \in ToSet(stack')
      BY <1>1, <2>2, <3>1, StackAfter
    <3> QED BY <1>1, <2>2, <3>1, <3>2 DEF ReleasesLast, TurnsReady, TypeOK
  <2> QED BY <2>1, <2>2 DEF ReleaseStep
<1>7. Announced
  <2>1. state'[d] = Ready /\ state[d] # Ready => \A u \in waiters[d] : Owes("Ready", d, u)'
    BY <1>6, NewFields DEF Owes
  <2> QED BY <1>2, <1>6, <2>1, StatusOrder DEF Announced, Finished
<1>8. OnlyGo
  BY <1>2, <1>3, <1>6, StatusOrder DEF OnlyGo, Finished
<1>9. Told
  <2>1. v \notin waitOn'[d]
    BY <1>2, <1>3
  <2>2. /\ \A g \in {"Ready", "Complete"} : \A t, u : Owes(g, t, u) =>
             Owes(g, t, u)' \/ (t = v /\ u = d)
        /\ \A u : Ended(u) => Ended(u)'
    BY <1>5, OwesDone
  <2> QED BY <2>1, <2>2 DEF Told
<1> QED BY <1>7, <1>8, <1>9, WaitsKept

(* A task that ends lets all those waiting for it know.                    *)
LEMMA WaitsEnds ==
  ASSUME PoolInv, WaitsInv, NEW t \in Created, NEW e \in Error, Ends(t, e), Told,
         CompleteFrame(t, e, waiters[t]) \in ToSet(stack')
  PROVE  WaitsInv'
<1>1. TypeOK /\ Created \subseteq Task
  BY CreatedTasks DEF PoolInv, QueueInv, TypeInv
<1>2. /\ ~Finished(t) /\ UNCHANGED <<created, home, waitOn, waiters>>
      /\ \A u \in Created : state'[u] = IF u = t THEN e ELSE state[u]
  BY <1>1 DEF Ends, TypeOK, taskVars, depVars
<1>3. Ended(t)' /\ \A d \in waiters[t] : Owes("Complete", t, d)'
  BY NewFields DEF Ended, Owes
<1>4. e \notin {Ready, Running} /\ e <= Complete
  BY StatusOrder
<1>5. Announced
  BY <1>2, <1>3, <1>4 DEF Announced, Finished
<1>6. OnlyGo
  BY <1>2, <1>4 DEF OnlyGo, Finished
<1> QED BY <1>5, <1>6, WaitsKept

(* When the lists of an ended task are cleared nobody waits for it.        *)
LEMMA WaitsClears ==
  ASSUME PoolInv, WaitsInv, Executing("Complete"), Head(stack).todo = {},
         NEW t \in Created, t = Head(stack).task, Finished(t), Clears(t), Returns
  PROVE  WaitsInv'
<1>1. /\ TypeOK /\ Created \subseteq Task /\ stack # <<>> /\ stack \in Seq(Frames)
      /\ Head(stack).fn = "Complete"
  BY CreatedTasks, FramesOf DEF PoolInv, QueueInv, TypeInv, Executing
<1>2. /\ UNCHANGED <<created, home, state>>
      /\ \A u \in Created : /\ waitOn'[u] = IF u = t THEN {} ELSE waitOn[u]
                            /\ waiters'[u] = IF u = t THEN {} ELSE waiters[u]
  BY <1>1 DEF Clears, TypeOK, taskVars
<1>3. \A f \in ToSet(stack) : f.fn = "Complete" /\ f.task = t => f.todo = {}
  <2> SUFFICES ASSUME NEW f \in ToSet(stack), f.fn = "Complete", f.task = t
               PROVE  f.todo = {}
    OBVIOUS
  <2>1. PICK i \in 1 .. Len(stack) : f = stack[i]
    BY <1>1 DEF ToSet
  <2>2. 1 \in 1 .. Len(stack) /\ stack[1] = Head(stack)
    BY <1>1
  <2>3. i = 1
    BY <1>1, <2>1, <2>2 DEF PoolInv, Nested
  <2> QED BY <2>1, <2>2, <2>3
<1>4. \A d \in Created : ~Finished(d) => t \notin waitOn[d]
  BY <1>3 DEF WaitsInv, Reason, Owes
<1>5. OnlyGo
  BY <1>2, <1>4 DEF OnlyGo, Finished
<1>6. Announced
  BY <1>2 DEF Announced, Finished
<1>7. Told
  <2>1. ToSet(Callers) \subseteq ToSet(stack')
    BY <1>1, StackAfter
  <2>2. /\ \A fn, u, d : Owes(fn, u, d) => Owes(fn, u, d)'
        /\ \A d : Ended(d) => Ended(d)' \/ d = t
    BY <1>1, <2>1, OwesCallers
  <2> QED BY <1>2, <2>2 DEF Told
<1> QED BY <1>5, <1>6, <1>7, WaitsKept

(* No step of the lock holder breaks an agreement.                         *)
LEMMA WaitsLockHolder ==
  ASSUME PoolInv, WaitsInv, LockStep
  PROVE  WaitsInv'
<1> DEFINE f == Head(stack)
<1>1. /\ stack # <<>> /\ fault = "none" /\ f \in Frames /\ TypeOK /\ CallHolds(f)
      /\ Created \subseteq Task
  BY FramesOf, CreatedTasks DEF LockStep, PoolInv, QueueInv, TypeInv
<1>2. ASSUME ToSet(Callers) \subseteq ToSet(stack'),
             f.fn \notin {"Ready", "Complete"} \/ (f.fn = "Ready" /\ f.todo = {})
      PROVE  Told
  <2>1. /\ \A fn \in {"Ready", "Complete"} : \A t, d : Owes(fn, t, d) => Owes(fn, t, d)'
        /\ \A d : Ended(d) => Ended(d)'
    BY <1>1, <1>2, OwesCallers
  <2> QED BY <2>1 DEF Told
<1>3. ASSUME NEW fn \in {"SubmitTask", "Ready", "Complete", "clWaitForEvents"}, f.fn = fn,
             NEW d \in f.todo
      PROVE  /\ Executing(fn) /\ Done(d) \in Frames /\ d \in Created
             /\ fn # "clWaitForEvents" => f.task \in Created
  <2>1. Executing(fn)
    BY <1>1, <1>3 DEF Executing
  <2> QED BY <1>1, <1>3, <2>1, DoneFields, FrameFields
<1>4. ASSUME NEW fn \in {"SubmitTask", "Ready", "Complete", "clWaitForEvents"}, f.fn = fn,
             NEW d \in f.todo, NEW t, fn # "clWaitForEvents" => t = f.task,
             \/ GoesOn(Done(d))
             \/ \E g \in Frames : Calling(g, Done(d)),
             fn = "Complete" => t \notin waitOn'[d] \/ Finished(d)',
             fn = "Ready" => DeviceOfTask(t) # DeviceOfTask(d)
      PROVE  Told
  <2>1. PICK r \in Frames : r = Done(d)
    BY <1>3, <1>4
  <2>2. r \in ToSet(stack') /\ ToSet(Callers) \subseteq ToSet(stack')
    BY <1>1, <1>4, <2>1, StackAfter
  <2>3. /\ \A g \in {"Ready", "Complete"} : \A u, x : Owes(g, u, x) =>
             Owes(g, u, x)' \/ (g = fn /\ u = f.task /\ x = d)
        /\ \A x : Ended(x) => Ended(x)'
    BY <1>3, <1>4, <2>1, <2>2, OwesDone
  <2> QED BY <1>4, <2>3 DEF Told
<1>5. CASE FlushStep
  <2>1. f.fn = "Flush" /\ f.queue \in Queue
    BY <1>5 DEF FlushStep
  <2>2. ASSUME NEW t \in Created, Submits(t, f.queue),
               Calling(SubmitFrame(t, waitOn[t], waitOn[t]), f)
        PROVE  WaitsInv'
    <3>1. SubmitFrame(t, waitOn[t], waitOn[t]) \in Frames
      BY TaskFacts, FrameTypes
    <3>2. ToSet(Callers) \subseteq ToSet(stack')
      BY <1>1, <2>2, <3>1, StackAfter
    <3> QED BY <1>2, <2>1, <2>2, <3>2, WaitsSubmits
  <2>3. ASSUME NEW t \in Created, SubmitsReady(t, f.queue), Calling(ReadyFrame(t, waiters[t]), f)
        PROVE  WaitsInv'
    <3>1. PICK g \in Frames : g = ReadyFrame(t, waiters[t])
      BY TaskFacts, FrameTypes
    <3>2. ToSet(Callers) \subseteq ToSet(stack') /\ g \in ToSet(stack')
      BY <1>1, <2>3, <3>1, StackAfter
    <3> QED BY <1>2, <2>1, <2>3, <3>1, <3>2, WaitsSubmits
  <2>4. ASSUME NEW S, Flushes(S), Returns
        PROVE  WaitsInv'
    <3>1. ToSet(Callers) \subseteq ToSet(stack')
      BY <1>1, <2>4, StackAfter
    <3> QED BY <1>2, <2>1, <2>4, <3>1, WaitsQuiet DEF Flushes
  <2> QED BY <1>5, <2>2, <2>3, <2>4 DEF FlushStep
<1>6. CASE SubmitStep
  <2>1. f.fn = "SubmitTask" /\ Quiet
    BY <1>6 DEF SubmitStep
  <2>2. CASE Returns
    BY <1>1, <1>2, <2>1, <2>2, StackAfter, WaitsQuiet DEF Quiet
  <2>3. ASSUME NEW u \in f.todo, GoesOn(Done(u))
        PROVE  WaitsInv'
    BY <1>4, <2>1, <2>3, WaitsQuiet DEF Quiet
  <2>4. ASSUME NEW u \in f.todo, home[u] \in Queue, Calling(FlushFrame(home[u], FALSE), Done(u))
        PROVE  WaitsInv'
    <3>1. \E g \in Frames : Calling(g, Done(u))
      BY <2>4, FrameTypes
    <3> QED BY <1>4, <2>1, <3>1, WaitsQuiet DEF Quiet
  <2>5. CASE UNCHANGED stack
    <3>1. Callers \in Seq(Frames) /\ ToSet(Callers) \subseteq ToSet(stack')
      BY <1>1, <2>5, FramesOf
    <3> QED BY <1>2, <2>1, <3>1, WaitsQuiet DEF Quiet
  <2> QED BY <1>6, <2>2, <2>3, <2>4, <2>5 DEF SubmitStep
<1>7. CASE WaitStep
  <2>1. f.fn = "clWaitForEvents" /\ Quiet
    BY <1>7 DEF WaitStep
  <2>2. CASE Returns
    BY <1>1, <1>2, <2>1, <2>2, StackAfter, WaitsQuiet DEF Quiet
  <2>3. ASSUME NEW u \in f.todo, GoesOn(Done(u))
        PROVE  WaitsInv'
    BY <1>4, <2>1, <2>3, WaitsQuiet DEF Quiet
  <2>4. ASSUME NEW u \in f.todo, home[u] \in Queue, Calling(FlushFrame(home[u], TRUE), Done(u))
        PROVE  WaitsInv'
    <3>1. \E g \in Frames : Calling(g, Done(u))
      BY <2>4, FrameTypes
    <3> QED BY <1>4, <2>1, <3>1, WaitsQuiet DEF Quiet
  <2> QED BY <1>7, <2>2, <2>3, <2>4 DEF WaitStep
<1>8. CASE FlushAllStep
  <2>1. f.fn = "FlushAllDevices" /\ Flushes(Device) /\ Returns
    BY <1>8 DEF FlushAllStep
  <2> QED BY <1>1, <1>2, <2>1, StackAfter, WaitsQuiet DEF Flushes
<1>9. CASE ReadyStep
  <2>1. f.fn = "Ready"
    BY <1>9 DEF ReadyStep
  <2>2. CASE f.todo = {} /\ Quiet /\ Returns
    BY <1>1, <1>2, <2>1, <2>2, StackAfter, WaitsQuiet DEF Quiet
  <2>3. ASSUME NEW d \in f.todo, DeviceOfTask(d) # DeviceOfTask(f.task), Quiet, GoesOn(Done(d))
        PROVE  WaitsInv'
    BY <1>4, <2>1, <2>3, WaitsQuiet DEF Quiet
  <2>4. ASSUME NEW d \in f.todo, ReleaseStep(f.task, d)
        PROVE  WaitsInv'
    BY <1>3, <2>1, <2>4, WaitsReleases
  <2> QED BY <1>9, <2>2, <2>3, <2>4 DEF ReadyStep
<1>10. CASE CompleteStep
  <2>1. f.fn = "Complete"
    BY <1>10 DEF CompleteStep
  <2>2. ASSUME NEW d \in f.todo, Quiet, GoesOn(Done(d)), f.task \notin waitOn[d] \/ Finished(d)
        PROVE  WaitsInv'
    BY <1>4, <2>1, <2>2, WaitsQuiet DEF Quiet, depVars, Finished
  <2>3. ASSUME NEW d \in f.todo, Ends(d, f.error),
               Calling(CompleteFrame(d, f.error, waiters[d]), Done(d))
        PROVE  WaitsInv'
    <3>1. d \in Created /\ Done(d) \in Frames /\ f.error \in Error
      BY <1>1, <1>3, <2>1, <2>3, FrameFields
    <3>2. PICK g \in Frames, r \in Frames :
            g = CompleteFrame(d, f.error, waiters[d]) /\ r = Done(d)
      BY <3>1, TaskFacts, FrameTypes
    <3>3. g \in ToSet(stack')
      BY <1>1, <2>3, <3>2, StackAfter
    <3>4. Finished(d)'
      BY <1>1, <2>3, <3>1, StatusOrder DEF Ends, TypeOK, Finished
    <3>5. \E h \in Frames : Calling(h, Done(d))
      BY <2>3, <3>2
    <3>6. Told
      BY <1>4, <2>1, <3>4, <3>5
    <3> QED BY <2>3, <3>1, <3>2, <3>3, <3>6, WaitsEnds
  <2>4. ASSUME NEW d \in f.todo, ReleaseStep(f.task, d)
        PROVE  WaitsInv'
    BY <1>3, <2>1, <2>4, WaitsReleases
  <2>5. CASE f.todo = {} /\ Clears(f.task) /\ Returns
    <3>1. f.task \in Created /\ Finished(f.task)
      BY <1>1, <2>1, FrameFields, StatusOrder DEF CallHolds, Finished
    <3>2. Executing("Complete")
      BY <1>1, <2>1 DEF Executing
    <3> QED BY <2>5, <3>1, <3>2, WaitsClears
  <2> QED BY <1>10, <2>2, <2>3, <2>4, <2>5 DEF CompleteStep
<1>11. CASE CompleteAllStep
  <2> DEFINE rest == [f EXCEPT !.tasks = Tail(@)]
             t == Head(f.tasks)
  <2>1. f.fn = "CompleteAll" /\ Executing("CompleteAll")
    BY <1>1, <1>11 DEF CompleteAllStep, Executing
  <2>2. CASE Quiet /\ Returns
    BY <1>1, <1>2, <2>1, <2>2, StackAfter, WaitsQuiet DEF Quiet
  <2>3. CASE f.tasks # <<>>
    <3>1. PICK r \in Frames : r = rest /\ t \in Created /\ f.error \in Error
      BY <1>1, <2>1, <2>3, RestFields
    <3>2. PICK g \in Frames : g = CompleteFrame(t, f.error, waiters[t])
      BY <3>1, TaskFacts, FrameTypes
    <3>3. CASE Quiet /\ GoesOn(r)
      BY <1>1, <1>2, <2>1, <3>3, StackAfter, WaitsQuiet DEF Quiet
    <3>4. CASE Ends(t, f.error) /\ Calling(g, r)
      <4>1. ToSet(Callers) \subseteq ToSet(stack') /\ g \in ToSet(stack')
        BY <1>1, <3>4, StackAfter
      <4> QED BY <1>2, <2>1, <3>1, <3>2, <3>4, <4>1, WaitsEnds
    <3> QED BY <1>11, <2>2, <3>1, <3>2, <3>3, <3>4 DEF CompleteAllStep
  <2> QED BY <1>11, <2>2, <2>3 DEF CompleteAllStep
<1> QED BY <1>1, <1>5, <1>6, <1>7, <1>8, <1>9, <1>10, <1>11 DEF LockStep

-----------------------------------------------------------------------------
(* The other steps *)

\* The status of user event u is set.
SetsEvent(u, s) ==
  /\ s \in UserStatus /\ home[u] = NoQueue /\ state[u] = Submitted /\ Ends(u, s)
  /\ stack' = <<CompleteFrame(u, s, waiters[u])>> \o <<FlushAllFrame>>

(* What is done while nobody holds the lock: an event is created, one is   *)
(* enqueued, a user event ends, a device's thread takes a step, or only a  *)
(* call begins.                                                            *)
LEMMA IdleSteps ==
  ASSUME PoolInv, [Next]_vars, ~LockHolder
  PROVE  \/ CreateUserEvent
         \/ \E q \in Queue, W \in SUBSET Created : \E command : Enqueue(q, command, W)
         \/ /\ stack = <<>> /\ Ending(stack') = Ending(stack)
            /\ \E u \in Created, s \in Error : SetsEvent(u, s)
         \/ \E d \in Device : Record(d) \/ SubmitExecution(d) \/ CompleteSubmission(d)
         \/ /\ UNCHANGED <<taskVars, state, depVars, queueVars, deviceVars>>
            /\ UNCHANGED stack \/ (stack = <<>> /\ Ending(stack') = Ending(stack))
<1>1. ASSUME stack = <<>>, NEW g \in Frames, g.fn \in {"Flush", "clWaitForEvents", "FlushAllDevices"},
             stack' = <<g>>
      PROVE  Ending(stack') = Ending(stack)
  BY <1>1, FirstCalls
<1>2. CASE UNCHANGED vars
  BY <1>2 DEF vars
<1>3. CASE Application
  <2>1. CASE CreateUserEvent
    BY <2>1
  <2>2. CASE \E q \in Queue : \/ EnqueueCommand(q) \/ EnqueueMarkerWithWaitList(q)
                              \/ EnqueueBarrierWithWaitList(q)
    BY <2>2 DEF EnqueueCommand, EnqueueMarkerWithWaitList, EnqueueBarrierWithWaitList
  <2>3. ASSUME NEW q \in Queue, ClFlush(q)
        PROVE  /\ UNCHANGED <<taskVars, state, depVars, queueVars, deviceVars>>
               /\ stack = <<>> /\ Ending(stack') = Ending(stack)
    <3>1. PICK g \in Frames : g = FlushFrame(q, TRUE)
      BY FrameTypes
    <3>2. g.fn = "Flush"
      BY <3>1 DEF FlushFrame
    <3> QED BY <1>1, <2>3, <3>1, <3>2 DEF ClFlush, LockFree
  <2>4. ASSUME NEW W \in SUBSET Created, ClWaitForEvents(W)
        PROVE  /\ UNCHANGED <<taskVars, state, depVars, queueVars, deviceVars>>
               /\ stack = <<>> /\ Ending(stack') = Ending(stack)
    <3>1. PICK T : T = {t \in W : state[t] = Queued}
      OBVIOUS
    <3>2. T \in SUBSET Created
      BY <3>1
    <3>3. PICK g \in Frames : g = WaitFrame(T)
      BY <3>2, FrameTypes
    <3>4. g.fn = "clWaitForEvents"
      BY <3>3, NewFields
    <3> QED BY <1>1, <2>4, <3>1, <3>3, <3>4 DEF ClWaitForEvents, LockFree
  <2>5. ASSUME NEW u \in Task, NEW s \in UserStatus, SetUserEventStatusCheck(u, s)
        PROVE  UNCHANGED <<taskVars, state, depVars, queueVars, deviceVars, stack>>
    BY <2>5 DEF SetUserEventStatusCheck
  <2>6. CASE \E q \in Queue : ClFlush(q)
    BY <2>3, <2>6
  <2>7. CASE \E W \in SUBSET Created : ClWaitForEvents(W)
    BY <2>4, <2>7
  <2>8. CASE \E u \in Task, s \in UserStatus : SetUserEventStatusCheck(u, s)
    BY <2>5, <2>8
  <2> QED BY <1>3, <2>1, <2>2, <2>6, <2>7, <2>8 DEF Application
<1>4. ASSUME NEW u \in Task, NEW s \in UserStatus, SetUserEventStatus(u, s)
      PROVE  /\ stack = <<>> /\ Ending(stack') = Ending(stack)
             /\ \/ \E v \in Created, e \in Error : SetsEvent(v, e)
                \/ UNCHANGED <<taskVars, state, depVars, queueVars, deviceVars>>
  <2>1. /\ stack = <<>> /\ BeginComplete(u, s, <<FlushAllFrame>>) /\ u \in Created /\ s \in Error
        /\ home[u] = NoQueue /\ UNCHANGED <<taskVars, depVars, signalled, deviceVars>>
    <3>1. TypeOK /\ <<u, s>> \in setters
      BY <1>4 DEF PoolInv, QueueInv, TypeInv, SetUserEventStatus
    <3>2. u \in Created /\ home[u] = NoQueue
      BY <3>1 DEF TypeOK, PoolInv, SetsUserEvents
    <3> QED BY <1>4, <3>2, Statuses DEF SetUserEventStatus, LockFree
  <2>2. CASE Finished(u)
    <3>1. stack' = <<FlushAllFrame>> /\ UNCHANGED <<state, queueVars>>
      BY <2>1, <2>2 DEF BeginComplete
    <3>2. PICK g \in Frames : g = FlushAllFrame /\ g.fn = "FlushAllDevices"
      BY FrameTypes, NewFields
    <3> QED BY <1>1, <2>1, <3>1, <3>2
  <2>3. CASE ~Finished(u)
    <3>1. /\ state' = [state EXCEPT ![u] = s] /\ NotifyTaskCompletion(u)
          /\ stack' = <<CompleteFrame(u, s, waiters[u])>> \o <<FlushAllFrame>>
      BY <2>1, <2>3 DEF BeginComplete
    <3>2. Ends(u, s)
      BY <2>1, <2>3, <3>1 DEF Ends
    <3>3. state[u] = Submitted
      BY <2>1, <2>3 DEF PoolInv, Places
    <3>4. PICK g, h : g = CompleteFrame(u, s, waiters[u]) /\ h = FlushAllFrame
      OBVIOUS
    <3>5. stack' = <<g>> \o <<h>> /\ g.fn = "Complete" /\ h.fn = "FlushAllDevices"
      BY <3>1, <3>4, NewFields
    <3>6. Len(stack') = 2 /\ stack'[1] = g /\ stack'[2] = h
      BY <3>5
    <3>7. \A i \in 1 .. Len(stack') : i = 1 \/ i = 2
      BY <3>6
    <3>8. ~\E i \in 1 .. Len(stack') : stack'[i].fn = "CompleteAll"
      BY <3>5, <3>6, <3>7
    <3>9. Ending(stack') = <<>>
      BY <3>8 DEF Ending
    <3>10. Ending(stack) = <<>>
      BY <2>1 DEF Ending
    <3> QED BY <2>1, <3>1, <3>2, <3>3, <3>9, <3>10 DEF SetsEvent
  <2> QED BY <2>1, <2>2, <2>3
<1>5. CASE DeviceThreads
  BY <1>5 DEF DeviceThreads, RecordFails, PoolInv
<1>6. CASE \E u \in Task, s \in UserStatus : SetUserEventStatus(u, s)
  <2>1. PICK u \in Task, s \in UserStatus : SetUserEventStatus(u, s)
    BY <1>6
  <2> QED BY <1>4, <2>1
<1> QED BY <1>2, <1>3, <1>5, <1>6 DEF Next

(* A new event waits for nothing.                                          *)
LEMMA WaitsCreate ==
  ASSUME PoolInv, WaitsInv, CreateUserEvent
  PROVE  WaitsInv'
<1> DEFINE t == created + 1
<1>1. /\ TypeOK /\ created \in Nat /\ t \in Task /\ t > created /\ Created \subseteq Task
      /\ stack = <<>> /\ stack' = <<>> /\ created' = t
      /\ UNCHANGED <<home, waitOn, waiters>> /\ state' = [state EXCEPT ![t] = Submitted]
  <2>1. TypeOK /\ created \in Nat /\ created < NumTasks /\ NumTasks \in Nat /\ Created \subseteq Task
    BY TaskPoolAssumption, CreatedTasks DEF PoolInv, QueueInv, TypeInv, TypeOK, CreateUserEvent
  <2>2. t \in Task /\ t > created
    BY <2>1 DEF Task
  <2> QED BY <2>1, <2>2 DEF CreateUserEvent, LockFree, depVars
<1>2. Created' = Created \cup {t} /\ t \notin Created
  BY <1>1 DEF Created
<1>3. waitOn[t] = {}
  BY <1>1 DEF PoolInv, Uncreated
<1> HIDE DEF t
<1>4. \A u \in Created : state'[u] = state[u]
  BY <1>1, <1>2 DEF TypeOK
<1>5. \A d \in Created : waitOn[d] \subseteq Created
  BY <1>1 DEF TypeOK
<1>6. \A fn, u, d : ~Owes(fn, u, d) /\ ~Ended(u)
  BY <1>1 DEF Owes, Ended, ToSet
<1>7. \A d \in Created : /\ Finished(d) => waitOn[d] = {}
                         /\ ~Finished(d) => \A u \in waitOn[d] : Reason(u, d)
  BY <1>6 DEF WaitsInv
<1>8. \A u, d : DeviceOfTask(u)' = DeviceOfTask(u)
  BY <1>1 DEF DeviceOfTask
<1>9. \A d \in Created : \A u \in Created : Reason(u, d) => Reason(u, d)'
  BY <1>1, <1>4, <1>6, <1>8 DEF Reason, Finished
<1> QED BY <1>1, <1>2, <1>3, <1>4, <1>5, <1>7, <1>9 DEF WaitsInv, Finished

\* The tasks a new command of queue q comes after, and those it is linked to.
Named(q, command, W) ==
  (IF command # "task" /\ W = {} THEN AllTasksOf(q) ELSE W)
    \cup ({lastTask[q], lastBarrier[q]} \ {NoTask})
Linked(q, command, W) == LinkedTo(Named(q, command, W), DeviceOf[q])

\* Command t is new, with wait list W, as the youngest task of queue q.
Enqueued(t, q, command, W) ==
  /\ TypeOK /\ Created \subseteq Task /\ t \in Task /\ t \in Nat /\ t \notin Created
  /\ Created' = Created \cup {t} /\ \A u \in Created : u < t
  /\ stack = <<>> /\ stack' = <<>> /\ UNCHANGED <<state, outstanding, deviceVars>>
  /\ home[t] = NoQueue /\ state[t] = Queued /\ waiters[t] = {}
  /\ StaleWaits \/ \A u \in W : ~Finished(u)
  /\ barriers' = IF command = "barrier" THEN barriers \cup {t} ELSE barriers
  /\ sweeping' = IF command # "task" /\ W = {} THEN sweeping \cup {t} ELSE sweeping
  /\ \A u \in Task : home'[u] = IF u = t THEN q ELSE home[u]
  /\ \A u \in Task : waitList'[u] = IF u = t THEN W ELSE waitList[u]
  /\ \A u \in Task : waitOn'[u] = IF u = t THEN Linked(q, command, W) ELSE waitOn[u]
  /\ \A u \in Task : waiters'[u] =
       IF u \in Linked(q, command, W) THEN waiters[u] \cup {t} ELSE waiters[u]
  /\ \A p \in Queue : /\ lastTask'[p] = IF p = q /\ q \notin OutOfOrder THEN t ELSE lastTask[p]
                      /\ lastBarrier'[p] = IF p = q /\ command = "barrier" THEN t
                                           ELSE lastBarrier[p]

(* What is known of a task the moment it is enqueued.                      *)
LEMMA EnqueueFacts ==
  ASSUME PoolInv, NEW q \in Queue, NEW command, NEW W \in SUBSET Created, Enqueue(q, command, W),
         NEW t, t = created + 1
  PROVE  Enqueued(t, q, command, W)
<1>1. /\ TypeOK /\ t \in Task /\ created \in Nat /\ t \in Nat /\ Created \subseteq Task
  <2>1. TypeOK /\ Created \subseteq Task
    BY CreatedTasks DEF PoolInv, QueueInv, TypeInv
  <2>2. created \in 0 .. NumTasks /\ created < NumTasks
    BY <2>1 DEF TypeOK, Enqueue
  <2> QED BY <2>1, <2>2, TaskPoolAssumption DEF Task
<1>2. t \notin Created /\ t > created /\ \A u \in Created : u < t
  BY <1>1 DEF Created
<1>3. home[t] = NoQueue /\ state[t] = Queued /\ waiters[t] = {}
  BY <1>1, <1>2 DEF PoolInv, Uncreated
<1>4. /\ created' = t /\ stack = <<>> /\ stack' = <<>> /\ UNCHANGED <<state, outstanding, deviceVars>>
      /\ StaleWaits \/ \A u \in W : ~Finished(u)
      /\ barriers' = IF command = "barrier" THEN barriers \cup {t} ELSE barriers
      /\ sweeping' = IF command # "task" /\ W = {} THEN sweeping \cup {t} ELSE sweeping
      /\ home' = [home EXCEPT ![t] = q] /\ waitList' = [waitList EXCEPT ![t] = W]
  BY DEF Enqueue, LockFree
<1>5. /\ waitOn' = [waitOn EXCEPT ![t] = Linked(q, command, W)]
      /\ waiters' = [u \in Task |-> IF u \in Linked(q, command, W) THEN waiters[u] \cup {t}
                                                                   ELSE waiters[u]]
  BY DEF Enqueue, Linked, Named
<1>6. \A p \in Queue : /\ lastTask'[p] = IF p = q /\ q \notin OutOfOrder THEN t ELSE lastTask[p]
                       /\ lastBarrier'[p] = IF p = q /\ command = "barrier" THEN t
                                            ELSE lastBarrier[p]
  BY <1>1 DEF Enqueue, TypeOK
<1>7. Created' = Created \cup {t}
  BY <1>1, <1>4 DEF Created
<1> HIDE DEF Linked, Named
<1>8. /\ \A u \in Task : home'[u] = IF u = t THEN q ELSE home[u]
      /\ \A u \in Task : waitList'[u] = IF u = t THEN W ELSE waitList[u]
      /\ \A u \in Task : waitOn'[u] = IF u = t THEN Linked(q, command, W) ELSE waitOn[u]
      /\ \A u \in Task : waiters'[u] =
              IF u \in Linked(q, command, W) THEN waiters[u] \cup {t} ELSE waiters[u]
  BY <1>1, <1>4, <1>5 DEF TypeOK
<1> QED BY <1>1, <1>2, <1>3, <1>4, <1>6, <1>7, <1>8 DEF Enqueued

(* The pointers to the last task and the last barrier, and the tasks a     *)
(* queue holds, are of tasks of the queue that have not finished.          *)
LEMMA HeldTasks ==
  ASSUME PoolInv, NEW q \in Queue,
         NEW u \in AllTasksOf(q) \cup ({lastTask[q], lastBarrier[q]} \ {NoTask})
  PROVE  u \in Created /\ u \in Task /\ home[u] = q /\ ~Finished(u)
<1>1. TypeOK /\ Created \subseteq Task /\ ToSet(queued[q]) \subseteq Created
  BY CreatedTasks, QueuedTasks DEF PoolInv, QueueInv, TypeInv
<1>2. u \in ToSet(queued[q]) \/ u \in outstanding[q]
  BY DEF AllTasksOf, PoolInv, QueueInv, LastPointersLive
<1>3. CASE u \in ToSet(queued[q])
  <2>1. home[u] = q
    BY <1>3 DEF PoolInv, QueueInv, QueuesOrdered
  <2>2. state[u] = Queued
    BY <1>3 DEF PoolInv, Places
  <2> QED BY <1>1, <1>3, <2>1, <2>2, StatusOrder DEF Finished
<1>4. CASE u \in outstanding[q]
  <2>1. u \in Created
    BY <1>1, <1>4 DEF TypeOK
  <2>2. home[u] = q /\ state[u] \in {Submitted, Ready, Running}
    BY <1>1, <1>4, <2>1 DEF PoolInv, Places
  <2> QED BY <1>1, <2>1, <2>2, StatusOrder DEF Finished
<1> QED BY <1>2, <1>3, <1>4

(* A new command is linked only to what may still release it.              *)
LEMMA WaitsEnqueue ==
  ASSUME PoolInv, WaitsInv, ~StaleWaits, NEW q \in Queue, NEW command, NEW W \in SUBSET Created,
         Enqueue(q, command, W)
  PROVE  WaitsInv'
<1>0. PICK t, deps : t = created + 1 /\ deps = Linked(q, command, W)
  OBVIOUS
<1>1. /\ TypeOK /\ Created \subseteq Task /\ t \in Task /\ t \notin Created
      /\ Created' = Created \cup {t} /\ stack = <<>> /\ stack' = <<>> /\ UNCHANGED state
      /\ state[t] = Queued /\ \A u \in W : ~Finished(u)
      /\ \A u \in Task : /\ home'[u] = IF u = t THEN q ELSE home[u]
                         /\ waitOn'[u] = IF u = t THEN deps ELSE waitOn[u]
                         /\ waiters'[u] = IF u \in deps THEN waiters[u] \cup {t} ELSE waiters[u]
  <2>1. Enqueued(t, q, command, W)
    BY <1>0, EnqueueFacts
  <2> QED BY <1>0, <2>1 DEF Enqueued
<1>2. \A u \in deps : /\ u \in Created /\ ~Finished(u)
                      /\ DeviceOfTask(u) = DeviceOf[q] => state[u] \in {Queued, Submitted}
  <2> SUFFICES ASSUME NEW u \in deps
               PROVE  /\ u \in Created /\ ~Finished(u)
                      /\ DeviceOfTask(u) = DeviceOf[q] => state[u] \in {Queued, Submitted}
    OBVIOUS
  <2>1. u \in W \/ u \in AllTasksOf(q) \cup ({lastTask[q], lastBarrier[q]} \ {NoTask})
    BY <1>0 DEF Linked, LinkedTo, Named
  <2>2. u \in Created /\ ~Finished(u)
    BY <1>1, <2>1, HeldTasks
  <2> QED BY <1>0, <2>2 DEF Linked, LinkedTo
<1>3. \A fn, u, d : ~Owes(fn, u, d) /\ ~Ended(u)
  BY <1>1 DEF Owes, Ended, ToSet
<1>4. \A d \in Created : /\ Finished(d) => waitOn[d] = {}
                         /\ ~Finished(d) => \A u \in waitOn[d] : Reason(u, d)
  BY <1>3 DEF WaitsInv
<1>5. \A u \in Created : DeviceOfTask(u)' = DeviceOfTask(u)
  BY <1>1 DEF DeviceOfTask
<1>6. DeviceOfTask(t)' = DeviceOf[q]
  BY <1>1, TaskPoolAssumption DEF DeviceOfTask
<1>7. \A d \in Created : \A u \in Created : Reason(u, d) => Reason(u, d)'
  BY <1>1, <1>3, <1>5 DEF Reason, Finished
<1>8. ASSUME NEW u \in deps
      PROVE  Reason(u, t)'
  <2>1. t \in waiters'[u]
    BY <1>1, <1>2, <1>8
  <2>2. ~Finished(u)'
    BY <1>1, <1>2, <1>8 DEF Finished
  <2>3. DeviceOfTask(u)' = DeviceOfTask(t)' => state'[u] \in {Queued, Submitted}
    BY <1>1, <1>2, <1>5, <1>6, <1>8
  <2> QED BY <2>1, <2>2, <2>3, StatusOrder DEF Reason
<1>9. ~Finished(t)'
  BY <1>1, StatusOrder DEF Finished
<1>10. \A d \in Created : waitOn[d] \subseteq Created /\ waitOn'[d] = waitOn[d]
  BY <1>1 DEF TypeOK
<1>11. deps \subseteq Created /\ waitOn'[t] = deps /\ UNCHANGED state
  BY <1>1, <1>2
<1>12. \A d \in Created' : Finished(d)' => waitOn'[d] = {}
  BY <1>1, <1>4, <1>9, <1>10 DEF Finished
<1>13. \A d \in Created' : ~Finished(d)' => \A u \in waitOn'[d] : Reason(u, d)'
  <2>1. \A d \in Created : ~Finished(d)' => \A u \in waitOn'[d] : Reason(u, d)'
    BY <1>4, <1>7, <1>10, <1>11 DEF Finished
  <2> QED BY <1>1, <1>8, <1>11, <2>1
<1> QED BY <1>12, <1>13 DEF WaitsInv

(* Nor does any step taken while nobody holds the lock.                    *)
LEMMA WaitsOthers ==
  ASSUME PoolInv, WaitsInv, ~StaleWaits, [Next]_vars, ~LockHolder
  PROVE  WaitsInv'
<1>1. TypeOK /\ Created \subseteq Task
  BY CreatedTasks DEF PoolInv, QueueInv, TypeInv
<1>2. ASSUME stack = <<>>
      PROVE  Told
  BY <1>2 DEF Told, Owes, Ended, ToSet
<1>3. ASSUME NEW q \in Queue, NEW W \in SUBSET Created, NEW command, Enqueue(q, command, W)
      PROVE  WaitsInv'
  BY <1>3, WaitsEnqueue
<1>4. ASSUME stack = <<>>, NEW u \in Created, NEW s \in Error, SetsEvent(u, s)
      PROVE  WaitsInv'
  <2>1. Ends(u, s) /\ stack' = <<CompleteFrame(u, s, waiters[u])>> \o <<FlushAllFrame>>
    BY <1>4 DEF SetsEvent
  <2>2. PICK g \in Frames, h \in Frames : g = CompleteFrame(u, s, waiters[u]) /\ h = FlushAllFrame
    BY <1>1, TaskFacts, FrameTypes
  <2>3. g \in ToSet(stack')
    <3>1. Len(stack') = 2 /\ stack'[1] = g
      BY <2>1, <2>2
    <3>2. 1 \in 1 .. Len(stack')
      BY <3>1
    <3> QED BY <3>1, <3>2 DEF ToSet
  <2> QED BY <1>2, <1>4, <2>1, <2>2, <2>3, WaitsEnds
<1>5. ASSUME NEW d \in Device, Record(d)
      PROVE  WaitsInv'
  <2>1. /\ stack = <<>> /\ execQ[d] # <<>> /\ recorded[d] < Len(Head(execQ[d]))
        /\ state' = [state EXCEPT ![Head(execQ[d])[recorded[d] + 1]] = Running]
        /\ UNCHANGED <<created, home, waitOn, waiters>>
    BY <1>5 DEF Record, LockFree, taskVars, depVars
  <2>2. PICK t : t = Head(execQ[d])[recorded[d] + 1]
    OBVIOUS
  <2>3. t \in Created /\ state[t] = Ready
    BY <2>1, <2>2, NextToRecord
  <2>4. \A u \in Created : state'[u] = IF u = t THEN Running ELSE state[u]
    BY <1>1, <2>1, <2>2 DEF TypeOK
  <2>5. OnlyGo
    BY <2>1, <2>3, <2>4, StatusOrder DEF OnlyGo, Finished
  <2>6. Announced
    BY <2>1, <2>3, <2>4, StatusOrder DEF Announced, Finished
  <2> QED BY <1>2, <2>1, <2>5, <2>6, WaitsKept
<1>6. ASSUME NEW d \in Device, SubmitExecution(d) \/ CompleteSubmission(d)
      PROVE  WaitsInv'
  <2>1. stack = <<>> /\ UNCHANGED <<taskVars, state, depVars>>
    BY <1>6 DEF SubmitExecution, CompleteSubmission, LockFree
  <2> QED BY <1>2, <2>1, WaitsQuiet
<1>7. CASE /\ UNCHANGED <<taskVars, state, depVars, queueVars, deviceVars>>
           /\ UNCHANGED stack \/ (stack = <<>> /\ Ending(stack') = Ending(stack))
  <2>1. CASE stack = <<>>
    BY <1>2, <1>7, <2>1, WaitsQuiet
  <2>2. CASE UNCHANGED stack
    <3>1. Told
      BY <2>2 DEF Told, Owes, Ended
    <3> QED BY <1>7, <3>1, WaitsQuiet
  <2> QED BY <1>7, <2>1, <2>2
<1> QED BY <1>3, <1>4, <1>5, <1>6, <1>7, IdleSteps, WaitsCreate

-----------------------------------------------------------------------------
(* The theorem *)

(* The agreement holds at all times.                                      *)
LEMMA WaitsInvariant ==
  ASSUME ~StaleWaits
  PROVE  ~RecordMayFail /\ Spec => []WaitsInv
<1>1. Init => WaitsInv
  BY DEF Init, WaitsInv, Created
<1>2. PoolInv /\ WaitsInv /\ [Next]_vars => WaitsInv'
  <2> SUFFICES ASSUME PoolInv, WaitsInv, [Next]_vars
               PROVE  WaitsInv'
    OBVIOUS
  <2>1. CASE LockHolder
    <3>1. LockStep
      BY <2>1, LockSteps DEF PoolInv, QueueInv
    <3> QED BY <3>1, WaitsLockHolder
  <2>2. CASE ~LockHolder
    BY <2>2, WaitsOthers
  <2> QED BY <2>1, <2>2
<1> QED BY <1>1, <1>2, PoolInvariant, PTL DEF Spec

(* For any number of tasks, queues and devices: when wait lists name only  *)
(* events that have not finished and recording does not fail, no event is  *)
(* left waiting between two acquisitions of the lock for one that can no   *)
(* longer release it, and the two lists of a dependency agree.             *)
THEOREM NothingOrphaned ==
  ASSUME ~StaleWaits
  PROVE  ~RecordMayFail /\ Spec => []NoOrphanedWait
<1>1. PoolInv /\ WaitsInv => NoOrphanedWait
  <2> SUFFICES ASSUME PoolInv, WaitsInv, LockFree, NEW d \in Created, NEW t \in waitOn[d]
               PROVE  /\ d \in waiters[t] /\ ~Finished(t)
                      /\ DeviceOfTask(t) = DeviceOfTask(d) => state[t] \in {Queued, Submitted}
    BY DEF NoOrphanedWait
  <2>1. stack = <<>> /\ TypeOK
    BY DEF LockFree, PoolInv, QueueInv, TypeInv
  <2>2. ~Owes("Complete", t, d) /\ ~Owes("Ready", t, d) /\ ~Ended(d)
    BY <2>1 DEF Owes, Ended, ToSet
  <2>3. Reason(t, d)
    BY <2>2 DEF WaitsInv
  <2>4. t \in Created
    BY TaskFacts
  <2>5. state[t] \in Status
    BY <2>1, <2>4, CreatedTasks DEF TypeOK
  <2>6. state[t] \in {Running, Submitted, Queued, Ready} \/ Finished(t)
    BY <2>5, StatusOrder DEF Status, Finished
  <2> QED BY <2>2, <2>3, <2>6 DEF Reason
<1> QED BY <1>1, PoolInvariant, WaitsInvariant, PTL

-----------------------------------------------------------------------------
(* The inductive invariant of the order *)

\* u is no longer in the way of t: it has succeeded, it has failed without t
\* having to fail too, or the chain that should link them has been broken.
Settled(u, t) ==
  \/ state[u] = Complete
  \/ state[u] < Complete /\ (u \in waitList[t] => StaleWaits)
  \/ ChainBroken(u, t)

\* u has been given to the device t is for.
InLane(u, t) == DeviceOfTask(u) = DeviceOfTask(t) /\ state[u] \in {Ready, Running}

\* u is ahead of t in the lane of device d.
Before(d, u, t) ==
  \E i, j, k, l \in Nat : At(d, i, j, u) /\ At(d, k, l, t) /\ (i < k \/ (i = k /\ j < l))

\* t waits for u, or for a task of its queue that has to come after u too.
Covered(u, t) ==
  \/ u \in waitOn[t]
  \/ /\ u \notin waitList[t] /\ t \notin sweeping
     /\ \E v \in waitOn[t] : home[v] = home[t] /\ u \in Predecessors(v)

\* How t stands to u, one of those it has to come after.
Follows(t, u) ==
  /\ state[t] = Complete => Settled(u, t)
  /\ state[t] \in {Ready, Running} =>
       Settled(u, t) \/ (InLane(u, t) /\ Before(DeviceOfTask(t), u, t))
  /\ state[t] \in {Queued, Submitted} => Settled(u, t) \/ InLane(u, t) \/ Covered(u, t)

TaskOrder(t) == \A u \in Predecessors(t) : Follows(t, u)
Order == \A t \in Created : TaskOrder(t)

\* A failed task of queue q, out of S, younger than u.
Failed(u, q, S) == \E w \in S : u < w /\ home[w] = q /\ state[w] < Complete

\* The last task and the last barrier of a queue are the youngest, and where
\* there is none everything older that has not finished is cut off by a
\* failure.
Lasts ==
  \A q \in Queue :
    /\ q \in OutOfOrder => lastTask[q] = NoTask
    /\ lastTask[q] # NoTask => \A u \in Created : home[u] = q => u <= lastTask[q]
    /\ lastBarrier[q] # NoTask =>
         lastBarrier[q] \in barriers /\ \A u \in barriers : home[u] = q => u <= lastBarrier[q]
    /\ q \notin OutOfOrder /\ lastTask[q] = NoTask =>
         \A u \in Created : home[u] = q /\ ~Finished(u) => Failed(u, q, Created)
    /\ lastBarrier[q] = NoTask =>
         \A u \in barriers : home[u] = q /\ ~Finished(u) => Failed(u, q, barriers)

OrderInv == Order /\ Lasts

-----------------------------------------------------------------------------
(* What a step has to do to keep the order *)

\* Tasks stay what they were enqueued as, and there may be new ones.
SameTasks ==
  /\ Created \subseteq Created'
  /\ \A t \in Created : /\ home'[t] = home[t] /\ waitList'[t] = waitList[t]
                        /\ t \in barriers' <=> t \in barriers
                        /\ t \in sweeping' <=> t \in sweeping

\* A task that has finished keeps its result, and one that has been given to
\* its device can only succeed.
Forward ==
  \A t \in Created : /\ Finished(t) => state'[t] = state[t]
                     /\ state[t] \in {Ready, Running} => state'[t] \in {Ready, Running, Complete}

\* Tasks stay in line, until they finish.
LineKept ==
  \A d \in Device, u, t \in Created :
    /\ state[u] \in {Ready, Running} /\ state'[u] \in {Ready, Running}
    /\ state[t] \in {Ready, Running} /\ state'[t] \in {Ready, Running}
    /\ Before(d, u, t)
    => Before(d, u, t)'

\* t is not affected, unless it fails.
Unmoved(t) ==
  \/ state'[t] < Complete
  \/ state[t] = Complete
  \/ state[t] \in {Ready, Running} /\ state'[t] \in {Ready, Running}
  \/ /\ state[t] \in {Queued, Submitted} /\ state'[t] \in {Queued, Submitted}
     /\ waitOn'[t] = waitOn[t]

\* Nothing but the tasks in X is new or affected, and these are in order.
MovesOnly(X) ==
  /\ \A t \in Created' : t \in Created \/ t \in X
  /\ \A t \in Created : t \in X \/ Unmoved(t)
  /\ \A t \in X : TaskOrder(t)'

(* A task comes after tasks that exist.                                    *)
LEMMA PredecessorsCreated ==
  ASSUME PoolInv, NEW t \in Created
  PROVE  Predecessors(t) \subseteq Created
<1>1. created \in Nat /\ t <= created /\ t \in Nat /\ waitList[t] \subseteq Created
  BY TaskFacts DEF TypeOK
<1>2. 1 .. t - 1 \subseteq Created
  BY <1>1 DEF Created
<1> QED BY <1>1, <1>2 DEF Predecessors

(* What t has to come after, and what breaks a chain, does not change.     *)
LEMMA SamePredecessors ==
  ASSUME PoolInv, SameTasks, NEW t \in Created
  PROVE  /\ Predecessors(t)' = Predecessors(t) /\ Predecessors(t) \subseteq Created
         /\ DeviceOfTask(t)' = DeviceOfTask(t)
         /\ \A u \in Predecessors(t) : u < t \/ u \in waitList[t]
<1>1. /\ TypeOK /\ Created \subseteq Task /\ created \in Nat /\ t \in Nat /\ t <= created
      /\ waitList[t] \subseteq Created
  BY TaskFacts, CreatedTasks DEF TypeOK
<1>2. 1 .. t - 1 \subseteq Created
  BY <1>1 DEF Created
<1>3. \A u \in 1 .. t - 1 : u < t
  BY <1>1
<1>4. DeviceOfTask(t)' = DeviceOfTask(t)
  BY DEF SameTasks, DeviceOfTask
<1>5. Predecessors(t)' = Predecessors(t)
  BY <1>2 DEF SameTasks, Predecessors
<1> QED BY <1>1, <1>2, <1>3, <1>4, <1>5 DEF Predecessors

(* What is settled stays settled, and what is covered by a dependency that *)
(* stays is covered.                                                       *)
LEMMA SettledStays ==
  ASSUME PoolInv, SameTasks, Forward, NEW t \in Created, NEW u \in Predecessors(t)
  PROVE  /\ Settled(u, t) => Settled(u, t)'
         /\ state[u] = Complete => Settled(u, t)'
         /\ ChainBroken(u, t) => ChainBroken(u, t)'
<1>1. /\ TypeOK /\ Created \subseteq Task /\ created \in Nat /\ t \in Nat /\ t <= created
      /\ u \in Created /\ u \in Nat /\ u > 0
  BY TaskFacts, CreatedTasks, SamePredecessors
<1>2. \A w \in u + 1 .. t - 1 : w \in Created
  BY <1>1 DEF Created
<1>3. \A w \in Created : state[w] < Complete => state'[w] < Complete
  <2>1. \A w \in Created : state[w] \in Int
    BY TaskFacts
  <2> QED BY <2>1 DEF Forward, Finished, Complete
<1>4. ChainBroken(u, t) => ChainBroken(u, t)'
  <2> SUFFICES ASSUME ChainBroken(u, t) PROVE ChainBroken(u, t)'
    OBVIOUS
  <2>1. PICK w \in u + 1 .. t - 1 :
          home[w] = home[t] /\ state[w] < Complete /\ (u \in barriers => w \in barriers)
    BY DEF ChainBroken
  <2>2. w \in Created /\ state'[w] < Complete
    BY <1>2, <1>3, <2>1
  <2>3. /\ home'[w] = home'[t] /\ (u \in barriers' => w \in barriers')
        /\ u \notin waitList'[t] /\ t \notin sweeping'
    BY <1>1, <2>1, <2>2 DEF SameTasks, ChainBroken
  <2> QED BY <2>2, <2>3 DEF ChainBroken
<1>5. state[u] = Complete => state'[u] = Complete
  BY <1>1, StatusOrder DEF Forward, Finished
<1>6. waitList'[t] = waitList[t]
  BY DEF SameTasks
<1> QED BY <1>1, <1>3, <1>4, <1>5, <1>6 DEF Settled

(* A step after which each task is unmoved or still in order keeps order.  *)
LEMMA OrderKept ==
  ASSUME PoolInv, Order, SameTasks, Forward, LineKept, NEW X, MovesOnly(X)
  PROVE  Order'
<1> SUFFICES ASSUME NEW t \in Created', t \notin X
             PROVE  TaskOrder(t)'
  BY DEF Order, MovesOnly
<1>1. /\ t \in Created /\ Unmoved(t) /\ TypeOK /\ Created \subseteq Task /\ TaskOrder(t)
  BY CreatedTasks DEF MovesOnly, PoolInv, QueueInv, TypeInv, Order
<1> SUFFICES ASSUME NEW u \in Predecessors(t)
             PROVE  Follows(t, u)'
  BY <1>1, SamePredecessors DEF TaskOrder
<1>2. u \in Created /\ DeviceOfTask(t)' = DeviceOfTask(t) /\ DeviceOfTask(u)' = DeviceOfTask(u)
  BY <1>1, SamePredecessors
<1>3. Follows(t, u)
  BY <1>1 DEF TaskOrder
<1>4. /\ Settled(u, t) => Settled(u, t)'
      /\ state[u] = Complete => Settled(u, t)'
  BY <1>1, SettledStays
<1>5. InLane(u, t) => InLane(u, t)' \/ state'[u] = Complete
  BY <1>2 DEF InLane, Forward
<1>6. state'[u] = Complete => Settled(u, t)'
  BY DEF Settled
<1>7. CASE state'[t] < Complete
  BY <1>7, StatusOrder DEF Follows
<1>8. CASE state[t] = Complete
  <2>1. state'[t] = Complete
    BY <1>1, <1>8, StatusOrder DEF Forward, Finished
  <2> QED BY <1>3, <1>4, <1>8, <2>1, StatusOrder DEF Follows
<1>9. CASE state[t] \in {Ready, Running} /\ state'[t] \in {Ready, Running}
  <2>1. ASSUME InLane(u, t), InLane(u, t)', Before(DeviceOfTask(t), u, t)
        PROVE  Before(DeviceOfTask(t), u, t)'
    <3>1. PICK d \in Device : d = DeviceOfTask(t)
      BY <1>1, <1>9, HasDevice
    <3>2. Before(d, u, t)'
      BY <1>1, <1>2, <1>9, <2>1, <3>1 DEF LineKept, InLane
    <3> QED BY <1>2, <3>1, <3>2
  <2> QED BY <1>3, <1>4, <1>5, <1>6, <1>9, <2>1, StatusOrder DEF Follows
<1>10. CASE /\ state[t] \in {Queued, Submitted} /\ state'[t] \in {Queued, Submitted}
            /\ waitOn'[t] = waitOn[t]
  <2>1. ASSUME Covered(u, t)
        PROVE  Covered(u, t)'
    <3>1. CASE u \in waitOn[t]
      BY <1>10, <3>1 DEF Covered
    <3>2. ASSUME u \notin waitList[t], t \notin sweeping, NEW v \in waitOn[t], home[v] = home[t],
                 u \in Predecessors(v)
          PROVE  Covered(u, t)'
      <4>1. v \in Created
        BY <1>1, <3>2, TaskFacts
      <4>2. u \in Predecessors(v)'
        BY <3>2, <4>1, SamePredecessors
      <4>3. v \in waitOn'[t] /\ home'[v] = home'[t] /\ u \notin waitList'[t] /\ t \notin sweeping'
        BY <1>1, <1>10, <3>2, <4>1 DEF SameTasks
      <4> QED BY <4>2, <4>3 DEF Covered
    <3> QED BY <2>1, <3>1, <3>2 DEF Covered
  <2> QED BY <1>3, <1>4, <1>5, <1>6, <1>10, <2>1, StatusOrder DEF Follows
<1> QED BY <1>1, <1>7, <1>8, <1>9, <1>10 DEF Unmoved

-----------------------------------------------------------------------------
(* Tasks stay in line                                                      *)

(* Where everything is where it was, tasks are in line as before.          *)
LEMMA LineStays ==
  ASSUME PoolInv, SameLanes
  PROVE  LineKept
<1>1. Created \subseteq Task
  BY CreatedTasks DEF PoolInv, QueueInv, TypeInv
<1> QED BY <1>1 DEF LineKept, Before, SameLanes

(* What a device keeps of its tasks decides where they are, with what is   *)
(* left to complete.                                                       *)
LEMMA DevicesStay ==
  ASSUME PoolInv, UNCHANGED deviceVars, Ending(stack') = Ending(stack)
  PROVE  LineKept
<1>1. SameLanes
  BY DEF SameLanes, At, Batch, LastBatch, deviceVars
<1> QED BY <1>1, LineStays

(* A task that joins a lane comes after those that are in it.              *)
LEMMA JoinsLast ==
  ASSUME PoolInv, NEW t \in Created, NEW e \in Device, e = DeviceOfTask(t), JoinsLane(t, e)
  PROVE  /\ LineKept
         /\ \A u \in Created : u # t /\ InLane(u, t) => Before(e, u, t)'
<1>1. TypeOK /\ Created \subseteq Task
  BY CreatedTasks DEF PoolInv, QueueInv, TypeInv
<1>2. PICK m, n \in Nat : m = LastBatch(e) /\ n = Len(recording[e])
  BY <1>1, LaneTypes
<1>3. ASSUME NEW d \in Device, NEW i \in Nat, NEW j \in Nat, NEW u \in Task
      PROVE  At(d, i, j, u)' <=> At(d, i, j, u) \/ (d = e /\ i = m /\ j = n + 1 /\ u = t)
  BY <1>2, <1>3 DEF JoinsLane
<1>4. LineKept
  BY <1>1, <1>3 DEF LineKept, Before
<1>5. ASSUME NEW u \in Created, u # t, InLane(u, t)
      PROVE  Before(e, u, t)'
  <2>1. PICK i, j \in Nat : At(e, i, j, u)
    BY <1>1, <1>5 DEF PoolInv, Lanes, InLane
  <2>2. i <= m /\ (i = m => j <= n)
    <3>1. i \in 1 .. m /\ j \in 1 .. Len(Batch(e, i))
      BY <1>2, <2>1 DEF At
    <3>2. i = m => Batch(e, i) = recording[e]
      <4>1. PICK c, x \in Nat : c = Len(completionQ[e]) /\ x = Len(execQ[e]) /\ m = c + x + 2
        BY <1>1, <1>2, LaneTypes
      <4>11. m = c + x + 2
        BY <4>1
      <4>2. m # 1 /\ ~(m <= c + 1) /\ ~(m < m)
        BY <4>11
      <4> QED BY <1>2, <4>1, <4>2 DEF Batch
    <3> QED BY <1>2, <3>1, <3>2
  <2>3. n + 1 \in Nat /\ (i < m \/ (i = m /\ j < n + 1))
    BY <2>2
  <2>4. At(e, i, j, u)' /\ At(e, m, n + 1, t)'
    BY <1>1, <1>3, <2>1, <2>3
  <2> QED BY <2>3, <2>4 DEF Before
<1> QED BY <1>4, <1>5

(* When the first task of the submission being completed ends, those after *)
(* it move up, and nothing was ahead of it.                                *)
LEMMA EndsFirstLine ==
  ASSUME PoolInv, NEW t \in Created, NEW e \in Error, Ends(t, e),
         NEW s \in Seq(Created), s # <<>>, t = Head(s), s = Ending(stack),
         Ending(stack') = Tail(s)
  PROVE  /\ LineKept
         /\ \A d \in Device : \A u \in Created : ~Before(d, u, t)
<1>1. TypeOK /\ Created \subseteq Task /\ t \in Task
  BY CreatedTasks DEF PoolInv, QueueInv, TypeInv
<1>2. PICK n \in Nat : n = Len(s) /\ n # 0 /\ s[1] = t
  BY Popped
<1>3. \A d \in Device : \A j \in Nat : \A u \in Task :
        /\ At(d, 1, j, u) <=> j \in 1 .. n /\ s[j] = u
        /\ At(d, 1, j, u)' <=> j \in 1 .. n - 1 /\ s[j + 1] = u
        /\ \A i \in Nat : i # 1 => (At(d, i, j, u)' <=> At(d, i, j, u))
  BY <1>2, EndsFirstAt
<1>4. \A d \in Device : \A i, j \in Nat : At(d, i, j, t) <=> i = 1 /\ j = 1
  <2>1. \A d \in Device : At(d, 1, 1, t)
    BY <1>1, <1>2, <1>3
  <2> QED BY <1>1, <2>1 DEF PoolInv, Lanes
<1>5. ASSUME NEW d \in Device, NEW u \in Task
      PROVE  ~Before(d, u, t)
  <2> SUFFICES ASSUME NEW i \in Nat, NEW j \in Nat, NEW k \in Nat, NEW l \in Nat,
                      At(d, i, j, u), At(d, k, l, t), i < k \/ (i = k /\ j < l)
               PROVE  FALSE
    BY DEF Before
  <2>1. k = 1 /\ l = 1
    BY <1>4
  <2>2. i \in 1 .. LastBatch(d) /\ j \in 1 .. Len(Batch(d, i))
    BY DEF At
  <2> QED BY <2>1, <2>2
<1>6. ASSUME NEW d \in Device, NEW i \in Nat, NEW j \in Nat, NEW u \in Task, u # t,
             At(d, i, j, u)
      PROVE  IF i = 1 THEN j - 1 \in Nat /\ At(d, 1, j - 1, u)' ELSE At(d, i, j, u)'
  <2>1. CASE i = 1
    <3>1. j \in 1 .. n /\ s[j] = u
      BY <1>3, <1>6, <2>1
    <3>2. j # 1
      BY <1>2, <1>6, <3>1
    <3>3. j - 1 \in 1 .. n - 1 /\ j - 1 + 1 = j /\ j - 1 \in Nat
      BY <3>1, <3>2
    <3>4. At(d, 1, j - 1, u)'
      BY <1>3, <3>1, <3>3
    <3> QED BY <2>1, <3>3, <3>4
  <2>2. CASE i # 1
    BY <1>3, <1>6, <2>2
  <2> QED BY <2>1, <2>2
<1>7. ASSUME NEW d \in Device, NEW u \in Created, NEW v \in Created, u # t, v # t, Before(d, u, v)
      PROVE  Before(d, u, v)'
  <2>1. PICK i, j, k, l \in Nat :
          At(d, i, j, u) /\ At(d, k, l, v) /\ (i < k \/ (i = k /\ j < l))
    BY <1>7 DEF Before
  <2>2. /\ IF i = 1 THEN j - 1 \in Nat /\ At(d, 1, j - 1, u)' ELSE At(d, i, j, u)'
        /\ IF k = 1 THEN l - 1 \in Nat /\ At(d, 1, l - 1, v)' ELSE At(d, k, l, v)'
    BY <1>1, <1>6, <1>7, <2>1
  <2>3. PICK x, y \in Nat :
          /\ x = IF i = 1 THEN j - 1 ELSE j
          /\ y = IF k = 1 THEN l - 1 ELSE l
    BY <2>2
  <2>4. At(d, i, x, u)' /\ At(d, k, y, v)'
    BY <2>2, <2>3
  <2>5. i < k \/ (i = k /\ x < y)
    BY <2>1, <2>3
  <2> QED BY <2>4, <2>5 DEF Before
<1>8. LineKept
  <2>1. state'[t] = e /\ e \notin {Ready, Running}
    BY <1>1, StatusOrder DEF Ends, TypeOK
  <2> QED BY <1>7, <2>1 DEF LineKept
<1> QED BY <1>1, <1>5, <1>8

(* When a submission starts to be completed, it moves to the front.        *)
LEMMA CompletionLine ==
  ASSUME PoolInv, NEW e \in Device, CompleteSubmission(e)
  PROVE  LineKept
<1>1. TypeOK /\ Created \subseteq Task
  BY CreatedTasks DEF PoolInv, QueueInv, TypeInv
<1>2. /\ Ending(stack) = <<>>
      /\ \A d \in Device : \A i, j \in Nat : \A u \in Task :
           At(d, i, j, u)' <=> IF i = 1 THEN At(e, 2, j, u)
                               ELSE IF d = e THEN At(e, i + 1, j, u) ELSE At(d, i, j, u)
  BY CompletionMoves
<1>3. ASSUME NEW d \in Device, NEW i \in Nat, NEW j \in Nat, NEW u \in Task, At(d, i, j, u)
      PROVE  /\ i \in Nat \ {0, 1}
             /\ d # e => At(d, i, j, u)'
             /\ d = e => i - 1 \in Nat /\ At(d, i - 1, j, u)'
  <2>1. i \in Nat \ {0, 1}
    <3>1. i \in 1 .. LastBatch(d) /\ j \in 1 .. Len(Batch(d, i))
      BY <1>3 DEF At
    <3>2. i = 1 => Len(Batch(d, i)) = 0
      BY <1>2 DEF Batch
    <3> QED BY <3>1, <3>2
  <2>2. i - 1 \in Nat /\ i - 1 + 1 = i /\ (i - 1 = 1 => i = 2)
    BY <2>1
  <2>3. CASE d # e
    BY <1>2, <1>3, <2>1, <2>3
  <2>4. CASE d = e
    <3>1. CASE i - 1 = 1
      <4>1. At(e, 2, j, u)
        BY <1>3, <2>2, <2>4, <3>1
      <4>2. At(d, i - 1, j, u)' <=> At(e, 2, j, u)
        BY <1>2, <2>2, <3>1
      <4> QED BY <2>1, <2>2, <2>4, <4>1, <4>2
    <3>2. CASE i - 1 # 1
      <4>1. At(d, i - 1, j, u)' <=> At(e, i, j, u)
        BY <1>2, <2>2, <2>4, <3>2
      <4> QED BY <1>3, <2>1, <2>2, <2>4, <4>1
    <3> QED BY <3>1, <3>2
  <2> QED BY <2>3, <2>4
<1>4. ASSUME NEW d \in Device, NEW u \in Created, NEW v \in Created, Before(d, u, v)
      PROVE  Before(d, u, v)'
  <2>1. PICK i, j, k, l \in Nat :
          At(d, i, j, u) /\ At(d, k, l, v) /\ (i < k \/ (i = k /\ j < l))
    BY <1>4 DEF Before
  <2>2. /\ i \in Nat \ {0, 1} /\ k \in Nat \ {0, 1}
        /\ d # e => At(d, i, j, u)' /\ At(d, k, l, v)'
        /\ d = e => At(d, i - 1, j, u)' /\ At(d, k - 1, l, v)'
    BY <1>1, <1>3, <2>1
  <2>3. CASE d # e
    BY <2>1, <2>2, <2>3 DEF Before
  <2>4. CASE d = e
    <3>1. i - 1 \in Nat /\ k - 1 \in Nat /\ (i - 1 < k - 1 \/ (i - 1 = k - 1 /\ j < l))
      BY <2>1, <2>2
    <3> QED BY <2>2, <2>4, <3>1 DEF Before
  <2> QED BY <2>3, <2>4
<1> QED BY <1>4 DEF LineKept

-----------------------------------------------------------------------------
(* The order is kept by the steps of the lock holder                       *)

(* A task whose status stays the same is not affected, unless it still     *)
(* waits and what it waits on changes.                                     *)
LEMMA StillUnmoved ==
  ASSUME PoolInv, NEW t \in Created, state'[t] = state[t],
         state[t] \in {Queued, Submitted} => waitOn'[t] = waitOn[t]
  PROVE  Unmoved(t)
<1>1. state[t] \in Int /\ state[t] <= Ready
  BY TaskFacts
<1>2. state[t] < Complete \/ state[t] = Complete \/ state[t] \in {Ready, Running, Queued, Submitted}
  BY <1>1, StatusOrder
<1> QED BY <1>2 DEF Unmoved

\* t gets status s, and no other task changes its own.
Becomes(t, s) == \A u \in Created : state'[u] = IF u = t THEN s ELSE state[u]

(* A step that changes the status of one task, which has not finished and  *)
(* can only be recorded or succeed once it is with its device.             *)
LEMMA OneForward ==
  ASSUME PoolInv, NEW t \in Created, NEW s, state' = [state EXCEPT ![t] = s], ~Finished(t),
         state[t] \in {Ready, Running} => s \in {Running, Complete}
  PROVE  Forward /\ Becomes(t, s)
<1>1. TypeOK /\ Created \subseteq Task
  BY CreatedTasks DEF PoolInv, QueueInv, TypeInv
<1>2. \A u \in Created : state'[u] = IF u = t THEN s ELSE state[u]
  BY <1>1 DEF TypeOK
<1> QED BY <1>2 DEF Forward, Becomes

(* Tasks that stay what they were enqueued as.                             *)
LEMMA TasksStay ==
  ASSUME UNCHANGED taskVars
  PROVE  SameTasks /\ Created' = Created
BY DEF SameTasks, Created, taskVars

(* A step that changes nothing but the lanes keeps the order.              *)
LEMMA OrderQuiet ==
  ASSUME PoolInv, Order, UNCHANGED <<taskVars, state, waitOn>>, LineKept
  PROVE  Order'
<1>1. SameTasks /\ Created' = Created /\ Forward
  BY TasksStay DEF Forward
<1>2. \A t \in Created : Unmoved(t)
  BY StillUnmoved
<1>3. MovesOnly({})
  BY <1>1, <1>2 DEF MovesOnly
<1> QED BY <1>1, <1>3, OrderKept

(* A task that is submitted has to come after the same tasks as before.    *)
LEMMA OrderSubmits ==
  ASSUME PoolInv, Order, NEW q \in Queue, NEW t \in Created, Submits(t, q),
         Ending(stack') = Ending(stack)
  PROVE  Order'
<1>1. state[t] = Queued
  <2>1. Leaves(t, q)
    BY DEF Submits
  <2> QED BY <2>1, Oldest, Zenon
<1>2. /\ UNCHANGED <<taskVars, waitOn, deviceVars>> /\ state' = [state EXCEPT ![t] = Submitted]
  BY DEF Submits, depVars
<1>3. ~Finished(t) /\ state[t] \notin {Ready, Running}
  BY <1>1, StatusOrder DEF Finished
<1>4. Forward /\ Becomes(t, Submitted)
  BY <1>2, <1>3, OneForward
<1>5. SameTasks /\ Created' = Created /\ LineKept
  BY <1>2, TasksStay, DevicesStay
<1>6. \A u \in Created : Unmoved(u)
  <2>1. Unmoved(t)
    BY <1>1, <1>2, <1>4 DEF Unmoved, Becomes
  <2>2. ASSUME NEW u \in Created, u # t PROVE Unmoved(u)
    BY <1>2, <1>4, <2>2, StillUnmoved DEF Becomes
  <2> QED BY <2>1, <2>2
<1>7. MovesOnly({})
  BY <1>5, <1>6 DEF MovesOnly
<1> QED BY <1>4, <1>5, <1>7, OrderKept

(* A task can turn ready when what it has to come after is settled or      *)
(* already with its device, where it joins the end of the lane.            *)
LEMMA OrderTurnsReady ==
  ASSUME PoolInv, Order, NEW t \in Created, TurnsReady(t), Ending(stack') = Ending(stack),
         state[t] \in {Queued, Submitted}, home[t] \in Queue,
         \A u \in Created : u # t => waitOn'[u] = waitOn[u],
         \A u \in Predecessors(t) : Settled(u, t) \/ InLane(u, t)
  PROVE  Order'
<1>1. UNCHANGED taskVars /\ state' = [state EXCEPT ![t] = Ready]
  BY DEF TurnsReady
<1>2. ~Finished(t) /\ state[t] \notin {Ready, Running}
  BY StatusOrder DEF Finished
<1>3. Forward /\ \A u \in Created : state'[u] = IF u = t THEN Ready ELSE state[u]
  <2>1. Forward /\ Becomes(t, Ready)
    BY <1>1, <1>2, OneForward
  <2> QED BY <2>1 DEF Becomes
<1>4. PICK e \in Device : e = DeviceOfTask(t)
  BY TaskPoolAssumption DEF DeviceOfTask
<1>5. JoinsLane(t, e)
  BY <1>4, TurnsReadyAt
<1>6. LineKept /\ \A u \in Created : u # t /\ InLane(u, t) => Before(e, u, t)'
  BY <1>4, <1>5, JoinsLast
<1>7. SameTasks /\ Created' = Created
  BY <1>1, TasksStay
<1>8. \A u \in Created : u \in {t} \/ Unmoved(u)
  BY <1>3, StillUnmoved
<1>9. TaskOrder(t)'
  <2>1. /\ Predecessors(t)' = Predecessors(t) /\ Predecessors(t) \subseteq Created
        /\ DeviceOfTask(t)' = e
    BY <1>4, <1>7, SamePredecessors
  <2> SUFFICES ASSUME NEW u \in Predecessors(t)
               PROVE  Follows(t, u)'
    BY <2>1 DEF TaskOrder
  <2>2. CASE Settled(u, t)
    BY <1>3, <1>7, <2>2, SettledStays DEF Follows
  <2>3. CASE InLane(u, t)
    <3>1. u \in Created /\ DeviceOfTask(u)' = DeviceOfTask(u)
      BY <1>7, <2>1, SamePredecessors
    <3>2. u # t /\ InLane(u, t)'
      BY <1>2, <1>3, <1>4, <2>1, <2>3, <3>1 DEF InLane
    <3>3. Before(e, u, t)'
      BY <1>6, <2>3, <3>1, <3>2
    <3>4. state'[t] = Ready
      BY <1>3
    <3>5. Ready # Complete /\ Ready \notin {Queued, Submitted}
      BY StatusOrder
    <3>6. (Before(DeviceOfTask(t), u, t))'
      BY <2>1, <3>3
    <3> QED BY <3>2, <3>4, <3>5, <3>6 DEF Follows
  <2> QED BY <2>2, <2>3
<1>10. MovesOnly({t})
  BY <1>7, <1>8, <1>9 DEF MovesOnly
<1> QED BY <1>3, <1>6, <1>7, <1>10, OrderKept

(* A task that waits for nothing when it is submitted is ready.            *)
LEMMA OrderSubmitsReady ==
  ASSUME PoolInv, Order, NEW q \in Queue, NEW t \in Created, SubmitsReady(t, q),
         Ending(stack') = Ending(stack)
  PROVE  Order'
<1>1. state[t] = Queued /\ home[t] = q
  <2>1. Leaves(t, q)
    BY DEF SubmitsReady
  <2> QED BY <2>1, Oldest, Zenon
<1>2. TurnsReady(t) /\ waitOn[t] = {} /\ UNCHANGED waitOn
  BY DEF SubmitsReady
<1>3. \A u \in Predecessors(t) : Settled(u, t) \/ InLane(u, t)
  BY <1>1, <1>2 DEF Order, TaskOrder, Follows, Covered
<1> QED BY <1>1, <1>2, <1>3, OrderTurnsReady

(* When v no longer has to be waited for, by itself, what it stood for     *)
(* need not be either.                                                     *)
LEMMA Released ==
  ASSUME PoolInv, Order, NEW v \in Created, NEW d \in Created, home[d] \in Queue,
         state[d] \in {Queued, Submitted}, state[v] \in {Ready, Complete},
         state[v] = Ready => DeviceOfTask(d) = DeviceOfTask(v), NEW u \in Predecessors(d)
  PROVE  \/ Settled(u, d) \/ InLane(u, d) \/ u \in waitOn[d] \ {v}
         \/ /\ u \notin waitList[d] /\ d \notin sweeping
            /\ \E w \in waitOn[d] \ {v} : home[w] = home[d] /\ u \in Predecessors(w)
<1>1. Settled(u, d) \/ InLane(u, d) \/ Covered(u, d)
  BY DEF Order, TaskOrder, Follows
<1>2. CASE u = v
  BY <1>2 DEF Settled, InLane
<1>3. ASSUME v \in waitOn[d], home[v] = home[d], u \in Predecessors(v), u \notin waitList[d],
             d \notin sweeping
      PROVE  Settled(u, d) \/ InLane(u, d)
  <2>1. DeviceOfTask(v) = DeviceOfTask(d)
    BY <1>3 DEF DeviceOfTask
  <2>2. Settled(u, v) \/ InLane(u, v)
    BY <1>3 DEF Order, TaskOrder, Follows
  <2>3. CASE InLane(u, v)
    BY <2>1, <2>3 DEF InLane
  <2>4. CASE ChainBroken(u, v)
    <3>1. PICK w \in u + 1 .. v - 1 :
            home[w] = home[v] /\ state[w] < Complete /\ (u \in barriers => w \in barriers)
      BY <2>4 DEF ChainBroken
    <3>2. v < d
      BY <1>3, TaskFacts DEF PoolInv, QueueInv, WaitsForOlder
    <3>3. u \in Nat /\ v \in Nat /\ d \in Nat
      <4>1. u \in Created
        <5>1. /\ TypeOK /\ v \in Nat /\ v <= created /\ created \in Nat /\ waitList[v] \subseteq Created
          BY TaskFacts DEF TypeOK
        <5>2. 1 .. v - 1 \subseteq Created
          BY <5>1 DEF Created
        <5> QED BY <1>3, <5>1, <5>2 DEF Predecessors
      <4> QED BY <4>1, TaskFacts
    <3>4. w \in u + 1 .. d - 1
      BY <3>2, <3>3
    <3> QED BY <1>3, <3>1, <3>4 DEF ChainBroken, Settled
  <2> QED BY <1>3, <2>2, <2>3, <2>4 DEF Settled
<1> QED BY <1>1, <1>2, <1>3 DEF Covered

(* A release keeps the order.                                              *)
LEMMA OrderReleases ==
  ASSUME PoolInv, Order, NEW v \in Created, NEW d \in Created, home[d] \in Queue,
         state[v] \in {Ready, Complete}, state[v] = Ready => DeviceOfTask(d) = DeviceOfTask(v),
         Releases(v, d) \/ ReleasesLast(v, d), Ending(stack') = Ending(stack)
  PROVE  Order'
<1>1. /\ TypeOK /\ Created \subseteq Task
      /\ \A u \in Created : waitOn'[u] = IF u = d THEN waitOn[d] \ {v} ELSE waitOn[u]
  <2>1. TypeOK /\ Created \subseteq Task
    BY CreatedTasks DEF PoolInv, QueueInv, TypeInv
  <2> QED BY <2>1 DEF Releases, ReleasesLast, TypeOK
<1>2. CASE Releases(v, d)
  <2>1. UNCHANGED <<taskVars, state, deviceVars>>
    BY <1>2 DEF Releases
  <2>2. SameTasks /\ Created' = Created /\ Forward /\ LineKept
    BY <2>1, TasksStay, DevicesStay DEF Forward
  <2>3. \A u \in Created : u # d => Unmoved(u)
    BY <1>1, <2>1, StillUnmoved
  <2>4. CASE state[d] \notin {Queued, Submitted}
    <3>1. \A u \in Created : Unmoved(u)
      BY <2>1, <2>3, <2>4, StillUnmoved
    <3>2. MovesOnly({})
      BY <2>2, <3>1 DEF MovesOnly
    <3> QED BY <2>2, <3>2, OrderKept
  <2>5. CASE state[d] \in {Queued, Submitted}
    <3>1. Predecessors(d)' = Predecessors(d) /\ Predecessors(d) \subseteq Created
      BY <2>2, SamePredecessors
    <3>2. ASSUME NEW u \in Predecessors(d)
          PROVE  Follows(d, u)'
      <4>1. state'[d] \in {Queued, Submitted} /\ waitOn'[d] = waitOn[d] \ {v}
        BY <1>1, <2>1, <2>5
      <4>2. state'[d] # Complete /\ state'[d] \notin {Ready, Running}
        BY <4>1, StatusOrder
      <4>3. CASE Settled(u, d)
        BY <2>2, <4>2, <4>3, SettledStays DEF Follows
      <4>4. CASE InLane(u, d)
        <5>1. DeviceOfTask(d)' = DeviceOfTask(d) /\ DeviceOfTask(u)' = DeviceOfTask(u)
          BY <2>2, <3>1, SamePredecessors
        <5> QED BY <2>1, <4>2, <4>4, <5>1 DEF Follows, InLane
      <4>5. CASE u \in waitOn[d] \ {v}
        BY <4>1, <4>2, <4>5 DEF Follows, Covered
      <4>6. ASSUME u \notin waitList[d], d \notin sweeping, NEW w \in waitOn[d] \ {v},
                   home[w] = home[d], u \in Predecessors(w)
            PROVE  Follows(d, u)'
        <5>1. w \in Created
          BY <4>6, TaskFacts
        <5>2. u \in Predecessors(w)'
          BY <2>2, <4>6, <5>1, SamePredecessors
        <5>3. /\ home'[w] = home'[d] /\ u \notin waitList'[d] /\ d \notin sweeping'
              /\ w \in waitOn'[d]
          BY <2>2, <4>1, <4>6, <5>1 DEF SameTasks
        <5>4. Covered(u, d)'
          BY <5>2, <5>3 DEF Covered
        <5> QED BY <4>2, <5>4 DEF Follows
      <4>7. \/ Settled(u, d) \/ InLane(u, d) \/ u \in waitOn[d] \ {v}
            \/ /\ u \notin waitList[d] /\ d \notin sweeping
               /\ \E w \in waitOn[d] \ {v} : home[w] = home[d] /\ u \in Predecessors(w)
        BY <2>5, Released
      <4> QED BY <4>3, <4>4, <4>5, <4>6, <4>7
    <3>3. TaskOrder(d)'
      BY <3>1, <3>2 DEF TaskOrder
    <3>4. MovesOnly({d})
      BY <2>2, <2>3, <3>3 DEF MovesOnly
    <3> QED BY <2>2, <3>4, OrderKept
  <2> QED BY <2>4, <2>5
<1>3. CASE ReleasesLast(v, d)
  <2>1. TurnsReady(d) /\ waitOn[d] \ {v} = {} /\ state[d] \in {Queued, Submitted}
    BY <1>3 DEF ReleasesLast
  <2>2. \A u \in Predecessors(d) : Settled(u, d) \/ InLane(u, d)
    BY <2>1, Released
  <2> QED BY <1>1, <2>1, <2>2, OrderTurnsReady
<1> QED BY <1>2, <1>3

(* A task that fails before it has begun is in nobody's way.               *)
LEMMA OrderFails ==
  ASSUME PoolInv, Order, NEW t \in Created, NEW e \in Error, state[t] \in {Queued, Submitted},
         e < Complete, Ends(t, e), Ending(stack') = Ending(stack)
  PROVE  Order'
<1>1. UNCHANGED <<taskVars, waitOn, deviceVars>> /\ state' = [state EXCEPT ![t] = e]
  BY DEF Ends, depVars
<1>2. ~Finished(t) /\ state[t] \notin {Ready, Running}
  BY StatusOrder DEF Finished
<1>3. Forward /\ Becomes(t, e)
  BY <1>1, <1>2, OneForward
<1>4. SameTasks /\ Created' = Created /\ LineKept
  BY <1>1, TasksStay, DevicesStay
<1>5. \A u \in Created : Unmoved(u)
  <2>1. Unmoved(t)
    BY <1>3 DEF Unmoved, Becomes
  <2>2. ASSUME NEW u \in Created, u # t PROVE Unmoved(u)
    BY <1>1, <1>3, <2>2, StillUnmoved DEF Becomes
  <2> QED BY <2>1, <2>2
<1>6. MovesOnly({})
  BY <1>4, <1>5 DEF MovesOnly
<1> QED BY <1>3, <1>4, <1>6, OrderKept

(* The first task of the submission being completed has nothing ahead of   *)
(* Everything the first task of the submission being completed comes after *)
(* is settled.                                                             *)
LEMMA FirstSettled ==
  ASSUME PoolInv, Order, NEW t \in Created, Ends(t, Complete), state[t] = Running,
         NEW s \in Seq(Created), s # <<>>, t = Head(s), s = Ending(stack),
         Ending(stack') = Tail(s), NEW u \in Predecessors(t)
  PROVE  Settled(u, t)
<1>1. Complete \in Error
  BY DEF Error, Complete
<1>2. \A d \in Device : \A v \in Created : ~Before(d, v, t)
  BY <1>1, EndsFirstLine
<1>3. PICK d \in Device : d = DeviceOfTask(t)
  BY HasDevice, TaskFacts
<1>4. Settled(u, t) \/ Before(DeviceOfTask(t), u, t)
  BY DEF Order, TaskOrder, Follows
<1>5. ~Before(d, u, t)
  BY <1>2, PredecessorsCreated
<1> QED BY <1>3, <1>4, <1>5

(* it, so all it had to come after is settled.                             *)
LEMMA OrderEndsFirst ==
  ASSUME PoolInv, Order, NEW t \in Created, Ends(t, Complete), state[t] = Running,
         NEW s \in Seq(Created), s # <<>>, t = Head(s), s = Ending(stack),
         Ending(stack') = Tail(s)
  PROVE  Order'
<1>1. UNCHANGED <<taskVars, waitOn>> /\ state' = [state EXCEPT ![t] = Complete]
  BY DEF Ends, depVars
<1>2. ~Finished(t) /\ Complete \in Error
  BY StatusOrder DEF Finished, Error, Complete
<1>3. Forward /\ Becomes(t, Complete)
  BY <1>1, <1>2, OneForward
<1>4. SameTasks /\ Created' = Created
  BY <1>1, TasksStay
<1>5. LineKept
  BY <1>2, EndsFirstLine
<1>6. \A u \in Created : u \in {t} \/ Unmoved(u)
  BY <1>1, <1>3, StillUnmoved DEF Becomes
<1>7. TaskOrder(t)'
  <2>1. Predecessors(t)' = Predecessors(t)
    BY <1>4, SamePredecessors
  <2> SUFFICES ASSUME NEW u \in Predecessors(t)
               PROVE  Follows(t, u)'
    BY <2>1 DEF TaskOrder
  <2>2. Settled(u, t)'
    BY <1>3, <1>4, FirstSettled, SettledStays
  <2>3. state'[t] = Complete
    BY <1>3 DEF Becomes
  <2> QED BY <2>2, <2>3, StatusOrder DEF Follows
<1>8. MovesOnly({t})
  BY <1>4, <1>6, <1>7 DEF MovesOnly
<1> QED BY <1>3, <1>4, <1>5, <1>8, OrderKept

(* Every step of the lock holder keeps the order.                          *)
LEMMA OrderLockHolder ==
  ASSUME PoolInv, Order, LockStep
  PROVE  Order'
<1>1. CallsKept /\ LockEffect /\ TypeOK /\ Created \subseteq Task
  BY LockCalls, LockEffects, CreatedTasks DEF PoolInv, QueueInv, TypeInv
<1>2. ASSUME Quiet, Ending(stack') = Ending(stack)
      PROVE  Order'
  <2>1. LineKept
    BY <1>2, DevicesStay DEF Quiet
  <2> QED BY <1>2, <2>1, OrderQuiet DEF Quiet, depVars
<1>3. CASE Head(stack).fn = "CompleteAll"
  <2>1. CASE Quiet /\ Ending(stack') = Ending(stack)
    BY <1>2, <2>1
  <2>2. CASE /\ Ending(stack) # <<>> /\ Ends(Head(Ending(stack)), Complete)
             /\ Ending(stack') = Tail(Ending(stack))
    <3>1. Head(stack).tasks # <<>> /\ Ending(stack) = Head(stack).tasks /\ stack # <<>>
      BY <1>1, <1>3, <2>2 DEF CallsKept, LockStep
    <3>2. PICK s \in Seq(Created) : s = Ending(stack)
      BY <1>3, <3>1, EndingRuns
    <3>3. PICK t \in Created : t = Head(s) /\ state[t] = Running
      BY <1>3, <3>1, <3>2, EndingRuns
    <3> QED BY <2>2, <3>2, <3>3, OrderEndsFirst
  <2> QED BY <1>1, <1>3, <2>1, <2>2 DEF CallsKept
<1>4. CASE Head(stack).fn # "CompleteAll"
  <2>0. Ending(stack') = Ending(stack)
    BY <1>1, <1>4 DEF CallsKept
  <2>1. CASE Quiet
    BY <1>2, <2>0, <2>1
  <2>2. CASE \E q \in Queue, t \in Created : Submits(t, q) \/ SubmitsReady(t, q)
    BY <2>0, <2>2, OrderSubmits, OrderSubmitsReady
  <2>3. CASE \E v \in Created, d \in Created :
               /\ state[v] \in {Ready, Complete} /\ home[d] \in Queue
               /\ state[v] = Ready => DeviceOfTask(d) = DeviceOfTask(v)
               /\ Releases(v, d) \/ ReleasesLast(v, d)
    BY <2>0, <2>3, OrderReleases
  <2>4. CASE \E t \in Created, e \in Error :
               state[t] \in {Queued, Submitted} /\ e < Complete /\ Ends(t, e)
    BY <2>0, <2>4, OrderFails
  <2>5. ASSUME NEW t \in Created, Finished(t), Clears(t)
        PROVE  Order'
    <3>1. UNCHANGED <<taskVars, state, deviceVars>>
      BY <2>5 DEF Clears
    <3>2. SameTasks /\ Created' = Created /\ LineKept /\ Forward
      BY <2>0, <3>1, TasksStay, DevicesStay DEF Forward
    <3>3. state[t] \notin {Queued, Submitted} /\ \A u \in Created : u # t => waitOn'[u] = waitOn[u]
      BY <1>1, <2>5, StatusOrder DEF Clears, Finished, TypeOK
    <3>4. \A u \in Created : Unmoved(u)
      BY <3>1, <3>3, StillUnmoved
    <3>5. MovesOnly({})
      BY <3>2, <3>4 DEF MovesOnly
    <3> QED BY <3>2, <3>5, OrderKept
  <2>6. ASSUME NEW S, Flushes(S)
        PROVE  Order'
    <3>1. LineKept
      BY <2>0, <2>6, FlushesSameLanes, LineStays
    <3> QED BY <2>6, <3>1, OrderQuiet DEF Flushes, depVars
  <2> QED BY <1>1, <1>4, <2>1, <2>2, <2>3, <2>4, <2>5, <2>6 DEF LockEffect
<1> QED BY <1>3, <1>4

-----------------------------------------------------------------------------
(* The order is kept while nobody holds the lock                           *)

(* Recording a task does not change its place.                             *)
LEMMA OrderRecord ==
  ASSUME PoolInv, Order, NEW e \in Device, Record(e)
  PROVE  Order'
<1>1. /\ execQ[e] # <<>> /\ recorded[e] < Len(Head(execQ[e]))
      /\ UNCHANGED <<taskVars, waitOn, recording, execQ, completionQ, stack>>
  BY DEF Record, depVars
<1>2. PICK t \in Created : t = Head(execQ[e])[recorded[e] + 1] /\ state[t] = Ready
  BY <1>1, NextToRecord
<1>3. state' = [state EXCEPT ![t] = Running]
  BY <1>2 DEF Record
<1>4. ~Finished(t)
  BY <1>2, StatusOrder DEF Finished
<1>5. Forward /\ Becomes(t, Running)
  BY <1>3, <1>4, OneForward
<1>6. SameTasks /\ Created' = Created /\ LineKept
  <2>1. SameLanes
    BY <1>1 DEF SameLanes, At, Batch, LastBatch
  <2> QED BY <1>1, <2>1, TasksStay, LineStays
<1>7. \A u \in Created : Unmoved(u)
  <2>1. Unmoved(t)
    BY <1>2, <1>5 DEF Unmoved, Becomes
  <2>2. ASSUME NEW u \in Created, u # t PROVE Unmoved(u)
    BY <1>1, <1>5, <2>2, StillUnmoved DEF Becomes
  <2> QED BY <2>1, <2>2
<1>8. MovesOnly({})
  BY <1>6, <1>7 DEF MovesOnly
<1> QED BY <1>5, <1>6, <1>8, OrderKept

(* A user event has nothing to come after.                                 *)
LEMMA OrderSetsEvent ==
  ASSUME PoolInv, Order, NEW u \in Created, NEW s \in Error, SetsEvent(u, s),
         Ending(stack') = Ending(stack)
  PROVE  Order'
<1>1. /\ home[u] = NoQueue /\ state[u] = Submitted
      /\ UNCHANGED <<taskVars, waitOn, deviceVars>> /\ state' = [state EXCEPT ![u] = s]
  BY DEF SetsEvent, Ends, depVars
<1>2. ~Finished(u) /\ state[u] \notin {Ready, Running}
  BY <1>1, StatusOrder DEF Finished
<1>3. Forward /\ Becomes(u, s)
  BY <1>1, <1>2, OneForward
<1>4. SameTasks /\ Created' = Created /\ LineKept
  BY <1>1, TasksStay, DevicesStay
<1>5. TaskOrder(u)'
  <2>1. Predecessors(u) = {}
    BY <1>1 DEF PoolInv, Places, Predecessors
  <2>2. Predecessors(u)' = {}
    BY <1>4, <2>1, SamePredecessors
  <2> QED BY <2>2 DEF TaskOrder
<1>6. \A t \in Created : t \in {u} \/ Unmoved(t)
  BY <1>1, <1>3, StillUnmoved DEF Becomes
<1>7. MovesOnly({u})
  BY <1>4, <1>5, <1>6 DEF MovesOnly
<1> QED BY <1>3, <1>4, <1>7, OrderKept

(* Neither has a new one.                                                  *)
LEMMA OrderCreates ==
  ASSUME PoolInv, Order, CreateUserEvent
  PROVE  Order'
<1>1. PICK t : t = created + 1
  OBVIOUS
<1>2. /\ TypeOK /\ created \in Nat /\ t \in Task /\ t > created /\ Created \subseteq Task
      /\ created' = t /\ state' = [state EXCEPT ![t] = Submitted]
      /\ UNCHANGED <<home, barriers, waitList, sweeping, waitOn, deviceVars, stack>>
  <2>1. /\ TypeOK /\ created \in Nat /\ created < NumTasks /\ NumTasks \in Nat
        /\ Created \subseteq Task
    BY TaskPoolAssumption, CreatedTasks DEF PoolInv, QueueInv, TypeInv, TypeOK, CreateUserEvent
  <2>2. t \in Task /\ t > created
    BY <1>1, <2>1 DEF Task
  <2> QED BY <1>1, <2>1, <2>2 DEF CreateUserEvent, depVars
<1>3. Created' = Created \cup {t} /\ t \notin Created
  BY <1>1, <1>2 DEF Created
<1>4. \A u \in Created : state'[u] = state[u]
  BY <1>2, <1>3 DEF TypeOK
<1>5. SameTasks /\ Forward /\ LineKept
  BY <1>2, <1>3, <1>4, DevicesStay DEF SameTasks, Forward
<1>6. TaskOrder(t)'
  <2>1. home'[t] = NoQueue /\ waitList'[t] = {}
    BY <1>2 DEF PoolInv, Uncreated
  <2>2. Predecessors(t)' = {}
    BY <2>1 DEF Predecessors
  <2> QED BY <2>2 DEF TaskOrder
<1>7. \A u \in Created : Unmoved(u)
  BY <1>2, <1>4, StillUnmoved
<1>8. MovesOnly({t})
  BY <1>3, <1>6, <1>7 DEF MovesOnly
<1> QED BY <1>5, <1>8, OrderKept

(* What a new command t is told to wait for it waits for, unless it is     *)
(* settled or with t's device.                                             *)
LEMMA NamedOnes ==
  ASSUME PoolInv, NEW q \in Queue, NEW command, NEW W \in SUBSET Created, NEW t,
         Enqueued(t, q, command, W), NEW u \in Named(q, command, W), u \in Created
  PROVE  Settled(u, t)' \/ InLane(u, t)' \/ u \in waitOn'[t]
<1>1. /\ t \in Task /\ u \in Task /\ u # t /\ state'[u] = state[u] /\ home'[u] = home[u]
      /\ home'[t] = q /\ waitOn'[t] = Linked(q, command, W) /\ waitList'[t] = W
      /\ StaleWaits \/ \A x \in W : ~Finished(x)
  BY DEF Enqueued
<1>2. DeviceOfTask(t)' = DeviceOf[q] /\ DeviceOfTask(u)' = DeviceOfTask(u)
  BY <1>1, TaskPoolAssumption DEF DeviceOfTask
<1>3. CASE DeviceOfTask(u) # DeviceOf[q] \/ state[u] \in {Queued, Submitted}
  BY <1>1, <1>3 DEF Linked, LinkedTo
<1>4. CASE DeviceOfTask(u) = DeviceOf[q] /\ state[u] \in {Ready, Running}
  BY <1>1, <1>2, <1>4 DEF InLane
<1>5. CASE state[u] = Complete
  BY <1>1, <1>5 DEF Settled
<1>6. CASE state[u] < Complete
  <2>1. Finished(u)
    BY <1>6, TaskFacts, StatusOrder DEF Finished
  <2> QED BY <1>1, <1>6, <2>1 DEF Settled
<1>7. /\ state[u] \in Int /\ state[u] <= Ready
  BY TaskFacts
<1>8. state[u] < Complete \/ state[u] = Complete \/ state[u] \in {Ready, Running, Queued, Submitted}
  BY <1>7, StatusOrder
<1> QED BY <1>3, <1>4, <1>5, <1>6, <1>8

(* One of them, l, stands for those that l has to come after itself.       *)
LEMMA LinkedBehind ==
  ASSUME PoolInv, Order, NEW q \in Queue, NEW command, NEW W \in SUBSET Created, NEW t,
         t = created + 1,
         Enqueued(t, q, command, W), NEW l \in Named(q, command, W), l \in Created, home[l] = q,
         NEW u \in Predecessors(l), u \in Created, u < l, ~Finished(u), u \notin W,
         command = "task" \/ W # {}, u \in barriers => l \in barriers
  PROVE  Settled(u, t)' \/ InLane(u, t)' \/ Covered(u, t)'
<1>1. /\ t \in Task /\ t \in Nat /\ Created \subseteq Task /\ t \notin Created /\ u < t /\ l < t
      /\ UNCHANGED state /\ \A x \in Created : home'[x] = home[x] /\ waitList'[x] = waitList[x]
      /\ home'[t] = q /\ waitOn'[t] = Linked(q, command, W) /\ waitList'[t] = W
      /\ \A x \in Created : x \in barriers' <=> x \in barriers
      /\ sweeping' = sweeping /\ t \notin sweeping
      /\ \A x \in Created : x \in Nat
  <2>1. \A x \in Created : x \in Nat
    BY TaskFacts
  <2>2. t \notin sweeping
    BY DEF PoolInv, QueueInv, TypeInv, TypeOK, Enqueued
  <2>3. /\ \A x \in Created : home'[x] = home[x] /\ waitList'[x] = waitList[x]
        /\ \A x \in Created : x \in barriers' <=> x \in barriers
    BY DEF Enqueued
  <2> QED BY <2>1, <2>2, <2>3 DEF Enqueued
<1>2. /\ DeviceOfTask(t)' = DeviceOfTask(l) /\ DeviceOfTask(l)' = DeviceOfTask(l)
      /\ DeviceOfTask(u)' = DeviceOfTask(u)
  BY <1>1 DEF DeviceOfTask
<1>3. \A w \in Created : u < w /\ home[w] = q /\ state[w] < Complete /\ (u \in barriers => w \in barriers)
        => ChainBroken(u, t)'
  <2> SUFFICES ASSUME NEW w \in Created, u < w, home[w] = q, state[w] < Complete,
                      u \in barriers => w \in barriers
               PROVE  ChainBroken(u, t)'
    OBVIOUS
  <2>1. w < t
    BY DEF Enqueued
  <2>2. w \in u + 1 .. t - 1
    BY <1>1, <2>1
  <2>3. home'[w] = home'[t] /\ state'[w] < Complete /\ (u \in barriers' => w \in barriers')
    BY <1>1
  <2>4. u \notin waitList'[t] /\ t \notin sweeping'
    BY <1>1
  <2> QED BY <2>2, <2>3, <2>4 DEF ChainBroken
<1>4. ChainBroken(u, l) => ChainBroken(u, t)'
  <2> SUFFICES ASSUME ChainBroken(u, l) PROVE ChainBroken(u, t)'
    OBVIOUS
  <2>1. PICK w \in u + 1 .. l - 1 :
          home[w] = home[l] /\ state[w] < Complete /\ (u \in barriers => w \in barriers)
    BY DEF ChainBroken
  <2>2. w \in Created /\ u < w
    <3>1. created \in Nat /\ l <= created /\ u > 0
      BY TaskFacts
    <3> QED BY <1>1, <2>1, <3>1 DEF Created
  <2> QED BY <1>3, <2>1, <2>2
<1>5. Settled(u, l) => Settled(u, t)'
  <2>1. state[u] \in Int
    BY TaskFacts
  <2>2. Settled(u, l) => ChainBroken(u, l)
    BY <2>1, StatusOrder DEF Settled, Finished
  <2> QED BY <1>4, <2>2 DEF Settled
<1>6. InLane(u, l) => InLane(u, t)'
  BY <1>1, <1>2 DEF InLane
<1>7. Follows(l, u)
  BY DEF Order, TaskOrder
<1>8. CASE l \in waitOn'[t]
  <2>1. u \in Predecessors(l)'
    <3>1. l \in sweeping' <=> l \in sweeping
      BY <1>1
    <3>2. Predecessors(l)' = Predecessors(l)
      <4>1. 1 .. l - 1 \subseteq Created
        <5>1. created \in Nat /\ l <= created /\ l \in Nat
          BY TaskFacts
        <5> QED BY <5>1 DEF Created
      <4> QED BY <1>1, <4>1 DEF Predecessors
    <3> QED BY <3>2
  <2> QED BY <1>1, <1>8, <2>1 DEF Covered
<1>9. CASE InLane(l, t)'
  <2>1. state[l] \in {Ready, Running}
    BY <1>1, <1>9 DEF InLane
  <2>2. Settled(u, l) \/ InLane(u, l)
    BY <1>7, <2>1 DEF Follows
  <2> QED BY <1>5, <1>6, <2>2
<1>10. CASE Settled(l, t)'
  <2>1. CASE state[l] = Complete
    BY <1>5, <1>7, <2>1 DEF Follows
  <2>2. CASE state[l] < Complete
    BY <1>3, <2>2 DEF Settled
  <2>3. CASE ChainBroken(l, t)'
    <3>1. PICK w \in l + 1 .. t - 1 :
            home'[w] = home'[t] /\ state'[w] < Complete /\ (l \in barriers' => w \in barriers')
      BY <2>3 DEF ChainBroken
    <3>2. w \in Created
      <4>1. created \in Nat /\ l > 0 /\ l \in Nat
        BY TaskFacts
      <4>2. w > 0 /\ w <= created
        BY <1>1, <3>1, <4>1
      <4> QED BY <4>1, <4>2 DEF Created
    <3>3. u < w
      BY <1>1, <3>1
    <3>4. home[w] = q /\ state[w] < Complete /\ (l \in barriers => w \in barriers)
      BY <1>1, <3>1, <3>2
    <3>5. ChainBroken(u, t)'
      BY <1>3, <3>2, <3>3, <3>4
    <3> QED BY <3>5 DEF Settled
  <2> QED BY <1>1, <1>10, <2>1, <2>2, <2>3 DEF Settled
<1> QED BY <1>8, <1>9, <1>10, NamedOnes

(* A new command is linked so that it comes after all it has to.           *)
LEMMA OrderEnqueues ==
  ASSUME PoolInv, OrderInv, NEW q \in Queue, NEW command, NEW W \in SUBSET Created,
         Enqueue(q, command, W)
  PROVE  Order'
<1>0. PICK t : t = created + 1
  OBVIOUS
<1>1. Enqueued(t, q, command, W)
  BY <1>0, EnqueueFacts
<1>2. /\ TypeOK /\ t \in Task /\ t \in Nat /\ t \notin Created /\ Created \subseteq Task
      /\ Created' = Created \cup {t} /\ (\A u \in Created : u < t)
      /\ stack = <<>> /\ stack' = <<>> /\ UNCHANGED <<state, deviceVars>> /\ state[t] = Queued
  BY <1>1 DEF Enqueued
<1>3. /\ \A u \in Created : home'[u] = home[u] /\ waitList'[u] = waitList[u] /\ waitOn'[u] = waitOn[u]
      /\ \A u \in Created : u \in barriers' <=> u \in barriers
      /\ \A u \in Created : u \in sweeping' <=> u \in sweeping
      /\ home'[t] = q /\ waitList'[t] = W /\ (t \in sweeping' <=> command # "task" /\ W = {})
      /\ q # NoQueue
  <2>1. t \notin barriers /\ t \notin sweeping
    BY <1>2 DEF TypeOK
  <2> QED BY <1>1, <1>2, <2>1, TaskPoolAssumption DEF Enqueued
<1>4. SameTasks /\ Forward
  BY <1>2, <1>3 DEF SameTasks, Forward
<1>5. LineKept
  BY <1>2, DevicesStay
<1>6. \A u \in Created : Unmoved(u)
  BY <1>2, <1>3, StillUnmoved
<1>7. DeviceOfTask(t)' = DeviceOf[q]
  BY <1>3 DEF DeviceOfTask
<1>8. \A u \in W : u \in Created
  OBVIOUS
<1>9. Order /\ Lasts
  BY DEF OrderInv
<1>10. ASSUME NEW u \in Predecessors(t)'
       PROVE  Settled(u, t)' \/ InLane(u, t)' \/ Covered(u, t)'
  <2>1. u \in Created
    <3>1. created \in Nat
      BY <1>2 DEF TypeOK
    <3>2. 1 .. t - 1 \subseteq Created
      BY <1>0, <3>1 DEF Created
    <3> QED BY <1>3, <1>10, <3>2 DEF Predecessors
  <2>2. ASSUME u \in Named(q, command, W)
        PROVE  Settled(u, t)' \/ InLane(u, t)' \/ Covered(u, t)'
    BY <1>1, <2>1, <2>2, NamedOnes DEF Covered
  <2>3. CASE u \in W
    <3>1. u \in Named(q, command, W)
      BY <2>3 DEF Named
    <3> QED BY <2>2, <3>1
  <2>4. CASE u \notin W /\ Finished(u)
    <3>1. state[u] \in Int
      BY <2>1, TaskFacts
    <3>2. state[u] = Complete \/ state[u] < Complete
      BY <2>4, <3>1, StatusOrder DEF Finished
    <3> QED BY <1>2, <1>3, <2>4, <3>2 DEF Settled
  <2>5. CASE u \notin W /\ ~Finished(u)
    <3>1. home[u] = q /\ (q \notin OutOfOrder \/ t \in sweeping' \/ u \in barriers)
      BY <1>3, <1>10, <2>1, <2>5 DEF Predecessors
    <3>2. u \in Nat /\ u > 0 /\ NoTask = 0
      BY <2>1, TaskFacts DEF NoTask
    <3>3. CASE t \in sweeping'
      <4>1. u \in ToSet(queued[q]) \/ u \in outstanding[q]
        <5>1. /\ state[u] \in Int /\ state[u] <= Ready /\ u \in Task
          BY <2>1, TaskFacts
        <5>2. state[u] = Queued \/ state[u] \in {Submitted, Ready, Running}
          BY <2>5, <5>1, StatusOrder DEF Finished
        <5>3. state[u] = Queued => u \in ToSet(queued[q])
          BY <3>1, <5>1 DEF PoolInv, QueueInv, QueuedInQueue
        <5>4. state[u] \in {Submitted, Ready, Running} => u \in outstanding[q]
          BY <3>1, <5>1 DEF PoolInv, Places
        <5> QED BY <5>2, <5>3, <5>4
      <4>2. u \in Named(q, command, W)
        BY <1>3, <3>2, <3>3, <4>1 DEF Named, AllTasksOf
      <4> QED BY <2>2, <4>2
    <3>4. ASSUME command = "task" \/ W # {},
                 NEW l \in {lastTask[q], lastBarrier[q]} \ {NoTask},
                 u <= l, u \in barriers => l \in barriers,
                 q \notin OutOfOrder \/ u \in barriers
          PROVE  Settled(u, t)' \/ InLane(u, t)' \/ Covered(u, t)'
      <4>1. l \in Named(q, command, W)
        BY DEF Named
      <4>2. l \in Created /\ home[l] = q
        BY <3>4, HeldTasks
      <4>3. l \in Nat
        BY <4>2, TaskFacts
      <4>4. CASE u = l
        BY <2>2, <4>1, <4>4
      <4>5. CASE u # l
        <5>1. u < l /\ u \in 1 .. l - 1
          BY <3>2, <3>4, <4>3, <4>5
        <5>2. u \in Predecessors(l)
          BY <1>3, <3>1, <3>4, <4>2, <5>1 DEF Predecessors
        <5> QED BY <1>0, <1>1, <1>9, <2>1, <2>5, <3>4, <4>1, <4>2, <5>1, <5>2, LinkedBehind
      <4> QED BY <4>4, <4>5
    <3>5. ASSUME command = "task" \/ W # {}, NEW S, S \subseteq Created, Failed(u, q, S),
                 u \in barriers => S = barriers
          PROVE  Settled(u, t)'
      <4>1. PICK w \in S : u < w /\ home[w] = q /\ state[w] < Complete
        BY <3>5 DEF Failed
      <4>2. w \in Created /\ w \in Nat
        BY <3>5, TaskFacts
      <4>3. w \in u + 1 .. t - 1
        BY <1>2, <3>2, <4>1, <4>2
      <4>4. home'[w] = home'[t] /\ state'[w] < Complete /\ (u \in barriers' => w \in barriers')
        BY <1>2, <1>3, <2>1, <3>5, <4>1, <4>2
      <4>5. ChainBroken(u, t)'
        BY <1>3, <2>5, <3>5, <4>3, <4>4 DEF ChainBroken
      <4> QED BY <4>5 DEF Settled
    <3>6. CASE (command = "task" \/ W # {}) /\ u \in barriers
      <4>1. CASE lastBarrier[q] = NoTask
        <5>1. Failed(u, q, barriers) /\ barriers \subseteq Created
          BY <1>2, <1>9, <2>5, <3>1, <3>6, <4>1 DEF Lasts, TypeOK
        <5> QED BY <3>5, <3>6, <5>1
      <4>2. CASE lastBarrier[q] # NoTask
        <5>1. lastBarrier[q] \in barriers /\ u <= lastBarrier[q]
          BY <1>9, <3>1, <3>6, <4>2 DEF Lasts
        <5> QED BY <3>4, <3>6, <4>2, <5>1
      <4> QED BY <4>1, <4>2
    <3>7. CASE (command = "task" \/ W # {}) /\ u \notin barriers
      <4>0. q \notin OutOfOrder
        BY <1>3, <3>1, <3>7
      <4>1. CASE lastTask[q] = NoTask
        <5>1. Failed(u, q, Created)
          BY <1>9, <2>1, <2>5, <3>1, <4>0, <4>1 DEF Lasts
        <5> QED BY <3>5, <3>7, <5>1
      <4>2. CASE lastTask[q] # NoTask
        <5>1. u <= lastTask[q]
          BY <1>9, <2>1, <3>1, <4>2 DEF Lasts
        <5> QED BY <3>4, <3>7, <4>0, <4>2, <5>1
      <4> QED BY <4>1, <4>2
    <3> QED BY <1>3, <3>3, <3>6, <3>7
  <2> QED BY <2>3, <2>4, <2>5
<1>11. TaskOrder(t)'
  <2>1. state'[t] = Queued
    BY <1>2
  <2> QED BY <1>10, <2>1, StatusOrder DEF TaskOrder, Follows
<1>12. MovesOnly({t})
  BY <1>2, <1>6, <1>11 DEF MovesOnly
<1> QED BY <1>4, <1>5, <1>9, <1>12, OrderKept

-----------------------------------------------------------------------------
(* The last task and the last barrier                                      *)

(* Steps that do not touch them, and that finish tasks only, keep what is  *)
(* known of them.                                                          *)
LEMMA LastsStay ==
  ASSUME PoolInv, Lasts, UNCHANGED <<lastTask, lastBarrier, barriers, home>>,
         \A u \in Created' : u \in Created \/ home[u] = NoQueue, Created \subseteq Created',
         \A u \in Created : Finished(u) => state'[u] = state[u]
  PROVE  Lasts'
<1>1. barriers \subseteq Created /\ \A u \in Created : state[u] \in Int
  <2>1. TypeOK
    BY DEF PoolInv, QueueInv, TypeInv
  <2> QED BY <2>1, TaskFacts DEF TypeOK
<1>2. \A u \in Created : ~Finished(u)' => ~Finished(u)
  BY DEF Finished
<1>3. \A u \in Created : state[u] < Complete => state'[u] < Complete
  BY <1>1, StatusOrder DEF Finished
<1>4. \A u, q : Failed(u, q, Created) => Failed(u, q, Created)'
  BY <1>3 DEF Failed
<1>5. \A u, q : Failed(u, q, barriers) => Failed(u, q, barriers)'
  BY <1>1, <1>3 DEF Failed
<1>6. \A q \in Queue : q # NoQueue
  BY TaskPoolAssumption
<1>7. \A q \in Queue : \A u \in Created' : home'[u] = q => u \in Created /\ home[u] = q
  BY <1>6
<1> QED BY <1>1, <1>2, <1>4, <1>5, <1>7 DEF Lasts

(* When the last one ends, all older ones have ended, or are cut off.      *)
LEMMA LastsEnds ==
  ASSUME PoolInv, Lasts, Order', NEW t \in Created, NEW e \in Error, Ends(t, e)
  PROVE  Lasts'
<1>1. /\ TypeOK /\ Created \subseteq Task /\ barriers \subseteq Created
      /\ UNCHANGED <<created, home, barriers, waitList, sweeping>> /\ Created' = Created
      /\ \A u \in Created : u \in Nat /\ u > 0 /\ state[u] \in Int
      /\ created \in Nat
  <2>1. TypeOK /\ Created \subseteq Task
    BY CreatedTasks DEF PoolInv, QueueInv, TypeInv
  <2> QED BY <2>1, TaskFacts DEF TypeOK, Ends, taskVars, Created
<1>2. /\ \A u \in Created : state'[u] = IF u = t THEN e ELSE state[u]
      /\ \A q \in Queue :
           /\ lastTask'[q] = IF lastTask[q] = t THEN NoTask ELSE lastTask[q]
           /\ lastBarrier'[q] = IF lastBarrier[q] = t THEN NoTask ELSE lastBarrier[q]
      /\ ~Finished(t)
  BY <1>1 DEF Ends, NotifyTaskCompletion, TypeOK
<1>3. Finished(t)' /\ (e = Complete \/ e < Complete)
  <2>1. e <= Complete /\ e \in Int /\ Complete \in Int
    BY StatusOrder
  <2> QED BY <1>2, <2>1 DEF Finished
<1>4. \A u \in Created : ~Finished(u)' => ~Finished(u) /\ u # t
  BY <1>2, <1>3 DEF Finished
<1>5. \A u \in Created : state[u] < Complete => state'[u] < Complete
  BY <1>1, <1>2, StatusOrder DEF Finished
<1>6. /\ \A u, q : Failed(u, q, Created) => Failed(u, q, Created)'
      /\ \A u, q : Failed(u, q, barriers) => Failed(u, q, barriers)'
  BY <1>1, <1>5 DEF Failed
<1>7. ASSUME NEW q \in Queue, home[t] = q, NEW u \in Created, home[u] = q, ~Finished(u)', u <= t,
             q \notin OutOfOrder \/ u \in barriers
      PROVE  /\ Failed(u, q, Created)'
             /\ u \in barriers /\ t \in barriers => Failed(u, q, barriers)'
  <2>1. u < t
    BY <1>1, <1>4, <1>7
  <2>2. CASE e < Complete
    BY <1>1, <1>2, <1>7, <2>1, <2>2 DEF Failed
  <2>3. CASE e = Complete
    <3>1. u \in Predecessors(t)'
      <4>1. u \in 1 .. t - 1 /\ q # NoQueue
        BY <1>1, <2>1, TaskPoolAssumption
      <4> QED BY <1>1, <1>7, <4>1 DEF Predecessors
    <3>2. Settled(u, t)'
      <4>1. Follows(t, u)'
        BY <1>1, <3>1 DEF Order, TaskOrder
      <4> QED BY <1>2, <2>3, <4>1 DEF Follows
    <3>3. ChainBroken(u, t)'
      <4>1. ~(state'[u] <= Complete) /\ state'[u] \in Int
        BY <1>1, <1>2, <1>4, <1>7 DEF Finished
      <4>2. ~(state'[u] = Complete) /\ ~(state'[u] < Complete)
        BY <4>1, StatusOrder
      <4> QED BY <3>2, <4>2 DEF Settled
    <3>4. PICK w \in u + 1 .. t - 1 :
            home'[w] = home'[t] /\ state'[w] < Complete /\ (u \in barriers' => w \in barriers')
      BY <3>3 DEF ChainBroken
    <3>5. w \in Created /\ u < w
      <4>1. t <= created
        BY TaskFacts
      <4> QED BY <1>1, <3>4, <4>1 DEF Created
    <3> QED BY <1>1, <1>7, <3>4, <3>5 DEF Failed
  <2> QED BY <1>3, <2>2, <2>3
<1>8. ASSUME NEW q \in Queue
      PROVE  /\ q \in OutOfOrder => lastTask'[q] = NoTask
             /\ lastTask'[q] # NoTask => \A u \in Created : home[u] = q => u <= lastTask'[q]
             /\ lastBarrier'[q] # NoTask =>
                  /\ lastBarrier'[q] \in barriers
                  /\ \A u \in barriers : home[u] = q => u <= lastBarrier'[q]
  BY <1>2 DEF Lasts
<1>9. ASSUME NEW q \in Queue, q \notin OutOfOrder, lastTask'[q] = NoTask,
             NEW u \in Created, home[u] = q, ~Finished(u)'
      PROVE  Failed(u, q, Created)'
  <2>1. CASE lastTask[q] = NoTask
    BY <1>4, <1>6, <1>9, <2>1 DEF Lasts
  <2>2. CASE lastTask[q] = t /\ lastTask[q] # NoTask
    <3>1. u <= t
      BY <1>9, <2>2 DEF Lasts
    <3>2. home[t] = q
      BY <2>2, HeldTasks
    <3> QED BY <1>7, <1>9, <3>1, <3>2
  <2> QED BY <1>2, <1>9, <2>1, <2>2
<1>10. ASSUME NEW q \in Queue, lastBarrier'[q] = NoTask,
              NEW u \in barriers, home[u] = q, ~Finished(u)'
       PROVE  Failed(u, q, barriers)'
  <2>1. CASE lastBarrier[q] = NoTask
    BY <1>1, <1>4, <1>6, <1>10, <2>1 DEF Lasts
  <2>2. CASE lastBarrier[q] = t /\ lastBarrier[q] # NoTask
    <3>1. u <= t /\ t \in barriers
      BY <1>10, <2>2 DEF Lasts
    <3>2. home[t] = q
      BY <2>2, HeldTasks
    <3> QED BY <1>1, <1>7, <1>10, <3>1, <3>2
  <2> QED BY <1>2, <1>10, <2>1, <2>2
<1> QED BY <1>1, <1>8, <1>9, <1>10 DEF Lasts

(* A new command is the last task of an in-order queue, and the last       *)
(* barrier when it is one.                                                 *)
LEMMA LastsEnqueues ==
  ASSUME PoolInv, Lasts, NEW q \in Queue, NEW command, NEW W \in SUBSET Created,
         Enqueue(q, command, W)
  PROVE  Lasts'
<1>0. PICK t : t = created + 1
  OBVIOUS
<1>1. Enqueued(t, q, command, W)
  BY <1>0, EnqueueFacts
<1>2. /\ TypeOK /\ Created \subseteq Task /\ t \in Nat /\ t \notin Created /\ barriers \subseteq Created
      /\ Created' = Created \cup {t} /\ (\A u \in Created : u < t) /\ UNCHANGED state
      /\ home'[t] = q /\ \A u \in Created : home'[u] = home[u]
      /\ barriers' = IF command = "barrier" THEN barriers \cup {t} ELSE barriers
      /\ \A p \in Queue :
           /\ lastTask'[p] = IF p = q /\ q \notin OutOfOrder THEN t ELSE lastTask[p]
           /\ lastBarrier'[p] = IF p = q /\ command = "barrier" THEN t ELSE lastBarrier[p]
      /\ t # NoTask
  <2>1. t \in Task /\ 0 \notin Task
    BY <1>1 DEF Enqueued, Task
  <2> QED BY <1>1, <2>1 DEF Enqueued, TypeOK, NoTask
<1>3. \A u \in Created : u \in Nat /\ u <= t
  BY <1>2, TaskFacts
<1>4. \A u : Finished(u)' <=> Finished(u)
  BY <1>2 DEF Finished
<1>5. /\ \A u, p : Failed(u, p, Created) => Failed(u, p, Created)'
      /\ \A u, p : Failed(u, p, barriers) => Failed(u, p, barriers)'
  BY <1>2 DEF Failed
<1>6. ASSUME NEW p \in Queue, lastTask'[p] # NoTask, NEW u \in Created', home'[u] = p
      PROVE  u <= lastTask'[p]
  <2>1. CASE p = q /\ q \notin OutOfOrder
    BY <1>2, <1>3, <1>6, <2>1
  <2>2. CASE p = q /\ q \in OutOfOrder
    BY <1>2, <1>6, <2>2 DEF Lasts
  <2>3. CASE p # q
    BY <1>2, <1>6, <2>3 DEF Lasts
  <2> QED BY <2>1, <2>2, <2>3
<1>7. ASSUME NEW p \in Queue, lastBarrier'[p] # NoTask
      PROVE  /\ lastBarrier'[p] \in barriers'
             /\ \A u \in barriers' : home'[u] = p => u <= lastBarrier'[p]
  <2>1. CASE p = q /\ command = "barrier"
    BY <1>2, <1>3, <1>7, <2>1
  <2>2. CASE ~(p = q /\ command = "barrier")
    <3>1. /\ lastBarrier'[p] = lastBarrier[p] /\ lastBarrier[p] \in barriers
          /\ \A u \in barriers : home[u] = p => u <= lastBarrier[p]
      BY <1>2, <1>7, <2>2 DEF Lasts
    <3>2. \A u \in barriers' : home'[u] = p => u \in barriers /\ home[u] = p
      BY <1>2, <2>2
    <3> QED BY <1>2, <3>1, <3>2
  <2> QED BY <2>1, <2>2
<1>8. ASSUME NEW p \in Queue, p \notin OutOfOrder, lastTask'[p] = NoTask,
             NEW u \in Created', home'[u] = p, ~Finished(u)'
      PROVE  Failed(u, p, Created)'
  <2>1. p # q /\ u \in Created /\ lastTask[p] = NoTask
    BY <1>2, <1>8
  <2> QED BY <1>2, <1>4, <1>5, <1>8, <2>1 DEF Lasts
<1>9. ASSUME NEW p \in Queue, lastBarrier'[p] = NoTask,
             NEW u \in barriers', home'[u] = p, ~Finished(u)'
      PROVE  Failed(u, p, barriers)'
  <2>1. ~(p = q /\ command = "barrier") /\ lastBarrier[p] = NoTask
    BY <1>2, <1>9
  <2>2. u \in barriers /\ home[u] = p
    BY <1>2, <1>9, <2>1
  <2> QED BY <1>4, <1>5, <1>9, <2>1, <2>2 DEF Lasts
<1>10. \A p \in Queue : p \in OutOfOrder => lastTask'[p] = NoTask
  BY <1>2 DEF Lasts
<1> QED BY <1>6, <1>7, <1>8, <1>9, <1>10 DEF Lasts

-----------------------------------------------------------------------------
(* The invariant                                                           *)

(* Every step of the lock holder keeps what is known of the last ones.     *)
LEMMA LastsLockHolder ==
  ASSUME PoolInv, OrderInv, LockStep
  PROVE  Lasts'
<1>1. LockEffect /\ Order' /\ Order /\ Lasts
  BY LockEffects, OrderLockHolder DEF OrderInv
<1>2. CASE \E t \in Created, e \in Error : Ends(t, e)
  BY <1>1, <1>2, LastsEnds
<1>3. ASSUME UNCHANGED <<taskVars, lastTask, lastBarrier>>,
             \A u \in Created : Finished(u) => state'[u] = state[u]
      PROVE  Lasts'
  <2>1. Created' = Created
    BY <1>3, TasksStay
  <2> QED BY <1>1, <1>3, <2>1, LastsStay DEF taskVars
<1>4. CASE Quiet \/ (\E S : Flushes(S)) \/ (\E t \in Created : Clears(t))
  BY <1>3, <1>4 DEF Quiet, Flushes, Clears, queueVars
<1>5. TypeOK /\ Created \subseteq Task
  BY CreatedTasks DEF PoolInv, QueueInv, TypeInv
<1>6. CASE \E q \in Queue, t \in Created : Submits(t, q) \/ SubmitsReady(t, q)
  <2>1. PICK q \in Queue, t \in Created : Submits(t, q) \/ SubmitsReady(t, q)
    BY <1>6
  <2>2. Leaves(t, q) /\ UNCHANGED taskVars
    BY <2>1 DEF Submits, SubmitsReady, TurnsReady
  <2>3. state[t] = Queued
    BY <2>2, Oldest, Zenon
  <2>4. \A u \in Created : Finished(u) => state'[u] = state[u]
    <3>1. ~Finished(t)
      BY <2>3, StatusOrder DEF Finished
    <3>2. \A u \in Created : u # t => state'[u] = state[u]
      BY <1>5, <2>1 DEF Submits, SubmitsReady, TurnsReady, TypeOK
    <3> QED BY <3>1, <3>2
  <2> QED BY <1>3, <2>2, <2>4 DEF Leaves
<1>7. CASE \E v, d \in Created : Releases(v, d) \/ ReleasesLast(v, d)
  <2>1. PICK v, d \in Created : Releases(v, d) \/ ReleasesLast(v, d)
    BY <1>7
  <2>2. \A u \in Created : Finished(u) => state'[u] = state[u]
    <3>1. CASE Releases(v, d)
      BY <3>1 DEF Releases
    <3>2. CASE ReleasesLast(v, d)
      <4>1. ~Finished(d)
        BY <3>2, StatusOrder DEF ReleasesLast, Finished
      <4>2. \A u \in Created : u # d => state'[u] = state[u]
        BY <1>5, <3>2 DEF ReleasesLast, TurnsReady, TypeOK
      <4> QED BY <4>1, <4>2
    <3> QED BY <2>1, <3>1, <3>2
  <2> QED BY <1>3, <2>1, <2>2 DEF Releases, ReleasesLast, TurnsReady, queueVars
<1> QED BY <1>1, <1>2, <1>4, <1>6, <1>7 DEF LockEffect

(* So do the steps taken while nobody holds the lock, and the order.       *)
LEMMA OrderOthers ==
  ASSUME PoolInv, OrderInv, [Next]_vars, ~LockHolder
  PROVE  OrderInv'
<1>1. Order /\ Lasts /\ TypeOK /\ Created \subseteq Task
  BY CreatedTasks DEF OrderInv, PoolInv, QueueInv, TypeInv
<1>2. CASE CreateUserEvent
  <2>1. PICK t : t = created + 1
    OBVIOUS
  <2>2. /\ created \in Nat /\ created' = t /\ t \in Task /\ t > created
        /\ state' = [state EXCEPT ![t] = Submitted]
        /\ UNCHANGED <<home, barriers, lastTask, lastBarrier>>
    <3>1. created \in Nat /\ created < NumTasks /\ NumTasks \in Nat
      BY <1>1, <1>2, TaskPoolAssumption DEF TypeOK, CreateUserEvent
    <3> QED BY <1>2, <2>1, <3>1 DEF CreateUserEvent, queueVars, Task
  <2>3. Created' = Created \cup {t} /\ t \notin Created
    BY <2>1, <2>2 DEF Created
  <2>4. home[t] = NoQueue
    BY <2>2 DEF PoolInv, Uncreated
  <2>5. \A u \in Created : state'[u] = state[u]
    BY <1>1, <2>2, <2>3 DEF TypeOK
  <2>6. Lasts'
    BY <1>1, <2>2, <2>3, <2>4, <2>5, LastsStay
  <2> QED BY <1>1, <1>2, <2>6, OrderCreates DEF OrderInv
<1>3. CASE \E q \in Queue, W \in SUBSET Created : \E command : Enqueue(q, command, W)
  BY <1>1, <1>3, OrderEnqueues, LastsEnqueues DEF OrderInv
<1>4. ASSUME NEW u \in Created, NEW s \in Error, SetsEvent(u, s), Ending(stack') = Ending(stack)
      PROVE  OrderInv'
  <2>1. Order'
    BY <1>1, <1>4, OrderSetsEvent
  <2> QED BY <1>1, <1>4, <2>1, LastsEnds DEF OrderInv, SetsEvent
<1>5. ASSUME UNCHANGED <<taskVars, lastTask, lastBarrier>>,
             \A u \in Created : Finished(u) => state'[u] = state[u]
      PROVE  Lasts'
  <2>1. Created' = Created
    BY <1>5, TasksStay
  <2> QED BY <1>1, <1>5, <2>1, LastsStay DEF taskVars
<1>6. ASSUME NEW d \in Device, Record(d)
      PROVE  OrderInv'
  <2>1. PICK t \in Created : t = Head(execQ[d])[recorded[d] + 1] /\ state[t] = Ready
    BY <1>6, NextToRecord DEF Record
  <2>2. ~Finished(t) /\ \A u \in Created : u # t => state'[u] = state[u]
    BY <1>1, <1>6, <2>1, StatusOrder DEF Record, TypeOK, Finished
  <2>3. Lasts'
    BY <1>5, <1>6, <2>2 DEF Record, queueVars
  <2> QED BY <1>1, <1>6, <2>3, OrderRecord DEF OrderInv
<1>7. ASSUME NEW d \in Device, SubmitExecution(d) \/ CompleteSubmission(d)
      PROVE  OrderInv'
  <2>1. LineKept
    BY <1>7, SubmitExecutionSameLanes, LineStays, CompletionLine
  <2>2. UNCHANGED <<taskVars, state, waitOn, lastTask, lastBarrier>>
    BY <1>7 DEF SubmitExecution, CompleteSubmission, queueVars, depVars
  <2> QED BY <1>1, <1>5, <2>1, <2>2, OrderQuiet DEF OrderInv
<1>8. ASSUME UNCHANGED <<taskVars, state, depVars, queueVars, deviceVars>>,
             UNCHANGED stack \/ (stack = <<>> /\ Ending(stack') = Ending(stack))
      PROVE  OrderInv'
  <2>1. LineKept
    BY <1>8, DevicesStay
  <2> QED BY <1>1, <1>5, <1>8, <2>1, OrderQuiet DEF OrderInv, queueVars, depVars
<1> QED BY <1>2, <1>3, <1>4, <1>6, <1>7, <1>8, IdleSteps

(* The order is an invariant.                                              *)
LEMMA OrderInvariant == ~RecordMayFail /\ Spec => []OrderInv
<1>1. Init => OrderInv
  <2> SUFFICES ASSUME Init PROVE OrderInv
    OBVIOUS
  <2>1. Created = {} /\ barriers = {}
    BY DEF Init, Created
  <2> QED BY <2>1 DEF Init, OrderInv, Order, Lasts
<1>2. PoolInv /\ OrderInv /\ [Next]_vars => OrderInv'
  <2> SUFFICES ASSUME PoolInv, OrderInv, [Next]_vars
               PROVE  OrderInv'
    OBVIOUS
  <2>1. CASE LockHolder
    <3>1. LockStep
      BY <2>1, LockSteps DEF PoolInv, QueueInv
    <3> QED BY <3>1, OrderLockHolder, LastsLockHolder DEF OrderInv
  <2>2. CASE ~LockHolder
    BY <2>2, OrderOthers
  <2> QED BY <2>1, <2>2
<1> QED BY <1>1, <1>2, PoolInvariant, PTL DEF Spec

-----------------------------------------------------------------------------
(* What the order means                                                    *)

(* Whatever is ahead of a recorded task has been recorded, and is running. *)
LEMMA AheadPassed ==
  ASSUME PoolInv, NEW d \in Device, NEW u \in Created, NEW t \in Created, NEW i \in Nat,
         NEW j \in Nat, NEW k \in Nat, NEW l \in Nat, At(d, i, j, u), At(d, k, l, t),
         i < k \/ (i = k /\ j < l), Passed(d, k, l) \/ (k = Len(completionQ[d]) + 2 /\ l = recorded[d] + 1)
  PROVE  state[u] = Running
<1>1. /\ TypeOK /\ Created \subseteq Task
      /\ Len(completionQ[d]) \in Nat /\ recorded[d] \in Nat
  <2>1. TypeOK /\ Created \subseteq Task
    BY CreatedTasks DEF PoolInv, QueueInv, TypeInv
  <2> QED BY <2>1, LaneTypes
<1>2. PICK c, r \in Nat : c = Len(completionQ[d]) /\ r = recorded[d]
  BY <1>1
<1>3. k <= c + 1 \/ (k = c + 2 /\ l <= r + 1)
  <2>1. Passed(d, k, l) => k <= c + 1 \/ (k = c + 2 /\ l <= r)
    BY <1>2 DEF Passed
  <2>2. l <= r => l <= r + 1
    OBVIOUS
  <2> QED BY <1>2, <2>1, <2>2
<1>4. i <= c + 1 \/ (i = c + 2 /\ j <= r)
  BY <1>3
<1>5. Passed(d, i, j)
  BY <1>2, <1>4 DEF Passed
<1> QED BY <1>1, <1>5 DEF PoolInv, Lanes

(* So the order is the one promised.                                       *)
LEMMA InvInOrder ==
  ASSUME PoolInv, OrderInv
  PROVE  StartsInOrder
<1> SUFFICES ASSUME NEW t \in Created, Started(t), NEW u \in Predecessors(t)
             PROVE  Finished(u) \/ (DeviceOfTask(u) = DeviceOfTask(t) /\ state[u] = Running)
                      \/ ChainBroken(u, t)
  BY DEF StartsInOrder
<1>1. TypeOK /\ Created \subseteq Task /\ TaskOrder(t)
  BY CreatedTasks DEF OrderInv, Order, PoolInv, QueueInv, TypeInv
<1>2. u \in Created
  BY PredecessorsCreated
<1>3. Follows(t, u)
  BY <1>1 DEF TaskOrder
<1>4. Settled(u, t) => Finished(u) \/ ChainBroken(u, t)
  <2>1. state[u] \in Int
    BY <1>2, TaskFacts
  <2>2. state[u] = Complete \/ state[u] < Complete => Finished(u)
    BY <2>1, StatusOrder DEF Finished
  <2> QED BY <2>2 DEF Settled
<1>5. CASE Settled(u, t)
  BY <1>4, <1>5
<1>6. CASE state[t] = Running /\ InLane(u, t) /\ Before(DeviceOfTask(t), u, t)
  <2>1. PICK d \in Device : d = DeviceOfTask(t)
    BY <1>1, <1>6, HasDevice
  <2>2. PICK i, j, k, l \in Nat :
          At(d, i, j, u) /\ At(d, k, l, t) /\ (i < k \/ (i = k /\ j < l))
    BY <1>6, <2>1 DEF Before
  <2>3. Passed(d, k, l)
    <3>1. ~Passed(d, k, l) => state[t] = Ready
      BY <1>1, <2>2 DEF PoolInv, Lanes
    <3>2. Running # Ready
      BY StatusOrder
    <3> QED BY <1>6, <3>1, <3>2
  <2>4. state[u] = Running
    BY <1>2, <2>2, <2>3, AheadPassed
  <2> QED BY <1>6, <2>4 DEF InLane
<1> QED BY <1>3, <1>5, <1>6 DEF Follows, Started

(* Tasks start in order.  Whatever the queues, the devices and what is     *)
(* enqueued, and however its threads interleave: a task is recorded, and   *)
(* completed, only after each task it has to come after has been recorded  *)
(* before it on the same device or has finished, or a failure between the  *)
(* two has broken the chain that links them.                               *)
THEOREM TasksStartInOrder == ~RecordMayFail /\ Spec => []StartsInOrder
<1>1. PoolInv /\ OrderInv => StartsInOrder
  BY InvInOrder
<1> QED BY <1>1, PoolInvariant, OrderInvariant, PTL

(* A failure reaches all that waits.  When no wait list names an event     *)
(* that has finished already, a task reported complete had a wait list of  *)
(* complete events only: no interleaving loses an error on its way through *)
(* Task::Complete and Task::Ready.                                         *)
THEOREM FailuresReachWaiters ==
  ASSUME ~StaleWaits
  PROVE  ~RecordMayFail /\ Spec => []SuccessNeedsSuccess
<1>1. PoolInv /\ OrderInv => SuccessNeedsSuccess
  <2> SUFFICES ASSUME PoolInv, OrderInv, NEW t \in Created, state[t] = Complete,
                      NEW u \in waitList[t] \cap Created
               PROVE  state[u] = Complete
    BY DEF SuccessNeedsSuccess
  <2>1. u \in Predecessors(t)
    BY DEF Predecessors
  <2>2. Settled(u, t)
    BY <2>1 DEF OrderInv, Order, TaskOrder, Follows
  <2> QED BY <2>2 DEF Settled, ChainBroken
<1> QED BY <1>1, PoolInvariant, OrderInvariant, PTL

-----------------------------------------------------------------------------
(* The promise made to the application *)

\* No failure has unlinked a task from one it has to come after.
ChainsUnbroken == \A t \in Created : \A u \in Predecessors(t) : ~ChainBroken(u, t)

\* The step is seen as t's getting status s.
Shows(t, s) ==
  /\ Promise!Becomes(t, s)
  /\ UNCHANGED [u \in Task |-> IF u > created THEN {} ELSE Predecessors(u)]

(* Which states are seen as which status.                                  *)
LEMMA StatusSeen ==
  ASSUME NEW s \in Int
  PROVE  /\ s = Queued => Seen(s) = "queued"
         /\ s \in {Submitted, Ready} => Seen(s) = "submitted"
         /\ s = Running => Seen(s) = "running"
         /\ s = Complete => Seen(s) = "complete"
         /\ s < Complete => Seen(s) = "failed"
         /\ Seen(s) # "none"
BY StatusOrder DEF Seen

(* A task that exists is seen in its state.                                *)
LEMMA SeenInState ==
  ASSUME PoolInv
  PROVE  /\ \A t \in Created : VisibleStatus(t) = Seen(state[t])
         /\ \A t \in Task : t \notin Created => t > created /\ VisibleStatus(t) = "none"
<1>1. created \in Nat /\ Task \subseteq Nat \ {0}
  BY DEF PoolInv, QueueInv, TypeInv, TypeOK, Task
<1>2. \A t \in Task : t \in Created <=> ~(t > created)
  BY <1>1 DEF Created
<1>3. Created \subseteq Task
  BY CreatedTasks DEF PoolInv, QueueInv, TypeInv
<1>4. ASSUME NEW t \in Created PROVE VisibleStatus(t) = Seen(state[t])
  <2>1. ~(t > created)
    BY <1>2, <1>3
  <2> QED BY <2>1 DEF VisibleStatus
<1>5. ASSUME NEW t \in Task, t \notin Created PROVE t > created /\ VisibleStatus(t) = "none"
  <2>1. t > created
    BY <1>2, <1>5
  <2> QED BY <2>1 DEF VisibleStatus
<1> QED BY <1>4, <1>5

(* While no event is created, what is visible follows the states.          *)
LEMMA VisibleFollows ==
  ASSUME PoolInv, UNCHANGED taskVars
  PROVE  /\ \A t \in Task : VisibleStatus(t)' =
              IF t \in Created THEN Seen(state'[t]) ELSE VisibleStatus(t)
         /\ UNCHANGED [t \in Task |-> IF t > created THEN {} ELSE Predecessors(t)]
<1>1. created' = created /\ \A t \in Task : t \in Created <=> ~(t > created)
  <2>1. created \in Nat /\ Task \subseteq Nat \ {0}
    BY DEF PoolInv, QueueInv, TypeInv, TypeOK, Task
  <2> QED BY <2>1 DEF taskVars, Created
<1>2. ASSUME NEW t \in Task
      PROVE  VisibleStatus(t)' = IF t \in Created THEN Seen(state'[t]) ELSE VisibleStatus(t)
  <2>1. CASE t \in Created
    <3>1. ~(t > created)'
      BY <1>1, <2>1
    <3> QED BY <2>1, <3>1 DEF VisibleStatus
  <2>2. CASE t \notin Created
    <3>1. (t > created)' /\ t > created
      BY <1>1, <2>2
    <3> QED BY <2>2, <3>1 DEF VisibleStatus
  <2> QED BY <2>1, <2>2
<1>3. \A t \in Task : Predecessors(t)' = Predecessors(t)
  BY DEF Predecessors, taskVars
<1> QED BY <1>1, <1>2, <1>3

(* A step that changes no status is a stuttering step.                     *)
LEMMA NothingSeen ==
  ASSUME PoolInv, UNCHANGED taskVars, \A t \in Created : Seen(state'[t]) = Seen(state[t])
  PROVE  UNCHANGED Promise!vars
<1>1. \A t \in Task : VisibleStatus(t)' = VisibleStatus(t)
  BY VisibleFollows, SeenInState
<1> QED BY <1>1, VisibleFollows DEF Promise!vars

(* A step that moves one task changes its status.                          *)
LEMMA OneSeen ==
  ASSUME PoolInv, UNCHANGED taskVars, NEW t \in Created, NEW s, state' = [state EXCEPT ![t] = s]
  PROVE  Shows(t, Seen(s))
<1>1. state \in [Task -> Status] /\ t \in Task /\ Created \subseteq Task
  BY TaskFacts, CreatedTasks DEF TypeOK
<1>2. \A u \in Task : VisibleStatus(u)' = IF u = t THEN Seen(s) ELSE VisibleStatus(u)
  BY <1>1, VisibleFollows, SeenInState
<1>3. [u \in Task |-> VisibleStatus(u)]' = [[u \in Task |-> VisibleStatus(u)] EXCEPT ![t] = Seen(s)]
  BY <1>1, <1>2
<1> QED BY <1>3, VisibleFollows DEF Shows, Promise!Becomes

(* A task given to its device has nothing of its predecessors before it in *)
(* the lane that has not been recorded, when it is its turn.               *)
LEMMA StartSeen ==
  ASSUME PoolInv, OrderInv, ChainsUnbroken, NEW d \in Device, Record(d)
  PROVE  Promise!Next
<1>1. /\ execQ[d] # <<>> /\ recorded[d] < Len(Head(execQ[d])) /\ UNCHANGED taskVars
      /\ Order /\ TypeOK
  BY DEF Record, OrderInv, PoolInv, QueueInv, TypeInv
<1>2. PICK t \in Created :
        /\ t = Head(execQ[d])[recorded[d] + 1] /\ state[t] = Ready
        /\ At(d, Len(completionQ[d]) + 2, recorded[d] + 1, t)
  BY <1>1, NextToRecord
<1>3. state' = [state EXCEPT ![t] = Running] /\ t \in Task
  BY <1>2, TaskFacts DEF Record
<1>4. Shows(t, "running")
  <2>1. Seen(Running) = "running"
    BY StatusSeen, StatusOrder
  <2>2. Shows(t, Seen(Running))
    BY <1>1, <1>3, OneSeen
  <2> QED BY <2>1, <2>2
<1>5. VisibleStatus(t) = "submitted" /\ ~(t > created)
  BY <1>2, TaskFacts, SeenInState, StatusSeen
<1>6. ASSUME NEW u \in Predecessors(t)
      PROVE  u \in Task /\ VisibleStatus(u) \in Promise!Begun
  <2>1. u \in Created /\ u \in Task
    BY <1>6, TaskFacts, PredecessorsCreated
  <2>2. VisibleStatus(u) = Seen(state[u]) /\ state[u] \in Int
    BY <2>1, SeenInState, TaskFacts
  <2>3. CASE Settled(u, t)
    <3>1. state[u] = Complete \/ state[u] < Complete
      BY <1>6, <2>3 DEF Settled, ChainsUnbroken
    <3> QED BY <2>1, <2>2, <3>1, StatusSeen DEF Promise!Begun
  <2>4. CASE InLane(u, t) /\ Before(DeviceOfTask(t), u, t)
    <3>1. PICK e \in Device : e = DeviceOfTask(t)
      BY <1>2, <1>3, HasDevice
    <3>2. PICK i, j, k, l \in Nat :
            At(e, i, j, u) /\ At(e, k, l, t) /\ (i < k \/ (i = k /\ j < l))
      BY <2>4, <3>1 DEF Before
    <3>3. PICK c, r \in Nat : c = Len(completionQ[d]) /\ r = recorded[d]
      BY <1>1, LaneTypes
    <3>4. PICK m, n \in Nat : m = c + 2 /\ n = r + 1
      BY <3>3
    <3>5. e = d /\ k = m /\ l = n
      <4>1. At(d, m, n, t) /\ m # 1
        BY <1>2, <3>3, <3>4
      <4>2. DeviceOfTask(t) = d
        BY <1>3, <4>1 DEF PoolInv, Lanes
      <4>3. e = d /\ At(d, k, l, t)
        BY <3>1, <3>2, <4>2
      <4> QED BY <1>3, <4>1, <4>3 DEF PoolInv, Lanes
    <3>6. k = Len(completionQ[d]) + 2 /\ l = recorded[d] + 1
      BY <3>3, <3>4, <3>5
    <3>7. state[u] = Running
      BY <2>1, <3>2, <3>5, <3>6, AheadPassed
    <3>8. Seen(state[u]) = "running"
      BY <3>7, StatusSeen, StatusOrder
    <3> QED BY <2>1, <2>2, <3>8 DEF Promise!Begun
  <2>5. Follows(t, u)
    BY <1>1, <1>6 DEF Order, TaskOrder
  <2> QED BY <1>2, <2>3, <2>4, <2>5 DEF Follows
<1>7. Promise!Start(t)
  BY <1>3, <1>4, <1>5, <1>6 DEF Promise!Start, Shows
<1> QED BY <1>3, <1>7 DEF Promise!Next

(* A task succeeds after all it comes after has ended.                     *)
LEMMA SuccessSeen ==
  ASSUME PoolInv, UNCHANGED taskVars, NEW t \in Created, state' = [state EXCEPT ![t] = Complete],
         state[t] = Running \/ (state[t] = Submitted /\ Predecessors(t) = {}),
         \A u \in Predecessors(t) : Finished(u)
  PROVE  Promise!Next
<1>1. Shows(t, "complete")
  <2>1. Seen(Complete) = "complete"
    BY StatusSeen, StatusOrder
  <2>2. Shows(t, Seen(Complete))
    BY OneSeen
  <2> QED BY <2>1, <2>2
<1>2. t \in Task /\ ~(t > created) /\ VisibleStatus(t) = Seen(state[t])
  BY TaskFacts, SeenInState
<1>3. VisibleStatus(t) = "running" \/ (VisibleStatus(t) = "submitted" /\ Predecessors(t) = {})
  BY <1>2, StatusSeen, StatusOrder
<1>4. ASSUME NEW u \in Predecessors(t)
      PROVE  u \in Task /\ VisibleStatus(u) \in Promise!Ended
  <2>1. u \in Created /\ u \in Task
    BY PredecessorsCreated, TaskFacts
  <2>2. VisibleStatus(u) = Seen(state[u]) /\ state[u] \in Int
    BY <2>1, SeenInState, TaskFacts
  <2>3. state[u] = Complete \/ state[u] < Complete
    BY <2>2, StatusOrder DEF Finished
  <2> QED BY <2>1, <2>2, <2>3, StatusSeen DEF Promise!Ended
<1>5. Promise!Succeed(t)
  BY <1>1, <1>2, <1>3, <1>4 DEF Promise!Succeed, Shows
<1> QED BY <1>2, <1>5 DEF Promise!Next

(* A task that has not finished may fail at any time.                      *)
LEMMA FailureSeen ==
  ASSUME PoolInv, UNCHANGED taskVars, NEW t \in Created, ~Finished(t),
         NEW s \in Error, s < Complete, state' = [state EXCEPT ![t] = s]
  PROVE  Promise!Next
<1>1. Shows(t, "failed")
  <2>1. Seen(s) = "failed"
    BY StatusSeen, StatusOrder
  <2>2. Shows(t, Seen(s))
    BY OneSeen
  <2> QED BY <2>1, <2>2
<1>2. t \in Task /\ VisibleStatus(t) = Seen(state[t]) /\ state[t] \in Int
  BY TaskFacts, SeenInState
<1>3. VisibleStatus(t) \in {"queued", "submitted", "running"}
  <2>1. state[t] \in {Queued, Submitted, Ready, Running}
    BY <1>2, TaskFacts, StatusOrder DEF Finished
  <2> QED BY <1>2, <2>1, StatusSeen
<1>4. Promise!Fail(t)
  BY <1>1, <1>2, <1>3 DEF Promise!Fail, Promise!Ended, Shows
<1> QED BY <1>2, <1>4 DEF Promise!Next

(* A task handed to its device is seen as submitted.                       *)
LEMMA SubmissionSeen ==
  ASSUME PoolInv, UNCHANGED taskVars, NEW t \in Created, state[t] = Queued,
         NEW s \in {Submitted, Ready}, state' = [state EXCEPT ![t] = s]
  PROVE  Promise!Next
<1>1. Shows(t, "submitted")
  <2>1. Seen(s) = "submitted"
    BY StatusSeen, StatusOrder
  <2>2. Shows(t, Seen(s))
    BY OneSeen
  <2> QED BY <2>1, <2>2
<1>2. t \in Task /\ VisibleStatus(t) = "queued"
  BY TaskFacts, SeenInState, StatusSeen
<1>3. Promise!Submit(t)
  BY <1>1, <1>2 DEF Promise!Submit, Shows
<1> QED BY <1>2, <1>3 DEF Promise!Next

(* A new event is seen in its state, and comes after what it was given.    *)
LEMMA NewSeen ==
  ASSUME PoolInv, SameTasks, NEW t \in Task, t = created + 1, created' = t,
         \A u \in Created : state'[u] = state[u]
  PROVE  /\ VisibleStatus(t) = "none" /\ t \notin Created /\ Created' = Created \cup {t}
         /\ Promise!Becomes(t, Seen(state'[t]))
         /\ [u \in Task |-> IF u > created THEN {} ELSE Predecessors(u)]'
              = [[u \in Task |-> IF u > created THEN {} ELSE Predecessors(u)]
                   EXCEPT ![t] = Predecessors(t)']
<1>1. /\ created \in Nat /\ Task \subseteq Nat \ {0} /\ Created \subseteq Task
      /\ \A u \in Created : u \in Task /\ u <= created
  BY CreatedTasks, TaskFacts DEF PoolInv, QueueInv, TypeInv, TypeOK, Task
<1>2. t \notin Created /\ Created' = Created \cup {t}
  BY <1>1 DEF Created
<1>3. VisibleStatus(t) = "none" /\ \A u \in Created : VisibleStatus(u) = Seen(state[u])
  BY <1>2, SeenInState
<1>4. ASSUME NEW u \in Task
      PROVE  /\ VisibleStatus(u)' = IF u = t THEN Seen(state'[t]) ELSE VisibleStatus(u)
             /\ (IF u > created THEN {} ELSE Predecessors(u))'
                  = IF u = t THEN Predecessors(t)' ELSE IF u > created THEN {} ELSE Predecessors(u)
  <2>1. CASE u = t
    <3>1. ~(t > created')
      BY <1>1
    <3> QED BY <2>1, <3>1 DEF VisibleStatus
  <2>2. CASE u \in Created
    <3>1. ~(u > created') /\ ~(u > created) /\ u # t
      BY <1>1, <1>2, <2>2
    <3>2. Predecessors(u)' = Predecessors(u)
      BY <2>2, SamePredecessors
    <3> QED BY <1>3, <2>2, <3>1, <3>2 DEF VisibleStatus
  <2>3. CASE u # t /\ u \notin Created
    <3>1. u > created' /\ u > created
      BY <1>1, <2>3 DEF Created
    <3> QED BY <2>3, <3>1 DEF VisibleStatus
  <2> QED BY <2>1, <2>2, <2>3
<1>5. [u \in Task |-> VisibleStatus(u)]'
        = [[u \in Task |-> VisibleStatus(u)] EXCEPT ![t] = Seen(state'[t])]
  BY <1>4
<1>6. [u \in Task |-> IF u > created THEN {} ELSE Predecessors(u)]'
        = [[u \in Task |-> IF u > created THEN {} ELSE Predecessors(u)] EXCEPT ![t] = Predecessors(t)']
  BY <1>4
<1> QED BY <1>2, <1>3, <1>5, <1>6 DEF Promise!Becomes

(* A new user event is seen as submitted, with nothing to come after.      *)
LEMMA CreationSeen ==
  ASSUME PoolInv, CreateUserEvent
  PROVE  Promise!Next
<1>1. PICK t : t = created + 1
  OBVIOUS
<1>2. /\ created \in Nat /\ t \in Task /\ t > created /\ Created \subseteq Task
      /\ created' = t /\ state' = [state EXCEPT ![t] = Submitted] /\ state \in [Task -> Status]
      /\ UNCHANGED <<home, barriers, waitList, sweeping>>
  <2>1. /\ TypeOK /\ created \in Nat /\ created < NumTasks /\ NumTasks \in Nat
        /\ Created \subseteq Task
    BY TaskPoolAssumption, CreatedTasks DEF PoolInv, QueueInv, TypeInv, TypeOK, CreateUserEvent
  <2>2. t \in Task /\ t > created
    BY <1>1, <2>1 DEF Task
  <2> QED BY <1>1, <2>1, <2>2 DEF CreateUserEvent, TypeOK
<1>3. Created' = Created \cup {t} /\ t \notin Created
  BY <1>1, <1>2 DEF Created
<1>4. \A u \in Created : state'[u] = state[u]
  BY <1>2, <1>3
<1>5. SameTasks
  BY <1>2, <1>3 DEF SameTasks
<1>6. Predecessors(t)' = {}
  BY <1>2 DEF PoolInv, Uncreated, Predecessors
<1>7. state'[t] = Submitted /\ Seen(Submitted) = "submitted"
  BY <1>2, StatusSeen, StatusOrder
<1>8. /\ VisibleStatus(t) = "none" /\ Promise!Becomes(t, "submitted")
      /\ [u \in Task |-> IF u > created THEN {} ELSE Predecessors(u)]'
           = [[u \in Task |-> IF u > created THEN {} ELSE Predecessors(u)] EXCEPT ![t] = {}]
  BY <1>1, <1>2, <1>4, <1>5, <1>6, <1>7, NewSeen
<1>9. Promise!CreateEvent(t)
  BY <1>2, <1>8 DEF Promise!CreateEvent
<1> QED BY <1>2, <1>9 DEF Promise!Next

(* A new command is seen as queued, and comes after existing events.       *)
LEMMA EnqueueSeen ==
  ASSUME PoolInv, NEW q \in Queue, NEW command, NEW W \in SUBSET Created,
         Enqueue(q, command, W)
  PROVE  Promise!Next
<1>1. PICK t : t = created + 1
  OBVIOUS
<1>2. Enqueued(t, q, command, W)
  BY <1>1, EnqueueFacts
<1>3. /\ TypeOK /\ t \in Task /\ t \in Nat /\ t \notin Created /\ Created \subseteq Task
      /\ Created' = Created \cup {t} /\ UNCHANGED state /\ state[t] = Queued
      /\ created' = t /\ created \in Nat /\ waitList'[t] = W
  <2>1. created' = t
    BY <1>1 DEF Enqueue
  <2> QED BY <1>2, <2>1 DEF Enqueued, TypeOK
<1>4. SameTasks
  <2>1. t \notin barriers /\ t \notin sweeping
    BY <1>3 DEF TypeOK
  <2> QED BY <1>2, <1>3, <2>1 DEF Enqueued, SameTasks
<1>5. Predecessors(t)' \subseteq Created
  <2>1. 1 .. t - 1 = Created
    BY <1>1, <1>3 DEF Created
  <2> QED BY <1>3, <2>1 DEF Predecessors
<1>6. state'[t] = Queued /\ Seen(Queued) = "queued"
  BY <1>3, StatusSeen, StatusOrder
<1>7. /\ VisibleStatus(t) = "none" /\ Promise!Becomes(t, "queued")
      /\ [u \in Task |-> IF u > created THEN {} ELSE Predecessors(u)]'
           = [[u \in Task |-> IF u > created THEN {} ELSE Predecessors(u)]
                EXCEPT ![t] = Predecessors(t)']
  <2>1. \A u \in Created : state'[u] = state[u]
    BY <1>3
  <2> QED BY <1>1, <1>3, <1>4, <1>6, <2>1, NewSeen
<1>8. \A u \in Created : VisibleStatus(u) # "none"
  BY SeenInState, TaskFacts, StatusSeen
<1>9. Promise!EnqueueCommand(t)
  <2>1. Predecessors(t)' \in SUBSET {u \in Task : [v \in Task |-> VisibleStatus(v)][u] # "none"}
    BY <1>3, <1>5, <1>8
  <2> QED BY <1>3, <1>7, <2>1 DEF Promise!EnqueueCommand
<1> QED BY <1>3, <1>9 DEF Promise!Next

(* Every step of the pool is a step of the promise, or not seen.           *)
LEMMA PromiseStep ==
  ASSUME PoolInv, OrderInv, ChainsUnbroken, [Next]_vars
  PROVE  [Promise!Next]_(Promise!vars)
<1>1. Order /\ TypeOK /\ Created \subseteq Task /\ state \in [Task -> Status]
  BY CreatedTasks DEF OrderInv, PoolInv, QueueInv, TypeInv, TypeOK
<1>2. ASSUME UNCHANGED <<taskVars, state>>
      PROVE  UNCHANGED Promise!vars
  BY <1>2, NothingSeen
<1>3. CASE LockHolder
  <2>1. LockStep
    BY <1>3, LockSteps DEF PoolInv, QueueInv
  <2>2. LockEffect /\ CallsKept
    BY <2>1, LockEffects, LockCalls
  <2>3. CASE Quiet \/ (\E t \in Created : Clears(t)) \/ (\E S : Flushes(S))
    BY <1>2, <2>3 DEF Quiet, Clears, Flushes
  <2>4. ASSUME NEW q \in Queue, NEW t \in Created, Submits(t, q) \/ SubmitsReady(t, q)
        PROVE  Promise!Next
    <3>1. Leaves(t, q) /\ UNCHANGED taskVars
      BY <2>4 DEF Submits, SubmitsReady, TurnsReady
    <3>2. state[t] = Queued
      BY <3>1, Oldest, Zenon
    <3>3. \E s \in {Submitted, Ready} : state' = [state EXCEPT ![t] = s]
      BY <2>4 DEF Submits, SubmitsReady, TurnsReady
    <3> QED BY <3>1, <3>2, <3>3, SubmissionSeen
  <2>5. ASSUME NEW v \in Created, NEW d \in Created, Releases(v, d) \/ ReleasesLast(v, d)
        PROVE  UNCHANGED Promise!vars
    <3>1. CASE Releases(v, d)
      BY <1>2, <3>1 DEF Releases
    <3>2. CASE ReleasesLast(v, d)
      <4>1. /\ UNCHANGED taskVars /\ state[d] = Submitted
            /\ state' = [state EXCEPT ![d] = Ready]
        BY <3>2 DEF ReleasesLast, TurnsReady
      <4>2. \A t \in Created : Seen(state'[t]) = Seen(state[t])
        <5>1. Seen(Ready) = Seen(Submitted)
          BY StatusSeen, StatusOrder
        <5> QED BY <1>1, <4>1, <5>1
      <4> QED BY <4>1, <4>2, NothingSeen
    <3> QED BY <2>5, <3>1, <3>2
  <2>6. ASSUME NEW t \in Created, NEW e \in Error, Ends(t, e), e < Complete
        PROVE  Promise!Next
    BY <2>6, FailureSeen DEF Ends
  <2>7. CASE /\ Head(stack).fn = "CompleteAll"
             /\ \E t \in Created, e \in Error : state[t] = Running /\ Ends(t, e)
    <3>1. CASE Quiet
      BY <1>2, <3>1 DEF Quiet
    <3>2. CASE /\ Ending(stack) # <<>> /\ Ends(Head(Ending(stack)), Complete)
               /\ Ending(stack') = Tail(Ending(stack)) /\ Ending(stack) = Head(stack).tasks
      <4>1. Head(stack).tasks # <<>> /\ stack # <<>>
        BY <2>1, <3>2 DEF LockStep
      <4>2. PICK s \in Seq(Created) : s = Ending(stack)
        BY <2>7, <4>1, EndingRuns
      <4>3. PICK t \in Created : t = Head(s) /\ state[t] = Running
        BY <2>7, <3>2, <4>1, <4>2, EndingRuns
      <4>4. Ends(t, Complete) /\ s # <<>> /\ Ending(stack') = Tail(s)
        BY <3>2, <4>2, <4>3
      <4>5. ASSUME NEW u \in Predecessors(t) PROVE Finished(u)
        <5>1. Settled(u, t) /\ ~ChainBroken(u, t) /\ u \in Created
          BY <1>1, <4>2, <4>3, <4>4, FirstSettled, PredecessorsCreated DEF ChainsUnbroken
        <5> QED BY <5>1, TaskFacts, StatusOrder DEF Settled, Finished
      <4>6. UNCHANGED taskVars /\ state' = [state EXCEPT ![t] = Complete]
        BY <4>4 DEF Ends
      <4> QED BY <4>3, <4>5, <4>6, SuccessSeen
    <3> QED BY <2>2, <2>7, <3>1, <3>2 DEF CallsKept
  <2> QED BY <2>2, <2>3, <2>4, <2>5, <2>6, <2>7 DEF LockEffect
<1>4. CASE ~LockHolder
  <2>1. ASSUME NEW u \in Created, NEW s \in Error, SetsEvent(u, s)
        PROVE  Promise!Next
    <3>1. /\ home[u] = NoQueue /\ state[u] = Submitted /\ ~Finished(u) /\ s <= Complete /\ s \in Int
          /\ UNCHANGED taskVars /\ state' = [state EXCEPT ![u] = s]
      BY <2>1, StatusOrder DEF SetsEvent, Ends
    <3>2. Predecessors(u) = {}
      BY <3>1 DEF PoolInv, Places, Predecessors
    <3>3. CASE s = Complete
      BY <3>1, <3>2, <3>3, SuccessSeen
    <3>4. CASE s < Complete
      BY <3>1, <3>4, FailureSeen
    <3> QED BY <3>1, <3>3, <3>4, StatusOrder
  <2>2. ASSUME NEW d \in Device, SubmitExecution(d) \/ CompleteSubmission(d)
        PROVE  UNCHANGED Promise!vars
    BY <1>2, <2>2 DEF SubmitExecution, CompleteSubmission
  <2>3. ASSUME NEW d \in Device, Record(d)
        PROVE  Promise!Next
    BY <2>3, StartSeen
  <2>4. CASE CreateUserEvent \/ \E q \in Queue, W \in SUBSET Created : \E command : Enqueue(q, command, W)
    BY <2>4, CreationSeen, EnqueueSeen
  <2>5. CASE UNCHANGED <<taskVars, state>>
    BY <1>2, <2>5
  <2> QED BY <1>4, <2>1, <2>2, <2>3, <2>4, <2>5, IdleSteps
<1> QED BY <1>3, <1>4

(* The pool implements the execution model, as long as no failure breaks a *)
(* chain: whatever is enqueued on however many queues and devices, and in  *)
(* every interleaving, what clGetEventInfo shows of the events moves only  *)
(* as the model allows.                                                    *)
THEOREM KeepsThePromise ==
  ~RecordMayFail /\ []ChainsUnbroken /\ Spec => ImplementsExecutionModel
<1>1. Init => Promise!Init
  <2> SUFFICES ASSUME Init PROVE Promise!Init
    OBVIOUS
  <2>1. \A t \in Task : t > created
    BY DEF Init, Task
  <2> QED BY <2>1 DEF Promise!Init, VisibleStatus
<1>2. PoolInv /\ OrderInv /\ ChainsUnbroken /\ [Next]_vars => [Promise!Next]_(Promise!vars)
  BY PromiseStep
<1> QED BY <1>1, <1>2, PoolInvariant, OrderInvariant, PTL
        DEF Spec, ImplementsExecutionModel, Promise!Spec

-----------------------------------------------------------------------------
(* Without failures *)

NoFailures == \A t \in Created : ~(state[t] < Complete)

(* No step fails a task, unless one has failed already.                    *)
LEMMA NoFailuresKept ==
  ASSUME PoolInv, NoFailures, [Next]_vars, UserStatus \subseteq {Complete}
  PROVE  NoFailures'
<1>1. Created \subseteq Task /\ state \in [Task -> Status]
  BY CreatedTasks DEF PoolInv, QueueInv, TypeInv, TypeOK
<1>2. ASSUME UNCHANGED <<taskVars, state>>
      PROVE  NoFailures'
  BY <1>2 DEF NoFailures, Created, taskVars
<1>3. ASSUME UNCHANGED taskVars, NEW t \in Created, NEW s, ~(s < Complete),
             state' = [state EXCEPT ![t] = s]
      PROVE  NoFailures'
  <2>1. Created' = Created
    BY <1>3 DEF Created, taskVars
  <2>2. ASSUME NEW u \in Created PROVE ~(state'[u] < Complete)
    <3>1. state'[u] = IF u = t THEN s ELSE state[u]
      BY <1>1, <1>3
    <3> QED BY <1>3, <3>1 DEF NoFailures
  <2> QED BY <2>1, <2>2 DEF NoFailures
<1>4. /\ \A s \in {Submitted, Ready, Running, Complete} : ~(s < Complete)
      /\ \A t \in Created, e \in Error : state[t] = e => ~(e < Complete)
  BY StatusOrder DEF NoFailures
<1>5. CASE LockHolder
  <2>1. LockStep
    BY <1>5, LockSteps DEF PoolInv, QueueInv
  <2>2. LockEffect /\ CallsKept
    BY <2>1, LockEffects, LockCalls
  <2>3. CASE Quiet \/ (\E t \in Created : Clears(t)) \/ (\E S : Flushes(S))
    BY <1>2, <2>3 DEF Quiet, Clears, Flushes
  <2>4. ASSUME NEW q \in Queue, NEW t \in Created, Submits(t, q) \/ SubmitsReady(t, q)
        PROVE  NoFailures'
    BY <1>3, <1>4, <2>4 DEF Submits, SubmitsReady, TurnsReady
  <2>5. ASSUME NEW v \in Created, NEW d \in Created, Releases(v, d) \/ ReleasesLast(v, d)
        PROVE  NoFailures'
    BY <1>2, <1>3, <1>4, <2>5 DEF Releases, ReleasesLast, TurnsReady
  <2>6. ASSUME NEW t \in Created, NEW e \in Error, e < Complete, \E u \in Created : state[u] = e
        PROVE  FALSE
    BY <1>4, <2>6
  <2>7. CASE Head(stack).fn = "CompleteAll"
    <3>1. CASE Quiet
      BY <1>2, <3>1 DEF Quiet
    <3>2. CASE /\ Ending(stack) # <<>> /\ Ends(Head(Ending(stack)), Complete)
               /\ Ending(stack) = Head(stack).tasks
      <4>1. Head(stack).tasks # <<>> /\ stack # <<>>
        BY <2>1, <3>2 DEF LockStep
      <4>2. Head(Ending(stack)) \in Created
        BY <2>7, <3>2, <4>1, EndingRuns
      <4> QED BY <1>3, <1>4, <3>2, <4>2 DEF Ends
    <3> QED BY <2>2, <2>7, <3>1, <3>2 DEF CallsKept
  <2> QED BY <2>2, <2>3, <2>4, <2>5, <2>6, <2>7 DEF LockEffect
<1>6. CASE ~LockHolder
  <2>1. ASSUME NEW u \in Created, NEW s \in Error, SetsEvent(u, s)
        PROVE  NoFailures'
    <3>1. s = Complete /\ UNCHANGED taskVars /\ state' = [state EXCEPT ![u] = s]
      BY <2>1 DEF SetsEvent, Ends
    <3> QED BY <1>3, <1>4, <3>1
  <2>2. ASSUME NEW d \in Device, SubmitExecution(d) \/ CompleteSubmission(d)
        PROVE  NoFailures'
    BY <1>2, <2>2 DEF SubmitExecution, CompleteSubmission
  <2>3. ASSUME NEW d \in Device, Record(d)
        PROVE  NoFailures'
    <3>1. PICK t \in Created : t = Head(execQ[d])[recorded[d] + 1]
      BY <2>3, NextToRecord DEF Record
    <3> QED BY <1>3, <1>4, <2>3, <3>1 DEF Record
  <2>4. ASSUME NEW t \in Task, t \notin Created, Created' = Created \cup {t},
               ~(state'[t] < Complete), \A u \in Created : state'[u] = state[u]
        PROVE  NoFailures'
    BY <2>4 DEF NoFailures
  <2>5. CASE CreateUserEvent
    <3>1. PICK t : t = created + 1
      OBVIOUS
    <3>2. created \in Nat /\ created < NumTasks /\ NumTasks \in Nat
      BY <2>5, TaskPoolAssumption DEF CreateUserEvent, PoolInv, QueueInv, TypeInv, TypeOK
    <3>3. t \in Task /\ t \notin Created /\ created' = t /\ state' = [state EXCEPT ![t] = Submitted]
      BY <2>5, <3>1, <3>2 DEF CreateUserEvent, Task, Created
    <3>4. Created' = Created \cup {t}
      BY <3>1, <3>2, <3>3 DEF Created
    <3> QED BY <1>1, <1>4, <2>4, <3>3, <3>4
  <2>6. ASSUME NEW q \in Queue, NEW W \in SUBSET Created, NEW command, Enqueue(q, command, W)
        PROVE  NoFailures'
    <3>1. PICK t : t = created + 1
      OBVIOUS
    <3>2. Enqueued(t, q, command, W)
      BY <2>6, <3>1, EnqueueFacts
    <3>3. ~(Queued < Complete)
      BY StatusOrder
    <3> QED BY <2>4, <3>2, <3>3 DEF Enqueued
  <2>7. CASE UNCHANGED <<taskVars, state>>
    BY <1>2, <2>7
  <2> QED BY <1>6, <2>1, <2>2, <2>3, <2>5, <2>6, <2>7, IdleSteps
<1> QED BY <1>5, <1>6

(* An application that gives its user events no error sees the execution   *)
(* model kept, without any condition on how the run goes.                  *)
THEOREM KeepsThePromiseOnSuccess ==
  ASSUME UserStatus \subseteq {Complete}
  PROVE  ~RecordMayFail /\ Spec => ImplementsExecutionModel
<1>1. Init => NoFailures
  <2>1. Init => Created = {}
    BY DEF Init, Created
  <2> QED BY <2>1 DEF NoFailures
<1>2. PoolInv /\ NoFailures /\ [Next]_vars => NoFailures'
  BY NoFailuresKept
<1>3. PoolInv /\ NoFailures => ChainsUnbroken
  <2> SUFFICES ASSUME PoolInv, NoFailures, NEW t \in Created, NEW u \in Predecessors(t),
                      NEW w \in u + 1 .. t - 1
               PROVE  w \in Created
    BY DEF ChainsUnbroken, ChainBroken, NoFailures
  <2>1. t \in Nat /\ t <= created /\ created \in Nat /\ u \in Nat
    BY PredecessorsCreated, TaskFacts
  <2> QED BY <2>1 DEF Created
<1> QED BY <1>1, <1>2, <1>3, PoolInvariant, KeepsThePromise, PTL DEF Spec
=============================================================================
