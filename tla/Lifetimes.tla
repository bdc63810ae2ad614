----------------------------- MODULE Lifetimes ------------------------------
(***************************************************************************)
(* Who keeps what alive: contexts (context.cpp), the D3D devices they      *)
(* share (device.cpp), events with their callbacks (task.cpp), and the     *)
(* reference counts and schedulers behind them (platform.hpp,              *)
(* platform.cpp).                                                          *)
(*                                                                         *)
(* References are taken and given back by application threads, by the      *)
(* thread that runs callbacks, and by the completion thread of each D3D    *)
(* device; whoever gives back the last one runs the destructors.           *)
(***************************************************************************)
EXTENDS Integers, Sequences, FiniteSets, SequencesExt

CONSTANTS
  Contexts,     \* each may be created once
  Wanted,       \* the devices of each: a sequence of [device, gl] records
  UserEvents, Commands,
  Home,         \* the context that each of these is made in
  Callbacks,    \* each may be registered once
  NumApps,      \* application threads
  MaxD3D,       \* bound on the D3D devices ever created
  Nothing

Events   == UserEvents \cup Commands
Asked    == UNION {Range(Wanted[c]) : c \in Contexts}
Adapters == {w.device : w \in Asked}
D3D      == 1 .. MaxD3D

Completion(d)  == <<"completion", d>>
CallbackThread == <<"callback", 0>>
Apps    == {<<"app", i>> : i \in 1 .. NumApps}
Callers == Apps \cup {CallbackThread}
Threads == Callers \cup {Completion(d) : d \in D3D}

ASSUME LifetimesAssumption ==
  /\ IsFiniteSet(Contexts) /\ IsFiniteSet(Events) /\ IsFiniteSet(Callbacks) /\ IsFiniteSet(Adapters)
  /\ Contexts \cap Events = {} /\ UserEvents \cap Commands = {}
  /\ Wanted \in [Contexts -> Seq(Asked) \ {<<>>}] /\ Home \in [Events -> Contexts]
  /\ NumApps \in Nat /\ MaxD3D \in Nat
  /\ Nothing \notin Contexts \cup Events \cup Threads

VARIABLES
  registry,   \* m_D3DDevices of each device
  d3d,        \* every D3D device: m_ContextCount, and whether it exists
  initLock,   \* who holds m_InitLock of each device
  active,     \* m_ActiveDeviceCount
  context,    \* every context, with the two halves of its m_RefCount
  event,      \* every event, likewise
  owns,       \* <<t, x>>: thread t may use and must release context or event x
  taskLock,   \* who holds the task pool lock
  callbacks,  \* where each callback is
  queue,      \* callbacks given to m_CallbackScheduler
  frames,     \* the calls each thread is in, the innermost last
  leaked,     \* history: references to D3D devices that nobody has any more
  halted      \* why the program can not go on

vars == <<registry, d3d, initLock, active, context, event, owns, taskLock, callbacks,
          queue, frames, leaked, halted>>
deviceVars == <<registry, d3d, initLock, active, leaked, halted>>
eventVars  == <<event, taskLock, callbacks, queue>>

Init ==
  /\ registry = [a \in Adapters |-> <<>>]
  /\ d3d = [d \in D3D |-> [state |-> "none", gl |-> FALSE, count |-> 0]]
  /\ initLock = [a \in Adapters |-> Nothing] /\ active = 0
  /\ context = [c \in Contexts |-> [state |-> "none", devices |-> <<>>, refs |-> 0, internal |-> 0]]
  /\ event = [e \in Events |->
       [state |-> "none", context |-> Nothing, d3d |-> Nothing, refs |-> 0, internal |-> 0]]
  /\ owns = {} /\ taskLock = Nothing
  /\ callbacks = [k \in Callbacks |-> [at |-> "none", event |-> Nothing]]
  /\ queue = <<>>
  /\ frames = [t \in Threads |-> <<>>]
  /\ leaked = [d \in D3D |-> 0] /\ halted = "no"

-----------------------------------------------------------------------------
(* Call frames.  A callback may call the API as well.                      *)

In(t, op) == frames[t] # <<>> /\ Last(frames[t]).op = op
Top(t)    == Last(frames[t])
MayCall(t) == IF t = CallbackThread THEN In(t, "callback") ELSE frames[t] = <<>>

Push(t, f)    == frames' = [frames EXCEPT ![t] = Append(@, f)]
Pop(t)        == frames' = [frames EXCEPT ![t] = Front(@)]
Replace(t, f) == frames' = [frames EXCEPT ![t] = Append(Front(@), f)]

-----------------------------------------------------------------------------
(* D3D devices.                                                            *)

Matching(want) == {i \in DOMAIN registry[want.device] : d3d[registry[want.device][i]].gl = want.gl}
Fresh == {d \in D3D : d3d[d].state = "none"}

(* Mutant: the device that is found is not counted for one context more.   *)
FindUncounted(want, d) == d3d

Find(want, d) == [d3d EXCEPT ![d].count = @ + 1]

(* InitD3D: the D3D device d for what is wanted, found or new.             *)
InitD3D(want, d) ==
  LET a == want.device IN
  /\ initLock[a] = Nothing
  /\ IF Matching(want) # {}
     THEN /\ d = registry[a][CHOOSE i \in Matching(want) : \A j \in Matching(want) : i <= j]
          /\ d3d' = Find(want, d)
          /\ UNCHANGED <<registry, active>>
     ELSE /\ d \in Fresh /\ \A f \in Fresh : d <= f
          /\ d3d' = [d3d EXCEPT ![d] = [state |-> "live", gl |-> want.gl, count |-> 1]]
          /\ registry' = [registry EXCEPT ![a] = Append(@, d)]
          /\ active' = active + 1
  /\ UNCHANGED <<initLock, halted>>

AdapterOf(d) == CHOOSE a \in Adapters : d \in Range(registry[a])

DeviceUninit(d) == IF d3d[d].count > 1 THEN active ELSE active - 1

\* std::remove_if: one x is taken out of s.
Without(s, x) == RemoveAt(s, CHOOSE i \in DOMAIN s : s[i] = x)

(* ReleaseD3D, which leaves thread t in the calls "below".  remove_if      *)
(* moves those behind the one that goes, and what is deleted is what it    *)
(* leaves at the end of the list; m_InitLock is held all the while.        *)
ReleaseD3D(t, d, below) ==
  LET a      == AdapterOf(d)
      last   == d3d[d].count = 1
      victim == Last(registry[a]) IN
  /\ initLock[a] = Nothing
  /\ d3d' = [d3d EXCEPT ![d].count = @ - 1]
  /\ active' = DeviceUninit(d)
  /\ registry' = IF last THEN [registry EXCEPT ![a] = Without(@, d)] ELSE registry
  /\ initLock' = IF last THEN [initLock EXCEPT ![a] = t] ELSE initLock
  /\ frames' = [frames EXCEPT ![t] =
       IF last THEN Append(below, [op |-> "delete", d3d |-> d, adapter |-> a]) ELSE below]
  /\ halted' = IF last /\ victim # d THEN "deleted another device" ELSE halted

(* The destructor of the D3D device joins its threads.  On one of them it  *)
(* destroys a std::thread that still runs, and the program is terminated.  *)
DeleteD3D(t) ==
  LET d == Top(t).d3d IN
  /\ In(t, "delete")
  /\ IF t = Completion(d) THEN halted' = "terminated" /\ UNCHANGED <<d3d, initLock, frames>>
     ELSE /\ frames[Completion(d)] = <<>>
          /\ d3d' = [d3d EXCEPT ![d].state = "deleted"]
          /\ initLock' = [initLock EXCEPT ![Top(t).adapter] = Nothing]
          /\ Pop(t)
          /\ UNCHANGED halted
  /\ UNCHANGED <<registry, active, context, owns, leaked, eventVars>>

(* clGetDeviceAndHostTimer has a D3D device for the length of the call.    *)
clGetDeviceAndHostTimer(t, a) ==
  /\ MayCall(t)
  /\ \E d \in D3D : InitD3D([device |-> a, gl |-> FALSE], d) /\ Push(t, [op |-> "timer", d3d |-> d])
  /\ UNCHANGED <<context, owns, leaked, eventVars>>

TimerReturns(t) ==
  /\ In(t, "timer")
  /\ ReleaseD3D(t, Top(t).d3d, Front(frames[t]))
  /\ UNCHANGED <<context, owns, leaked, eventVars>>

-----------------------------------------------------------------------------
(* Contexts.                                                               *)

clCreateContext(t, c) ==
  /\ MayCall(t) /\ context[c].state = "none"
  /\ context' = [context EXCEPT ![c].state = "making"]
  /\ Push(t, [op |-> "make", context |-> c, left |-> Wanted[c]])
  /\ UNCHANGED <<owns, deviceVars, eventVars>>

(* The constructor of Context asks for one device after the other.         *)
ContextInit(t) ==
  LET c    == Top(t).context
      made == Tail(Top(t).left) = <<>> IN
  /\ In(t, "make")
  /\ \E d \in D3D :
       /\ InitD3D(Head(Top(t).left), d)
       /\ context' = [context EXCEPT ![c].devices = Append(@, d),
                                     ![c].state = IF made THEN "live" ELSE @,
                                     ![c].refs = IF made THEN 1 ELSE @]
  /\ owns' = IF made THEN owns \cup {<<t, c>>} ELSE owns
  /\ IF made THEN Pop(t) ELSE Replace(t, [Top(t) EXCEPT !.left = Tail(@)])
  /\ UNCHANGED <<leaked, eventVars>>

\* Where c has d: a device that is named twice is counted twice.
Places(c, d) == {i \in DOMAIN context[c].devices : context[c].devices[i] = d}

(* When a D3D device can not be created the exception leaves the           *)
(* constructor, and the devices asked for before are never released.       *)
ContextInitThrows(t) ==
  LET c == Top(t).context IN
  /\ In(t, "make")
  /\ initLock[Head(Top(t).left).device] = Nothing /\ Matching(Head(Top(t).left)) = {}
  /\ context' = [context EXCEPT ![c] = [@ EXCEPT !.state = "gone", !.devices = <<>>]]
  /\ leaked' = [d \in D3D |-> leaked[d] + Cardinality(Places(c, d))]
  /\ Pop(t)
  /\ UNCHANGED <<registry, d3d, initLock, active, halted, owns, eventVars>>

(* What remains to do for a thread that has given up a reference to c,     *)
(* with the counts of c as "left" says.                                    *)
Destruction(c, left) ==
  IF left.refs = 0 /\ left.internal = 0
  THEN <<[op |-> "destroy", context |-> c, left |-> left.devices]>> ELSE <<>>

GiveUp(object) == [object EXCEPT !.refs = @ - 1]

clReleaseContext(t, c) ==
  LET left == GiveUp(context[c]) IN
  /\ MayCall(t) /\ <<t, c>> \in owns
  /\ owns' = owns \ {<<t, c>>}
  /\ context' = [context EXCEPT ![c] = left]
  /\ frames' = [frames EXCEPT ![t] = @ \o Destruction(c, left)]
  /\ UNCHANGED <<deviceVars, eventVars>>

(* The destructor of Context releases one device after the other.          *)
ContextDestructor(t) ==
  LET c    == Top(t).context
      rest == Tail(Top(t).left) IN
  /\ In(t, "destroy")
  /\ ReleaseD3D(t, Head(Top(t).left),
                IF rest = <<>> THEN Front(frames[t])
                ELSE Append(Front(frames[t]), [Top(t) EXCEPT !.left = rest]))
  /\ context' = [context EXCEPT ![c].state = "gone", ![c].devices = rest]
  /\ UNCHANGED <<owns, leaked, eventVars>>

-----------------------------------------------------------------------------
(* Events and commands.                                                    *)

(* Mutant: the task does not hold its context.                             *)
MakeUnheld(c) == context

(* CLChildBase: a task has an internal reference to its context.           *)
MakeChild(c) == [context EXCEPT ![c].internal = @ + 1]

clCreateUserEvent(t, e) ==
  LET c == Home[e] IN
  /\ MayCall(t) /\ <<t, c>> \in owns /\ event[e].state = "none"
  /\ event' = [event EXCEPT ![e] =
       [state |-> "submitted", context |-> c, d3d |-> Nothing, refs |-> 1, internal |-> 0]]
  /\ context' = MakeChild(c)
  /\ owns' = owns \cup {<<t, e>>}
  /\ UNCHANGED <<frames, taskLock, callbacks, queue, deviceVars>>

(* A command, for a device of the context: the application's reference,    *)
(* which it may give up at once, and that of the queue and the submission. *)
Enqueue(t, e) ==
  LET c == Home[e] IN
  /\ MayCall(t) /\ <<t, c>> \in owns /\ event[e].state = "none" /\ taskLock = Nothing
  /\ \E d \in Range(context[c].devices) :
       event' = [event EXCEPT ![e] =
         [state |-> "submitted", context |-> c, d3d |-> d, refs |-> 1, internal |-> 1]]
  /\ context' = MakeChild(c)
  /\ owns' = owns \cup {<<t, e>>}
  /\ UNCHANGED <<frames, taskLock, callbacks, queue, deviceVars>>

(* Retain: for another thread.                                             *)
Retain(t, u, x) ==
  /\ MayCall(t) /\ <<t, x>> \in owns /\ u # t /\ <<u, x>> \notin owns
  /\ owns' = owns \cup {<<u, x>>}
  /\ IF x \in Contexts
     THEN context' = [context EXCEPT ![x].refs = @ + 1] /\ UNCHANGED event
     ELSE event' = [event EXCEPT ![x].refs = @ + 1] /\ UNCHANGED context
  /\ UNCHANGED <<frames, taskLock, callbacks, queue, deviceVars>>

Over(e) == event[e].state \in {"complete", "failed"}

(* QueueCallback hands over to the callback thread, if there is one.       *)
Called(e) == {k \in Callbacks : callbacks[k] = [at |-> "event", event |-> e]}

(* Task::Complete, of an event that is not over: its callbacks are queued. *)
Complete(e, state) ==
  IF Over(e) THEN UNCHANGED <<event, callbacks, queue>>
  ELSE /\ event' = [event EXCEPT ![e].state = state]
       /\ queue' = IF active > 0 THEN queue \o SetToSeq(Called(e)) ELSE queue
       /\ callbacks' = [k \in Callbacks |->
            IF k \notin Called(e) THEN callbacks[k]
            ELSE [callbacks[k] EXCEPT !.at = IF active > 0 THEN "queue" ELSE "cancelled"]]

(* clSetUserEventStatus looks at the state first, without the lock.        *)
clSetUserEventStatus(t, e) ==
  /\ MayCall(t) /\ <<t, e>> \in owns /\ e \in UserEvents /\ event[e].state = "submitted"
  /\ \E s \in {"complete", "failed"} : Push(t, [op |-> "set", event |-> e, state |-> s])
  /\ UNCHANGED <<context, owns, deviceVars, eventVars>>

UserEventComplete(t) ==
  /\ In(t, "set") /\ taskLock = Nothing
  /\ Complete(Top(t).event, Top(t).state)
  /\ Pop(t)
  /\ UNCHANGED <<context, owns, taskLock, deviceVars>>

(* RegisterCallback: called at once, by this thread, where the event is    *)
(* over already.                                                           *)
clSetEventCallback(t, k, e) ==
  /\ MayCall(t) /\ <<t, e>> \in owns /\ callbacks[k].at = "none" /\ taskLock = Nothing
  /\ callbacks' = [callbacks EXCEPT ![k] =
       [at |-> IF Over(e) THEN "called" ELSE "event", event |-> e]]
  /\ UNCHANGED <<context, owns, frames, event, taskLock, queue, deviceVars>>

(* The callback thread calls the application, which may use the API.       *)
BeginCallback ==
  /\ frames[CallbackThread] = <<>> /\ queue # <<>>
  /\ queue' = Tail(queue)
  /\ callbacks' = [callbacks EXCEPT ![Head(queue)].at = "called"]
  /\ Push(CallbackThread, [op |-> "callback"])
  /\ UNCHANGED <<context, owns, event, taskLock, deviceVars>>

EndCallback ==
  /\ In(CallbackThread, "callback")
  /\ Pop(CallbackThread)
  /\ UNCHANGED <<context, owns, deviceVars, eventVars>>

(* What is left of the counts, and what is to be done: the destructor of   *)
(* an event gives up its reference to the context.                         *)
DropEvent(t, e, left, below) ==
  LET c == event[e].context
      parent == [context[c] EXCEPT !.internal = @ - 1]
      dies == left.refs = 0 /\ left.internal = 0
  IN /\ event' = [event EXCEPT ![e] = IF dies THEN [left EXCEPT !.state = "gone"] ELSE left]
     /\ context' = IF dies THEN [context EXCEPT ![c] = parent] ELSE context
     /\ frames' = [frames EXCEPT ![t] = below \o IF dies THEN Destruction(c, parent) ELSE <<>>]

(* Mutant: a user event is given up as it is.                              *)
NeedsNoStatus(e) == FALSE

(* clReleaseEvent: a user event whose last reference goes is failed ...    *)
NeedsStatus(e) == e \in UserEvents /\ event[e].refs = 1 /\ event[e].state = "submitted"

clReleaseEvent(t, e) ==
  LET release == [op |-> "release", event |-> e, saw |-> event[e].refs] IN
  /\ MayCall(t) /\ <<t, e>> \in owns
  /\ owns' = owns \ {<<t, e>>}
  /\ frames' = [frames EXCEPT ![t] = @ \o
       IF NeedsStatus(e) THEN <<release, [op |-> "set", event |-> e, state |-> "failed"]>>
       ELSE <<release>>]
  /\ UNCHANGED <<context, deviceVars, eventVars>>

(* ... and only then is the reference given up.                            *)
EventRelease(t) ==
  /\ In(t, "release")
  /\ DropEvent(t, Top(t).event, GiveUp(event[Top(t).event]), Front(frames[t]))
  /\ UNCHANGED <<owns, taskLock, callbacks, queue, deviceVars>>

-----------------------------------------------------------------------------
(* The completion thread of a D3D device.                                  *)

(* The handler completes the tasks of a submission under the lock, ...     *)
CompletionBegins(e) ==
  /\ e \in Commands /\ event[e].state = "submitted"
  /\ taskLock = Nothing /\ frames[Completion(event[e].d3d)] = <<>>
  /\ taskLock' = Completion(event[e].d3d)
  /\ Complete(e, "complete")
  /\ Push(Completion(event[e].d3d), [op |-> "handler", event |-> e, left |-> SetToSeq(Adapters)])
  /\ UNCHANGED <<context, owns, deviceVars>>

(* ... then flushes every device, one m_InitLock after the other, ...      *)
FlushAllDevices(d) ==
  LET t == Completion(d) IN
  /\ In(t, "handler") /\ Top(t).left # <<>>
  /\ initLock[Head(Top(t).left)] = Nothing
  /\ Replace(t, [Top(t) EXCEPT !.left = Tail(@)])
  /\ UNCHANGED <<context, owns, deviceVars, eventVars>>

(* ... and last lets go of the lock and of the tasks.                      *)
CompletionEnds(d) ==
  LET t == Completion(d)
      e == Top(t).event
  IN
  /\ In(t, "handler") /\ Top(t).left = <<>>
  /\ taskLock' = Nothing
  /\ DropEvent(t, e, [event[e] EXCEPT !.internal = @ - 1], Front(frames[t]))
  /\ UNCHANGED <<owns, callbacks, queue, deviceVars>>

-----------------------------------------------------------------------------
(* Specification.                                                          *)

(* What a thread does inside a call.                                       *)
Step(t) ==
  \/ DeleteD3D(t) \/ TimerReturns(t)
  \/ ContextInit(t) \/ ContextDestructor(t)
  \/ UserEventComplete(t) \/ EventRelease(t)

Finish(d) == FlushAllDevices(d) \/ CompletionEnds(d)

Creates(t) ==
  \/ \E a \in Adapters : clGetDeviceAndHostTimer(t, a)
  \/ \E c \in Contexts : clCreateContext(t, c)
  \/ \E e \in UserEvents : clCreateUserEvent(t, e)
  \/ \E e \in Commands : Enqueue(t, e)

Uses(t) ==
  \/ \E c \in Contexts : clReleaseContext(t, c)
  \/ \E e \in Events :
       \/ clSetUserEventStatus(t, e) \/ clReleaseEvent(t, e)
       \/ \E k \in Callbacks : clSetEventCallback(t, k, e)
  \/ \E u \in Callers, x \in Contexts \cup Events : Retain(t, u, x)

Next ==
  /\ halted = "no"
  /\ \/ \E t \in Threads : Step(t) \/ ContextInitThrows(t)
     \/ \E t \in Callers : MayCall(t) /\ Uses(t)
     \/ \E t \in Apps : MayCall(t) /\ Creates(t)
     \/ \E d \in D3D : Finish(d)
     \/ \E e \in Commands : CompletionBegins(e)
     \/ BeginCallback \/ EndCallback

Spec == Init /\ [][Next]_vars

-----------------------------------------------------------------------------
(* Properties.                                                             *)

(* Whoever can still reach a context - a thread that owns it, or an event  *)
(* that is alive - finds it alive, and the D3D devices that it works with. *)
UsersFindThemAlive ==
  \A c \in Contexts :
    (\E t \in Callers : <<t, c>> \in owns)
      \/ (\E e \in Events : event[e].context = c /\ event[e].state # "gone")
    => /\ context[c].state = "live"
       /\ \A d \in Range(context[c].devices) : d3d[d].state = "live"

\* The devices that the lists hold; where contexts have d; calls that use d.
Registered == UNION {Range(registry[a]) : a \in Adapters}
Held(d) == UNION {{c} \X Places(c, d) : c \in Contexts}
Timers(d) == {t \in Threads : \E i \in DOMAIN frames[t] :
                frames[t][i].op = "timer" /\ frames[t][i].d3d = d}

(* The counts that decide when devices and schedulers go are those of the  *)
(* contexts and calls that use them, plus what a constructor that threw    *)
(* has left behind.                                                        *)
CountsAddUp ==
  halted = "no" =>
  /\ \A d \in D3D : d3d[d].state = "live" /\ d3d[d].count > 0 =>
       d3d[d].count = leaked[d] + Cardinality(Held(d)) + Cardinality(Timers(d))
  /\ active = Cardinality(Registered)

(* No callback is lost: none waits on an event that is over, and none is   *)
(* cancelled because the callback scheduler has no thread.                 *)
NoCallbackLost ==
  \A k \in Callbacks :
    /\ callbacks[k].at # "cancelled"
    /\ callbacks[k].at = "event" => ~Over(callbacks[k].event)

(* Devices and the schedulers that come and go with them stay as long as   *)
(* something uses them, and no longer: through every order in which        *)
(* contexts are made and released, commands end and callbacks run.         *)
DevicesOutliveTheirUsers == UsersFindThemAlive /\ CountsAddUp /\ NoCallbackLost

(* A user event that is gone has been set: whatever waits for it goes on.  *)
(* Of two threads that release the last two references together, neither   *)
(* sees that it is the last.                                               *)
UserEventsEnd ==
  [][\A e \in UserEvents :
       event[e].state = "submitted" /\ event'[e].state = "gone"
         => \E t \in Callers : In(t, "release") /\ Top(t).event = e /\ Top(t).saw > 1]_vars

(* The thread that t waits for: who has the lock that it wants, or the     *)
(* completion thread that it joins.                                        *)
WaitsFor(t) ==
  LET f == Top(t) IN
  CASE frames[t] = <<>> -> Nothing
    [] f.op = "make"    -> initLock[Head(f.left).device]
    [] f.op = "timer"   -> initLock[AdapterOf(f.d3d)]
    [] f.op = "destroy" -> initLock[AdapterOf(Head(f.left))]
    [] f.op = "handler" -> IF f.left = <<>> THEN Nothing ELSE initLock[Head(f.left)]
    [] f.op = "delete"  -> IF t = Completion(f.d3d) THEN Nothing ELSE Completion(f.d3d)
    [] f.op = "set"     -> taskLock
    [] OTHER            -> Nothing

\* All contexts name their devices in one order, and each of them once.
InOneOrder ==
  \E rank \in [Adapters -> 1 .. Cardinality(Adapters)] : \A c \in Contexts :
    \A i, j \in DOMAIN Wanted[c] :
      i < j => rank[Wanted[c][i].device] < rank[Wanted[c][j].device]

(* m_InitLock is taken under the task pool lock where devices are flushed, *)
(* and is held where the threads of a device are joined that flush: but    *)
(* threads never wait for each other in a circle, as long as contexts name *)
(* their devices in one order.  (A completion thread that destroys its own *)
(* device does not join itself.)                                           *)
NoCircle ==
  halted = "no" /\ InOneOrder =>
    ~\E S \in SUBSET {t \in Threads : frames[t] # <<>>} :
       S # {} /\ \A t \in S : WaitsFor(t) \in S

=============================================================================
