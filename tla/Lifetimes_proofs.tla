-------------------------- MODULE Lifetimes_proofs --------------------------
(***************************************************************************)
(* What contexts, events and calls use is alive and counted, user events   *)
(* end, and threads never wait in a circle where contexts name their       *)
(* devices in one order, for any number of contexts, devices, events,      *)
(* callbacks and threads.                                                  *)
(***************************************************************************)
EXTENDS Lifetimes, FiniteSetTheorems, SequenceTheorems, WellFoundedInduction, TLAPS

-----------------------------------------------------------------------------
(* The inductive invariant                                                 *)

Frame ==
  [op : {"delete"}, d3d : D3D, adapter : Adapters]
  \cup [op : {"timer"}, d3d : D3D]
  \cup [op : {"make"}, context : Contexts, left : Seq(Asked) \ {<<>>}]
  \cup [op : {"destroy"}, context : Contexts, left : Seq(D3D) \ {<<>>}]
  \cup [op : {"set"}, event : UserEvents, state : {"complete", "failed"}]
  \cup [op : {"release"}, event : Events, saw : Int]
  \cup [op : {"handler"}, event : Commands, left : Seq(Adapters)]
  \cup [op : {"callback"}]

DeviceRecord == [state : {"none", "live", "deleted"}, gl : {w.gl : w \in Asked} \cup {FALSE}, count : Nat]
ContextRecord == [state : {"none", "making", "live", "gone"}, devices : Seq(D3D), refs : Int, internal : Int]
EventRecord == [state : {"none", "submitted", "complete", "failed", "gone"},
                context : Contexts \cup {Nothing}, d3d : D3D \cup {Nothing}, refs : Int, internal : Int]
CallbackRecord == [at : {"none", "event", "queue", "called", "cancelled"}, event : Events \cup {Nothing}]

TypeInv ==
  /\ registry \in [Adapters -> Seq(D3D)] /\ d3d \in [D3D -> DeviceRecord]
  /\ initLock \in [Adapters -> Threads \cup {Nothing}] /\ taskLock \in Threads \cup {Nothing}
  /\ active \in Int /\ leaked \in [D3D -> Nat]
  /\ context \in [Contexts -> ContextRecord] /\ event \in [Events -> EventRecord]
  /\ owns \subseteq Callers \X (Contexts \cup Events)
  /\ callbacks \in [Callbacks -> CallbackRecord] /\ queue \in Seq(Callbacks)
  /\ frames \in [Threads -> Seq(Frame)]

\* The calls a thread is in: of those above each other the level rises, so
\* there is one of each kind at most.
Calls(t) == Range(frames[t])
Level(f) ==
  IF f.op = "callback" THEN 1 ELSE IF f.op \in {"make", "timer", "destroy", "release", "handler"} THEN 2 ELSE 3
Rising(F) == \A i, j \in DOMAIN F : i < j => Level(F[i]) < Level(F[j])

StacksInv ==
  \A t \in Threads :
    Rising(frames[t]) /\ \A f \in Calls(t) : t \in Callers \/ f.op \in {"handler", "destroy", "delete"}

\* D3D devices, and who has their locks.
On(d, a) == d \in Range(registry[a])

RegistryInv ==
  /\ \A a \in Adapters : IsInjective(registry[a])
  /\ \A a, b \in Adapters : \A d \in D3D : On(d, a) /\ On(d, b) => a = b
  /\ \A d \in D3D : d3d[d].count > 0 <=> \E a \in Adapters : On(d, a)
  /\ \A d \in D3D : d3d[d].count > 0 => d3d[d].state = "live"
  /\ active = Cardinality(Registered)

CountInv ==
  \A d \in D3D : IsFiniteSet(Held(d))
                 /\ d3d[d].count = leaked[d] + Cardinality(Held(d)) + Cardinality(Timers(d))

DeleteInv ==
  /\ \A t \in Threads : \A f \in Calls(t) : f.op = "delete" =>
       /\ d3d[f.d3d].count = 0 /\ d3d[f.d3d].state # "none"
       /\ initLock[f.adapter] = t
  /\ \A a \in Adapters : initLock[a] # Nothing =>
       \E f \in Calls(initLock[a]) : f.op = "delete" /\ f.adapter = a

\* Contexts: who owns them, and what is made or destroyed.
Owners(x) == {t \in Callers : <<t, x>> \in owns}
Children(c) == {e \in Events : event[e].context = c /\ event[e].state \notin {"none", "gone"}}

ContextCounts(c) ==
  /\ context[c].refs = Cardinality(Owners(c)) /\ context[c].internal = Cardinality(Children(c))
  /\ context[c].state # "live" => context[c].refs = 0 /\ context[c].internal = 0
  /\ context[c].state = "none" => context[c].devices = <<>>
  /\ context[c].state = "live" => context[c].devices # <<>>

Making(c) ==
  \A t \in Threads : \A f \in Calls(t) : f.op = "make" /\ f.context = c =>
    /\ context[c].state = "making"
    /\ \A u \in Threads : \A g \in Calls(u) : g.op = "make" /\ g.context = c => t = u

Destroying(c) ==
  \A t \in Threads : \A f \in Calls(t) : f.op = "destroy" /\ f.context = c =>
    /\ context[c].state \in {"live", "gone"} /\ context[c].refs = 0 /\ context[c].internal = 0
    /\ context[c].devices = f.left
    /\ \A u \in Threads : \A g \in Calls(u) : g.op = "destroy" /\ g.context = c => t = u

ContextOk(c) == ContextCounts(c) /\ Making(c) /\ Destroying(c)

\* Events: who refers to them.
Releasing(e) == {t \in Threads : \E f \in Calls(t) : f.op = "release" /\ f.event = e}
Handled(e) == \E t \in Threads : \E f \in Calls(t) : f.op = "handler" /\ f.event = e

EventCounts(e) ==
  /\ event[e].refs = Cardinality(Owners(e)) + Cardinality(Releasing(e))
  /\ event[e].internal = IF e \in Commands /\ (event[e].state = "submitted" \/ Handled(e)) THEN 1 ELSE 0
  /\ event[e].state \in {"none", "gone"} <=> event[e].refs = 0 /\ event[e].internal = 0
  /\ event[e].context = IF event[e].state = "none" THEN Nothing ELSE Home[e]

Handling(e) ==
  \A t \in Threads : \A f \in Calls(t) : f.op = "handler" /\ f.event = e =>
    t = Completion(event[e].d3d) /\ event[e].state # "submitted"

Setting(e) ==
  \A t \in Threads : \A f \in Calls(t) : f.op = "set" /\ f.event = e =>
    <<t, e>> \in owns \/ t \in Releasing(e)

Ending(e) ==
  \A t \in Threads : \A f \in Calls(t) :
    f.op = "release" /\ f.event = e /\ f.saw <= 1 /\ e \in UserEvents =>
      Over(e) \/ \E g \in Calls(t) : g.op = "set" /\ g.event = e

Placed(e) ==
  e \in Commands /\ event[e].state \notin {"none", "gone"} =>
    event[e].d3d \in Range(context[Home[e]].devices)

EventOk(e) == EventCounts(e) /\ Handling(e) /\ Setting(e) /\ Ending(e) /\ Placed(e)

LockInv ==
  /\ \A t \in Threads : \A f \in Calls(t) : f.op = "handler" => taskLock = t
  /\ taskLock # Nothing => \E f \in Calls(taskLock) : f.op = "handler"

CallbackInv ==
  \A k \in Callbacks :
    /\ callbacks[k].at # "cancelled"
    /\ callbacks[k].at = "event" => callbacks[k].event \in Events /\ ~Over(callbacks[k].event)

DevicesInv == RegistryInv /\ CountInv /\ DeleteInv
ContextsInv == \A c \in Contexts : ContextOk(c)
EventsInv == \A e \in Events : EventOk(e)

Inv == TypeInv /\ StacksInv /\ DevicesInv /\ ContextsInv /\ EventsInv /\ LockInv /\ CallbackInv

\* Where contexts name their adapters in one order: the devices of a context
\* are in that order, ...
Homed(d, a) ==
  On(d, a) \/ \E t \in Threads : \E f \in Calls(t) : f.op = "delete" /\ f.d3d = d /\ f.adapter = a

Sorted(rank, c) ==
  \A i, j \in DOMAIN context[c].devices : \A a, b \in Adapters :
    i < j /\ On(context[c].devices[i], a) /\ On(context[c].devices[j], b) => rank[a] < rank[b]

\* ... what is still to be made comes after them, ...
MakeSorted(rank, f) ==
  /\ \A i, j \in DOMAIN f.left : i < j => rank[f.left[i].device] < rank[f.left[j].device]
  /\ \A i \in DOMAIN context[f.context].devices, j \in DOMAIN f.left : \A a \in Adapters :
       On(context[f.context].devices[i], a) => rank[a] < rank[f.left[j].device]

\* ... and what the completion thread of a device destroys comes after that
\* device, unless the device itself is still to be destroyed there.
Spares(d) == \E g \in Calls(Completion(d)) : g.op = "destroy" /\ d \in Range(g.left)

Behind(rank, d, f) ==
  /\ d3d[d].state # "none"
  /\ f.op = "destroy" /\ d \notin Range(f.left) => \A j \in DOMAIN f.left : \A a, b \in Adapters :
       Homed(d, a) /\ On(f.left[j], b) => rank[a] < rank[b]
  /\ f.op = "delete" =>
       f.d3d = d \/ Spares(d) \/ \A a \in Adapters : Homed(d, a) => rank[a] < rank[f.adapter]

OrderInv(rank) ==
  /\ \A c \in Contexts : Sorted(rank, c)
  /\ \A t \in Threads : \A f \in Calls(t) : f.op = "make" => MakeSorted(rank, f)
  /\ \A d \in D3D : \A f \in Calls(Completion(d)) : Behind(rank, d, f)

-----------------------------------------------------------------------------
(* Stacks                                                                  *)

(* The innermost frame and those below it.                                 *)
LEMMA StackParts ==
  ASSUME NEW F \in Seq(Frame), F # <<>>, Rising(F)
  PROVE  /\ Front(F) \in Seq(Frame) /\ Rising(Front(F))
         /\ Last(F) \in Range(F) /\ Last(F) \in Frame /\ Range(Front(F)) = Range(F) \ {Last(F)}
         /\ \A f \in Range(F) \ {Last(F)} : Level(f) < Level(Last(F))
<1>1. PICK n \in Nat : n = Len(F) /\ n > 0 /\ DOMAIN F = 1 .. n
  OBVIOUS
<1>2. PICK G : G = SubSeq(F, 1, n - 1)
  OBVIOUS
<1>3. n - 1 \in 0 .. n /\ 1 \in 1 .. (n - 1) + 1
  BY <1>1
<1>4. G \in Seq(Frame) /\ Len(G) = n - 1 /\ \A i \in 1 .. n - 1 : G[i] = F[i]
  BY <1>1, <1>2, <1>3, SubSeqProperties
<1>5. DOMAIN G = 1 .. n - 1
  BY <1>4, LenProperties
<1>6. Last(F) = F[n] /\ F[n] \in Frame /\ G = Front(F)
  BY <1>1, <1>2 DEF Last, Front
<1>7. Rising(G)
  BY <1>1, <1>4, <1>5 DEF Rising
<1>8. \A i \in 1 .. n - 1 : Level(F[i]) < Level(F[n])
  BY <1>1 DEF Rising
<1>9. \A i \in 1 .. n - 1 : F[i] # F[n]
  BY <1>8 DEF Level
<1>10. Range(F) = {F[i] : i \in 1 .. n} /\ Range(G) = {F[i] : i \in 1 .. n - 1}
  BY <1>1, <1>4, <1>5 DEF Range
<1>11. \A i \in 1 .. n : i = n \/ i \in 1 .. n - 1
  OBVIOUS
<1>12. \A i \in 1 .. n - 1 : i \in 1 .. n
  OBVIOUS
<1>13. n \in 1 .. n
  BY <1>1
<1>14. Range(G) = Range(F) \ {F[n]}
  BY <1>9, <1>10, <1>11, <1>12
<1>15. \A f \in Range(F) \ {F[n]} : Level(f) < Level(F[n])
  BY <1>8, <1>10, <1>11
<1> QED  BY <1>4, <1>6, <1>7, <1>10, <1>13, <1>14, <1>15

(* A frame is put on a stack.                                              *)
LEMMA Pushing ==
  ASSUME NEW F \in Seq(Frame), Rising(F), NEW f \in Frame, \A g \in Range(F) : Level(g) < Level(f)
  PROVE  /\ Append(F, f) \in Seq(Frame) /\ Rising(Append(F, f))
         /\ Range(Append(F, f)) = Range(F) \cup {f}
<1>1. PICK n \in Nat : n = Len(F) /\ DOMAIN F = 1 .. n
  OBVIOUS
<1>2. PICK G : G = Append(F, f)
  OBVIOUS
<1>3. G \in Seq(Frame) /\ Len(G) = n + 1 /\ (\A i \in 1 .. n : G[i] = F[i]) /\ G[n + 1] = f
  BY <1>1, <1>2, AppendProperties
<1>4. DOMAIN G = 1 .. n + 1
  BY <1>3, LenProperties
<1>5. \A i \in 1 .. n + 1 : i \in 1 .. n \/ i = n + 1
  OBVIOUS
<1>6. \A i \in 1 .. n : i \in 1 .. n + 1
  OBVIOUS
<1>7. n + 1 \in 1 .. n + 1
  OBVIOUS
<1>8. Range(F) = {F[i] : i \in 1 .. n}
  BY <1>1 DEF Range
<1>9. Range(G) = Range(F) \cup {f}
  <2>1. Range(G) = {G[i] : i \in 1 .. n + 1}
    BY <1>4 DEF Range
  <2> QED  BY <1>3, <1>5, <1>6, <1>7, <1>8, <2>1
<1>10. ASSUME NEW i \in 1 .. n + 1, NEW j \in 1 .. n + 1, i < j PROVE Level(G[i]) < Level(G[j])
  <2>1. i \in 1 .. n
    BY <1>10
  <2>2. CASE j \in 1 .. n
    BY <1>1, <1>3, <1>10, <2>1, <2>2 DEF Rising
  <2>3. CASE j = n + 1
    BY <1>3, <1>8, <2>1, <2>3
  <2> QED  BY <1>5, <2>2, <2>3
<1>11. Rising(G)
  BY <1>4, <1>10 DEF Rising
<1> QED  BY <1>2, <1>3, <1>9, <1>11

(* What is put on a stack at once.                                         *)
LEMMA Pushed2 ==
  ASSUME NEW F \in Seq(Frame)
  PROVE  /\ F \o <<>> = F
         /\ \A f \in Frame : F \o <<f>> = Append(F, f)
         /\ \A f, g \in Frame : F \o <<f, g>> = Append(Append(F, f), g)
OBVIOUS

OtherOps == {"handler", "destroy", "delete"}

(* The stack of one thread is changed.                                     *)
LEMMA StackStep ==
  ASSUME frames \in [Threads -> Seq(Frame)], StacksInv, NEW t \in Threads,
         NEW G \in Seq(Frame), Rising(G), \A f \in Range(G) : t \in Callers \/ f.op \in OtherOps,
         frames' = [frames EXCEPT ![t] = G]
  PROVE  /\ frames' \in [Threads -> Seq(Frame)] /\ StacksInv'
         /\ Calls(t)' = Range(G) /\ \A u \in Threads : u # t => Calls(u)' = Calls(u)
<1>1. frames'[t] = G /\ \A u \in Threads : u # t => frames'[u] = frames[u]
  OBVIOUS
<1>2. frames' \in [Threads -> Seq(Frame)]
  OBVIOUS
<1>3. Calls(t)' = Range(G) /\ \A u \in Threads : u # t => Calls(u)' = Calls(u)
  BY <1>1 DEF Calls
<1>4. StacksInv'
  <2> SUFFICES ASSUME NEW u \in Threads
               PROVE  (Rising(frames[u]) /\ \A f \in Calls(u) : u \in Callers \/ f.op \in OtherOps)'
    BY DEF StacksInv, OtherOps
  <2>1. CASE u = t
    BY <1>1, <1>3, <2>1
  <2>2. CASE u # t
    BY <1>1, <1>3, <2>2 DEF StacksInv, OtherOps
  <2> QED  BY <2>1, <2>2
<1> QED  BY <1>2, <1>3, <1>4

\* The calls of thread t become S, and those of the others stay.
CallsBecome(t, S) ==
  /\ frames' \in [Threads -> Seq(Frame)] /\ StacksInv'
  /\ Calls(t)' = S /\ \A u \in Threads : u # t => Calls(u)' = Calls(u)

Stacks == frames \in [Threads -> Seq(Frame)] /\ StacksInv

(* The innermost call of a thread.                                         *)
LEMMA TopIs ==
  ASSUME Stacks, NEW t \in Threads, NEW op, In(t, op)
  PROVE  /\ frames[t] \in Seq(Frame) /\ frames[t] # <<>> /\ Rising(frames[t])
         /\ Top(t) = Last(frames[t]) /\ Top(t) \in Calls(t) /\ Top(t) \in Frame /\ Top(t).op = op
         /\ \A f \in Calls(t) \ {Top(t)} : Level(f) < Level(Top(t))
         /\ \A f \in Calls(t) : f \in Frame /\ (t \in Callers \/ f.op \in OtherOps)
<1>1. frames[t] \in Seq(Frame) /\ frames[t] # <<>> /\ Rising(frames[t])
      /\ \A f \in Calls(t) : t \in Callers \/ f.op \in OtherOps
  BY DEF In, Stacks, StacksInv, OtherOps
<1>2. Top(t) = Last(frames[t]) /\ Top(t).op = op
  BY DEF In, Top
<1>3. \A f \in Calls(t) : f \in Frame
  BY <1>1 DEF Calls, Range
<1>4. /\ Last(frames[t]) \in Calls(t) /\ Last(frames[t]) \in Frame
      /\ \A f \in Calls(t) \ {Last(frames[t])} : Level(f) < Level(Last(frames[t]))
  BY <1>1, StackParts DEF Calls
<1> QED  BY <1>1, <1>2, <1>3, <1>4

(* A thread that may call is in no other call than that of a callback.     *)
LEMMA MayCallIs ==
  ASSUME Stacks, NEW t \in Callers, MayCall(t)
  PROVE  /\ t \in Threads /\ frames[t] \in Seq(Frame) /\ Rising(frames[t])
         /\ \A f \in Calls(t) : f \in Frame /\ f.op = "callback" /\ Level(f) = 1
<1>0. t \in Threads
  BY DEF Threads
<1>1. frames[t] \in Seq(Frame) /\ Rising(frames[t])
  BY <1>0 DEF Stacks, StacksInv
<1>2. CASE frames[t] = <<>>
  <2>1. Calls(t) = {}
    BY <1>2 DEF Calls, Range
  <2> QED  BY <1>0, <1>1, <2>1
<1>3. CASE In(t, "callback")
  <2>1. /\ Top(t).op = "callback" /\ \A f \in Calls(t) \ {Top(t)} : Level(f) < Level(Top(t))
        /\ \A f \in Calls(t) : f \in Frame
    BY <1>0, <1>3, TopIs
  <2>2. Level(Top(t)) = 1 /\ \A f : ~(Level(f) < 1)
    BY <2>1 DEF Level
  <2>3. \A f \in Calls(t) : f = Top(t)
    BY <2>1, <2>2
  <2> QED  BY <1>0, <1>1, <2>1, <2>2, <2>3
<1> QED  BY <1>2, <1>3 DEF MayCall

(* A frame is pushed on a stack, ...                                       *)
LEMMA PushStep ==
  ASSUME Stacks, NEW t \in Threads, NEW f \in Frame, \A g \in Calls(t) : Level(g) < Level(f),
         t \in Callers \/ f.op \in OtherOps, frames' = [frames EXCEPT ![t] = Append(frames[t], f)]
  PROVE  CallsBecome(t, Calls(t) \cup {f})
<1>1. frames[t] \in Seq(Frame) /\ Rising(frames[t]) /\ frames \in [Threads -> Seq(Frame)] /\ StacksInv
      /\ \A g \in Calls(t) : t \in Callers \/ g.op \in OtherOps
  BY DEF Stacks, StacksInv, OtherOps
<1>2. PICK G \in Seq(Frame) : G = Append(frames[t], f) /\ Rising(G) /\ Range(G) = Calls(t) \cup {f}
  BY <1>1, Pushing DEF Calls
<1>3. \A g \in Range(G) : t \in Callers \/ g.op \in OtherOps
  BY <1>1, <1>2
<1>4. frames' = [frames EXCEPT ![t] = G]
  BY <1>2
<1> QED  BY <1>1, <1>2, <1>3, <1>4, StackStep DEF CallsBecome

(* ... left, ...                                                           *)
LEMMA PopStep ==
  ASSUME Stacks, NEW t \in Threads, NEW op, In(t, op), frames' = [frames EXCEPT ![t] = Front(frames[t])]
  PROVE  CallsBecome(t, Calls(t) \ {Top(t)})
<1>1. frames[t] \in Seq(Frame) /\ frames[t] # <<>> /\ Rising(frames[t]) /\ Top(t) = Last(frames[t])
      /\ \A g \in Calls(t) : t \in Callers \/ g.op \in OtherOps
  BY TopIs
<1>2. PICK G \in Seq(Frame) : G = Front(frames[t]) /\ Rising(G) /\ Range(G) = Calls(t) \ {Top(t)}
  BY <1>1, StackParts DEF Calls
<1>3. \A g \in Range(G) : t \in Callers \/ g.op \in OtherOps
  BY <1>1, <1>2
<1>4. frames' = [frames EXCEPT ![t] = G]
  BY <1>2
<1> QED  BY <1>2, <1>3, <1>4, StackStep DEF CallsBecome, Stacks

(* ... or another takes its place.                                         *)
LEMMA ReplaceStep ==
  ASSUME Stacks, NEW t \in Threads, NEW op, In(t, op), NEW f \in Frame,
         Level(Top(t)) <= Level(f), t \in Callers \/ f.op \in OtherOps,
         frames' = [frames EXCEPT ![t] = Append(Front(frames[t]), f)]
  PROVE  CallsBecome(t, (Calls(t) \ {Top(t)}) \cup {f})
<1>1. frames[t] \in Seq(Frame) /\ frames[t] # <<>> /\ Rising(frames[t]) /\ Top(t) = Last(frames[t])
      /\ (\A g \in Calls(t) : t \in Callers \/ g.op \in OtherOps)
      /\ \A g \in Calls(t) \ {Top(t)} : Level(g) < Level(Top(t))
  BY TopIs
<1>2. PICK H \in Seq(Frame) : H = Front(frames[t]) /\ Rising(H) /\ Range(H) = Calls(t) \ {Top(t)}
  BY <1>1, StackParts DEF Calls
<1>3. \A g : Level(g) \in Nat
  BY DEF Level
<1>4. \A g \in Range(H) : Level(g) < Level(f)
  BY <1>1, <1>2, <1>3
<1>5. PICK G \in Seq(Frame) : G = Append(H, f) /\ Rising(G) /\ Range(G) = Range(H) \cup {f}
  BY <1>2, <1>4, Pushing
<1>6. \A g \in Range(G) : t \in Callers \/ g.op \in OtherOps
  BY <1>1, <1>2, <1>5
<1>7. frames' = [frames EXCEPT ![t] = G]
  BY <1>2, <1>5
<1>8. Range(G) = (Calls(t) \ {Top(t)}) \cup {f}
  BY <1>2, <1>5
<1> QED  BY <1>5, <1>6, <1>7, <1>8, StackStep DEF CallsBecome, Stacks

(* The fields of frames, and their levels.                                 *)
LEMMA FrameIs ==
  ASSUME NEW f \in Frame
  PROVE  /\ f.op = "delete" => f.d3d \in D3D /\ f.adapter \in Adapters
         /\ f.op = "timer" => f.d3d \in D3D
         /\ f.op = "make" => f.context \in Contexts /\ f.left \in Seq(Asked) /\ f.left # <<>>
         /\ f.op = "destroy" => f.context \in Contexts /\ f.left \in Seq(D3D) /\ f.left # <<>>
         /\ f.op = "set" => f.event \in UserEvents /\ f.state \in {"complete", "failed"}
         /\ f.op = "release" => f.event \in Events /\ f.saw \in Int
         /\ f.op = "handler" => f.event \in Commands /\ f.left \in Seq(Adapters)
BY DEF Frame

-----------------------------------------------------------------------------
(* What an action leaves alone                                             *)

\* In a set of calls S, those of some kinds, and those about an object.
Kind(S, ops) == {f \in S : f.op \in ops}
OfContext(S, c) == {f \in S : f.op \in {"make", "destroy"} /\ f.context = c}
OfEvent(S, e) == {f \in S : f.op \in {"set", "release", "handler"} /\ f.event = e}

\* Nothing changes for the devices, for context c, or for event e.
SameDevices ==
  /\ UNCHANGED <<registry, d3d, initLock, active, leaked>>
  /\ \A c \in Contexts : context'[c].devices = context[c].devices
  /\ \A t \in Threads : Kind(Calls(t)', {"timer", "delete"}) = Kind(Calls(t), {"timer", "delete"})

SameContext(c) ==
  /\ context'[c] = context[c] /\ Owners(c)' = Owners(c) /\ Children(c)' = Children(c)
  /\ \A t \in Threads : OfContext(Calls(t)', c) = OfContext(Calls(t), c)

SameEvent(e) ==
  /\ event'[e] = event[e]
  /\ \A t \in Threads : <<t, e>> \in owns' <=> <<t, e>> \in owns
  /\ \A t \in Threads : OfEvent(Calls(t)', e) = OfEvent(Calls(t), e)
  /\ event[e].state \notin {"none", "gone"} => context'[Home[e]].devices = context[Home[e]].devices

(* An event stays with its device, as a live context keeps its devices.    *)
LEMMA PlacedStays ==
  ASSUME NEW e \in Events, EventOk(e), event'[e].d3d = event[e].d3d,
         event'[e].state \notin {"none", "gone"} => event[e].state \notin {"none", "gone"},
         event[e].state \notin {"none", "gone"} => context'[Home[e]].devices = context[Home[e]].devices
  PROVE  Placed(e)'
BY DEF EventOk, Placed

(* The devices keep their part of the invariant, ...                       *)
LEMMA DevicesSteady ==
  ASSUME TypeInv, DevicesInv, SameDevices
  PROVE  DevicesInv'
<1>1. registry' = registry /\ d3d' = d3d /\ initLock' = initLock /\ active' = active /\ leaked' = leaked
  BY DEF SameDevices
<1>2. \A t \in Threads : \A f : f.op \in {"timer", "delete"} => (f \in Calls(t)' <=> f \in Calls(t))
  BY DEF SameDevices, Kind
<1>3. RegistryInv'
  BY <1>1 DEF DevicesInv, RegistryInv, On, Registered
<1>4. CountInv'
  <2> SUFFICES ASSUME NEW d \in D3D
               PROVE  (IsFiniteSet(Held(d))
                       /\ d3d[d].count = leaked[d] + Cardinality(Held(d)) + Cardinality(Timers(d)))'
    BY DEF CountInv
  <2>1. \A c \in Contexts : Places(c, d)' = Places(c, d)
    BY DEF SameDevices, Places
  <2>2. Held(d)' = Held(d)
    BY <2>1 DEF Held
  <2>3. \A t \in Threads : (\E f \in Calls(t)' : f.op = "timer" /\ f.d3d = d)
                           <=> (\E f \in Calls(t) : f.op = "timer" /\ f.d3d = d)
    BY <1>2
  <2>4. \A t \in Threads : (\E i \in DOMAIN frames'[t] : frames'[t][i].op = "timer" /\ frames'[t][i].d3d = d)
                           <=> (\E i \in DOMAIN frames[t] : frames[t][i].op = "timer" /\ frames[t][i].d3d = d)
    BY <2>3 DEF Calls, Range
  <2>5. Timers(d)' = Timers(d)
    BY <2>4 DEF Timers
  <2> QED  BY <1>1, <2>2, <2>5 DEF DevicesInv, CountInv
<1>5. DeleteInv'
  <2>1. /\ \A t \in Threads : \A f \in Calls(t)' : f.op = "delete" => f \in Calls(t)
        /\ \A t \in Threads : \A f \in Calls(t) : f.op = "delete" => f \in Calls(t)'
    BY <1>2
  <2>2. \A a \in Adapters : initLock[a] # Nothing => initLock[a] \in Threads
    BY DEF TypeInv
  <2>3. (\A t \in Threads : \A f \in Calls(t) : f.op = "delete" =>
          /\ d3d[f.d3d].count = 0 /\ d3d[f.d3d].state # "none"
          /\ initLock[f.adapter] = t)'
    BY <1>1, <2>1 DEF DevicesInv, DeleteInv
  <2>4. ASSUME NEW a \in Adapters, initLock[a] # Nothing, NEW t \in Threads, t = initLock[a]
        PROVE  \E f \in Calls(t)' : f.op = "delete" /\ f.adapter = a
    <3>1. PICK f \in Calls(t) : f.op = "delete" /\ f.adapter = a
      BY <2>4 DEF DevicesInv, DeleteInv
    <3> QED  BY <2>1, <3>1
  <2>5. (\A a \in Adapters : initLock[a] # Nothing =>
          \E f \in Calls(initLock[a]) : f.op = "delete" /\ f.adapter = a)'
    BY <1>1, <2>2, <2>4 DEF Calls
  <2> QED  BY <2>3, <2>5 DEF DeleteInv
<1> QED  BY <1>3, <1>4, <1>5 DEF DevicesInv

(* ... and so do a context ...                                             *)
LEMMA ContextSteady ==
  ASSUME NEW c \in Contexts, ContextOk(c), SameContext(c)
  PROVE  ContextOk(c)'
<1>1. context'[c] = context[c] /\ Owners(c)' = Owners(c) /\ Children(c)' = Children(c)
  BY DEF SameContext
<1>2. \A t \in Threads : \A f : f.op \in {"make", "destroy"} /\ f.context = c =>
        (f \in Calls(t)' <=> f \in Calls(t))
  BY DEF SameContext, OfContext
<1>3. ContextCounts(c)'
  BY <1>1 DEF ContextOk, ContextCounts
<1>4. Making(c)' /\ Destroying(c)'
  BY <1>1, <1>2 DEF ContextOk, Making, Destroying
<1> QED  BY <1>3, <1>4 DEF ContextOk

(* ... and an event.                                                       *)
LEMMA EventSteady ==
  ASSUME NEW e \in Events, EventOk(e), SameEvent(e)
  PROVE  EventOk(e)'
<1>1. event'[e] = event[e] /\ (\A t \in Threads : <<t, e>> \in owns' <=> <<t, e>> \in owns)
      /\ (event[e].state \notin {"none", "gone"} => context'[Home[e]].devices = context[Home[e]].devices)
  BY DEF SameEvent
<1>2. \A t \in Threads : \A f : f.op \in {"set", "release", "handler"} /\ f.event = e =>
        (f \in Calls(t)' <=> f \in Calls(t))
  BY DEF SameEvent, OfEvent
<1>3. Owners(e)' = Owners(e)
  BY <1>1 DEF Owners, Threads
<1>4. Releasing(e)' = Releasing(e)
  BY <1>2 DEF Releasing
<1>5. Handled(e)' <=> Handled(e)
  BY <1>2 DEF Handled
<1>6. EventCounts(e)'
  BY <1>1, <1>3, <1>4, <1>5 DEF EventOk, EventCounts
<1>7. Handling(e)'
  BY <1>1, <1>2 DEF EventOk, Handling, Handled
<1>8. Setting(e)'
  BY <1>1, <1>2, <1>4 DEF EventOk, Setting
<1>9. Ending(e)'
  BY <1>1, <1>2 DEF EventOk, Ending, Over
<1>10. Placed(e)'
  BY <1>1, PlacedStays
<1> QED  BY <1>6, <1>7, <1>8, <1>9, <1>10 DEF EventOk

(* Of a thread's calls, those of no such kind may change.                  *)
LEMMA DevicesAlone ==
  ASSUME TypeInv, DevicesInv, NEW t \in Threads, NEW S, CallsBecome(t, S),
         \A f \in S \cup Calls(t) : f.op \in {"timer", "delete"} => (f \in S <=> f \in Calls(t)),
         UNCHANGED <<registry, d3d, initLock, active, leaked>>,
         \A c \in Contexts : context'[c].devices = context[c].devices
  PROVE  DevicesInv'
<1>1. Calls(t)' = S /\ \A u \in Threads : u # t => Calls(u)' = Calls(u)
  BY DEF CallsBecome
<1>2. \A u \in Threads : Kind(Calls(u)', {"timer", "delete"}) = Kind(Calls(u), {"timer", "delete"})
  BY <1>1 DEF Kind
<1> QED  BY <1>2, DevicesSteady DEF SameDevices

(* The contexts outside X are left alone.                                  *)
LEMMA ContextsAlone ==
  ASSUME ContextsInv, NEW t \in Threads, NEW S, CallsBecome(t, S), NEW X,
         \A f \in S \cup Calls(t) : f.op \in {"make", "destroy"} /\ f.context \notin X
           => (f \in S <=> f \in Calls(t)),
         \A c \in Contexts \ X :
           context'[c] = context[c] /\ Owners(c)' = Owners(c) /\ Children(c)' = Children(c),
         \A c \in Contexts \cap X : ContextOk(c)'
  PROVE  ContextsInv'
<1>1. Calls(t)' = S /\ \A u \in Threads : u # t => Calls(u)' = Calls(u)
  BY DEF CallsBecome
<1>2. ASSUME NEW c \in Contexts \ X PROVE ContextOk(c)'
  <2>1. \A u \in Threads : OfContext(Calls(u)', c) = OfContext(Calls(u), c)
    BY <1>1 DEF OfContext
  <2> QED  BY <2>1, ContextSteady DEF SameContext, ContextsInv
<1> QED  BY <1>2 DEF ContextsInv

(* An event that a handler has keeps its context.                          *)
LEMMA HandledIsChild ==
  ASSUME TypeInv, NEW e \in Events, EventOk(e), Handled(e)
  PROVE  /\ event[e].context = Home[e] /\ Home[e] \in Contexts /\ e \in Children(Home[e])
         /\ e \in Commands /\ event[e].internal = 1
<1>1. \E t \in Threads : \E f \in Calls(t) : f.op = "handler" /\ f.event = e
  BY DEF Handled
<1>2. e \in Commands
  <2>1. PICK t \in Threads : \E f \in Calls(t) : f.op = "handler" /\ f.event = e
    BY <1>1
  <2>2. PICK f \in Calls(t) : f.op = "handler" /\ f.event = e
    BY <2>1
  <2>3. f \in Frame
    BY DEF TypeInv, Calls, Range
  <2> QED  BY <2>2, <2>3, FrameIs
<1>3. event[e].internal = 1
  BY <1>2 DEF EventOk, EventCounts
<1>4. event[e].state \notin {"none", "gone"} /\ event[e].context = Home[e]
  BY <1>3 DEF EventOk, EventCounts
<1>5. Home[e] \in Contexts
  BY LifetimesAssumption
<1> QED  BY <1>2, <1>3, <1>4, <1>5 DEF Children

(* A command that is not over is for a device of its context.              *)
LEMMA RunsOn ==
  ASSUME TypeInv, NEW e \in Commands, EventOk(e), event[e].state \notin {"none", "gone"}
  PROVE  /\ event[e].context = Home[e] /\ Home[e] \in Contexts /\ event[e].d3d \in D3D
         /\ \E i \in DOMAIN context[Home[e]].devices : context[Home[e]].devices[i] = event[e].d3d
<1>1. e \in Events /\ Home[e] \in Contexts
  BY LifetimesAssumption DEF Events
<1>2. PICK s \in Seq(D3D) : s = context[Home[e]].devices
  BY <1>1 DEF TypeInv, ContextRecord
<1>3. event[e].d3d \in Range(s)
  BY <1>2 DEF EventOk, Placed
<1> QED  BY <1>1, <1>2, <1>3 DEF Range, EventOk, EventCounts

(* The events outside X are left alone.                                    *)
LEMMA EventsAlone ==
  ASSUME TypeInv, EventsInv, NEW t \in Threads, NEW S, CallsBecome(t, S), NEW X,
         \A f \in S \cup Calls(t) : f.op \in {"set", "release", "handler"} /\ f.event \notin X
           => (f \in S <=> f \in Calls(t)),
         \A e \in Events \ X :
           event'[e] = event[e] /\ \A u \in Threads : <<u, e>> \in owns' <=> <<u, e>> \in owns,
         \A c \in Contexts : context'[c].devices = context[c].devices \/ Children(c) = {},
         \A e \in Events \cap X : EventOk(e)'
  PROVE  EventsInv'
<1>1. Calls(t)' = S /\ \A u \in Threads : u # t => Calls(u)' = Calls(u)
  BY DEF CallsBecome
<1>2. ASSUME NEW e \in Events \ X PROVE EventOk(e)'
  <2>1. \A u \in Threads : OfEvent(Calls(u)', e) = OfEvent(Calls(u), e)
    BY <1>1 DEF OfEvent
  <2>2. EventOk(e)
    BY DEF EventsInv
  <2>3. event[e].state \notin {"none", "gone"} => context'[Home[e]].devices = context[Home[e]].devices
    <3>1. Home[e] \in Contexts
      BY LifetimesAssumption
    <3>2. event[e].state \notin {"none", "gone"} => e \in Children(Home[e])
      BY <2>2 DEF EventOk, EventCounts, Children
    <3> QED  BY <3>1, <3>2
  <2> QED  BY <2>1, <2>2, <2>3, EventSteady DEF SameEvent
<1> QED  BY <1>2 DEF EventsInv

(* All contexts are left alone, or all but one.                            *)
LEMMA ContextsKept ==
  ASSUME ContextsInv, NEW t \in Threads, NEW S, CallsBecome(t, S),
         \A f \in S \cup Calls(t) : f.op \in {"make", "destroy"} => (f \in S <=> f \in Calls(t)),
         \A c \in Contexts :
           context'[c] = context[c] /\ Owners(c)' = Owners(c) /\ Children(c)' = Children(c)
  PROVE  ContextsInv'
<1>1. PICK X : X = {}
  OBVIOUS
<1> QED  BY <1>1, ContextsAlone

LEMMA ContextsBut ==
  ASSUME ContextsInv, NEW t \in Threads, NEW S, CallsBecome(t, S), NEW x \in Contexts,
         \A f \in S \cup Calls(t) : f.op \in {"make", "destroy"} /\ f.context # x
           => (f \in S <=> f \in Calls(t)),
         \A c \in Contexts : c # x =>
           context'[c] = context[c] /\ Owners(c)' = Owners(c) /\ Children(c)' = Children(c),
         ContextOk(x)'
  PROVE  ContextsInv'
<1>1. PICK X : X = {x}
  OBVIOUS
<1>2. \A f \in S \cup Calls(t) : f.op \in {"make", "destroy"} /\ f.context \notin X
        => (f \in S <=> f \in Calls(t))
  BY <1>1
<1>3. \A c \in Contexts \ X :
        context'[c] = context[c] /\ Owners(c)' = Owners(c) /\ Children(c)' = Children(c)
  BY <1>1
<1>4. \A c \in Contexts \cap X : ContextOk(c)'
  BY <1>1
<1> QED  BY <1>2, <1>3, <1>4, ContextsAlone

(* All events are left alone, or all but one.                              *)
LEMMA EventsKept ==
  ASSUME TypeInv, EventsInv, NEW t \in Threads, NEW S, CallsBecome(t, S),
         \A f \in S \cup Calls(t) : f.op \in {"set", "release", "handler"} => (f \in S <=> f \in Calls(t)),
         \A e \in Events :
           event'[e] = event[e] /\ \A u \in Threads : <<u, e>> \in owns' <=> <<u, e>> \in owns,
         \A c \in Contexts : context'[c].devices = context[c].devices \/ Children(c) = {}
  PROVE  EventsInv'
<1>1. PICK X : X = {}
  OBVIOUS
<1> QED  BY <1>1, EventsAlone

LEMMA EventsBut ==
  ASSUME TypeInv, EventsInv, NEW t \in Threads, NEW S, CallsBecome(t, S), NEW x \in Events,
         \A f \in S \cup Calls(t) : f.op \in {"set", "release", "handler"} /\ f.event # x
           => (f \in S <=> f \in Calls(t)),
         \A e \in Events : e # x =>
           event'[e] = event[e] /\ \A u \in Threads : <<u, e>> \in owns' <=> <<u, e>> \in owns,
         \A c \in Contexts : context'[c].devices = context[c].devices \/ Children(c) = {},
         EventOk(x)'
  PROVE  EventsInv'
<1>1. PICK X : X = {x}
  OBVIOUS
<1>2. \A f \in S \cup Calls(t) : f.op \in {"set", "release", "handler"} /\ f.event \notin X
        => (f \in S <=> f \in Calls(t))
  BY <1>1
<1>3. \A e \in Events \ X :
        event'[e] = event[e] /\ \A u \in Threads : <<u, e>> \in owns' <=> <<u, e>> \in owns
  BY <1>1
<1>4. \A e \in Events \cap X : EventOk(e)'
  BY <1>1
<1> QED  BY <1>2, <1>3, <1>4, EventsAlone

(* The lock of the task pool is left alone.                                *)
LEMMA LockAlone ==
  ASSUME TypeInv, LockInv, NEW t \in Threads, NEW S, CallsBecome(t, S), taskLock' = taskLock,
         \A f \in S \cup Calls(t) : f.op = "handler" => (f \in S <=> f \in Calls(t))
  PROVE  LockInv'
<1>1. Calls(t)' = S /\ \A u \in Threads : u # t => Calls(u)' = Calls(u)
  BY DEF CallsBecome
<1>2. /\ \A u \in Threads : \A f \in Calls(u)' : f.op = "handler" => f \in Calls(u)
      /\ \A u \in Threads : \A f \in Calls(u) : f.op = "handler" => f \in Calls(u)'
  BY <1>1
<1>3. (\A u \in Threads : \A f \in Calls(u) : f.op = "handler" => taskLock = u)'
  BY <1>2 DEF LockInv
<1>4. ASSUME NEW u \in Threads, u = taskLock PROVE \E f \in Calls(u)' : f.op = "handler"
  <2>0. taskLock # Nothing
    BY <1>4, LifetimesAssumption
  <2>1. PICK f \in Calls(u) : f.op = "handler"
    BY <1>4, <2>0 DEF LockInv
  <2> QED  BY <1>2, <2>1
<1>5. (taskLock # Nothing => \E f \in Calls(taskLock) : f.op = "handler")'
  <2>1. taskLock \in Threads \cup {Nothing}
    BY DEF TypeInv
  <2> QED  BY <1>4, <2>1 DEF Calls
<1> QED  BY <1>3, <1>5 DEF LockInv

(* No call begins or ends.                                                 *)
LEMMA NoCall ==
  ASSUME Stacks, UNCHANGED frames
  PROVE  \A t \in Threads : CallsBecome(t, Calls(t))
BY DEF Stacks, StacksInv, CallsBecome, Calls

(* The callback thread is a thread.                                        *)
LEMMA SomeThread == CallbackThread \in Callers /\ Callers \subseteq Threads
BY DEF Callers, Threads

-----------------------------------------------------------------------------
(* Counting                                                                *)

(* What a function lists is finite.                                        *)
LEMMA ImageFinite ==
  ASSUME NEW S, IsFiniteSet(S), NEW f, DOMAIN f = S
  PROVE  IsFiniteSet({f[x] : x \in S})
<1>1. PICK T : T = {f[x] : x \in S}
  OBVIOUS
<1>2. PICK g : g = [x \in S |-> f[x]]
  OBVIOUS
<1>3. g \in [S -> T] /\ \A y \in T : \E x \in S : g[x] = y
  BY <1>1, <1>2
<1>4. g \in Surjection(S, T)
  BY <1>3 DEF Surjection
<1> QED  BY <1>1, <1>4, FS_Surjection

(* Threads, and so those that have a call or a reference, are finite.      *)
LEMMA FiniteThreads ==
  /\ IsFiniteSet(Threads) /\ IsFiniteSet(D3D)
  /\ \A S : S \subseteq Threads => IsFiniteSet(S) /\ Cardinality(S) \in Nat
<1>1. IsFiniteSet(1 .. NumApps) /\ IsFiniteSet(D3D)
  BY FS_Interval, LifetimesAssumption DEF D3D
<1>2. IsFiniteSet(Apps)
  <2>1. PICK I : I = 1 .. NumApps
    OBVIOUS
  <2>2. PICK f : f = [i \in I |-> <<"app", i>>]
    OBVIOUS
  <2>3. {f[i] : i \in I} = Apps
    BY <2>1, <2>2 DEF Apps
  <2>4. IsFiniteSet(I) /\ DOMAIN f = I
    BY <1>1, <2>1, <2>2
  <2>5. IsFiniteSet({f[i] : i \in I})
    BY <2>4, ImageFinite
  <2> QED  BY <2>3, <2>5
<1>3. IsFiniteSet({Completion(d) : d \in D3D})
  <2>1. PICK f : f = [d \in D3D |-> Completion(d)]
    OBVIOUS
  <2>2. {f[d] : d \in D3D} = {Completion(d) : d \in D3D}
    BY <2>1
  <2> QED  BY <1>1, <2>1, <2>2, ImageFinite
<1>4. IsFiniteSet(Callers)
  BY <1>2, FS_AddElement DEF Callers
<1>5. IsFiniteSet(Threads)
  BY <1>3, <1>4, FS_Union DEF Threads
<1> QED  BY <1>1, <1>5, FS_Subset, FS_CardinalityType

(* One element more, or one less.                                          *)
LEMMA OneMore ==
  ASSUME NEW S, IsFiniteSet(S), NEW x, x \notin S
  PROVE  IsFiniteSet(S \cup {x}) /\ Cardinality(S \cup {x}) = Cardinality(S) + 1
BY FS_AddElement

LEMMA OneLess ==
  ASSUME NEW S, IsFiniteSet(S), NEW x \in S
  PROVE  /\ IsFiniteSet(S \ {x}) /\ Cardinality(S \ {x}) = Cardinality(S) - 1
         /\ Cardinality(S) \in Nat /\ Cardinality(S) > 0
BY FS_RemoveElement, FS_CardinalityType, FS_EmptySet

(* The references of contexts and events are counted in finite sets.       *)
LEMMA CountsAreFinite ==
  /\ \A x : IsFiniteSet(Owners(x)) /\ Cardinality(Owners(x)) \in Nat
  /\ \A c : IsFiniteSet(Children(c)) /\ Cardinality(Children(c)) \in Nat
  /\ \A e : IsFiniteSet(Releasing(e)) /\ Cardinality(Releasing(e)) \in Nat
<1>1. \A x : Owners(x) \subseteq Threads
  BY DEF Owners, Threads
<1>2. \A e : Releasing(e) \subseteq Threads
  BY DEF Releasing
<1>3. \A c : Children(c) \in SUBSET Events
  BY DEF Children
<1>4. \A c : IsFiniteSet(Children(c)) /\ Cardinality(Children(c)) \in Nat
  BY <1>3, FS_Subset, FS_CardinalityType, LifetimesAssumption
<1> QED  BY <1>1, <1>2, <1>4, FiniteThreads

-----------------------------------------------------------------------------
(* Events and callbacks                                                    *)

(* A user event is to be set.                                              *)
LEMMA clSetUserEventStatusInv ==
  ASSUME Inv, NEW t \in Callers, NEW e \in Events, clSetUserEventStatus(t, e)
  PROVE  Inv'
<1>0. Stacks /\ t \in Threads /\ TypeInv
  BY SomeThread DEF Inv, Stacks, TypeInv
<1>1. /\ MayCall(t) /\ <<t, e>> \in owns /\ e \in UserEvents
      /\ UNCHANGED <<context, owns, deviceVars, eventVars>>
  BY DEF clSetUserEventStatus
<1>2. PICK s \in {"complete", "failed"} :
        frames' = [frames EXCEPT ![t] = Append(frames[t], [op |-> "set", event |-> e, state |-> s])]
  BY DEF clSetUserEventStatus, Push
<1>3. PICK f : f = [op |-> "set", event |-> e, state |-> s]
                 /\ frames' = [frames EXCEPT ![t] = Append(frames[t], f)]
  BY <1>2
<1>4. f \in Frame /\ f.op = "set" /\ f.event = e /\ Level(f) = 3
  BY <1>1, <1>3 DEF Frame, Level
<1>5. \A g \in Calls(t) : g.op = "callback" /\ Level(g) = 1
  BY <1>0, <1>1, MayCallIs
<1>6. PICK S : S = Calls(t) \cup {f} /\ CallsBecome(t, S)
  <2>1. \A g \in Calls(t) : Level(g) < Level(f)
    BY <1>4, <1>5
  <2> QED  BY <1>0, <1>3, <1>4, <2>1, PushStep
<1>7. frames' \in [Threads -> Seq(Frame)] /\ StacksInv' /\ Calls(t)' = S
      /\ \A u \in Threads : u # t => Calls(u)' = Calls(u)
  BY <1>6 DEF CallsBecome
<1>8. TypeInv'
  BY <1>0, <1>1, <1>7 DEF TypeInv, deviceVars, eventVars
<1>9. DevicesInv'
  BY <1>0, <1>1, <1>4, <1>6, DevicesAlone DEF Inv, deviceVars
<1>10. ContextsInv'
  <2>1. \A c \in Contexts : context'[c] = context[c] /\ Owners(c)' = Owners(c) /\ Children(c)' = Children(c)
    BY <1>1 DEF Owners, Children, eventVars
  <2> QED  BY <1>0, <1>4, <1>6, <2>1, ContextsKept DEF Inv
<1>11. EventOk(e)'
  <2>1. EventOk(e) /\ event' = event /\ owns' = owns /\ context' = context
    BY <1>1 DEF Inv, EventsInv, eventVars
  <2>2. \A u \in Threads : \A g : g.op \in {"release", "handler"} => (g \in Calls(u)' <=> g \in Calls(u))
    BY <1>4, <1>6, <1>7
  <2>3. Releasing(e)' = Releasing(e) /\ Owners(e)' = Owners(e) /\ (Handled(e)' <=> Handled(e))
    BY <2>1, <2>2 DEF Releasing, Owners, Handled
  <2>4. EventCounts(e)' /\ Handling(e)'
    BY <2>1, <2>2, <2>3 DEF EventOk, EventCounts, Handling
  <2>5. \A u \in Threads : Calls(u) \subseteq Calls(u)'
    BY <1>6, <1>7
  <2>6. Ending(e)'
    BY <2>1, <2>2, <2>5 DEF EventOk, Ending, Over
  <2>7. Setting(e)'
    BY <1>1, <1>6, <1>7, <2>1, <2>3 DEF EventOk, Setting
  <2>8. Placed(e)'
    BY <2>1, PlacedStays
  <2> QED  BY <2>4, <2>6, <2>7, <2>8 DEF EventOk
<1>12. EventsInv'
  <2>1. \A f1 \in S \cup Calls(t) : f1.op \in {"set", "release", "handler"} /\ f1.event # e
           => (f1 \in S <=> f1 \in Calls(t))
    BY <1>4, <1>6
  <2>2. event' = event /\ owns' = owns /\ context' = context
    BY <1>1 DEF eventVars
  <2> QED  BY <1>0, <1>6, <1>11, <2>1, <2>2, EventsBut DEF Inv
<1>13. LockInv' /\ CallbackInv'
  <2>1. LockInv'
    BY <1>0, <1>1, <1>4, <1>6, LockAlone DEF Inv, eventVars
  <2>2. CallbackInv'
    BY <1>1 DEF Inv, CallbackInv, Over, eventVars
  <2> QED  BY <2>1, <2>2
<1> QED  BY <1>7, <1>8, <1>9, <1>10, <1>12, <1>13 DEF Inv

(* Only callbacks go on.                                                   *)
LEMMA QuietStep ==
  ASSUME Inv, NEW t \in Threads, NEW S, CallsBecome(t, S),
         \A f \in S \cup Calls(t) : f.op # "callback" => (f \in S <=> f \in Calls(t)),
         UNCHANGED <<context, owns, event, taskLock, deviceVars>>,
         callbacks' \in [Callbacks -> CallbackRecord], queue' \in Seq(Callbacks), CallbackInv'
  PROVE  Inv'
<1>1. TypeInv
  BY DEF Inv
<1>2. frames' \in [Threads -> Seq(Frame)] /\ StacksInv'
  BY DEF CallsBecome
<1>3. TypeInv'
  BY <1>1, <1>2 DEF TypeInv, deviceVars
<1>4. DevicesInv'
  BY <1>1, DevicesAlone DEF Inv, deviceVars
<1>5. \A c \in Contexts : context'[c] = context[c] /\ Owners(c)' = Owners(c) /\ Children(c)' = Children(c)
  BY DEF Owners, Children
<1>6. ContextsInv'
  BY <1>5, ContextsKept DEF Inv
<1>7. EventsInv'
  BY <1>1, EventsKept DEF Inv
<1>8. LockInv'
  BY <1>1, LockAlone DEF Inv
<1> QED  BY <1>2, <1>3, <1>4, <1>6, <1>7, <1>8 DEF Inv

(* A callback begins, ...                                                  *)
LEMMA BeginCallbackInv ==
  ASSUME Inv, BeginCallback
  PROVE  Inv'
<1>0. Stacks /\ CallbackThread \in Threads /\ CallbackThread \in Callers /\ TypeInv
  BY SomeThread DEF Inv, Stacks, TypeInv
<1>1. PICK t \in Threads : t = CallbackThread /\ t \in Callers
  BY <1>0
<1>2. /\ frames[t] = <<>> /\ queue # <<>> /\ queue' = Tail(queue)
      /\ callbacks' = [callbacks EXCEPT ![Head(queue)].at = "called"]
      /\ UNCHANGED <<context, owns, event, taskLock, deviceVars>>
  BY <1>1 DEF BeginCallback
<1>3. PICK f : f = [op |-> "callback"] /\ frames' = [frames EXCEPT ![t] = Append(frames[t], f)]
  BY <1>1 DEF BeginCallback, Push
<1>4. f \in Frame /\ f.op = "callback"
  BY <1>3 DEF Frame
<1>5. Calls(t) = {}
  BY <1>2 DEF Calls, Range
<1>6. PICK S : S = Calls(t) \cup {f} /\ CallsBecome(t, S)
  BY <1>0, <1>1, <1>3, <1>4, <1>5, PushStep
<1>7. queue \in Seq(Callbacks) /\ Head(queue) \in Callbacks /\ queue' \in Seq(Callbacks)
  BY <1>0, <1>2 DEF TypeInv
<1>8. callbacks' \in [Callbacks -> CallbackRecord]
  BY <1>0, <1>2, <1>7 DEF TypeInv, CallbackRecord
<1>9. CallbackInv'
  BY <1>0, <1>2, <1>7 DEF Inv, CallbackInv, Over, TypeInv, CallbackRecord
<1> QED  BY <1>2, <1>4, <1>6, <1>7, <1>8, <1>9, QuietStep

(* ... and ends, ...                                                       *)
LEMMA EndCallbackInv ==
  ASSUME Inv, EndCallback
  PROVE  Inv'
<1>0. Stacks /\ CallbackThread \in Threads /\ TypeInv
  BY SomeThread DEF Inv, Stacks, TypeInv
<1>1. PICK t \in Threads : t = CallbackThread
  BY <1>0
<1>2. /\ In(t, "callback") /\ frames' = [frames EXCEPT ![t] = Front(frames[t])]
      /\ UNCHANGED <<context, owns, deviceVars, eventVars>>
  BY <1>1 DEF EndCallback, Pop
<1>3. Top(t) \in Calls(t) /\ Top(t).op = "callback"
  BY <1>0, <1>2, TopIs
<1>4. PICK S : S = Calls(t) \ {Top(t)} /\ CallsBecome(t, S)
  BY <1>0, <1>2, PopStep
<1>5. callbacks' \in [Callbacks -> CallbackRecord] /\ queue' \in Seq(Callbacks) /\ CallbackInv'
  BY <1>0, <1>2 DEF Inv, TypeInv, CallbackInv, Over, eventVars
<1>6. \A f \in S \cup Calls(t) : f.op # "callback" => (f \in S <=> f \in Calls(t))
  BY <1>3, <1>4
<1>7. UNCHANGED <<context, owns, event, taskLock, deviceVars>>
  BY <1>2 DEF eventVars
<1> QED  BY <1>4, <1>5, <1>6, <1>7, QuietStep

(* ... and one is registered.                                              *)
LEMMA clSetEventCallbackInv ==
  ASSUME Inv, NEW t \in Callers, NEW k \in Callbacks, NEW e \in Events, clSetEventCallback(t, k, e)
  PROVE  Inv'
<1>0. Stacks /\ t \in Threads /\ TypeInv
  BY SomeThread DEF Inv, Stacks, TypeInv
<1>1. /\ callbacks' = [callbacks EXCEPT ![k] = [at |-> IF Over(e) THEN "called" ELSE "event", event |-> e]]
      /\ UNCHANGED <<context, owns, event, taskLock, deviceVars>>
      /\ UNCHANGED frames /\ queue' = queue
  BY DEF clSetEventCallback
<1>2. CallsBecome(t, Calls(t))
  BY <1>0, <1>1, NoCall
<1>3. callbacks' \in [Callbacks -> CallbackRecord] /\ queue' \in Seq(Callbacks)
  BY <1>0, <1>1 DEF TypeInv, CallbackRecord
<1>4. CallbackInv'
  BY <1>0, <1>1 DEF Inv, TypeInv, CallbackRecord, CallbackInv, Over
<1> QED  BY <1>0, <1>1, <1>2, <1>3, <1>4, QuietStep

(* SetToSeq lists a finite set.                                            *)
LEMMA ListIsSeq ==
  ASSUME NEW S, IsFiniteSet(S)
  PROVE  SetToSeq(S) \in Seq(S)
<1>1. PICK n \in Nat : n = Cardinality(S) /\ ExistsBijection(1 .. n, S)
  BY FS_CardinalityType
<1>2. \E f \in [1 .. n -> S] : IsInjective(f)
  BY <1>1 DEF ExistsBijection, Bijection, Injection
<1>3. SetToSeq(S) \in [1 .. n -> S]
  BY <1>1, <1>2 DEF SetToSeq
<1> QED  BY <1>3, SeqDef

(* A sequence over a part of a set.                                        *)
LEMMA SeqOfSubset ==
  ASSUME NEW S, NEW T \in SUBSET S, NEW s \in Seq(T)
  PROVE  s \in Seq(S)
OBVIOUS

(* A device of a context is counted, and is in the lists.                  *)
LEMMA DevicesCounted ==
  ASSUME TypeInv, DevicesInv, NEW c \in Contexts, NEW i \in DOMAIN context[c].devices
  PROVE  /\ context[c].devices[i] \in D3D /\ d3d[context[c].devices[i]].count > 0
         /\ d3d[context[c].devices[i]].state = "live" /\ active > 0
         /\ \E a \in Adapters : On(context[c].devices[i], a)
<1>1. context[c].devices \in Seq(D3D)
  BY DEF TypeInv, ContextRecord
<1>2. PICK d \in D3D : d = context[c].devices[i]
  BY <1>1
<1>3. <<c, i>> \in Held(d)
  BY <1>2 DEF Held, Places
<1>4. Cardinality(Held(d)) \in Nat /\ Cardinality(Held(d)) > 0
  BY <1>3, FS_EmptySet, FS_CardinalityType DEF DevicesInv, CountInv
<1>5. Timers(d) \subseteq Threads
  BY DEF Timers
<1>6. leaked[d] \in Nat /\ Cardinality(Timers(d)) \in Nat
  BY <1>5, FiniteThreads DEF TypeInv
<1>7. d3d[d].count = leaked[d] + Cardinality(Held(d)) + Cardinality(Timers(d))
  BY DEF DevicesInv, CountInv
<1>8. d3d[d].count > 0
  BY <1>4, <1>6, <1>7
<1>9. d3d[d].state = "live" /\ \E a \in Adapters : On(d, a)
  BY <1>8 DEF DevicesInv, RegistryInv
<1>10. d \in Registered
  BY <1>9 DEF On, Registered
<1>11. Registered \in SUBSET D3D
  BY DEF Registered, TypeInv, Range
<1>12. IsFiniteSet(Registered)
  BY <1>11, FiniteThreads, FS_Subset
<1>13. Cardinality(Registered) \in Nat /\ Cardinality(Registered) > 0
  BY <1>10, <1>12, FS_EmptySet, FS_CardinalityType
<1>14. active > 0
  BY <1>13 DEF DevicesInv, RegistryInv
<1> QED  BY <1>2, <1>8, <1>9, <1>14

(* Who refers to an event finds it alive, and its context with it.         *)
LEMMA EventIsAlive ==
  ASSUME Inv, NEW e \in Events,
         Owners(e) # {} \/ Releasing(e) # {} \/ Handled(e) \/ event[e].state \notin {"none", "gone"}
  PROVE  /\ event[e].state \notin {"none", "gone"}
         /\ event[e].context = Home[e] /\ Home[e] \in Contexts /\ e \in Children(Home[e])
         /\ context[Home[e]].state = "live" /\ context[Home[e]].internal > 0 /\ active > 0
<1>0. TypeInv /\ EventOk(e)
  BY DEF Inv, EventsInv, TypeInv
<1>1. event[e].state \notin {"none", "gone"}
  <2>1. ASSUME Owners(e) # {} \/ Releasing(e) # {} PROVE event[e].refs # 0
    <3>1. \A T : IsFiniteSet(T) /\ T # {} => Cardinality(T) # 0
      BY FS_EmptySet
    <3>2. Cardinality(Owners(e)) \in Nat /\ Cardinality(Releasing(e)) \in Nat
          /\ (Owners(e) # {} => Cardinality(Owners(e)) # 0)
          /\ (Releasing(e) # {} => Cardinality(Releasing(e)) # 0)
      BY <3>1, CountsAreFinite
    <3>3. event[e].refs = Cardinality(Owners(e)) + Cardinality(Releasing(e))
      BY <1>0 DEF EventOk, EventCounts
    <3> QED  BY <2>1, <3>2, <3>3
  <2>2. Handled(e) => event[e].internal = 1
    BY <1>0, HandledIsChild
  <2> QED  BY <1>0, <2>1, <2>2 DEF EventOk, EventCounts
<1>2. PICK c \in Contexts : c = Home[e]
  BY LifetimesAssumption
<1>3. event[e].context = c /\ e \in Children(c)
  BY <1>0, <1>1, <1>2 DEF EventOk, EventCounts, Children
<1>4. context[c].internal > 0
  <2>1. Cardinality(Children(c)) > 0
    BY <1>3, CountsAreFinite, FS_EmptySet
  <2> QED  BY <2>1 DEF Inv, ContextsInv, ContextOk, ContextCounts
<1>5. context[c].state = "live" /\ context[c].devices # <<>>
  BY <1>4 DEF Inv, ContextsInv, ContextOk, ContextCounts
<1>6. 1 \in DOMAIN context[c].devices
  BY <1>0, <1>5 DEF TypeInv, ContextRecord
<1>7. active > 0
  BY <1>0, <1>6, DevicesCounted DEF Inv
<1> QED  BY <1>1, <1>2, <1>3, <1>4, <1>5, <1>7

(* An event completes, and its callbacks are on their way.                 *)
LEMMA CompleteIs ==
  ASSUME TypeInv, CallbackInv, NEW e \in Events, NEW s \in {"complete", "failed"},
         active > 0, event[e].state \notin {"none", "gone"}, Complete(e, s)
  PROVE  /\ event' \in [Events -> EventRecord] /\ event'[e].state \in {"complete", "failed"}
         /\ event'[e].refs = event[e].refs /\ event'[e].internal = event[e].internal
         /\ event'[e].context = event[e].context /\ event'[e].d3d = event[e].d3d
         /\ \A x \in Events : x # e => event'[x] = event[x]
         /\ callbacks' \in [Callbacks -> CallbackRecord] /\ queue' \in Seq(Callbacks)
         /\ CallbackInv'
<1>1. CASE Over(e)
  <2>1. UNCHANGED <<event, callbacks, queue>>
    BY <1>1 DEF Complete
  <2>2. CallbackInv'
    BY <2>1 DEF CallbackInv, Over
  <2> QED  BY <1>1, <2>1, <2>2 DEF TypeInv, Over
<1>2. CASE ~Over(e)
  <2>1. /\ event' = [event EXCEPT ![e].state = s] /\ queue' = queue \o SetToSeq(Called(e))
        /\ callbacks' = [k \in Callbacks |-> IF k \notin Called(e) THEN callbacks[k]
                                             ELSE [callbacks[k] EXCEPT !.at = "queue"]]
    BY <1>2 DEF Complete
  <2>2. Called(e) \in SUBSET Callbacks
    BY DEF Called
  <2>3. SetToSeq(Called(e)) \in Seq(Callbacks)
    BY <2>2, FS_Subset, ListIsSeq, SeqOfSubset, LifetimesAssumption
  <2>4. callbacks' \in [Callbacks -> CallbackRecord] /\ queue' \in Seq(Callbacks)
    <3>1. queue' \in Seq(Callbacks)
      <4>1. PICK s1 \in Seq(Callbacks), s2 \in Seq(Callbacks) : s1 = queue /\ s2 = SetToSeq(Called(e))
        BY <2>3 DEF TypeInv
      <4> QED  BY <2>1, <4>1
    <3>2. ASSUME NEW k \in Callbacks PROVE callbacks'[k] \in CallbackRecord
      <4>1. PICK old \in CallbackRecord : old = callbacks[k]
        BY DEF TypeInv
      <4>2. [old EXCEPT !.at = "queue"] \in CallbackRecord
        BY DEF CallbackRecord
      <4>3. callbacks'[k] = old \/ callbacks'[k] = [old EXCEPT !.at = "queue"]
        BY <2>1, <4>1
      <4> QED  BY <4>2, <4>3
    <3>3. callbacks' = [k \in Callbacks |-> callbacks'[k]]
      BY <2>1
    <3> QED  BY <3>1, <3>2, <3>3
  <2>5. /\ event' \in [Events -> EventRecord] /\ event'[e].state = s
        /\ event'[e].refs = event[e].refs /\ event'[e].internal = event[e].internal
        /\ event'[e].context = event[e].context /\ event'[e].d3d = event[e].d3d
        /\ \A x \in Events : x # e => event'[x] = event[x]
    BY <2>1 DEF TypeInv, EventRecord
  <2>6. CallbackInv'
    <3> SUFFICES ASSUME NEW k \in Callbacks
                 PROVE  (/\ callbacks[k].at # "cancelled"
                         /\ callbacks[k].at = "event" => callbacks[k].event \in Events /\ ~Over(callbacks[k].event))'
      BY DEF CallbackInv
    <3>1. callbacks[k] \in CallbackRecord
      BY DEF TypeInv
    <3>2. CASE k \in Called(e)
      BY <2>1, <3>1, <3>2 DEF CallbackRecord
    <3>3. CASE k \notin Called(e)
      <4>1. callbacks'[k] = callbacks[k]
        BY <2>1, <3>3
      <4>2. ASSUME callbacks[k].at = "event" PROVE callbacks[k].event # e
        <5>1. callbacks[k].event = e => callbacks[k] = [at |-> "event", event |-> e]
          BY <3>1, <4>2 DEF CallbackRecord
        <5> QED  BY <3>3, <5>1 DEF Called
      <4> QED  BY <2>5, <4>1, <4>2 DEF CallbackInv, Over
    <3> QED  BY <3>2, <3>3
  <2> QED  BY <2>4, <2>5, <2>6
<1> QED  BY <1>1, <1>2

(* The frames of one kind say who releases and who handles an event.       *)
LEMMA SameReleases ==
  ASSUME NEW e, NEW t \in Threads, NEW S, CallsBecome(t, S),
         \A f \in S \cup Calls(t) : f.op \in {"release", "handler"} => (f \in S <=> f \in Calls(t))
  PROVE  Releasing(e)' = Releasing(e) /\ (Handled(e)' <=> Handled(e))
<1>1. Calls(t)' = S /\ \A u \in Threads : u # t => Calls(u)' = Calls(u)
  BY DEF CallsBecome
<1>2. \A u \in Threads : \A f : f.op \in {"release", "handler"} => (f \in Calls(u)' <=> f \in Calls(u))
  BY <1>1
<1> QED  BY <1>2 DEF Releasing, Handled

(* A user event is set.                                                    *)
LEMMA UserEventCompleteInv ==
  ASSUME Inv, NEW t \in Threads, UserEventComplete(t)
  PROVE  Inv'
<1>0. Stacks /\ TypeInv
  BY DEF Inv, Stacks, TypeInv
<1>1. /\ In(t, "set") /\ Complete(Top(t).event, Top(t).state)
      /\ frames' = [frames EXCEPT ![t] = Front(frames[t])]
      /\ UNCHANGED <<context, owns, taskLock, deviceVars>>
  BY DEF UserEventComplete, Pop
<1>2. Top(t) \in Calls(t) /\ Top(t).op = "set" /\ Top(t) \in Frame /\ \A f \in Calls(t) : f \in Frame
  BY <1>0, <1>1, TopIs
<1>3. PICK e \in UserEvents : e = Top(t).event
  BY <1>2, FrameIs
<1>4. PICK s \in {"complete", "failed"} : s = Top(t).state
  BY <1>2, FrameIs
<1>5. PICK S : S = Calls(t) \ {Top(t)} /\ CallsBecome(t, S)
  BY <1>0, <1>1, PopStep
<1>6. frames' \in [Threads -> Seq(Frame)] /\ StacksInv' /\ Calls(t)' = S
      /\ \A u \in Threads : u # t => Calls(u)' = Calls(u)
  BY <1>5 DEF CallsBecome
<1>7. e \in Events /\ e \notin Commands /\ EventOk(e)
  BY LifetimesAssumption DEF Events, Inv, EventsInv
<1>8. Owners(e) # {} \/ Releasing(e) # {}
  BY <1>0, <1>2, <1>3, <1>7 DEF EventOk, Setting, Owners, TypeInv
<1>9. active > 0 /\ event[e].state \notin {"none", "gone"}
  BY <1>7, <1>8, EventIsAlive
<1>10. /\ event' \in [Events -> EventRecord] /\ event'[e].state \in {"complete", "failed"}
       /\ event'[e].refs = event[e].refs /\ event'[e].internal = event[e].internal
       /\ event'[e].context = event[e].context /\ event'[e].d3d = event[e].d3d
       /\ \A x \in Events : x # e => event'[x] = event[x]
       /\ callbacks' \in [Callbacks -> CallbackRecord] /\ queue' \in Seq(Callbacks)
       /\ CallbackInv'
  <2>1. Complete(e, s) /\ CallbackInv
    BY <1>1, <1>3, <1>4 DEF Inv
  <2> QED  BY <1>0, <1>7, <1>9, <2>1, CompleteIs
<1>11. TypeInv'
  BY <1>0, <1>1, <1>6, <1>10 DEF TypeInv, deviceVars
<1>12. DevicesInv'
  BY <1>0, <1>1, <1>2, <1>5, DevicesAlone DEF Inv, deviceVars
<1>13. ContextsInv'
  <2>1. \A x \in Events : event'[x].context = event[x].context
          /\ (event'[x].state \notin {"none", "gone"} <=> event[x].state \notin {"none", "gone"})
    BY <1>9, <1>10
  <2>2. \A c \in Contexts : context'[c] = context[c] /\ Owners(c)' = Owners(c) /\ Children(c)' = Children(c)
    BY <1>1, <2>1 DEF Owners, Children
  <2> QED  BY <1>2, <1>5, <2>2, ContextsKept DEF Inv
<1>14. EventOk(e)'
  <2>1. Releasing(e)' = Releasing(e) /\ (Handled(e)' <=> Handled(e)) /\ Owners(e)' = Owners(e)
    BY <1>1, <1>2, <1>5, SameReleases DEF Owners
  <2>2. EventCounts(e)'
    BY <1>7, <1>9, <1>10, <2>1 DEF EventOk, EventCounts
  <2>3. event'[e].d3d = event[e].d3d /\ event'[e].state # "submitted"
    BY <1>1, <1>10
  <2>4. \A u \in Threads : Calls(u)' \subseteq Calls(u)
    BY <1>5, <1>6
  <2>5. Handling(e)'
    BY <1>7, <2>3, <2>4 DEF EventOk, Handling
  <2>6. Setting(e)'
    BY <1>1, <1>7, <2>1, <2>4 DEF EventOk, Setting
  <2>7. Ending(e)'
    BY <1>10 DEF Ending, Over
  <2>8. Placed(e)'
    BY <1>1, <1>7, <1>9, <1>10, PlacedStays
  <2> QED  BY <2>2, <2>5, <2>6, <2>7, <2>8 DEF EventOk
<1>15. EventsInv'
  <2>1. \A f \in S \cup Calls(t) : f.op \in {"set", "release", "handler"} /\ f.event # e
          => (f \in S <=> f \in Calls(t))
    BY <1>3, <1>5
  <2> QED  BY <1>0, <1>1, <1>5, <1>7, <1>10, <1>14, <2>1, EventsBut DEF Inv
<1>16. LockInv'
  BY <1>0, <1>1, <1>2, <1>5, LockAlone DEF Inv
<1> QED  BY <1>6, <1>10, <1>11, <1>12, <1>13, <1>15, <1>16 DEF Inv

(* A completion thread flushes one device after the other.                 *)
LEMMA FlushAllDevicesInv ==
  ASSUME Inv, NEW d \in D3D, FlushAllDevices(d)
  PROVE  Inv'
<1>0. Stacks /\ TypeInv
  BY DEF Inv, Stacks, TypeInv
<1>1. PICK t \in Threads : t = Completion(d)
  BY DEF Threads
<1>2. /\ In(t, "handler") /\ Top(t).left # <<>>
      /\ frames' = [frames EXCEPT ![t] = Append(Front(frames[t]), [Top(t) EXCEPT !.left = Tail(@)])]
      /\ UNCHANGED <<context, owns, deviceVars, eventVars>>
  BY <1>1 DEF FlushAllDevices, Replace
<1>3. Top(t) \in Calls(t) /\ Top(t).op = "handler" /\ Top(t) \in Frame /\ \A f \in Calls(t) : f \in Frame
  BY <1>0, <1>2, TopIs
<1>4. PICK g : g = [Top(t) EXCEPT !.left = Tail(@)] /\ frames' = [frames EXCEPT ![t] = Append(Front(frames[t]), g)]
  BY <1>2
<1>5. g \in Frame /\ g.op = "handler" /\ g.event = Top(t).event
  <2>1. Top(t) \in [op : {"handler"}, event : Commands, left : Seq(Adapters)]
    BY <1>3 DEF Frame
  <2>2. PICK f \in [op : {"handler"}, event : Commands, left : Seq(Adapters)] : f = Top(t)
    BY <2>1
  <2>3. f.left # <<>> /\ g = [f EXCEPT !.left = Tail(f.left)] /\ Tail(f.left) \in Seq(Adapters)
    BY <1>2, <1>4, <2>2
  <2>4. g \in [op : {"handler"}, event : Commands, left : Seq(Adapters)] /\ g.event = f.event
    BY <2>3
  <2> QED  BY <2>2, <2>4 DEF Frame
<1>6. Level(Top(t)) = 2 /\ Level(g) = 2 /\ Level(Top(t)) <= Level(g)
  BY <1>3, <1>5 DEF Level
<1>7. PICK S : S = (Calls(t) \ {Top(t)}) \cup {g} /\ CallsBecome(t, S)
  <2>1. t \in Callers \/ g.op \in OtherOps
    BY <1>5 DEF OtherOps
  <2> QED  BY <1>0, <1>2, <1>4, <1>5, <1>6, <2>1, ReplaceStep
<1>8. frames' \in [Threads -> Seq(Frame)] /\ StacksInv' /\ Calls(t)' = S
      /\ \A u \in Threads : u # t => Calls(u)' = Calls(u)
  BY <1>7 DEF CallsBecome
<1>9. PICK e \in Commands : e = Top(t).event
  BY <1>3, FrameIs
<1>10. e \in Events /\ EventOk(e)
  BY DEF Events, Inv, EventsInv
<1>11. TypeInv'
  BY <1>0, <1>2, <1>8 DEF TypeInv, deviceVars, eventVars
<1>12. DevicesInv'
  BY <1>0, <1>2, <1>3, <1>5, <1>7, DevicesAlone DEF Inv, deviceVars
<1>13. ContextsInv'
  <2>1. \A c \in Contexts : context'[c] = context[c] /\ Owners(c)' = Owners(c) /\ Children(c)' = Children(c)
    BY <1>2 DEF Owners, Children, eventVars
  <2> QED  BY <1>3, <1>5, <1>7, <2>1, ContextsKept DEF Inv
<1>14. EventOk(e)'
  <2>0. event' = event /\ context' = context /\ owns' = owns
    BY <1>2 DEF eventVars
  <2>1. \A u \in Threads : \A f : f.op \in {"set", "release"} => (f \in Calls(u)' <=> f \in Calls(u))
    BY <1>3, <1>5, <1>7, <1>8
  <2>2. \A u \in Threads : (\E f \in Calls(u)' : f.op = "handler" /\ f.event = e)
                           <=> (\E f \in Calls(u) : f.op = "handler" /\ f.event = e)
    BY <1>3, <1>5, <1>7, <1>8, <1>9
  <2>3. Releasing(e)' = Releasing(e) /\ (Handled(e)' <=> Handled(e)) /\ Owners(e)' = Owners(e)
    BY <2>0, <2>1, <2>2 DEF Releasing, Handled, Owners
  <2>4. EventCounts(e)' /\ Handling(e)'
    BY <1>10, <2>0, <2>2, <2>3 DEF EventOk, EventCounts, Handling
  <2>5. Setting(e)' /\ Ending(e)'
    BY <1>10, <2>0, <2>1, <2>3 DEF EventOk, Setting, Ending, Over
  <2>6. Placed(e)'
    BY <1>10, <2>0, PlacedStays
  <2> QED  BY <2>4, <2>5, <2>6 DEF EventOk
<1>15. EventsInv'
  <2>1. \A f \in S \cup Calls(t) : f.op \in {"set", "release", "handler"} /\ f.event # e
          => (f \in S <=> f \in Calls(t))
    BY <1>5, <1>7, <1>9
  <2>2. event' = event /\ owns' = owns /\ context' = context
    BY <1>2 DEF eventVars
  <2> QED  BY <1>0, <1>7, <1>10, <1>14, <2>1, <2>2, EventsBut DEF Inv
<1>16. LockInv'
  <2>1. \A u \in Threads : (\E f \in Calls(u)' : f.op = "handler") <=> (\E f \in Calls(u) : f.op = "handler")
    BY <1>3, <1>5, <1>7, <1>8
  <2>2. taskLock' = taskLock /\ taskLock \in Threads \cup {Nothing}
    BY <1>0, <1>2 DEF eventVars, TypeInv
  <2>3. (\A u \in Threads : \A f \in Calls(u) : f.op = "handler" => taskLock = u)'
    BY <2>1, <2>2 DEF Inv, LockInv
  <2>4. ASSUME NEW u \in Threads, u = taskLock PROVE \E f \in Calls(u)' : f.op = "handler"
    BY <2>1, <2>4, LifetimesAssumption DEF Inv, LockInv
  <2>5. (taskLock # Nothing => \E f \in Calls(taskLock) : f.op = "handler")'
    BY <2>2, <2>4 DEF Calls
  <2> QED  BY <2>3, <2>5 DEF LockInv
<1>17. CallbackInv'
  BY <1>2 DEF Inv, CallbackInv, Over, eventVars
<1> QED  BY <1>8, <1>11, <1>12, <1>13, <1>15, <1>16, <1>17 DEF Inv

(* The handler of a submission begins: it has the lock.                    *)
LEMMA CompletionBeginsInv ==
  ASSUME Inv, NEW e \in Commands, CompletionBegins(e)
  PROVE  Inv'
<1>0. Stacks /\ TypeInv
  BY DEF Inv, Stacks, TypeInv
<1>1. e \in Events /\ EventOk(e) /\ event[e].state = "submitted"
  BY DEF Events, Inv, EventsInv, CompletionBegins
<1>2. PICK c \in Contexts : c = event[e].context /\ context[c].state = "live" /\ active > 0
  BY <1>1, EventIsAlive
<1>4. PICK d \in D3D : d = event[e].d3d
  BY <1>0, <1>1, RunsOn
<1>5. PICK t \in Threads : t = Completion(d)
  BY DEF Threads
<1>6. /\ frames[t] = <<>> /\ taskLock = Nothing /\ taskLock' = t /\ Complete(e, "complete")
      /\ UNCHANGED <<context, owns, deviceVars>>
  BY <1>4, <1>5 DEF CompletionBegins
<1>7. PICK g : /\ g = [op |-> "handler", event |-> e, left |-> SetToSeq(Adapters)]
               /\ frames' = [frames EXCEPT ![t] = Append(frames[t], g)]
  BY <1>4, <1>5 DEF CompletionBegins, Push
<1>8. SetToSeq(Adapters) \in Seq(Adapters)
  BY ListIsSeq, LifetimesAssumption
<1>9. g \in Frame /\ g.op = "handler" /\ g.event = e
  BY <1>7, <1>8 DEF Frame
<1>10. Calls(t) = {}
  BY <1>6 DEF Calls, Range
<1>11. PICK S : S = Calls(t) \cup {g} /\ CallsBecome(t, S)
  <2>1. t \in Callers \/ g.op \in OtherOps
    BY <1>9 DEF OtherOps
  <2> QED  BY <1>0, <1>7, <1>9, <1>10, <2>1, PushStep
<1>12. frames' \in [Threads -> Seq(Frame)] /\ StacksInv' /\ Calls(t)' = {g}
       /\ \A u \in Threads : u # t => Calls(u)' = Calls(u)
  BY <1>10, <1>11 DEF CallsBecome
<1>13. /\ event' \in [Events -> EventRecord] /\ event'[e].state \in {"complete", "failed"}
       /\ event'[e].refs = event[e].refs /\ event'[e].internal = event[e].internal
       /\ event'[e].context = event[e].context /\ event'[e].d3d = event[e].d3d
       /\ \A x \in Events : x # e => event'[x] = event[x]
       /\ callbacks' \in [Callbacks -> CallbackRecord] /\ queue' \in Seq(Callbacks)
       /\ CallbackInv'
  <2>1. CallbackInv /\ event[e].state \notin {"none", "gone"}
    BY <1>1 DEF Inv
  <2> QED  BY <1>0, <1>1, <1>2, <1>6, <2>1, CompleteIs
<1>14. TypeInv'
  BY <1>0, <1>6, <1>12, <1>13 DEF TypeInv, deviceVars
<1>15. DevicesInv'
  BY <1>0, <1>6, <1>9, <1>10, <1>11, DevicesAlone DEF Inv, deviceVars
<1>16. ContextsInv'
  <2>1. \A x \in Events : event'[x].context = event[x].context
          /\ (event'[x].state \notin {"none", "gone"} <=> event[x].state \notin {"none", "gone"})
    BY <1>1, <1>13
  <2>2. \A b \in Contexts : context'[b] = context[b] /\ Owners(b)' = Owners(b) /\ Children(b)' = Children(b)
    BY <1>6, <2>1 DEF Owners, Children
  <2> QED  BY <1>9, <1>10, <1>11, <2>2, ContextsKept DEF Inv
<1>17. EventOk(e)'
  <2>1. \A u \in Threads : \A f : f.op \in {"set", "release"} => (f \in Calls(u)' <=> f \in Calls(u))
    BY <1>9, <1>10, <1>12
  <2>2. Releasing(e)' = Releasing(e) /\ Owners(e)' = Owners(e)
    BY <1>6, <2>1 DEF Releasing, Owners
  <2>3. Handled(e)'
    BY <1>9, <1>12 DEF Handled
  <2>4. EventCounts(e)'
    BY <1>1, <1>13, <2>2, <2>3 DEF EventOk, EventCounts
  <2>5. event'[e].d3d = d
    BY <1>4, <1>6, <1>13
  <2>6. Handling(e)'
    BY <1>1, <1>5, <1>12, <1>13, <2>5 DEF EventOk, Handling
  <2>7. Setting(e)'
    BY <1>1, <1>6, <2>1, <2>2 DEF EventOk, Setting
  <2>8. Ending(e)'
    BY <1>13 DEF Ending, Over
  <2>9. Placed(e)'
    BY <1>1, <1>6, <1>13, PlacedStays
  <2> QED  BY <2>4, <2>6, <2>7, <2>8, <2>9 DEF EventOk
<1>18. EventsInv'
  <2>1. \A f \in S \cup Calls(t) : f.op \in {"set", "release", "handler"} /\ f.event # e
          => (f \in S <=> f \in Calls(t))
    BY <1>9, <1>11
  <2> QED  BY <1>0, <1>1, <1>6, <1>11, <1>13, <1>17, <2>1, EventsBut DEF Inv
<1>19. LockInv'
  <2>1. \A u \in Threads : \A f \in Calls(u) : f.op # "handler"
    BY <1>6, LifetimesAssumption DEF Inv, LockInv
  <2>2. \A u \in Threads : \A f \in Calls(u)' : f.op = "handler" => u = t
    BY <1>12, <2>1
  <2>3. (\A u \in Threads : \A f \in Calls(u) : f.op = "handler" => taskLock = u)'
    BY <1>6, <2>2
  <2>4. (\E f \in Calls(taskLock) : f.op = "handler")'
    BY <1>6, <1>9, <1>12 DEF Calls
  <2> QED  BY <2>3, <2>4 DEF LockInv
<1> QED  BY <1>12, <1>13, <1>14, <1>15, <1>16, <1>18, <1>19 DEF Inv

\* Thread t leaves a call, and may destroy context c.
Leaves(t, c) ==
  \E D : /\ CallsBecome(t, (Calls(t) \ {Top(t)}) \cup D)
         /\ \A f \in D : f.op = "destroy" /\ f.left = context[c].devices

(* What an event that is given up leaves behind: its context has a child   *)
(* less when it dies, and may be destroyed.                                *)
LEMMA DropStep ==
  ASSUME Inv, NEW t \in Threads, NEW op \in {"release", "handler"}, In(t, op),
         NEW e \in Events, e = Top(t).event, NEW left \in EventRecord,
         left.state = event[e].state, left.context = event[e].context /\ left.d3d = event[e].d3d,
         event[e].state \notin {"none", "gone"},
         DropEvent(t, e, left, Front(frames[t])), UNCHANGED <<owns, callbacks, queue, deviceVars>>
  PROVE  /\ Leaves(t, event[e].context)
         /\ event' \in [Events -> EventRecord] /\ context' \in [Contexts -> ContextRecord]
         /\ event'[e].refs = left.refs /\ event'[e].internal = left.internal
         /\ event'[e].context = event[e].context /\ event'[e].d3d = event[e].d3d
         /\ event'[e].state = IF left.refs = 0 /\ left.internal = 0 THEN "gone" ELSE event[e].state
         /\ \A x \in Events : x # e => event'[x] = event[x]
         /\ \A b \in Contexts : context'[b].devices = context[b].devices
         /\ DevicesInv' /\ ContextsInv' /\ CallbackInv'
<1>0. Stacks /\ TypeInv /\ EventOk(e)
  BY DEF Inv, Stacks, TypeInv, EventsInv
<1>1. PICK c \in Contexts : /\ c = event[e].context /\ context[c].state = "live" /\ context[c].internal > 0
                            /\ e \in Children(c)
  BY EventIsAlive
<1>2. PICK parent : parent = [context[c] EXCEPT !.internal = @ - 1]
  OBVIOUS
<1>3. context[c] \in ContextRecord /\ ContextOk(c) /\ context[c].devices # <<>>
  BY <1>0, <1>1 DEF TypeInv, Inv, ContextsInv, ContextOk, ContextCounts
<1>4. /\ parent \in ContextRecord /\ parent.state = "live" /\ parent.devices = context[c].devices
      /\ parent.refs = context[c].refs /\ parent.internal = context[c].internal - 1
  <2>1. PICK old \in ContextRecord : old = context[c]
    BY <1>3
  <2>2. parent = [old EXCEPT !.internal = old.internal - 1]
    BY <1>2, <2>1
  <2>3. /\ parent \in ContextRecord /\ parent.state = old.state /\ parent.devices = old.devices
        /\ parent.refs = old.refs /\ parent.internal = old.internal - 1
    BY <2>1, <2>2 DEF ContextRecord
  <2> QED  BY <1>1, <2>1, <2>3
<1>5. PICK dies \in BOOLEAN : dies <=> left.refs = 0 /\ left.internal = 0
  OBVIOUS
<1>6. /\ event' = [event EXCEPT ![e] = IF dies THEN [left EXCEPT !.state = "gone"] ELSE left]
      /\ context' = IF dies THEN [context EXCEPT ![c] = parent] ELSE context
      /\ frames' = [frames EXCEPT ![t] = Front(frames[t]) \o IF dies THEN Destruction(c, parent) ELSE <<>>]
  BY <1>1, <1>2, <1>5 DEF DropEvent
<1>7. PICK g : g = [op |-> "destroy", context |-> c, left |-> parent.devices]
  OBVIOUS
<1>8. g \in Frame /\ g.op = "destroy" /\ g.context = c /\ g.left = context[c].devices
  <2>1. parent.devices \in Seq(D3D) \ {<<>>}
    BY <1>3, <1>4 DEF ContextRecord
  <2> QED  BY <1>4, <1>7, <2>1 DEF Frame
<1>9. Top(t) \in Calls(t) /\ Top(t).op = op /\ frames[t] \in Seq(Frame) /\ frames[t] # <<>>
      /\ Rising(frames[t]) /\ Top(t) = Last(frames[t])
  BY <1>0, TopIs
<1>10. Front(frames[t]) \in Seq(Frame)
  BY <1>9, StackParts
<1>11. Level(Top(t)) = 2 /\ Level(g) = 2 /\ Level(Top(t)) <= Level(g)
  BY <1>8, <1>9 DEF Level
<1>12. PICK dead \in BOOLEAN : dead <=> dies /\ parent.refs = 0 /\ parent.internal = 0
  OBVIOUS
<1>13. PICK D : D = IF dead THEN {g} ELSE {}
  OBVIOUS
<1>14. CallsBecome(t, (Calls(t) \ {Top(t)}) \cup D)
  <2>1. CASE ~dead
    <3>1. (IF dies THEN Destruction(c, parent) ELSE <<>>) = <<>>
      BY <1>12, <2>1 DEF Destruction
    <3>2. Front(frames[t]) \o <<>> = Front(frames[t])
      BY <1>10, Pushed2
    <3>3. frames' = [frames EXCEPT ![t] = Front(frames[t])]
      BY <1>6, <3>1, <3>2
    <3>4. (Calls(t) \ {Top(t)}) \cup D = Calls(t) \ {Top(t)}
      BY <1>13, <2>1
    <3> QED  BY <1>0, <3>3, <3>4, PopStep
  <2>2. CASE dead
    <3>1. (IF dies THEN Destruction(c, parent) ELSE <<>>) = <<g>>
      BY <1>7, <1>12, <2>2 DEF Destruction
    <3>2. Front(frames[t]) \o <<g>> = Append(Front(frames[t]), g)
      BY <1>8, <1>10, Pushed2
    <3>3. frames' = [frames EXCEPT ![t] = Append(Front(frames[t]), g)]
      BY <1>6, <3>1, <3>2
    <3>4. t \in Callers \/ g.op \in OtherOps
      BY <1>8 DEF OtherOps
    <3>5. (Calls(t) \ {Top(t)}) \cup D = (Calls(t) \ {Top(t)}) \cup {g}
      BY <1>13, <2>2
    <3> QED  BY <1>0, <1>8, <1>11, <3>3, <3>4, <3>5, ReplaceStep
  <2> QED  BY <2>1, <2>2
<1>15. \A f \in D : f.op = "destroy" /\ f.context = c /\ f.left = context[c].devices
  BY <1>8, <1>13
<1>16. PICK S : S = (Calls(t) \ {Top(t)}) \cup D /\ CallsBecome(t, S)
  BY <1>14
<1>17. Calls(t)' = S /\ \A u \in Threads : u # t => Calls(u)' = Calls(u)
  BY <1>16 DEF CallsBecome
<1>18. /\ event' \in [Events -> EventRecord] /\ event'[e].refs = left.refs /\ event'[e].internal = left.internal
       /\ event'[e].context = event[e].context /\ event'[e].d3d = event[e].d3d
       /\ event'[e].state = IF dies THEN "gone" ELSE event[e].state
       /\ \A x \in Events : x # e => event'[x] = event[x]
  BY <1>0, <1>6 DEF TypeInv, EventRecord
<1>19. /\ context' \in [Contexts -> ContextRecord]
       /\ \A b \in Contexts : context'[b].devices = context[b].devices
       /\ \A b \in Contexts : b # c => context'[b] = context[b]
  BY <1>0, <1>4, <1>6 DEF TypeInv
<1>20. DevicesInv'
  <2>1. \A f \in S \cup Calls(t) : f.op \in {"timer", "delete"} => (f \in S <=> f \in Calls(t))
    BY <1>9, <1>15, <1>16
  <2>2. UNCHANGED <<registry, d3d, initLock, active, leaked>>
    BY DEF deviceVars
  <2> QED  BY <1>0, <1>16, <1>19, <2>1, <2>2, DevicesAlone DEF Inv
<1>21. ContextOk(c)'
  <2>1. Owners(c)' = Owners(c)
    BY DEF Owners
  <2>2. Children(c)' = IF dies THEN Children(c) \ {e} ELSE Children(c)
    <3>1. \A x \in Events : x # e => (x \in Children(c)' <=> x \in Children(c))
      BY <1>18 DEF Children
    <3>2. e \in Children(c)' <=> ~dies
      BY <1>1, <1>18 DEF Children
    <3>3. Children(c) \subseteq Events /\ Children(c)' \subseteq Events
      BY DEF Children
    <3> QED  BY <1>1, <3>1, <3>2, <3>3
  <2>3. context'[c].internal = Cardinality(Children(c)')
    <3>1. context[c].internal = Cardinality(Children(c)) /\ IsFiniteSet(Children(c))
      BY <1>3, CountsAreFinite DEF ContextOk, ContextCounts
    <3>2. Cardinality(Children(c) \ {e}) = Cardinality(Children(c)) - 1
      BY <1>1, <3>1, OneLess
    <3> QED  BY <1>0, <1>4, <1>6, <2>2, <3>1, <3>2 DEF TypeInv
  <2>4. context'[c].state = "live" /\ context'[c].refs = context[c].refs /\ context'[c].devices = context[c].devices
    BY <1>0, <1>1, <1>4, <1>6 DEF TypeInv
  <2>5. ContextCounts(c)'
    BY <1>3, <2>1, <2>3, <2>4 DEF ContextOk, ContextCounts
  <2>6. \A u \in Threads : \A f \in Calls(u) : ~(f.op \in {"make", "destroy"} /\ f.context = c)
    BY <1>1, <1>3 DEF ContextOk, Making, Destroying
  <2>7. \A u \in Threads : \A f \in Calls(u)' : f.op \in {"make", "destroy"} /\ f.context = c => u = t /\ f \in D
    BY <1>16, <1>17, <2>6
  <2>8. Making(c)'
    BY <1>15, <2>7 DEF Making
  <2>9. dead => context'[c].refs = 0 /\ context'[c].internal = 0
    BY <1>0, <1>4, <1>6, <1>12 DEF TypeInv
  <2>10. Destroying(c)'
    BY <1>8, <1>13, <2>4, <2>7, <2>9 DEF Destroying
  <2> QED  BY <2>5, <2>8, <2>10 DEF ContextOk
<1>22. ContextsInv'
  <2>1. \A f \in S \cup Calls(t) : f.op \in {"make", "destroy"} /\ f.context # c => (f \in S <=> f \in Calls(t))
    BY <1>9, <1>15, <1>16
  <2>2. \A b \in Contexts : b # c => Owners(b)' = Owners(b) /\ Children(b)' = Children(b)
    BY <1>1, <1>18 DEF Owners, Children
  <2> QED  BY <1>16, <1>19, <1>21, <2>1, <2>2, ContextsBut DEF Inv
<1>23. CallbackInv'
  BY <1>18 DEF Inv, CallbackInv, Over
<1>24. Leaves(t, event[e].context)
  BY <1>1, <1>14, <1>15 DEF Leaves
<1> QED  BY <1>5, <1>18, <1>19, <1>20, <1>22, <1>23, <1>24

(* Two frames are put on a stack at once.                                  *)
LEMMA Push2Step ==
  ASSUME Stacks, NEW t \in Callers, t \in Threads, NEW f \in Frame, NEW g \in Frame,
         \A h \in Calls(t) : Level(h) < Level(f), Level(f) < Level(g),
         frames' = [frames EXCEPT ![t] = Append(Append(frames[t], f), g)]
  PROVE  CallsBecome(t, Calls(t) \cup {f, g})
<1>1. frames[t] \in Seq(Frame) /\ Rising(frames[t]) /\ frames \in [Threads -> Seq(Frame)] /\ StacksInv
  BY DEF Stacks, StacksInv
<1>2. PICK G \in Seq(Frame) : G = Append(frames[t], f) /\ Rising(G) /\ Range(G) = Calls(t) \cup {f}
  BY <1>1, Pushing DEF Calls
<1>3. \A h : Level(h) \in Nat
  BY DEF Level
<1>4. \A h \in Range(G) : Level(h) < Level(g)
  BY <1>2, <1>3
<1>5. PICK H \in Seq(Frame) : H = Append(G, g) /\ Rising(H) /\ Range(H) = Range(G) \cup {g}
  BY <1>2, <1>4, Pushing
<1>6. Range(H) = Calls(t) \cup {f, g}
  BY <1>2, <1>5
<1>7. frames' = [frames EXCEPT ![t] = H]
  BY <1>2, <1>5
<1> QED  BY <1>1, <1>5, <1>6, <1>7, StackStep DEF CallsBecome

(* A reference to an event is to be released.                              *)
LEMMA clReleaseEventInv ==
  ASSUME Inv, NEW t \in Callers, NEW e \in Events, clReleaseEvent(t, e)
  PROVE  Inv'
<1>0. Stacks /\ t \in Threads /\ TypeInv /\ EventOk(e)
  BY SomeThread DEF Inv, Stacks, TypeInv, EventsInv
<1>1. /\ MayCall(t) /\ <<t, e>> \in owns /\ owns' = owns \ {<<t, e>>}
      /\ UNCHANGED <<context, deviceVars, eventVars>>
  BY DEF clReleaseEvent
<1>2. PICK f, g : /\ f = [op |-> "release", event |-> e, saw |-> event[e].refs]
                  /\ g = [op |-> "set", event |-> e, state |-> "failed"]
  OBVIOUS
<1>3. frames[t] \in Seq(Frame) /\ \A h \in Calls(t) : h.op = "callback" /\ Level(h) = 1
  BY <1>0, <1>1, MayCallIs
<1>4. f \in Frame /\ f.op = "release" /\ f.event = e /\ f.saw = event[e].refs /\ Level(f) = 2
  BY <1>0, <1>2 DEF Frame, TypeInv, EventRecord, Level
<1>5. e \in UserEvents => g \in Frame
  BY <1>2 DEF Frame
<1>6. g.op = "set" /\ g.event = e /\ Level(g) = 3
  BY <1>2 DEF Level
<1>7. PICK D : D = IF NeedsStatus(e) THEN {f, g} ELSE {f}
  OBVIOUS
<1>8. CallsBecome(t, Calls(t) \cup D)
  <2>1. CASE NeedsStatus(e)
    <3>1. frames' = [frames EXCEPT ![t] = frames[t] \o <<f, g>>]
      BY <1>2, <2>1 DEF clReleaseEvent
    <3>2. g \in Frame
      BY <1>5, <2>1 DEF NeedsStatus
    <3>3. frames' = [frames EXCEPT ![t] = Append(Append(frames[t], f), g)]
      BY <1>3, <1>4, <3>1, <3>2, Pushed2
    <3>4. (\A h \in Calls(t) : Level(h) < Level(f)) /\ Level(f) < Level(g)
      BY <1>3, <1>4, <1>6
    <3>5. D = {f, g}
      BY <1>7, <2>1
    <3> QED  BY <1>0, <1>4, <3>2, <3>3, <3>4, <3>5, Push2Step
  <2>2. CASE ~NeedsStatus(e)
    <3>1. frames' = [frames EXCEPT ![t] = frames[t] \o <<f>>]
      BY <1>2, <2>2 DEF clReleaseEvent
    <3>2. frames' = [frames EXCEPT ![t] = Append(frames[t], f)]
      BY <1>3, <1>4, <3>1, Pushed2
    <3>3. \A h \in Calls(t) : Level(h) < Level(f)
      BY <1>3, <1>4
    <3>4. D = {f}
      BY <1>7, <2>2
    <3> QED  BY <1>0, <1>4, <3>2, <3>3, <3>4, PushStep
  <2> QED  BY <2>1, <2>2
<1>9. PICK S : S = Calls(t) \cup D /\ CallsBecome(t, S)
  BY <1>8
<1>10. frames' \in [Threads -> Seq(Frame)] /\ StacksInv' /\ Calls(t)' = S
       /\ \A u \in Threads : u # t => Calls(u)' = Calls(u)
  BY <1>9 DEF CallsBecome
<1>11. \A h \in D : h = f \/ h = g
  BY <1>7
<1>12. event' = event /\ context' = context /\ taskLock' = taskLock /\ callbacks' = callbacks /\ queue' = queue
  BY <1>1 DEF eventVars
<1>13. TypeInv'
  BY <1>0, <1>1, <1>10, <1>12 DEF TypeInv, deviceVars
<1>14. DevicesInv'
  BY <1>0, <1>1, <1>4, <1>6, <1>9, <1>11, <1>12, DevicesAlone DEF Inv, deviceVars
<1>15. ContextsInv'
  <2>1. \A c \in Contexts : <<t, c>> # <<t, e>> /\ c # e
    BY LifetimesAssumption
  <2>2. \A c \in Contexts : Owners(c)' = Owners(c)
    BY <1>1, <2>1 DEF Owners
  <2>3. \A c \in Contexts : context'[c] = context[c] /\ Children(c)' = Children(c)
    BY <1>12 DEF Children
  <2> QED  BY <1>0, <1>4, <1>6, <1>9, <1>11, <2>2, <2>3, ContextsKept DEF Inv
<1>16. EventOk(e)'
  <2>1. Owners(e)' = Owners(e) \ {t} /\ t \in Owners(e)
    BY <1>1 DEF Owners
  <2>2. t \notin Releasing(e)
    BY <1>3 DEF Releasing
  <2>3. \A u \in Threads : u # t => (u \in Releasing(e)' <=> u \in Releasing(e))
    BY <1>10 DEF Releasing
  <2>4. t \in Releasing(e)'
    BY <1>0, <1>4, <1>7, <1>9, <1>10 DEF Releasing
  <2>5. Releasing(e)' = Releasing(e) \cup {t}
    BY <1>0, <2>3, <2>4 DEF Releasing
  <2>6. Cardinality(Owners(e)') + Cardinality(Releasing(e)') = event[e].refs /\ event[e].refs > 0
    <3>1. event[e].refs = Cardinality(Owners(e)) + Cardinality(Releasing(e))
      BY <1>0 DEF EventOk, EventCounts
    <3>2. Cardinality(Owners(e) \ {t}) = Cardinality(Owners(e)) - 1 /\ Cardinality(Owners(e)) > 0
      BY <2>1, CountsAreFinite, OneLess
    <3>3. Cardinality(Releasing(e) \cup {t}) = Cardinality(Releasing(e)) + 1
      BY <2>2, CountsAreFinite, OneMore
    <3>4. Cardinality(Owners(e)) \in Nat /\ Cardinality(Releasing(e)) \in Nat
      BY CountsAreFinite
    <3> QED  BY <2>1, <2>5, <3>1, <3>2, <3>3, <3>4
  <2>7. \A u \in Threads : \A h : h.op = "handler" => (h \in Calls(u)' <=> h \in Calls(u))
    BY <1>4, <1>6, <1>9, <1>10, <1>11
  <2>8. EventCounts(e)'
    <3>1. Handled(e)' <=> Handled(e)
      BY <2>7 DEF Handled
    <3> QED  BY <1>0, <1>12, <2>6, <3>1 DEF EventOk, EventCounts
  <2>9. Handling(e)'
    BY <1>0, <1>12, <2>7 DEF EventOk, Handling
  <2>10. Setting(e)'
    <3> SUFFICES ASSUME NEW u \in Threads, NEW h \in Calls(u)', h.op = "set", h.event = e
                 PROVE  <<u, e>> \in owns' \/ u \in Releasing(e)'
      BY DEF Setting
    <3>1. CASE u = t
      BY <2>4, <3>1
    <3>2. CASE u # t
      <4>1. <<u, e>> \in owns \/ u \in Releasing(e)
        BY <1>0, <1>10, <3>2 DEF EventOk, Setting
      <4> QED  BY <1>1, <2>5, <3>2, <4>1
    <3> QED  BY <3>1, <3>2
  <2>11. Ending(e)'
    <3> SUFFICES ASSUME NEW u \in Threads, NEW h \in Calls(u)', h.op = "release", h.event = e,
                        h.saw <= 1, e \in UserEvents
                 PROVE  Over(e)' \/ \E i \in Calls(u)' : i.op = "set" /\ i.event = e
      BY DEF Ending
    <3>1. CASE u = t
      <4>1. h = f
        BY <1>3, <1>6, <1>9, <1>10, <1>11, <3>1
      <4>2. event[e].refs \in Int
        BY <1>0 DEF TypeInv, EventRecord
      <4>3. event[e].refs = 1
        BY <1>4, <2>6, <4>1, <4>2
      <4>4. CASE NeedsStatus(e)
        BY <1>6, <1>7, <1>9, <1>10, <3>1, <4>4
      <4>5. CASE ~NeedsStatus(e)
        <5>1. event[e].state # "submitted"
          BY <4>3, <4>5 DEF NeedsStatus
        <5>2. Over(e)
          <6>1. event[e].state \notin {"none", "gone"}
            BY <2>1, EventIsAlive
          <6>2. event[e].state \in {"none", "submitted", "complete", "failed", "gone"}
            BY <1>0 DEF TypeInv, EventRecord
          <6> QED  BY <5>1, <6>1, <6>2 DEF Over
        <5> QED  BY <1>12, <5>2 DEF Over
      <4> QED  BY <4>4, <4>5
    <3>2. CASE u # t
      BY <1>0, <1>10, <1>12, <3>2 DEF EventOk, Ending, Over
    <3> QED  BY <3>1, <3>2
  <2>12. Placed(e)'
    BY <1>0, <1>12, PlacedStays
  <2> QED  BY <2>8, <2>9, <2>10, <2>11, <2>12 DEF EventOk
<1>17. EventsInv'
  <2>1. \A h \in S \cup Calls(t) : h.op \in {"set", "release", "handler"} /\ h.event # e
          => (h \in S <=> h \in Calls(t))
    BY <1>4, <1>6, <1>9, <1>11
  <2>2. \A x \in Events : x # e => \A u \in Threads : <<u, x>> \in owns' <=> <<u, x>> \in owns
    BY <1>1
  <2> QED  BY <1>0, <1>9, <1>12, <1>16, <2>1, <2>2, EventsBut DEF Inv
<1>18. LockInv'
  BY <1>0, <1>4, <1>6, <1>9, <1>11, <1>12, LockAlone DEF Inv
<1>19. CallbackInv'
  BY <1>12 DEF Inv, CallbackInv, Over
<1> QED  BY <1>10, <1>13, <1>14, <1>15, <1>17, <1>18, <1>19 DEF Inv

(* A reference to an event is given up.                                    *)
LEMMA EventReleaseInv ==
  ASSUME Inv, NEW t \in Threads, EventRelease(t)
  PROVE  Inv'
<1>0. Stacks /\ TypeInv
  BY DEF Inv, Stacks, TypeInv
<1>1. In(t, "release") /\ UNCHANGED <<owns, taskLock, callbacks, queue, deviceVars>>
  BY DEF EventRelease
<1>2. /\ Top(t) \in Calls(t) /\ Top(t).op = "release" /\ Top(t) \in Frame
      /\ \A f \in Calls(t) \ {Top(t)} : Level(f) < Level(Top(t))
      /\ \A f \in Calls(t) : f \in Frame
  BY <1>0, <1>1, TopIs
<1>3. PICK e \in Events : e = Top(t).event
  BY <1>2, FrameIs
<1>4. EventOk(e) /\ t \in Releasing(e)
  BY <1>2, <1>3 DEF Inv, EventsInv, Releasing
<1>5. event[e].state \notin {"none", "gone"}
  BY <1>4, EventIsAlive
<1>6. PICK left : left = GiveUp(event[e])
  OBVIOUS
<1>7. left \in EventRecord /\ left.state = event[e].state /\ left.context = event[e].context /\ left.d3d = event[e].d3d
      /\ left.refs = event[e].refs - 1 /\ left.internal = event[e].internal
  <2>1. PICK old \in EventRecord : old = event[e]
    BY <1>0 DEF TypeInv
  <2>2. left = [old EXCEPT !.refs = old.refs - 1]
    BY <1>6, <2>1 DEF GiveUp
  <2> QED  BY <2>1, <2>2 DEF EventRecord
<1>8. DropEvent(t, e, left, Front(frames[t]))
  BY <1>3, <1>6 DEF EventRelease
<1>9. /\ Leaves(t, event[e].context)
      /\ event' \in [Events -> EventRecord] /\ context' \in [Contexts -> ContextRecord]
      /\ event'[e].refs = left.refs /\ event'[e].internal = left.internal
      /\ event'[e].context = event[e].context /\ event'[e].d3d = event[e].d3d
      /\ event'[e].state = IF left.refs = 0 /\ left.internal = 0 THEN "gone" ELSE event[e].state
      /\ \A x \in Events : x # e => event'[x] = event[x]
      /\ \A b \in Contexts : context'[b].devices = context[b].devices
      /\ DevicesInv' /\ ContextsInv' /\ CallbackInv'
  BY <1>1, <1>3, <1>5, <1>7, <1>8, DropStep
<1>10. PICK D : CallsBecome(t, (Calls(t) \ {Top(t)}) \cup D) /\ \A f \in D : f.op = "destroy"
  BY <1>9 DEF Leaves
<1>11. PICK S : S = (Calls(t) \ {Top(t)}) \cup D /\ CallsBecome(t, S)
  BY <1>10
<1>12. frames' \in [Threads -> Seq(Frame)] /\ StacksInv' /\ Calls(t)' = S
       /\ \A u \in Threads : u # t => Calls(u)' = Calls(u)
  BY <1>11 DEF CallsBecome
<1>13. \A f \in S : f.op \notin {"release", "set", "handler"}
  <2>1. Level(Top(t)) = 2
    BY <1>2 DEF Level
  <2>2. \A f \in Calls(t) \ {Top(t)} : Level(f) < 2
    BY <1>2, <2>1
  <2>3. \A f : f.op \in {"release", "set", "handler"} => ~(Level(f) < 2)
    BY DEF Level
  <2> QED  BY <1>10, <1>11, <2>2, <2>3
<1>14. \A f \in Calls(t) : f.op \in {"release", "set", "handler"} => f = Top(t)
  BY <1>11, <1>13
<1>15. TypeInv'
  BY <1>0, <1>1, <1>9, <1>12 DEF TypeInv, deviceVars
<1>16. EventOk(e)'
  <2>1. Owners(e)' = Owners(e) /\ owns' = owns
    BY <1>1 DEF Owners
  <2>2. Releasing(e)' = Releasing(e) \ {t}
    <3>1. t \notin Releasing(e)'
      BY <1>12, <1>13 DEF Releasing
    <3>2. \A u \in Threads : u # t => (u \in Releasing(e)' <=> u \in Releasing(e))
      BY <1>12 DEF Releasing
    <3> QED  BY <3>1, <3>2 DEF Releasing
  <2>3. \A u \in Threads : \A h : h.op = "handler" => (h \in Calls(u)' <=> h \in Calls(u))
    BY <1>2, <1>12, <1>13, <1>14
  <2>4. Handled(e)' <=> Handled(e)
    BY <2>3 DEF Handled
  <2>5. event'[e].refs = Cardinality(Owners(e)') + Cardinality(Releasing(e)')
    <3>1. event[e].refs = Cardinality(Owners(e)) + Cardinality(Releasing(e))
      BY <1>4 DEF EventOk, EventCounts
    <3>2. Cardinality(Releasing(e) \ {t}) = Cardinality(Releasing(e)) - 1
      BY <1>4, CountsAreFinite, OneLess
    <3>3. Cardinality(Owners(e)) \in Nat /\ Cardinality(Releasing(e)) \in Nat
      BY CountsAreFinite
    <3> QED  BY <1>7, <1>9, <2>1, <2>2, <3>1, <3>2, <3>3
  <2>6. EventCounts(e)'
    BY <1>4, <1>5, <1>7, <1>9, <2>4, <2>5 DEF EventOk, EventCounts
  <2>7. Handling(e)'
    <3> SUFFICES ASSUME NEW u \in Threads, NEW h \in Calls(u)', h.op = "handler", h.event = e
                 PROVE  u = Completion(event'[e].d3d) /\ event'[e].state # "submitted"
      BY DEF Handling
    <3>1. h \in Calls(u)
      BY <2>3
    <3>2. Handled(e)
      BY <3>1 DEF Handled
    <3>3. Home[e] \in Contexts /\ event[e].context = Home[e]
      BY <1>0, <1>4, <3>2, HandledIsChild
    <3>4. event'[e].d3d = event[e].d3d
      BY <1>9, <3>3
    <3> QED  BY <1>4, <1>9, <3>1, <3>4 DEF EventOk, Handling
  <2>8. Setting(e)'
    <3> SUFFICES ASSUME NEW u \in Threads, NEW h \in Calls(u)', h.op = "set", h.event = e
                 PROVE  <<u, e>> \in owns' \/ u \in Releasing(e)'
      BY DEF Setting
    <3>1. u # t /\ h \in Calls(u)
      BY <1>12, <1>13
    <3> QED  BY <1>4, <2>1, <2>2, <3>1 DEF EventOk, Setting
  <2>9. Ending(e)'
    <3> SUFFICES ASSUME NEW u \in Threads, NEW h \in Calls(u)', h.op = "release", h.event = e,
                        h.saw <= 1, e \in UserEvents
                 PROVE  Over(e)' \/ \E i \in Calls(u)' : i.op = "set" /\ i.event = e
      BY DEF Ending
    <3>1. u # t /\ h \in Calls(u) /\ Calls(u)' = Calls(u)
      BY <1>12, <1>13
    <3>2. Over(e) \/ \E i \in Calls(u) : i.op = "set" /\ i.event = e
      BY <1>4, <3>1 DEF EventOk, Ending
    <3>3. event'[e].state = event[e].state
      <4>1. u \in Releasing(e)'
        BY DEF Releasing
      <4>2. IsFiniteSet(Releasing(e)') /\ Cardinality(Releasing(e)') \in Nat /\ Cardinality(Owners(e)') \in Nat
        <5>1. IsFiniteSet(Releasing(e)) /\ Cardinality(Owners(e)) \in Nat
          BY CountsAreFinite
        <5>2. IsFiniteSet(Releasing(e) \ {t})
          BY <5>1, FS_RemoveElement
        <5>3. Cardinality(Releasing(e) \ {t}) \in Nat
          BY <5>2, FS_CardinalityType
        <5> QED  BY <2>1, <2>2, <5>1, <5>2, <5>3
      <4>3. Cardinality(Releasing(e)') > 0
        BY <4>1, <4>2, FS_EmptySet
      <4> QED  BY <1>9, <2>5, <4>2, <4>3
    <3> QED  BY <3>1, <3>2, <3>3 DEF Over
  <2>10. Placed(e)'
    <3>1. Home[e] \in Contexts
      BY LifetimesAssumption
    <3> QED  BY <1>4, <1>5, <1>9, <3>1, PlacedStays
  <2> QED  BY <2>6, <2>7, <2>8, <2>9, <2>10 DEF EventOk
<1>17. EventsInv'
  <2>1. \A f \in S \cup Calls(t) : f.op \in {"set", "release", "handler"} /\ f.event # e
          => (f \in S <=> f \in Calls(t))
    BY <1>3, <1>13, <1>14
  <2> QED  BY <1>0, <1>1, <1>9, <1>11, <1>16, <2>1, EventsBut DEF Inv
<1>18. LockInv'
  <2>1. \A f \in S \cup Calls(t) : f.op = "handler" => (f \in S <=> f \in Calls(t))
    BY <1>2, <1>13, <1>14
  <2> QED  BY <1>0, <1>1, <1>11, <2>1, LockAlone DEF Inv
<1> QED  BY <1>9, <1>12, <1>15, <1>17, <1>18 DEF Inv

(* The handler ends: the lock is free, and its task is given up.           *)
LEMMA CompletionEndsInv ==
  ASSUME Inv, NEW d \in D3D, CompletionEnds(d)
  PROVE  Inv'
<1>0. Stacks /\ TypeInv
  BY DEF Inv, Stacks, TypeInv
<1>1. PICK t \in Threads : t = Completion(d)
  BY DEF Threads
<1>2. In(t, "handler") /\ taskLock' = Nothing /\ UNCHANGED <<owns, callbacks, queue, deviceVars>>
  BY <1>1 DEF CompletionEnds
<1>3. /\ Top(t) \in Calls(t) /\ Top(t).op = "handler" /\ Top(t) \in Frame
      /\ \A f \in Calls(t) \ {Top(t)} : Level(f) < Level(Top(t))
      /\ \A f \in Calls(t) : f \in Frame
  BY <1>0, <1>2, TopIs
<1>4. PICK e \in Commands : e = Top(t).event
  BY <1>3, FrameIs
<1>5. e \in Events /\ EventOk(e) /\ e \notin UserEvents /\ Handled(e)
  BY <1>3, <1>4, LifetimesAssumption DEF Events, Inv, EventsInv, Handled
<1>6. event[e].state \notin {"none", "gone"} /\ event[e].internal = 1 /\ event[e].state # "submitted"
  <2>1. event[e].internal = 1
    BY <1>0, <1>5, HandledIsChild
  <2> QED  BY <1>3, <1>4, <1>5, <2>1, EventIsAlive DEF EventOk, Handling
<1>7. PICK left : left = [event[e] EXCEPT !.internal = @ - 1]
  OBVIOUS
<1>8. left \in EventRecord /\ left.state = event[e].state /\ left.context = event[e].context /\ left.d3d = event[e].d3d
      /\ left.refs = event[e].refs /\ left.internal = 0
  <2>1. PICK old \in EventRecord : old = event[e]
    BY <1>0, <1>5 DEF TypeInv
  <2>2. left = [old EXCEPT !.internal = old.internal - 1] /\ old.internal = 1
    BY <1>6, <1>7, <2>1
  <2> QED  BY <2>1, <2>2 DEF EventRecord
<1>9. DropEvent(t, e, left, Front(frames[t]))
  BY <1>1, <1>4, <1>7 DEF CompletionEnds
<1>10. /\ Leaves(t, event[e].context)
       /\ event' \in [Events -> EventRecord] /\ context' \in [Contexts -> ContextRecord]
       /\ event'[e].refs = left.refs /\ event'[e].internal = left.internal
       /\ event'[e].context = event[e].context /\ event'[e].d3d = event[e].d3d
       /\ event'[e].state = IF left.refs = 0 /\ left.internal = 0 THEN "gone" ELSE event[e].state
       /\ \A x \in Events : x # e => event'[x] = event[x]
       /\ \A b \in Contexts : context'[b].devices = context[b].devices
       /\ DevicesInv' /\ ContextsInv' /\ CallbackInv'
  BY <1>2, <1>4, <1>5, <1>6, <1>8, <1>9, DropStep
<1>11. PICK D : CallsBecome(t, (Calls(t) \ {Top(t)}) \cup D) /\ \A f \in D : f.op = "destroy"
  BY <1>10 DEF Leaves
<1>12. PICK S : S = (Calls(t) \ {Top(t)}) \cup D /\ CallsBecome(t, S)
  BY <1>11
<1>13. frames' \in [Threads -> Seq(Frame)] /\ StacksInv' /\ Calls(t)' = S
       /\ \A u \in Threads : u # t => Calls(u)' = Calls(u)
  BY <1>12 DEF CallsBecome
<1>14. \A f \in S : f.op \notin {"release", "set", "handler"}
  <2>1. Level(Top(t)) = 2
    BY <1>3 DEF Level
  <2>2. \A f \in Calls(t) \ {Top(t)} : Level(f) < 2
    BY <1>3, <2>1
  <2>3. \A f : f.op \in {"release", "set", "handler"} => ~(Level(f) < 2)
    BY DEF Level
  <2> QED  BY <1>11, <1>12, <2>2, <2>3
<1>15. \A f \in Calls(t) : f.op \in {"release", "set", "handler"} => f = Top(t)
  BY <1>12, <1>14
<1>16. TypeInv'
  BY <1>0, <1>2, <1>10, <1>13 DEF TypeInv, deviceVars
<1>17. \A u \in Threads : \A f \in Calls(u) : f.op = "handler" => u = t
  <2>1. \A u \in Threads : \A f \in Calls(u) : f.op = "handler" => taskLock = u
    BY DEF Inv, LockInv
  <2> QED  BY <1>3, <2>1
<1>18. \A u \in Threads : \A f \in Calls(u)' : f.op # "handler"
  BY <1>13, <1>14, <1>17
<1>19. EventOk(e)'
  <2>1. \A u \in Threads : \A f : f.op \in {"release", "set"} => (f \in Calls(u)' <=> f \in Calls(u))
    BY <1>3, <1>13, <1>14, <1>15
  <2>2. Releasing(e)' = Releasing(e) /\ Owners(e)' = Owners(e) /\ owns' = owns
    BY <1>2, <2>1 DEF Releasing, Owners
  <2>3. ~Handled(e)'
    BY <1>18 DEF Handled
  <2>4. EventCounts(e)'
    BY <1>5, <1>6, <1>8, <1>10, <2>2, <2>3 DEF EventOk, EventCounts
  <2>5. Handling(e)'
    BY <1>18 DEF Handling
  <2>6. Setting(e)'
    BY <1>5, <2>1, <2>2 DEF EventOk, Setting
  <2>7. Ending(e)'
    BY <1>5 DEF Ending
  <2>8. Placed(e)'
    <3>1. Home[e] \in Contexts
      BY LifetimesAssumption DEF Events
    <3> QED  BY <1>5, <1>6, <1>10, <3>1, PlacedStays
  <2> QED  BY <2>4, <2>5, <2>6, <2>7, <2>8 DEF EventOk
<1>20. EventsInv'
  <2>1. \A f \in S \cup Calls(t) : f.op \in {"set", "release", "handler"} /\ f.event # e
          => (f \in S <=> f \in Calls(t))
    BY <1>4, <1>14, <1>15
  <2> QED  BY <1>0, <1>2, <1>5, <1>10, <1>12, <1>19, <2>1, EventsBut DEF Inv
<1>21. LockInv'
  BY <1>2, <1>18 DEF LockInv
<1> QED  BY <1>10, <1>13, <1>16, <1>20, <1>21 DEF Inv

(* A child of a context is made: an event and its first reference.         *)
LEMMA ChildStep ==
  ASSUME Inv, NEW t \in Callers, NEW e \in Events, NEW internal \in {0, 1},
         internal = (IF e \in Commands THEN 1 ELSE 0),
         NEW d \in D3D \cup {Nothing}, e \in Commands => d \in Range(context[Home[e]].devices),
         <<t, Home[e]>> \in owns, event[e].state = "none",
         event' = [event EXCEPT ![e] =
           [state |-> "submitted", context |-> Home[e], d3d |-> d, refs |-> 1, internal |-> internal]],
         context' = MakeChild(Home[e]), owns' = owns \cup {<<t, e>>},
         UNCHANGED <<frames, taskLock, callbacks, queue, deviceVars>>
  PROVE  Inv'
<1>0. Stacks /\ t \in Threads /\ TypeInv /\ EventOk(e)
  BY SomeThread DEF Inv, Stacks, TypeInv, EventsInv
<1>1. PICK c \in Contexts : c = Home[e]
  BY LifetimesAssumption
<1>2. context[c] \in ContextRecord /\ ContextOk(c)
  BY <1>0 DEF TypeInv, Inv, ContextsInv
<1>3. /\ context' \in [Contexts -> ContextRecord] /\ \A b \in Contexts : b # c => context'[b] = context[b]
      /\ context'[c].state = context[c].state /\ context'[c].refs = context[c].refs
      /\ context'[c].internal = context[c].internal + 1 /\ context'[c].devices = context[c].devices
  <2>1. PICK new : new = [context[c] EXCEPT !.internal = context[c].internal + 1]
    OBVIOUS
  <2>2. /\ new \in ContextRecord /\ new.state = context[c].state /\ new.refs = context[c].refs
        /\ new.internal = context[c].internal + 1 /\ new.devices = context[c].devices
    BY <1>2, <2>1 DEF ContextRecord
  <2>3. context' = [context EXCEPT ![c] = new]
    BY <1>1, <2>1 DEF MakeChild
  <2> QED  BY <1>0, <2>2, <2>3 DEF TypeInv
<1>4. /\ event' \in [Events -> EventRecord] /\ \A x \in Events : x # e => event'[x] = event[x]
      /\ event'[e].state = "submitted" /\ event'[e].context = c /\ event'[e].refs = 1
      /\ event'[e].internal = internal /\ event'[e].d3d = d
  BY <1>0, <1>1 DEF TypeInv, EventRecord
<1>5. CallsBecome(t, Calls(t)) /\ StacksInv'
  BY <1>0, NoCall DEF CallsBecome
<1>6. TypeInv'
  BY <1>0, <1>3, <1>4, <1>5 DEF TypeInv, deviceVars, CallsBecome
<1>7. DevicesInv'
  <2>1. \A b \in Contexts : context'[b].devices = context[b].devices
    BY <1>3
  <2> QED  BY <1>0, <1>5, <2>1, DevicesAlone DEF Inv, deviceVars
<1>8. \A b \in Contexts : Owners(b)' = Owners(b)
  <2>1. \A b \in Contexts : b # e
    BY LifetimesAssumption
  <2> QED  BY <2>1 DEF Owners
<1>9. context[c].state = "live"
  <2>1. t \in Owners(c)
    BY <1>1 DEF Owners
  <2>2. Cardinality(Owners(c)) # 0
    BY <2>1, CountsAreFinite, FS_EmptySet
  <2> QED  BY <1>2, <2>2 DEF ContextOk, ContextCounts
<1>10. ContextOk(c)'
  <2>1. Children(c)' = Children(c) \cup {e} /\ e \notin Children(c)
    BY <1>4 DEF Children
  <2>2. Cardinality(Children(c)') = Cardinality(Children(c)) + 1
    BY <2>1, CountsAreFinite, OneMore
  <2>3. ContextCounts(c)'
    BY <1>2, <1>3, <1>8, <1>9, <2>2 DEF ContextOk, ContextCounts
  <2>4. context[c].refs # 0
    <3>1. t \in Owners(c)
      BY <1>1 DEF Owners
    <3>2. Cardinality(Owners(c)) # 0
      BY <3>1, CountsAreFinite, FS_EmptySet
    <3> QED  BY <1>2, <3>2 DEF ContextOk, ContextCounts
  <2>5. \A u \in Threads : \A f \in Calls(u) : ~(f.op \in {"make", "destroy"} /\ f.context = c)
    BY <1>2, <1>9, <2>4 DEF ContextOk, Making, Destroying
  <2>6. Making(c)' /\ Destroying(c)'
    BY <2>5 DEF Making, Destroying, Calls
  <2> QED  BY <2>3, <2>6 DEF ContextOk
<1>11. ContextsInv'
  <2>1. \A b \in Contexts : b # c => Children(b)' = Children(b)
    BY <1>4 DEF Children
  <2> QED  BY <1>0, <1>3, <1>5, <1>8, <1>10, <2>1, ContextsBut DEF Inv
<1>12. EventOk(e)'
  <2>1. Owners(e) = {} /\ Releasing(e) = {} /\ ~Handled(e)
    BY EventIsAlive
  <2>2. Owners(e)' = {t}
    BY <2>1 DEF Owners
  <2>3. Releasing(e)' = {} /\ ~Handled(e)'
    BY <2>1 DEF Releasing, Handled, Calls
  <2>4. Cardinality({t}) = 1 /\ Cardinality({}) = 0
    BY FS_Singleton, FS_EmptySet
  <2>5. EventCounts(e)'
    BY <1>1, <1>4, <2>2, <2>3, <2>4 DEF EventCounts
  <2>6. Handling(e)'
    BY <2>3 DEF Handling, Handled
  <2>7. Setting(e)'
    <3>1. \A u \in Threads : \A f \in Calls(u) : ~(f.op = "set" /\ f.event = e)
      BY <1>0, <2>1 DEF EventOk, Setting, Owners, TypeInv
    <3> QED  BY <3>1 DEF Setting, Calls
  <2>8. Ending(e)'
    BY <2>3 DEF Ending, Releasing
  <2>9. Placed(e)'
    BY <1>1, <1>3, <1>4 DEF Placed
  <2> QED  BY <2>5, <2>6, <2>7, <2>8, <2>9 DEF EventOk
<1>13. EventsInv'
  <2>1. \A x \in Events : x # e => \A u \in Threads : <<u, x>> \in owns' <=> <<u, x>> \in owns
    OBVIOUS
  <2> QED  BY <1>0, <1>3, <1>4, <1>5, <1>12, <2>1, EventsBut DEF Inv
<1>14. LockInv'
  BY <1>0, <1>5, LockAlone DEF Inv
<1>15. CallbackInv'
  BY <1>4 DEF Inv, CallbackInv, Over
<1> QED  BY <1>5, <1>6, <1>7, <1>11, <1>13, <1>14, <1>15 DEF Inv

(* A user event is created, ...                                            *)
LEMMA clCreateUserEventInv ==
  ASSUME Inv, NEW t \in Callers, NEW e \in UserEvents, clCreateUserEvent(t, e)
  PROVE  Inv'
<1>1. e \in Events /\ e \notin Commands /\ 0 = (IF e \in Commands THEN 1 ELSE 0)
  BY LifetimesAssumption DEF Events
<1>2. /\ <<t, Home[e]>> \in owns /\ event[e].state = "none"
      /\ event' = [event EXCEPT ![e] =
           [state |-> "submitted", context |-> Home[e], d3d |-> Nothing, refs |-> 1, internal |-> 0]]
      /\ context' = MakeChild(Home[e]) /\ owns' = owns \cup {<<t, e>>}
      /\ UNCHANGED <<frames, taskLock, callbacks, queue, deviceVars>>
  BY DEF clCreateUserEvent
<1> QED  BY <1>1, <1>2, ChildStep

(* ... or a command.                                                       *)
LEMMA EnqueueInv ==
  ASSUME Inv, NEW t \in Callers, NEW e \in Commands, Enqueue(t, e)
  PROVE  Inv'
<1>1. e \in Events /\ 1 = (IF e \in Commands THEN 1 ELSE 0)
  BY DEF Events
<1>2. PICK d \in Range(context[Home[e]].devices) :
        /\ <<t, Home[e]>> \in owns /\ event[e].state = "none"
        /\ event' = [event EXCEPT ![e] =
             [state |-> "submitted", context |-> Home[e], d3d |-> d, refs |-> 1, internal |-> 1]]
        /\ context' = MakeChild(Home[e]) /\ owns' = owns \cup {<<t, e>>}
        /\ UNCHANGED <<frames, taskLock, callbacks, queue, deviceVars>>
  BY DEF Enqueue
<1>3. d \in D3D
  <2>1. context[Home[e]].devices \in Seq(D3D)
    BY LifetimesAssumption, <1>1 DEF Inv, TypeInv, ContextRecord
  <2> QED  BY <2>1 DEF Range
<1> QED  BY <1>1, <1>2, <1>3, ChildStep

(* A reference is taken for another thread, to a context ...               *)
LEMMA RetainContextInv ==
  ASSUME Inv, NEW t \in Callers, NEW u \in Callers, NEW c \in Contexts, Retain(t, u, c)
  PROVE  Inv'
<1>0. Stacks /\ t \in Threads /\ u \in Threads /\ TypeInv
  BY SomeThread DEF Inv, Stacks, TypeInv
<1>1. /\ <<t, c>> \in owns /\ <<u, c>> \notin owns /\ owns' = owns \cup {<<u, c>>}
      /\ context' = [context EXCEPT ![c].refs = @ + 1] /\ UNCHANGED event
      /\ UNCHANGED <<frames, taskLock, callbacks, queue, deviceVars>>
  BY DEF Retain
<1>2. context[c] \in ContextRecord /\ ContextOk(c)
  BY <1>0 DEF TypeInv, Inv, ContextsInv
<1>3. /\ context' \in [Contexts -> ContextRecord] /\ \A b \in Contexts : b # c => context'[b] = context[b]
      /\ context'[c].state = context[c].state /\ context'[c].refs = context[c].refs + 1
      /\ context'[c].internal = context[c].internal /\ context'[c].devices = context[c].devices
  <2>1. PICK new : new = [context[c] EXCEPT !.refs = context[c].refs + 1]
    OBVIOUS
  <2>2. /\ new \in ContextRecord /\ new.state = context[c].state /\ new.refs = context[c].refs + 1
        /\ new.internal = context[c].internal /\ new.devices = context[c].devices
    BY <1>2, <2>1 DEF ContextRecord
  <2>3. context' = [context EXCEPT ![c] = new]
    BY <1>1, <2>1
  <2> QED  BY <1>0, <2>2, <2>3 DEF TypeInv
<1>4. CallsBecome(t, Calls(t)) /\ StacksInv'
  BY <1>0, <1>1, NoCall DEF CallsBecome
<1>5. TypeInv'
  BY <1>0, <1>1, <1>3, <1>4 DEF TypeInv, deviceVars, CallsBecome
<1>6. DevicesInv'
  <2>1. \A b \in Contexts : context'[b].devices = context[b].devices
    BY <1>3
  <2> QED  BY <1>0, <1>1, <1>4, <2>1, DevicesAlone DEF Inv, deviceVars
<1>7. ContextOk(c)'
  <2>1. Owners(c)' = Owners(c) \cup {u} /\ u \notin Owners(c) /\ t \in Owners(c)
    BY <1>1 DEF Owners
  <2>2. Cardinality(Owners(c)') = Cardinality(Owners(c)) + 1 /\ Cardinality(Owners(c)) # 0
    BY <2>1, CountsAreFinite, OneMore, FS_EmptySet
  <2>3. Children(c)' = Children(c)
    BY <1>1 DEF Children
  <2>4. context[c].refs # 0 /\ context[c].state = "live"
    BY <1>2, <2>2 DEF ContextOk, ContextCounts
  <2>5. ContextCounts(c)'
    BY <1>2, <1>3, <2>2, <2>3, <2>4 DEF ContextOk, ContextCounts
  <2>6. \A w \in Threads : \A f \in Calls(w) : ~(f.op \in {"make", "destroy"} /\ f.context = c)
    BY <1>2, <2>4 DEF ContextOk, Making, Destroying
  <2>7. Making(c)' /\ Destroying(c)'
    BY <1>1, <2>6 DEF Making, Destroying, Calls
  <2> QED  BY <2>5, <2>7 DEF ContextOk
<1>8. ContextsInv'
  <2>1. \A b \in Contexts : b # c => Children(b)' = Children(b) /\ Owners(b)' = Owners(b)
    BY <1>1 DEF Children, Owners
  <2> QED  BY <1>0, <1>3, <1>4, <1>7, <2>1, ContextsBut DEF Inv
<1>9. EventsInv'
  <2>1. \A x \in Events : x # c
    BY LifetimesAssumption
  <2>2. \A x \in Events : \A w \in Threads : <<w, x>> \in owns' <=> <<w, x>> \in owns
    BY <1>1, <2>1
  <2> QED  BY <1>0, <1>1, <1>3, <1>4, <2>2, EventsKept DEF Inv
<1>10. LockInv'
  BY <1>0, <1>1, <1>4, LockAlone DEF Inv
<1>11. CallbackInv'
  BY <1>1 DEF Inv, CallbackInv, Over
<1> QED  BY <1>4, <1>5, <1>6, <1>8, <1>9, <1>10, <1>11 DEF Inv

(* ... or to an event.                                                     *)
LEMMA RetainEventInv ==
  ASSUME Inv, NEW t \in Callers, NEW u \in Callers, NEW e \in Events, Retain(t, u, e)
  PROVE  Inv'
<1>0. Stacks /\ t \in Threads /\ u \in Threads /\ TypeInv /\ e \notin Contexts
  BY SomeThread, LifetimesAssumption DEF Inv, Stacks, TypeInv
<1>1. /\ <<t, e>> \in owns /\ <<u, e>> \notin owns /\ owns' = owns \cup {<<u, e>>}
      /\ event' = [event EXCEPT ![e].refs = @ + 1] /\ UNCHANGED context
      /\ UNCHANGED <<frames, taskLock, callbacks, queue, deviceVars>>
  BY <1>0 DEF Retain
<1>2. event[e] \in EventRecord /\ EventOk(e)
  BY <1>0 DEF TypeInv, Inv, EventsInv
<1>3. /\ event' \in [Events -> EventRecord] /\ \A x \in Events : x # e => event'[x] = event[x]
      /\ event'[e].state = event[e].state /\ event'[e].refs = event[e].refs + 1
      /\ event'[e].internal = event[e].internal /\ event'[e].context = event[e].context /\ event'[e].d3d = event[e].d3d
  <2>1. PICK new : new = [event[e] EXCEPT !.refs = event[e].refs + 1]
    OBVIOUS
  <2>2. /\ new \in EventRecord /\ new.state = event[e].state /\ new.refs = event[e].refs + 1
        /\ new.internal = event[e].internal /\ new.context = event[e].context /\ new.d3d = event[e].d3d
    BY <1>2, <2>1 DEF EventRecord
  <2>3. event' = [event EXCEPT ![e] = new]
    BY <1>1, <2>1
  <2> QED  BY <1>0, <2>2, <2>3 DEF TypeInv
<1>4. CallsBecome(t, Calls(t)) /\ StacksInv'
  BY <1>0, <1>1, NoCall DEF CallsBecome
<1>5. TypeInv'
  BY <1>0, <1>1, <1>3, <1>4 DEF TypeInv, deviceVars, CallsBecome
<1>6. DevicesInv'
  BY <1>0, <1>1, <1>4, DevicesAlone DEF Inv, deviceVars
<1>7. \A x \in Events : /\ event'[x].state = event[x].state /\ event'[x].context = event[x].context
  BY <1>3
<1>8. ContextsInv'
  <2>1. \A b \in Contexts : context'[b] = context[b] /\ Children(b)' = Children(b) /\ Owners(b)' = Owners(b)
    BY <1>0, <1>1, <1>7 DEF Children, Owners
  <2> QED  BY <1>0, <1>4, <2>1, ContextsKept DEF Inv
<1>9. EventOk(e)'
  <2>1. Owners(e)' = Owners(e) \cup {u} /\ u \notin Owners(e) /\ t \in Owners(e)
    BY <1>1 DEF Owners
  <2>2. Cardinality(Owners(e)') = Cardinality(Owners(e)) + 1
    BY <2>1, CountsAreFinite, OneMore
  <2>3. Releasing(e)' = Releasing(e) /\ (Handled(e)' <=> Handled(e))
    BY <1>1 DEF Releasing, Handled, Calls
  <2>4. event[e].state \notin {"none", "gone"}
    BY <2>1, EventIsAlive
  <2>5. Cardinality(Owners(e)) \in Nat /\ Cardinality(Releasing(e)) \in Nat
    BY CountsAreFinite
  <2>6. event[e].refs = Cardinality(Owners(e)) + Cardinality(Releasing(e))
    BY <1>2 DEF EventOk, EventCounts
  <2>7. event'[e].refs = Cardinality(Owners(e)') + Cardinality(Releasing(e)') /\ event'[e].refs > 0
    BY <1>3, <2>2, <2>3, <2>5, <2>6
  <2>8. EventCounts(e)'
    BY <1>2, <1>3, <2>3, <2>4, <2>7 DEF EventOk, EventCounts
  <2>9. Handling(e)' /\ Ending(e)'
    BY <1>1, <1>2, <1>3 DEF EventOk, Handling, Ending, Over, Calls
  <2>10. Setting(e)'
    BY <1>1, <1>2, <2>3 DEF EventOk, Setting, Calls
  <2>11. Placed(e)'
    BY <1>1, <1>2, <1>3, PlacedStays
  <2> QED  BY <2>8, <2>9, <2>10, <2>11 DEF EventOk
<1>10. EventsInv'
  <2>1. \A x \in Events : x # e => \A w \in Threads : <<w, x>> \in owns' <=> <<w, x>> \in owns
    BY <1>1
  <2> QED  BY <1>0, <1>1, <1>3, <1>4, <1>9, <2>1, EventsBut DEF Inv
<1>11. LockInv'
  BY <1>0, <1>1, <1>4, LockAlone DEF Inv
<1>12. CallbackInv'
  BY <1>1, <1>7 DEF Inv, CallbackInv, Over
<1> QED  BY <1>1, <1>4, <1>5, <1>6, <1>8, <1>10, <1>11, <1>12 DEF Inv

-----------------------------------------------------------------------------
(* Contexts                                                                *)

(* The constructor of a context begins.                                    *)
LEMMA clCreateContextInv ==
  ASSUME Inv, NEW t \in Callers, NEW c \in Contexts, clCreateContext(t, c)
  PROVE  Inv'
<1>0. Stacks /\ t \in Threads /\ TypeInv
  BY SomeThread DEF Inv, Stacks, TypeInv
<1>1. /\ MayCall(t) /\ context[c].state = "none"
      /\ context' = [context EXCEPT ![c].state = "making"]
      /\ UNCHANGED <<owns, deviceVars, eventVars>>
  BY DEF clCreateContext
<1>2. PICK g : /\ g = [op |-> "make", context |-> c, left |-> Wanted[c]]
               /\ frames' = [frames EXCEPT ![t] = Append(frames[t], g)]
  BY DEF clCreateContext, Push
<1>3. g \in Frame /\ g.op = "make" /\ g.context = c /\ Level(g) = 2
  <2>1. Wanted[c] \in Seq(Asked) \ {<<>>}
    BY LifetimesAssumption
  <2> QED  BY <1>2, <2>1 DEF Frame, Level
<1>4. \A f \in Calls(t) : f.op = "callback" /\ Level(f) = 1
  BY <1>0, <1>1, MayCallIs
<1>5. PICK S : S = Calls(t) \cup {g} /\ CallsBecome(t, S)
  <2>1. \A f \in Calls(t) : Level(f) < Level(g)
    BY <1>3, <1>4
  <2> QED  BY <1>0, <1>2, <1>3, <2>1, PushStep
<1>6. frames' \in [Threads -> Seq(Frame)] /\ StacksInv' /\ Calls(t)' = S
      /\ \A u \in Threads : u # t => Calls(u)' = Calls(u)
  BY <1>5 DEF CallsBecome
<1>7. context[c] \in ContextRecord /\ ContextOk(c)
  BY <1>0 DEF TypeInv, Inv, ContextsInv
<1>8. /\ context' \in [Contexts -> ContextRecord] /\ \A b \in Contexts : b # c => context'[b] = context[b]
      /\ context'[c].state = "making" /\ context'[c].refs = context[c].refs
      /\ context'[c].internal = context[c].internal /\ context'[c].devices = context[c].devices
  BY <1>0, <1>1, <1>7 DEF TypeInv, ContextRecord
<1>9. event' = event /\ owns' = owns /\ taskLock' = taskLock /\ callbacks' = callbacks /\ queue' = queue
  BY <1>1 DEF eventVars
<1>10. TypeInv'
  BY <1>0, <1>1, <1>6, <1>8, <1>9 DEF TypeInv, deviceVars
<1>11. \A b \in Contexts : context'[b].devices = context[b].devices
  BY <1>8
<1>12. DevicesInv'
  BY <1>0, <1>1, <1>3, <1>5, <1>11, DevicesAlone DEF Inv, deviceVars
<1>13. \A b \in Contexts : Owners(b)' = Owners(b) /\ Children(b)' = Children(b)
  BY <1>9 DEF Owners, Children
<1>14. ContextOk(c)'
  <2>1. ContextCounts(c)'
    BY <1>1, <1>7, <1>8, <1>13 DEF ContextOk, ContextCounts
  <2>2. \A u \in Threads : \A f \in Calls(u) : ~(f.op \in {"make", "destroy"} /\ f.context = c)
    BY <1>1, <1>7 DEF ContextOk, Making, Destroying
  <2>3. \A u \in Threads : \A f \in Calls(u)' : f.op \in {"make", "destroy"} /\ f.context = c => u = t /\ f = g
    BY <1>5, <1>6, <2>2
  <2>4. Making(c)'
    BY <1>8, <2>3 DEF Making
  <2>5. Destroying(c)'
    BY <1>3, <2>3 DEF Destroying
  <2> QED  BY <2>1, <2>4, <2>5 DEF ContextOk
<1>15. ContextsInv'
  <2>1. \A f \in S \cup Calls(t) : f.op \in {"make", "destroy"} /\ f.context # c => (f \in S <=> f \in Calls(t))
    BY <1>3, <1>5
  <2> QED  BY <1>0, <1>5, <1>8, <1>13, <1>14, <2>1, ContextsBut DEF Inv
<1>16. EventsInv'
  BY <1>0, <1>3, <1>5, <1>9, <1>11, EventsKept DEF Inv
<1>17. LockInv'
  BY <1>0, <1>3, <1>5, <1>9, LockAlone DEF Inv
<1>18. CallbackInv'
  BY <1>9 DEF Inv, CallbackInv, Over
<1> QED  BY <1>6, <1>10, <1>12, <1>15, <1>16, <1>17, <1>18 DEF Inv

(* A reference to a context is given up.                                   *)
LEMMA clReleaseContextInv ==
  ASSUME Inv, NEW t \in Callers, NEW c \in Contexts, clReleaseContext(t, c)
  PROVE  Inv'
<1>0. Stacks /\ t \in Threads /\ TypeInv
  BY SomeThread DEF Inv, Stacks, TypeInv
<1>1. PICK left : left = GiveUp(context[c])
  OBVIOUS
<1>2. /\ MayCall(t) /\ <<t, c>> \in owns /\ owns' = owns \ {<<t, c>>}
      /\ context' = [context EXCEPT ![c] = left]
      /\ frames' = [frames EXCEPT ![t] = frames[t] \o Destruction(c, left)]
      /\ UNCHANGED <<deviceVars, eventVars>>
  BY <1>1 DEF clReleaseContext
<1>3. context[c] \in ContextRecord /\ ContextOk(c)
  BY <1>0 DEF TypeInv, Inv, ContextsInv
<1>4. /\ left \in ContextRecord /\ left.state = context[c].state /\ left.refs = context[c].refs - 1
      /\ left.internal = context[c].internal /\ left.devices = context[c].devices
  <2>1. left = [context[c] EXCEPT !.refs = context[c].refs - 1]
    BY <1>1 DEF GiveUp
  <2> QED  BY <1>3, <2>1 DEF ContextRecord
<1>5. t \in Owners(c) /\ Owners(c)' = Owners(c) \ {t}
  BY <1>2 DEF Owners
<1>6. Cardinality(Owners(c) \ {t}) = Cardinality(Owners(c)) - 1 /\ Cardinality(Owners(c)) > 0
      /\ Cardinality(Owners(c)) \in Nat
  BY <1>5, CountsAreFinite, OneLess
<1>7. context[c].refs # 0 /\ context[c].state = "live" /\ context[c].devices # <<>>
  BY <1>3, <1>6 DEF ContextOk, ContextCounts
<1>8. PICK g : g = [op |-> "destroy", context |-> c, left |-> left.devices]
  OBVIOUS
<1>9. g \in Frame /\ g.op = "destroy" /\ g.context = c /\ g.left = context[c].devices /\ Level(g) = 2
  <2>1. left.devices \in Seq(D3D) \ {<<>>}
    BY <1>3, <1>4, <1>7 DEF ContextRecord
  <2> QED  BY <1>4, <1>8, <2>1 DEF Frame, Level
<1>10. frames[t] \in Seq(Frame) /\ \A f \in Calls(t) : f.op = "callback" /\ Level(f) = 1
  BY <1>0, <1>2, MayCallIs
<1>11. PICK dead \in BOOLEAN : dead <=> left.refs = 0 /\ left.internal = 0
  OBVIOUS
<1>12. PICK D : D = IF dead THEN {g} ELSE {}
  OBVIOUS
<1>13. CallsBecome(t, Calls(t) \cup D)
  <2>1. CASE ~dead
    <3>1. Destruction(c, left) = <<>>
      BY <1>11, <2>1 DEF Destruction
    <3>2. frames' = frames
      BY <1>0, <1>2, <1>10, <3>1, Pushed2 DEF TypeInv
    <3>3. Calls(t) \cup D = Calls(t)
      BY <1>12, <2>1
    <3> QED  BY <1>0, <3>2, <3>3, NoCall
  <2>2. CASE dead
    <3>1. Destruction(c, left) = <<g>>
      BY <1>8, <1>11, <2>2 DEF Destruction
    <3>2. frames' = [frames EXCEPT ![t] = Append(frames[t], g)]
      BY <1>2, <1>9, <1>10, <3>1, Pushed2
    <3>3. \A f \in Calls(t) : Level(f) < Level(g)
      BY <1>9, <1>10
    <3>4. D = {g}
      BY <1>12, <2>2
    <3> QED  BY <1>0, <1>9, <3>2, <3>3, <3>4, PushStep
  <2> QED  BY <2>1, <2>2
<1>14. PICK S : S = Calls(t) \cup D /\ CallsBecome(t, S)
  BY <1>13
<1>15. frames' \in [Threads -> Seq(Frame)] /\ StacksInv' /\ Calls(t)' = S
       /\ \A u \in Threads : u # t => Calls(u)' = Calls(u)
  BY <1>14 DEF CallsBecome
<1>16. \A f \in D : f = g
  BY <1>12
<1>17. event' = event /\ taskLock' = taskLock /\ callbacks' = callbacks /\ queue' = queue
  BY <1>2 DEF eventVars
<1>18. /\ context' \in [Contexts -> ContextRecord] /\ context'[c] = left
       /\ \A b \in Contexts : b # c => context'[b] = context[b]
       /\ \A b \in Contexts : context'[b].devices = context[b].devices
  BY <1>0, <1>2, <1>4 DEF TypeInv
<1>19. TypeInv'
  BY <1>0, <1>2, <1>15, <1>17, <1>18 DEF TypeInv, deviceVars
<1>20. DevicesInv'
  BY <1>0, <1>2, <1>9, <1>14, <1>16, <1>18, DevicesAlone DEF Inv, deviceVars
<1>21. ContextOk(c)'
  <2>1. Children(c)' = Children(c)
    BY <1>17 DEF Children
  <2>2. ContextCounts(c)'
    BY <1>3, <1>4, <1>5, <1>6, <1>7, <1>18, <2>1 DEF ContextOk, ContextCounts
  <2>3. \A u \in Threads : \A f \in Calls(u) : ~(f.op \in {"make", "destroy"} /\ f.context = c)
    BY <1>3, <1>7 DEF ContextOk, Making, Destroying
  <2>4. \A u \in Threads : \A f \in Calls(u)' : f.op \in {"make", "destroy"} /\ f.context = c
          => u = t /\ f = g /\ dead
    BY <1>12, <1>14, <1>15, <2>3
  <2>5. Making(c)'
    BY <1>9, <2>4 DEF Making
  <2>6. Destroying(c)'
    BY <1>4, <1>7, <1>9, <1>11, <1>18, <2>4 DEF Destroying
  <2> QED  BY <2>2, <2>5, <2>6 DEF ContextOk
<1>22. ContextsInv'
  <2>1. \A f \in S \cup Calls(t) : f.op \in {"make", "destroy"} /\ f.context # c => (f \in S <=> f \in Calls(t))
    BY <1>9, <1>14, <1>16
  <2>2. \A b \in Contexts : b # c => Owners(b)' = Owners(b) /\ Children(b)' = Children(b)
    BY <1>2, <1>17 DEF Owners, Children
  <2> QED  BY <1>0, <1>14, <1>18, <1>21, <2>1, <2>2, ContextsBut DEF Inv
<1>23. EventsInv'
  <2>1. \A x \in Events : x # c
    BY LifetimesAssumption
  <2>2. \A x \in Events : \A u \in Threads : <<u, x>> \in owns' <=> <<u, x>> \in owns
    BY <1>2, <2>1
  <2>3. \A f \in S \cup Calls(t) : f.op \in {"set", "release", "handler"} => (f \in S <=> f \in Calls(t))
    BY <1>9, <1>14, <1>16
  <2> QED  BY <1>0, <1>14, <1>17, <1>18, <2>2, <2>3, EventsKept DEF Inv
<1>24. LockInv'
  BY <1>0, <1>9, <1>14, <1>16, <1>17, LockAlone DEF Inv
<1>25. CallbackInv'
  BY <1>17 DEF Inv, CallbackInv, Over
<1> QED  BY <1>15, <1>19, <1>20, <1>22, <1>23, <1>24, <1>25 DEF Inv

-----------------------------------------------------------------------------
(* Where contexts have devices                                             *)

\* The same for any lists of devices.
PlacesIn(s, d) == {i \in DOMAIN s : s[i] = d}
HeldIn(L, d) == UNION {{c} \X PlacesIn(L[c], d) : c \in Contexts}
Lists == [c \in Contexts |-> context[c].devices]

(* What the model counts is what these lists hold.                         *)
LEMMA HeldIsHeldIn ==
  ASSUME NEW d
  PROVE  Held(d) = HeldIn(Lists, d)
<1>1. \A c \in Contexts : Places(c, d) = PlacesIn(Lists[c], d)
  BY DEF Places, PlacesIn, Lists
<1> QED  BY <1>1 DEF Held, HeldIn

(* The places in a list are finitely many.                                 *)
LEMMA PlacesAreFinite ==
  ASSUME NEW s \in Seq(D3D), NEW d
  PROVE  IsFiniteSet(PlacesIn(s, d)) /\ Cardinality(PlacesIn(s, d)) \in Nat
<1>1. PICK n \in Nat : n = Len(s) /\ DOMAIN s = 1 .. n
  OBVIOUS
<1>2. IsFiniteSet(1 .. n)
  BY FS_Interval
<1>3. PlacesIn(s, d) \in SUBSET (1 .. n)
  BY <1>1 DEF PlacesIn
<1> QED  BY <1>2, <1>3, FS_Subset, FS_CardinalityType

(* A device is added to a list, ...                                        *)
LEMMA PlacesAppended ==
  ASSUME NEW s \in Seq(D3D), NEW d \in D3D, NEW x
  PROVE  Cardinality(PlacesIn(Append(s, d), x)) = Cardinality(PlacesIn(s, x)) + IF x = d THEN 1 ELSE 0
<1>1. PICK n \in Nat : n = Len(s) /\ DOMAIN s = 1 .. n
  OBVIOUS
<1>2. PICK u : u = Append(s, d)
  OBVIOUS
<1>3. DOMAIN u = 1 .. n + 1 /\ u[n + 1] = d /\ \A i \in 1 .. n : u[i] = s[i]
  BY <1>1, <1>2
<1>4. \A i \in 1 .. n + 1 : i \in 1 .. n \/ i = n + 1
  OBVIOUS
<1>5. (\A i \in 1 .. n : i \in 1 .. n + 1) /\ n + 1 \in 1 .. n + 1 /\ n + 1 \notin 1 .. n
  OBVIOUS
<1>6. CASE x = d
  <2>1. PlacesIn(u, x) = PlacesIn(s, x) \cup {n + 1} /\ n + 1 \notin PlacesIn(s, x)
    BY <1>1, <1>3, <1>4, <1>5, <1>6 DEF PlacesIn
  <2>2. IsFiniteSet(PlacesIn(s, x))
    BY PlacesAreFinite
  <2> QED  BY <1>2, <1>6, <2>1, <2>2, OneMore
<1>7. CASE x # d
  <2>1. PlacesIn(u, x) = PlacesIn(s, x)
    BY <1>1, <1>3, <1>4, <1>5, <1>7 DEF PlacesIn
  <2>2. Cardinality(PlacesIn(s, x)) \in Nat
    BY PlacesAreFinite
  <2> QED  BY <1>2, <1>7, <2>1, <2>2
<1> QED  BY <1>6, <1>7

(* ... or its first is taken away.                                         *)
LEMMA PlacesOfTail ==
  ASSUME NEW s \in Seq(D3D), s # <<>>, NEW x
  PROVE  Cardinality(PlacesIn(Tail(s), x)) = Cardinality(PlacesIn(s, x)) - IF x = Head(s) THEN 1 ELSE 0
<1>1. PICK n \in Nat : n = Len(s) /\ DOMAIN s = 1 .. n /\ n > 0
  OBVIOUS
<1>2. PICK u : u = Tail(s)
  OBVIOUS
<1>3. DOMAIN u = 1 .. n - 1 /\ \A i \in 1 .. n - 1 : u[i] = s[i + 1]
  BY <1>1, <1>2
<1>4. PICK P : P = PlacesIn(s, x) \ {1}
  OBVIOUS
<1>5. \A i \in P : i \in 2 .. n /\ s[i] = x
  <2>1. \A i \in 1 .. n : i # 1 => i \in 2 .. n
    OBVIOUS
  <2> QED  BY <1>1, <1>4, <2>1 DEF PlacesIn
<1>6. \A i \in 2 .. n : s[i] = x => i \in P
  BY <1>1, <1>4 DEF PlacesIn
<1>7. PICK f : f = [i \in P |-> i - 1]
  OBVIOUS
<1>8. f \in Bijection(P, PlacesIn(u, x))
  <2>1. f \in [P -> PlacesIn(u, x)]
    <3> SUFFICES ASSUME NEW i \in P PROVE i - 1 \in PlacesIn(u, x)
      BY <1>7
    <3>1. i \in 2 .. n /\ s[i] = x
      BY <1>5
    <3>2. i - 1 \in 1 .. n - 1 /\ (i - 1) + 1 = i
      BY <3>1
    <3> QED  BY <1>3, <3>1, <3>2 DEF PlacesIn
  <2>2. \A i, j \in P : f[i] = f[j] => i = j
    BY <1>5, <1>7
  <2>3. \A j \in PlacesIn(u, x) : \E i \in P : f[i] = j
    <3> SUFFICES ASSUME NEW j \in PlacesIn(u, x) PROVE \E i \in P : f[i] = j
      OBVIOUS
    <3>1. j \in 1 .. n - 1 /\ s[j + 1] = x
      BY <1>3 DEF PlacesIn
    <3>2. j + 1 \in 2 .. n /\ (j + 1) - 1 = j
      BY <3>1
    <3>3. j + 1 \in P
      BY <1>6, <3>1, <3>2
    <3> QED  BY <1>7, <3>2, <3>3
  <2>4. f \in Injection(P, PlacesIn(u, x))
    BY <2>1, <2>2 DEF Injection, IsInjective
  <2>5. f \in Surjection(P, PlacesIn(u, x))
    BY <2>1, <2>3 DEF Surjection
  <2> QED  BY <2>4, <2>5 DEF Bijection
<1>9. IsFiniteSet(PlacesIn(s, x)) /\ Cardinality(PlacesIn(s, x)) \in Nat
  BY PlacesAreFinite
<1>10. IsFiniteSet(P)
  BY <1>4, <1>9, FS_RemoveElement
<1>11. Cardinality(PlacesIn(u, x)) = Cardinality(P)
  BY <1>8, <1>10, FS_Bijection DEF ExistsBijection
<1>12. 1 \in PlacesIn(s, x) <=> x = Head(s)
  BY <1>1 DEF PlacesIn
<1>13. CASE x = Head(s)
  BY <1>2, <1>4, <1>9, <1>11, <1>12, <1>13, OneLess
<1>14. CASE x # Head(s)
  <2>1. P = PlacesIn(s, x)
    BY <1>4, <1>12, <1>14
  <2> QED  BY <1>2, <1>9, <1>11, <1>14, <2>1
<1> QED  BY <1>13, <1>14

(* What is held changes as the list of one context does.                   *)
LEMMA HeldChanges ==
  ASSUME NEW L \in [Contexts -> Seq(D3D)], NEW K \in [Contexts -> Seq(D3D)], NEW c \in Contexts, NEW d,
         \A b \in Contexts : b # c => K[b] = L[b], IsFiniteSet(HeldIn(L, d))
  PROVE  /\ IsFiniteSet(HeldIn(K, d)) /\ Cardinality(HeldIn(K, d)) \in Nat /\ Cardinality(HeldIn(L, d)) \in Nat
         /\ Cardinality(HeldIn(K, d)) = (Cardinality(HeldIn(L, d)) - Cardinality(PlacesIn(L[c], d)))
                                        + Cardinality(PlacesIn(K[c], d))
<1>1. PICK O : O = UNION {{b} \X PlacesIn(L[b], d) : b \in Contexts \ {c}}
  OBVIOUS
<1>2. PICK P, Q : P = PlacesIn(L[c], d) /\ Q = PlacesIn(K[c], d)
  OBVIOUS
<1>3. HeldIn(L, d) = O \cup ({c} \X P) /\ HeldIn(K, d) = O \cup ({c} \X Q)
  <2>1. \A b \in Contexts \ {c} : PlacesIn(K[b], d) = PlacesIn(L[b], d)
    OBVIOUS
  <2>2. HeldIn(L, d) = O \cup ({c} \X P)
    BY <1>1, <1>2 DEF HeldIn
  <2>3. PICK N : N = UNION {{b} \X PlacesIn(K[b], d) : b \in Contexts \ {c}}
    OBVIOUS
  <2>4. HeldIn(K, d) = N \cup ({c} \X Q)
    BY <1>2, <2>3 DEF HeldIn
  <2>5. N = O
    BY <1>1, <2>1, <2>3
  <2> QED  BY <2>2, <2>4, <2>5
<1>4. O \cap ({c} \X P) = {} /\ O \cap ({c} \X Q) = {}
  BY <1>1
<1>5. IsFiniteSet(P) /\ IsFiniteSet(Q) /\ Cardinality(P) \in Nat /\ Cardinality(Q) \in Nat
  BY <1>2, PlacesAreFinite
<1>6. O \in SUBSET HeldIn(L, d)
  BY <1>3
<1>7. IsFiniteSet(O) /\ Cardinality(O) \in Nat
  BY <1>6, FS_Subset, FS_CardinalityType
<1>8. \A R : IsFiniteSet(R) /\ Cardinality(R) \in Nat
        => IsFiniteSet({c} \X R) /\ Cardinality({c} \X R) = Cardinality(R)
  <2> SUFFICES ASSUME NEW R, IsFiniteSet(R), Cardinality(R) \in Nat
               PROVE  IsFiniteSet({c} \X R) /\ Cardinality({c} \X R) = Cardinality(R)
    OBVIOUS
  <2>1. IsFiniteSet({c}) /\ Cardinality({c}) = 1
    BY FS_Singleton
  <2>2. IsFiniteSet({c} \X R) /\ Cardinality({c} \X R) = Cardinality({c}) * Cardinality(R)
    BY <2>1, FS_Product
  <2>3. PICK n \in Nat : n = Cardinality(R)
    OBVIOUS
  <2>4. 1 * n = n
    OBVIOUS
  <2> QED  BY <2>1, <2>2, <2>3, <2>4
<1>9. Cardinality({}) = 0
  BY FS_EmptySet
<1>10. \A R : IsFiniteSet(R) /\ O \cap R = {} =>
         IsFiniteSet(O \cup R) /\ Cardinality(O \cup R) = Cardinality(O) + Cardinality(R) - 0
  BY <1>7, <1>9, FS_Union
<1>11. IsFiniteSet(HeldIn(L, d)) /\ Cardinality(HeldIn(L, d)) = Cardinality(O) + Cardinality(P)
  <2>1. PICK R : R = {c} \X P
    OBVIOUS
  <2>2. IsFiniteSet(R) /\ Cardinality(R) = Cardinality(P) /\ O \cap R = {} /\ HeldIn(L, d) = O \cup R
    BY <1>3, <1>4, <1>5, <1>8, <2>1
  <2>3. IsFiniteSet(O \cup R) /\ Cardinality(O \cup R) = Cardinality(O) + Cardinality(R) - 0
    BY <1>10, <2>2
  <2> QED  BY <1>5, <1>7, <2>2, <2>3
<1>12. IsFiniteSet(HeldIn(K, d)) /\ Cardinality(HeldIn(K, d)) = Cardinality(O) + Cardinality(Q)
  <2>1. PICK R : R = {c} \X Q
    OBVIOUS
  <2>2. IsFiniteSet(R) /\ Cardinality(R) = Cardinality(Q) /\ O \cap R = {} /\ HeldIn(K, d) = O \cup R
    BY <1>3, <1>4, <1>5, <1>8, <2>1
  <2>3. IsFiniteSet(O \cup R) /\ Cardinality(O \cup R) = Cardinality(O) + Cardinality(R) - 0
    BY <1>10, <2>2
  <2> QED  BY <1>5, <1>7, <2>2, <2>3
<1> QED  BY <1>2, <1>5, <1>7, <1>11, <1>12

-----------------------------------------------------------------------------
(* Devices                                                                 *)

(* The least of numbers.                                                   *)
LEMMA Smallest ==
  ASSUME NEW T \in SUBSET Nat, T # {}
  PROVE  \E x \in T : \A y \in T : x <= y
<1>1. \E x \in T : \A y \in T : ~ (<<y, x>> \in OpToRel(<, Nat))
  BY NatLessThanWellFounded, WFMin
<1>2. PICK x \in T : \A y \in T : ~ (<<y, x>> \in OpToRel(<, Nat))
  BY <1>1
<1>3. \A y \in T : ~ (y < x)
  BY <1>2 DEF OpToRel
<1> QED  BY <1>3

(* One element is taken out of a list that has each only once.             *)
LEMMA WithoutIs ==
  ASSUME NEW s \in Seq(D3D), IsInjective(s), NEW x \in Range(s)
  PROVE  /\ Without(s, x) \in Seq(D3D) /\ IsInjective(Without(s, x))
         /\ Range(Without(s, x)) = Range(s) \ {x}
<1>1. PICK n \in Nat : n = Len(s) /\ DOMAIN s = 1 .. n
  OBVIOUS
<1>2. PICK k \in 1 .. n : s[k] = x /\ k = CHOOSE i \in DOMAIN s : s[i] = x
  <2>1. \E i \in DOMAIN s : s[i] = x
    BY DEF Range
  <2> QED  BY <1>1, <2>1
<1>0. k \in Nat /\ k >= 1 /\ k <= n /\ k # 0
  BY <1>1, <1>2
<1>3. PICK a, b : a = SubSeq(s, 1, k - 1) /\ b = SubSeq(s, k + 1, n)
  OBVIOUS
<1>4. a \in Seq(D3D) /\ Len(a) = k - 1 /\ \A i \in 1 .. k - 1 : a[i] = s[i]
  <2>1. 1 \in 1 .. (k - 1) + 1 /\ k - 1 \in 0 .. n
    BY <1>1, <1>2
  <2>2. \A i \in 1 .. k - 1 : a[i] = s[i]
    BY <1>0, <1>1, <1>3, <2>1, SubSeqProperties
  <2> QED  BY <1>0, <1>1, <1>3, <2>1, <2>2, SubSeqProperties
<1>5. b \in Seq(D3D) /\ Len(b) = n - k /\ \A i \in 1 .. n - k : b[i] = s[k + i]
  <2>2. k + 1 \in 1 .. n + 1 /\ n \in 0 .. n
    BY <1>0, <1>1
  <2>3. b \in Seq(D3D) /\ Len(b) = (n - (k + 1)) + 1 /\ \A i \in 1 .. (n - (k + 1)) + 1 : b[i] = s[(k + 1) + (i - 1)]
    BY <1>0, <1>1, <1>3, <2>2, SubSeqProperties
  <2>4. (n - (k + 1)) + 1 = n - k /\ \A i \in 1 .. n - k : (k + 1) + (i - 1) = k + i
    BY <1>0, <1>1
  <2> QED  BY <2>3, <2>4
<1>6. PICK w : w = a \o b
  OBVIOUS
<1>7. w = Without(s, x)
  BY <1>1, <1>2, <1>3, <1>6 DEF Without, RemoveAt
<1>8. w \in Seq(D3D) /\ Len(w) = n - 1
  BY <1>1, <1>2, <1>4, <1>5, <1>6
<1>9. DOMAIN w = 1 .. n - 1
  BY <1>8
<1>10. \A i \in 1 .. n - 1 : w[i] = IF i < k THEN s[i] ELSE s[i + 1]
  <2> SUFFICES ASSUME NEW i \in 1 .. n - 1 PROVE w[i] = IF i < k THEN s[i] ELSE s[i + 1]
    OBVIOUS
  <2>1. CASE i < k
    BY <1>4, <1>5, <1>6, <2>1
  <2>2. CASE ~(i < k)
    <3>1. PICK j \in 1 .. n - k : j = i - (k - 1) /\ k + j = i + 1
      <4>1. i \in Nat /\ i >= k /\ i <= n - 1 /\ i - (k - 1) \in 1 .. n - k
        BY <1>0, <1>1, <2>2
      <4> QED  BY <1>0, <4>1
    <3>2. w[i] = b[j]
      <4>1. i = Len(a) + j /\ j \in 1 .. Len(b)
        BY <1>0, <1>1, <1>4, <1>5, <3>1
      <4> QED  BY <1>4, <1>5, <1>6, <4>1
    <3> QED  BY <1>5, <2>2, <3>1, <3>2
  <2> QED  BY <2>1, <2>2
<1>11. IsInjective(w)
  <2>1. \A i, j \in 1 .. n : s[i] = s[j] => i = j
    BY <1>1 DEF IsInjective
  <2>2. ASSUME NEW i \in 1 .. n - 1, NEW j \in 1 .. n - 1, w[i] = w[j] PROVE i = j
    <3>1. PICK p \in 1 .. n : p = (IF i < k THEN i ELSE i + 1) /\ w[i] = s[p]
      BY <1>10
    <3>2. PICK q \in 1 .. n : q = (IF j < k THEN j ELSE j + 1) /\ w[j] = s[q]
      BY <1>10
    <3>3. p = q
      BY <2>1, <2>2, <3>1, <3>2
    <3> QED  BY <1>2, <3>1, <3>2, <3>3
  <2> QED  BY <1>9, <2>2 DEF IsInjective
<1>12. Range(w) = Range(s) \ {x}
  <2>1. Range(w) = {w[i] : i \in 1 .. n - 1} /\ Range(s) = {s[i] : i \in 1 .. n}
    BY <1>1, <1>9 DEF Range
  <2>2. \A i, j \in 1 .. n : s[i] = s[j] => i = j
    BY <1>1 DEF IsInjective
  <2>3. ASSUME NEW i \in 1 .. n - 1 PROVE w[i] \in Range(s) \ {x}
    <3>1. PICK p \in 1 .. n : p = (IF i < k THEN i ELSE i + 1) /\ w[i] = s[p]
      BY <1>10
    <3>2. p # k
      BY <1>0, <3>1
    <3> QED  BY <1>2, <2>1, <2>2, <3>1, <3>2
  <2>4. ASSUME NEW p \in 1 .. n, s[p] # x PROVE s[p] \in Range(w)
    <3>1. p # k
      BY <1>2, <2>4
    <3>2. PICK i \in 1 .. n - 1 : i = (IF p < k THEN p ELSE p - 1)
      BY <1>0, <1>1, <3>1
    <3>3. w[i] = s[p]
      <4>1. IF i < k THEN p = i ELSE p = i + 1
        BY <1>0, <1>1, <3>1, <3>2
      <4> QED  BY <1>10, <3>2, <4>1
    <3> QED  BY <2>1, <3>3
  <2> QED  BY <2>1, <2>3, <2>4
<1> QED  BY <1>7, <1>8, <1>11, <1>12

(* A device is found in the list, or is new in it.                         *)
LEMMA InitD3DStep ==
  ASSUME TypeInv, RegistryInv, NEW want, want.device \in Adapters,
         want.gl \in {w.gl : w \in Asked} \cup {FALSE}, NEW d \in D3D, InitD3D(want, d)
  PROVE  /\ registry' \in [Adapters -> Seq(D3D)] /\ d3d' \in [D3D -> DeviceRecord] /\ active' \in Int
         /\ RegistryInv' /\ initLock' = initLock
         /\ d3d'[d].count = d3d[d].count + 1 /\ d3d'[d].state = "live"
         /\ \A x \in D3D : x # d => d3d'[x] = d3d[x]
         /\ \A x \in D3D : \A a \in Adapters : x # d => (On(x, a)' <=> On(x, a))
         /\ \A a \in Adapters : On(d, a)' <=> a = want.device
         /\ \A x \in D3D : \A a \in Adapters : On(x, a) => On(x, a)'
         /\ d3d[d].count > 0 \/ d3d[d].state = "none"
<1>1. PICK a \in Adapters : a = want.device
  OBVIOUS
<1>2. PICK n \in Nat : registry[a] \in Seq(D3D) /\ n = Len(registry[a]) /\ DOMAIN registry[a] = 1 .. n
  <2>1. registry[a] \in Seq(D3D)
    BY DEF TypeInv
  <2> QED  BY <2>1, LenProperties
<1>3. initLock' = initLock
  BY DEF InitD3D
<1>4. CASE Matching(want) # {}
  <2>1. Matching(want) \in SUBSET Nat /\ Matching(want) \subseteq 1 .. n
    BY <1>1, <1>2 DEF Matching
  <2>2. PICK i \in Matching(want) : i = CHOOSE k \in Matching(want) : \A j \in Matching(want) : k <= j
    BY <1>4, <2>1, Smallest
  <2>3. d = registry[a][i] /\ d3d' = Find(want, d) /\ UNCHANGED <<registry, active>>
    BY <1>1, <1>4, <2>2 DEF InitD3D
  <2>4. On(d, a)
    BY <1>2, <2>1, <2>2, <2>3 DEF On, Range
  <2>5. d3d[d].count > 0 /\ d3d[d].state = "live" /\ d3d[d] \in DeviceRecord /\ d3d[d].count \in Nat
    BY <2>4 DEF RegistryInv, TypeInv, DeviceRecord
  <2>6. PICK new \in DeviceRecord : /\ new = [d3d[d] EXCEPT !.count = d3d[d].count + 1]
                                    /\ new.state = "live" /\ new.count = d3d[d].count + 1
    <3>1. PICK old \in DeviceRecord : old = d3d[d] /\ old.count \in Nat /\ old.state = "live"
      BY <2>5
    <3>2. PICK k \in Nat : k = old.count + 1
      BY <3>1
    <3>3. PICK new : new = [old EXCEPT !.count = k]
      OBVIOUS
    <3>4. new \in DeviceRecord /\ new.state = "live" /\ new.count = k
      BY <3>1, <3>3 DEF DeviceRecord
    <3> QED  BY <3>1, <3>2, <3>3, <3>4
  <2>7. d3d' = [d3d EXCEPT ![d] = new]
    BY <2>3, <2>6 DEF Find
  <2>8. d3d' \in [D3D -> DeviceRecord] /\ d3d'[d] = new /\ \A x \in D3D : x # d => d3d'[x] = d3d[x]
    BY <2>7 DEF TypeInv
  <2>9. \A x \in D3D : \A b \in Adapters : On(x, b)' <=> On(x, b)
    BY <2>3 DEF On
  <2>10. RegistryInv'
    <3>1. (/\ \A b \in Adapters : IsInjective(registry[b])
           /\ \A b, c \in Adapters : \A x \in D3D : On(x, b) /\ On(x, c) => b = c
           /\ active = Cardinality(Registered))'
      BY <2>3 DEF RegistryInv, On, Registered
    <3>2. (\A x \in D3D : d3d[x].count > 0 <=> \E b \in Adapters : On(x, b))'
      <4>1. new.count > 0 /\ \E b \in Adapters : On(d, b)'
        BY <2>4, <2>5, <2>6, <2>9
      <4>2. \A x \in D3D : (\E b \in Adapters : On(x, b)') <=> (\E b \in Adapters : On(x, b))
        BY <2>9
      <4> QED  BY <2>8, <4>1, <4>2 DEF RegistryInv
    <3>3. (\A x \in D3D : d3d[x].count > 0 => d3d[x].state = "live")'
      BY <2>6, <2>8 DEF RegistryInv
    <3> QED  BY <3>1, <3>2, <3>3 DEF RegistryInv
  <2>11. \A b \in Adapters : On(d, b)' <=> b = a
    BY <2>4, <2>9 DEF RegistryInv
  <2>12. registry' \in [Adapters -> Seq(D3D)] /\ active' \in Int
    BY <2>3 DEF TypeInv
  <2> QED  BY <1>1, <1>3, <2>5, <2>6, <2>8, <2>9, <2>10, <2>11, <2>12
<1>5. CASE Matching(want) = {}
  <2>1. /\ d \in Fresh /\ d3d' = [d3d EXCEPT ![d] = [state |-> "live", gl |-> want.gl, count |-> 1]]
        /\ registry' = [registry EXCEPT ![a] = Append(registry[a], d)] /\ active' = active + 1
    BY <1>1, <1>5 DEF InitD3D
  <2>2. d3d[d].state = "none" /\ d3d[d] \in DeviceRecord
    BY <2>1 DEF Fresh, TypeInv
  <2>3. d3d[d].count = 0 /\ \A b \in Adapters : ~On(d, b)
    <3>1. ~(d3d[d].count > 0) /\ d3d[d].count \in Nat
      BY <2>2 DEF RegistryInv, DeviceRecord
    <3> QED  BY <3>1 DEF RegistryInv
  <2>4. [state |-> "live", gl |-> want.gl, count |-> 1] \in DeviceRecord
    BY DEF DeviceRecord
  <2>5. /\ d3d' \in [D3D -> DeviceRecord] /\ d3d'[d].state = "live" /\ d3d'[d].count = 1
        /\ \A x \in D3D : x # d => d3d'[x] = d3d[x]
    BY <2>1, <2>4 DEF TypeInv
  <2>6. PICK new \in Seq(D3D) : /\ new = Append(registry[a], d) /\ DOMAIN new = 1 .. n + 1
                                /\ new[n + 1] = d /\ \A i \in 1 .. n : new[i] = registry[a][i]
    <3>1. PICK old \in Seq(D3D) : old = registry[a] /\ n = Len(old)
      BY <1>2
    <3>2. PICK new : new = Append(old, d)
      OBVIOUS
    <3>3. new \in Seq(D3D) /\ Len(new) = n + 1 /\ new[n + 1] = d /\ \A i \in 1 .. n : new[i] = old[i]
      BY <1>2, <3>1, <3>2, AppendProperties
    <3>4. DOMAIN new = 1 .. n + 1
      BY <3>3, LenProperties
    <3> QED  BY <3>1, <3>2, <3>3, <3>4
  <2>7. registry' \in [Adapters -> Seq(D3D)] /\ registry'[a] = new /\ \A b \in Adapters : b # a => registry'[b] = registry[b]
    BY <2>1, <2>6 DEF TypeInv
  <2>8. (\A i \in 1 .. n + 1 : i \in 1 .. n \/ i = n + 1) /\ (\A i \in 1 .. n : i \in 1 .. n + 1)
        /\ n + 1 \in 1 .. n + 1
    OBVIOUS
  <2>9. Range(new) = Range(registry[a]) \cup {d}
    <3>1. Range(new) = {new[i] : i \in 1 .. n + 1} /\ Range(registry[a]) = {registry[a][i] : i \in 1 .. n}
      BY <1>2, <2>6 DEF Range
    <3> QED  BY <2>6, <2>8, <3>1
  <2>10. \A x \in D3D : \A b \in Adapters : On(x, b)' <=> On(x, b) \/ (x = d /\ b = a)
    BY <2>7, <2>9 DEF On
  <2>11. \A b \in Adapters : On(d, b)' <=> b = a
    BY <2>3, <2>10
  <2>12. \A x \in D3D : \A b \in Adapters : x # d => (On(x, b)' <=> On(x, b))
    BY <2>10
  <2>13. (\A b \in Adapters : IsInjective(registry[b]))'
    <3>1. \A i \in 1 .. n : new[i] # d
      BY <1>2, <2>3, <2>6 DEF On, Range
    <3>2. IsInjective(new)
      <4>1. \A i, j \in 1 .. n : new[i] = new[j] => i = j
        BY <1>2, <2>6 DEF RegistryInv, IsInjective
      <4> QED  BY <2>6, <2>8, <3>1, <4>1 DEF IsInjective
    <3> QED  BY <2>7, <3>2 DEF RegistryInv
  <2>14. (\A b, c \in Adapters : \A x \in D3D : On(x, b) /\ On(x, c) => b = c)'
    BY <2>11, <2>12 DEF RegistryInv
  <2>15. (/\ \A x \in D3D : d3d[x].count > 0 <=> \E b \in Adapters : On(x, b)
          /\ \A x \in D3D : d3d[x].count > 0 => d3d[x].state = "live")'
    <3>1. ASSUME NEW x \in D3D
          PROVE  (d3d'[x].count > 0 <=> \E b \in Adapters : On(x, b)') /\ (d3d'[x].count > 0 => d3d'[x].state = "live")
      <4>1. CASE x = d
        BY <2>5, <2>11, <4>1
      <4>2. CASE x # d
        BY <2>5, <2>12, <4>2 DEF RegistryInv
      <4> QED  BY <4>1, <4>2
    <3> QED  BY <3>1
  <2>16. (active = Cardinality(Registered))'
    <3>1. d \notin Registered
      BY <2>3 DEF On, Registered
    <3>2. Registered' = Registered \cup {d}
      <4>1. \A x : x \in Registered' <=> \E b \in Adapters : x \in Range(registry'[b])
        BY DEF Registered
      <4>2. \A x : x \in Registered <=> \E b \in Adapters : x \in Range(registry[b])
        BY DEF Registered
      <4>3. \A x : \A b \in Adapters : x \in Range(registry'[b]) <=> x \in Range(registry[b]) \/ (x = d /\ b = a)
        BY <2>7, <2>9
      <4> QED  BY <4>1, <4>2, <4>3
    <3>3. Registered \in SUBSET D3D
      BY DEF Registered, TypeInv, Range
    <3>4. Cardinality(Registered \cup {d}) = Cardinality(Registered) + 1
      BY <3>1, <3>3, FiniteThreads, FS_Subset, OneMore
    <3> QED  BY <2>1, <3>2, <3>4 DEF RegistryInv
  <2>17. RegistryInv'
    BY <2>13, <2>14, <2>15, <2>16 DEF RegistryInv
  <2>18. active' \in Int
    BY <2>1 DEF TypeInv
  <2> QED  BY <1>1, <1>3, <2>2, <2>3, <2>5, <2>7, <2>10, <2>11, <2>12, <2>17, <2>18
<1> QED  BY <1>4, <1>5

\* What releasing a device does, which is on adapter a.
Released(t, d, below, a) ==
  /\ On(d, a) /\ initLock[a] = Nothing
  /\ registry' \in [Adapters -> Seq(D3D)] /\ d3d' \in [D3D -> DeviceRecord] /\ active' \in Int
  /\ RegistryInv'
  /\ d3d'[d].count = d3d[d].count - 1 /\ \A x \in D3D : d3d'[x].state = d3d[x].state
  /\ \A x \in D3D : x # d => d3d'[x] = d3d[x]
  /\ \A x \in D3D : \A b \in Adapters : On(x, b)' => On(x, b)
  /\ initLock' = IF d3d[d].count = 1 THEN [initLock EXCEPT ![a] = t] ELSE initLock
  /\ frames' = [frames EXCEPT ![t] =
       IF d3d[d].count = 1 THEN Append(below, [op |-> "delete", d3d |-> d, adapter |-> a]) ELSE below]

(* A device is used once less, and leaves the lists with its last use.     *)
LEMMA ReleaseD3DStep ==
  ASSUME TypeInv, RegistryInv, NEW t \in Threads, NEW d \in D3D, d3d[d].count > 0, NEW below,
         ReleaseD3D(t, d, below)
  PROVE  \E a \in Adapters : Released(t, d, below, a)
<1>1. PICK a \in Adapters : On(d, a)
  BY DEF RegistryInv
<1>2. AdapterOf(d) = a
  BY <1>1 DEF AdapterOf, On, RegistryInv
<1>3. PICK last \in BOOLEAN : last <=> d3d[d].count = 1
  OBVIOUS
<1>4. /\ initLock[a] = Nothing /\ d3d' = [d3d EXCEPT ![d].count = @ - 1] /\ active' = DeviceUninit(d)
      /\ registry' = IF last THEN [registry EXCEPT ![a] = Without(registry[a], d)] ELSE registry
      /\ initLock' = IF last THEN [initLock EXCEPT ![a] = t] ELSE initLock
      /\ frames' = [frames EXCEPT ![t] =
           IF last THEN Append(below, [op |-> "delete", d3d |-> d, adapter |-> a]) ELSE below]
  BY <1>2, <1>3 DEF ReleaseD3D
<1>5. PICK new \in DeviceRecord : /\ d3d' = [d3d EXCEPT ![d] = new] /\ new.state = d3d[d].state
                                  /\ new.count = d3d[d].count - 1 /\ new.state = "live"
  <2>1. PICK old \in DeviceRecord : old = d3d[d] /\ old.count \in Nat /\ old.count > 0 /\ old.state = "live"
    BY DEF TypeInv, RegistryInv, DeviceRecord
  <2>2. PICK k \in Nat : k = old.count - 1
    BY <2>1
  <2>3. PICK new : new = [old EXCEPT !.count = k]
    OBVIOUS
  <2>4. new \in DeviceRecord /\ new.state = old.state /\ new.count = k
    BY <2>1, <2>3 DEF DeviceRecord
  <2>5. d3d' = [d3d EXCEPT ![d] = new]
    BY <1>4, <2>1, <2>2, <2>3
  <2> QED  BY <2>1, <2>2, <2>4, <2>5
<1>6. /\ d3d' \in [D3D -> DeviceRecord] /\ d3d'[d] = new /\ \A x \in D3D : x # d => d3d'[x] = d3d[x]
      /\ \A x \in D3D : d3d'[x].state = d3d[x].state
  BY <1>5 DEF TypeInv
<1>7. d3d[d].count \in Nat
  BY DEF TypeInv, DeviceRecord
<1>8. CASE ~last
  <2>1. registry' = registry /\ active' = active
    BY <1>3, <1>4, <1>7, <1>8 DEF DeviceUninit
  <2>2. \A x \in D3D : \A b \in Adapters : On(x, b)' <=> On(x, b)
    BY <2>1 DEF On
  <2>3. new.count > 0
    BY <1>3, <1>5, <1>7, <1>8
  <2>4. (/\ \A b \in Adapters : IsInjective(registry[b])
         /\ \A b, c \in Adapters : \A x \in D3D : On(x, b) /\ On(x, c) => b = c
         /\ active = Cardinality(Registered))'
    BY <2>1 DEF RegistryInv, On, Registered
  <2>5. (/\ \A x \in D3D : d3d[x].count > 0 <=> \E b \in Adapters : On(x, b)
         /\ \A x \in D3D : d3d[x].count > 0 => d3d[x].state = "live")'
    <3>1. \A x \in D3D : (\E b \in Adapters : On(x, b)') <=> (\E b \in Adapters : On(x, b))
      BY <2>2
    <3> QED  BY <1>1, <1>5, <1>6, <2>3, <3>1 DEF RegistryInv
  <2>6. RegistryInv'
    BY <2>4, <2>5 DEF RegistryInv
  <2>7. registry' \in [Adapters -> Seq(D3D)] /\ active' \in Int
    BY <2>1 DEF TypeInv
  <2> QED  BY <1>1, <1>3, <1>4, <1>5, <1>6, <2>2, <2>6, <2>7 DEF Released
<1>9. CASE last
  <2>1. registry[a] \in Seq(D3D) /\ IsInjective(registry[a]) /\ d \in Range(registry[a])
    BY <1>1 DEF TypeInv, RegistryInv, On
  <2>2. PICK rest \in Seq(D3D) : /\ rest = Without(registry[a], d) /\ IsInjective(rest)
                                 /\ Range(rest) = Range(registry[a]) \ {d}
    BY <2>1, WithoutIs
  <2>3. /\ registry' \in [Adapters -> Seq(D3D)] /\ registry'[a] = rest
        /\ \A b \in Adapters : b # a => registry'[b] = registry[b]
    BY <1>4, <1>9, <2>2 DEF TypeInv
  <2>4. active' = active - 1 /\ active' \in Int
    BY <1>3, <1>4, <1>9 DEF DeviceUninit, TypeInv
  <2>5. \A b \in Adapters : On(d, b) => b = a
    BY <1>1 DEF RegistryInv
  <2>6. \A b \in Adapters : \A x : x \in Range(registry'[b]) <=> x \in Range(registry[b]) /\ x # d
    <3> SUFFICES ASSUME NEW b \in Adapters, NEW x
                 PROVE  x \in Range(registry'[b]) <=> x \in Range(registry[b]) /\ x # d
      OBVIOUS
    <3>1. CASE b = a
      BY <2>2, <2>3, <3>1
    <3>2. CASE b # a
      BY <2>3, <2>5, <3>2 DEF On
    <3> QED  BY <3>1, <3>2
  <2>7. \A x \in D3D : \A b \in Adapters : On(x, b)' <=> On(x, b) /\ x # d
    BY <2>6 DEF On
  <2>8. (\A b \in Adapters : IsInjective(registry[b]))'
    BY <2>2, <2>3 DEF RegistryInv
  <2>9. (\A b, c \in Adapters : \A x \in D3D : On(x, b) /\ On(x, c) => b = c)'
    BY <2>7 DEF RegistryInv
  <2>10. (/\ \A x \in D3D : d3d[x].count > 0 <=> \E b \in Adapters : On(x, b)
          /\ \A x \in D3D : d3d[x].count > 0 => d3d[x].state = "live")'
    <3>1. ASSUME NEW x \in D3D
          PROVE  (d3d'[x].count > 0 <=> \E b \in Adapters : On(x, b)') /\ (d3d'[x].count > 0 => d3d'[x].state = "live")
      <4>1. CASE x = d
        <5>1. new.count = 0
          BY <1>3, <1>5, <1>9
        <5> QED  BY <1>6, <2>7, <4>1, <5>1
      <4>2. CASE x # d
        BY <1>6, <2>7, <4>2 DEF RegistryInv
      <4> QED  BY <4>1, <4>2
    <3> QED  BY <3>1
  <2>11. (active = Cardinality(Registered))'
    <3>1. d \in Registered
      BY <2>1 DEF Registered
    <3>2. Registered' = Registered \ {d}
      <4>1. \A x : x \in Registered' <=> \E b \in Adapters : x \in Range(registry'[b])
        BY DEF Registered
      <4>2. \A x : x \in Registered <=> \E b \in Adapters : x \in Range(registry[b])
        BY DEF Registered
      <4> QED  BY <2>6, <4>1, <4>2
    <3>3. Registered \in SUBSET D3D
      BY DEF Registered, TypeInv, Range
    <3>4. Cardinality(Registered \ {d}) = Cardinality(Registered) - 1
      BY <3>1, <3>3, FiniteThreads, FS_Subset, OneLess
    <3> QED  BY <2>4, <3>2, <3>4 DEF RegistryInv
  <2>12. RegistryInv'
    BY <2>8, <2>9, <2>10, <2>11 DEF RegistryInv
  <2> QED  BY <1>1, <1>3, <1>4, <1>5, <1>6, <2>3, <2>4, <2>7, <2>12 DEF Released
<1> QED  BY <1>8, <1>9

(* The calls that hold a device for their length.                          *)
LEMMA TimersAre ==
  ASSUME NEW d
  PROVE  Timers(d) = {t \in Threads : \E f \in Calls(t) : f.op = "timer" /\ f.d3d = d}
BY DEF Timers, Calls, Range

(* Devices that are deleted are others than one that is found or new.      *)
LEMMA DeleteKept ==
  ASSUME TypeInv, RegistryInv, DeleteInv, NEW t \in Threads, NEW S, CallsBecome(t, S), NEW d \in D3D,
         d3d[d].count > 0 \/ d3d[d].state = "none", \A x \in D3D : x # d => d3d'[x] = d3d[x],
         initLock' = initLock,
         \A f \in S \cup Calls(t) : f.op = "delete" => (f \in S <=> f \in Calls(t))
  PROVE  DeleteInv'
<1>1. Calls(t)' = S /\ \A u \in Threads : u # t => Calls(u)' = Calls(u)
  BY DEF CallsBecome
<1>2. /\ \A u \in Threads : \A f \in Calls(u)' : f.op = "delete" => f \in Calls(u)
      /\ \A u \in Threads : \A f \in Calls(u) : f.op = "delete" => f \in Calls(u)'
  BY <1>1
<1>3. \A u \in Threads : \A f \in Calls(u) : f.op = "delete" => f.d3d \in D3D /\ f.d3d # d
  <2> SUFFICES ASSUME NEW u \in Threads, NEW f \in Calls(u), f.op = "delete" PROVE f.d3d \in D3D /\ f.d3d # d
    OBVIOUS
  <2>1. f \in Frame
    BY DEF TypeInv, Calls, Range
  <2>2. f.d3d \in D3D
    BY <2>1, FrameIs
  <2>3. d3d[f.d3d].count = 0 /\ d3d[f.d3d].state # "none"
    BY DEF DeleteInv
  <2> QED  BY <2>2, <2>3
<1>4. (\A u \in Threads : \A f \in Calls(u) : f.op = "delete" =>
         /\ d3d[f.d3d].count = 0 /\ d3d[f.d3d].state # "none" /\ initLock[f.adapter] = u)'
  BY <1>2, <1>3 DEF DeleteInv
<1>5. ASSUME NEW b \in Adapters, NEW u \in Threads, u = initLock[b]
      PROVE  \E f \in Calls(u)' : f.op = "delete" /\ f.adapter = b
  <2>1. PICK f \in Calls(u) : f.op = "delete" /\ f.adapter = b
    BY <1>5, LifetimesAssumption DEF DeleteInv
  <2> QED  BY <1>2, <2>1
<1>6. (\A b \in Adapters : initLock[b] # Nothing =>
         \E f \in Calls(initLock[b]) : f.op = "delete" /\ f.adapter = b)'
  <2>1. \A b \in Adapters : initLock[b] # Nothing => initLock[b] \in Threads
    BY DEF TypeInv
  <2> QED  BY <1>5, <2>1 DEF Calls
<1> QED  BY <1>4, <1>6 DEF DeleteInv

(* Who releases a device for the last time has its lock, and deletes it.   *)
LEMMA DeleteBegun ==
  ASSUME TypeInv, RegistryInv, DeleteInv, NEW t \in Threads, NEW S, CallsBecome(t, S), NEW d \in D3D,
         NEW a \in Adapters, NEW last \in BOOLEAN, d3d[d].count > 0, initLock[a] = Nothing,
         \A x \in D3D : x # d => d3d'[x] = d3d[x], d3d'[d].state # "none", last => d3d'[d].count = 0,
         initLock' = IF last THEN [initLock EXCEPT ![a] = t] ELSE initLock,
         \A f \in Calls(t) : f.op = "delete" => f \in S,
         \A f \in S : f.op = "delete" => f \in Calls(t) \/ (last /\ f.d3d = d /\ f.adapter = a),
         last => \E f \in S : f.op = "delete" /\ f.adapter = a
  PROVE  DeleteInv'
<1>1. Calls(t)' = S /\ \A u \in Threads : u # t => Calls(u)' = Calls(u)
  BY DEF CallsBecome
<1>2. initLock \in [Adapters -> Threads \cup {Nothing}] /\ Nothing \notin Threads
  BY LifetimesAssumption DEF TypeInv
<1>3. \A u \in Threads : \A f \in Calls(u) : f.op = "delete" =>
        f.d3d \in D3D /\ f.d3d # d /\ f.adapter \in Adapters /\ f.adapter # a
  <2> SUFFICES ASSUME NEW u \in Threads, NEW f \in Calls(u), f.op = "delete"
               PROVE  f.d3d \in D3D /\ f.d3d # d /\ f.adapter \in Adapters /\ f.adapter # a
    OBVIOUS
  <2>1. f \in Frame
    BY DEF TypeInv, Calls, Range
  <2>2. f.d3d \in D3D /\ f.adapter \in Adapters
    BY <2>1, FrameIs
  <2>3. d3d[f.d3d].count = 0 /\ initLock[f.adapter] = u
    BY DEF DeleteInv
  <2> QED  BY <1>2, <2>2, <2>3
<1>4. ASSUME NEW u \in Threads, NEW f \in Calls(u)', f.op = "delete"
      PROVE  d3d'[f.d3d].count = 0 /\ d3d'[f.d3d].state # "none" /\ initLock'[f.adapter] = u
  <2>1. CASE f \in Calls(u)
    <3>1. d3d'[f.d3d] = d3d[f.d3d] /\ initLock'[f.adapter] = initLock[f.adapter]
      BY <1>2, <1>3, <1>4, <2>1
    <3> QED  BY <1>4, <2>1, <3>1 DEF DeleteInv
  <2>2. CASE f \notin Calls(u)
    <3>1. u = t /\ last /\ f.d3d = d /\ f.adapter = a
      BY <1>1, <1>4, <2>2
    <3> QED  BY <1>2, <3>1
  <2> QED  BY <2>1, <2>2
<1>5. (\A u \in Threads : \A f \in Calls(u) : f.op = "delete" =>
         /\ d3d[f.d3d].count = 0 /\ d3d[f.d3d].state # "none" /\ initLock[f.adapter] = u)'
  BY <1>4
<1>6. ASSUME NEW b \in Adapters, NEW u \in Threads, u = initLock'[b]
      PROVE  \E f \in Calls(u)' : f.op = "delete" /\ f.adapter = b
  <2>1. CASE last /\ b = a
    BY <1>1, <1>2, <1>6, <2>1
  <2>2. CASE ~(last /\ b = a)
    <3>1. initLock[b] = u
      BY <1>2, <1>6, <2>2
    <3>2. PICK f \in Calls(u) : f.op = "delete" /\ f.adapter = b
      BY <1>2, <3>1 DEF DeleteInv
    <3> QED  BY <1>1, <3>2
  <2> QED  BY <2>1, <2>2
<1>7. (\A b \in Adapters : initLock[b] # Nothing =>
         \E f \in Calls(initLock[b]) : f.op = "delete" /\ f.adapter = b)'
  <2>1. \A b \in Adapters : initLock'[b] # Nothing => initLock'[b] \in Threads
    BY <1>2
  <2> QED  BY <1>6, <2>1 DEF Calls
<1> QED  BY <1>5, <1>7 DEF DeleteInv

(* What uses devices keeps them: only calls that hold one come or go.      *)
LEMMA TimersChange ==
  ASSUME NEW t \in Threads, NEW S, CallsBecome(t, S), NEW d,
         \A f \in S \cup Calls(t) : f.op = "timer" /\ f.d3d = d => (f \in S <=> f \in Calls(t))
  PROVE  Timers(d)' = Timers(d)
<1>1. Calls(t)' = S /\ \A u \in Threads : u # t => Calls(u)' = Calls(u)
  BY DEF CallsBecome
<1>2. \A u \in Threads : (\E f \in Calls(u)' : f.op = "timer" /\ f.d3d = d)
                         <=> (\E f \in Calls(u) : f.op = "timer" /\ f.d3d = d)
  BY <1>1
<1>3. \A u \in Threads : (\E i \in DOMAIN frames'[u] : frames'[u][i].op = "timer" /\ frames'[u][i].d3d = d)
                         <=> (\E i \in DOMAIN frames[u] : frames[u][i].op = "timer" /\ frames[u][i].d3d = d)
  BY <1>2 DEF Calls, Range
<1> QED  BY <1>3 DEF Timers

(* A call gets a device for its length, ...                                *)
LEMMA clGetDeviceAndHostTimerInv ==
  ASSUME Inv, NEW t \in Callers, NEW a \in Adapters, clGetDeviceAndHostTimer(t, a)
  PROVE  Inv'
<1>0. Stacks /\ t \in Threads /\ TypeInv /\ RegistryInv /\ CountInv /\ DeleteInv
  BY SomeThread DEF Inv, DevicesInv, Stacks, TypeInv
<1>1. MayCall(t) /\ UNCHANGED <<context, owns, leaked, eventVars>>
  BY DEF clGetDeviceAndHostTimer
<1>2. PICK want : want = [device |-> a, gl |-> FALSE]
  OBVIOUS
<1>3. PICK d \in D3D : InitD3D(want, d) /\ Push(t, [op |-> "timer", d3d |-> d])
  BY <1>2 DEF clGetDeviceAndHostTimer
<1>4. PICK g : g = [op |-> "timer", d3d |-> d] /\ frames' = [frames EXCEPT ![t] = Append(frames[t], g)]
  BY <1>3 DEF Push
<1>5. g \in Frame /\ g.op = "timer" /\ g.d3d = d /\ Level(g) = 2
  BY <1>4 DEF Frame, Level
<1>6. \A f \in Calls(t) : f.op = "callback" /\ Level(f) = 1
  BY <1>0, <1>1, MayCallIs
<1>7. PICK S : S = Calls(t) \cup {g} /\ CallsBecome(t, S)
  <2>1. \A f \in Calls(t) : Level(f) < Level(g)
    BY <1>5, <1>6
  <2> QED  BY <1>0, <1>4, <1>5, <2>1, PushStep
<1>8. frames' \in [Threads -> Seq(Frame)] /\ StacksInv' /\ Calls(t)' = S
      /\ \A u \in Threads : u # t => Calls(u)' = Calls(u)
  BY <1>7 DEF CallsBecome
<1>9. want.device = a /\ want.gl = FALSE
  BY <1>2
<1>10. /\ registry' \in [Adapters -> Seq(D3D)] /\ d3d' \in [D3D -> DeviceRecord] /\ active' \in Int
       /\ RegistryInv' /\ initLock' = initLock
       /\ d3d'[d].count = d3d[d].count + 1
       /\ \A x \in D3D : x # d => d3d'[x] = d3d[x]
       /\ d3d[d].count > 0 \/ d3d[d].state = "none"
  BY <1>0, <1>3, <1>9, InitD3DStep
<1>11. event' = event /\ context' = context /\ owns' = owns /\ leaked' = leaked
       /\ taskLock' = taskLock /\ callbacks' = callbacks /\ queue' = queue
  BY <1>1 DEF eventVars
<1>12. TypeInv'
  BY <1>0, <1>8, <1>10, <1>11 DEF TypeInv
<1>13. CountInv'
  <2> SUFFICES ASSUME NEW x \in D3D
               PROVE  (IsFiniteSet(Held(x))
                       /\ d3d[x].count = leaked[x] + Cardinality(Held(x)) + Cardinality(Timers(x)))'
    BY DEF CountInv
  <2>1. Held(x)' = Held(x)
    BY <1>11 DEF Held, Places
  <2>2. IsFiniteSet(Held(x)) /\ d3d[x].count = leaked[x] + Cardinality(Held(x)) + Cardinality(Timers(x))
    BY <1>0 DEF CountInv
  <2>3. CASE x # d
    <3>1. Timers(x)' = Timers(x)
      BY <1>0, <1>5, <1>7, <2>3, TimersChange
    <3> QED  BY <1>10, <1>11, <2>1, <2>2, <2>3, <3>1
  <2>4. CASE x = d
    <3>1. Timers(d)' = {u \in Threads : \E f \in Calls(u)' : f.op = "timer" /\ f.d3d = d}
      BY DEF Timers, Calls, Range
    <3>2. Timers(d)' = Timers(d) \cup {t} /\ t \notin Timers(d)
      BY <1>0, <1>5, <1>6, <1>7, <1>8, <3>1, TimersAre
    <3>3. Timers(d) \subseteq Threads
      BY DEF Timers
    <3>4. Cardinality(Timers(d)') = Cardinality(Timers(d)) + 1 /\ Cardinality(Timers(d)) \in Nat
      BY <3>2, <3>3, FiniteThreads, OneMore
    <3>5. leaked[d] \in Nat /\ Cardinality(Held(d)) \in Nat
      BY <1>0, <2>2, <2>4, FS_CardinalityType DEF TypeInv
    <3> QED  BY <1>10, <1>11, <2>1, <2>2, <2>4, <3>4, <3>5
  <2> QED  BY <2>3, <2>4
<1>14. DeleteInv'
  <2>1. \A f \in S \cup Calls(t) : f.op = "delete" => (f \in S <=> f \in Calls(t))
    BY <1>5, <1>7
  <2> QED  BY <1>0, <1>7, <1>10, <2>1, DeleteKept
<1>15. ContextsInv'
  <2>1. \A c \in Contexts : context'[c] = context[c] /\ Owners(c)' = Owners(c) /\ Children(c)' = Children(c)
    BY <1>11 DEF Owners, Children
  <2> QED  BY <1>0, <1>5, <1>7, <2>1, ContextsKept DEF Inv
<1>16. EventsInv'
  BY <1>0, <1>5, <1>7, <1>11, EventsKept DEF Inv
<1>17. LockInv'
  BY <1>0, <1>5, <1>7, <1>11, LockAlone DEF Inv
<1>18. CallbackInv'
  BY <1>11 DEF Inv, CallbackInv, Over
<1> QED  BY <1>8, <1>10, <1>12, <1>13, <1>14, <1>15, <1>16, <1>17, <1>18 DEF Inv, DevicesInv

\* Thread t goes back to the calls in "below", and may delete device d.
Returns(t, below, d) ==
  \E D : /\ CallsBecome(t, Range(below) \cup D)
         /\ \A f \in D : f.op = "delete" /\ f.d3d = d /\ f.adapter \in Adapters /\ On(d, f.adapter)

(* A thread whose remaining calls are those in "below" releases a device:  *)
(* it deletes it where this was the last use.                              *)
LEMMA ReleaseCalls ==
  ASSUME Inv, NEW t \in Threads, NEW below \in Seq(Frame), Rising(below),
         \A f \in Range(below) : Level(f) < 3 /\ (t \in Callers \/ f.op \in OtherOps),
         \A f \in Calls(t) : f.op # "delete",
         NEW d \in D3D, d3d[d].count > 0, ReleaseD3D(t, d, below)
  PROVE  /\ Returns(t, below, d)
         /\ registry' \in [Adapters -> Seq(D3D)] /\ d3d' \in [D3D -> DeviceRecord] /\ active' \in Int
         /\ initLock' \in [Adapters -> Threads \cup {Nothing}]
         /\ RegistryInv' /\ DeleteInv'
         /\ d3d'[d].count = d3d[d].count - 1 /\ \A x \in D3D : x # d => d3d'[x] = d3d[x]
         /\ \A x \in D3D : d3d'[x].state = d3d[x].state
         /\ \A x \in D3D : \A b \in Adapters : On(x, b)' => On(x, b)
<1>0. Stacks /\ TypeInv /\ RegistryInv /\ DeleteInv
  BY DEF Inv, DevicesInv, Stacks, TypeInv
<1>1. PICK a \in Adapters : Released(t, d, below, a)
  BY <1>0, ReleaseD3DStep
<1>2. /\ On(d, a) /\ initLock[a] = Nothing /\ (\A x \in D3D : \A b \in Adapters : On(x, b)' => On(x, b))
      /\ registry' \in [Adapters -> Seq(D3D)] /\ d3d' \in [D3D -> DeviceRecord] /\ active' \in Int
      /\ RegistryInv'
      /\ d3d'[d].count = d3d[d].count - 1 /\ (\A x \in D3D : d3d'[x].state = d3d[x].state)
      /\ (\A x \in D3D : x # d => d3d'[x] = d3d[x])
      /\ initLock' = (IF d3d[d].count = 1 THEN [initLock EXCEPT ![a] = t] ELSE initLock)
      /\ frames' = [frames EXCEPT ![t] =
           IF d3d[d].count = 1 THEN Append(below, [op |-> "delete", d3d |-> d, adapter |-> a]) ELSE below]
  BY <1>1 DEF Released
<1>3. PICK last \in BOOLEAN : last <=> d3d[d].count = 1
  OBVIOUS
<1>4. PICK h : h = [op |-> "delete", d3d |-> d, adapter |-> a]
  OBVIOUS
<1>5. h \in Frame /\ h.op = "delete" /\ h.d3d = d /\ h.adapter = a /\ Level(h) = 3 /\ h.op \in OtherOps
  BY <1>4 DEF Frame, Level, OtherOps
<1>6. PICK D : D = IF last THEN {h} ELSE {}
  OBVIOUS
<1>7. CallsBecome(t, Range(below) \cup D)
  <2>1. CASE ~last
    <3>1. frames' = [frames EXCEPT ![t] = below]
      BY <1>2, <1>3, <2>1
    <3>2. Range(below) \cup D = Range(below)
      BY <1>6, <2>1
    <3> QED  BY <1>0, <3>1, <3>2, StackStep DEF CallsBecome, Stacks
  <2>2. CASE last
    <3>1. PICK G \in Seq(Frame) : G = Append(below, h) /\ Rising(G) /\ Range(G) = Range(below) \cup {h}
      <4>1. \A f \in Range(below) : Level(f) < Level(h)
        BY <1>5
      <4> QED  BY <1>5, <4>1, Pushing
    <3>2. frames' = [frames EXCEPT ![t] = G]
      BY <1>2, <1>3, <1>4, <2>2, <3>1
    <3>3. \A f \in Range(G) : t \in Callers \/ f.op \in OtherOps
      BY <1>5, <3>1
    <3>4. Range(below) \cup D = Range(G)
      BY <1>6, <2>2, <3>1
    <3> QED  BY <1>0, <3>1, <3>2, <3>3, <3>4, StackStep DEF CallsBecome, Stacks
  <2> QED  BY <2>1, <2>2
<1>8. PICK S : S = Range(below) \cup D /\ CallsBecome(t, S)
  BY <1>7
<1>9. \A f \in Range(below) : f.op # "delete"
  <2>1. \A f : f.op = "delete" => Level(f) = 3
    BY DEF Level
  <2> QED  BY <2>1
<1>10. d3d'[d].state # "none"
  BY <1>0, <1>2 DEF RegistryInv
<1>11. last => d3d'[d].count = 0
  BY <1>2, <1>3
<1>12. initLock' = IF last THEN [initLock EXCEPT ![a] = t] ELSE initLock
  BY <1>2, <1>3
<1>13. /\ \A f \in Calls(t) : f.op = "delete" => f \in S
       /\ \A f \in S : f.op = "delete" => f \in Calls(t) \/ (last /\ f.d3d = d /\ f.adapter = a)
       /\ last => \E f \in S : f.op = "delete" /\ f.adapter = a
  BY <1>5, <1>6, <1>8, <1>9
<1>14. DeleteInv'
  <2>1. initLock[a] = Nothing /\ \A x \in D3D : x # d => d3d'[x] = d3d[x]
    BY <1>2
  <2> QED  BY <1>0, <1>8, <1>10, <1>11, <1>12, <1>13, <2>1, DeleteBegun
<1>15. initLock' \in [Adapters -> Threads \cup {Nothing}]
  BY <1>0, <1>12 DEF TypeInv
<1>16. \A f \in D : f.op = "delete" /\ f.d3d = d /\ f.adapter \in Adapters /\ On(d, f.adapter)
  BY <1>2, <1>5, <1>6
<1> QED  BY <1>2, <1>7, <1>14, <1>15, <1>16 DEF Returns

(* ... and gives it back.                                                  *)
LEMMA TimerReturnsInv ==
  ASSUME Inv, NEW t \in Threads, TimerReturns(t)
  PROVE  Inv'
<1>0. Stacks /\ TypeInv /\ CountInv
  BY DEF Inv, DevicesInv, Stacks, TypeInv
<1>1. In(t, "timer") /\ UNCHANGED <<context, owns, leaked, eventVars>>
  BY DEF TimerReturns
<1>2. /\ frames[t] \in Seq(Frame) /\ frames[t] # <<>> /\ Rising(frames[t]) /\ Top(t) = Last(frames[t])
      /\ Top(t) \in Calls(t) /\ Top(t).op = "timer" /\ Top(t) \in Frame
      /\ \A f \in Calls(t) \ {Top(t)} : Level(f) < Level(Top(t))
      /\ \A f \in Calls(t) : t \in Callers \/ f.op \in OtherOps
  BY <1>0, <1>1, TopIs
<1>3. PICK d \in D3D : d = Top(t).d3d
  BY <1>2, FrameIs
<1>4. PICK below \in Seq(Frame) : below = Front(frames[t]) /\ Rising(below) /\ Range(below) = Calls(t) \ {Top(t)}
  BY <1>2, StackParts DEF Calls
<1>5. ReleaseD3D(t, d, below)
  BY <1>3, <1>4 DEF TimerReturns
<1>6. Level(Top(t)) = 2 /\ \A f : f.op \in {"timer", "delete"} => Level(f) >= 2
  BY <1>2 DEF Level
<1>7. \A f \in Range(below) : Level(f) < 2 /\ (t \in Callers \/ f.op \in OtherOps)
  BY <1>2, <1>4, <1>6
<1>8. \A f \in Calls(t) : f.op # "delete"
  BY <1>2, <1>6 DEF Level
<1>9. \A f \in Range(below) : f.op # "timer"
  BY <1>6, <1>7 DEF Level
<1>10. t \in Timers(d) /\ Timers(d) \subseteq Threads
  <2>1. \E f \in Calls(t) : f.op = "timer" /\ f.d3d = d
    BY <1>2, <1>3
  <2> QED  BY <2>1, TimersAre
<1>11. IsFiniteSet(Timers(d)) /\ Cardinality(Timers(d)) \in Nat /\ Cardinality(Timers(d)) > 0
       /\ Cardinality(Timers(d) \ {t}) = Cardinality(Timers(d)) - 1
  BY <1>10, FiniteThreads, OneLess
<1>12. IsFiniteSet(Held(d)) /\ d3d[d].count = leaked[d] + Cardinality(Held(d)) + Cardinality(Timers(d))
       /\ leaked[d] \in Nat /\ Cardinality(Held(d)) \in Nat
  BY <1>0, FS_CardinalityType DEF CountInv, TypeInv
<1>13. d3d[d].count > 0
  BY <1>11, <1>12
<1>14. \A f \in Range(below) : Level(f) < 3 /\ (t \in Callers \/ f.op \in OtherOps)
  BY <1>7 DEF Level
<1>15. /\ Returns(t, below, d)
       /\ registry' \in [Adapters -> Seq(D3D)] /\ d3d' \in [D3D -> DeviceRecord] /\ active' \in Int
       /\ initLock' \in [Adapters -> Threads \cup {Nothing}]
       /\ RegistryInv' /\ DeleteInv'
       /\ d3d'[d].count = d3d[d].count - 1 /\ \A x \in D3D : x # d => d3d'[x] = d3d[x]
  BY <1>4, <1>5, <1>8, <1>13, <1>14, ReleaseCalls
<1>16. PICK D : CallsBecome(t, Range(below) \cup D) /\ \A f \in D : f.op = "delete"
  BY <1>15 DEF Returns
<1>17. PICK S : S = (Calls(t) \ {Top(t)}) \cup D /\ CallsBecome(t, S)
  BY <1>4, <1>16
<1>18. frames' \in [Threads -> Seq(Frame)] /\ StacksInv' /\ Calls(t)' = S
       /\ \A u \in Threads : u # t => Calls(u)' = Calls(u)
  BY <1>17 DEF CallsBecome
<1>19. \A f \in S \cup Calls(t) : f.op \notin {"timer", "delete"} => (f \in S <=> f \in Calls(t))
  BY <1>2, <1>16, <1>17
<1>20. event' = event /\ context' = context /\ owns' = owns /\ leaked' = leaked
       /\ taskLock' = taskLock /\ callbacks' = callbacks /\ queue' = queue
  BY <1>1 DEF eventVars
<1>21. TypeInv'
  BY <1>0, <1>15, <1>18, <1>20 DEF TypeInv
<1>22. CountInv'
  <2> SUFFICES ASSUME NEW x \in D3D
               PROVE  (IsFiniteSet(Held(x))
                       /\ d3d[x].count = leaked[x] + Cardinality(Held(x)) + Cardinality(Timers(x)))'
    BY DEF CountInv
  <2>1. Held(x)' = Held(x)
    BY <1>20 DEF Held, Places
  <2>2. CASE x # d
    <3>1. \A f \in S \cup Calls(t) : f.op = "timer" /\ f.d3d = x => (f \in S <=> f \in Calls(t))
      BY <1>3, <1>16, <1>17, <2>2
    <3>2. Timers(x)' = Timers(x)
      BY <1>17, <3>1, TimersChange
    <3> QED  BY <1>0, <1>15, <1>20, <2>1, <2>2, <3>2 DEF CountInv
  <2>3. CASE x = d
    <3>1. Timers(d)' = {u \in Threads : \E f \in Calls(u)' : f.op = "timer" /\ f.d3d = d}
      BY DEF Timers, Calls, Range
    <3>2. \A f \in S : f.op # "timer"
      BY <1>4, <1>9, <1>16, <1>17
    <3>3. Timers(d)' = Timers(d) \ {t}
      BY <1>18, <3>1, <3>2, TimersAre
    <3> QED  BY <1>11, <1>12, <1>15, <1>20, <2>1, <2>3, <3>3
  <2> QED  BY <2>2, <2>3
<1>23. ContextsInv'
  <2>1. \A c \in Contexts : context'[c] = context[c] /\ Owners(c)' = Owners(c) /\ Children(c)' = Children(c)
    BY <1>20 DEF Owners, Children
  <2> QED  BY <1>17, <1>19, <2>1, ContextsKept DEF Inv
<1>24. EventsInv'
  BY <1>0, <1>17, <1>19, <1>20, EventsKept DEF Inv
<1>25. LockInv'
  BY <1>0, <1>17, <1>19, <1>20, LockAlone DEF Inv
<1>26. CallbackInv'
  BY <1>20 DEF Inv, CallbackInv, Over
<1> QED  BY <1>15, <1>18, <1>21, <1>22, <1>23, <1>24, <1>25, <1>26 DEF Inv, DevicesInv

(* A device is deleted, or the program ends.                               *)
LEMMA DeleteD3DInv ==
  ASSUME Inv, NEW t \in Threads, DeleteD3D(t)
  PROVE  Inv'
<1>0. Stacks /\ TypeInv /\ RegistryInv /\ CountInv /\ DeleteInv
  BY DEF Inv, DevicesInv, Stacks, TypeInv
<1>1. In(t, "delete") /\ UNCHANGED <<registry, active, context, owns, leaked, eventVars>>
  BY DEF DeleteD3D
<1>2. event' = event /\ context' = context /\ owns' = owns /\ leaked' = leaked /\ registry' = registry
      /\ active' = active /\ taskLock' = taskLock /\ callbacks' = callbacks /\ queue' = queue
  BY <1>1 DEF eventVars
<1>3. /\ Top(t) \in Calls(t) /\ Top(t).op = "delete" /\ Top(t) \in Frame
      /\ \A f \in Calls(t) \ {Top(t)} : Level(f) < Level(Top(t))
  BY <1>0, <1>1, TopIs
<1>4. PICK d \in D3D, a \in Adapters : d = Top(t).d3d /\ a = Top(t).adapter
  BY <1>3, FrameIs
<1>5. d3d[d].count = 0 /\ d3d[d].state # "none" /\ initLock[a] = t
  BY <1>0, <1>3, <1>4 DEF DeleteInv
<1>6. \A f \in Calls(t) \ {Top(t)} : f.op # "delete"
  BY <1>3 DEF Level
<1>7. PICK S : (S = Calls(t) \/ S = Calls(t) \ {Top(t)}) /\ CallsBecome(t, S)
               /\ (/\ S = Calls(t) /\ d3d' = d3d /\ initLock' = initLock
                   \/ /\ S = Calls(t) \ {Top(t)} /\ d3d' = [d3d EXCEPT ![d].state = "deleted"]
                      /\ initLock' = [initLock EXCEPT ![a] = Nothing])
  <2>1. CASE t = Completion(d)
    <3>1. UNCHANGED <<d3d, initLock, frames>>
      BY <1>4, <2>1 DEF DeleteD3D
    <3>2. CallsBecome(t, Calls(t))
      BY <1>0, <3>1, NoCall
    <3> QED  BY <3>1, <3>2
  <2>2. CASE t # Completion(d)
    <3>1. /\ d3d' = [d3d EXCEPT ![d].state = "deleted"] /\ initLock' = [initLock EXCEPT ![a] = Nothing]
          /\ frames' = [frames EXCEPT ![t] = Front(frames[t])]
      BY <1>4, <2>2 DEF DeleteD3D, Pop
    <3>2. CallsBecome(t, Calls(t) \ {Top(t)})
      BY <1>0, <1>1, <3>1, PopStep
    <3> QED  BY <3>1, <3>2
  <2> QED  BY <2>1, <2>2
<1>8. frames' \in [Threads -> Seq(Frame)] /\ StacksInv' /\ Calls(t)' = S
      /\ \A u \in Threads : u # t => Calls(u)' = Calls(u)
  BY <1>7 DEF CallsBecome
<1>9. /\ d3d' \in [D3D -> DeviceRecord] /\ (\A x \in D3D : d3d'[x].count = d3d[x].count)
      /\ (\A x \in D3D : x # d => d3d'[x] = d3d[x]) /\ d3d'[d].state # "none"
  <2>1. d3d \in [D3D -> DeviceRecord]
    BY <1>0 DEF TypeInv
  <2>2. CASE d3d' = d3d
    BY <1>5, <2>1, <2>2
  <2>3. CASE d3d' = [d3d EXCEPT ![d].state = "deleted"]
    <3>1. PICK old \in DeviceRecord : old = d3d[d]
      BY <2>1
    <3>2. PICK new : new = [old EXCEPT !.state = "deleted"]
      OBVIOUS
    <3>3. new \in DeviceRecord /\ new.state = "deleted" /\ new.count = old.count
      BY <3>1, <3>2 DEF DeviceRecord
    <3>4. d3d' = [d3d EXCEPT ![d] = new]
      BY <2>3, <3>1, <3>2
    <3> QED  BY <2>1, <3>1, <3>3, <3>4
  <2> QED  BY <1>7, <2>2, <2>3
<1>10. initLock \in [Adapters -> Threads \cup {Nothing}] /\ Nothing \notin Threads
  BY <1>0, LifetimesAssumption DEF TypeInv
<1>11. initLock' \in [Adapters -> Threads \cup {Nothing}] /\ \A b \in Adapters : b # a => initLock'[b] = initLock[b]
  BY <1>7, <1>10
<1>12. TypeInv'
  BY <1>0, <1>2, <1>8, <1>9, <1>11 DEF TypeInv
<1>13. RegistryInv'
  <2>1. \A x \in D3D : \A b \in Adapters : On(x, b)' <=> On(x, b)
    BY <1>2 DEF On
  <2>2. \A x \in D3D : (\E b \in Adapters : On(x, b)') <=> (\E b \in Adapters : On(x, b))
    BY <2>1
  <2>3. (/\ \A b \in Adapters : IsInjective(registry[b])
         /\ \A b, c \in Adapters : \A x \in D3D : On(x, b) /\ On(x, c) => b = c
         /\ active = Cardinality(Registered))'
    BY <1>0, <1>2 DEF RegistryInv, On, Registered
  <2>4. (/\ \A x \in D3D : d3d[x].count > 0 <=> \E b \in Adapters : On(x, b)
         /\ \A x \in D3D : d3d[x].count > 0 => d3d[x].state = "live")'
    <3>1. \A x \in D3D : d3d'[x].count > 0 => x # d
      BY <1>5, <1>9
    <3> QED  BY <1>0, <1>9, <2>2, <3>1 DEF RegistryInv
  <2> QED  BY <2>3, <2>4 DEF RegistryInv
<1>14. \A f \in S \cup Calls(t) : f.op # "delete" => (f \in S <=> f \in Calls(t))
  BY <1>3, <1>7
<1>15. CountInv'
  <2> SUFFICES ASSUME NEW x \in D3D
               PROVE  (IsFiniteSet(Held(x))
                       /\ d3d[x].count = leaked[x] + Cardinality(Held(x)) + Cardinality(Timers(x)))'
    BY DEF CountInv
  <2>1. Held(x)' = Held(x)
    BY <1>2 DEF Held, Places
  <2>2. \A f \in S \cup Calls(t) : f.op = "timer" /\ f.d3d = x => (f \in S <=> f \in Calls(t))
    BY <1>14
  <2>3. Timers(x)' = Timers(x)
    BY <1>7, <2>2, TimersChange
  <2> QED  BY <1>0, <1>2, <1>9, <2>1, <2>3 DEF CountInv
<1>16. DeleteInv'
  <2>1. CASE S = Calls(t) /\ d3d' = d3d /\ initLock' = initLock
    <3>1. \A u \in Threads : Calls(u)' = Calls(u)
      BY <1>8, <2>1
    <3>2. (\A u \in Threads : \A f \in Calls(u) : f.op = "delete" =>
             /\ d3d[f.d3d].count = 0 /\ d3d[f.d3d].state # "none" /\ initLock[f.adapter] = u)'
      BY <1>0, <2>1, <3>1 DEF DeleteInv
    <3>3. ASSUME NEW b \in Adapters, NEW u \in Threads, u = initLock'[b]
          PROVE  \E f \in Calls(u)' : f.op = "delete" /\ f.adapter = b
      BY <1>0, <1>10, <2>1, <3>1, <3>3 DEF DeleteInv
    <3>4. (\A b \in Adapters : initLock[b] # Nothing =>
             \E f \in Calls(initLock[b]) : f.op = "delete" /\ f.adapter = b)'
      BY <1>11, <3>3 DEF Calls
    <3> QED  BY <3>2, <3>4 DEF DeleteInv
  <2>2. CASE S = Calls(t) \ {Top(t)} /\ initLock' = [initLock EXCEPT ![a] = Nothing]
    <3>1. ASSUME NEW u \in Threads, NEW f \in Calls(u)', f.op = "delete"
          PROVE  d3d'[f.d3d].count = 0 /\ d3d'[f.d3d].state # "none" /\ initLock'[f.adapter] = u
      <4>1. u # t /\ f \in Calls(u)
        BY <1>6, <1>8, <2>2, <3>1
      <4>2. f \in Frame
        BY <1>0, <4>1 DEF TypeInv, Calls, Range
      <4>3. f.d3d \in D3D /\ f.adapter \in Adapters
        BY <3>1, <4>2, FrameIs
      <4>4. d3d[f.d3d].count = 0 /\ d3d[f.d3d].state # "none" /\ initLock[f.adapter] = u
        BY <1>0, <3>1, <4>1 DEF DeleteInv
      <4>5. f.adapter # a
        BY <1>5, <4>1, <4>4
      <4> QED  BY <1>9, <1>11, <4>3, <4>4, <4>5
    <3>2. ASSUME NEW b \in Adapters, NEW u \in Threads, u = initLock'[b]
          PROVE  \E f \in Calls(u)' : f.op = "delete" /\ f.adapter = b
      <4>1. b # a
        BY <1>10, <2>2, <3>2
      <4>2. initLock[b] = u
        BY <1>11, <3>2, <4>1
      <4>3. PICK f \in Calls(u) : f.op = "delete" /\ f.adapter = b
        BY <1>0, <1>10, <4>2 DEF DeleteInv
      <4>4. u # t
        BY <1>4, <1>6, <4>1, <4>3
      <4> QED  BY <1>8, <4>3, <4>4
    <3>3. (\A u \in Threads : \A f \in Calls(u) : f.op = "delete" =>
             /\ d3d[f.d3d].count = 0 /\ d3d[f.d3d].state # "none" /\ initLock[f.adapter] = u)'
      BY <3>1
    <3>4. (\A b \in Adapters : initLock[b] # Nothing =>
             \E f \in Calls(initLock[b]) : f.op = "delete" /\ f.adapter = b)'
      BY <1>11, <3>2 DEF Calls
    <3> QED  BY <3>3, <3>4 DEF DeleteInv
  <2> QED  BY <1>7, <2>1, <2>2
<1>17. ContextsInv'
  <2>1. \A c \in Contexts : context'[c] = context[c] /\ Owners(c)' = Owners(c) /\ Children(c)' = Children(c)
    BY <1>2 DEF Owners, Children
  <2> QED  BY <1>7, <1>14, <2>1, ContextsKept DEF Inv
<1>18. EventsInv'
  BY <1>0, <1>2, <1>7, <1>14, EventsKept DEF Inv
<1>19. LockInv'
  BY <1>0, <1>2, <1>7, <1>14, LockAlone DEF Inv
<1>20. CallbackInv'
  BY <1>2 DEF Inv, CallbackInv, Over
<1> QED  BY <1>8, <1>12, <1>13, <1>15, <1>16, <1>17, <1>18, <1>19, <1>20 DEF Inv, DevicesInv

(* What is held after a step that changes the list of context c.           *)
LEMMA HeldStep ==
  ASSUME TypeInv, CountInv, context' \in [Contexts -> ContextRecord], NEW c \in Contexts,
         \A b \in Contexts : b # c => context'[b].devices = context[b].devices, NEW x \in D3D
  PROVE  /\ IsFiniteSet(Held(x)') /\ Cardinality(Held(x)') \in Nat /\ Cardinality(Held(x)) \in Nat
         /\ Cardinality(Held(x)') = (Cardinality(Held(x)) - Cardinality(PlacesIn(context[c].devices, x)))
                                    + Cardinality(PlacesIn(context'[c].devices, x))
<1>1. PICK L, K : L = [b \in Contexts |-> context[b].devices] /\ K = [b \in Contexts |-> context'[b].devices]
  OBVIOUS
<1>2. L \in [Contexts -> Seq(D3D)] /\ K \in [Contexts -> Seq(D3D)]
  BY <1>1 DEF TypeInv, ContextRecord
<1>3. Held(x) = HeldIn(L, x)
  BY <1>1, HeldIsHeldIn DEF Lists
<1>4. Held(x)' = HeldIn(K, x)
  <2>1. \A b \in Contexts : Places(b, x)' = PlacesIn(K[b], x)
    BY <1>1 DEF Places, PlacesIn
  <2> QED  BY <2>1 DEF Held, HeldIn
<1>5. IsFiniteSet(HeldIn(L, x))
  BY <1>3 DEF CountInv
<1>6. \A b \in Contexts : b # c => K[b] = L[b]
  BY <1>1
<1>7. /\ IsFiniteSet(HeldIn(K, x)) /\ Cardinality(HeldIn(K, x)) \in Nat /\ Cardinality(HeldIn(L, x)) \in Nat
      /\ Cardinality(HeldIn(K, x)) = (Cardinality(HeldIn(L, x)) - Cardinality(PlacesIn(L[c], x)))
                                     + Cardinality(PlacesIn(K[c], x))
  BY <1>2, <1>5, <1>6, HeldChanges
<1> QED  BY <1>1, <1>3, <1>4, <1>7

(* The constructor of a context gets one device more.                      *)
LEMMA ContextInitInv ==
  ASSUME Inv, NEW t \in Threads, ContextInit(t)
  PROVE  Inv'
<1>0. Stacks /\ TypeInv /\ RegistryInv /\ CountInv /\ DeleteInv
  BY DEF Inv, DevicesInv, Stacks, TypeInv
<1>1. In(t, "make") /\ UNCHANGED <<leaked, eventVars>>
  BY DEF ContextInit
<1>2. event' = event /\ leaked' = leaked /\ taskLock' = taskLock /\ callbacks' = callbacks /\ queue' = queue
  BY <1>1 DEF eventVars
<1>3. /\ frames[t] \in Seq(Frame) /\ Top(t) \in Calls(t) /\ Top(t).op = "make" /\ Top(t) \in Frame
      /\ \A f \in Calls(t) \ {Top(t)} : Level(f) < Level(Top(t))
      /\ \A f \in Calls(t) : t \in Callers \/ f.op \in OtherOps
  BY <1>0, <1>1, TopIs
<1>4. t \in Callers /\ Level(Top(t)) = 2
  BY <1>3 DEF OtherOps, Level
<1>5. PICK c \in Contexts, left \in Seq(Asked) : c = Top(t).context /\ left = Top(t).left /\ left # <<>>
  BY <1>3, FrameIs
<1>6. PICK want \in Asked, rest \in Seq(Asked) : want = Head(left) /\ rest = Tail(left)
  <2>1. Head(left) \in Asked /\ Tail(left) \in Seq(Asked)
    BY <1>5, HeadTailProperties
  <2> QED  BY <2>1
<1>7. PICK made \in BOOLEAN : made <=> rest = <<>>
  OBVIOUS
<1>8. PICK d \in D3D : /\ InitD3D(want, d)
                       /\ context' = [context EXCEPT ![c].devices = Append(@, d),
                                        ![c].state = IF made THEN "live" ELSE @,
                                        ![c].refs = IF made THEN 1 ELSE @]
  BY <1>5, <1>6, <1>7 DEF ContextInit
<1>9. PICK g : g = [Top(t) EXCEPT !.left = rest]
  OBVIOUS
<1>10. /\ owns' = IF made THEN owns \cup {<<t, c>>} ELSE owns
       /\ IF made THEN frames' = [frames EXCEPT ![t] = Front(frames[t])]
          ELSE frames' = [frames EXCEPT ![t] = Append(Front(frames[t]), g)]
  BY <1>5, <1>6, <1>7, <1>9 DEF ContextInit, Pop, Replace
<1>11. Top(t) = [op |-> "make", context |-> c, left |-> left]
  BY <1>3, <1>5 DEF Frame
<1>12. ~made => g \in Frame /\ g.op = "make" /\ g.context = c /\ Level(g) = 2
  <2>1. g = [op |-> "make", context |-> c, left |-> rest]
    BY <1>9, <1>11
  <2> QED  BY <1>7, <2>1 DEF Frame, Level
<1>13. PICK D : D = IF made THEN {} ELSE {g}
  OBVIOUS
<1>14. CallsBecome(t, (Calls(t) \ {Top(t)}) \cup D)
  <2>1. CASE made
    <3>1. (Calls(t) \ {Top(t)}) \cup D = Calls(t) \ {Top(t)}
      BY <1>13, <2>1
    <3>2. frames' = [frames EXCEPT ![t] = Front(frames[t])]
      BY <1>10, <2>1
    <3> QED  BY <1>0, <1>1, <3>1, <3>2, PopStep
  <2>2. CASE ~made
    <3>1. (Calls(t) \ {Top(t)}) \cup D = (Calls(t) \ {Top(t)}) \cup {g}
      BY <1>13, <2>2
    <3>2. frames' = [frames EXCEPT ![t] = Append(Front(frames[t]), g)]
      BY <1>10, <2>2
    <3>3. g \in Frame /\ Level(Top(t)) <= Level(g)
      BY <1>4, <1>12, <2>2
    <3> QED  BY <1>0, <1>1, <1>4, <3>1, <3>2, <3>3, ReplaceStep
  <2> QED  BY <2>1, <2>2
<1>15. PICK S : S = (Calls(t) \ {Top(t)}) \cup D /\ CallsBecome(t, S)
  BY <1>14
<1>16. frames' \in [Threads -> Seq(Frame)] /\ StacksInv' /\ Calls(t)' = S
       /\ \A u \in Threads : u # t => Calls(u)' = Calls(u)
  BY <1>15 DEF CallsBecome
<1>17. \A f \in D : f = g /\ ~made /\ f.op = "make" /\ f.context = c
  BY <1>12, <1>13
<1>18. \A f \in S \cup Calls(t) : ~(f.op = "make" /\ f.context = c) => (f \in S <=> f \in Calls(t))
  BY <1>3, <1>5, <1>15, <1>17
<1>19. \A f \in Calls(t) \ {Top(t)} : f.op = "callback"
  BY <1>3, <1>4 DEF Level
<1>20. want.device \in Adapters /\ want.gl \in {w.gl : w \in Asked} \cup {FALSE}
  BY <1>6 DEF Adapters
<1>21. /\ registry' \in [Adapters -> Seq(D3D)] /\ d3d' \in [D3D -> DeviceRecord] /\ active' \in Int
       /\ RegistryInv' /\ initLock' = initLock
       /\ d3d'[d].count = d3d[d].count + 1
       /\ \A x \in D3D : x # d => d3d'[x] = d3d[x]
       /\ d3d[d].count > 0 \/ d3d[d].state = "none"
  BY <1>0, <1>8, <1>20, InitD3DStep
<1>22. context[c] \in ContextRecord /\ ContextOk(c)
  BY <1>0 DEF TypeInv, Inv, ContextsInv
<1>23. context[c].state = "making" /\ context[c].refs = 0 /\ context[c].internal = 0
       /\ \A u \in Threads : \A f \in Calls(u) : f.op = "make" /\ f.context = c => u = t
  BY <1>3, <1>5, <1>22 DEF ContextOk, Making, ContextCounts
<1>24. Owners(c) = {} /\ Children(c) = {}
  <2>1. Cardinality(Owners(c)) = 0 /\ Cardinality(Children(c)) = 0
    BY <1>22, <1>23 DEF ContextOk, ContextCounts
  <2> QED  BY <2>1, CountsAreFinite, FS_EmptySet
<1>25. PICK old \in ContextRecord : old = context[c]
  BY <1>22
<1>26. PICK devices \in Seq(D3D) : devices = Append(old.devices, d) /\ devices # <<>>
  <2>1. old.devices \in Seq(D3D)
    BY DEF ContextRecord
  <2>2. PICK n, G : n \in Nat /\ n = Len(old.devices) /\ G = Append(old.devices, d)
    BY <2>1, LenProperties
  <2>3. G \in Seq(D3D) /\ Len(G) = n + 1
    BY <2>1, <2>2, AppendProperties
  <2>4. G # <<>>
    BY <2>2, <2>3
  <2> QED  BY <2>2, <2>3, <2>4
<1>27. PICK new \in ContextRecord : /\ new.devices = devices /\ new.internal = old.internal
                                    /\ new.state = (IF made THEN "live" ELSE old.state)
                                    /\ new.refs = (IF made THEN 1 ELSE old.refs)
                                    /\ context' = [context EXCEPT ![c] = new]
  <2>0. PICK s \in {"none", "making", "live", "gone"}, r \in Int :
          s = (IF made THEN "live" ELSE old.state) /\ r = (IF made THEN 1 ELSE old.refs)
    BY DEF ContextRecord
  <2>1. PICK new : new = [old EXCEPT !.devices = devices, !.state = s, !.refs = r]
    OBVIOUS
  <2>2. /\ new \in ContextRecord /\ new.devices = devices /\ new.internal = old.internal
        /\ new.state = (IF made THEN "live" ELSE old.state) /\ new.refs = (IF made THEN 1 ELSE old.refs)
    BY <2>0, <2>1 DEF ContextRecord
  <2>3. context' = [context EXCEPT ![c] = new]
    BY <1>8, <1>25, <1>26, <2>0, <2>1
  <2> QED  BY <2>2, <2>3
<1>28. /\ context' \in [Contexts -> ContextRecord] /\ context'[c] = new
       /\ \A b \in Contexts : b # c => context'[b] = context[b]
  BY <1>0, <1>27 DEF TypeInv
<1>29. TypeInv'
  BY <1>0, <1>2, <1>4, <1>10, <1>16, <1>21, <1>28 DEF TypeInv
<1>30. CountInv'
  <2> SUFFICES ASSUME NEW x \in D3D
               PROVE  (IsFiniteSet(Held(x))
                       /\ d3d[x].count = leaked[x] + Cardinality(Held(x)) + Cardinality(Timers(x)))'
    BY DEF CountInv
  <2>1. \A f \in S \cup Calls(t) : f.op = "timer" /\ f.d3d = x => (f \in S <=> f \in Calls(t))
    BY <1>18
  <2>2. Timers(x)' = Timers(x)
    BY <1>15, <2>1, TimersChange
  <2>3. \A b \in Contexts : b # c => context'[b].devices = context[b].devices
    BY <1>28
  <2>4. /\ IsFiniteSet(Held(x)') /\ Cardinality(Held(x)') \in Nat /\ Cardinality(Held(x)) \in Nat
        /\ Cardinality(Held(x)') = (Cardinality(Held(x)) - Cardinality(PlacesIn(context[c].devices, x)))
                                   + Cardinality(PlacesIn(context'[c].devices, x))
    BY <1>0, <1>28, <2>3, HeldStep
  <2>5. old.devices \in Seq(D3D)
    BY DEF ContextRecord
  <2>6. PICK p, q \in Nat : p = Cardinality(PlacesIn(old.devices, x)) /\ q = Cardinality(PlacesIn(devices, x))
    BY <2>5, PlacesAreFinite
  <2>7. q = p + IF x = d THEN 1 ELSE 0
    BY <1>26, <2>5, <2>6, PlacesAppended
  <2>8. PICK l, h, m, k \in Nat : /\ l = leaked[x] /\ h = Cardinality(Held(x)) /\ m = Cardinality(Timers(x))
                                  /\ k = (IF x = d THEN 1 ELSE 0)
    <3>1. Timers(x) \subseteq Threads
      BY DEF Timers
    <3> QED  BY <1>0, <2>4, <3>1, FiniteThreads DEF TypeInv
  <2>9. Cardinality(Held(x)') = h + k
    <3>1. PICK now \in Nat : now = Cardinality(Held(x)')
      BY <2>4
    <3>2. q = p + k /\ now = (h - p) + q
      BY <1>25, <1>27, <1>28, <2>4, <2>6, <2>7, <2>8, <3>1
    <3>3. now = h + k
      BY <3>2
    <3> QED  BY <3>1, <3>3
  <2>10. d3d[x].count = l + h + m
    BY <1>0, <2>8 DEF CountInv
  <2>11. d3d'[x].count = (l + h + m) + k
    BY <1>21, <2>8, <2>10
  <2>12. leaked'[x] = l /\ Cardinality(Timers(x)') = m
    BY <1>2, <2>2, <2>8
  <2>13. d3d'[x].count = leaked'[x] + Cardinality(Held(x)') + Cardinality(Timers(x)')
    BY <2>8, <2>9, <2>11, <2>12
  <2> QED  BY <2>4, <2>13
<1>31. DeleteInv'
  <2>1. \A f \in S \cup Calls(t) : f.op = "delete" => (f \in S <=> f \in Calls(t))
    BY <1>18
  <2> QED  BY <1>0, <1>15, <1>21, <2>1, DeleteKept
<1>32. Children(c)' = {} /\ Owners(c)' = IF made THEN {t} ELSE {}
  <2>1. Children(c)' = Children(c)
    BY <1>2 DEF Children
  <2>2. CASE made
    BY <1>4, <1>10, <1>24, <2>1, <2>2 DEF Owners
  <2>3. CASE ~made
    BY <1>10, <1>24, <2>1, <2>3 DEF Owners
  <2> QED  BY <2>2, <2>3
<1>33. ContextOk(c)'
  <2>1. Cardinality({}) = 0 /\ Cardinality({t}) = 1
    BY FS_EmptySet, FS_Singleton
  <2>2. ContextCounts(c)'
    BY <1>23, <1>25, <1>26, <1>27, <1>28, <1>32, <2>1 DEF ContextCounts
  <2>3. \A u \in Threads : \A f \in Calls(u) : ~(f.op = "destroy" /\ f.context = c)
    BY <1>22, <1>23 DEF ContextOk, Destroying
  <2>4. \A u \in Threads : \A f \in Calls(u)' : ~(f.op = "destroy" /\ f.context = c)
    BY <1>15, <1>16, <1>17, <2>3
  <2>5. \A u \in Threads : \A f \in Calls(u)' : f.op = "make" /\ f.context = c => u = t /\ ~made
    BY <1>15, <1>16, <1>17, <1>19, <1>23
  <2>6. ~made => context'[c].state = "making"
    BY <1>23, <1>25, <1>27, <1>28
  <2>7. Making(c)'
    BY <2>5, <2>6 DEF Making
  <2>8. Destroying(c)'
    BY <2>4 DEF Destroying
  <2> QED  BY <2>2, <2>7, <2>8 DEF ContextOk
<1>34. ContextsInv'
  <2>1. \A f \in S \cup Calls(t) : f.op \in {"make", "destroy"} /\ f.context # c => (f \in S <=> f \in Calls(t))
    BY <1>18
  <2>2. \A b \in Contexts : b # c => Owners(b)' = Owners(b) /\ Children(b)' = Children(b)
    BY <1>2, <1>10 DEF Owners, Children
  <2> QED  BY <1>15, <1>28, <1>33, <2>1, <2>2, ContextsBut DEF Inv
<1>35. EventsInv'
  <2>1. \A x \in Events : x # c
    BY LifetimesAssumption
  <2>2. \A x \in Events : \A u \in Threads : <<u, x>> \in owns' <=> <<u, x>> \in owns
    BY <1>10, <2>1
  <2>3. \A f \in S \cup Calls(t) : f.op \in {"set", "release", "handler"} => (f \in S <=> f \in Calls(t))
    BY <1>18
  <2>4. \A b \in Contexts : context'[b].devices = context[b].devices \/ Children(b) = {}
    BY <1>24, <1>28
  <2> QED  BY <1>0, <1>2, <1>15, <2>2, <2>3, <2>4, EventsKept DEF Inv
<1>36. LockInv'
  <2>1. \A f \in S \cup Calls(t) : f.op = "handler" => (f \in S <=> f \in Calls(t))
    BY <1>18
  <2> QED  BY <1>0, <1>2, <1>15, <2>1, LockAlone DEF Inv
<1>37. CallbackInv'
  BY <1>2 DEF Inv, CallbackInv, Over
<1> QED  BY <1>16, <1>21, <1>29, <1>30, <1>31, <1>34, <1>35, <1>36, <1>37 DEF Inv, DevicesInv

(* Devices that are deleted do not change by themselves.                   *)
LEMMA DeleteSame ==
  ASSUME TypeInv, DeleteInv, NEW t \in Threads, NEW S, CallsBecome(t, S),
         d3d' = d3d, initLock' = initLock,
         \A f \in S \cup Calls(t) : f.op = "delete" => (f \in S <=> f \in Calls(t))
  PROVE  DeleteInv'
<1>1. Calls(t)' = S /\ \A u \in Threads : u # t => Calls(u)' = Calls(u)
  BY DEF CallsBecome
<1>2. /\ \A u \in Threads : \A f \in Calls(u)' : f.op = "delete" => f \in Calls(u)
      /\ \A u \in Threads : \A f \in Calls(u) : f.op = "delete" => f \in Calls(u)'
  BY <1>1
<1>3. (\A u \in Threads : \A f \in Calls(u) : f.op = "delete" =>
         /\ d3d[f.d3d].count = 0 /\ d3d[f.d3d].state # "none" /\ initLock[f.adapter] = u)'
  BY <1>2 DEF DeleteInv
<1>4. ASSUME NEW b \in Adapters, NEW u \in Threads, u = initLock[b]
      PROVE  \E f \in Calls(u)' : f.op = "delete" /\ f.adapter = b
  <2>1. PICK f \in Calls(u) : f.op = "delete" /\ f.adapter = b
    BY <1>4, LifetimesAssumption DEF DeleteInv
  <2> QED  BY <1>2, <2>1
<1>5. (\A b \in Adapters : initLock[b] # Nothing =>
         \E f \in Calls(initLock[b]) : f.op = "delete" /\ f.adapter = b)'
  <2>1. \A b \in Adapters : initLock[b] # Nothing => initLock[b] \in Threads
    BY DEF TypeInv
  <2> QED  BY <1>4, <2>1 DEF Calls
<1> QED  BY <1>3, <1>5 DEF DeleteInv

(* The constructor of a context throws: its devices are never released.    *)
LEMMA ContextInitThrowsInv ==
  ASSUME Inv, NEW t \in Threads, ContextInitThrows(t)
  PROVE  Inv'
<1>0. Stacks /\ TypeInv /\ RegistryInv /\ CountInv /\ DeleteInv
  BY DEF Inv, DevicesInv, Stacks, TypeInv
<1>1. In(t, "make") /\ UNCHANGED <<registry, d3d, initLock, active, owns, eventVars>>
  BY DEF ContextInitThrows
<1>2. event' = event /\ owns' = owns /\ taskLock' = taskLock /\ callbacks' = callbacks /\ queue' = queue
      /\ registry' = registry /\ d3d' = d3d /\ initLock' = initLock /\ active' = active
  BY <1>1 DEF eventVars
<1>3. /\ Top(t) \in Calls(t) /\ Top(t).op = "make" /\ Top(t) \in Frame
      /\ \A f \in Calls(t) \ {Top(t)} : Level(f) < Level(Top(t))
  BY <1>0, <1>1, TopIs
<1>4. PICK c \in Contexts : c = Top(t).context
  BY <1>3, FrameIs
<1>5. /\ context' = [context EXCEPT ![c] = [@ EXCEPT !.state = "gone", !.devices = <<>>]]
      /\ leaked' = [d \in D3D |-> leaked[d] + Cardinality(Places(c, d))]
      /\ frames' = [frames EXCEPT ![t] = Front(frames[t])]
  BY <1>4 DEF ContextInitThrows, Pop
<1>6. PICK S : S = Calls(t) \ {Top(t)} /\ CallsBecome(t, S)
  BY <1>0, <1>1, <1>5, PopStep
<1>7. frames' \in [Threads -> Seq(Frame)] /\ StacksInv' /\ Calls(t)' = S
      /\ \A u \in Threads : u # t => Calls(u)' = Calls(u)
  BY <1>6 DEF CallsBecome
<1>8. \A f \in S \cup Calls(t) : f # Top(t) => (f \in S <=> f \in Calls(t))
  BY <1>3, <1>6
<1>9. \A f \in S \cup Calls(t) : ~(f.op = "make" /\ f.context = c) => (f \in S <=> f \in Calls(t))
  BY <1>3, <1>4, <1>8
<1>10. context[c] \in ContextRecord /\ ContextOk(c)
  BY <1>0 DEF TypeInv, Inv, ContextsInv
<1>11. context[c].state = "making" /\ context[c].refs = 0 /\ context[c].internal = 0
       /\ \A u \in Threads : \A f \in Calls(u) : f.op = "make" /\ f.context = c => u = t
  BY <1>3, <1>4, <1>10 DEF ContextOk, Making, ContextCounts
<1>12. Children(c) = {}
  <2>1. Cardinality(Children(c)) = 0
    BY <1>10, <1>11 DEF ContextOk, ContextCounts
  <2> QED  BY <2>1, CountsAreFinite, FS_EmptySet
<1>13. /\ context' \in [Contexts -> ContextRecord] /\ context'[c].state = "gone" /\ context'[c].devices = <<>>
       /\ context'[c].refs = context[c].refs /\ context'[c].internal = context[c].internal
       /\ \A b \in Contexts : b # c => context'[b] = context[b]
  <2>1. PICK old \in ContextRecord : old = context[c]
    BY <1>10
  <2>2. PICK none \in Seq(D3D) : none = <<>>
    BY EmptySeq
  <2>3. PICK new : new = [old EXCEPT !.state = "gone", !.devices = none]
    OBVIOUS
  <2>4. /\ new \in ContextRecord /\ new.state = "gone" /\ new.devices = none
        /\ new.refs = old.refs /\ new.internal = old.internal
    BY <2>1, <2>3 DEF ContextRecord
  <2>5. context' = [context EXCEPT ![c] = new]
    BY <1>5, <2>1, <2>2, <2>3
  <2> QED  BY <1>0, <2>1, <2>2, <2>4, <2>5 DEF TypeInv
<1>14. context[c].devices \in Seq(D3D)
  BY <1>10 DEF ContextRecord
<1>15. \A x : Places(c, x) = PlacesIn(context[c].devices, x)
  BY DEF Places, PlacesIn
<1>16. \A x : Cardinality(Places(c, x)) \in Nat
  BY <1>14, <1>15, PlacesAreFinite
<1>17. leaked' \in [D3D -> Nat]
  BY <1>0, <1>5, <1>16 DEF TypeInv
<1>18. TypeInv'
  BY <1>0, <1>2, <1>7, <1>13, <1>17 DEF TypeInv
<1>19. RegistryInv'
  BY <1>0, <1>2 DEF RegistryInv, On, Registered
<1>20. CountInv'
  <2> SUFFICES ASSUME NEW x \in D3D
               PROVE  (IsFiniteSet(Held(x))
                       /\ d3d[x].count = leaked[x] + Cardinality(Held(x)) + Cardinality(Timers(x)))'
    BY DEF CountInv
  <2>1. \A f \in S \cup Calls(t) : f.op = "timer" /\ f.d3d = x => (f \in S <=> f \in Calls(t))
    BY <1>9
  <2>2. Timers(x)' = Timers(x)
    BY <1>6, <2>1, TimersChange
  <2>3. \A b \in Contexts : b # c => context'[b].devices = context[b].devices
    BY <1>13
  <2>4. /\ IsFiniteSet(Held(x)') /\ Cardinality(Held(x)') \in Nat /\ Cardinality(Held(x)) \in Nat
        /\ Cardinality(Held(x)') = (Cardinality(Held(x)) - Cardinality(PlacesIn(context[c].devices, x)))
                                   + Cardinality(PlacesIn(context'[c].devices, x))
    BY <1>0, <1>13, <2>3, HeldStep
  <2>5. PlacesIn(<<>>, x) = {} /\ Cardinality({}) = 0
    BY FS_EmptySet DEF PlacesIn
  <2>6. PICK l, h, m, p \in Nat : /\ l = leaked[x] /\ h = Cardinality(Held(x)) /\ m = Cardinality(Timers(x))
                                  /\ p = Cardinality(PlacesIn(context[c].devices, x))
    <3>1. Timers(x) \subseteq Threads
      BY DEF Timers
    <3> QED  BY <1>0, <1>15, <1>16, <2>4, <3>1, FiniteThreads DEF TypeInv
  <2>7. Cardinality(Held(x)') = (h - p) + 0
    BY <1>13, <2>4, <2>5, <2>6
  <2>8. leaked'[x] = l + p
    BY <1>5, <1>15, <2>6
  <2>9. d3d'[x].count = l + h + m /\ Cardinality(Timers(x)') = m
    BY <1>0, <1>2, <2>2, <2>6 DEF CountInv
  <2>10. d3d'[x].count = leaked'[x] + Cardinality(Held(x)') + Cardinality(Timers(x)')
    BY <2>6, <2>7, <2>8, <2>9
  <2> QED  BY <2>4, <2>10
<1>21. DeleteInv'
  <2>1. \A f \in S \cup Calls(t) : f.op = "delete" => (f \in S <=> f \in Calls(t))
    BY <1>9
  <2> QED  BY <1>0, <1>2, <1>6, <2>1, DeleteSame
<1>22. \A b \in Contexts : Owners(b)' = Owners(b) /\ Children(b)' = Children(b)
  BY <1>2 DEF Owners, Children
<1>23. ContextOk(c)'
  <2>1. ContextCounts(c)'
    BY <1>10, <1>11, <1>13, <1>22 DEF ContextOk, ContextCounts
  <2>2. \A u \in Threads : \A f \in Calls(u) : ~(f.op = "destroy" /\ f.context = c)
    BY <1>10, <1>11 DEF ContextOk, Destroying
  <2>3. \A u \in Threads : \A f \in Calls(u)' : ~(f.op = "destroy" /\ f.context = c)
    BY <1>6, <1>7, <2>2
  <2>4. \A f \in S : f.op # "make"
    BY <1>3, <1>6 DEF Level
  <2>5. \A u \in Threads : \A f \in Calls(u)' : ~(f.op = "make" /\ f.context = c)
    BY <1>7, <1>11, <2>4
  <2>6. Making(c)' /\ Destroying(c)'
    BY <2>3, <2>5 DEF Making, Destroying
  <2> QED  BY <2>1, <2>6 DEF ContextOk
<1>24. ContextsInv'
  <2>1. \A f \in S \cup Calls(t) : f.op \in {"make", "destroy"} /\ f.context # c => (f \in S <=> f \in Calls(t))
    BY <1>9
  <2> QED  BY <1>6, <1>13, <1>22, <1>23, <2>1, ContextsBut DEF Inv
<1>25. EventsInv'
  <2>1. \A f \in S \cup Calls(t) : f.op \in {"set", "release", "handler"} => (f \in S <=> f \in Calls(t))
    BY <1>9
  <2>2. \A b \in Contexts : context'[b].devices = context[b].devices \/ Children(b) = {}
    BY <1>12, <1>13
  <2> QED  BY <1>0, <1>2, <1>6, <2>1, <2>2, EventsKept DEF Inv
<1>26. LockInv'
  <2>1. \A f \in S \cup Calls(t) : f.op = "handler" => (f \in S <=> f \in Calls(t))
    BY <1>9
  <2> QED  BY <1>0, <1>2, <1>6, <2>1, LockAlone DEF Inv
<1>27. CallbackInv'
  BY <1>2 DEF Inv, CallbackInv, Over
<1> QED  BY <1>7, <1>18, <1>19, <1>20, <1>21, <1>24, <1>25, <1>26, <1>27 DEF Inv, DevicesInv

(* The destructor of a context releases one device.                        *)
LEMMA ContextDestructorInv ==
  ASSUME Inv, NEW t \in Threads, ContextDestructor(t)
  PROVE  Inv'
<1>0. Stacks /\ TypeInv /\ RegistryInv /\ CountInv /\ DeleteInv
  BY DEF Inv, DevicesInv, Stacks, TypeInv
<1>1. In(t, "destroy") /\ UNCHANGED <<owns, leaked, eventVars>>
  BY DEF ContextDestructor
<1>2. event' = event /\ owns' = owns /\ leaked' = leaked /\ taskLock' = taskLock /\ callbacks' = callbacks
      /\ queue' = queue
  BY <1>1 DEF eventVars
<1>3. /\ frames[t] \in Seq(Frame) /\ frames[t] # <<>> /\ Rising(frames[t]) /\ Top(t) = Last(frames[t])
      /\ Top(t) \in Calls(t) /\ Top(t).op = "destroy" /\ Top(t) \in Frame
      /\ \A f \in Calls(t) \ {Top(t)} : Level(f) < Level(Top(t))
      /\ \A f \in Calls(t) : t \in Callers \/ f.op \in OtherOps
  BY <1>0, <1>1, TopIs
<1>4. Level(Top(t)) = 2 /\ \A f : f.op = "delete" => Level(f) = 3
  BY <1>3 DEF Level
<1>5. PICK c \in Contexts, left \in Seq(D3D) : c = Top(t).context /\ left = Top(t).left /\ left # <<>>
  BY <1>3, FrameIs
<1>6. PICK d \in D3D, rest \in Seq(D3D) : d = Head(left) /\ rest = Tail(left) /\ d = left[1]
  <2>1. Head(left) \in D3D /\ Tail(left) \in Seq(D3D) /\ Head(left) = left[1]
    BY <1>5, HeadTailProperties
  <2> QED  BY <2>1
<1>7. PICK g : g = [Top(t) EXCEPT !.left = rest]
  OBVIOUS
<1>8. rest # <<>> => g \in Frame /\ g.op = "destroy" /\ g.context = c /\ g.left = rest /\ Level(g) = 2
  <2>1. Top(t) = [op |-> "destroy", context |-> c, left |-> left]
    BY <1>3, <1>5 DEF Frame
  <2>2. g = [op |-> "destroy", context |-> c, left |-> rest]
    BY <1>7, <2>1
  <2> QED  BY <2>2 DEF Frame, Level
<1>9. PICK front \in Seq(Frame) : front = Front(frames[t]) /\ Rising(front) /\ Range(front) = Calls(t) \ {Top(t)}
  BY <1>3, StackParts DEF Calls
<1>10. \A f \in Range(front) : Level(f) < 2
  BY <1>3, <1>4, <1>9
<1>11. PICK D : D = IF rest = <<>> THEN {} ELSE {g}
  OBVIOUS
<1>12. PICK below \in Seq(Frame) : /\ below = (IF rest = <<>> THEN front ELSE Append(front, g))
                                   /\ Rising(below) /\ Range(below) = (Calls(t) \ {Top(t)}) \cup D
  <2>1. CASE rest = <<>>
    BY <1>9, <1>11, <2>1
  <2>2. CASE rest # <<>>
    <3>1. \A f \in Range(front) : Level(f) < Level(g)
      BY <1>8, <1>10, <2>2
    <3>2. PICK G \in Seq(Frame) : G = Append(front, g) /\ Rising(G) /\ Range(G) = Range(front) \cup {g}
      BY <1>8, <1>9, <2>2, <3>1, Pushing
    <3> QED  BY <1>9, <1>11, <2>2, <3>2
  <2> QED  BY <2>1, <2>2
<1>13. /\ ReleaseD3D(t, d, below)
       /\ context' = [context EXCEPT ![c].state = "gone", ![c].devices = rest]
  BY <1>5, <1>6, <1>7, <1>9, <1>12 DEF ContextDestructor
<1>14. \A f \in D : f = g /\ rest # <<>> /\ f.op = "destroy" /\ f.context = c /\ f.left = rest /\ Level(f) = 2
  BY <1>8, <1>11
<1>15. \A f \in Range(below) : Level(f) < 3 /\ (t \in Callers \/ f.op \in OtherOps)
  <2>1. \A f \in Calls(t) \ {Top(t)} : Level(f) < 2
    BY <1>9, <1>10
  <2>2. \A f : Level(f) < 2 \/ Level(f) = 2 => Level(f) < 3
    BY DEF Level
  <2>3. \A f \in D : f.op \in OtherOps
    BY <1>14 DEF OtherOps
  <2> QED  BY <1>3, <1>12, <1>14, <2>1, <2>2, <2>3
<1>16. \A f \in Calls(t) : f.op # "delete"
  BY <1>3, <1>4
<1>17. context[c] \in ContextRecord /\ ContextOk(c)
  BY <1>0 DEF TypeInv, Inv, ContextsInv
<1>18. /\ context[c].state \in {"live", "gone"} /\ context[c].refs = 0 /\ context[c].internal = 0
       /\ context[c].devices = left
       /\ \A u \in Threads : \A f \in Calls(u) : f.op = "destroy" /\ f.context = c => u = t
  BY <1>3, <1>5, <1>17 DEF ContextOk, Destroying
<1>19. d3d[d].count > 0
  <2>1. 1 \in DOMAIN context[c].devices /\ context[c].devices[1] = d
    BY <1>5, <1>6, <1>18
  <2> QED  BY <1>0, <2>1, DevicesCounted DEF DevicesInv
<1>20. /\ Returns(t, below, d)
       /\ registry' \in [Adapters -> Seq(D3D)] /\ d3d' \in [D3D -> DeviceRecord] /\ active' \in Int
       /\ initLock' \in [Adapters -> Threads \cup {Nothing}]
       /\ RegistryInv' /\ DeleteInv'
       /\ d3d'[d].count = d3d[d].count - 1 /\ \A x \in D3D : x # d => d3d'[x] = d3d[x]
  BY <1>12, <1>13, <1>15, <1>16, <1>19, ReleaseCalls
<1>21. PICK E : CallsBecome(t, Range(below) \cup E) /\ \A f \in E : f.op = "delete"
  BY <1>20 DEF Returns
<1>22. PICK S : S = ((Calls(t) \ {Top(t)}) \cup D) \cup E /\ CallsBecome(t, S)
  BY <1>12, <1>21
<1>23. frames' \in [Threads -> Seq(Frame)] /\ StacksInv' /\ Calls(t)' = S
       /\ \A u \in Threads : u # t => Calls(u)' = Calls(u)
  BY <1>22 DEF CallsBecome
<1>24. \A f \in S \cup Calls(t) : ~(f.op = "destroy" /\ f.context = c) /\ f.op # "delete"
         => (f \in S <=> f \in Calls(t))
  BY <1>3, <1>5, <1>14, <1>21, <1>22
<1>25. Children(c) = {}
  <2>1. Cardinality(Children(c)) = 0
    BY <1>17, <1>18 DEF ContextOk, ContextCounts
  <2> QED  BY <2>1, CountsAreFinite, FS_EmptySet
<1>26. /\ context' \in [Contexts -> ContextRecord] /\ context'[c].state = "gone" /\ context'[c].devices = rest
       /\ context'[c].refs = context[c].refs /\ context'[c].internal = context[c].internal
       /\ \A b \in Contexts : b # c => context'[b] = context[b]
  <2>1. PICK old \in ContextRecord : old = context[c]
    BY <1>17
  <2>2. PICK new : new = [old EXCEPT !.state = "gone", !.devices = rest]
    OBVIOUS
  <2>3. /\ new \in ContextRecord /\ new.state = "gone" /\ new.devices = rest
        /\ new.refs = old.refs /\ new.internal = old.internal
    BY <2>1, <2>2 DEF ContextRecord
  <2>4. context' = [context EXCEPT ![c] = new]
    BY <1>13, <2>1, <2>2
  <2> QED  BY <1>0, <2>1, <2>3, <2>4 DEF TypeInv
<1>27. TypeInv'
  BY <1>0, <1>2, <1>20, <1>23, <1>26 DEF TypeInv
<1>28. CountInv'
  <2> SUFFICES ASSUME NEW x \in D3D
               PROVE  (IsFiniteSet(Held(x))
                       /\ d3d[x].count = leaked[x] + Cardinality(Held(x)) + Cardinality(Timers(x)))'
    BY DEF CountInv
  <2>1. \A f \in S \cup Calls(t) : f.op = "timer" /\ f.d3d = x => (f \in S <=> f \in Calls(t))
    BY <1>24
  <2>2. Timers(x)' = Timers(x)
    BY <1>22, <2>1, TimersChange
  <2>3. \A b \in Contexts : b # c => context'[b].devices = context[b].devices
    BY <1>26
  <2>4. /\ IsFiniteSet(Held(x)') /\ Cardinality(Held(x)') \in Nat /\ Cardinality(Held(x)) \in Nat
        /\ Cardinality(Held(x)') = (Cardinality(Held(x)) - Cardinality(PlacesIn(context[c].devices, x)))
                                   + Cardinality(PlacesIn(context'[c].devices, x))
    BY <1>0, <1>26, <2>3, HeldStep
  <2>5. PICK p, q \in Nat : p = Cardinality(PlacesIn(left, x)) /\ q = Cardinality(PlacesIn(rest, x))
    BY PlacesAreFinite
  <2>6. PICK l, h, m, k \in Nat : /\ l = leaked[x] /\ h = Cardinality(Held(x)) /\ m = Cardinality(Timers(x))
                                  /\ k = (IF x = d THEN 1 ELSE 0)
    <3>1. Timers(x) \subseteq Threads
      BY DEF Timers
    <3> QED  BY <1>0, <2>4, <3>1, FiniteThreads DEF TypeInv
  <2>7. q = p - k
    <3>1. Cardinality(PlacesIn(Tail(left), x)) = Cardinality(PlacesIn(left, x)) - IF x = Head(left) THEN 1 ELSE 0
      BY <1>5, PlacesOfTail
    <3> QED  BY <1>6, <2>5, <2>6, <3>1
  <2>8. Cardinality(Held(x)') = h - k
    <3>1. PICK now \in Nat : now = Cardinality(Held(x)')
      BY <2>4
    <3>2. now = (h - p) + q
      BY <1>18, <1>26, <2>4, <2>5, <2>6, <3>1
    <3>3. now = h - k
      BY <2>7, <3>2
    <3> QED  BY <3>1, <3>3
  <2>9. d3d[x].count = l + h + m
    BY <1>0, <2>6 DEF CountInv
  <2>10. d3d'[x].count = (l + h + m) - k
    <3>1. PICK n \in Nat : n = d3d[x].count
      BY <1>0 DEF TypeInv, DeviceRecord
    <3>2. n = l + h + m
      BY <2>9, <3>1
    <3>3. d3d'[x].count = n - k
      <4>1. CASE x = d
        BY <1>20, <2>6, <3>1, <4>1
      <4>2. CASE x # d
        <5>1. d3d'[x] = d3d[x] /\ k = 0 /\ n - 0 = n
          BY <1>20, <2>6, <4>2
        <5> QED  BY <3>1, <5>1
      <4> QED  BY <4>1, <4>2
    <3> QED  BY <3>2, <3>3
  <2>11. leaked'[x] = l /\ Cardinality(Timers(x)') = m
    BY <1>2, <2>2, <2>6
  <2>12. d3d'[x].count = leaked'[x] + Cardinality(Held(x)') + Cardinality(Timers(x)')
    <3>1. (l + h + m) - k = l + (h - k) + m
      OBVIOUS
    <3> QED  BY <2>8, <2>10, <2>11, <3>1
  <2> QED  BY <2>4, <2>12
<1>29. \A b \in Contexts : Owners(b)' = Owners(b) /\ Children(b)' = Children(b)
  BY <1>2 DEF Owners, Children
<1>30. ContextOk(c)'
  <2>1. ContextCounts(c)'
    BY <1>17, <1>18, <1>26, <1>29 DEF ContextOk, ContextCounts
  <2>2. \A u \in Threads : \A f \in Calls(u) : ~(f.op = "make" /\ f.context = c)
    BY <1>17, <1>18 DEF ContextOk, Making
  <2>3. \A f \in S : ~(f.op = "make" /\ f.context = c)
    BY <1>14, <1>21, <1>22, <2>2
  <2>4. \A u \in Threads : \A f \in Calls(u)' : ~(f.op = "make" /\ f.context = c)
    BY <1>23, <2>2, <2>3
  <2>5. \A f \in S : f.op = "destroy" => f \in D
    <3>1. \A f : f.op = "destroy" => Level(f) = 2
      BY DEF Level
    <3>2. \A f \in Calls(t) \ {Top(t)} : f.op # "destroy"
      BY <1>9, <1>10, <3>1
    <3> QED  BY <1>21, <1>22, <3>2
  <2>6. \A u \in Threads : \A f \in Calls(u)' : f.op = "destroy" /\ f.context = c => u = t /\ f.left = rest
    BY <1>14, <1>18, <1>23, <2>5
  <2>7. Making(c)'
    BY <2>4 DEF Making
  <2>8. Destroying(c)'
    BY <1>18, <1>26, <2>6 DEF Destroying
  <2> QED  BY <2>1, <2>7, <2>8 DEF ContextOk
<1>31. ContextsInv'
  <2>1. \A f \in S \cup Calls(t) : f.op \in {"make", "destroy"} /\ f.context # c => (f \in S <=> f \in Calls(t))
    BY <1>24
  <2> QED  BY <1>22, <1>26, <1>29, <1>30, <2>1, ContextsBut DEF Inv
<1>32. EventsInv'
  <2>1. \A f \in S \cup Calls(t) : f.op \in {"set", "release", "handler"} => (f \in S <=> f \in Calls(t))
    BY <1>24
  <2>2. \A b \in Contexts : context'[b].devices = context[b].devices \/ Children(b) = {}
    BY <1>25, <1>26
  <2> QED  BY <1>0, <1>2, <1>22, <2>1, <2>2, EventsKept DEF Inv
<1>33. LockInv'
  <2>1. \A f \in S \cup Calls(t) : f.op = "handler" => (f \in S <=> f \in Calls(t))
    BY <1>24
  <2> QED  BY <1>0, <1>2, <1>22, <2>1, LockAlone DEF Inv
<1>34. CallbackInv'
  BY <1>2 DEF Inv, CallbackInv, Over
<1> QED  BY <1>20, <1>23, <1>27, <1>28, <1>31, <1>32, <1>33, <1>34 DEF Inv, DevicesInv

-----------------------------------------------------------------------------
(* The invariant                                                           *)

(* It holds at first ...                                                   *)
LEMMA InitInv == Init => Inv
<1> SUFFICES ASSUME Init PROVE Inv
  OBVIOUS
<1>0. Cardinality({}) = 0 /\ IsFiniteSet({})
  BY FS_EmptySet
<1>1. \A t \in Threads : frames[t] = <<>> /\ Calls(t) = {}
  BY DEF Init, Calls, Range
<1>2. \A S : <<>> \in Seq(S)
  BY EmptySeq
<1>3. TypeInv
  <2>1. registry \in [Adapters -> Seq(D3D)] /\ frames \in [Threads -> Seq(Frame)] /\ queue \in Seq(Callbacks)
    BY <1>2 DEF Init
  <2>2. d3d \in [D3D -> DeviceRecord]
    BY DEF Init, DeviceRecord
  <2>3. context \in [Contexts -> ContextRecord]
    BY <1>2 DEF Init, ContextRecord
  <2>4. event \in [Events -> EventRecord]
    BY DEF Init, EventRecord
  <2>5. callbacks \in [Callbacks -> CallbackRecord]
    BY DEF Init, CallbackRecord
  <2>6. /\ initLock \in [Adapters -> Threads \cup {Nothing}] /\ taskLock \in Threads \cup {Nothing}
        /\ active \in Int /\ leaked \in [D3D -> Nat] /\ owns \subseteq Callers \X (Contexts \cup Events)
    BY DEF Init
  <2> QED  BY <2>1, <2>2, <2>3, <2>4, <2>5, <2>6 DEF TypeInv
<1>4. StacksInv
  BY <1>1 DEF StacksInv, Rising
<1>5. \A a \in Adapters : registry[a] = <<>> /\ Range(registry[a]) = {}
  BY DEF Init, Range
<1>6. RegistryInv
  <2>1. Registered = {}
    BY <1>5 DEF Registered
  <2>2. \A a \in Adapters : IsInjective(registry[a])
    BY <1>5 DEF IsInjective
  <2>3. \A a \in Adapters : \A d \in D3D : ~On(d, a)
    BY <1>5 DEF On
  <2>4. \A d \in D3D : ~(d3d[d].count > 0)
    BY DEF Init
  <2>5. active = Cardinality(Registered)
    BY <1>0, <2>1 DEF Init
  <2> QED  BY <2>2, <2>3, <2>4, <2>5 DEF RegistryInv
<1>7. CountInv
  <2> SUFFICES ASSUME NEW d \in D3D
               PROVE  IsFiniteSet(Held(d))
                      /\ d3d[d].count = leaked[d] + Cardinality(Held(d)) + Cardinality(Timers(d))
    BY DEF CountInv
  <2>1. \A c \in Contexts : Places(c, d) = {}
    BY DEF Init, Places
  <2>2. Held(d) = {}
    BY <2>1 DEF Held
  <2>3. Timers(d) = {}
    BY <1>1 DEF Timers
  <2>4. d3d[d].count = 0 /\ leaked[d] = 0
    BY DEF Init
  <2> QED  BY <1>0, <2>2, <2>3, <2>4
<1>8. DeleteInv
  BY <1>1 DEF DeleteInv, Init
<1>9. ContextsInv
  <2> SUFFICES ASSUME NEW c \in Contexts PROVE ContextOk(c)
    BY DEF ContextsInv
  <2>1. Owners(c) = {} /\ Children(c) = {}
    BY DEF Init, Owners, Children
  <2>2. /\ context[c].state = "none" /\ context[c].devices = <<>>
        /\ context[c].refs = 0 /\ context[c].internal = 0
    BY DEF Init
  <2>3. ContextCounts(c)
    BY <1>0, <2>1, <2>2 DEF ContextCounts
  <2>4. Making(c) /\ Destroying(c)
    BY <1>1 DEF Making, Destroying
  <2> QED  BY <2>3, <2>4 DEF ContextOk
<1>10. EventsInv
  <2> SUFFICES ASSUME NEW e \in Events PROVE EventOk(e)
    BY DEF EventsInv
  <2>1. Owners(e) = {} /\ Releasing(e) = {} /\ ~Handled(e)
    BY <1>1 DEF Init, Owners, Releasing, Handled
  <2>2. event[e].state = "none" /\ event[e].context = Nothing /\ event[e].refs = 0 /\ event[e].internal = 0
    BY DEF Init
  <2>3. EventCounts(e)
    BY <1>0, <2>1, <2>2 DEF EventCounts
  <2>4. Handling(e) /\ Setting(e) /\ Ending(e)
    BY <1>1 DEF Handling, Setting, Ending
  <2>5. Placed(e)
    BY <2>2 DEF Placed
  <2> QED  BY <2>3, <2>4, <2>5 DEF EventOk
<1>11. LockInv
  BY <1>1 DEF LockInv, Init
<1>12. CallbackInv
  BY DEF CallbackInv, Init
<1> QED  BY <1>3, <1>4, <1>6, <1>7, <1>8, <1>9, <1>10, <1>11, <1>12 DEF Inv, DevicesInv

(* ... and every step keeps it.                                            *)
LEMMA NextInv == Inv /\ [Next]_vars => Inv'
<1> SUFFICES ASSUME Inv, [Next]_vars PROVE Inv'
  OBVIOUS
<1>1. ASSUME NEW t \in Threads, Step(t) PROVE Inv'
  BY <1>1, DeleteD3DInv, TimerReturnsInv, ContextInitInv, ContextDestructorInv, UserEventCompleteInv,
     EventReleaseInv DEF Step
<1>2. ASSUME NEW t \in Threads, ContextInitThrows(t) PROVE Inv'
  BY <1>2, ContextInitThrowsInv
<1>3. ASSUME NEW t \in Callers, Uses(t) PROVE Inv'
  <2>1. ASSUME NEW c \in Contexts, clReleaseContext(t, c) PROVE Inv'
    BY <2>1, clReleaseContextInv
  <2>2. ASSUME NEW e \in Events, clSetUserEventStatus(t, e) PROVE Inv'
    BY <2>2, clSetUserEventStatusInv
  <2>3. ASSUME NEW e \in Events, clReleaseEvent(t, e) PROVE Inv'
    BY <2>3, clReleaseEventInv
  <2>4. ASSUME NEW e \in Events, NEW k \in Callbacks, clSetEventCallback(t, k, e) PROVE Inv'
    BY <2>4, clSetEventCallbackInv
  <2>5. ASSUME NEW u \in Callers, NEW x \in Contexts \cup Events, Retain(t, u, x) PROVE Inv'
    BY <2>5, RetainContextInv, RetainEventInv
  <2> QED  BY <1>3, <2>1, <2>2, <2>3, <2>4, <2>5 DEF Uses
<1>4. ASSUME NEW t \in Apps, Creates(t) PROVE Inv'
  <2>0. t \in Callers
    BY DEF Callers
  <2>1. ASSUME NEW a \in Adapters, clGetDeviceAndHostTimer(t, a) PROVE Inv'
    BY <2>0, <2>1, clGetDeviceAndHostTimerInv
  <2>2. ASSUME NEW c \in Contexts, clCreateContext(t, c) PROVE Inv'
    BY <2>0, <2>2, clCreateContextInv
  <2>3. ASSUME NEW e \in UserEvents, clCreateUserEvent(t, e) PROVE Inv'
    BY <2>0, <2>3, clCreateUserEventInv
  <2>4. ASSUME NEW e \in Commands, Enqueue(t, e) PROVE Inv'
    BY <2>0, <2>4, EnqueueInv
  <2> QED  BY <1>4, <2>1, <2>2, <2>3, <2>4 DEF Creates
<1>5. ASSUME NEW d \in D3D, Finish(d) PROVE Inv'
  BY <1>5, FlushAllDevicesInv, CompletionEndsInv DEF Finish
<1>6. ASSUME NEW e \in Commands, CompletionBegins(e) PROVE Inv'
  BY <1>6, CompletionBeginsInv
<1>7. CASE BeginCallback \/ EndCallback
  BY <1>7, BeginCallbackInv, EndCallbackInv
<1>8. CASE UNCHANGED vars
  <2>1. /\ registry' = registry /\ d3d' = d3d /\ initLock' = initLock /\ active' = active
        /\ context' = context /\ event' = event /\ owns' = owns /\ taskLock' = taskLock
        /\ callbacks' = callbacks /\ queue' = queue /\ frames' = frames /\ leaked' = leaked
    BY <1>8 DEF vars
  <2>2. Stacks /\ TypeInv /\ CallbackThread \in Threads
    BY SomeThread DEF Inv, Stacks, TypeInv
  <2>3. PICK t, S : t \in Threads /\ S = Calls(t) /\ CallsBecome(t, S)
    BY <2>1, <2>2, NoCall
  <2>4. TypeInv' /\ StacksInv'
    BY <2>1, <2>2, <2>3 DEF TypeInv, CallsBecome
  <2>5. DevicesInv'
    BY <2>1, <2>2, <2>3, DevicesAlone DEF Inv
  <2>6. ContextsInv'
    <3>1. \A c \in Contexts : Owners(c)' = Owners(c) /\ Children(c)' = Children(c)
      BY <2>1 DEF Owners, Children
    <3> QED  BY <2>1, <2>3, <3>1, ContextsKept DEF Inv
  <2>7. EventsInv'
    BY <2>1, <2>2, <2>3, EventsKept DEF Inv
  <2>8. LockInv' /\ CallbackInv'
    BY <2>1, <2>2, <2>3, LockAlone DEF Inv, CallbackInv, Over
  <2> QED  BY <2>4, <2>5, <2>6, <2>7, <2>8 DEF Inv
<1> QED  BY <1>1, <1>2, <1>3, <1>4, <1>5, <1>6, <1>7, <1>8 DEF Next

(* The invariant of the specification.                                     *)
LEMMA Invariance == Spec => []Inv
BY InitInv, NextInv, PTL DEF Spec

-----------------------------------------------------------------------------
(* The properties                                                          *)

(* Contexts in use are alive with their devices, the counts that decide    *)
(* when devices and schedulers go add up, and no callback is lost          *)
(* (context.cpp:655-682, device.cpp:373-420, task.cpp:605-713), through    *)
(* every order in which contexts, events and commands come and go.         *)
THEOREM DevicesKept == Spec => []DevicesOutliveTheirUsers
<1>1. Inv => DevicesOutliveTheirUsers
  <2> SUFFICES ASSUME Inv PROVE DevicesOutliveTheirUsers
    OBVIOUS
  <2>1. TypeInv /\ DevicesInv /\ RegistryInv /\ CountInv
    BY DEF Inv, DevicesInv
  <2>2. UsersFindThemAlive
    <3> SUFFICES ASSUME NEW c \in Contexts,
                        (\E t \in Callers : <<t, c>> \in owns)
                          \/ (\E e \in Events : event[e].context = c /\ event[e].state # "gone")
                 PROVE  /\ context[c].state = "live"
                        /\ \A d \in Range(context[c].devices) : d3d[d].state = "live"
      BY DEF UsersFindThemAlive
    <3>1. context[c].state = "live"
      <4>1. CASE \E t \in Callers : <<t, c>> \in owns
        <5>1. Owners(c) # {}
          BY <4>1 DEF Owners
        <5>2. Cardinality(Owners(c)) # 0
          BY <5>1, CountsAreFinite, FS_EmptySet
        <5> QED  BY <5>2 DEF Inv, ContextsInv, ContextOk, ContextCounts
      <4>2. ASSUME NEW e \in Events, event[e].context = c, event[e].state # "gone"
            PROVE  context[c].state = "live"
        <5>1. event[e].state # "none"
          <6>1. c # Nothing
            BY LifetimesAssumption
          <6> QED  BY <4>2, <6>1 DEF Inv, EventsInv, EventOk, EventCounts
        <5> QED  BY <4>2, <5>1, EventIsAlive
      <4> QED  BY <3>1, <4>1, <4>2
    <3>2. \A i \in DOMAIN context[c].devices : d3d[context[c].devices[i]].state = "live"
      BY <2>1, DevicesCounted
    <3> QED  BY <3>1, <3>2 DEF Range
  <2>3. CountsAddUp
    BY <2>1 DEF CountsAddUp, CountInv, RegistryInv
  <2>4. NoCallbackLost
    BY DEF Inv, CallbackInv, NoCallbackLost
  <2> QED  BY <2>2, <2>3, <2>4 DEF DevicesOutliveTheirUsers
<1> QED  BY <1>1, Invariance, PTL

\* What UserEventsEnd says of a step, for one event.
EndsWell(e) ==
  event[e].state = "submitted" /\ event'[e].state = "gone"
    => \E t \in Callers : In(t, "release") /\ Top(t).event = e /\ Top(t).saw > 1

(* An event that completes is not gone.                                    *)
LEMMA CompleteEndsWell ==
  ASSUME TypeInv, NEW e \in UserEvents, NEW x \in Events, NEW s \in {"complete", "failed"}, Complete(x, s)
  PROVE  EndsWell(e)
<1>1. e \in Events
  BY DEF Events
<1>2. CASE Over(x)
  BY <1>2 DEF Complete, EndsWell
<1>3. CASE ~Over(x)
  <2>1. event' = [event EXCEPT ![x].state = s]
    BY <1>3 DEF Complete
  <2>2. event[e] \in EventRecord /\ event \in [Events -> EventRecord]
    BY <1>1 DEF TypeInv
  <2>3. e # x => event'[e] = event[e]
    BY <1>1, <2>1, <2>2
  <2>4. e = x => event'[e].state = s
    BY <2>1, <2>2 DEF EventRecord
  <2> QED  BY <2>3, <2>4 DEF EndsWell
<1> QED  BY <1>2, <1>3

(* The release of an event ends it after it was set, or after another saw  *)
(* one more reference.                                                     *)
LEMMA ReleaseEndsWell ==
  ASSUME Inv, NEW e \in UserEvents, NEW t \in Threads, EventRelease(t)
  PROVE  EndsWell(e)
<1>0. Stacks /\ TypeInv /\ e \in Events /\ EventOk(e)
  BY DEF Inv, Stacks, TypeInv, EventsInv, Events
<1>1. In(t, "release") /\ event' = [event EXCEPT ![Top(t).event] = event'[Top(t).event]]
  BY <1>0 DEF EventRelease, DropEvent, TypeInv
<1>2. /\ Top(t) \in Calls(t) /\ Top(t).op = "release" /\ Top(t) \in Frame
      /\ \A f \in Calls(t) \ {Top(t)} : Level(f) < Level(Top(t))
      /\ t \in Callers \/ Top(t).op \in OtherOps
  BY <1>0, <1>1, TopIs
<1>3. Top(t).saw \in Int
  BY <1>2, FrameIs
<1>4. CASE Top(t).event # e
  <2>1. event'[e] = event[e]
    BY <1>0, <1>1, <1>4 DEF TypeInv
  <2> QED  BY <2>1 DEF EndsWell
<1>5. CASE Top(t).event = e
  <2>1. \A g \in Calls(t) : g.op # "set"
    BY <1>2 DEF Level
  <2>2. Top(t).saw <= 1 => Over(e)
    BY <1>0, <1>2, <1>5, <2>1 DEF EventOk, Ending
  <2>3. event[e].state = "submitted" => Top(t).saw > 1
    BY <1>3, <2>2 DEF Over
  <2>4. t \in Callers
    BY <1>2 DEF OtherOps
  <2> QED  BY <1>1, <1>5, <2>3, <2>4 DEF EndsWell
<1> QED  BY <1>4, <1>5

(* The completion thread lets go of commands only.                         *)
LEMMA CompletionEndsWell ==
  ASSUME Inv, NEW e \in UserEvents, NEW d \in D3D, CompletionEnds(d)
  PROVE  EndsWell(e)
<1>0. Stacks /\ TypeInv /\ e \in Events
  BY DEF Inv, Stacks, TypeInv, Events
<1>1. PICK t \in Threads : t = Completion(d)
  BY DEF Threads
<1>2. In(t, "handler") /\ event' = [event EXCEPT ![Top(t).event] = event'[Top(t).event]]
  BY <1>0, <1>1 DEF CompletionEnds, DropEvent, TypeInv
<1>3. Top(t).op = "handler" /\ Top(t) \in Frame
  BY <1>0, <1>2, TopIs
<1>4. Top(t).event # e
  BY <1>3, FrameIs, LifetimesAssumption
<1>5. event'[e] = event[e]
  BY <1>0, <1>2, <1>4 DEF TypeInv
<1> QED  BY <1>5 DEF EndsWell

(* A user event that is gone has been set, or of the threads that released *)
(* its last references together one saw the other's (task.cpp:133-149).    *)
THEOREM UserEventsAreSet == Spec => UserEventsEnd
<1>1. ASSUME Inv, [Next]_vars, NEW e \in UserEvents PROVE EndsWell(e)
  <2>0. TypeInv /\ Stacks /\ e \in Events
    BY <1>1 DEF Inv, TypeInv, Stacks, Events
  <2>1. UNCHANGED event => EndsWell(e)
    BY DEF EndsWell
  <2>2. ASSUME NEW t \in Threads, Step(t) PROVE EndsWell(e)
    <3>1. CASE DeleteD3D(t) \/ TimerReturns(t) \/ ContextInit(t) \/ ContextDestructor(t)
      BY <2>1, <3>1 DEF DeleteD3D, TimerReturns, ContextInit, ContextDestructor, eventVars
    <3>2. CASE UserEventComplete(t)
      <4>1. In(t, "set") /\ Complete(Top(t).event, Top(t).state)
        BY <3>2 DEF UserEventComplete
      <4>2. Top(t).op = "set" /\ Top(t) \in Frame
        BY <2>0, <4>1, TopIs
      <4>3. Top(t).event \in Events /\ Top(t).state \in {"complete", "failed"}
        BY <4>2, FrameIs DEF Events
      <4> QED  BY <2>0, <4>1, <4>3, CompleteEndsWell
    <3>3. CASE EventRelease(t)
      BY <1>1, <3>3, ReleaseEndsWell
    <3> QED  BY <2>2, <3>1, <3>2, <3>3 DEF Step
  <2>3. ASSUME NEW t \in Threads, ContextInitThrows(t) PROVE EndsWell(e)
    BY <2>1, <2>3 DEF ContextInitThrows, eventVars
  <2>4. ASSUME NEW t \in Callers, NEW u \in Callers, NEW x \in Contexts \cup Events, Retain(t, u, x)
        PROVE  EndsWell(e)
    <3>1. CASE x \in Contexts
      BY <2>1, <2>4, <3>1 DEF Retain
    <3>2. CASE x \notin Contexts
      <4>1. x \in Events /\ event' = [event EXCEPT ![x].refs = @ + 1]
        BY <2>4, <3>2 DEF Retain
      <4>2. event'[e].state = event[e].state
        BY <2>0, <4>1 DEF TypeInv, EventRecord
      <4> QED  BY <4>2 DEF EndsWell
    <3> QED  BY <3>1, <3>2
  <2>5. ASSUME NEW t \in Callers, Uses(t) PROVE EndsWell(e)
    <3>1. ASSUME NEW c \in Contexts, clReleaseContext(t, c) PROVE EndsWell(e)
      BY <2>1, <3>1 DEF clReleaseContext, eventVars
    <3>2. ASSUME NEW x \in Events, clSetUserEventStatus(t, x) \/ clReleaseEvent(t, x) PROVE EndsWell(e)
      BY <2>1, <3>2 DEF clSetUserEventStatus, clReleaseEvent, eventVars
    <3>3. ASSUME NEW x \in Events, NEW k \in Callbacks, clSetEventCallback(t, k, x) PROVE EndsWell(e)
      BY <2>1, <3>3 DEF clSetEventCallback
    <3> QED  BY <2>4, <2>5, <3>1, <3>2, <3>3 DEF Uses
  <2>6. ASSUME NEW t \in Apps, Creates(t) PROVE EndsWell(e)
    <3>1. ASSUME NEW a \in Adapters, clGetDeviceAndHostTimer(t, a) PROVE EndsWell(e)
      BY <2>1, <3>1 DEF clGetDeviceAndHostTimer, eventVars
    <3>2. ASSUME NEW c \in Contexts, clCreateContext(t, c) PROVE EndsWell(e)
      BY <2>1, <3>2 DEF clCreateContext, eventVars
    <3>3. ASSUME NEW x \in Events, clCreateUserEvent(t, x) \/ Enqueue(t, x) PROVE EndsWell(e)
      <4>2. PICK r : r.state = "submitted" /\ event' = [event EXCEPT ![x] = r]
        <5>1. CASE clCreateUserEvent(t, x)
          BY <5>1 DEF clCreateUserEvent
        <5>2. CASE Enqueue(t, x)
          BY <5>2 DEF Enqueue
        <5> QED  BY <3>3, <5>1, <5>2
      <4>3. event'[e].state \in {event[e].state, "submitted"}
        BY <2>0, <4>2 DEF TypeInv
      <4> QED  BY <4>3 DEF EndsWell
    <3> QED  BY <2>6, <3>1, <3>2, <3>3 DEF Creates, Events
  <2>7. ASSUME NEW d \in D3D, Finish(d) PROVE EndsWell(e)
    <3>1. CASE FlushAllDevices(d)
      BY <2>1, <3>1 DEF FlushAllDevices, eventVars
    <3> QED  BY <1>1, <2>7, <3>1, CompletionEndsWell DEF Finish
  <2>8. ASSUME NEW x \in Commands, CompletionBegins(x) PROVE EndsWell(e)
    <3>1. x \in Events /\ Complete(x, "complete")
      BY <2>8 DEF CompletionBegins, Events
    <3> QED  BY <2>0, <3>1, CompleteEndsWell
  <2>9. CASE BeginCallback \/ EndCallback
    BY <2>1, <2>9 DEF BeginCallback, EndCallback, eventVars
  <2>10. CASE UNCHANGED vars
    BY <2>1, <2>10 DEF vars
  <2> QED  BY <1>1, <2>2, <2>3, <2>5, <2>6, <2>7, <2>8, <2>9, <2>10 DEF Next
<1>2. Inv /\ [Next]_vars =>
        [\A e \in UserEvents :
           event[e].state = "submitted" /\ event'[e].state = "gone"
             => \E t \in Callers : In(t, "release") /\ Top(t).event = e /\ Top(t).saw > 1]_vars
  BY <1>1 DEF EndsWell
<1> QED  BY <1>2, Invariance, PTL DEF Spec, UserEventsEnd

-----------------------------------------------------------------------------
(* One order                                                               *)

\* Devices that exist go on to exist, and come to no other place.
DevicesStay ==
  \A x \in D3D : d3d[x].state # "none" =>
    /\ d3d'[x].state # "none"
    /\ \A a \in Adapters : (On(x, a)' => On(x, a)) /\ (Homed(x, a)' => Homed(x, a))

(* What contexts have exists.                                              *)
LEMMA DevicesExist ==
  ASSUME Inv, NEW c \in Contexts, NEW i \in DOMAIN context[c].devices
  PROVE  context[c].devices[i] \in D3D /\ d3d[context[c].devices[i]].state # "none"
BY DevicesCounted DEF Inv

(* The frames of threads are frames.                                       *)
LEMMA CallsAreFrames ==
  ASSUME TypeInv, NEW t \in Threads, NEW f \in Calls(t)
  PROVE  f \in Frame
BY DEF TypeInv, Calls, Range

(* Of a thread that is in another call, none is the deletion of a device.  *)
LEMMA NoDeletes ==
  ASSUME Stacks, NEW t \in Threads, NEW op, In(t, op), op # "delete"
  PROVE  \A f \in Calls(t) : f.op # "delete"
<1>1. PICK F \in Seq(Frame) : F = frames[t] /\ Rising(F) /\ F # <<>> /\ F[Len(F)].op = op
  BY DEF Stacks, StacksInv, In, Last
<1>2. PICK n \in Nat : n = Len(F) /\ n > 0 /\ DOMAIN F = 1 .. n
  BY <1>1
<1>3. ASSUME NEW i \in 1 .. n, F[i].op = "delete" PROVE FALSE
  <2>1. CASE i = n
    BY <1>1, <1>2, <1>3, <2>1
  <2>2. CASE i < n
    <3>1. Level(F[i]) < Level(F[n])
      BY <1>1, <1>2, <2>2 DEF Rising
    <3> QED  BY <1>3, <3>1 DEF Level
  <2> QED  BY <1>2, <2>1, <2>2
<1> QED  BY <1>1, <1>2, <1>3 DEF Calls, Range

(* The completion thread of a device makes no calls of its own.            *)
LEMMA CompletionThreads ==
  ASSUME NEW d \in D3D
  PROVE  /\ Completion(d) \in Threads /\ Completion(d) \notin Callers
         /\ \A x \in D3D : Completion(x) = Completion(d) => x = d
BY DEF Threads, Callers, Apps, CallbackThread, Completion

(* The order stays where devices stay: what is new is to be sorted.        *)
LEMMA OrderStep ==
  ASSUME Inv, NEW rank, OrderInv(rank), NEW t \in Threads, NEW S, CallsBecome(t, S), DevicesStay,
         \A c \in Contexts : context'[c].devices = context[c].devices \/ Sorted(rank, c)',
         \A u \in Threads : \A f \in Calls(u)' : f.op = "make" =>
           \/ f \in Calls(u) /\ context'[f.context].devices = context[f.context].devices
           \/ MakeSorted(rank, f)',
         \A d \in D3D : t = Completion(d) => \A f \in S : f \in Calls(t) \/ Behind(rank, d, f)',
         t \in Callers \/ (\A f \in Calls(t) : f.op = "destroy" => f \in S) \/ (\A f \in Calls(t) : f.op # "delete")
  PROVE  OrderInv(rank)'
<1>0. TypeInv /\ Calls(t)' = S /\ \A u \in Threads : u # t => Calls(u)' = Calls(u)
  BY DEF CallsBecome, Inv
<1>1. ASSUME NEW c \in Contexts PROVE Sorted(rank, c)'
  <2>1. CASE context'[c].devices = context[c].devices
    <3>1. PICK s : s = context[c].devices
      OBVIOUS
    <3>2. \A i \in DOMAIN s : s[i] \in D3D /\ d3d[s[i]].state # "none"
      BY <3>1, DevicesExist
    <3>3. \A i \in DOMAIN s : \A a \in Adapters : s[i] \in Range(registry'[a]) => s[i] \in Range(registry[a])
      BY <3>2 DEF DevicesStay, On
    <3>4. \A i, j \in DOMAIN s : \A a, b \in Adapters :
            i < j /\ s[i] \in Range(registry[a]) /\ s[j] \in Range(registry[b]) => rank[a] < rank[b]
      BY <3>1 DEF OrderInv, Sorted, On
    <3> QED  BY <2>1, <3>1, <3>3, <3>4 DEF Sorted, On
  <2> QED  BY <2>1
<1>2. ASSUME NEW u \in Threads, NEW f \in Calls(u)', f.op = "make" PROVE MakeSorted(rank, f)'
  <2>1. CASE f \in Calls(u) /\ context'[f.context].devices = context[f.context].devices
    <3>1. f \in Frame
      BY <1>0, <2>1, CallsAreFrames
    <3>2. PICK c \in Contexts : c = f.context
      BY <1>2, <3>1, FrameIs
    <3>3. PICK s : s = context[c].devices
      OBVIOUS
    <3>4. \A i \in DOMAIN s : s[i] \in D3D /\ d3d[s[i]].state # "none"
      BY <3>3, DevicesExist
    <3>5. \A i \in DOMAIN s : \A a \in Adapters : s[i] \in Range(registry'[a]) => s[i] \in Range(registry[a])
      BY <3>4 DEF DevicesStay, On
    <3>6. MakeSorted(rank, f)
      BY <1>2, <2>1 DEF OrderInv
    <3> QED  BY <2>1, <3>2, <3>3, <3>5, <3>6 DEF MakeSorted, On
  <2> QED  BY <1>2, <2>1
<1>3. ASSUME NEW d \in D3D, NEW f \in Calls(Completion(d))' PROVE Behind(rank, d, f)'
  <2>0. Completion(d) \in Threads
    BY CompletionThreads
  <2>1. CASE f \in Calls(Completion(d))
    <3>1. Behind(rank, d, f) /\ f \in Frame
      BY <1>0, <2>0, <2>1, CallsAreFrames DEF OrderInv
    <3>2. d3d[d].state # "none" /\ d3d'[d].state # "none" /\ \A a \in Adapters : Homed(d, a)' => Homed(d, a)
      BY <3>1 DEF Behind, DevicesStay
    <3>3. CASE f.op = "destroy"
      <4>1. f.context \in Contexts /\ context[f.context].devices = f.left
        BY <2>0, <2>1, <3>1, <3>3, FrameIs DEF Inv, ContextsInv, ContextOk, Destroying
      <4>2. \A j \in DOMAIN f.left : \A b \in Adapters : On(f.left[j], b)' => On(f.left[j], b)
        BY <4>1, DevicesExist DEF DevicesStay
      <4>3. d \notin Range(f.left) => \A j \in DOMAIN f.left : \A a, b \in Adapters :
              Homed(d, a)' /\ On(f.left[j], b)' => rank[a] < rank[b]
        BY <3>1, <3>2, <3>3, <4>2 DEF Behind
      <4> QED  BY <3>2, <3>3, <4>3 DEF Behind, On
    <3>4. CASE f.op = "delete"
      <4>1. Spares(d) => Spares(d)'
        BY <1>0, <2>0, <2>1, <3>4, CompletionThreads DEF Spares
      <4> QED  BY <3>1, <3>2, <3>4, <4>1 DEF Behind
    <3>5. CASE f.op \notin {"destroy", "delete"}
      BY <3>2, <3>5 DEF Behind
    <3> QED  BY <3>3, <3>4, <3>5
  <2>2. CASE f \notin Calls(Completion(d))
    <3>1. Completion(d) = t /\ f \in S
      BY <1>0, <1>3, <2>0, <2>2
    <3> QED  BY <2>2, <3>1
  <2> QED  BY <2>1, <2>2
<1> QED  BY <1>1, <1>2, <1>3 DEF OrderInv

(* Steps that leave the devices alone, and begin nothing that waits.       *)
LEMMA OrderKept ==
  ASSUME Inv, NEW rank, OrderInv(rank), NEW t \in Threads, NEW S, CallsBecome(t, S),
         registry' = registry, \A x \in D3D : d3d'[x].state = "none" => d3d[x].state = "none",
         \A c \in Contexts : context'[c].devices = context[c].devices,
         \A f \in S : f.op \in {"make", "destroy", "delete"} => f \in Calls(t),
         \A d \in D3D : t = Completion(d) => Calls(t) # {} \/ d3d[d].state # "none",
         t \in Callers \/ (\A f \in Calls(t) : f.op = "destroy" => f \in S) \/ (\A f \in Calls(t) : f.op # "delete")
  PROVE  OrderInv(rank)'
<1>0. TypeInv /\ Calls(t)' = S /\ \A u \in Threads : u # t => Calls(u)' = Calls(u)
  BY DEF CallsBecome, Inv
<1>1. \A u \in Threads : \A f \in Calls(u)' : f.op \in {"make", "destroy", "delete"} => f \in Calls(u)
  BY <1>0
<1>2. \A x, a : On(x, a)' <=> On(x, a)
  BY DEF On
<1>3. DevicesStay
  BY <1>1, <1>2 DEF DevicesStay, Homed
<1>4. \A u \in Threads : \A f \in Calls(u)' : f.op = "make" =>
        f \in Calls(u) /\ context'[f.context].devices = context[f.context].devices
  <2> SUFFICES ASSUME NEW u \in Threads, NEW f \in Calls(u)', f.op = "make"
               PROVE  f \in Calls(u) /\ context'[f.context].devices = context[f.context].devices
    OBVIOUS
  <2>1. f \in Calls(u)
    BY <1>1
  <2>2. f.context \in Contexts
    BY <1>0, <2>1, CallsAreFrames, FrameIs
  <2> QED  BY <2>1, <2>2
<1>5. \A d \in D3D : t = Completion(d) => \A f \in S : f \in Calls(t) \/ Behind(rank, d, f)'
  <2> SUFFICES ASSUME NEW d \in D3D, t = Completion(d), NEW f \in S, f \notin Calls(t) PROVE Behind(rank, d, f)'
    OBVIOUS
  <2>1. d3d[d].state # "none"
    BY DEF OrderInv, Behind
  <2>2. f.op \notin {"destroy", "delete"}
    OBVIOUS
  <2> QED  BY <2>1, <2>2 DEF Behind
<1> QED  BY <1>3, <1>4, <1>5, OrderStep

(* What stands on a stack that grows or shrinks.                           *)
LEMMA StackRanges ==
  ASSUME NEW F \in Seq(Frame), NEW f
  PROVE  /\ Range(Append(F, f)) = Range(F) \cup {f}
         /\ F # <<>> => Range(Front(F)) \subseteq Range(F) /\ Range(Append(Front(F), f)) \subseteq Range(F) \cup {f}
<1> PICK A : A = Frame \cup {f}
  OBVIOUS
<1>1. Frame \in SUBSET A /\ f \in A
  OBVIOUS
<1>2. ASSUME NEW H \in Seq(A) PROVE Range(Append(H, f)) = Range(H) \cup {f}
  <2>1. PICK n \in Nat : n = Len(H) /\ DOMAIN H = 1 .. n
    OBVIOUS
  <2>2. PICK G : G = Append(H, f)
    OBVIOUS
  <2>3. G \in Seq(A) /\ Len(G) = n + 1 /\ (\A i \in 1 .. n : G[i] = H[i]) /\ G[n + 1] = f
    BY <1>1, <2>1, <2>2, AppendProperties
  <2>4. DOMAIN G = 1 .. n + 1
    BY <2>3, LenProperties
  <2>5. \A i \in 1 .. n + 1 : i \in 1 .. n \/ i = n + 1
    OBVIOUS
  <2>6. (\A i \in 1 .. n : i \in 1 .. n + 1) /\ n + 1 \in 1 .. n + 1
    OBVIOUS
  <2>7. Range(H) = {H[i] : i \in 1 .. n} /\ Range(G) = {G[i] : i \in 1 .. n + 1}
    BY <2>1, <2>4 DEF Range
  <2>8. Range(G) = Range(H) \cup {f}
    BY <2>3, <2>5, <2>6, <2>7
  <2> QED  BY <2>2, <2>8
<1>3. F \in Seq(A)
  BY <1>1, SeqOfSubset
<1>4. Range(Append(F, f)) = Range(F) \cup {f}
  BY <1>2, <1>3
<1>5. ASSUME F # <<>> PROVE Range(Front(F)) \subseteq Range(F) /\ Range(Append(Front(F), f)) \subseteq Range(F) \cup {f}
  <2>1. PICK n \in Nat : n = Len(F) /\ n > 0 /\ DOMAIN F = 1 .. n
    BY <1>5
  <2>2. PICK G : G = SubSeq(F, 1, n - 1)
    OBVIOUS
  <2>3. n - 1 \in 0 .. n /\ 1 \in 1 .. (n - 1) + 1
    BY <2>1
  <2>4. G \in Seq(A) /\ Len(G) = n - 1 /\ \A i \in 1 .. n - 1 : G[i] = F[i]
    BY <1>3, <2>1, <2>2, <2>3, SubSeqProperties
  <2>5. DOMAIN G = 1 .. n - 1 /\ \A i \in 1 .. n - 1 : i \in 1 .. n
    BY <2>4, LenProperties
  <2>6. G = Front(F)
    BY <2>1, <2>2 DEF Front
  <2>7. Range(G) \subseteq Range(F)
    BY <2>1, <2>4, <2>5 DEF Range
  <2>8. Range(Append(G, f)) = Range(G) \cup {f}
    BY <1>2, <2>4
  <2> QED  BY <2>6, <2>7, <2>8
<1> QED  BY <1>4, <1>5

(* A step that leaves the devices alone, after which t is in no call that  *)
(* waits for a device but those that it was in.                            *)
LEMMA QuietOrder ==
  ASSUME Inv, Inv', NEW rank, OrderInv(rank), NEW t \in Threads, NEW N, NEW G,
         \A f \in N : f.op \notin {"make", "destroy", "delete"},
         frames' = [frames EXCEPT ![t] = G], Range(G) \subseteq Calls(t) \cup N,
         registry' = registry, d3d' = d3d,
         \A c \in Contexts : context'[c].devices = context[c].devices,
         \A d \in D3D : t = Completion(d) => Calls(t) # {} \/ d3d[d].state # "none",
         t \in Callers \/ \A f \in Calls(t) : f.op # "delete"
  PROVE  OrderInv(rank)'
<1>1. frames \in [Threads -> Seq(Frame)] /\ frames' \in [Threads -> Seq(Frame)] /\ StacksInv'
  BY DEF Inv, TypeInv
<1>2. Calls(t)' = Range(G) /\ \A u \in Threads : u # t => Calls(u)' = Calls(u)
  BY <1>1 DEF Calls
<1>3. PICK S : S = Range(G) /\ CallsBecome(t, S)
  BY <1>1, <1>2 DEF CallsBecome
<1>4. \A f \in S : f.op \in {"make", "destroy", "delete"} => f \in Calls(t)
  BY <1>3
<1>5. \A x \in D3D : d3d'[x].state = "none" => d3d[x].state = "none"
  OBVIOUS
<1> QED  BY <1>3, <1>4, <1>5, OrderKept

(* The devices of contexts whose counts change stay.                       *)
LEMMA CountedDevices ==
  ASSUME TypeInv, NEW c \in Contexts,
         \/ context' = [context EXCEPT ![c].refs = @ + 1]
         \/ context' = [context EXCEPT ![c].internal = @ + 1]
  PROVE  \A b \in Contexts : context'[b].devices = context[b].devices
<1>1. PICK old \in ContextRecord : old = context[c] /\ context \in [Contexts -> ContextRecord]
  BY DEF TypeInv
<1>2. context'[c].devices = old.devices
  BY <1>1 DEF ContextRecord
<1>3. \A b \in Contexts : b # c => context'[b] = context[b]
  BY <1>1
<1> QED  BY <1>1, <1>2, <1>3

(* Calls that begin nothing that waits for a device.                       *)
LEMMA CallsKeepOrder ==
  ASSUME Inv, Inv', NEW rank, OrderInv(rank), NEW t \in Callers,
         \/ \E e \in Events : \/ clSetUserEventStatus(t, e) \/ clReleaseEvent(t, e)
                              \/ \E k \in Callbacks : clSetEventCallback(t, k, e)
         \/ \E u \in Callers, x \in Contexts \cup Events : Retain(t, u, x)
         \/ \E e \in UserEvents : clCreateUserEvent(t, e)
         \/ \E e \in Commands : Enqueue(t, e)
  PROVE  OrderInv(rank)'
<1>0. t \in Threads /\ TypeInv /\ frames[t] \in Seq(Frame) /\ \A d \in D3D : t # Completion(d)
  BY SomeThread, CompletionThreads DEF Inv, TypeInv
<1>1. ASSUME UNCHANGED <<frames, registry, d3d>>, \A b \in Contexts : context'[b].devices = context[b].devices
      PROVE  OrderInv(rank)'
  <2>1. frames' = [frames EXCEPT ![t] = frames[t]]
    BY <1>0, <1>1 DEF TypeInv
  <2>2. PICK G, N : /\ G = frames[t] /\ frames' = [frames EXCEPT ![t] = G]
                    /\ N = {} /\ Range(G) \subseteq Calls(t) \cup N
    BY <2>1 DEF Calls
  <2>3. \A f \in N : f.op \notin {"make", "destroy", "delete"}
    BY <2>2
  <2> QED  BY <1>0, <1>1, <2>2, <2>3, QuietOrder
<1>2. ASSUME NEW e \in Events, clSetUserEventStatus(t, e) PROVE OrderInv(rank)'
  <2>1. PICK f : f.op = "set" /\ frames' = [frames EXCEPT ![t] = Append(frames[t], f)]
    BY <1>2 DEF clSetUserEventStatus, Push
  <2>2. UNCHANGED <<context, registry, d3d>>
    BY <1>2 DEF clSetUserEventStatus, deviceVars
  <2>3. PICK G : G = Append(frames[t], f) /\ frames' = [frames EXCEPT ![t] = G]
    BY <2>1
  <2>4. PICK N : N = {f} /\ Range(G) \subseteq Calls(t) \cup N /\ \A h \in N : h.op \notin {"make", "destroy", "delete"}
    BY <1>0, <2>1, <2>3, StackRanges DEF Calls
  <2> QED  BY <1>0, <2>2, <2>3, <2>4, QuietOrder
<1>3. ASSUME NEW e \in Events, clReleaseEvent(t, e) PROVE OrderInv(rank)'
  <2>1. PICK f, g : /\ f = [op |-> "release", event |-> e, saw |-> event[e].refs]
                    /\ g = [op |-> "set", event |-> e, state |-> "failed"]
    OBVIOUS
  <2>2. f.op = "release" /\ g.op = "set" /\ UNCHANGED <<context, registry, d3d>>
    BY <1>3, <2>1 DEF clReleaseEvent, deviceVars
  <2>3. f \in Frame /\ (e \in UserEvents => g \in Frame)
    BY <1>0, <2>1 DEF Frame, TypeInv, EventRecord
  <2>4. frames' = [frames EXCEPT ![t] = frames[t] \o IF NeedsStatus(e) THEN <<f, g>> ELSE <<f>>]
    BY <1>3, <2>1 DEF clReleaseEvent
  <2>5. CASE NeedsStatus(e)
    <3>1. PICK G : G = Append(Append(frames[t], f), g) /\ frames' = [frames EXCEPT ![t] = G]
      BY <1>0, <2>3, <2>4, <2>5, Pushed2 DEF NeedsStatus
    <3>2. PICK H : H = Append(frames[t], f)
      OBVIOUS
    <3>3. H \in Seq(Frame) /\ Range(H) = Calls(t) \cup {f}
      BY <1>0, <2>3, <3>2, AppendProperties, StackRanges DEF Calls
    <3>4. PICK N : N = {f, g}
      OBVIOUS
    <3>5. Range(G) = Range(H) \cup {g}
      BY <3>1, <3>2, <3>3, StackRanges
    <3>6. Range(G) \subseteq Calls(t) \cup N
      BY <3>3, <3>4, <3>5
    <3>7. \A h \in N : h.op \notin {"make", "destroy", "delete"}
      BY <2>2, <3>4
    <3> QED  BY <1>0, <2>2, <3>1, <3>6, <3>7, QuietOrder
  <2>6. CASE ~NeedsStatus(e)
    <3>1. PICK G : G = Append(frames[t], f) /\ frames' = [frames EXCEPT ![t] = G]
      BY <1>0, <2>3, <2>4, <2>6, Pushed2
    <3>2. PICK N : N = {f}
      OBVIOUS
    <3>3. Range(G) \subseteq Calls(t) \cup N
      BY <1>0, <3>1, <3>2, StackRanges DEF Calls
    <3>4. \A h \in N : h.op \notin {"make", "destroy", "delete"}
      BY <2>2, <3>2
    <3> QED  BY <1>0, <2>2, <3>1, <3>3, <3>4, QuietOrder
  <2> QED  BY <2>5, <2>6
<1>4. ASSUME NEW e \in Events, NEW k \in Callbacks, clSetEventCallback(t, k, e) PROVE OrderInv(rank)'
  BY <1>1, <1>4 DEF clSetEventCallback, deviceVars
<1>5. ASSUME NEW u \in Callers, NEW x \in Contexts \cup Events, Retain(t, u, x) PROVE OrderInv(rank)'
  <2>1. UNCHANGED <<frames, registry, d3d>>
    BY <1>5 DEF Retain, deviceVars
  <2>2. CASE x \in Contexts
    BY <1>0, <1>1, <1>5, <2>1, <2>2, CountedDevices DEF Retain
  <2>3. CASE x \notin Contexts
    BY <1>1, <1>5, <2>1, <2>3 DEF Retain
  <2> QED  BY <2>2, <2>3
<1>6. ASSUME NEW e \in Events, UNCHANGED <<frames, deviceVars>>, context' = MakeChild(Home[e]) PROVE OrderInv(rank)'
  <2>1. Home[e] \in Contexts
    BY LifetimesAssumption
  <2> QED  BY <1>0, <1>1, <1>6, <2>1, CountedDevices DEF MakeChild, deviceVars
<1>7. ASSUME NEW e \in UserEvents, clCreateUserEvent(t, e) PROVE OrderInv(rank)'
  BY <1>6, <1>7 DEF clCreateUserEvent, Events, deviceVars
<1>8. ASSUME NEW e \in Commands, Enqueue(t, e) PROVE OrderInv(rank)'
  BY <1>6, <1>8 DEF Enqueue, Events, deviceVars
<1> QED  BY <1>2, <1>3, <1>4, <1>5, <1>7, <1>8

(* Steps inside calls that begin nothing that waits for a device.          *)
LEMMA StepsKeepOrder ==
  ASSUME Inv, Inv', NEW rank, OrderInv(rank),
         \/ BeginCallback \/ EndCallback
         \/ \E t \in Threads : UserEventComplete(t)
         \/ \E d \in D3D : FlushAllDevices(d)
         \/ \E e \in Commands : CompletionBegins(e)
  PROVE  OrderInv(rank)'
<1>0. Stacks /\ TypeInv /\ \A t \in Threads : frames[t] \in Seq(Frame)
  BY DEF Inv, TypeInv, Stacks
<1>1. CallbackThread \in Threads /\ CallbackThread \in Callers /\ \A d \in D3D : CallbackThread # Completion(d) /\ Completion(d) \in Threads
  BY SomeThread, CompletionThreads
<1>2. PICK quiet : quiet = {"set", "release", "handler", "callback"}
  OBVIOUS
<1>3. ASSUME NEW t \in Threads, NEW f, f.op \in quiet, frames' = [frames EXCEPT ![t] = Append(frames[t], f)],
             UNCHANGED <<context, registry, d3d>>, \A d \in D3D : t = Completion(d) => d3d[d].state # "none",
             t \in Callers \/ \A g \in Calls(t) : g.op # "delete"
      PROVE  OrderInv(rank)'
  <2>1. PICK N, G : N = {f} /\ G = Append(frames[t], f)
    OBVIOUS
  <2>2. Range(G) \subseteq Calls(t) \cup N
    BY <1>0, <2>1, StackRanges DEF Calls
  <2>3. \A h \in N : h.op \notin {"make", "destroy", "delete"}
    BY <1>2, <1>3, <2>1
  <2>4. frames' = [frames EXCEPT ![t] = G]
    BY <1>3, <2>1
  <2> QED  BY <1>3, <2>2, <2>3, <2>4, QuietOrder
<1>4. ASSUME NEW t \in Threads, NEW op, In(t, op), op # "delete", NEW f, f.op \in quiet, NEW G,
             G = Front(frames[t]) \/ G = Append(Front(frames[t]), f),
             frames' = [frames EXCEPT ![t] = G], UNCHANGED <<context, registry, d3d>>
      PROVE  OrderInv(rank)'
  <2>1. PICK N : N = {f}
    OBVIOUS
  <2>2. frames[t] # <<>> /\ Calls(t) # {}
    BY <1>0, <1>4, TopIs
  <2>3. Range(G) \subseteq Calls(t) \cup N
    BY <1>0, <1>4, <2>1, <2>2, StackRanges DEF Calls
  <2>4. \A h \in N : h.op \notin {"make", "destroy", "delete"}
    BY <1>2, <1>4, <2>1
  <2>5. \A g \in Calls(t) : g.op # "delete"
    BY <1>0, <1>4, NoDeletes
  <2> QED  BY <1>4, <2>2, <2>3, <2>4, <2>5, QuietOrder
<1>5. PICK idle : idle = [op |-> "callback"]
  OBVIOUS
<1>6. idle.op \in quiet
  BY <1>2, <1>5
<1>7. CASE BeginCallback
  <2>1. frames' = [frames EXCEPT ![CallbackThread] = Append(frames[CallbackThread], idle)]
    BY <1>5, <1>7 DEF BeginCallback, Push
  <2>2. UNCHANGED <<context, registry, d3d>>
    BY <1>7 DEF BeginCallback, deviceVars
  <2> QED  BY <1>1, <1>3, <1>6, <2>1, <2>2
<1>8. CASE EndCallback
  <2>1. PICK G : G = Front(frames[CallbackThread])
    OBVIOUS
  <2>2. /\ In(CallbackThread, "callback") /\ frames' = [frames EXCEPT ![CallbackThread] = G]
        /\ UNCHANGED <<context, registry, d3d>>
    BY <1>8, <2>1 DEF EndCallback, Pop, deviceVars
  <2> QED  BY <1>1, <1>4, <1>6, <2>1, <2>2
<1>9. ASSUME NEW t \in Threads, UserEventComplete(t) PROVE OrderInv(rank)'
  <2>1. PICK G : G = Front(frames[t])
    OBVIOUS
  <2>2. In(t, "set") /\ frames' = [frames EXCEPT ![t] = G] /\ UNCHANGED <<context, registry, d3d>>
    BY <1>9, <2>1 DEF UserEventComplete, Pop, deviceVars
  <2> QED  BY <1>4, <1>6, <2>1, <2>2
<1>10. ASSUME NEW d \in D3D, FlushAllDevices(d) PROVE OrderInv(rank)'
  <2>1. PICK t \in Threads : t = Completion(d)
    BY <1>1
  <2>2. PICK f : f = [Top(t) EXCEPT !.left = Tail(@)]
    OBVIOUS
  <2>3. PICK G : G = Append(Front(frames[t]), f)
    OBVIOUS
  <2>4. In(t, "handler") /\ frames' = [frames EXCEPT ![t] = G] /\ UNCHANGED <<context, registry, d3d>>
    BY <1>10, <2>1, <2>2, <2>3 DEF FlushAllDevices, Replace, deviceVars
  <2>5. f.op \in quiet
    <3>1. Top(t) \in Frame /\ Top(t).op = "handler"
      BY <1>0, <2>4, TopIs
    <3>2. PICK g \in [op : {"handler"}, event : Commands, left : Seq(Adapters)] : g = Top(t)
      BY <3>1 DEF Frame
    <3> QED  BY <1>2, <2>2, <3>2
  <2> QED  BY <1>4, <2>3, <2>4, <2>5
<1>11. ASSUME NEW e \in Commands, CompletionBegins(e) PROVE OrderInv(rank)'
  <2>1. EventOk(e) /\ event[e].state = "submitted"
    BY <1>11 DEF Events, Inv, EventsInv, CompletionBegins
  <2>2. PICK c \in Contexts : \E i \in DOMAIN context[c].devices : context[c].devices[i] = event[e].d3d
    BY <1>0, <2>1, RunsOn
  <2>3. PICK d \in D3D : d = event[e].d3d /\ d3d[d].state # "none"
    BY <2>2, DevicesExist
  <2>4. PICK t \in Threads : t = Completion(d)
    BY <1>1
  <2>5. \A x \in D3D : t = Completion(x) => d3d[x].state # "none"
    BY <2>3, <2>4, CompletionThreads
  <2>6. PICK f : f = [op |-> "handler", event |-> e, left |-> SetToSeq(Adapters)]
    OBVIOUS
  <2>7. /\ frames' = [frames EXCEPT ![t] = Append(frames[t], f)] /\ UNCHANGED <<context, registry, d3d>>
        /\ frames[t] = <<>>
    BY <1>11, <2>3, <2>4, <2>6 DEF CompletionBegins, Push, deviceVars
  <2>8. f.op \in quiet
    BY <1>2, <2>6
  <2>9. \A g \in Calls(t) : g.op # "delete"
    BY <2>7 DEF Calls, Range
  <2> QED  BY <1>3, <2>5, <2>7, <2>8, <2>9
<1> QED  BY <1>7, <1>8, <1>9, <1>10, <1>11

(* A context that loses its last reference: the completion thread that     *)
(* destroys it is that of one of its devices.                              *)
LEMMA LeavingKeepsOrder ==
  ASSUME Inv, NEW rank, OrderInv(rank), NEW t \in Threads, NEW c \in Contexts, NEW S, CallsBecome(t, S),
         registry' = registry, d3d' = d3d,
         \A b \in Contexts : context'[b].devices = context[b].devices,
         \A f \in S : f \in Calls(t) \/ (f.op = "destroy" /\ f.left = context[c].devices),
         \A d \in D3D : t = Completion(d) => \E i \in DOMAIN context[c].devices : context[c].devices[i] = d,
         t \in Callers \/ \A f \in Calls(t) : f.op # "delete"
  PROVE  OrderInv(rank)'
<1>0. TypeInv /\ DevicesInv /\ DeleteInv /\ Calls(t)' = S /\ \A u \in Threads : u # t => Calls(u)' = Calls(u)
  BY DEF CallsBecome, Inv, DevicesInv
<1>1. \A u \in Threads : \A f \in Calls(u)' : f.op \in {"make", "delete"} => f \in Calls(u)
  BY <1>0
<1>2. \A x, a : On(x, a)' <=> On(x, a)
  BY DEF On
<1>3. DevicesStay
  BY <1>1, <1>2 DEF DevicesStay, Homed
<1>4. \A u \in Threads : \A f \in Calls(u)' : f.op = "make" =>
        f \in Calls(u) /\ context'[f.context].devices = context[f.context].devices
  <2> SUFFICES ASSUME NEW u \in Threads, NEW f \in Calls(u)', f.op = "make"
               PROVE  f \in Calls(u) /\ context'[f.context].devices = context[f.context].devices
    OBVIOUS
  <2>1. f \in Calls(u)
    BY <1>1
  <2>2. f.context \in Contexts
    BY <1>0, <2>1, CallsAreFrames, FrameIs
  <2> QED  BY <2>1, <2>2
<1>5. ASSUME NEW d \in D3D, t = Completion(d), NEW f \in S, f \notin Calls(t) PROVE Behind(rank, d, f)'
  <2>1. PICK i \in DOMAIN context[c].devices : context[c].devices[i] = d
    BY <1>5
  <2>2. f.op = "destroy" /\ f.left = context[c].devices /\ d \in Range(f.left)
    BY <1>5, <2>1 DEF Range
  <2>3. d3d[d].state # "none"
    BY <2>1, DevicesExist
  <2> QED  BY <2>2, <2>3 DEF Behind
<1>6. \A d \in D3D : t = Completion(d) => \A f \in S : f \in Calls(t) \/ Behind(rank, d, f)'
  BY <1>5
<1> QED  BY <1>3, <1>4, <1>6, OrderStep

(* A context is released, ...                                              *)
LEMMA clReleaseContextOrder ==
  ASSUME Inv, Inv', NEW rank, OrderInv(rank), NEW t \in Callers, NEW c \in Contexts, clReleaseContext(t, c)
  PROVE  OrderInv(rank)'
<1>0. /\ t \in Threads /\ TypeInv /\ TypeInv' /\ StacksInv' /\ frames[t] \in Seq(Frame)
      /\ \A d \in D3D : t # Completion(d)
  BY SomeThread, CompletionThreads DEF Inv, TypeInv
<1>1. PICK left : left = GiveUp(context[c])
  OBVIOUS
<1>2. /\ context' = [context EXCEPT ![c] = left]
      /\ frames' = [frames EXCEPT ![t] = frames[t] \o Destruction(c, left)]
      /\ registry' = registry /\ d3d' = d3d
  BY <1>1 DEF clReleaseContext, deviceVars
<1>3. left.devices = context[c].devices /\ left.devices \in Seq(D3D)
  <2>1. PICK old \in ContextRecord : old = context[c]
    BY <1>0 DEF TypeInv
  <2>2. left = [old EXCEPT !.refs = old.refs - 1]
    BY <1>1, <2>1 DEF GiveUp
  <2> QED  BY <2>1, <2>2 DEF ContextRecord
<1>4. \A b \in Contexts : context'[b].devices = context[b].devices
  BY <1>0, <1>2, <1>3 DEF TypeInv
<1>5. PICK g : g = [op |-> "destroy", context |-> c, left |-> left.devices]
  OBVIOUS
<1>6. g.op = "destroy" /\ g.left = context[c].devices
  BY <1>3, <1>5
<1>7. Calls(t)' \subseteq Calls(t) \cup {g} /\ \A u \in Threads : u # t => Calls(u)' = Calls(u)
  <2>1. Destruction(c, left) = <<>> \/ Destruction(c, left) = <<g>>
    BY <1>5 DEF Destruction
  <2>2. frames'[t] = frames[t] \o Destruction(c, left) /\ \A u \in Threads : u # t => frames'[u] = frames[u]
    BY <1>0, <1>2 DEF TypeInv
  <2>3. frames[t] \o <<g>> = Append(frames[t], g)
    BY <1>0
  <2>4. frames'[t] = frames[t] \/ frames'[t] = Append(frames[t], g)
    BY <1>0, <2>1, <2>2, <2>3, Pushed2
  <2>5. Range(Append(frames[t], g)) = Calls(t) \cup {g}
    BY <1>0, StackRanges DEF Calls
  <2>6. Calls(t)' \subseteq Calls(t) \cup {g}
    BY <2>4, <2>5 DEF Calls
  <2> QED  BY <2>2, <2>6 DEF Calls
<1>8. PICK S : S = Calls(t)' /\ CallsBecome(t, S)
  BY <1>0, <1>7 DEF CallsBecome, TypeInv
<1>9. \A f \in S : f \in Calls(t) \/ (f.op = "destroy" /\ f.left = context[c].devices)
  BY <1>6, <1>7, <1>8
<1> QED  BY <1>0, <1>2, <1>4, <1>8, <1>9, LeavingKeepsOrder

(* ... or lost with an event, ...                                          *)
LEMMA DropOrder ==
  ASSUME Inv, Inv', NEW rank, OrderInv(rank), NEW t \in Threads, NEW op, In(t, op), op # "delete", NEW e \in Events,
         NEW c \in Contexts, c = event[e].context, NEW left, DropEvent(t, e, left, Front(frames[t])),
         UNCHANGED deviceVars,
         \A d \in D3D : t = Completion(d) => \E i \in DOMAIN context[c].devices : context[c].devices[i] = d
  PROVE  OrderInv(rank)'
<1>0. TypeInv /\ TypeInv' /\ StacksInv' /\ Stacks /\ frames[t] \in Seq(Frame) /\ frames[t] # <<>>
      /\ registry' = registry /\ d3d' = d3d
  BY DEF Inv, TypeInv, Stacks, In, deviceVars
<1>1. PICK parent : parent = [context[c] EXCEPT !.internal = @ - 1]
  OBVIOUS
<1>2. PICK dies \in BOOLEAN : dies <=> left.refs = 0 /\ left.internal = 0
  OBVIOUS
<1>3. /\ context' = IF dies THEN [context EXCEPT ![c] = parent] ELSE context
      /\ frames' = [frames EXCEPT ![t] = Front(frames[t]) \o IF dies THEN Destruction(c, parent) ELSE <<>>]
  BY <1>1, <1>2 DEF DropEvent
<1>4. parent.devices = context[c].devices /\ parent.devices \in Seq(D3D)
  <2>1. PICK old \in ContextRecord : old = context[c]
    BY <1>0 DEF TypeInv
  <2>2. parent = [old EXCEPT !.internal = old.internal - 1]
    BY <1>1, <2>1
  <2> QED  BY <2>1, <2>2 DEF ContextRecord
<1>5. \A b \in Contexts : context'[b].devices = context[b].devices
  BY <1>0, <1>3, <1>4 DEF TypeInv
<1>6. PICK g : g = [op |-> "destroy", context |-> c, left |-> parent.devices]
  OBVIOUS
<1>7. g.op = "destroy" /\ g.left = context[c].devices
  BY <1>4, <1>6
<1>8. PICK front \in Seq(Frame) : front = Front(frames[t])
  <2>1. Rising(frames[t])
    BY <1>0 DEF Inv, StacksInv
  <2> QED  BY <1>0, <2>1, StackParts
<1>9. Calls(t)' \subseteq Calls(t) \cup {g} /\ \A u \in Threads : u # t => Calls(u)' = Calls(u)
  <2>1. PICK rest : rest = (IF dies THEN Destruction(c, parent) ELSE <<>>) /\ (rest = <<>> \/ rest = <<g>>)
    BY <1>6 DEF Destruction
  <2>2. frames'[t] = front \o rest /\ \A u \in Threads : u # t => frames'[u] = frames[u]
    BY <1>0, <1>3, <1>8, <2>1 DEF TypeInv
  <2>3. front \o <<g>> = Append(front, g) /\ front \o <<>> = front
    BY <1>8, Pushed2
  <2>4. frames'[t] = front \/ frames'[t] = Append(front, g)
    BY <2>1, <2>2, <2>3
  <2>5. Range(front) \subseteq Calls(t) /\ Range(Append(front, g)) \subseteq Calls(t) \cup {g}
    BY <1>0, <1>8, StackRanges DEF Calls
  <2>6. Calls(t)' \subseteq Calls(t) \cup {g}
    BY <2>4, <2>5 DEF Calls
  <2> QED  BY <2>2, <2>6 DEF Calls
<1>10. PICK S : S = Calls(t)' /\ CallsBecome(t, S)
  BY <1>0, <1>9 DEF CallsBecome, TypeInv
<1>11. \A f \in S : f \in Calls(t) \/ (f.op = "destroy" /\ f.left = context[c].devices)
  BY <1>7, <1>9, <1>10
<1>12. \A f \in Calls(t) : f.op # "delete"
  BY <1>0, NoDeletes
<1> QED  BY <1>0, <1>5, <1>10, <1>11, <1>12, LeavingKeepsOrder

(* ... which an application releases, or a completion thread.              *)
LEMMA EventsGoInOrder ==
  ASSUME Inv, Inv', NEW rank, OrderInv(rank),
         \/ \E t \in Threads : EventRelease(t)
         \/ \E d \in D3D : CompletionEnds(d)
  PROVE  OrderInv(rank)'
<1>0. Stacks
  BY DEF Inv, TypeInv, Stacks
<1>1. ASSUME NEW t \in Threads, EventRelease(t) PROVE OrderInv(rank)'
  <2>1. In(t, "release") /\ UNCHANGED deviceVars
    BY <1>1 DEF EventRelease
  <2>2. Top(t) \in Calls(t) /\ Top(t).op = "release" /\ Top(t) \in Frame /\ (t \in Callers \/ Top(t).op \in OtherOps)
    BY <1>0, <2>1, TopIs
  <2>3. PICK e \in Events : e = Top(t).event
    BY <2>2, FrameIs
  <2>4. Releasing(e) # {}
    BY <2>2, <2>3 DEF Releasing
  <2>5. PICK c \in Contexts : c = event[e].context
    BY <2>4, EventIsAlive
  <2>6. PICK left : left = GiveUp(event[e]) /\ DropEvent(t, e, left, Front(frames[t]))
    BY <1>1, <2>3 DEF EventRelease
  <2>7. \A d \in D3D : t # Completion(d)
    BY <2>2, CompletionThreads DEF OtherOps
  <2> QED  BY <2>1, <2>5, <2>6, <2>7, DropOrder
<1>2. ASSUME NEW d \in D3D, CompletionEnds(d) PROVE OrderInv(rank)'
  <2>1. PICK t \in Threads : t = Completion(d)
    BY CompletionThreads
  <2>2. In(t, "handler") /\ UNCHANGED deviceVars
    BY <1>2, <2>1 DEF CompletionEnds
  <2>3. Top(t) \in Calls(t) /\ Top(t).op = "handler" /\ Top(t) \in Frame
    BY <1>0, <2>2, TopIs
  <2>4. PICK e \in Commands : e = Top(t).event
    BY <2>3, FrameIs
  <2>5. e \in Events /\ EventOk(e) /\ Handled(e)
    BY <2>3, <2>4 DEF Events, Inv, EventsInv, Handled
  <2>6. Completion(event[e].d3d) = t /\ event[e].state \notin {"none", "gone"}
    BY <2>3, <2>4, <2>5 DEF EventOk, Handling, EventCounts
  <2>7. PICK c \in Contexts : /\ c = event[e].context /\ event[e].d3d \in D3D
                              /\ \E i \in DOMAIN context[c].devices : context[c].devices[i] = event[e].d3d
    BY <1>0, <2>5, <2>6, RunsOn DEF Inv
  <2>8. PICK left : left = [event[e] EXCEPT !.internal = @ - 1] /\ DropEvent(t, e, left, Front(frames[t]))
    BY <1>2, <2>1, <2>4 DEF CompletionEnds
  <2>9. \A x \in D3D : t = Completion(x) => \E i \in DOMAIN context[c].devices : context[c].devices[i] = x
    BY <2>6, <2>7, CompletionThreads
  <2> QED  BY <2>2, <2>5, <2>7, <2>8, <2>9, DropOrder
<1> QED  BY <1>1, <1>2

(* A device is deleted.                                                    *)
LEMMA DeleteD3DOrder ==
  ASSUME Inv, Inv', NEW rank, OrderInv(rank), NEW t \in Threads, DeleteD3D(t)
  PROVE  OrderInv(rank)'
<1>0. Stacks /\ TypeInv /\ TypeInv' /\ StacksInv' /\ frames[t] \in Seq(Frame) /\ registry' = registry
      /\ \A b \in Contexts : context'[b].devices = context[b].devices
  BY DEF Inv, TypeInv, Stacks, DeleteD3D
<1>1. /\ Top(t) \in Calls(t) /\ Top(t).op = "delete" /\ Top(t) \in Frame /\ frames[t] # <<>>
  BY <1>0, TopIs DEF DeleteD3D
<1>2. PICK d \in D3D : d = Top(t).d3d
  BY <1>1, FrameIs
<1>3. (UNCHANGED <<d3d, frames>>)
      \/ (d3d' = [d3d EXCEPT ![d].state = "deleted"] /\ frames' = [frames EXCEPT ![t] = Front(frames[t])])
  BY <1>2 DEF DeleteD3D, Pop
<1>4. \A x \in D3D : d3d'[x].state = "none" => d3d[x].state = "none"
  <2>1. PICK old \in DeviceRecord : old = d3d[d] /\ d3d \in [D3D -> DeviceRecord]
    BY <1>0 DEF TypeInv
  <2>2. [old EXCEPT !.state = "deleted"].state = "deleted"
    BY <2>1 DEF DeviceRecord
  <2> QED  BY <1>3, <2>1, <2>2
<1>5. Calls(t)' \subseteq Calls(t) /\ \A u \in Threads : u # t => Calls(u)' = Calls(u)
  <2>1. Range(Front(frames[t])) \subseteq Range(frames[t])
    BY <1>0, <1>1, StackRanges
  <2>2. \A u \in Threads : frames'[u] = frames[u] \/ (u = t /\ frames'[u] = Front(frames[t]))
    BY <1>0, <1>3 DEF TypeInv
  <2> QED  BY <2>1, <2>2 DEF Calls
<1>6. PICK S : S = Calls(t)' /\ CallsBecome(t, S)
  BY <1>0, <1>5 DEF CallsBecome, TypeInv
<1>7. Calls(t) # {} /\ \A f \in S : f \in Calls(t)
  BY <1>1, <1>5, <1>6
<1>8. \A f \in Calls(t) : f.op = "destroy" => f \in S
  <2>1. Calls(t)' = Calls(t) \/ Calls(t)' = Calls(t) \ {Top(t)}
    <3>1. Range(Front(frames[t])) = Calls(t) \ {Top(t)}
      BY <1>0, <1>1, StackParts DEF Calls, Top, Stacks, StacksInv
    <3>2. frames'[t] = frames[t] \/ frames'[t] = Front(frames[t])
      BY <1>0, <1>3 DEF TypeInv
    <3> QED  BY <3>1, <3>2 DEF Calls
  <2> QED  BY <1>1, <1>6, <2>1
<1> QED  BY <1>0, <1>4, <1>6, <1>7, <1>8, OrderKept

(* Where a device is found or made, the others stay ...                    *)
LEMMA InitStays ==
  ASSUME Inv, NEW want, want.device \in Adapters, want.gl \in {w.gl : w \in Asked} \cup {FALSE},
         NEW d \in D3D, InitD3D(want, d), NEW t \in Threads, NEW S, CallsBecome(t, S),
         \A f \in S : f.op = "delete" => f \in Calls(t)
  PROVE  DevicesStay /\ \A a \in Adapters : On(d, a)' => a = want.device
<1>0. TypeInv /\ RegistryInv /\ DeleteInv /\ Calls(t)' = S /\ \A u \in Threads : u # t => Calls(u)' = Calls(u)
  BY DEF Inv, DevicesInv, CallsBecome
<1>1. /\ d3d'[d].state = "live" /\ \A x \in D3D : x # d => d3d'[x] = d3d[x]
      /\ \A x \in D3D : \A a \in Adapters : x # d => (On(x, a)' <=> On(x, a))
      /\ \A a \in Adapters : On(d, a)' <=> a = want.device
      /\ \A x \in D3D : \A a \in Adapters : On(x, a) => On(x, a)'
      /\ d3d[d].count > 0 \/ d3d[d].state = "none"
  BY <1>0, InitD3DStep
<1>2. \A u \in Threads : \A f \in Calls(u)' : f.op = "delete" => f \in Calls(u)
  BY <1>0
<1>3. ASSUME NEW x \in D3D, d3d[x].state # "none"
      PROVE  /\ d3d'[x].state # "none"
             /\ \A a \in Adapters : (On(x, a)' => On(x, a)) /\ (Homed(x, a)' => Homed(x, a))
  <2>1. d3d'[x].state # "none"
    BY <1>1, <1>3
  <2>2. \A a \in Adapters : On(x, a)' => On(x, a)
    <3>1. CASE x # d
      BY <1>1, <3>1
    <3>2. CASE x = d
      <4>1. PICK a \in Adapters : On(d, a)
        BY <1>0, <1>1, <1>3, <3>2 DEF RegistryInv
      <4>2. a = want.device
        BY <1>1, <4>1
      <4> QED  BY <1>1, <3>2, <4>1, <4>2
    <3> QED  BY <3>1, <3>2
  <2> QED  BY <1>2, <2>1, <2>2 DEF Homed
<1> QED  BY <1>1, <1>3 DEF DevicesStay

(* ... and where one is released, which may then be deleted.               *)
LEMMA ReturnStays ==
  ASSUME NEW d \in D3D, NEW t \in Threads, NEW S, CallsBecome(t, S),
         \A f \in S : f.op = "delete" => f \in Calls(t) \/ (f.d3d = d /\ On(d, f.adapter)),
         \A x \in D3D : d3d'[x].state = d3d[x].state,
         \A x \in D3D : \A b \in Adapters : On(x, b)' => On(x, b)
  PROVE  DevicesStay
<1>1. Calls(t)' = S /\ \A u \in Threads : u # t => Calls(u)' = Calls(u)
  BY DEF CallsBecome
<1>2. \A u \in Threads : \A f \in Calls(u)' : f.op = "delete" => f \in Calls(u) \/ (f.d3d = d /\ On(d, f.adapter))
  BY <1>1
<1>3. \A x \in D3D : \A a \in Adapters : Homed(x, a)' => Homed(x, a)
  BY <1>2 DEF Homed
<1> QED  BY <1>3 DEF DevicesStay

(* The host timer uses a device.                                           *)
LEMMA TimerOrder ==
  ASSUME Inv, Inv', NEW rank, OrderInv(rank), NEW t \in Callers, NEW a \in Adapters, clGetDeviceAndHostTimer(t, a)
  PROVE  OrderInv(rank)'
<1>0. /\ t \in Threads /\ TypeInv /\ TypeInv' /\ StacksInv' /\ frames[t] \in Seq(Frame)
      /\ \A d \in D3D : t # Completion(d)
  BY SomeThread, CompletionThreads DEF Inv, TypeInv
<1>1. PICK want : want = [device |-> a, gl |-> FALSE]
  OBVIOUS
<1>2. PICK d \in D3D : InitD3D(want, d) /\ Push(t, [op |-> "timer", d3d |-> d])
  BY <1>1 DEF clGetDeviceAndHostTimer
<1>3. PICK g : g = [op |-> "timer", d3d |-> d] /\ frames' = [frames EXCEPT ![t] = Append(frames[t], g)]
  BY <1>2 DEF Push
<1>4. g.op = "timer" /\ want.device = a /\ want.gl = FALSE /\ context' = context
  BY <1>1, <1>3 DEF clGetDeviceAndHostTimer
<1>5. Calls(t)' = Calls(t) \cup {g} /\ \A u \in Threads : u # t => Calls(u)' = Calls(u)
  BY <1>0, <1>3, StackRanges DEF Calls, TypeInv
<1>6. PICK S : S = Calls(t)' /\ CallsBecome(t, S)
  BY <1>0, <1>5 DEF CallsBecome, TypeInv
<1>7. \A f \in S : f.op \in {"make", "destroy", "delete"} => f \in Calls(t)
  BY <1>4, <1>5, <1>6
<1>8. DevicesStay
  BY <1>0, <1>2, <1>4, <1>6, <1>7, InitStays
<1>9. \A u \in Threads : \A f \in Calls(u)' : f.op = "make" =>
        f \in Calls(u) /\ context'[f.context].devices = context[f.context].devices
  BY <1>4, <1>5
<1> QED  BY <1>0, <1>4, <1>6, <1>8, <1>9, OrderStep

(* A D3D device that a call has is counted.                                *)
LEMMA TimersCounted ==
  ASSUME Inv, NEW t \in Threads, NEW f \in Calls(t), f.op = "timer"
  PROVE  f.d3d \in D3D /\ d3d[f.d3d].count > 0
<1>0. TypeInv /\ CountInv
  BY DEF Inv, DevicesInv
<1>1. PICK d \in D3D : d = f.d3d
  BY <1>0, CallsAreFrames, FrameIs
<1>2. t \in Timers(d) /\ Timers(d) \subseteq Threads
  BY <1>1, TimersAre
<1>3. Cardinality(Timers(d)) \in Nat /\ Cardinality(Timers(d)) > 0
  BY <1>2, FiniteThreads, OneLess
<1>4. leaked[d] \in Nat /\ Cardinality(Held(d)) \in Nat
      /\ d3d[d].count = leaked[d] + Cardinality(Held(d)) + Cardinality(Timers(d))
  BY <1>0, FS_CardinalityType DEF CountInv, TypeInv
<1> QED  BY <1>1, <1>3, <1>4

(* A device is given back after the host timer was read.                   *)
LEMMA TimerReturnsOrder ==
  ASSUME Inv, Inv', NEW rank, OrderInv(rank), NEW t \in Threads, TimerReturns(t)
  PROVE  OrderInv(rank)'
<1>0. Stacks /\ TypeInv /\ TypeInv' /\ StacksInv' /\ DevicesInv /\ CountInv
  BY DEF Inv, TypeInv, Stacks, DevicesInv
<1>1. In(t, "timer") /\ context' = context
  BY DEF TimerReturns
<1>2. /\ frames[t] \in Seq(Frame) /\ frames[t] # <<>> /\ Rising(frames[t])
      /\ Top(t) \in Calls(t) /\ Top(t).op = "timer" /\ Top(t) \in Frame /\ Top(t) = Last(frames[t])
      /\ \A f \in Calls(t) \ {Top(t)} : Level(f) < Level(Top(t))
      /\ \A f \in Calls(t) : t \in Callers \/ f.op \in OtherOps
  BY <1>0, <1>1, TopIs
<1>3. PICK d \in D3D : d = Top(t).d3d
  BY <1>2, FrameIs
<1>4. PICK below \in Seq(Frame) : below = Front(frames[t]) /\ Rising(below) /\ Range(below) = Calls(t) \ {Top(t)}
  BY <1>2, StackParts DEF Calls
<1>5. ReleaseD3D(t, d, below)
  BY <1>3, <1>4 DEF TimerReturns
<1>6. Level(Top(t)) = 2 /\ t \in Callers
  BY <1>2 DEF Level, OtherOps
<1>7. (\A f \in Range(below) : Level(f) < 3) /\ \A f \in Calls(t) : f.op # "delete"
  <2>1. \A f : Level(f) \in Nat /\ (f.op = "delete" => Level(f) = 3)
    BY DEF Level
  <2> QED  BY <1>2, <1>4, <1>6, <2>1
<1>8. d3d[d].count > 0
  BY <1>2, <1>3, TimersCounted
<1>9. /\ Returns(t, below, d)
      /\ \A x \in D3D : d3d'[x].state = d3d[x].state
      /\ \A x \in D3D : \A b \in Adapters : On(x, b)' => On(x, b)
  BY <1>4, <1>5, <1>6, <1>7, <1>8, ReleaseCalls
<1>10. PICK D : /\ CallsBecome(t, Range(below) \cup D)
                /\ \A f \in D : f.op = "delete" /\ f.d3d = d /\ On(d, f.adapter)
  BY <1>9 DEF Returns
<1>11. PICK S : S = Range(below) \cup D /\ CallsBecome(t, S)
  BY <1>10
<1>12. \A f \in S : /\ f.op = "delete" => f \in Calls(t) \/ (f.d3d = d /\ On(d, f.adapter))
                    /\ f.op = "make" => f \in Calls(t)
  BY <1>4, <1>10, <1>11
<1>13. DevicesStay
  BY <1>9, <1>11, <1>12, ReturnStays
<1>14. \A u \in Threads : \A f \in Calls(u)' : f.op = "make" =>
         f \in Calls(u) /\ context'[f.context].devices = context[f.context].devices
  BY <1>1, <1>11, <1>12 DEF CallsBecome
<1>15. \A x \in D3D : t # Completion(x)
  BY <1>6, CompletionThreads
<1> QED  BY <1>1, <1>6, <1>11, <1>13, <1>14, <1>15, OrderStep

\* The adapters that a context names are in one order.
Ranks(rank) ==
  \A c \in Contexts : \A i, j \in DOMAIN Wanted[c] :
    i < j => rank[Wanted[c][i].device] < rank[Wanted[c][j].device]

(* A context begins to be made.                                            *)
LEMMA clCreateContextOrder ==
  ASSUME Inv, Inv', NEW rank, Ranks(rank), OrderInv(rank), NEW t \in Callers, NEW c \in Contexts, clCreateContext(t, c)
  PROVE  OrderInv(rank)'
<1>0. /\ t \in Threads /\ TypeInv /\ TypeInv' /\ StacksInv' /\ frames[t] \in Seq(Frame)
      /\ \A d \in D3D : t # Completion(d)
  BY SomeThread, CompletionThreads DEF Inv, TypeInv
<1>1. /\ context[c].state = "none" /\ context' = [context EXCEPT ![c].state = "making"]
      /\ registry' = registry /\ d3d' = d3d
  BY DEF clCreateContext, deviceVars
<1>2. PICK g : /\ g = [op |-> "make", context |-> c, left |-> Wanted[c]]
               /\ frames' = [frames EXCEPT ![t] = Append(frames[t], g)]
  BY DEF clCreateContext, Push
<1>3. g.op = "make" /\ g.context = c /\ g.left = Wanted[c]
  BY <1>2
<1>4. Calls(t)' = Calls(t) \cup {g} /\ \A u \in Threads : u # t => Calls(u)' = Calls(u)
  BY <1>0, <1>2, StackRanges DEF Calls, TypeInv
<1>5. PICK S : S = Calls(t)' /\ CallsBecome(t, S)
  BY <1>0, <1>4 DEF CallsBecome, TypeInv
<1>6. \A b \in Contexts : context'[b].devices = context[b].devices
  <2>1. PICK old \in ContextRecord : old = context[c] /\ context \in [Contexts -> ContextRecord]
    BY <1>0 DEF TypeInv
  <2>2. [old EXCEPT !.state = "making"].devices = old.devices
    BY <2>1 DEF ContextRecord
  <2> QED  BY <1>1, <2>1, <2>2
<1>7. DevicesStay
  <2>1. \A u \in Threads : \A f \in Calls(u)' : f.op = "delete" => f \in Calls(u)
    BY <1>3, <1>4
  <2>2. \A x, a : On(x, a)' <=> On(x, a)
    BY <1>1 DEF On
  <2> QED  BY <1>1, <2>1, <2>2 DEF DevicesStay, Homed
<1>8. MakeSorted(rank, g)'
  <2>1. context'[c].devices = <<>>
    BY <1>1, <1>6 DEF Inv, ContextsInv, ContextOk, ContextCounts
  <2>2. DOMAIN context'[c].devices = {}
    BY <2>1
  <2> QED  BY <1>3, <2>2 DEF MakeSorted, Ranks
<1>9. \A u \in Threads : \A f \in Calls(u)' : f.op = "make" =>
        \/ f \in Calls(u) /\ context'[f.context].devices = context[f.context].devices
        \/ MakeSorted(rank, f)'
  <2> SUFFICES ASSUME NEW u \in Threads, NEW f \in Calls(u)', f.op = "make", f # g
               PROVE  f \in Calls(u) /\ context'[f.context].devices = context[f.context].devices
    BY <1>8
  <2>1. f \in Calls(u)
    BY <1>4
  <2>2. f.context \in Contexts
    BY <1>0, <2>1, CallsAreFrames, FrameIs
  <2> QED  BY <1>6, <2>1, <2>2
<1> QED  BY <1>0, <1>5, <1>6, <1>7, <1>9, OrderStep

(* A context is not made after all.                                        *)
LEMMA ContextInitThrowsOrder ==
  ASSUME Inv, Inv', NEW rank, OrderInv(rank), NEW t \in Threads, ContextInitThrows(t)
  PROVE  OrderInv(rank)'
<1>0. Stacks /\ TypeInv /\ TypeInv' /\ StacksInv' /\ registry' = registry /\ d3d' = d3d
  BY DEF Inv, TypeInv, Stacks, ContextInitThrows
<1>1. /\ Top(t) \in Calls(t) /\ Top(t).op = "make" /\ Top(t) \in Frame
      /\ frames[t] \in Seq(Frame) /\ frames[t] # <<>> /\ \A f \in Calls(t) : t \in Callers \/ f.op \in OtherOps
  BY <1>0, TopIs DEF ContextInitThrows
<1>2. PICK c \in Contexts : c = Top(t).context
  BY <1>1, FrameIs
<1>3. /\ context' = [context EXCEPT ![c] = [@ EXCEPT !.state = "gone", !.devices = <<>>]]
      /\ frames' = [frames EXCEPT ![t] = Front(frames[t])]
  BY <1>2 DEF ContextInitThrows, Pop
<1>4. context'[c].devices = <<>> /\ \A b \in Contexts : b # c => context'[b] = context[b]
  <2>1. PICK old \in ContextRecord : old = context[c] /\ context \in [Contexts -> ContextRecord]
    BY <1>0 DEF TypeInv
  <2>2. [old EXCEPT !.state = "gone", !.devices = <<>>].devices = <<>>
    BY <2>1 DEF ContextRecord
  <2> QED  BY <1>3, <2>1, <2>2
<1>5. Calls(t)' \subseteq Calls(t) /\ \A u \in Threads : u # t => Calls(u)' = Calls(u)
  <2>1. Range(Front(frames[t])) \subseteq Range(frames[t])
    BY <1>1, StackRanges
  <2>2. frames'[t] = Front(frames[t]) /\ \A u \in Threads : u # t => frames'[u] = frames[u]
    BY <1>0, <1>3 DEF TypeInv
  <2> QED  BY <2>1, <2>2 DEF Calls
<1>6. PICK S : S = Calls(t)' /\ CallsBecome(t, S)
  BY <1>0, <1>5 DEF CallsBecome, TypeInv
<1>7. DevicesStay
  <2>1. \A u \in Threads : \A f \in Calls(u)' : f \in Calls(u)
    BY <1>5
  <2>2. \A x, a : On(x, a)' <=> On(x, a)
    BY <1>0 DEF On
  <2> QED  BY <1>0, <2>1, <2>2 DEF DevicesStay, Homed
<1>8. DOMAIN context'[c].devices = {}
  BY <1>4
<1>9. \A b \in Contexts : context'[b].devices = context[b].devices \/ Sorted(rank, b)'
  BY <1>4, <1>8 DEF Sorted
<1>10. \A u \in Threads : \A f \in Calls(u)' : f.op = "make" =>
         \/ f \in Calls(u) /\ context'[f.context].devices = context[f.context].devices
         \/ MakeSorted(rank, f)'
  <2> SUFFICES ASSUME NEW u \in Threads, NEW f \in Calls(u)', f.op = "make"
               PROVE  \/ f \in Calls(u) /\ context'[f.context].devices = context[f.context].devices
                      \/ MakeSorted(rank, f)'
    OBVIOUS
  <2>1. f \in Calls(u)
    BY <1>5
  <2>2. f.context \in Contexts /\ MakeSorted(rank, f)
    BY <1>0, <2>1, CallsAreFrames, FrameIs DEF OrderInv
  <2>3. CASE f.context = c
    BY <1>8, <2>2, <2>3 DEF MakeSorted
  <2> QED  BY <1>4, <2>1, <2>2, <2>3
<1>11. t \in Callers /\ \A d \in D3D : t # Completion(d)
  BY <1>1, CompletionThreads DEF OtherOps
<1> QED  BY <1>6, <1>7, <1>9, <1>10, <1>11, OrderStep

(* A context gets its next device, which comes after those it has.         *)
LEMMA ContextInitOrder ==
  ASSUME Inv, Inv', NEW rank, OrderInv(rank), NEW t \in Threads, ContextInit(t)
  PROVE  OrderInv(rank)'
<1>0. Stacks /\ TypeInv /\ TypeInv' /\ StacksInv'
  BY DEF Inv, TypeInv, Stacks
<1>1. /\ Top(t) \in Calls(t) /\ Top(t).op = "make" /\ Top(t) \in Frame
      /\ frames[t] \in Seq(Frame) /\ frames[t] # <<>> /\ \A f \in Calls(t) : t \in Callers \/ f.op \in OtherOps
      /\ \A f \in Calls(t) \ {Top(t)} : Level(f) < Level(Top(t))
  BY <1>0, TopIs DEF ContextInit
<1>2. PICK c \in Contexts, left \in Seq(Asked) : c = Top(t).context /\ left = Top(t).left /\ left # <<>>
  BY <1>1, FrameIs
<1>3. PICK n \in Nat : n = Len(left) /\ n > 0 /\ DOMAIN left = 1 .. n
  BY <1>2
<1>4. PICK want \in Asked, rest \in Seq(Asked) :
        /\ want = Head(left) /\ want = left[1] /\ rest = Tail(left) /\ DOMAIN rest = 1 .. n - 1
        /\ \A i \in 1 .. n - 1 : rest[i] = left[i + 1]
  <2>1. Head(left) \in Asked /\ Tail(left) \in Seq(Asked) /\ Head(left) = left[1] /\ Len(Tail(left)) = n - 1
        /\ \A i \in 1 .. n - 1 : Tail(left)[i] = left[i + 1]
    BY <1>2, <1>3, HeadTailProperties
  <2>2. DOMAIN Tail(left) = 1 .. n - 1
    BY <2>1, LenProperties
  <2> QED  BY <2>1, <2>2
<1>5. PICK made \in BOOLEAN : made <=> rest = <<>>
  OBVIOUS
<1>6. PICK d \in D3D : /\ InitD3D(want, d)
                       /\ context' = [context EXCEPT ![c].devices = Append(@, d),
                                        ![c].state = IF made THEN "live" ELSE @,
                                        ![c].refs = IF made THEN 1 ELSE @]
  <2>1. \E d \in D3D :
          /\ InitD3D(Head(Top(t).left), d)
          /\ context' = [context EXCEPT ![Top(t).context].devices = Append(@, d),
               ![Top(t).context].state = IF Tail(Top(t).left) = <<>> THEN "live" ELSE @,
               ![Top(t).context].refs = IF Tail(Top(t).left) = <<>> THEN 1 ELSE @]
    BY DEF ContextInit
  <2> QED  BY <1>2, <1>4, <1>5, <2>1, ZenonT(60)
<1>7. PICK g : g = [Top(t) EXCEPT !.left = rest]
  OBVIOUS
<1>8. frames' = [frames EXCEPT ![t] = IF made THEN Front(frames[t]) ELSE Append(Front(frames[t]), g)]
  BY <1>2, <1>4, <1>5, <1>7 DEF ContextInit, Pop, Replace
<1>9. g.op = "make" /\ g.context = c /\ g.left = rest
  <2>1. Top(t) = [op |-> "make", context |-> c, left |-> left]
    BY <1>1, <1>2 DEF Frame
  <2>2. g = [op |-> "make", context |-> c, left |-> rest]
    BY <1>7, <2>1
  <2> QED  BY <2>2
<1>10. Calls(t)' \subseteq Calls(t) \cup {g} /\ \A u \in Threads : u # t => Calls(u)' = Calls(u)
  <2>1. Range(Front(frames[t])) \subseteq Calls(t) /\ Range(Append(Front(frames[t]), g)) \subseteq Calls(t) \cup {g}
    BY <1>1, StackRanges DEF Calls
  <2>2. \/ frames'[t] = Front(frames[t])
        \/ frames'[t] = Append(Front(frames[t]), g)
    BY <1>0, <1>8 DEF TypeInv
  <2>3. \A u \in Threads : u # t => frames'[u] = frames[u]
    BY <1>0, <1>8 DEF TypeInv
  <2>4. Calls(t)' \subseteq Calls(t) \cup {g}
    BY <2>1, <2>2 DEF Calls
  <2> QED  BY <2>3, <2>4 DEF Calls
<1>11. PICK S : S = Calls(t)' /\ CallsBecome(t, S)
  BY <1>0, <1>10 DEF CallsBecome, TypeInv
<1>12. want.device \in Adapters /\ want.gl \in {w.gl : w \in Asked} \cup {FALSE}
  BY DEF Adapters
<1>13. DevicesStay /\ \A a \in Adapters : On(d, a)' => a = want.device
  <2>1. \A f \in S : f.op = "delete" => f \in Calls(t)
    BY <1>9, <1>10, <1>11
  <2> QED  BY <1>6, <1>11, <1>12, <2>1, InitStays
<1>14. PICK s \in Seq(D3D), k \in Nat : s = context[c].devices /\ k = Len(s) /\ DOMAIN s = 1 .. k
  <2>1. PICK s \in Seq(D3D) : s = context[c].devices
    BY <1>0 DEF TypeInv, ContextRecord
  <2> QED  BY <2>1
<1>15. PICK more : /\ more = Append(s, d) /\ DOMAIN more = 1 .. k + 1
                   /\ (\A i \in 1 .. k : more[i] = s[i]) /\ more[k + 1] = d
  <2>1. Append(s, d) \in Seq(D3D) /\ Len(Append(s, d)) = k + 1
        /\ (\A i \in 1 .. k : Append(s, d)[i] = s[i]) /\ Append(s, d)[k + 1] = d
    BY <1>14, AppendProperties
  <2>2. DOMAIN Append(s, d) = 1 .. k + 1
    BY <2>1, LenProperties
  <2> QED  BY <2>1, <2>2
<1>16. context'[c].devices = more /\ \A b \in Contexts : b # c => context'[b] = context[b]
  <2>1. PICK old \in ContextRecord : old = context[c] /\ context \in [Contexts -> ContextRecord]
    BY <1>0 DEF TypeInv
  <2>2. context' = [context EXCEPT ![c] = [old EXCEPT !.devices = more, !.state = IF made THEN "live" ELSE @,
                                                      !.refs = IF made THEN 1 ELSE @]]
    BY <1>6, <1>14, <1>15, <2>1
  <2>3. [old EXCEPT !.devices = more, !.state = IF made THEN "live" ELSE @,
                    !.refs = IF made THEN 1 ELSE @].devices = more
    BY <2>1 DEF ContextRecord
  <2> QED  BY <2>1, <2>2, <2>3
<1>17. /\ \A i, j \in 1 .. n : i < j => rank[left[i].device] < rank[left[j].device]
       /\ \A i \in 1 .. k, j \in 1 .. n : \A a \in Adapters : On(s[i], a) => rank[a] < rank[left[j].device]
  <2>1. MakeSorted(rank, Top(t))
    BY <1>1 DEF OrderInv
  <2> QED  BY <1>2, <1>3, <1>14, <2>1 DEF MakeSorted
<1>18. \A i \in 1 .. k : \A a \in Adapters : s[i] \in Range(registry'[a]) => On(s[i], a)
  <2>1. \A i \in 1 .. k : s[i] \in D3D /\ d3d[s[i]].state # "none"
    BY <1>14, DevicesExist
  <2> QED  BY <1>13, <2>1 DEF DevicesStay, On
<1>19. \A a \in Adapters : d \in Range(registry'[a]) => a = want.device
  BY <1>13 DEF On
<1>20. \A i, j \in 1 .. k + 1 : \A a, b \in Adapters :
         i < j /\ more[i] \in Range(registry'[a]) /\ more[j] \in Range(registry'[b]) => rank[a] < rank[b]
  <2> SUFFICES ASSUME NEW i \in 1 .. k + 1, NEW j \in 1 .. k + 1, NEW a \in Adapters, NEW b \in Adapters,
                      i < j, more[i] \in Range(registry'[a]), more[j] \in Range(registry'[b])
               PROVE  rank[a] < rank[b]
    OBVIOUS
  <2>1. i \in 1 .. k /\ (j \in 1 .. k \/ j = k + 1)
    OBVIOUS
  <2>2. On(s[i], a)
    BY <1>15, <1>18, <2>1
  <2>3. CASE j \in 1 .. k
    <3>1. On(s[j], b)
      BY <1>15, <1>18, <2>3
    <3>2. Sorted(rank, c)
      BY DEF OrderInv
    <3> QED  BY <1>14, <2>1, <2>2, <2>3, <3>1, <3>2 DEF Sorted
  <2>4. CASE j = k + 1
    <3>1. b = left[1].device /\ 1 \in 1 .. n
      BY <1>3, <1>4, <1>15, <1>19, <2>4
    <3> QED  BY <1>17, <2>1, <2>2, <3>1
  <2> QED  BY <2>1, <2>3, <2>4
<1>21. Sorted(rank, c)'
  BY <1>15, <1>16, <1>20 DEF Sorted, On
<1>22. MakeSorted(rank, g)'
  <2>1. \A i, j \in 1 .. n - 1 : i < j => rank[rest[i].device] < rank[rest[j].device]
    <3> SUFFICES ASSUME NEW i \in 1 .. n - 1, NEW j \in 1 .. n - 1, i < j
                 PROVE  rank[rest[i].device] < rank[rest[j].device]
      OBVIOUS
    <3>1. i + 1 \in 1 .. n /\ j + 1 \in 1 .. n /\ i + 1 < j + 1
      BY <1>3
    <3> QED  BY <1>4, <1>17, <3>1
  <2>2. \A i \in 1 .. k + 1, j \in 1 .. n - 1 : \A a \in Adapters :
          more[i] \in Range(registry'[a]) => rank[a] < rank[rest[j].device]
    <3> SUFFICES ASSUME NEW i \in 1 .. k + 1, NEW j \in 1 .. n - 1, NEW a \in Adapters,
                        more[i] \in Range(registry'[a])
                 PROVE  rank[a] < rank[rest[j].device]
      OBVIOUS
    <3>1. 1 \in 1 .. n /\ j + 1 \in 1 .. n /\ 1 < j + 1 /\ rest[j] = left[j + 1]
      BY <1>3, <1>4
    <3>2. CASE i \in 1 .. k
      <4>1. On(s[i], a)
        BY <1>15, <1>18, <3>2
      <4> QED  BY <1>17, <3>1, <3>2, <4>1
    <3>3. CASE i = k + 1
      <4>1. a = left[1].device
        BY <1>4, <1>15, <1>19, <3>3
      <4> QED  BY <1>17, <3>1, <4>1
    <3> QED  BY <3>2, <3>3
  <2> QED  BY <1>4, <1>9, <1>15, <1>16, <2>1, <2>2 DEF MakeSorted, On
<1>23. \A b \in Contexts : context'[b].devices = context[b].devices \/ Sorted(rank, b)'
  BY <1>16, <1>21
<1>24. \A u \in Threads : \A f \in Calls(u)' : f.op = "make" =>
         \/ f \in Calls(u) /\ context'[f.context].devices = context[f.context].devices
         \/ MakeSorted(rank, f)'
  <2> SUFFICES ASSUME NEW u \in Threads, NEW f \in Calls(u)', f.op = "make", f # g
               PROVE  f \in Calls(u) /\ context'[f.context].devices = context[f.context].devices
    BY <1>22
  <2>1. f \in Calls(u)
    BY <1>10
  <2>2. f.context \in Contexts
    BY <1>0, <2>1, CallsAreFrames, FrameIs
  <2>3. CASE f.context = c
    <3>1. u = t
      <4>1. Making(c)
        BY DEF Inv, ContextsInv, ContextOk
      <4> QED  BY <1>1, <1>2, <2>1, <2>3, <4>1 DEF Making
    <3>2. f = Top(t)
      <4>1. Level(f) = 2 /\ Level(Top(t)) = 2
        BY <1>1 DEF Level
      <4> QED  BY <1>1, <2>1, <3>1, <4>1
    <3>3. Calls(t)' \subseteq (Calls(t) \ {Top(t)}) \cup {g}
      <4>1. Rising(frames[t])
        BY <1>0 DEF Inv, StacksInv
      <4>2. PICK front \in Seq(Frame) : front = Front(frames[t]) /\ Range(front) = Calls(t) \ {Top(t)}
        BY <1>1, <4>1, StackParts DEF Calls, Top
      <4>3. Range(Append(front, g)) = Range(front) \cup {g}
        BY <4>2, StackRanges
      <4>4. frames'[t] = front \/ frames'[t] = Append(front, g)
        BY <1>0, <1>8, <4>2 DEF TypeInv
      <4> QED  BY <4>2, <4>3, <4>4 DEF Calls
    <3> QED  BY <3>1, <3>2, <3>3
  <2> QED  BY <1>16, <2>1, <2>2, <2>3
<1>25. t \in Callers /\ \A x \in D3D : t # Completion(x)
  BY <1>1, CompletionThreads DEF OtherOps
<1> QED  BY <1>11, <1>13, <1>23, <1>24, <1>25, OrderStep

(* A context gives back its first device, and goes on with the others.     *)
LEMMA ContextDestructorOrder ==
  ASSUME Inv, Inv', NEW rank, OrderInv(rank), NEW t \in Threads, ContextDestructor(t)
  PROVE  OrderInv(rank)'
<1>0. Stacks /\ TypeInv /\ TypeInv' /\ StacksInv' /\ DevicesInv
  BY DEF Inv, TypeInv, Stacks
<1>1. /\ frames[t] \in Seq(Frame) /\ frames[t] # <<>> /\ Rising(frames[t]) /\ Top(t) = Last(frames[t])
      /\ Top(t) \in Calls(t) /\ Top(t).op = "destroy" /\ Top(t) \in Frame
      /\ \A f \in Calls(t) \ {Top(t)} : Level(f) < Level(Top(t))
      /\ \A f \in Calls(t) : t \in Callers \/ f.op \in OtherOps
  BY <1>0, TopIs DEF ContextDestructor
<1>2. PICK c \in Contexts, left \in Seq(D3D) : c = Top(t).context /\ left = Top(t).left /\ left # <<>>
  BY <1>1, FrameIs
<1>3. PICK n \in Nat : n = Len(left) /\ n > 0 /\ DOMAIN left = 1 .. n
  BY <1>2
<1>4. PICK d \in D3D, rest \in Seq(D3D) :
        /\ d = Head(left) /\ d = left[1] /\ rest = Tail(left) /\ DOMAIN rest = 1 .. n - 1
        /\ \A i \in 1 .. n - 1 : rest[i] = left[i + 1]
  <2>1. Head(left) \in D3D /\ Tail(left) \in Seq(D3D) /\ Head(left) = left[1] /\ Len(Tail(left)) = n - 1
        /\ \A i \in 1 .. n - 1 : Tail(left)[i] = left[i + 1]
    BY <1>2, <1>3, HeadTailProperties
  <2>2. DOMAIN Tail(left) = 1 .. n - 1
    BY <2>1, LenProperties
  <2> QED  BY <2>1, <2>2
<1>5. PICK g : g = [Top(t) EXCEPT !.left = rest]
  OBVIOUS
<1>6. rest # <<>> => g \in Frame /\ g.op = "destroy" /\ g.context = c /\ g.left = rest /\ Level(g) = 2
  <2>1. Top(t) = [op |-> "destroy", context |-> c, left |-> left]
    BY <1>1, <1>2 DEF Frame
  <2>2. g = [op |-> "destroy", context |-> c, left |-> rest]
    BY <1>5, <2>1
  <2> QED  BY <2>2 DEF Frame, Level
<1>7. PICK front \in Seq(Frame) : front = Front(frames[t]) /\ Rising(front) /\ Range(front) = Calls(t) \ {Top(t)}
  BY <1>1, StackParts DEF Calls
<1>8. /\ \A f \in Range(front) : Level(f) < 2
      /\ \A f : Level(f) \in Nat /\ (f.op = "delete" => Level(f) = 3)
  BY <1>1, <1>7 DEF Level
<1>9. PICK D : D = IF rest = <<>> THEN {} ELSE {g}
  OBVIOUS
<1>10. \A f \in D : f.op = "destroy" /\ f.left = rest /\ Level(f) = 2
  BY <1>6, <1>9
<1>11. PICK below \in Seq(Frame) : /\ below = (IF rest = <<>> THEN front ELSE Append(front, g))
                                   /\ Rising(below) /\ Range(below) = (Calls(t) \ {Top(t)}) \cup D
  <2>1. CASE rest = <<>>
    BY <1>7, <1>9, <2>1
  <2>2. CASE rest # <<>>
    <3>1. \A f \in Range(front) : Level(f) < Level(g)
      BY <1>6, <1>8, <2>2
    <3>2. PICK G \in Seq(Frame) : G = Append(front, g) /\ Rising(G) /\ Range(G) = Range(front) \cup {g}
      BY <1>6, <1>7, <2>2, <3>1, Pushing
    <3> QED  BY <1>7, <1>9, <2>2, <3>2
  <2> QED  BY <2>1, <2>2
<1>12. /\ ReleaseD3D(t, d, below)
       /\ context' = [context EXCEPT ![c].state = "gone", ![c].devices = rest]
  BY <1>2, <1>4, <1>5, <1>7, <1>11 DEF ContextDestructor
<1>13. \A f \in Range(below) : Level(f) < 3 /\ (t \in Callers \/ f.op \in OtherOps)
  BY <1>1, <1>7, <1>8, <1>10, <1>11 DEF OtherOps
<1>14. \A f \in Calls(t) : f.op # "delete"
  BY <1>1, <1>7, <1>8
<1>15. /\ context[c].state \in {"live", "gone"} /\ context[c].devices = left
  BY <1>1, <1>2 DEF Inv, ContextsInv, ContextOk, Destroying
<1>16. d3d[d].count > 0 /\ d3d[d].state # "none"
  <2>1. 1 \in DOMAIN context[c].devices /\ context[c].devices[1] = d
    BY <1>3, <1>4, <1>15
  <2> QED  BY <1>0, <2>1, DevicesCounted, DevicesExist
<1>17. /\ Returns(t, below, d)
       /\ \A x \in D3D : d3d'[x].state = d3d[x].state
       /\ \A x \in D3D : \A b \in Adapters : On(x, b)' => On(x, b)
  BY <1>11, <1>12, <1>13, <1>14, <1>16, ReleaseCalls
<1>18. PICK E : /\ CallsBecome(t, Range(below) \cup E)
                /\ \A f \in E : f.op = "delete" /\ f.d3d = d /\ f.adapter \in Adapters /\ On(d, f.adapter)
  BY <1>17 DEF Returns
<1>19. PICK S : S = Range(below) \cup E /\ CallsBecome(t, S)
  BY <1>18
<1>20. \A f \in S : f \in Calls(t) \/ f \in D \/ f \in E
  BY <1>11, <1>19
<1>21. DevicesStay
  <2>1. \A f \in S : f.op = "delete" => f \in Calls(t) \/ (f.d3d = d /\ On(d, f.adapter))
    BY <1>10, <1>18, <1>20
  <2> QED  BY <1>17, <1>19, <2>1, ReturnStays
<1>22. context'[c].devices = rest /\ \A b \in Contexts : b # c => context'[b] = context[b]
  <2>1. PICK old \in ContextRecord : old = context[c] /\ context \in [Contexts -> ContextRecord]
    BY <1>0 DEF TypeInv
  <2>2. context' = [context EXCEPT ![c] = [old EXCEPT !.state = "gone", !.devices = rest]]
    BY <1>12, <2>1
  <2>3. [old EXCEPT !.state = "gone", !.devices = rest].devices = rest
    BY <2>1 DEF ContextRecord
  <2> QED  BY <2>1, <2>2, <2>3
<1>23. \A i \in 1 .. n : \A a \in Adapters : left[i] \in Range(registry'[a]) => left[i] \in Range(registry[a])
  <2>1. \A i \in 1 .. n : left[i] \in D3D
    BY <1>2, <1>3
  <2> QED  BY <1>17, <2>1 DEF On
<1>24. \A i \in 1 .. n - 1 : i + 1 \in 1 .. n
  BY <1>3
<1>25. Sorted(rank, c)'
  <2>1. \A i, j \in 1 .. n : \A a, b \in Adapters :
          i < j /\ left[i] \in Range(registry[a]) /\ left[j] \in Range(registry[b]) => rank[a] < rank[b]
    BY <1>3, <1>15 DEF OrderInv, Sorted, On
  <2>2. ASSUME NEW i \in 1 .. n - 1, NEW j \in 1 .. n - 1, NEW a \in Adapters, NEW b \in Adapters,
               i < j, rest[i] \in Range(registry'[a]), rest[j] \in Range(registry'[b])
        PROVE  rank[a] < rank[b]
    <3>1. PICK k \in 1 .. n, m \in 1 .. n : k < m /\ rest[i] = left[k] /\ rest[j] = left[m]
      <4>1. i + 1 < j + 1
        BY <2>2
      <4> QED  BY <1>4, <1>24, <4>1
    <3> QED  BY <1>23, <2>1, <2>2, <3>1
  <2> QED  BY <1>4, <1>22, <2>2 DEF Sorted, On
<1>26. \A b \in Contexts : context'[b].devices = context[b].devices \/ Sorted(rank, b)'
  BY <1>22, <1>25
<1>27. \A u \in Threads : \A f \in Calls(u)' : f.op = "make" =>
         f \in Calls(u) /\ context'[f.context].devices = context[f.context].devices
  <2> SUFFICES ASSUME NEW u \in Threads, NEW f \in Calls(u)', f.op = "make"
               PROVE  f \in Calls(u) /\ context'[f.context].devices = context[f.context].devices
    OBVIOUS
  <2>1. f \in Calls(u)
    BY <1>10, <1>18, <1>19, <1>20 DEF CallsBecome
  <2>2. f.context \in Contexts
    BY <1>0, <2>1, CallsAreFrames, FrameIs
  <2>3. f.context # c
    BY <1>15, <2>1, <2>2 DEF Inv, ContextsInv, ContextOk, Making
  <2> QED  BY <1>22, <2>1, <2>2, <2>3
<1>28. ASSUME NEW x \in D3D, t = Completion(x), NEW f \in S, f \notin Calls(t) PROVE Behind(rank, x, f)'
  <2>1. Behind(rank, x, Top(t))
    BY <1>1, <1>28 DEF OrderInv
  <2>2. /\ d3d[x].state # "none" /\ d3d'[x].state # "none"
        /\ x \notin Range(left) => \A j \in 1 .. n : \A a, b \in Adapters :
             Homed(x, a) /\ left[j] \in Range(registry[b]) => rank[a] < rank[b]
    BY <1>1, <1>2, <1>3, <1>17, <2>1 DEF Behind, On
  <2>3. \A a \in Adapters : Homed(x, a)' => Homed(x, a)
    BY <1>21, <2>2 DEF DevicesStay
  <2>4. x \in Range(left) => x = d \/ (rest # <<>> /\ x \in Range(rest))
    <3>1. ASSUME NEW i \in 1 .. n, x = left[i], x # d PROVE rest # <<>> /\ x \in Range(rest)
      <4>1. PICK k \in 1 .. n - 1 : i = k + 1
        <5>1. i # 1 /\ i - 1 \in 1 .. n - 1 /\ i = (i - 1) + 1
          BY <1>3, <1>4, <3>1
        <5> QED  BY <5>1
      <4>2. rest[k] = x
        BY <1>4, <3>1, <4>1
      <4>3. k \in DOMAIN rest
        BY <1>4
      <4>4. rest # <<>>
        BY <4>3
      <4> QED  BY <4>2, <4>3, <4>4 DEF Range
    <3> QED  BY <1>3, <3>1 DEF Range
  <2>5. ASSUME x = d, NEW j \in 1 .. n - 1, NEW a \in Adapters, NEW b \in Adapters,
               Homed(x, a), rest[j] \in Range(registry[b])
        PROVE  rank[a] < rank[b]
    <3>1. left[1] \in Range(registry[a])
      BY <1>0, <1>4, <1>16, <2>5 DEF Homed, On, DevicesInv, DeleteInv
    <3>2. 1 \in 1 .. n /\ j + 1 \in 1 .. n /\ 1 < j + 1 /\ rest[j] = left[j + 1]
      BY <1>3, <1>4
    <3>3. \A k, m \in 1 .. n : \A y, z \in Adapters :
            k < m /\ left[k] \in Range(registry[y]) /\ left[m] \in Range(registry[z]) => rank[y] < rank[z]
      BY <1>3, <1>15 DEF OrderInv, Sorted, On
    <3> QED  BY <2>5, <3>1, <3>2, <3>3
  <2>6. CASE f \in D
    <3>1. f.op = "destroy" /\ f.left = rest /\ rest # <<>>
      BY <1>9, <1>10, <2>6
    <3>2. ASSUME x \notin Range(rest), NEW j \in 1 .. n - 1, NEW a \in Adapters, NEW b \in Adapters,
                 Homed(x, a)', rest[j] \in Range(registry'[b])
          PROVE  rank[a] < rank[b]
      <4>1. PICK m \in 1 .. n : rest[j] = left[m]
        BY <1>4, <1>24
      <4>2. Homed(x, a) /\ rest[j] \in Range(registry[b])
        BY <1>23, <2>3, <3>2, <4>1
      <4>3. CASE x = d
        BY <2>5, <4>2, <4>3
      <4>4. CASE x \notin Range(left)
        BY <2>2, <4>1, <4>2, <4>4
      <4> QED  BY <2>4, <3>2, <4>3, <4>4
    <3> QED  BY <1>4, <2>2, <3>1, <3>2 DEF Behind, On
  <2>7. CASE f \in E
    <3>1. f.op = "delete" /\ f.d3d = d /\ f.adapter \in Adapters /\ left[1] \in Range(registry[f.adapter]) /\ 1 \in 1 .. n
      BY <1>3, <1>4, <1>18, <2>7 DEF On
    <3>2. CASE x \notin Range(left)
      <4>1. \A a \in Adapters : Homed(x, a)' => rank[a] < rank[f.adapter]
        BY <2>2, <2>3, <3>1, <3>2
      <4> QED  BY <2>2, <3>1, <4>1 DEF Behind
    <3>3. CASE rest # <<>> /\ x \in Range(rest)
      <4>1. g \in S /\ g.op = "destroy" /\ g.left = rest
        BY <1>6, <1>9, <1>11, <1>19, <3>3
      <4>2. Calls(t)' = S
        BY <1>19 DEF CallsBecome
      <4>3. Spares(x)'
        BY <1>28, <3>3, <4>1, <4>2 DEF Spares
      <4> QED  BY <2>2, <3>1, <4>3 DEF Behind
    <3> QED  BY <2>2, <2>4, <3>1, <3>2, <3>3 DEF Behind
  <2> QED  BY <1>20, <1>28, <2>6, <2>7
<1>29. \A x \in D3D : t = Completion(x) => \A f \in S : f \in Calls(t) \/ Behind(rank, x, f)'
  BY <1>28
<1> QED  BY <1>14, <1>19, <1>21, <1>26, <1>27, <1>29, OrderStep

(* All of this holds at first, ...                                         *)
LEMMA InitOrder ==
  ASSUME Init, NEW rank
  PROVE  OrderInv(rank)
<1>1. \A c \in Contexts : DOMAIN context[c].devices = {}
  BY DEF Init
<1>2. \A t \in Threads : Calls(t) = {}
  BY DEF Init, Calls, Range
<1>3. \A d \in D3D : Calls(Completion(d)) = {}
  BY <1>2, CompletionThreads
<1> QED  BY <1>1, <1>2, <1>3 DEF OrderInv, Sorted

(* ... and after every step.                                               *)
LEMMA NextOrder ==
  ASSUME Inv, Inv', NEW rank, Ranks(rank), OrderInv(rank), [Next]_vars
  PROVE  OrderInv(rank)'
<1>1. ASSUME NEW t \in Threads, Step(t) PROVE OrderInv(rank)'
  BY <1>1, DeleteD3DOrder, TimerReturnsOrder, ContextInitOrder, ContextDestructorOrder, StepsKeepOrder,
     EventsGoInOrder DEF Step
<1>2. ASSUME NEW t \in Threads, ContextInitThrows(t) PROVE OrderInv(rank)'
  BY <1>2, ContextInitThrowsOrder
<1>3. ASSUME NEW t \in Callers, Uses(t) PROVE OrderInv(rank)'
  <2>1. ASSUME NEW c \in Contexts, clReleaseContext(t, c) PROVE OrderInv(rank)'
    BY <2>1, clReleaseContextOrder
  <2> QED  BY <1>3, <2>1, CallsKeepOrder DEF Uses
<1>4. ASSUME NEW t \in Apps, Creates(t) PROVE OrderInv(rank)'
  <2>0. t \in Callers
    BY DEF Callers
  <2>1. ASSUME NEW a \in Adapters, clGetDeviceAndHostTimer(t, a) PROVE OrderInv(rank)'
    BY <2>0, <2>1, TimerOrder
  <2>2. ASSUME NEW c \in Contexts, clCreateContext(t, c) PROVE OrderInv(rank)'
    BY <2>0, <2>2, clCreateContextOrder
  <2> QED  BY <1>4, <2>0, <2>1, <2>2, CallsKeepOrder DEF Creates
<1>5. ASSUME NEW d \in D3D, Finish(d) PROVE OrderInv(rank)'
  BY <1>5, StepsKeepOrder, EventsGoInOrder DEF Finish
<1>6. ASSUME NEW e \in Commands, CompletionBegins(e) PROVE OrderInv(rank)'
  BY <1>6, StepsKeepOrder
<1>7. CASE BeginCallback \/ EndCallback
  BY <1>7, StepsKeepOrder
<1>8. CASE UNCHANGED vars
  <2>1. registry' = registry /\ d3d' = d3d /\ context' = context /\ frames' = frames
    BY <1>8 DEF vars
  <2>2. PICK t \in Threads : t = CallbackThread
    BY SomeThread
  <2>3. PICK S : S = Calls(t) /\ CallsBecome(t, S)
    BY <2>1, <2>2, NoCall DEF Inv, TypeInv, Stacks
  <2>4. t \in Callers /\ \A d \in D3D : t # Completion(d)
    BY <2>2, SomeThread, CompletionThreads
  <2> QED  BY <2>1, <2>3, <2>4, OrderKept
<1> QED  BY <1>1, <1>2, <1>3, <1>4, <1>5, <1>6, <1>7, <1>8 DEF Next

-----------------------------------------------------------------------------
(* Nobody waits in a circle                                                *)

(* The device that is counted is in the list of one adapter.               *)
LEMMA CountedIsOn ==
  ASSUME Inv, NEW d \in D3D, d3d[d].count > 0
  PROVE  AdapterOf(d) \in Adapters /\ On(d, AdapterOf(d))
<1>1. \E a \in Adapters : d \in Range(registry[a])
  BY DEF Inv, DevicesInv, RegistryInv, On
<1> QED  BY <1>1 DEF AdapterOf, On

(* Who has the lock of an adapter deletes a device of it.                  *)
LEMMA LockHolders ==
  ASSUME Inv, NEW a \in Adapters, NEW u \in Threads, initLock[a] = u
  PROVE  In(u, "delete") /\ Top(u).adapter = a
<1>1. Stacks /\ u # Nothing /\ frames[u] \in Seq(Frame) /\ Rising(frames[u])
  BY LifetimesAssumption DEF Inv, TypeInv, Stacks, StacksInv
<1>2. PICK f \in Calls(u) : f.op = "delete" /\ f.adapter = a
  BY <1>1 DEF Inv, DevicesInv, DeleteInv
<1>3. frames[u] # <<>>
  BY <1>2 DEF Calls, Range
<1>4. \A g \in Calls(u) \ {Last(frames[u])} : Level(g) < Level(Last(frames[u]))
  BY <1>1, <1>3, StackParts DEF Calls
<1>5. Level(f) = 3 /\ \A g : ~(3 < Level(g))
  BY <1>2 DEF Level
<1>6. f = Last(frames[u])
  BY <1>2, <1>4, <1>5
<1> QED  BY <1>2, <1>3, <1>6 DEF In, Top

\* In S, t deletes a device of adapter a.
Deletes(S, t, a) == t \in S /\ In(t, "delete") /\ Top(t).adapter = a

(* A thread that waits for a thread in S, and what for.                    *)
LEMMA WaitsForLock ==
  ASSUME Inv, NEW S \in SUBSET Threads, NEW t \in Threads, frames[t] # <<>>, WaitsFor(t) \in S,
         Top(t).op \notin {"delete", "set"}
  PROVE  \E u \in Threads, a \in Adapters :
           Deletes(S, u, a) /\ (Top(t).op = "destroy" => On(Top(t).left[1], a))
<1>0. TypeInv /\ Nothing \notin S
  BY LifetimesAssumption DEF Inv
<1>1. Top(t) \in Calls(t) /\ Top(t) \in Frame
  <2>1. frames[t] \in Seq(Frame) /\ Rising(frames[t])
    BY <1>0 DEF TypeInv, Inv, StacksInv
  <2> QED  BY <2>1, StackParts DEF Top, Calls
<1>2. ASSUME NEW a \in Adapters, initLock[a] \in S
      PROVE  \E u \in Threads : Deletes(S, u, a)
  <2>1. PICK u \in Threads : u = initLock[a]
    BY <1>2
  <2> QED  BY <1>2, <2>1, LockHolders DEF Deletes
<1>3. CASE Top(t).op = "make"
  <2>1. PICK left \in Seq(Asked) : left = Top(t).left /\ left # <<>>
    BY <1>1, <1>3, FrameIs
  <2>2. Head(left) \in Asked
    BY <2>1, HeadTailProperties
  <2>3. PICK a \in Adapters : a = Head(left).device
    BY <2>2 DEF Adapters
  <2>4. initLock[a] \in S
    BY <1>3, <2>1, <2>3 DEF WaitsFor
  <2> QED  BY <1>2, <1>3, <2>4
<1>4. CASE Top(t).op = "timer"
  <2>1. PICK d \in D3D : d = Top(t).d3d /\ d3d[d].count > 0
    BY <1>1, <1>4, TimersCounted
  <2>2. PICK a \in Adapters : a = AdapterOf(d)
    BY <2>1, CountedIsOn
  <2>3. initLock[a] \in S
    BY <1>4, <2>1, <2>2 DEF WaitsFor
  <2> QED  BY <1>2, <1>4, <2>3
<1>5. CASE Top(t).op = "destroy"
  <2>1. PICK left \in Seq(D3D), c \in Contexts : left = Top(t).left /\ left # <<>> /\ c = Top(t).context
    BY <1>1, <1>5, FrameIs
  <2>2. context[c].devices = left
    BY <1>1, <1>5, <2>1 DEF Inv, ContextsInv, ContextOk, Destroying
  <2>3. 1 \in DOMAIN left /\ Head(left) = left[1]
    BY <2>1, HeadTailProperties
  <2>4. PICK d \in D3D : d = left[1] /\ d3d[d].count > 0
    BY <1>0, <2>2, <2>3, DevicesCounted DEF Inv
  <2>5. PICK a \in Adapters : a = AdapterOf(d) /\ On(d, a)
    BY <2>4, CountedIsOn
  <2>6. initLock[a] \in S
    BY <1>5, <2>1, <2>3, <2>4, <2>5 DEF WaitsFor
  <2>7. On(Top(t).left[1], a)
    BY <2>1, <2>4, <2>5
  <2> QED  BY <1>2, <2>6, <2>7
<1>6. CASE Top(t).op = "handler"
  <2>1. PICK left \in Seq(Adapters) : left = Top(t).left
    BY <1>1, <1>6, FrameIs
  <2>2. left # <<>>
    BY <1>0, <1>6, <2>1 DEF WaitsFor
  <2>3. PICK a \in Adapters : a = Head(left)
    BY <2>2, HeadTailProperties
  <2>4. initLock[a] \in S
    BY <1>6, <2>1, <2>2, <2>3 DEF WaitsFor
  <2> QED  BY <1>2, <1>6, <2>4
<1>7. CASE Top(t).op \in {"release", "callback"}
  BY <1>0, <1>7 DEF WaitsFor
<1>8. Top(t).op \in {"delete", "timer", "make", "destroy", "set", "release", "handler", "callback"}
  BY <1>1 DEF Frame
<1> QED  BY <1>3, <1>4, <1>5, <1>6, <1>7, <1>8

(* A D3D device that is deleted is not in a context.                       *)
LEMMA DeletedIsLeft ==
  ASSUME Inv, NEW t \in Threads, NEW f \in Calls(t), f.op = "delete",
         NEW c \in Contexts, NEW i \in DOMAIN context[c].devices
  PROVE  context[c].devices[i] # f.d3d
BY DevicesCounted DEF Inv, DevicesInv, DeleteInv

(* Behind a thread that deletes a device there is one that deletes a       *)
(* device of a later adapter, where each waits for another.                *)
LEMMA DeletesOneBehind ==
  ASSUME Inv, NEW rank, OrderInv(rank), NEW S \in SUBSET {t \in Threads : frames[t] # <<>>},
         \A t \in S : WaitsFor(t) \in S, NEW t, NEW a, Deletes(S, t, a)
  PROVE  \E u \in Threads, b \in Adapters : Deletes(S, u, b) /\ rank[a] < rank[b]
<1>0. TypeInv /\ Nothing \notin S /\ t \in Threads /\ Stacks
  BY LifetimesAssumption DEF Inv, TypeInv, Stacks, Deletes
<1>1. Top(t) \in Calls(t) /\ Top(t).op = "delete" /\ Top(t) \in Frame /\ frames[t] # <<>>
  BY <1>0, TopIs DEF Deletes
<1>2. PICK d \in D3D : d = Top(t).d3d
  BY <1>1, FrameIs
<1>3. a \in Adapters /\ Homed(d, a)
  BY <1>0, <1>1, <1>2, FrameIs DEF Deletes, Homed
<1>4. PICK u \in Threads : u = Completion(d) /\ u \in S /\ frames[u] # <<>> /\ u \notin Callers
  <2>1. t # Completion(d) /\ Completion(d) \in S
    BY <1>0, <1>1, <1>2 DEF WaitsFor, Deletes
  <2> QED  BY <2>1, CompletionThreads
<1>5. Top(u) \in Calls(u) /\ Top(u) \in Frame /\ Top(u).op \in OtherOps
  <2>1. frames[u] \in Seq(Frame) /\ Rising(frames[u]) /\ \A f \in Calls(u) : u \in Callers \/ f.op \in OtherOps
    BY <1>0 DEF TypeInv, Inv, StacksInv, OtherOps
  <2>2. Last(frames[u]) \in Calls(u) /\ Last(frames[u]) \in Frame
    BY <1>4, <2>1, StackParts DEF Calls
  <2> QED  BY <1>4, <2>1, <2>2 DEF Top
<1>6. Behind(rank, d, Top(u))
  BY <1>4, <1>5 DEF OrderInv
<1>7. CASE Top(u).op = "handler"
  <2>1. PICK e \in Commands : e = Top(u).event
    BY <1>5, <1>7, FrameIs
  <2>2. e \in Events /\ EventOk(e) /\ Handled(e)
    BY <1>5, <1>7, <2>1 DEF Events, Inv, EventsInv, Handled
  <2>3. Completion(event[e].d3d) = u /\ event[e].state \notin {"none", "gone"}
    BY <1>5, <1>7, <2>1, <2>2 DEF EventOk, Handling, EventCounts
  <2>4. PICK c \in Contexts : \E i \in DOMAIN context[c].devices : context[c].devices[i] = event[e].d3d
    BY <1>0, <2>1, <2>2, <2>3, RunsOn
  <2>5. event[e].d3d = d
    BY <1>4, <2>3 DEF Completion
  <2> QED  BY <1>0, <1>1, <1>2, <2>4, <2>5, DeletedIsLeft
<1>8. CASE Top(u).op = "destroy"
  <2>1. PICK left \in Seq(D3D), c \in Contexts : left = Top(u).left /\ left # <<>> /\ c = Top(u).context
    BY <1>5, <1>8, FrameIs
  <2>2. 1 \in DOMAIN left /\ context[c].devices = left
    BY <1>5, <1>8, <2>1 DEF Inv, ContextsInv, ContextOk, Destroying
  <2>3. d \notin Range(left)
    BY <1>0, <1>1, <1>2, <2>2, DeletedIsLeft DEF Range
  <2>4. WaitsFor(u) \in S /\ Top(u).op \notin {"delete", "set"}
    BY <1>4, <1>8
  <2>5. PICK v \in Threads, b \in Adapters : Deletes(S, v, b) /\ On(left[1], b)
    BY <1>4, <1>8, <2>1, <2>4, WaitsForLock
  <2>6. rank[a] < rank[b]
    BY <1>3, <1>6, <1>8, <2>1, <2>2, <2>3, <2>5 DEF Behind
  <2> QED  BY <2>5, <2>6
<1>9. CASE Top(u).op = "delete"
  <2>1. Top(u).d3d # d
    BY <1>0, <1>4, <1>9 DEF WaitsFor
  <2>2. ~Spares(d)
    <3>1. ASSUME NEW g \in Calls(u), g.op = "destroy", d \in Range(g.left) PROVE FALSE
      <4>1. PICK c \in Contexts : c = g.context
        BY <1>0, <3>1, CallsAreFrames, FrameIs
      <4>2. context[c].devices = g.left
        BY <3>1, <4>1 DEF Inv, ContextsInv, ContextOk, Destroying
      <4> QED  BY <1>0, <1>1, <1>2, <3>1, <4>2, DeletedIsLeft DEF Range
    <3> QED  BY <1>4, <3>1 DEF Spares
  <2>3. rank[a] < rank[Top(u).adapter]
    BY <1>3, <1>6, <1>9, <2>1, <2>2 DEF Behind
  <2>4. Deletes(S, u, Top(u).adapter) /\ Top(u).adapter \in Adapters
    BY <1>4, <1>5, <1>9, FrameIs DEF Deletes, In, Top
  <2> QED  BY <2>3, <2>4
<1> QED  BY <1>5, <1>7, <1>8, <1>9 DEF OtherOps

(* A set of numbers up to n has a largest one.                             *)
LEMMA Largest ==
  ASSUME NEW n \in Nat, NEW T \in SUBSET (1 .. n), T # {}
  PROVE  \E x \in T : \A y \in T : y <= x
<1>1. PICK R : R = {n - x : x \in T}
  OBVIOUS
<1>2. R \in SUBSET Nat /\ R # {}
  <2>1. \A x \in 1 .. n : n - x \in Nat
    OBVIOUS
  <2>2. \A x \in T : n - x \in R
    BY <1>1
  <2> QED  BY <1>1, <2>1, <2>2
<1>3. PICK r \in R : \A q \in R : r <= q
  BY <1>2, Smallest
<1>4. PICK x \in T : r = n - x
  BY <1>1, <1>3
<1>5. \A y \in T : n - x <= n - y
  BY <1>1, <1>3, <1>4
<1> QED  BY <1>4, <1>5

(* Where contexts name their devices in one order, threads never wait in   *)
(* a circle (device.cpp:373-420 and 595-655, context.cpp:655-682,          *)
(* scheduler.cpp:340-360): locks of devices are taken under the task pool  *)
(* lock, and held where threads are joined that take them.                 *)
THEOREM NoneWaitInACircle == Spec => []NoCircle
<1>1. ASSUME Inv, NEW rank \in [Adapters -> 1 .. Cardinality(Adapters)], OrderInv(rank),
             NEW S \in SUBSET {t \in Threads : frames[t] # <<>>}, S # {}, \A t \in S : WaitsFor(t) \in S
      PROVE  FALSE
  <2>0. TypeInv /\ Stacks /\ S \in SUBSET Threads /\ Nothing \notin S
    BY <1>1, LifetimesAssumption DEF Inv, TypeInv, Stacks
  <2>1. PICK n \in Nat : n = Cardinality(Adapters)
    BY LifetimesAssumption, FS_CardinalityType
  <2>2. PICK T : T = {rank[a] : a \in {b \in Adapters : \E t \in Threads : Deletes(S, t, b)}}
    OBVIOUS
  <2>3. T \in SUBSET (1 .. n)
    BY <1>1, <2>1, <2>2
  <2>4. T # {}
    <3>1. PICK t \in S : t \in Threads /\ frames[t] # <<>> /\ WaitsFor(t) \in S
      BY <1>1
    <3>2. ASSUME NEW u \in S, Top(u).op # "set" PROVE \E v \in Threads, a \in Adapters : Deletes(S, v, a)
      <4>1. u \in Threads /\ frames[u] # <<>> /\ WaitsFor(u) \in S
        BY <1>1
      <4>2. CASE Top(u).op = "delete"
        <5>1. Top(u) \in Frame
          <6>1. In(u, "delete")
            BY <4>1, <4>2 DEF In, Top
          <6> QED  BY <2>0, <4>1, <6>1, TopIs
        <5>2. Deletes(S, u, Top(u).adapter) /\ Top(u).adapter \in Adapters
          BY <4>1, <4>2, <5>1, FrameIs DEF Deletes, In, Top
        <5> QED  BY <4>1, <5>2
      <4>3. CASE Top(u).op # "delete"
        BY <1>1, <2>0, <3>2, <4>1, <4>3, WaitsForLock
      <4> QED  BY <4>2, <4>3
    <3>3. CASE Top(t).op = "set"
      <4>1. PICK u \in S : u = taskLock /\ u # Nothing /\ u \in Threads /\ frames[u] # <<>>
        BY <1>1, <2>0, <3>1, <3>3 DEF WaitsFor
      <4>2. PICK f \in Calls(u) : f.op = "handler" /\ f \in Frame
        BY <2>0, <4>1, CallsAreFrames, <1>1 DEF Inv, LockInv
      <4>3. u \notin Callers
        <5>1. PICK e \in Commands : e = f.event
          BY <4>2, FrameIs
        <5>2. u = Completion(event[e].d3d)
          BY <1>1, <4>1, <4>2, <5>1 DEF Events, Inv, EventsInv, EventOk, Handling
        <5> QED  BY <5>2 DEF Callers, Apps, CallbackThread, Completion
      <4>4. Top(u).op # "set"
        <5>1. Rising(frames[u]) /\ frames[u] \in Seq(Frame) /\ \A g \in Calls(u) : g.op \in OtherOps
          BY <1>1, <2>0, <4>1, <4>3 DEF TypeInv, Inv, StacksInv, OtherOps
        <5>2. Top(u) \in Calls(u)
          BY <4>1, <5>1, StackParts DEF Top, Calls
        <5> QED  BY <5>1, <5>2 DEF OtherOps
      <4> QED  BY <2>2, <3>2, <4>4
    <3> QED  BY <2>2, <3>2, <3>3
  <2>5. PICK x \in T : \A y \in T : y <= x
    BY <2>1, <2>3, <2>4, Largest
  <2>6. PICK a \in Adapters, t \in Threads : x = rank[a] /\ Deletes(S, t, a)
    BY <2>2, <2>5
  <2>7. PICK b \in Adapters, u \in Threads : Deletes(S, u, b) /\ rank[a] < rank[b]
    BY <1>1, <2>6, DeletesOneBehind
  <2>8. rank[b] \in T /\ rank[a] \in 1 .. n /\ rank[b] \in 1 .. n
    BY <1>1, <2>1, <2>2, <2>7
  <2>9. rank[b] <= rank[a]
    BY <2>5, <2>6, <2>8
  <2> QED  BY <2>7, <2>8, <2>9
<1>2. CASE InOneOrder
  <2>1. PICK rank \in [Adapters -> 1 .. Cardinality(Adapters)] : Ranks(rank)
    BY <1>2 DEF InOneOrder, Ranks
  <2>2. Init => OrderInv(rank)
    BY InitOrder
  <2>3. Inv /\ Inv' /\ OrderInv(rank) /\ [Next]_vars => OrderInv(rank)'
    BY <2>1, NextOrder
  <2>4. Inv /\ OrderInv(rank) => NoCircle
    BY <1>1 DEF NoCircle
  <2> QED  BY <2>2, <2>3, <2>4, Invariance, PTL DEF Spec
<1>3. CASE ~InOneOrder
  <2>1. NoCircle
    BY <1>3 DEF NoCircle
  <2> QED  BY <2>1, PTL
<1> QED  BY <1>2, <1>3
=============================================================================
