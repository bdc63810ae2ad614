------------------------ MODULE CommandLists_proofs -------------------------
(***************************************************************************)
(* What the application reads or writes through a map no list of the       *)
(* device is using any longer, and dispatches stay whole, for any number   *)
(* of pieces of memory, threads and lists.                                 *)
(***************************************************************************)
EXTENDS CommandLists, SequenceTheorems, WellFoundedInduction, TLAPS

-----------------------------------------------------------------------------
(* The inductive invariant                                                 *)

Frame ==
  [op : {"wait"}, value : Int, state : {"called", "submitted", "registered", "blocked"}]
  \cup [op : {"retrieve"}]
  \cup [op : {"alloc"}, kind : {"block", "object"}]
  \cup [op : {"alloc"}, kind : {"heap"}, seen : Int]
  \cup [op : {"fallback"}, sync : Int]
  \cup [op : {"dispatch"}, item : Memory, list : Int]
  \cup [op : {"map"}, item : Memory, reads : BOOLEAN]

LivePiece == [state : {"live"}, kind : {"block", "object", "heap"}, last : Nat, written : Nat]
Fields == {"allocator", "uses", "writes", "slots", "torn"}
AnyHeap == Heaps \cup {NoHeap}
Returned(S) == [item : S, last : 0 .. nextID - 1]

NumbersInv == nextID \in 1 .. MaxLists /\ completed \in Nat /\ completed < nextID /\ pressed \subseteq Nat
ListsType == DOMAIN lists = 1 .. MaxLists /\ \A n \in 1 .. MaxLists : DOMAIN lists[n] = Fields
PoolType == \E S : pool \in Seq(Returned(S))
MemoryType ==
  /\ memory \in [Memory -> {Free, Retired} \cup LivePiece]
  /\ retired \in [Queues -> Seq([item : Memory \cup {NoHeap}, last : Nat])]
HeapType ==
  /\ DOMAIN heap = {"in", "desc", "ring", "pool"}
  /\ heap.in \in AnyHeap /\ heap.pool \in Seq([item : AnyHeap, last : Int])
FramesType == frames \in [Threads -> Seq(Frame)]

TypeInv == NumbersInv /\ ListsType /\ PoolType /\ MemoryType /\ HeapType /\ FramesType

\* What follows what on a stack: a list is submitted in between only from a
\* wait for the resource that is mapped, or because memory has run out.
StackInv(F, next) ==
  \A i \in DOMAIN F :
    /\ F[i].op = "wait" =>
         /\ i > 1 /\ F[i - 1].op \in {"map", "fallback", "retrieve"}
         /\ F[i - 1].op = "retrieve" => F[i].value < next
    /\ F[i].op \in {"map", "dispatch"} => i = 1
    /\ F[i].op = "retrieve" => Len(F) <= i + 1
    /\ i > 1 /\ F[i - 1].op = "retrieve" => F[i].op = "wait"

\* An allocator for the list that comes next has yet to be taken.
Owes(F) == \E i \in DOMAIN F : F[i].op = "retrieve"

Base(op) == frames[Exec] # <<>> /\ frames[Exec][1].op = op
Bottom == frames[Exec][1]

\* A buffer that list n uses, or writes, is marked for it, or waits for it
\* to be over before it is destroyed.
Awaits(m, n) == \E q \in Queues : \E i \in DOMAIN retired[q] :
                  retired[q][i].item = m /\ retired[q][i].last >= n
Marked(m, n) == (memory[m].state = "live" /\ memory[m].last >= n) \/ Awaits(m, n)
MarkedWritten(m, n) ==
  (memory[m].state = "live" /\ memory[m].last >= n /\ memory[m].written >= n) \/ Awaits(m, n)

UsesInv ==
  \A n \in completed + 1 .. nextID : \A m \in Buffers :
    (m \in lists[n].uses => Marked(m, n)) /\ (m \in lists[n].writes => MarkedWritten(m, n))
RetiredInv ==
  \A q \in Queues : \A i \in DOMAIN retired[q] :
    retired[q][i].item \in Buffers => memory[retired[q][i].item].state = "retired"
LaterInv ==
  \A n \in nextID + 1 .. MaxLists : lists[n].uses = {} /\ lists[n].writes = {} /\ ~lists[n].torn

Pressed == \E p \in pressed : p < nextID

\* The resource of a dispatch stays marked for the list it was begun in.
DispatchInv ==
  Base("dispatch") =>
    /\ Bottom.item \in Buffers /\ memory[Bottom.item].state = "live"
    /\ Bottom.list = nextID =>
         memory[Bottom.item].last = nextID /\ memory[Bottom.item].written = nextID
    /\ Bottom.list <= nextID /\ (Bottom.list = nextID \/ Pressed)

\* What a map has yet to wait for.
MapInv ==
  Base("map") /\ ~early =>
    /\ Bottom.item \in Buffers
    /\ \A n \in completed + 1 .. nextID :
         Bottom.item \in lists[n].writes \/ (~Bottom.reads /\ Bottom.item \in lists[n].uses) =>
           Len(frames[Exec]) > 1 /\ frames[Exec][2].op = "wait" /\ n <= frames[Exec][2].value

Inv ==
  /\ TypeInv /\ StackInv(frames[Exec], nextID) /\ (Owes(frames[Exec]) => pool # <<>>)
  /\ UsesInv /\ RetiredInv /\ LaterInv
  /\ DispatchInv /\ MapInv /\ DispatchesWhole

-----------------------------------------------------------------------------
(* Stacks                                                                  *)

(* The innermost frame and those below it.                                 *)
LEMMA StackParts ==
  ASSUME NEW F \in Seq(Frame), F # <<>>
  PROVE  /\ Len(F) \in Nat /\ Len(F) > 0 /\ DOMAIN F = 1 .. Len(F)
         /\ Last(F) = F[Len(F)] /\ Last(F) \in Frame
         /\ Front(F) \in Seq(Frame) /\ Len(Front(F)) = Len(F) - 1
         /\ DOMAIN Front(F) = 1 .. Len(F) - 1
         /\ \A i \in 1 .. Len(F) - 1 : Front(F)[i] = F[i]
<1>1. PICK n \in Nat : n = Len(F) /\ n > 0 /\ DOMAIN F = 1 .. n
  OBVIOUS
<1>2. PICK G : G = SubSeq(F, 1, n - 1)
  OBVIOUS
<1>3. n - 1 \in 0 .. n /\ 1 \in 1 .. (n - 1) + 1
  BY <1>1
<1>4. G \in Seq(Frame) /\ Len(G) = n - 1 /\ \A i \in 1 .. n - 1 : G[i] = F[i]
  BY <1>1, <1>2, <1>3, SubSeqProperties
<1>5. DOMAIN G = 1 .. n - 1
  BY <1>4, LenProperties
<1>6. Last(F) = F[n] /\ F[n] \in Frame
  BY <1>1 DEF Last
<1> QED  BY <1>1, <1>2, <1>4, <1>5, <1>6 DEF Front

(* The fields of frames.                                                   *)
LEMMA FrameIs ==
  ASSUME NEW f \in Frame
  PROVE  /\ f.op = "wait" => f.value \in Int
         /\ f.op = "dispatch" => f.item \in Memory /\ f.list \in Int
         /\ f.op = "map" => f.item \in Memory /\ f.reads \in BOOLEAN
BY DEF Frame

(* Frames that are put on a stack.                                         *)
LEMMA Stacked ==
  ASSUME NEW F \in Seq(Frame), NEW G \in Seq(Frame), NEW next, StackInv(F, next), StackInv(G, next),
         F # <<>> => \A i \in DOMAIN G : G[i].op \notin {"map", "dispatch"}, ~Owes(F)
  PROVE  /\ F \o G \in Seq(Frame) /\ StackInv(F \o G, next) /\ Len(F \o G) = Len(F) + Len(G)
         /\ \A i \in DOMAIN F : (F \o G)[i] = F[i]
<1>1. PICK m \in Nat : m = Len(F) /\ DOMAIN F = 1 .. m
  OBVIOUS
<1>2. PICK n \in Nat : n = Len(G) /\ DOMAIN G = 1 .. n
  OBVIOUS
<1>3. PICK H : H = F \o G
  OBVIOUS
<1>4. /\ H \in Seq(Frame) /\ Len(H) = m + n
      /\ \A i \in 1 .. m + n : H[i] = IF i <= m THEN F[i] ELSE G[i - m]
  BY <1>1, <1>2, <1>3, ConcatProperties
<1>5. DOMAIN H = 1 .. m + n
  BY <1>4, LenProperties
<1>6. \A i \in 1 .. m : H[i] = F[i]
  BY <1>4
<1>7. \A i \in 1 .. n : H[m + i] = G[i]
  <2> TAKE i \in 1 .. n
  <2>1. m + i \in 1 .. m + n /\ ~(m + i <= m) /\ (m + i) - m = i
    OBVIOUS
  <2> QED  BY <1>4, <2>1
<1>8. ASSUME NEW i \in DOMAIN H
      PROVE  /\ H[i].op = "wait" =>
                  /\ i > 1 /\ H[i - 1].op \in {"map", "fallback", "retrieve"}
                  /\ H[i - 1].op = "retrieve" => H[i].value < next
             /\ H[i].op \in {"map", "dispatch"} => i = 1
             /\ H[i].op = "retrieve" => Len(H) <= i + 1
             /\ i > 1 /\ H[i - 1].op = "retrieve" => H[i].op = "wait"
  <2>1. CASE i \in 1 .. m
    <3>1. i > 1 => i - 1 \in 1 .. m
      BY <2>1
    <3>2. \A j \in 1 .. m : F[j].op # "retrieve"
      BY <1>1 DEF Owes
    <3> QED  BY <1>1, <1>6, <2>1, <3>1, <3>2 DEF StackInv
  <2>2. CASE i \notin 1 .. m
    <3>1. PICK k \in 1 .. n : i = m + k
      <4>1. i - m \in 1 .. n /\ i = m + (i - m)
        BY <1>5, <2>2
      <4> QED  BY <4>1
    <3>2. H[i] = G[k]
      BY <1>7, <3>1
    <3>3. k > 1 => k - 1 \in 1 .. n /\ H[i - 1] = G[k - 1] /\ i > 1
      <4> SUFFICES ASSUME k > 1 PROVE k - 1 \in 1 .. n /\ H[i - 1] = G[k - 1] /\ i > 1
        OBVIOUS
      <4>1. k - 1 \in 1 .. n /\ i - 1 = m + (k - 1) /\ i > 1
        BY <3>1
      <4> QED  BY <1>7, <4>1
    <3>4. H[i].op \in {"map", "dispatch"} => k = 1 /\ m = 0
      <4>1. m # 0 => F # <<>>
        BY <1>1
      <4> QED  BY <1>2, <3>2, <4>1 DEF StackInv
    <3>5. H[i].op = "retrieve" => Len(H) <= i + 1
      <4>1. G[k].op = "retrieve" => n <= k + 1
        BY <1>2 DEF StackInv
      <4> QED  BY <1>4, <3>1, <3>2, <4>1
    <3>6. k = 1 /\ i > 1 => H[i - 1].op # "retrieve"
      <4>1. k = 1 /\ i > 1 => i - 1 \in 1 .. m
        BY <3>1
      <4> QED  BY <1>1, <1>6, <4>1 DEF Owes
    <3>7. k > 1 /\ G[k - 1].op = "retrieve" => G[k].op = "wait"
      BY <1>2 DEF StackInv
    <3>8. k = 1 \/ k > 1
      BY <3>1
    <3> QED  BY <1>2, <3>1, <3>2, <3>3, <3>4, <3>5, <3>6, <3>7, <3>8 DEF StackInv
  <2> QED  BY <2>1, <2>2
<1>9. StackInv(H, next)
  BY <1>8 DEF StackInv
<1> QED  BY <1>1, <1>2, <1>3, <1>4, <1>6, <1>9

(* The innermost frame is left, or a wait goes on.                         *)
LEMMA Popped ==
  ASSUME NEW F \in Seq(Frame), F # <<>>, NEW next, StackInv(F, next)
  PROVE  StackInv(Front(F), next)
<1>0. PICK n \in Nat : n = Len(F) /\ DOMAIN F = 1 .. n /\ DOMAIN Front(F) = 1 .. n - 1
                       /\ \A i \in 1 .. n - 1 : Front(F)[i] = F[i]
  BY StackParts
<1>1. \A i \in DOMAIN Front(F) : i \in DOMAIN F /\ Front(F)[i] = F[i]
  BY <1>0
<1>2. \A i \in DOMAIN Front(F) : i > 1 => i - 1 \in DOMAIN Front(F)
  BY <1>0
<1>3. Len(Front(F)) = n - 1 /\ \A i \in 1 .. n - 1 : n <= i + 1 => n - 1 <= i + 1
  BY <1>0, StackParts
<1> QED  BY <1>0, <1>1, <1>2, <1>3 DEF StackInv

States == {"called", "submitted", "registered", "blocked"}

\* The innermost wait of F is that of G, in whatever state.
WaitsOn(F, G) ==
  /\ Len(G) = Len(F) /\ Len(F) > 1
  /\ \A i \in 1 .. Len(F) - 1 : G[i] = F[i]
  /\ G[Len(F)].op = "wait" /\ G[Len(F)].value = Last(F).value

(* The innermost wait goes on in another state.                            *)
LEMMA GoesOn ==
  ASSUME NEW F \in Seq(Frame), F # <<>>, Last(F).op = "wait", NEW next, StackInv(F, next),
         NEW state \in States, NEW G, G = Append(Front(F), Wait(Last(F).value, state))
  PROVE  G \in Seq(Frame) /\ StackInv(G, next) /\ WaitsOn(F, G)
<1>1. PICK n \in Nat : n = Len(F) /\ n > 0 /\ DOMAIN F = 1 .. n /\ F[n] = Last(F)
  BY StackParts
<1>2. PICK w : w = Wait(Last(F).value, state)
  OBVIOUS
<1>3. w \in Frame /\ w.op = "wait" /\ w.value = Last(F).value
  <2>1. Last(F) \in Frame
    BY StackParts
  <2>2. Last(F).value \in Int
    BY <2>1, FrameIs
  <2>3. w \in [op : {"wait"}, value : Int, state : {"called", "submitted", "registered", "blocked"}]
    BY <1>2, <2>2 DEF Wait, States
  <2> QED  BY <1>2, <2>3 DEF Frame, Wait
<1>4. /\ Front(F) \in Seq(Frame) /\ Len(Front(F)) = n - 1 /\ \A i \in 1 .. n - 1 : Front(F)[i] = F[i]
  BY <1>1, StackParts
<1>5. G \in Seq(Frame) /\ Len(G) = n /\ (\A i \in 1 .. n - 1 : G[i] = F[i]) /\ G[n] = w
  BY <1>1, <1>2, <1>3, <1>4, AppendProperties
<1>6. DOMAIN G = 1 .. n
  BY <1>5, LenProperties
<1>7. n > 1
  BY <1>1 DEF StackInv
<1>8. StackInv(G, next)
  <2> SUFFICES ASSUME NEW i \in 1 .. n
               PROVE  /\ G[i].op = "wait" =>
                           /\ i > 1 /\ G[i - 1].op \in {"map", "fallback", "retrieve"}
                           /\ G[i - 1].op = "retrieve" => G[i].value < next
                      /\ G[i].op \in {"map", "dispatch"} => i = 1
                      /\ G[i].op = "retrieve" => Len(G) <= i + 1
                      /\ i > 1 /\ G[i - 1].op = "retrieve" => G[i].op = "wait"
    BY <1>6 DEF StackInv
  <2>1. i > 1 => i - 1 \in 1 .. n - 1 /\ G[i - 1] = F[i - 1]
    BY <1>5
  <2>2. CASE i = n
    <3>1. F[n].op = "wait" /\ n > 1 /\ G[n] = w /\ w.value = F[n].value /\ w.op = "wait" /\ G[n - 1] = F[n - 1]
      BY <1>1, <1>3, <1>5, <1>7, <2>1, <2>2
    <3>2. F[n - 1].op \in {"map", "fallback", "retrieve"} /\ (F[n - 1].op = "retrieve" => F[n].value < next)
      BY <1>1, <3>1 DEF StackInv
    <3> QED  BY <2>2, <3>1, <3>2
  <2>3. CASE i # n
    <3>2. i \in 1 .. n - 1
      BY <2>3
    <3>1. G[i] = F[i] /\ i \in DOMAIN F
      BY <1>1, <1>5, <3>2
    <3>3. Len(G) = Len(F)
      BY <1>1, <1>5
    <3> QED  BY <2>1, <3>1, <3>3 DEF StackInv
  <2> QED  BY <2>2, <2>3
<1> QED  BY <1>1, <1>3, <1>5, <1>7, <1>8 DEF WaitsOn

(* A list has been submitted since.                                        *)
LEMMA StackLater ==
  ASSUME NEW F \in Seq(Frame), NEW next \in Int, NEW later \in Int, next <= later, StackInv(F, next)
  PROVE  StackInv(F, later)
<1>1. \A i \in DOMAIN F : F[i] \in Frame
  OBVIOUS
<1>2. \A i \in DOMAIN F : F[i].op = "wait" => F[i].value \in Int
  BY <1>1, FrameIs
<1> QED  BY <1>2 DEF StackInv

-----------------------------------------------------------------------------
(* Steps that record nothing                                               *)

\* Lists only lose what they use, and new ones are empty.
ListsShrink ==
  /\ \A n \in completed' + 1 .. nextID' : \A m :
       /\ m \in lists'[n].uses => n \in completed + 1 .. nextID /\ m \in lists[n].uses
       /\ m \in lists'[n].writes => n \in completed + 1 .. nextID /\ m \in lists[n].writes
  /\ \A n \in 1 .. nextID' : lists'[n].torn => n \in 1 .. nextID /\ lists[n].torn
  /\ LaterInv'

\* What is kept for a list is until that is over.
BuffersKept ==
  /\ \A m \in Buffers, n \in completed' + 1 .. nextID :
       (Marked(m, n) => Marked(m, n)') /\ (MarkedWritten(m, n) => MarkedWritten(m, n)')
  /\ RetiredInv'

\* The resource of a dispatch remains as it is.
ItemKept ==
  Base("dispatch") /\ Bottom.item \in Buffers /\ memory[Bottom.item].state = "live" =>
    /\ memory'[Bottom.item].state = "live"
    /\ memory[Bottom.item].last = nextID /\ memory[Bottom.item].written = nextID =>
         memory'[Bottom.item].last = nextID /\ memory'[Bottom.item].written = nextID

\* The execution thread leaves a map only when its wait is over.
Onward(F, G) ==
  /\ Owes(G) => Owes(F) \/ pool' # <<>>
  /\ \/ G = <<>>
     \/ G # <<>> /\ G[1].op \notin {"map", "dispatch"}
     \/ /\ F # <<>> /\ G # <<>> /\ G[1] = F[1]
        /\ Len(F) > 1 /\ F[2].op = "wait" =>
             \/ Len(G) > 1 /\ G[2].op = "wait" /\ G[2].value = F[2].value
             \/ F[2].value <= completed
             \/ early'

(* The lists and their buffers.                                            *)
LEMMA ListsStep ==
  ASSUME UsesInv, DispatchesWhole, ListsShrink, BuffersKept, completed \in Nat, completed' \in Nat,
         nextID \in Nat, nextID' \in Nat, pressed \subseteq pressed'
  PROVE  UsesInv' /\ RetiredInv' /\ LaterInv' /\ DispatchesWhole'
<1>1. UsesInv'
  <2> SUFFICES ASSUME NEW n \in completed' + 1 .. nextID', NEW m \in Buffers
               PROVE  /\ m \in lists'[n].uses => Marked(m, n)'
                      /\ m \in lists'[n].writes => MarkedWritten(m, n)'
    BY DEF UsesInv
  <2>1. /\ m \in lists'[n].uses => n \in completed + 1 .. nextID /\ Marked(m, n)
        /\ m \in lists'[n].writes => n \in completed + 1 .. nextID /\ MarkedWritten(m, n)
    BY DEF ListsShrink, UsesInv
  <2>2. n \in completed + 1 .. nextID => n \in completed' + 1 .. nextID
    <3>1. PICK c \in Nat, d \in Nat, k \in Nat, l \in Nat :
            completed = c /\ completed' = d /\ nextID = k /\ nextID' = l
      OBVIOUS
    <3>2. n \in d + 1 .. l
      BY <3>1
    <3> QED  BY <3>1, <3>2
  <2> QED  BY <2>1, <2>2 DEF BuffersKept
<1>2. DispatchesWhole'
  <2> SUFFICES ASSUME NEW n \in 1 .. nextID', lists'[n].torn PROVE \E p \in pressed' : p < n
    BY DEF DispatchesWhole
  <2> QED  BY DEF ListsShrink, DispatchesWhole
<1> QED  BY <1>1, <1>2 DEF BuffersKept, ListsShrink

(* What such a step leaves as it was.                                      *)
LEMMA QuietStep ==
  ASSUME Inv, TypeInv', NEW F, F = frames[Exec], NEW G, G = frames'[Exec],
         StackInv(G, nextID'), Onward(F, G), ListsShrink, BuffersKept, ItemKept,
         early => early', nextID <= nextID', completed <= completed', pressed \subseteq pressed',
         nextID' # nextID /\ Base("dispatch") /\ G # <<>> => nextID \in pressed',
         pool # <<>> /\ Owes(G) => pool' # <<>>
  PROVE  Inv'
<1>0. Owes(G) => pool' # <<>>
  BY DEF Inv, Onward
<1>1. /\ TypeInv /\ UsesInv /\ DispatchInv /\ MapInv /\ DispatchesWhole
      /\ NumbersInv /\ NumbersInv' /\ FramesType
  BY DEF Inv, TypeInv
<1>2. /\ nextID \in Nat /\ completed \in Nat /\ nextID' \in Nat /\ completed' \in Nat
      /\ pressed \subseteq Nat /\ pressed' \subseteq Nat
  BY <1>1 DEF NumbersInv
<1>3. UsesInv' /\ RetiredInv' /\ LaterInv' /\ DispatchesWhole'
  BY <1>1, <1>2, ListsStep
<1>4. (\E p \in pressed : p < nextID) => \E p \in pressed' : p < nextID'
  BY <1>2
<1>5. DispatchInv'
  <2> SUFFICES ASSUME G # <<>>, G[1].op = "dispatch"
               PROVE  /\ G[1].item \in Buffers /\ memory'[G[1].item].state = "live"
                      /\ G[1].list = nextID' =>
                           memory'[G[1].item].last = nextID' /\ memory'[G[1].item].written = nextID'
                      /\ G[1].list <= nextID' /\ (G[1].list = nextID' \/ \E p \in pressed' : p < nextID')
    BY DEF DispatchInv, Base, Bottom, Pressed
  <2>1. F # <<>> /\ G[1] = F[1]
    BY DEF Onward
  <2>2. PICK b : b = F[1]
    OBVIOUS
  <2>3. Base("dispatch") /\ Bottom = b /\ b.op = "dispatch" /\ b \in Frame
    <3>1. F \in Seq(Frame)
      BY <1>1 DEF FramesType, Threads
    <3> QED  BY <2>1, <2>2, <3>1 DEF Base, Bottom
  <2>4. /\ b.item \in Buffers /\ memory[b.item].state = "live"
        /\ b.list = nextID => memory[b.item].last = nextID /\ memory[b.item].written = nextID
        /\ b.list <= nextID /\ (b.list = nextID \/ Pressed)
    BY <1>1, <2>3 DEF DispatchInv
  <2>5. /\ memory'[b.item].state = "live"
        /\ memory[b.item].last = nextID /\ memory[b.item].written = nextID =>
             memory'[b.item].last = nextID /\ memory'[b.item].written = nextID
    BY <2>3, <2>4 DEF ItemKept
  <2>6. b.list \in Int
    BY <2>3, FrameIs
  <2>7. CASE nextID' = nextID
    BY <1>4, <2>1, <2>2, <2>4, <2>5, <2>7 DEF Pressed
  <2>8. CASE nextID' # nextID
    <3>1. nextID \in pressed' /\ nextID < nextID' /\ b.list < nextID'
      BY <1>2, <2>3, <2>4, <2>6, <2>8
    <3> QED  BY <1>2, <2>1, <2>2, <2>4, <2>5, <2>6, <3>1
  <2> QED  BY <2>7, <2>8
<1>6. MapInv'
  <2> SUFFICES ASSUME G # <<>>, G[1].op = "map", ~early'
               PROVE  /\ G[1].item \in Buffers
                      /\ \A n \in completed' + 1 .. nextID' :
                           G[1].item \in lists'[n].writes \/ (~G[1].reads /\ G[1].item \in lists'[n].uses) =>
                             Len(G) > 1 /\ G[2].op = "wait" /\ n <= G[2].value
    BY DEF MapInv, Base, Bottom
  <2>1. F # <<>> /\ G[1] = F[1]
    BY DEF Onward
  <2>2. PICK b : b = F[1]
    OBVIOUS
  <2>3. Base("map") /\ Bottom = b
    BY <2>1, <2>2 DEF Base, Bottom
  <2>4. /\ b.item \in Buffers
        /\ \A n \in completed + 1 .. nextID :
             b.item \in lists[n].writes \/ (~b.reads /\ b.item \in lists[n].uses) =>
               Len(F) > 1 /\ F[2].op = "wait" /\ n <= F[2].value
    BY <1>1, <2>3 DEF MapInv
  <2>5. ASSUME NEW n \in completed' + 1 .. nextID',
               b.item \in lists'[n].writes \/ (~b.reads /\ b.item \in lists'[n].uses)
        PROVE  Len(G) > 1 /\ G[2].op = "wait" /\ n <= G[2].value
    <3>1. Len(F) > 1 /\ F[2].op = "wait" /\ n <= F[2].value
      BY <2>4, <2>5 DEF ListsShrink
    <3>2. F[2].value \in Int
      <4>1. F \in Seq(Frame)
        BY <1>1 DEF FramesType, Threads
      <4>2. F[2] \in Frame
        BY <3>1, <4>1
      <4> QED  BY <3>1, <4>2, FrameIs
    <3>3. ~(F[2].value <= completed)
      <4>1. PICK c \in Nat, d \in Nat, l \in Nat, v \in Int :
              completed = c /\ completed' = d /\ nextID' = l /\ F[2].value = v
        BY <1>2, <3>2
      <4>2. n \in d + 1 .. l /\ n <= v /\ c <= d
        BY <3>1, <4>1
      <4>3. n > d
        BY <4>2
      <4> QED  BY <4>1, <4>2, <4>3
    <3>4. Onward(F, G) /\ G # <<>> /\ G[1].op = "map"
      OBVIOUS
    <3>5. Len(G) > 1 /\ G[2].op = "wait" /\ G[2].value = F[2].value
      BY <3>1, <3>3, <3>4 DEF Onward
    <3> QED  BY <3>1, <3>5
  <2> QED  BY <1>2, <2>1, <2>2, <2>4, <2>5
<1> QED  BY <1>0, <1>3, <1>5, <1>6 DEF Inv

-----------------------------------------------------------------------------
(* What becomes of memory                                                  *)

(* The least of numbers.                                                   *)
LEMMA Smallest ==
  ASSUME NEW T \in SUBSET Nat, T # {}
  PROVE  \E x \in T : \A y \in T : x <= y
<1>1. \E x \in T : \A y \in T : ~ (<<y, x>> \in OpToRel(<, Nat))
  BY NatLessThanWellFounded, WFMin
<1>2. PICK x \in T : \A y \in T : ~ (<<y, x>> \in OpToRel(<, Nat))
  BY <1>1
<1>3. \A y \in T : ~ (y < x)
  BY <1>2 DEF OpToRel
<1> QED  BY <1>3

Entry == [item : Memory \cup {NoHeap}, last : Nat]

(* The fields of an entry.                                                 *)
LEMMA EntryIs ==
  \A e \in Entry : e.item \in Memory \cup {NoHeap} /\ e.last \in Nat
BY DEF Entry

(* TrimDeletedObjects leaves all that must wait, and adds nothing.         *)
LEMMA RemainingIs ==
  ASSUME NEW queue \in Seq(Entry), completed \in Nat
  PROVE  /\ Remaining(queue) \in Seq(Entry)
         /\ \A i \in DOMAIN queue : queue[i].last > completed =>
              \E j \in DOMAIN Remaining(queue) : Remaining(queue)[j] = queue[i]
         /\ \A j \in DOMAIN Remaining(queue) : \E i \in DOMAIN queue : Remaining(queue)[j] = queue[i]
<1>1. PICK blocked : blocked = {i \in DOMAIN queue : ~ReadyToDestroy(queue[i].last)}
  OBVIOUS
<1>2. Remaining(queue) = IF blocked = {} THEN <<>>
                         ELSE SubSeq(queue, CHOOSE i \in blocked : \A j \in blocked : i <= j, Len(queue))
  BY <1>1 DEF Remaining
<1>3. PICK n \in Nat : n = Len(queue) /\ DOMAIN queue = 1 .. n
  BY LenProperties
<1>4. \A i \in 1 .. n : queue[i] \in Entry /\ queue[i].last \in Nat
  <2>1. \A i \in 1 .. n : queue[i] \in Entry
    BY <1>3
  <2> QED  BY <2>1, EntryIs
<1>5. \A i \in DOMAIN queue : queue[i].last > completed => i \in blocked
  BY <1>1, <1>3, <1>4 DEF ReadyToDestroy
<1>6. CASE blocked = {}
  BY <1>2, <1>5, <1>6
<1>7. CASE blocked # {}
  <2>1. blocked \subseteq 1 .. n
    BY <1>1, <1>3
  <2>2. \E i \in blocked : \A j \in blocked : i <= j
    <3>1. blocked \in SUBSET Nat
      BY <2>1
    <3> QED  BY <1>7, <3>1, Smallest
  <2>3. PICK b : b = CHOOSE i \in blocked : \A j \in blocked : i <= j
    OBVIOUS
  <2>4. b \in blocked /\ \A j \in blocked : b <= j
    BY <2>2, <2>3
  <2>5. b \in 1 .. n
    BY <2>1, <2>4
  <2>6. PICK R : R = SubSeq(queue, b, n)
    OBVIOUS
  <2>7. Remaining(queue) = R
    BY <1>2, <1>3, <1>7, <2>3, <2>6
  <2>8. /\ R \in Seq(Entry) /\ Len(R) = n - b + 1
        /\ \A i \in 1 .. n - b + 1 : R[i] = queue[b + i - 1]
    <3>1. queue \in Seq(Entry) /\ b \in 1 .. n + 1 /\ n \in 0 .. n /\ n = Len(queue) /\ b <= n
      BY <1>3, <2>5
    <3> QED  BY <2>6, <3>1, SubSeqProperties
  <2>9. DOMAIN R = 1 .. n - b + 1
    BY <2>8, LenProperties
  <2>10. ASSUME NEW i \in DOMAIN queue, queue[i].last > completed
         PROVE  \E j \in DOMAIN R : R[j] = queue[i]
    <3>1. i \in 1 .. n /\ b <= i
      BY <1>3, <1>5, <2>4, <2>10
    <3>2. i - b + 1 \in 1 .. n - b + 1 /\ b + (i - b + 1) - 1 = i
      BY <2>5, <3>1
    <3> QED  BY <2>8, <2>9, <3>2
  <2>11. ASSUME NEW j \in DOMAIN R
         PROVE  \E i \in DOMAIN queue : R[j] = queue[i]
    <3>1. b + j - 1 \in 1 .. n
      BY <2>5, <2>9
    <3> QED  BY <1>3, <2>8, <2>9, <3>1
  <2> QED  BY <2>7, <2>8, <2>10, <2>11
<1> QED  BY <1>6, <1>7

(* What is in the queues.                                                  *)
LEMMA ItemsAre ==
  ASSUME NEW Q, NEW x
  PROVE  x \in Items(Q) <=> \E q \in Queues : \E i \in DOMAIN Q[q] : Q[q][i].item = x
BY DEF Items, Range

(* The same memory and queues.                                             *)
LEMMA Untouched ==
  ASSUME memory' = memory, retired' = retired, RetiredInv
  PROVE  BuffersKept /\ ItemKept
BY DEF BuffersKept, ItemKept, Marked, MarkedWritten, Awaits, RetiredInv

(* TrimDeletedObjects.                                                     *)
LEMMA TrimStep ==
  ASSUME MemoryType, RetiredInv, completed \in Nat, completed' \in Nat, nextID \in Nat,
         completed <= completed', TrimDeletedObjects
  PROVE  MemoryType' /\ BuffersKept /\ ItemKept
<1>1. retired \in [Queues -> Seq(Entry)] /\ \A q \in Queues : retired[q] \in Seq(Entry)
  BY DEF MemoryType, Entry
<1>2. /\ retired' = [q \in Queues |-> Remaining(retired[q])]
      /\ \A q \in Queues : retired'[q] = Remaining(retired[q])
  BY DEF TrimDeletedObjects, Left
<1>3. ASSUME NEW q \in Queues
      PROVE  /\ retired'[q] \in Seq(Entry)
             /\ \A i \in DOMAIN retired[q] : retired[q][i].last > completed =>
                  \E j \in DOMAIN retired'[q] : retired'[q][j] = retired[q][i]
             /\ \A j \in DOMAIN retired'[q] : \E i \in DOMAIN retired[q] : retired'[q][j] = retired[q][i]
  BY <1>1, <1>2, RemainingIs
<1>4. PICK destroyed : /\ destroyed = Items(retired) \ (Items(retired') \cup Kept)
                       /\ memory' = [m \in Memory |-> IF m \in destroyed THEN Free ELSE memory[m]]
  BY DEF TrimDeletedObjects
<1>5. MemoryType'
  BY <1>2, <1>3, <1>4 DEF MemoryType, Entry
<1>6. RetiredInv'
  <2> SUFFICES ASSUME NEW q \in Queues, NEW j \in DOMAIN retired'[q], retired'[q][j].item \in Buffers
               PROVE  memory'[retired'[q][j].item].state = "retired"
    BY DEF RetiredInv
  <2>1. PICK i \in DOMAIN retired[q] : retired'[q][j] = retired[q][i]
    BY <1>3
  <2>2. memory[retired'[q][j].item].state = "retired"
    BY <2>1 DEF RetiredInv
  <2>3. retired'[q][j].item \notin destroyed
    BY <1>4, ItemsAre
  <2> QED  BY <1>4, <2>2, <2>3 DEF Memory
<1>7. ASSUME NEW m \in Buffers, memory[m].state = "live"
      PROVE  memory'[m] = memory[m]
  <2>1. m \notin Items(retired)
    BY <1>7, ItemsAre DEF RetiredInv
  <2> QED  BY <1>4, <2>1 DEF Memory
<1>8. ASSUME NEW m, NEW n \in completed' + 1 .. nextID, Awaits(m, n)
      PROVE  Awaits(m, n)'
  <2>1. PICK q \in Queues : \E i \in DOMAIN retired[q] : retired[q][i].item = m /\ retired[q][i].last >= n
    BY <1>8 DEF Awaits
  <2>0. PICK i \in DOMAIN retired[q] : retired[q][i].item = m /\ retired[q][i].last >= n
    BY <2>1
  <2>2. retired[q][i].last \in Nat
    <3>1. retired[q][i] \in Entry
      BY <1>1, ElementOfSeq, LenProperties
    <3> QED  BY <3>1, EntryIs
  <2>3. retired[q][i].last > completed
    <3>1. PICK c \in Nat, d \in Nat, k \in Nat, v \in Nat :
            completed = c /\ completed' = d /\ nextID = k /\ retired[q][i].last = v
      BY <2>2
    <3>2. n \in d + 1 .. k /\ v >= n /\ c <= d
      BY <2>0, <3>1
    <3>3. v > c
      BY <3>2
    <3> QED  BY <3>1, <3>3
  <2> QED  BY <1>3, <2>0, <2>3 DEF Awaits
<1> QED  BY <1>5, <1>6, <1>7, <1>8 DEF BuffersKept, ItemKept, Marked, MarkedWritten

(* A list is reset, or none is.                                            *)
LEMMA ListsStay ==
  ASSUME NumbersInv, NumbersInv', ListsType, LaterInv, nextID' = nextID \/ nextID' = nextID + 1,
         completed <= completed', NEW k, NEW a,
         lists' = lists \/ lists' = [lists EXCEPT ![k] = NewList(a)]
  PROVE  ListsType' /\ ListsShrink
<1>1. PICK c \in Nat, d \in Nat, i \in Nat, j \in Nat, max \in Nat :
        completed = c /\ completed' = d /\ nextID = i /\ nextID' = j /\ MaxLists = max
  <2>1. MaxLists \in Nat /\ nextID \in Nat /\ nextID' \in Nat
    BY CommandListsAssumption DEF NumbersInv
  <2> QED  BY <2>1 DEF NumbersInv
<1>2. c <= d /\ d < j /\ (j = i \/ j = i + 1) /\ i >= 1 /\ j <= max
  BY <1>1 DEF NumbersInv
<1>3. DOMAIN lists = 1 .. max /\ DOMAIN lists' = 1 .. max
  BY <1>1 DEF ListsType
<1>4. PICK e : e = NewList(a)
  OBVIOUS
<1>5. DOMAIN e = Fields /\ e.uses = {} /\ e.writes = {} /\ ~e.torn
  BY <1>4 DEF NewList, Fields
<1>6. \A n \in 1 .. max : lists'[n] = lists[n] \/ lists'[n] = e
  BY <1>3, <1>4
<1>7. ListsType'
  BY <1>1, <1>3, <1>5, <1>6 DEF ListsType
<1>8. \A n \in i + 1 .. max : lists[n].uses = {} /\ lists[n].writes = {} /\ ~lists[n].torn
  BY <1>1 DEF LaterInv
<1>9. ASSUME NEW n \in 1 .. max
      PROVE  /\ \A m : /\ m \in lists'[n].uses => n <= i /\ m \in lists[n].uses
                       /\ m \in lists'[n].writes => n <= i /\ m \in lists[n].writes
             /\ lists'[n].torn => n <= i /\ lists[n].torn
  <2>1. n <= i \/ n \in i + 1 .. max
    OBVIOUS
  <2>2. n \in i + 1 .. max =>
          \A m : m \notin lists'[n].uses /\ m \notin lists'[n].writes /\ ~lists'[n].torn
    BY <1>5, <1>6, <1>8
  <2>3. /\ \A m : (m \in lists'[n].uses => m \in lists[n].uses)
                  /\ (m \in lists'[n].writes => m \in lists[n].writes)
        /\ lists'[n].torn => lists[n].torn
    BY <1>5, <1>6
  <2> QED  BY <2>1, <2>2, <2>3
<1>10. /\ \A n \in d + 1 .. j : n \in 1 .. max /\ (n <= i => n \in c + 1 .. i)
       /\ \A n \in 1 .. j : n \in 1 .. max /\ (n <= i => n \in 1 .. i)
       /\ \A n \in j + 1 .. max : n \in 1 .. max /\ ~(n <= i)
  BY <1>2
<1>11. /\ \A n \in d + 1 .. j : \A m :
            /\ m \in lists'[n].uses => n \in c + 1 .. i /\ m \in lists[n].uses
            /\ m \in lists'[n].writes => n \in c + 1 .. i /\ m \in lists[n].writes
       /\ \A n \in 1 .. j : lists'[n].torn => n \in 1 .. i /\ lists[n].torn
       /\ \A n \in j + 1 .. max : lists'[n].uses = {} /\ lists'[n].writes = {} /\ ~lists'[n].torn
  BY <1>9, <1>10
<1>12. LaterInv'
  BY <1>1, <1>11 DEF LaterInv
<1> QED  BY <1>1, <1>7, <1>11, <1>12 DEF ListsShrink

(* The GPU completes a list.                                               *)
LEMMA GpuMemory ==
  ASSUME Inv, GpuCompletes
  PROVE  MemoryType' /\ BuffersKept /\ ItemKept
<1>1. /\ completed < nextID - 1 /\ completed' = completed + 1 /\ retired' = retired /\ nextID' = nextID
      /\ memory' = [m \in Memory |-> IF memory[m].state # "live" THEN memory[m]
                      ELSE [memory[m] EXCEPT !.last = Pending(@), !.written = Pending(@)]]
  BY DEF GpuCompletes
<1>2. NumbersInv /\ MemoryType /\ RetiredInv /\ completed \in Nat /\ nextID \in Nat
  BY DEF Inv, TypeInv, NumbersInv
<1>3. PICK c \in Nat, d \in Nat, i \in Nat : completed = c /\ completed' = d /\ nextID = i /\ d = c + 1 /\ d < i
  <2>1. PICK c \in Nat, i \in Nat : completed = c /\ nextID = i
    BY <1>2
  <2>2. completed < nextID - 1 /\ completed' = completed + 1
    BY DEF GpuCompletes
  <2>3. completed' = c + 1 /\ c + 1 \in Nat /\ c + 1 < i
    BY <2>1, <2>2
  <2> QED  BY <2>1, <2>3
<1>4. \A v \in Nat : Pending(v) \in Nat /\ (v > d => Pending(v) = v)
  BY <1>3 DEF Pending
<1>5. ASSUME NEW m \in Memory
      PROVE  /\ memory'[m] \in {Free, Retired} \cup LivePiece /\ memory'[m].state = memory[m].state
             /\ memory[m].state = "live" => /\ memory[m].last \in Nat /\ memory[m].written \in Nat
                                            /\ memory'[m].last = Pending(memory[m].last)
                                            /\ memory'[m].written = Pending(memory[m].written)
  <2>1. memory[m] \in {Free, Retired} \cup LivePiece
    BY <1>2 DEF MemoryType
  <2>2. CASE memory[m].state # "live"
    BY <1>1, <2>1, <2>2
  <2>3. CASE memory[m].state = "live"
    <3>1. memory[m] \in LivePiece
      BY <2>1, <2>3 DEF Free, Retired
    <3>2. PICK p \in LivePiece : p = memory[m]
      BY <3>1
    <3>3. p.last \in Nat /\ p.written \in Nat
      BY DEF LivePiece
    <3>4. memory'[m] = [p EXCEPT !.last = Pending(p.last), !.written = Pending(p.written)]
      BY <1>1, <2>3, <3>2
    <3>5. Pending(p.last) \in Nat /\ Pending(p.written) \in Nat
      BY <1>4, <3>3
    <3>6. /\ memory'[m] \in LivePiece
          /\ memory'[m].last = Pending(p.last) /\ memory'[m].written = Pending(p.written)
          /\ memory'[m].state = "live"
      BY <3>4, <3>5 DEF LivePiece
    <3> QED  BY <2>3, <3>2, <3>3, <3>6
  <2> QED  BY <2>2, <2>3
<1>6. MemoryType'
  BY <1>1, <1>2, <1>5 DEF MemoryType
<1>7. RetiredInv'
  <2>1. \A m \in Buffers : memory'[m].state = memory[m].state
    BY <1>5 DEF Memory
  <2> QED  BY <1>1, <1>2, <2>1 DEF RetiredInv
<1>8. ASSUME NEW m \in Buffers, NEW n \in d + 1 .. i
      PROVE  (Marked(m, n) => Marked(m, n)') /\ (MarkedWritten(m, n) => MarkedWritten(m, n)')
  <2>1. \A v \in Nat : v >= n => Pending(v) >= n
    BY <1>4
  <2>2. Awaits(m, n)' <=> Awaits(m, n)
    BY <1>1 DEF Awaits
  <2>3. m \in Memory
    BY DEF Memory
  <2>4. memory[m].state = "live" => /\ memory'[m].state = "live"
                                    /\ memory[m].last >= n => memory'[m].last >= n
                                    /\ memory[m].written >= n => memory'[m].written >= n
    BY <1>5, <2>1, <2>3
  <2> QED  BY <2>2, <2>4 DEF Marked, MarkedWritten
<1>9. ItemKept
  <2> SUFFICES ASSUME Bottom.item \in Buffers, memory[Bottom.item].state = "live"
               PROVE  /\ memory'[Bottom.item].state = "live"
                      /\ memory[Bottom.item].last = nextID /\ memory[Bottom.item].written = nextID =>
                           memory'[Bottom.item].last = nextID /\ memory'[Bottom.item].written = nextID
    BY DEF ItemKept
  <2>1. Pending(nextID) = nextID
    BY <1>3, <1>4
  <2> QED  BY <1>5, <2>1 DEF Memory
<1> QED  BY <1>3, <1>6, <1>7, <1>8, <1>9 DEF BuffersKept

(* Something is put into a queue.                                          *)
LEMMA RetireIs ==
  ASSUME retired \in [Queues -> Seq(Entry)], NEW m \in Memory \cup {NoHeap}, NEW last \in Nat,
         retired' = Retire(m, last)
  PROVE  /\ retired' \in [Queues -> Seq(Entry)]
         /\ \A k, n : Awaits(k, n) => Awaits(k, n)'
         /\ \A q \in Queues : \A i \in DOMAIN retired'[q] :
              retired'[q][i].item = m \/ (i \in DOMAIN retired[q] /\ retired'[q][i] = retired[q][i])
         /\ \A n : last >= n => Awaits(m, n)'
<1>1. PICK e : e = [item |-> m, last |-> last]
  OBVIOUS
<1>2. e \in Entry /\ e.item = m /\ e.last = last
  BY <1>1 DEF Entry
<1>3. PICK r \in Queues : r = QueueOf(memory[m].kind)
  BY DEF QueueOf, Queues
<1>4. PICK Q \in Seq(Entry) : Q = retired[r]
  OBVIOUS
<1>5. retired' = [retired EXCEPT ![r] = Append(Q, e)]
  BY <1>1, <1>3, <1>4 DEF Retire
<1>6. retired'[r] = Append(Q, e) /\ \A q \in Queues \ {r} : retired'[q] = retired[q]
  BY <1>5
<1>7. PICK n \in Nat : n = Len(Q) /\ DOMAIN Q = 1 .. n
  BY LenProperties
<1>8. PICK R : R = Append(Q, e)
  OBVIOUS
<1>9. R \in Seq(Entry) /\ Len(R) = n + 1 /\ (\A i \in 1 .. n : R[i] = Q[i]) /\ R[n + 1] = e
  BY <1>2, <1>7, <1>8, AppendProperties
<1>10. DOMAIN R = 1 .. n + 1
  BY <1>9, LenProperties
<1>11. retired' \in [Queues -> Seq(Entry)]
  BY <1>5, <1>8, <1>9
<1>12. \A q \in Queues : \A i \in DOMAIN retired[q] :
         i \in DOMAIN retired'[q] /\ retired'[q][i] = retired[q][i]
  <2>1. \A i \in 1 .. n : i \in DOMAIN R /\ R[i] = Q[i]
    BY <1>9, <1>10
  <2> QED  BY <1>4, <1>6, <1>7, <1>8, <2>1
<1>13. \A q \in Queues : \A i \in DOMAIN retired'[q] :
         retired'[q][i] = e \/ (i \in DOMAIN retired[q] /\ retired'[q][i] = retired[q][i])
  <2>1. \A i \in 1 .. n + 1 : R[i] = e \/ (i \in 1 .. n /\ R[i] = Q[i])
    BY <1>9
  <2>2. ASSUME NEW q \in Queues, q # r, NEW i \in DOMAIN retired'[q]
        PROVE  i \in DOMAIN retired[q] /\ retired'[q][i] = retired[q][i]
    BY <1>6, <2>2
  <2>3. ASSUME NEW i \in DOMAIN retired'[r]
        PROVE  retired'[r][i] = e \/ (i \in DOMAIN retired[r] /\ retired'[r][i] = retired[r][i])
    BY <1>4, <1>6, <1>7, <1>8, <1>10, <2>1, <2>3
  <2> QED  BY <2>2, <2>3
<1>14. n + 1 \in DOMAIN retired'[r] /\ retired'[r][n + 1] = e
  BY <1>6, <1>8, <1>9, <1>10
<1> QED  BY <1>2, <1>11, <1>12, <1>13, <1>14 DEF Awaits

(* Live buffers remain as they are.                                        *)
LEMMA BuffersStay ==
  ASSUME RetiredInv', \A m, n : Awaits(m, n) => Awaits(m, n)',
         \A m \in Buffers : memory[m].state = "live" => memory'[m] = memory[m]
  PROVE  BuffersKept /\ ItemKept
BY DEF BuffersKept, ItemKept, Marked, MarkedWritten

(* What may be released or is used by a list is alive, and not in a queue. *)
LEMMA PieceIs ==
  ASSUME MemoryType, NEW m \in Memory
  PROVE  /\ memory[m] \in {Free, Retired} \cup LivePiece
         /\ memory[m].state = "live" =>
              memory[m] \in LivePiece /\ memory[m].last \in Nat /\ memory[m].written \in Nat
BY DEF MemoryType, LivePiece, Free, Retired

(* A resource is given up.                                                 *)
LEMMA ReleaseStep ==
  ASSUME Inv, NEW m \in Memory, Release(m)
  PROVE  MemoryType' /\ BuffersKept /\ ItemKept
<1>1. /\ NumbersInv /\ MemoryType /\ RetiredInv /\ completed \in Nat /\ nextID \in Nat /\ FramesType
  BY DEF Inv, TypeInv, NumbersInv
<1>2. /\ m \in Buffers /\ memory[m].state = "live" /\ completed' = completed /\ nextID' = nextID
      /\ ~\E f \in Range(frames[Exec]) : f.op \in {"dispatch", "map"} /\ f.item = m
  BY DEF Release, Usable
<1>3. memory[m].last \in Nat
  BY <1>1, <1>2, PieceIs
<1>4. \A q \in Queues : \A i \in DOMAIN retired[q] : retired[q][i].item # m
  BY <1>1, <1>2 DEF RetiredInv
<1>5. Base("dispatch") => Bottom.item # m
  <2> SUFFICES ASSUME Base("dispatch") PROVE Bottom.item # m
    OBVIOUS
  <2>1. frames[Exec] \in Seq(Frame) /\ frames[Exec] # <<>>
    BY <1>1 DEF FramesType, Threads, Base
  <2>2. 1 \in DOMAIN frames[Exec]
    BY <2>1, StackParts
  <2> QED  BY <1>2, <2>2 DEF Base, Bottom, Range
<1>6. retired \in [Queues -> Seq(Entry)]
  BY <1>1 DEF MemoryType, Entry
<1>7. CASE ReadyToDestroy(memory[m].last)
  <2>1. memory' = [memory EXCEPT ![m] = Free] /\ retired' = retired
    BY <1>7 DEF Release
  <2>2. \A k \in Memory : k # m => memory'[k] = memory[k]
    BY <1>1, <2>1 DEF MemoryType
  <2>3. MemoryType'
    BY <1>1, <2>1 DEF MemoryType
  <2>4. RetiredInv'
    BY <1>1, <1>4, <2>1, <2>2 DEF RetiredInv, Memory
  <2>5. ASSUME NEW n \in completed' + 1 .. nextID
        PROVE  ~ (memory[m].last >= n)
    <3>1. PICK c \in Nat, i \in Nat, v \in Nat : completed = c /\ nextID = i /\ memory[m].last = v
      BY <1>1, <1>3
    <3>2. n \in c + 1 .. i /\ v <= c
      BY <1>2, <1>7, <3>1 DEF ReadyToDestroy
    <3>3. ~ (v >= n)
      BY <3>2
    <3> QED  BY <3>1, <3>3
  <2>6. ASSUME NEW k \in Buffers, NEW n \in completed' + 1 .. nextID
        PROVE  (Marked(k, n) => Marked(k, n)') /\ (MarkedWritten(k, n) => MarkedWritten(k, n)')
    <3>1. Awaits(k, n)' <=> Awaits(k, n)
      BY <2>1 DEF Awaits
    <3>2. CASE k = m
      BY <2>5, <3>1, <3>2 DEF Marked, MarkedWritten
    <3>3. CASE k # m
      BY <2>2, <3>1, <3>3 DEF Marked, MarkedWritten, Memory
    <3> QED  BY <3>2, <3>3
  <2>7. ItemKept
    BY <1>5, <2>2 DEF ItemKept, Memory
  <2> QED  BY <2>3, <2>4, <2>6, <2>7 DEF BuffersKept
<1>8. CASE ~ReadyToDestroy(memory[m].last)
  <2>1. memory' = [memory EXCEPT ![m] = Retired] /\ retired' = Retire(m, memory[m].last)
    BY <1>8 DEF Release
  <2>2. /\ \A k \in Memory : k # m => memory'[k] = memory[k]
        /\ memory'[m] = Retired
    BY <1>1, <2>1 DEF MemoryType
  <2>3. /\ retired' \in [Queues -> Seq(Entry)]
        /\ \A k, n : Awaits(k, n) => Awaits(k, n)'
        /\ \A q \in Queues : \A i \in DOMAIN retired'[q] :
             retired'[q][i].item = m \/ (i \in DOMAIN retired[q] /\ retired'[q][i] = retired[q][i])
        /\ \A n : memory[m].last >= n => Awaits(m, n)'
    BY <1>3, <1>6, <2>1, RetireIs
  <2>4. MemoryType'
    BY <1>1, <2>1, <2>3 DEF MemoryType, Entry
  <2>5. RetiredInv'
    BY <1>1, <2>2, <2>3 DEF RetiredInv, Memory, Retired
  <2>6. ASSUME NEW k \in Buffers, NEW n \in completed' + 1 .. nextID
        PROVE  (Marked(k, n) => Marked(k, n)') /\ (MarkedWritten(k, n) => MarkedWritten(k, n)')
    <3>1. CASE k = m
      BY <2>3, <3>1 DEF Marked, MarkedWritten
    <3>2. CASE k # m
      BY <2>2, <2>3, <3>2 DEF Marked, MarkedWritten, Memory
    <3> QED  BY <3>1, <3>2
  <2>7. ItemKept
    BY <1>5, <2>2 DEF ItemKept, Memory
  <2> QED  BY <2>4, <2>5, <2>6, <2>7 DEF BuffersKept
<1> QED  BY <1>7, <1>8

(* An allocation that succeeds.                                            *)
LEMMA AllocatedStep ==
  ASSUME Inv, NEW t \in Threads, Allocated(t)
  PROVE  MemoryType' /\ HeapType' /\ BuffersKept /\ ItemKept
<1>1. MemoryType /\ HeapType /\ RetiredInv /\ FramesType
  BY DEF Inv, TypeInv
<1>2. PICK m : /\ m \in Available(t)
               /\ heap' = IF Top(t).kind # "heap" THEN heap
                          ELSE [heap EXCEPT !.in = m, !.ring = Ring(heap.desc),
                                    !.pool = IF PooledHeap(t) = {} THEN @ ELSE Tail(@)]
               /\ memory' = [k \in Memory |->
                    IF k = m THEN Live(Top(t).kind)
                    ELSE IF k = heap.in /\ k # heap'.in /\ k \notin Items(retired) THEN Free
                    ELSE memory[k]]
  <2>1. Available(t) # {}
    BY DEF Allocated
  <2>2. PICK m : m = CHOOSE a \in Available(t) : TRUE
    OBVIOUS
  <2>3. m \in Available(t)
    BY <2>1, <2>2
  <2> QED  BY <2>2, <2>3 DEF Allocated
<1>3. retired' = retired
  BY DEF Allocated
<1>4. Top(t).kind \in {"block", "object", "heap"}
  <2>1. frames[t] \in Seq(Frame) /\ frames[t] # <<>> /\ Last(frames[t]).op = "alloc"
    BY <1>1 DEF FramesType, Allocated, In, Idle, Top
  <2>2. Last(frames[t]) \in Frame
    BY <2>1, StackParts
  <2>3. \A f \in Frame : f.op = "alloc" => f.kind \in {"block", "object", "heap"}
    BY DEF Frame
  <2> QED  BY <2>1, <2>2, <2>3 DEF Top
<1>5. PICK p \in Seq([item : AnyHeap, last : Int]) : p = heap.pool
  BY <1>1 DEF HeapType
<1>6. p # <<>> => Head(p).item \in AnyHeap /\ Tail(p) \in Seq([item : AnyHeap, last : Int])
  <2>1. PICK S : S = [item : AnyHeap, last : Int]
    OBVIOUS
  <2>2. p # <<>> => Head(p) \in S /\ Tail(p) \in Seq(S)
    BY <2>1, HeadTailProperties
  <2>3. \A e \in S : e.item \in AnyHeap
    BY <2>1
  <2> QED  BY <2>1, <2>2, <2>3
<1>7. PooledHeap(t) # {} => p # <<>> /\ PooledHeap(t) = {Head(p).item} /\ Top(t).kind = "heap"
  BY <1>5 DEF PooledHeap
<1>8. /\ Top(t).kind = "heap" => m \in AnyHeap
      /\ Top(t).kind # "heap" => m \in Buffers /\ memory[m].state = "free"
  BY <1>2, <1>6, <1>7 DEF Available, AnyHeap
<1>9. HeapType'
  <2>1. CASE Top(t).kind # "heap"
    BY <1>1, <1>2, <2>1 DEF HeapType
  <2>2. CASE Top(t).kind = "heap"
    <3>1. PICK h : h = heap'
      OBVIOUS
    <3>2. PICK q : q = IF PooledHeap(t) = {} THEN p ELSE Tail(p)
      OBVIOUS
    <3>3. q \in Seq([item : AnyHeap, last : Int])
      BY <1>6, <1>7, <3>2
    <3>4. h = [heap EXCEPT !.in = m, !.ring = Ring(heap.desc), !.pool = q]
      BY <1>2, <1>5, <2>2, <3>1, <3>2
    <3>5. DOMAIN h = {"in", "desc", "ring", "pool"} /\ h.in = m /\ h.pool = q
      BY <1>1, <3>4 DEF HeapType
    <3> QED  BY <1>8, <2>2, <3>1, <3>3, <3>5 DEF HeapType
  <2> QED  BY <2>1, <2>2
<1>10. Live(Top(t).kind) \in LivePiece
  BY <1>4 DEF Live, LivePiece
<1>11. MemoryType'
  BY <1>1, <1>2, <1>3, <1>10 DEF MemoryType
<1>12. heap.in \notin Buffers
  BY <1>1, CommandListsAssumption DEF HeapType, AnyHeap, Memory
<1>13. m \in Buffers => memory[m].state = "free"
  BY <1>8, CommandListsAssumption DEF AnyHeap, Memory
<1>14. \A k \in Buffers : memory[k].state # "free" => memory'[k] = memory[k]
  BY <1>2, <1>12, <1>13 DEF Memory
<1>15. RetiredInv'
  BY <1>1, <1>3, <1>14 DEF RetiredInv
<1> QED  BY <1>3, <1>9, <1>11, <1>14, <1>15, BuffersStay DEF Awaits

(* The heap rolls over.                                                    *)
LEMMA RollOverStep ==
  ASSUME Inv, RollOverHeap
  PROVE  MemoryType' /\ HeapType' /\ BuffersKept /\ ItemKept
<1>0. MemoryType /\ HeapType /\ RetiredInv /\ nextID \in Nat
  BY DEF Inv, TypeInv, NumbersInv
<1>1. MemoryType /\ HeapType /\ RetiredInv /\ nextID \in Nat /\ retired \in [Queues -> Seq(Entry)]
  BY <1>0 DEF MemoryType, Entry
<1>2. PICK m \in AnyHeap : m = heap.in
  BY <1>1 DEF HeapType
<1>3. m \notin Buffers /\ m \in Memory \cup {NoHeap}
  BY CommandListsAssumption DEF AnyHeap, Memory
<1>4. CASE heap.desc < MaxSlots
  <2>1. /\ heap' = [heap EXCEPT !.desc = IF 2 * @ < MaxSlots THEN 2 * @ ELSE MaxSlots]
        /\ memory' = [memory EXCEPT ![m] = Retired]
        /\ retired' = Retire(m, nextID)
    BY <1>2, <1>4 DEF RollOverHeap
  <2>2. HeapType'
    BY <1>1, <2>1 DEF HeapType
  <2>3. /\ retired' \in [Queues -> Seq(Entry)]
        /\ \A k, n : Awaits(k, n) => Awaits(k, n)'
        /\ \A q \in Queues : \A i \in DOMAIN retired'[q] :
             retired'[q][i].item = m \/ (i \in DOMAIN retired[q] /\ retired'[q][i] = retired[q][i])
    BY <1>1, <1>3, <2>1, RetireIs
  <2>4. MemoryType'
    BY <1>1, <2>1, <2>3 DEF MemoryType, Entry
  <2>5. \A k \in Buffers : memory'[k] = memory[k]
    BY <1>1, <1>3, <2>1 DEF MemoryType, Memory
  <2>6. RetiredInv'
    <3> SUFFICES ASSUME NEW q \in Queues, NEW i \in DOMAIN retired'[q], retired'[q][i].item \in Buffers
                 PROVE  memory'[retired'[q][i].item].state = "retired"
      BY DEF RetiredInv
    <3>1. retired'[q][i].item # m
      BY <1>3
    <3>2. i \in DOMAIN retired[q] /\ retired'[q][i] = retired[q][i]
      BY <2>3, <3>1
    <3>3. retired[q][i].item \in Buffers /\ memory[retired[q][i].item].state = "retired"
      BY <1>1, <3>2 DEF RetiredInv
    <3> QED  BY <2>5, <3>2, <3>3
  <2> QED  BY <2>2, <2>3, <2>4, <2>5, <2>6, BuffersStay
<1>5. CASE ~(heap.desc < MaxSlots)
  <2>1. /\ heap' = [heap EXCEPT !.in = NoHeap, !.pool = ReturnHeapToPool]
        /\ memory' = memory /\ retired' = retired
    BY <1>5 DEF RollOverHeap
  <2>2. PICK p \in Seq([item : AnyHeap, last : Int]) : p = heap.pool
    BY <1>1 DEF HeapType
  <2>3. PICK e \in [item : AnyHeap, last : Int] : e = [item |-> m, last |-> nextID]
    <3>1. nextID \in Int
      BY <1>1
    <3> QED  BY <3>1
  <2>4. PICK q \in Seq([item : AnyHeap, last : Int]) : q = ReturnHeapToPool
    BY <1>2, <2>2, <2>3, AppendProperties DEF ReturnHeapToPool
  <2>5. PICK h : h = heap'
    OBVIOUS
  <2>6. h = [heap EXCEPT !.in = NoHeap, !.pool = q]
    BY <2>1, <2>4, <2>5
  <2>7. DOMAIN h = {"in", "desc", "ring", "pool"} /\ h.in = NoHeap /\ h.pool = q
    BY <1>1, <2>6 DEF HeapType
  <2>8. HeapType'
    BY <2>5, <2>7 DEF HeapType, AnyHeap
  <2> QED  BY <1>1, <2>1, <2>8, Untouched DEF MemoryType
<1> QED  BY <1>4, <1>5

-----------------------------------------------------------------------------
(* Submission                                                              *)

(* What is common to the two ends of SubmitCommandListImpl.                *)
LEMMA StartListStep ==
  ASSUME Inv, NumbersInv', nextID' = nextID \/ nextID' = nextID + 1, completed' = completed,
         NEW n, NEW a, StartList(n, a)
  PROVE  /\ ListsType' /\ ListsShrink /\ MemoryType' /\ BuffersKept /\ ItemKept /\ HeapType'
<1>1. /\ NumbersInv /\ ListsType /\ LaterInv /\ MemoryType /\ RetiredInv /\ HeapType
      /\ completed \in Nat /\ nextID \in Nat /\ nextID' \in Nat
  BY DEF Inv, TypeInv, NumbersInv
<1>2. completed <= completed' /\ completed' \in Nat
  BY <1>1
<1>3. /\ lists' = [lists EXCEPT ![n] = NewList(a)] /\ TrimDeletedObjects
      /\ heap' = [heap EXCEPT !.ring = Deallocate(heap.ring, completed)]
  BY DEF StartList
<1>4. ListsType' /\ ListsShrink
  BY <1>1, <1>2, <1>3, ListsStay
<1>5. MemoryType' /\ BuffersKept /\ ItemKept
  BY <1>1, <1>2, <1>3, TrimStep
<1>6. HeapType'
  BY <1>1, <1>3 DEF HeapType
<1> QED  BY <1>4, <1>5, <1>6

(* An allocator that is given back.                                        *)
LEMMA PoolGrows ==
  ASSUME PoolType, NumbersInv, NEW allocator,
         NEW returned, returned = Append(pool, [item |-> allocator, last |-> nextID])
  PROVE  \E S : /\ returned \in Seq([item : S, last : 0 .. nextID]) /\ returned # <<>>
                /\ Head(returned) \in [item : S, last : 0 .. nextID]
                /\ Tail(returned) \in Seq([item : S, last : 0 .. nextID])
<1>1. PICK S : pool \in Seq(Returned(S))
  BY DEF PoolType
<1>2. nextID \in Nat
  BY DEF NumbersInv
<1>3. PICK R : R = [item : S \cup {allocator}, last : 0 .. nextID]
  OBVIOUS
<1>4. Returned(S) \subseteq R
  <2>1. 0 .. nextID - 1 \subseteq 0 .. nextID
    BY <1>2
  <2> QED  BY <1>3, <2>1 DEF Returned
<1>5. pool \in Seq(R)
  BY <1>1, <1>4, SeqMonotonic
<1>6. [item |-> allocator, last |-> nextID] \in R
  BY <1>2, <1>3
<1>7. returned \in Seq(R) /\ returned # <<>>
  BY <1>5, <1>6, AppendProperties
<1>8. Head(returned) \in R /\ Tail(returned) \in Seq(R)
  BY <1>7, HeadTailProperties
<1> QED  BY <1>3, <1>7, <1>8

(* A list is submitted.                                                    *)
LEMMA SubmitStep ==
  ASSUME Inv, pressed' \subseteq Nat, completed' = completed,
         NEW below \in Seq(Frame), StackInv(below, nextID), ~Owes(below), SubmitCommandListImpl(below)
  PROVE  /\ NumbersInv' /\ nextID' = nextID + 1 /\ ListsType' /\ ListsShrink /\ PoolType'
         /\ MemoryType' /\ BuffersKept /\ ItemKept /\ HeapType'
         /\ \E G \in Seq(Frame) :
              /\ frames' = [frames EXCEPT ![Exec] = G] /\ StackInv(G, nextID')
              /\ Len(below) <= Len(G) /\ \A i \in DOMAIN below : G[i] = below[i]
              /\ below = <<>> => G = <<>> \/ (G # <<>> /\ G[1].op = "retrieve")
              /\ Owes(G) => pool' # <<>>
<1>1. /\ NumbersInv /\ ListsType /\ LaterInv /\ PoolType /\ MemoryType /\ RetiredInv /\ HeapType
      /\ completed \in Nat /\ nextID \in Nat /\ completed < nextID
  BY DEF Inv, TypeInv, NumbersInv
<1>2. nextID < MaxLists /\ nextID' = nextID + 1
  BY DEF SubmitCommandListImpl
<1>3. NumbersInv'
  <2>1. PICK c \in Nat, i \in Nat, max \in Nat : completed = c /\ nextID = i /\ MaxLists = max
    BY <1>1, CommandListsAssumption
  <2>2. c < i /\ i < max /\ completed' = c /\ nextID' = i + 1
    BY <1>1, <1>2, <2>1
  <2>3. i + 1 \in 1 .. max /\ c \in Nat /\ c < i + 1
    BY <2>2
  <2> QED  BY <2>1, <2>2, <2>3 DEF NumbersInv
<1>4. PICK returned : returned = Append(pool, [item |-> lists[nextID].allocator, last |-> nextID])
  OBVIOUS
<1>5. PICK S : /\ returned \in Seq([item : S, last : 0 .. nextID]) /\ returned # <<>>
               /\ Head(returned) \in [item : S, last : 0 .. nextID]
               /\ Tail(returned) \in Seq([item : S, last : 0 .. nextID])
  BY <1>1, <1>4, PoolGrows
<1>6. \A p \in {returned, Tail(returned)} : pool' = p => PoolType'
  <2>1. nextID' - 1 = nextID
    BY <1>1, <1>2
  <2> QED  BY <1>5, <2>1 DEF PoolType, Returned
<1>7. StackInv(below, nextID') /\ nextID <= nextID'
  BY <1>1, <1>2, StackLater
<1>8. CASE MustWait(returned)
  <2>1. /\ pool' = returned
        /\ frames' = [frames EXCEPT ![Exec] =
             below \o <<[op |-> "retrieve"], Wait(Head(returned).last, "called")>>]
        /\ lists' = lists /\ memory' = memory /\ retired' = retired /\ heap' = heap
    BY <1>4, <1>8 DEF SubmitCommandListImpl
  <2>2. PICK v : v = Head(returned).last
    OBVIOUS
  <2>3. v \in 0 .. nextID
    BY <1>5, <2>2
  <2>4. v \in Int /\ v < nextID'
    BY <1>1, <1>2, <2>3
  <2>5. PICK w : w = Wait(v, "called")
    OBVIOUS
  <2>6. w \in [op : {"wait"}, value : Int, state : {"called", "submitted", "registered", "blocked"}]
    BY <2>4, <2>5 DEF Wait
  <2>7. w \in Frame /\ w.op = "wait" /\ w.value = v
    BY <2>5, <2>6 DEF Frame, Wait
  <2>8. PICK r : r = [op |-> "retrieve"]
    OBVIOUS
  <2>9. r \in Frame /\ r.op = "retrieve"
    BY <2>8 DEF Frame
  <2>10. PICK X : X = <<r, w>>
    OBVIOUS
  <2>11. X \in Seq(Frame) /\ Len(X) = 2 /\ X[1] = r /\ X[2] = w /\ DOMAIN X = {1, 2}
    BY <2>7, <2>9, <2>10
  <2>12. StackInv(X, nextID')
    BY <2>4, <2>7, <2>9, <2>11 DEF StackInv
  <2>13. \A i \in DOMAIN X : X[i].op \notin {"map", "dispatch"}
    BY <2>7, <2>9, <2>11
  <2>14. PICK G : G = below \o X
    OBVIOUS
  <2>15. /\ G \in Seq(Frame) /\ StackInv(G, nextID') /\ Len(G) = Len(below) + Len(X)
         /\ \A i \in DOMAIN below : G[i] = below[i]
    BY <1>7, <2>11, <2>12, <2>13, <2>14, Stacked
  <2>16. below = <<>> => G # <<>> /\ G[1].op = "retrieve"
    <3>1. below = <<>> => G = X
      BY <2>11, <2>14, ConcatEmptySeq
    <3> QED  BY <2>9, <2>11, <3>1
  <2>17. Len(below) <= Len(G)
    <3>1. Len(below) \in Nat
      BY LenProperties
    <3> QED  BY <2>11, <2>15, <3>1
  <2>18. frames' = [frames EXCEPT ![Exec] = G]
    BY <2>1, <2>2, <2>5, <2>8, <2>10, <2>14
  <2>19. ListsType' /\ ListsShrink
    <3>1. completed <= completed'
      BY <1>1
    <3> QED  BY <1>1, <1>2, <1>3, <2>1, <3>1, ListsStay
  <2>20. MemoryType' /\ HeapType' /\ BuffersKept /\ ItemKept
    BY <1>1, <2>1, Untouched DEF MemoryType, HeapType
  <2> QED  BY <1>2, <1>3, <1>5, <1>6, <2>1, <2>15, <2>16, <2>17, <2>18, <2>19, <2>20
<1>9. CASE ~MustWait(returned)
  <2>1. /\ pool' = returned \/ pool' = Tail(returned)
        /\ frames' = [frames EXCEPT ![Exec] = below]
        /\ \E a : StartList(nextID + 1, a)
    BY <1>4, <1>9 DEF SubmitCommandListImpl
  <2>2. /\ ListsType' /\ ListsShrink /\ MemoryType' /\ BuffersKept /\ ItemKept /\ HeapType'
    BY <1>2, <1>3, <2>1, StartListStep
  <2>3. Len(below) <= Len(below)
    <3>1. Len(below) \in Nat
      BY LenProperties
    <3> QED  BY <3>1
  <2> QED  BY <1>2, <1>3, <1>6, <1>7, <2>1, <2>2, <2>3
<1> QED  BY <1>8, <1>9

-----------------------------------------------------------------------------
(* Frames                                                                  *)

(* The stack of one thread changes.                                        *)
LEMMA OneStack ==
  ASSUME FramesType, NEW t \in Threads, NEW G \in Seq(Frame), frames' = [frames EXCEPT ![t] = G]
  PROVE  /\ FramesType'
         /\ t = Exec => frames'[Exec] = G
         /\ t # Exec => frames'[Exec] = frames[Exec]
BY DEF FramesType, Threads

(* A thread that does nothing.                                             *)
LEMMA OnwardSame ==
  ASSUME NEW F \in Seq(Frame)
  PROVE  Onward(F, F)
<1>1. F # <<>> => Len(F) \in Nat
  BY LenProperties
<1> QED  BY <1>1 DEF Onward

(* A frame is left.                                                        *)
LEMMA OnwardPop ==
  ASSUME NEW F \in Seq(Frame), F # <<>>,
         Last(F).op = "wait" => Last(F).value <= completed \/ early'
  PROVE  Onward(F, Front(F))
<1>1. PICK n \in Nat : /\ n = Len(F) /\ n > 0 /\ Last(F) = F[n]
                       /\ Front(F) \in Seq(Frame) /\ Len(Front(F)) = n - 1
                       /\ \A i \in 1 .. n - 1 : Front(F)[i] = F[i]
  BY StackParts
<1>2. PICK G : G = Front(F)
  OBVIOUS
<1>5. Owes(G) => Owes(F)
  <2>1. DOMAIN G = 1 .. n - 1 /\ DOMAIN F = 1 .. n
    BY <1>1, <1>2, StackParts
  <2>2. \A i \in 1 .. n - 1 : i \in 1 .. n /\ G[i] = F[i]
    BY <1>1, <1>2
  <2> QED  BY <2>1, <2>2 DEF Owes
<1>3. CASE n = 1
  BY <1>1, <1>2, <1>3, <1>5 DEF Onward
<1>4. CASE n # 1
  <2>1. G[1] = F[1] /\ G # <<>>
    BY <1>1, <1>2, <1>4
  <2>2. n > 2 => Len(G) > 1 /\ G[2] = F[2]
    BY <1>1, <1>2
  <2>3. ~ (n > 2) => n = 2
    BY <1>1, <1>4
  <2>4. n = 2 /\ F[2].op = "wait" => F[2].value <= completed \/ early'
    BY <1>1
  <2> QED  BY <1>1, <1>2, <1>5, <2>1, <2>2, <2>3, <2>4 DEF Onward
<1> QED  BY <1>3, <1>4

(* Frames are added.                                                       *)
LEMMA OnwardPush ==
  ASSUME NEW F \in Seq(Frame), NEW G \in Seq(Frame), Len(F) <= Len(G), \A i \in DOMAIN F : G[i] = F[i],
         F = <<>> => G = <<>> \/ (G # <<>> /\ G[1].op \notin {"map", "dispatch"}),
         Owes(G) => Owes(F) \/ pool' # <<>>
  PROVE  Onward(F, G)
<1>1. PICK n \in Nat, m \in Nat : n = Len(F) /\ m = Len(G) /\ DOMAIN F = 1 .. n
  BY LenProperties
<1>2. CASE F = <<>>
  BY <1>2 DEF Onward
<1>3. CASE F # <<>>
  <2>1. n >= 1 /\ n <= m
    BY <1>1, <1>3
  <2>2. G[1] = F[1] /\ G # <<>>
    BY <1>1, <2>1
  <2>3. n > 1 => m > 1 /\ G[2] = F[2]
    BY <1>1, <2>1
  <2> QED  BY <1>1, <1>3, <2>2, <2>3 DEF Onward
<1> QED  BY <1>2, <1>3

(* A wait goes on.                                                         *)
LEMMA OnwardWait ==
  ASSUME NEW F \in Seq(Frame), F # <<>>, Len(F) > 1, NEW G \in Seq(Frame), Len(F) <= Len(G),
         \A i \in 1 .. Len(F) - 1 : G[i] = F[i], G[Len(F)].op = "wait", G[Len(F)].value = Last(F).value,
         Owes(G) => Owes(F) \/ pool' # <<>>
  PROVE  Onward(F, G)
<1>1. PICK n \in Nat, m \in Nat : n = Len(F) /\ m = Len(G) /\ Last(F) = F[n]
  BY StackParts, LenProperties
<1>2. n > 1 /\ n <= m
  BY <1>1
<1>3. G[1] = F[1] /\ G # <<>>
  BY <1>1, <1>2
<1>4. m > 1 /\ (n = 2 \/ n > 2)
  BY <1>2
<1>5. n > 2 => G[2] = F[2]
  BY <1>1
<1> QED  BY <1>1, <1>3, <1>4, <1>5 DEF Onward

(* The type of a stack whose wait goes on.                                 *)
LEMMA GoesOnType ==
  ASSUME NEW F \in Seq(Frame), F # <<>>, Last(F).op = "wait", NEW state \in States
  PROVE  Append(Front(F), Wait(Last(F).value, state)) \in Seq(Frame)
<1>1. Last(F) \in Frame /\ Front(F) \in Seq(Frame)
  BY StackParts
<1>2. Last(F).value \in Int
  BY <1>1, FrameIs
<1>3. PICK w : w = Wait(Last(F).value, state)
  OBVIOUS
<1>4. w \in [op : {"wait"}, value : Int, state : {"called", "submitted", "registered", "blocked"}]
  BY <1>2, <1>3 DEF Wait, States
<1>5. w \in Frame
  BY <1>4 DEF Frame
<1> QED  BY <1>1, <1>3, <1>5, AppendProperties

-----------------------------------------------------------------------------
(* Steps of any thread                                                     *)

\* What a step that submits nothing and completes nothing leaves alone.
Steady ==
  UNCHANGED <<nextID, completed, lists, pool>> /\ pressed' = pressed

(* Such a step keeps the invariant when it goes on with the stacks.        *)
LEMMA SteadyStep ==
  ASSUME Inv, Steady, FramesType', StackInv(frames'[Exec], nextID), Onward(frames[Exec], frames'[Exec]),
         MemoryType', HeapType', BuffersKept, ItemKept, early => early'
  PROVE  Inv'
<1>1. /\ NumbersInv /\ ListsType /\ PoolType /\ LaterInv
      /\ completed \in Nat /\ nextID \in Nat /\ pressed \subseteq Nat
  BY DEF Inv, TypeInv, NumbersInv
<1>2. nextID' = nextID /\ completed' = completed /\ lists' = lists /\ pool' = pool /\ pressed' = pressed
  BY DEF Steady
<1>3. NumbersInv' /\ PoolType'
  BY <1>1, <1>2 DEF NumbersInv, PoolType, Returned
<1>4. completed <= completed' /\ nextID <= nextID'
  BY <1>1, <1>2
<1>5. ListsType' /\ ListsShrink
  BY <1>1, <1>2, <1>3, <1>4, ListsStay
<1>6. TypeInv'
  BY <1>3, <1>5 DEF TypeInv
<1>7. StackInv(frames'[Exec], nextID')
  BY <1>2
<1> QED  BY <1>2, <1>4, <1>5, <1>6, <1>7, QuietStep

(* One that touches no memory and only the stack of t.                     *)
LEMMA StackStep ==
  ASSUME Inv, Steady, NEW t \in Threads, NEW G \in Seq(Frame), frames' = [frames EXCEPT ![t] = G],
         t = Exec => StackInv(G, nextID) /\ Onward(frames[Exec], G),
         memory' = memory, retired' = retired, heap' = heap, early => early'
  PROVE  Inv'
<1>1. MemoryType /\ HeapType /\ RetiredInv /\ FramesType /\ StackInv(frames[Exec], nextID)
  BY DEF Inv, TypeInv
<1>2. MemoryType' /\ HeapType' /\ BuffersKept /\ ItemKept
  BY <1>1, Untouched DEF MemoryType, HeapType
<1>3. /\ FramesType'
      /\ t = Exec => frames'[Exec] = G
      /\ t # Exec => frames'[Exec] = frames[Exec]
  BY <1>1, OneStack
<1>4. Onward(frames[Exec], frames[Exec])
  BY <1>1, OnwardSame DEF FramesType, Threads
<1> QED  BY <1>1, <1>2, <1>3, <1>4, SteadyStep

\* A step with the top of its stack.
TopIs(t, op) == frames[t] \in Seq(Frame) /\ frames[t] # <<>> /\ Last(frames[t]).op = op

(* The stack of a thread that is in a call.                                *)
LEMMA InIs ==
  ASSUME FramesType, NEW t \in Threads, NEW op, In(t, op)
  PROVE  TopIs(t, op) /\ Top(t) = Last(frames[t])
BY DEF FramesType, In, Idle, Top, TopIs

(* A frame is left, with memory as it may be.                              *)
LEMMA PopKeeps ==
  ASSUME Inv, NEW t \in Threads, frames[t] # <<>>,
         Last(frames[t]).op = "wait" /\ t = Exec => Last(frames[t]).value <= completed \/ early'
  PROVE  /\ Front(frames[t]) \in Seq(Frame)
         /\ t = Exec => StackInv(Front(frames[t]), nextID) /\ Onward(frames[Exec], Front(frames[t]))
<1>1. frames[t] \in Seq(Frame) /\ StackInv(frames[Exec], nextID)
  BY DEF Inv, TypeInv, FramesType
<1>2. Front(frames[t]) \in Seq(Frame)
  BY <1>1, StackParts
<1>3. CASE t = Exec
  BY <1>1, <1>2, <1>3, Popped, OnwardPop
<1> QED  BY <1>2, <1>3

(* The innermost wait goes on.                                             *)
LEMMA WaitKeeps ==
  ASSUME Inv, NEW t \in Threads, In(t, "wait"), NEW state \in States,
         NEW G, G = Append(Front(frames[t]), Wait(Top(t).value, state))
  PROVE  /\ G \in Seq(Frame)
         /\ t = Exec => StackInv(G, nextID) /\ Onward(frames[Exec], G) /\ WaitsOn(frames[t], G)
<1>1. TopIs(t, "wait") /\ Top(t) = Last(frames[t]) /\ StackInv(frames[Exec], nextID)
  BY InIs DEF Inv, TypeInv
<1>2. G \in Seq(Frame)
  BY <1>1, GoesOnType DEF TopIs
<1>3. CASE t = Exec
  <2>1. PICK F \in Seq(Frame) : F = frames[Exec]
    BY <1>1, <1>3 DEF TopIs
  <2>2. StackInv(G, nextID) /\ WaitsOn(F, G)
    <3>1. F # <<>> /\ Last(F).op = "wait" /\ StackInv(F, nextID) /\ Top(t) = Last(F) /\ frames[t] = F
      BY <1>1, <1>3, <2>1 DEF TopIs
    <3>2. G = Append(Front(F), Wait(Last(F).value, state))
      BY <3>1
    <3> QED  BY <3>1, <3>2, GoesOn
  <2>3. Len(F) <= Len(G)
    <3>1. Len(F) \in Nat
      BY LenProperties
    <3> QED  BY <2>2, <3>1 DEF WaitsOn
  <2>6. Owes(G) => Owes(F)
    <3>1. DOMAIN G = 1 .. Len(F) /\ DOMAIN F = 1 .. Len(F) /\ Len(F) \in Nat
      BY <1>2, <2>2, LenProperties DEF WaitsOn
    <3>2. \A i \in 1 .. Len(F) : G[i].op = "retrieve" => F[i].op = "retrieve"
      <4> TAKE i \in 1 .. Len(F)
      <4>0. PICK n \in Nat : n = Len(F)
        BY <3>1
      <4>1. i = Len(F) \/ i \in 1 .. Len(F) - 1
        BY <4>0
      <4> QED  BY <2>2, <4>1 DEF WaitsOn
    <3> QED  BY <3>1, <3>2 DEF Owes
  <2>4. Onward(F, G)
    BY <1>1, <1>2, <1>3, <2>1, <2>2, <2>3, <2>6, OnwardWait DEF TopIs, WaitsOn
  <2>5. frames[t] = F /\ Top(t) = Last(F)
    BY <1>1, <1>3, <2>1
  <2> QED  BY <1>2, <2>1, <2>2, <2>4, <2>5
<1> QED  BY <1>2, <1>3

(* The return of a wait that has slept.                                    *)
LEMMA ReturnStep ==
  ASSUME Inv, Steady, memory' = memory, retired' = retired, heap' = heap,
         NEW t \in Threads, In(t, "wait"), Return(t)
  PROVE  Inv'
<1>1. FramesType /\ completed \in Nat
  BY DEF Inv, TypeInv, NumbersInv
<1>2. TopIs(t, "wait") /\ Top(t) = Last(frames[t])
  BY <1>1, InIs
<1>3. frames' = [frames EXCEPT ![t] = Front(frames[t])] /\ (early => early')
      /\ (Top(t).value > completed => early')
  BY DEF Return
<1>4. Top(t).value \in Int
  <2>1. Top(t) \in Frame /\ Top(t).op = "wait"
    BY <1>2, StackParts DEF TopIs
  <2> QED  BY <2>1, FrameIs
<1>5. Last(frames[t]).value <= completed \/ early'
  BY <1>1, <1>2, <1>3, <1>4
<1>6. /\ Front(frames[t]) \in Seq(Frame)
      /\ t = Exec => StackInv(Front(frames[t]), nextID) /\ Onward(frames[Exec], Front(frames[t]))
  BY <1>2, <1>5, PopKeeps DEF TopIs
<1> QED  BY <1>3, <1>6, StackStep

(* WaitForSingleObject.                                                    *)
LEMMA WaitForSingleObjectStep ==
  ASSUME Inv, NEW t \in Threads, WaitForSingleObject(t)
  PROVE  Inv'
<1>1. In(t, "wait") /\ Steady /\ memory' = memory /\ retired' = retired /\ heap' = heap
  BY DEF WaitForSingleObject, Steady
<1>2. CASE signalled
  BY <1>1, <1>2, ReturnStep DEF WaitForSingleObject
<1>3. CASE ~signalled
  <2>1. PICK G : G = Append(Front(frames[t]), Wait(Top(t).value, "blocked"))
    OBVIOUS
  <2>2. frames' = [frames EXCEPT ![t] = G] /\ early' = early
    BY <1>3, <2>1 DEF WaitForSingleObject
  <2>3. "blocked" \in States
    BY DEF States
  <2>4. G \in Seq(Frame) /\ (t = Exec => StackInv(G, nextID) /\ Onward(frames[Exec], G))
    BY <1>1, <2>1, <2>3, WaitKeeps
  <2> QED  BY <1>1, <2>2, <2>4, StackStep
<1> QED  BY <1>2, <1>3

(* The event is set.                                                       *)
LEMMA SetEventStep ==
  ASSUME Inv, SetEvent
  PROVE  Inv'
<1>1. Steady /\ memory' = memory /\ retired' = retired /\ heap' = heap
  BY DEF SetEvent, Steady
<1>2. CASE Blocked = {}
  <2>1. frames' = frames /\ early' = early
    BY <1>2 DEF SetEvent
  <2>2. MemoryType /\ HeapType /\ RetiredInv /\ FramesType /\ StackInv(frames[Exec], nextID)
    BY DEF Inv, TypeInv
  <2>3. MemoryType' /\ HeapType' /\ BuffersKept /\ ItemKept /\ FramesType'
    BY <1>1, <2>1, <2>2, Untouched DEF MemoryType, HeapType, FramesType
  <2>4. Onward(frames[Exec], frames'[Exec])
    BY <2>1, <2>2, OnwardSame DEF FramesType, Threads
  <2> QED  BY <1>1, <2>1, <2>2, <2>3, <2>4, SteadyStep
<1>3. CASE Blocked # {}
  <2>1. PICK t \in Blocked : Return(t)
    BY <1>3 DEF SetEvent
  <2>2. t \in Threads /\ In(t, "wait")
    BY DEF Blocked
  <2> QED  BY <1>1, <2>1, <2>2, ReturnStep
<1> QED  BY <1>2, <1>3

(* A step that also changes memory.                                        *)
LEMMA MemoryStep ==
  ASSUME Inv, Steady, NEW t \in Threads, NEW G \in Seq(Frame), frames' = [frames EXCEPT ![t] = G],
         t = Exec => StackInv(G, nextID) /\ Onward(frames[Exec], G),
         MemoryType', HeapType', BuffersKept, ItemKept, early => early'
  PROVE  Inv'
<1>1. FramesType /\ StackInv(frames[Exec], nextID)
  BY DEF Inv, TypeInv
<1>2. /\ FramesType'
      /\ t = Exec => frames'[Exec] = G
      /\ t # Exec => frames'[Exec] = frames[Exec]
  BY <1>1, OneStack
<1>3. Onward(frames[Exec], frames[Exec])
  BY <1>1, OnwardSame DEF FramesType, Threads
<1> QED  BY <1>1, <1>2, <1>3, SteadyStep

(* No list is owed where no wait for an allocator is on top.               *)
LEMMA OwesNot ==
  ASSUME NEW F \in Seq(Frame), NEW next, StackInv(F, next),
         F # <<>> => Last(F).op # "retrieve" /\ (Last(F).op = "wait" => F[Len(F) - 1].op # "retrieve")
  PROVE  ~Owes(F)
<1>1. CASE F = <<>>
  BY <1>1 DEF Owes
<1>2. CASE F # <<>>
  <2>1. PICK n \in Nat : n = Len(F) /\ n > 0 /\ DOMAIN F = 1 .. n /\ F[n] = Last(F)
    BY <1>2, StackParts
  <2>2. SUFFICES ASSUME NEW i \in 1 .. n, F[i].op = "retrieve" PROVE FALSE
    BY <2>1 DEF Owes
  <2>3. n <= i + 1
    BY <2>1, <2>2 DEF StackInv
  <2>4. i # n
    BY <1>2, <2>1, <2>2
  <2>5. i = n - 1 /\ n > 1 /\ n \in 1 .. n
    BY <2>3, <2>4
  <2>6. F[n].op = "wait"
    BY <2>1, <2>2, <2>5 DEF StackInv
  <2> QED  BY <1>2, <2>1, <2>2, <2>5, <2>6
<1> QED  BY <1>1, <1>2

(* Frames are put on a stack that waits for nothing.                       *)
LEMMA PushKeeps ==
  ASSUME Inv, NEW t \in Threads, frames[t] # <<>> => Last(frames[t]).op \notin {"wait", "retrieve"},
         NEW X \in Seq(Frame), \A i \in DOMAIN X : X[i].op \notin {"map", "dispatch", "retrieve"},
         StackInv(X, nextID), X # <<>>
  PROVE  /\ frames[t] \o X \in Seq(Frame)
         /\ t = Exec => StackInv(frames[t] \o X, nextID) /\ Onward(frames[Exec], frames[t] \o X)
<1>1. PICK F \in Seq(Frame) : F = frames[t]
  BY DEF Inv, TypeInv, FramesType
<1>2. PICK G : G = F \o X
  OBVIOUS
<1>3. G \in Seq(Frame)
  BY <1>2, ConcatProperties
<1>4. CASE t = Exec
  <2>1. StackInv(F, nextID)
    BY <1>1, <1>4 DEF Inv
  <2>2. ~Owes(F)
    BY <1>1, <2>1, OwesNot
  <2>3. /\ StackInv(G, nextID) /\ Len(G) = Len(F) + Len(X) /\ \A i \in DOMAIN F : G[i] = F[i]
    BY <1>2, <2>1, <2>2, Stacked
  <2>4. PICK m \in Nat, n \in Nat : m = Len(F) /\ n = Len(X) /\ DOMAIN F = 1 .. m /\ DOMAIN X = 1 .. n
    BY LenProperties
  <2>5. Len(F) <= Len(G)
    BY <2>3, <2>4
  <2>6. \A i \in 1 .. m + n : G[i] = IF i <= m THEN F[i] ELSE X[i - m]
    BY <1>2, <2>4, ConcatProperties
  <2>7. ~Owes(G)
    <3>1. DOMAIN G = 1 .. m + n
      BY <1>3, <2>3, <2>4, LenProperties
    <3>2. SUFFICES ASSUME NEW i \in 1 .. m + n PROVE G[i].op # "retrieve"
      BY <3>1 DEF Owes
    <3>3. CASE i <= m
      BY <2>2, <2>4, <2>6, <3>3 DEF Owes
    <3>4. CASE ~(i <= m)
      <4>1. i - m \in 1 .. n
        BY <3>4
      <4> QED  BY <2>4, <2>6, <3>4, <4>1
    <3> QED  BY <3>3, <3>4
  <2>8. F = <<>> => G # <<>> /\ G[1].op \notin {"map", "dispatch"}
    <3>1. F = <<>> => G = X
      BY <1>2, ConcatEmptySeq
    <3>2. 1 \in DOMAIN X
      BY <2>4
    <3> QED  BY <3>1, <3>2
  <2>9. Onward(F, G)
    BY <1>3, <2>3, <2>5, <2>7, <2>8, OnwardPush
  <2> QED  BY <1>1, <1>2, <1>3, <1>4, <2>3, <2>9
<1> QED  BY <1>1, <1>2, <1>3, <1>4

(* A step that submits a list.                                             *)
LEMMA SubmittingStep ==
  ASSUME Inv, completed' = completed, early' = early, pressed' = pressed \/ pressed' = pressed \cup {nextID},
         NEW B \in Seq(Frame), StackInv(B, nextID), ~Owes(B), SubmitCommandListImpl(B),
         B # <<>> => WaitsOn(frames[Exec], B),
         Base("dispatch") => nextID \in pressed'
  PROVE  Inv'
<1>1. /\ FramesType /\ completed \in Nat /\ nextID \in Nat /\ pressed \subseteq Nat
  BY DEF Inv, TypeInv, NumbersInv
<1>2. pressed' \subseteq Nat /\ pressed \subseteq pressed'
  BY <1>1
<1>3. PICK G \in Seq(Frame) :
        /\ NumbersInv' /\ nextID' = nextID + 1 /\ ListsType' /\ ListsShrink /\ PoolType'
        /\ MemoryType' /\ BuffersKept /\ ItemKept /\ HeapType'
        /\ frames' = [frames EXCEPT ![Exec] = G] /\ StackInv(G, nextID')
        /\ Len(B) <= Len(G) /\ \A i \in DOMAIN B : G[i] = B[i]
        /\ B = <<>> => G = <<>> \/ (G # <<>> /\ G[1].op = "retrieve")
        /\ Owes(G) => pool' # <<>>
  BY <1>2, SubmitStep
<1>4. FramesType' /\ frames'[Exec] = G
  BY <1>1, <1>3, OneStack DEF Threads
<1>5. PICK F \in Seq(Frame) : F = frames[Exec]
  BY <1>1 DEF FramesType, Threads
<1>6. Onward(F, G)
  <2>1. CASE B = <<>>
    BY <1>3, <2>1 DEF Onward
  <2>2. CASE B # <<>>
    <3>1. WaitsOn(F, B)
      BY <1>5, <2>2
    <3>2. PICK n \in Nat : n = Len(F) /\ n > 1 /\ Len(B) = n
      BY <3>1, LenProperties DEF WaitsOn
    <3>3. DOMAIN B = 1 .. n
      BY <3>2, LenProperties
    <3>4. \A i \in 1 .. n - 1 : G[i] = F[i]
      BY <1>3, <3>1, <3>2, <3>3 DEF WaitsOn
    <3>5. G[n].op = "wait" /\ G[n].value = Last(F).value
      BY <1>3, <3>1, <3>2, <3>3 DEF WaitsOn
    <3>6. F # <<>>
      BY <3>2
    <3> QED  BY <1>3, <3>2, <3>4, <3>5, <3>6, OnwardWait
  <2> QED  BY <2>1, <2>2
<1>7. TypeInv'
  BY <1>3, <1>4 DEF TypeInv
<1>8. nextID <= nextID' /\ completed <= completed'
  BY <1>1, <1>3
<1> QED  BY <1>2, <1>3, <1>4, <1>5, <1>6, <1>7, <1>8, QuietStep

(* WaitForFenceValue.                                                      *)
LEMMA WaitForFenceValueStep ==
  ASSUME Inv, NEW t \in Threads, WaitForFenceValue(t)
  PROVE  Inv'
<1>1. /\ In(t, "wait") /\ FramesType /\ completed \in Nat /\ nextID \in Nat
      /\ StackInv(frames[Exec], nextID)
  BY DEF WaitForFenceValue, Inv, TypeInv, NumbersInv
<1>2. TopIs(t, "wait") /\ Top(t) = Last(frames[t])
  BY <1>1, InIs
<1>3. Top(t).value \in Int
  <2>1. Top(t) \in Frame /\ Top(t).op = "wait"
    BY <1>2, StackParts DEF TopIs
  <2> QED  BY <2>1, FrameIs
<1>4. CASE SubmitsFirst(t) /\ t = Exec
  <2>1. PICK B : B = Append(Front(frames[t]), Wait(Top(t).value, "submitted"))
    OBVIOUS
  <2>2. /\ SubmitCommandListImpl(B) /\ completed' = completed /\ early' = early
        /\ pressed' = IF Last(Front(frames[t])).op = "fallback" THEN pressed \cup {nextID} ELSE pressed
    BY <1>4, <2>1 DEF WaitForFenceValue
  <2>3. "submitted" \in States
    BY DEF States
  <2>4. B \in Seq(Frame) /\ StackInv(B, nextID) /\ WaitsOn(frames[t], B)
    BY <1>1, <1>4, <2>1, <2>3, WaitKeeps
  <2>5. PICK F \in Seq(Frame) : F = frames[t]
    BY <1>2 DEF TopIs
  <2>6. PICK n \in Nat : /\ n = Len(F) /\ n > 1 /\ DOMAIN F = 1 .. n /\ Last(F) = F[n]
                         /\ Front(F) \in Seq(Frame) /\ Len(Front(F)) = n - 1
                         /\ \A i \in 1 .. n - 1 : Front(F)[i] = F[i]
    BY <1>2, <2>4, <2>5, StackParts DEF TopIs, WaitsOn
  <2>7. /\ F[n].op = "wait" /\ nextID <= F[n].value /\ F[n].value \in Int
    BY <1>2, <1>3, <1>4, <2>5, <2>6 DEF TopIs, SubmitsFirst
  <2>8. F[n - 1].op \in {"map", "fallback"} /\ (F[n - 1].op = "map" => n = 2)
    <3>1. n \in 1 .. n /\ n - 1 \in 1 .. n /\ n - 1 \in 1 .. n - 1
      BY <2>6
    <3>2. StackInv(F, nextID)
      BY <1>1, <1>4, <2>5
    <3>3. ~(F[n].value < nextID)
      BY <1>1, <2>7
    <3>4. /\ F[n - 1].op \in {"map", "fallback", "retrieve"} /\ F[n - 1].op # "retrieve"
          /\ F[n - 1].op = "map" => n - 1 = 1
      BY <2>6, <2>7, <3>1, <3>2, <3>3 DEF StackInv
    <3> QED  BY <3>4
  <2>9. ~Owes(B)
    <3>1. Len(B) = n /\ B[n - 1] = F[n - 1] /\ B[n].op = "wait"
      BY <2>4, <2>5, <2>6 DEF WaitsOn
    <3>2. B # <<>> /\ Last(B) = B[n]
      BY <2>4, <2>6, <3>1, StackParts
    <3> QED  BY <2>4, <2>8, <3>1, <3>2, OwesNot
  <2>10. Base("dispatch") => nextID \in pressed'
    <3>1. Base("dispatch") => F[1].op = "dispatch"
      BY <1>4, <2>5 DEF Base
    <3>2. F[n - 1].op = "map" => n - 1 = 1
      BY <2>8
    <3>3. Last(Front(F)) = F[n - 1]
      <4>1. Front(F) # <<>> /\ Last(Front(F)) = Front(F)[n - 1]
        BY <2>6, StackParts
      <4> QED  BY <2>6, <4>1
    <3> QED  BY <2>2, <2>5, <2>8, <3>1, <3>2, <3>3
  <2>11. pressed' = pressed \/ pressed' = pressed \cup {nextID}
    BY <2>2
  <2> QED  BY <1>4, <2>2, <2>4, <2>9, <2>10, <2>11, SubmittingStep
<1>5. CASE ~(SubmitsFirst(t) /\ t = Exec)
  <2>1. Steady /\ memory' = memory /\ retired' = retired /\ heap' = heap /\ early' = early
    BY <1>5 DEF WaitForFenceValue, Steady, Pop
  <2>2. CASE frames' = [frames EXCEPT ![t] = Front(frames[t])] /\ (t = Exec => Top(t).value <= completed)
    <3>1. /\ Front(frames[t]) \in Seq(Frame)
          /\ t = Exec => StackInv(Front(frames[t]), nextID) /\ Onward(frames[Exec], Front(frames[t]))
      BY <1>2, <2>2, PopKeeps DEF TopIs
    <3> QED  BY <2>1, <2>2, <3>1, StackStep
  <2>3. CASE frames' = [frames EXCEPT ![t] = Append(Front(frames[t]), Wait(Top(t).value, "registered"))]
    <3>1. PICK G : G = Append(Front(frames[t]), Wait(Top(t).value, "registered"))
      OBVIOUS
    <3>2. "registered" \in States
      BY DEF States
    <3>3. G \in Seq(Frame) /\ (t = Exec => StackInv(G, nextID) /\ Onward(frames[Exec], G))
      BY <1>1, <3>1, <3>2, WaitKeeps
    <3> QED  BY <2>1, <2>3, <3>1, <3>3, StackStep
  <2> QED  BY <1>5, <2>2, <2>3 DEF WaitForFenceValue, Pop
<1> QED  BY <1>4, <1>5

(* Allocation that succeeds.                                               *)
LEMMA AllocatedKeeps ==
  ASSUME Inv, NEW t \in Threads, Allocated(t)
  PROVE  Inv'
<1>1. FramesType /\ In(t, "alloc")
  BY DEF Inv, TypeInv, Allocated
<1>2. TopIs(t, "alloc")
  BY <1>1, InIs
<1>3. MemoryType' /\ HeapType' /\ BuffersKept /\ ItemKept
  BY AllocatedStep
<1>4. /\ Front(frames[t]) \in Seq(Frame)
      /\ t = Exec => StackInv(Front(frames[t]), nextID) /\ Onward(frames[Exec], Front(frames[t]))
  BY <1>2, PopKeeps DEF TopIs
<1>5. Steady /\ frames' = [frames EXCEPT ![t] = Front(frames[t])] /\ early' = early
  BY DEF Allocated, Steady, Pop
<1> QED  BY <1>3, <1>4, <1>5, MemoryStep

(* The value that the fallback waits for is a number.                      *)
LEMMA SyncPointIs ==
  ASSUME MemoryType
  PROVE  SyncPoint \in Int
<1> DEFINE heads == {Head(retired[q]).last : q \in {r \in Queues : retired[r] # <<>>}}
<1>1. SyncPoint = IF heads = {} THEN Never ELSE CHOOSE v \in heads : \A w \in heads : v <= w
  BY DEF SyncPoint
<1>2. \A q \in Queues : retired[q] \in Seq(Entry)
  BY DEF MemoryType, Entry
<1>3. \A q \in Queues : retired[q] # <<>> => Head(retired[q]) \in Entry
  BY <1>2, HeadTailProperties
<1>4. heads \in SUBSET Nat
  BY <1>3, EntryIs
<1> HIDE DEF heads
<1>5. CASE heads = {}
  BY <1>1, <1>5, CommandListsAssumption DEF Never
<1>6. CASE heads # {}
  <2>1. \E v \in heads : \A w \in heads : v <= w
    BY <1>4, <1>6, Smallest
  <2>2. (CHOOSE v \in heads : \A w \in heads : v <= w) \in heads
    BY <2>1
  <2>3. SyncPoint \in heads
    BY <1>1, <1>6, <2>2, Zenon
  <2> QED  BY <1>4, <2>3
<1> QED  BY <1>5, <1>6

(* ResourceAllocationFallback.                                             *)
LEMMA ResourceAllocationFallbackStep ==
  ASSUME Inv, NEW t \in Threads, ResourceAllocationFallback(t)
  PROVE  Inv'
<1>1. /\ FramesType /\ In(t, "alloc") /\ MemoryType /\ RetiredInv /\ HeapType
      /\ completed \in Nat /\ nextID \in Nat /\ StackInv(frames[Exec], nextID)
  BY DEF Inv, TypeInv, ResourceAllocationFallback, NumbersInv
<1>2. Steady /\ heap' = heap /\ early' = early /\ completed' = completed
  BY DEF ResourceAllocationFallback, Steady
<1>3. CASE Left # retired
  <2>1. TrimDeletedObjects /\ frames' = frames
    BY <1>3 DEF ResourceAllocationFallback
  <2>2. completed' \in Nat /\ completed <= completed'
    BY <1>1, <1>2
  <2>3. MemoryType' /\ BuffersKept /\ ItemKept
    BY <1>1, <2>1, <2>2, TrimStep
  <2>4. HeapType' /\ FramesType'
    BY <1>1, <1>2, <2>1 DEF HeapType, FramesType
  <2>5. Onward(frames[Exec], frames'[Exec])
    BY <1>1, <2>1, OnwardSame DEF FramesType, Threads
  <2> QED  BY <1>1, <1>2, <2>1, <2>3, <2>4, <2>5, SteadyStep
<1>4. CASE ~(Left # retired)
  <2>1. PICK v \in Int : v = SyncPoint
    BY <1>1, SyncPointIs
  <2>2. PICK f : f = [op |-> "fallback", sync |-> v]
    OBVIOUS
  <2>3. f \in Frame /\ f.op = "fallback"
    BY <2>2 DEF Frame
  <2>4. PICK w : w = Wait(v, "called")
    OBVIOUS
  <2>5. w \in [op : {"wait"}, value : Int, state : {"called", "submitted", "registered", "blocked"}]
    BY <2>4 DEF Wait
  <2>6. w \in Frame /\ w.op = "wait"
    BY <2>4, <2>5 DEF Frame, Wait
  <2>7. PICK X : X = <<f, w>>
    OBVIOUS
  <2>8. X \in Seq(Frame) /\ Len(X) = 2 /\ X[1] = f /\ X[2] = w /\ DOMAIN X = {1, 2} /\ X # <<>>
    BY <2>3, <2>6, <2>7
  <2>9. StackInv(X, nextID) /\ \A i \in DOMAIN X : X[i].op \notin {"map", "dispatch", "retrieve"}
    BY <2>3, <2>6, <2>8 DEF StackInv
  <2>10. TopIs(t, "alloc")
    BY <1>1, InIs
  <2>11. /\ frames[t] \o X \in Seq(Frame)
         /\ t = Exec => StackInv(frames[t] \o X, nextID) /\ Onward(frames[Exec], frames[t] \o X)
    BY <2>8, <2>9, <2>10, PushKeeps DEF TopIs
  <2>12. frames' = [frames EXCEPT ![t] = frames[t] \o X] /\ memory' = memory /\ retired' = retired
    BY <1>4, <2>1, <2>2, <2>4, <2>7 DEF ResourceAllocationFallback, Push
  <2> QED  BY <1>2, <2>11, <2>12, StackStep
<1> QED  BY <1>3, <1>4

(* The allocation is tried again, or it has failed.                        *)
LEMMA FallbackReturnsStep ==
  ASSUME Inv, NEW t \in Threads, FallbackReturns(t)
  PROVE  Inv'
<1>1. /\ FramesType /\ In(t, "fallback") /\ MemoryType /\ RetiredInv /\ HeapType
      /\ completed \in Nat /\ nextID \in Nat
  BY DEF Inv, TypeInv, FallbackReturns, NumbersInv
<1>2. Steady /\ heap' = heap /\ early' = early /\ completed' = completed
  BY DEF FallbackReturns, Steady
<1>3. TopIs(t, "fallback")
  BY <1>1, InIs
<1>4. /\ Front(frames[t]) \in Seq(Frame)
      /\ t = Exec => StackInv(Front(frames[t]), nextID) /\ Onward(frames[Exec], Front(frames[t]))
  BY <1>3, PopKeeps DEF TopIs
<1>5. HeapType'
  BY <1>1, <1>2 DEF HeapType
<1>6. MemoryType' /\ BuffersKept /\ ItemKept
  <2>1. CASE memory' = memory /\ retired' = retired
    BY <1>1, <2>1, Untouched DEF MemoryType
  <2>2. CASE TrimDeletedObjects
    <3>1. completed' \in Nat /\ completed <= completed'
      BY <1>1, <1>2
    <3> QED  BY <1>1, <2>2, <3>1, TrimStep
  <2> QED  BY <2>1, <2>2 DEF FallbackReturns
<1>7. PICK G \in Seq(Frame) :
        /\ frames' = [frames EXCEPT ![t] = G]
        /\ t = Exec => StackInv(G, nextID) /\ Onward(frames[Exec], G)
  <2>1. CASE frames' = [frames EXCEPT ![t] = Front(frames[t])]
    BY <1>4, <2>1
  <2>2. CASE frames' = [frames EXCEPT ![t] = <<>>]
    <3>1. PICK G \in Seq(Frame) : G = <<>>
      BY EmptySeq
    <3>2. DOMAIN G = {}
      BY <3>1
    <3>3. StackInv(G, nextID) /\ Onward(frames[Exec], G)
      BY <3>1, <3>2 DEF StackInv, Onward, Owes
    <3> QED  BY <2>2, <3>1, <3>3
  <2> QED  BY <2>1, <2>2 DEF FallbackReturns, Pop
<1> QED  BY <1>2, <1>5, <1>6, <1>7, MemoryStep

-----------------------------------------------------------------------------
(* Steps of the execution thread and of the device                         *)

(* A list that is submitted with nothing under way.                        *)
LEMMA EnqueueSetEventStep ==
  ASSUME Inv, EnqueueSetEvent
  PROVE  Inv'
<1>1. /\ frames[Exec] = <<>> /\ SubmitCommandListImpl(<<>>)
      /\ completed' = completed /\ early' = early /\ pressed' = pressed
  BY DEF EnqueueSetEvent, Idle
<1>2. PICK B \in Seq(Frame) : B = <<>>
  BY EmptySeq
<1>3. StackInv(B, nextID) /\ ~Owes(B)
  <2>1. DOMAIN B = {}
    BY <1>2
  <2> QED  BY <2>1 DEF StackInv, Owes
<1>4. ~Base("dispatch")
  BY <1>1 DEF Base
<1> QED  BY <1>1, <1>2, <1>3, <1>4, SubmittingStep

(* An allocator has come back.                                             *)
LEMMA RetrieveStep ==
  ASSUME Inv, Retrieve
  PROVE  Inv'
<1>1. /\ In(Exec, "retrieve") /\ StartList(nextID, Head(pool).item) /\ pool' = Tail(pool)
      /\ frames' = [frames EXCEPT ![Exec] = Front(frames[Exec])]
      /\ nextID' = nextID /\ completed' = completed /\ early' = early /\ pressed' = pressed
  BY DEF Retrieve, Pop
<1>2. /\ FramesType /\ NumbersInv /\ PoolType /\ StackInv(frames[Exec], nextID)
      /\ completed \in Nat /\ nextID \in Nat /\ pressed \subseteq Nat
      /\ (Owes(frames[Exec]) => pool # <<>>) /\ Exec \in Threads
  BY DEF Inv, TypeInv, NumbersInv, Threads
<1>3. TopIs(Exec, "retrieve")
  BY <1>1, <1>2, InIs
<1>4. PICK F \in Seq(Frame) : F = frames[Exec] /\ F # <<>> /\ Last(F).op = "retrieve"
  BY <1>3 DEF TopIs
<1>5. PICK n \in Nat : /\ n = Len(F) /\ n > 0 /\ DOMAIN F = 1 .. n /\ Last(F) = F[n]
                       /\ DOMAIN Front(F) = 1 .. n - 1 /\ \A i \in 1 .. n - 1 : Front(F)[i] = F[i]
  BY <1>4, StackParts
<1>6. Owes(F)
  BY <1>4, <1>5 DEF Owes
<1>7. ~Owes(Front(F))
  <2>1. SUFFICES ASSUME NEW i \in 1 .. n - 1, F[i].op = "retrieve" PROVE FALSE
    BY <1>5 DEF Owes
  <2>2. i \in 1 .. n /\ n \in 1 .. n
    OBVIOUS
  <2>3. n <= i + 1
    BY <1>2, <1>4, <1>5, <2>1, <2>2 DEF StackInv
  <2>4. i = n - 1 /\ n > 1
    BY <2>3
  <2>5. F[n].op = "wait"
    BY <1>2, <1>4, <1>5, <2>1, <2>2, <2>4 DEF StackInv
  <2> QED  BY <1>4, <1>5, <2>5
<1>8. PoolType'
  <2>1. PICK S : pool \in Seq(Returned(S))
    BY <1>2 DEF PoolType
  <2>2. Tail(pool) \in Seq(Returned(S))
    BY <1>2, <1>4, <1>6, <2>1, HeadTailProperties
  <2>3. Returned(S)' = Returned(S)
    BY <1>1 DEF Returned
  <2> QED  BY <1>1, <2>2, <2>3 DEF PoolType
<1>9. NumbersInv'
  BY <1>1, <1>2 DEF NumbersInv
<1>10. /\ ListsType' /\ ListsShrink /\ MemoryType' /\ BuffersKept /\ ItemKept /\ HeapType'
  BY <1>1, <1>9, StartListStep
<1>11. /\ Front(F) \in Seq(Frame) /\ StackInv(Front(F), nextID) /\ Onward(F, Front(F))
  BY <1>2, <1>4, PopKeeps
<1>12. FramesType' /\ frames'[Exec] = Front(F)
  BY <1>1, <1>2, <1>4, <1>11, OneStack
<1>13. TypeInv'
  BY <1>8, <1>9, <1>10, <1>12 DEF TypeInv
<1>14. nextID <= nextID' /\ completed <= completed' /\ StackInv(Front(F), nextID')
  BY <1>1, <1>2, <1>11
<1> QED  BY <1>1, <1>4, <1>7, <1>10, <1>11, <1>12, <1>13, <1>14, QuietStep

(* A map returns.                                                          *)
LEMMA MapReturnsStep ==
  ASSUME Inv, MapReturns
  PROVE  Inv'
<1>1. /\ In(Exec, "map") /\ frames' = [frames EXCEPT ![Exec] = Front(frames[Exec])]
      /\ memory' = memory /\ retired' = retired /\ heap' = heap /\ early' = early /\ Steady
  BY DEF MapReturns, Pop, Steady
<1>2. Exec \in Threads /\ TopIs(Exec, "map")
  BY <1>1, InIs DEF Inv, TypeInv, Threads
<1>3. /\ Front(frames[Exec]) \in Seq(Frame)
      /\ StackInv(Front(frames[Exec]), nextID) /\ Onward(frames[Exec], Front(frames[Exec]))
  BY <1>2, PopKeeps DEF TopIs
<1> QED  BY <1>1, <1>2, <1>3, StackStep

(* A single frame that may be put on a stack.                              *)
LEMMA OneFrame ==
  ASSUME NEW f \in Frame, f.op \notin {"wait"}
  PROVE  /\ <<f>> \in Seq(Frame) /\ <<f>> # <<>> /\ DOMAIN <<f>> = {1} /\ <<f>>[1] = f
         /\ \A next : StackInv(<<f>>, next)
BY DEF StackInv

(* The heap rolls over in a dispatch.                                      *)
LEMMA RollOverHeapKeeps ==
  ASSUME Inv, RollOverHeap
  PROVE  Inv'
<1>1. In(Exec, "dispatch") /\ Steady /\ early' = early
  BY DEF RollOverHeap, Steady
<1>2. Exec \in Threads /\ TopIs(Exec, "dispatch") /\ completed \in Nat
  BY <1>1, InIs DEF Inv, TypeInv, Threads, NumbersInv
<1>3. PICK seen \in Int : /\ seen = IF heap.desc < MaxSlots THEN 0 ELSE completed
  BY <1>2
<1>4. PICK f : f = [op |-> "alloc", kind |-> "heap", seen |-> seen]
  OBVIOUS
<1>5. f \in Frame /\ f.op = "alloc"
  BY <1>4 DEF Frame
<1>6. /\ frames[Exec] \o <<f>> \in Seq(Frame)
      /\ StackInv(frames[Exec] \o <<f>>, nextID) /\ Onward(frames[Exec], frames[Exec] \o <<f>>)
  <2>1. PICK X : X = <<f>>
    OBVIOUS
  <2>2. X \in Seq(Frame) /\ X # <<>> /\ DOMAIN X = {1} /\ X[1] = f /\ StackInv(X, nextID)
    BY <1>5, <2>1, OneFrame
  <2>3. \A i \in DOMAIN X : X[i].op \notin {"map", "dispatch", "retrieve"}
    BY <1>5, <2>2
  <2>4. Last(frames[Exec]).op \notin {"wait", "retrieve"}
    BY <1>2 DEF TopIs
  <2> QED  BY <1>2, <2>1, <2>2, <2>3, <2>4, PushKeeps
<1>7. frames' = [frames EXCEPT ![Exec] = frames[Exec] \o <<f>>]
  BY <1>3, <1>4 DEF RollOverHeap, Push
<1>8. MemoryType' /\ HeapType' /\ BuffersKept /\ ItemKept
  BY RollOverStep
<1> QED  BY <1>1, <1>2, <1>6, <1>7, <1>8, MemoryStep

(* An allocation begins.                                                   *)
LEMMA BeginAllocateStep ==
  ASSUME Inv, NEW t \in Threads, BeginAllocate(t)
  PROVE  Inv'
<1>1. /\ frames[t] = <<>> /\ Steady
      /\ memory' = memory /\ retired' = retired /\ heap' = heap /\ early' = early
  BY DEF BeginAllocate, Idle, Steady
<1>2. PICK kind \in {"block", "object"} : kind = IF t = Exec THEN "block" ELSE "object"
  OBVIOUS
<1>3. PICK f : f = [op |-> "alloc", kind |-> kind]
  OBVIOUS
<1>4. f \in Frame /\ f.op = "alloc"
  BY <1>3 DEF Frame
<1>5. /\ frames[t] \o <<f>> \in Seq(Frame)
      /\ t = Exec => StackInv(frames[t] \o <<f>>, nextID) /\ Onward(frames[Exec], frames[t] \o <<f>>)
  <2>1. PICK X : X = <<f>>
    OBVIOUS
  <2>2. X \in Seq(Frame) /\ X # <<>> /\ DOMAIN X = {1} /\ X[1] = f /\ StackInv(X, nextID)
    BY <1>4, <2>1, OneFrame
  <2>3. \A i \in DOMAIN X : X[i].op \notin {"map", "dispatch", "retrieve"}
    BY <1>4, <2>2
  <2> QED  BY <1>1, <2>1, <2>2, <2>3, PushKeeps
<1>6. frames' = [frames EXCEPT ![t] = frames[t] \o <<f>>]
  BY <1>2, <1>3 DEF BeginAllocate, Push
<1> QED  BY <1>1, <1>5, <1>6, StackStep

(* A resource is given up.                                                 *)
LEMMA ReleaseKeeps ==
  ASSUME Inv, NEW m \in Memory, Release(m)
  PROVE  Inv'
<1>1. Steady /\ heap' = heap /\ frames' = frames /\ early' = early
  BY DEF Release, Steady
<1>2. HeapType /\ FramesType /\ StackInv(frames[Exec], nextID)
  BY DEF Inv, TypeInv
<1>3. HeapType' /\ FramesType' /\ Onward(frames[Exec], frames'[Exec])
  BY <1>1, <1>2, OnwardSame DEF HeapType, FramesType, Threads
<1> QED  BY <1>1, <1>2, <1>3, ReleaseStep, SteadyStep

(* The device completes a list.                                            *)
LEMMA GpuCompletesStep ==
  ASSUME Inv, GpuCompletes
  PROVE  Inv'
<1>1. /\ completed < nextID - 1 /\ completed' = completed + 1 /\ nextID' = nextID
      /\ lists' = [lists EXCEPT ![completed + 1] = NewList(0)]
      /\ heap' = heap /\ frames' = frames /\ early' = early /\ pressed' = pressed
  BY DEF GpuCompletes, Over
<1>2. /\ NumbersInv /\ ListsType /\ LaterInv /\ PoolType /\ HeapType /\ FramesType
      /\ StackInv(frames[Exec], nextID) /\ completed \in Nat /\ nextID \in Nat
  BY DEF Inv, TypeInv, NumbersInv
<1>3. NumbersInv' /\ completed <= completed' /\ nextID <= nextID'
  BY <1>1, <1>2 DEF NumbersInv
<1>4. ListsType' /\ ListsShrink
  BY <1>1, <1>2, <1>3, ListsStay
<1>5. MemoryType' /\ BuffersKept /\ ItemKept
  BY GpuMemory
<1>6. PoolType' /\ (pool # <<>> => pool' # <<>>)
  <2>1. PICK S : pool \in Seq(Returned(S))
    BY <1>2 DEF PoolType
  <2>2. PICK n \in Nat : n = Len(pool) /\ DOMAIN pool = 1 .. n
    BY <2>1, LenProperties
  <2>3. pool' = [i \in 1 .. n |-> [pool[i] EXCEPT !.last = Pending(pool[i].last)]]
    BY <2>2 DEF GpuCompletes
  <2>4. 0 \in 0 .. nextID - 1 /\ \A v \in 0 .. nextID - 1 : Pending(v) \in 0 .. nextID - 1
    BY <1>1, <1>2 DEF Pending
  <2>5. ASSUME NEW i \in 1 .. n
        PROVE  [pool[i] EXCEPT !.last = Pending(pool[i].last)] \in Returned(S)
    <3>1. PICK e \in Returned(S) : e = pool[i]
      BY <2>1, <2>2
    <3>2. PICK v \in 0 .. nextID - 1 : v = Pending(e.last)
      BY <2>4 DEF Returned
    <3>3. [e EXCEPT !.last = v] \in Returned(S)
      BY DEF Returned
    <3> QED  BY <3>1, <3>2, <3>3
  <2>6. [i \in 1 .. n |-> [pool[i] EXCEPT !.last = Pending(pool[i].last)]] \in Seq(Returned(S))
    BY <2>5, IsASeq
  <2>7. Returned(S)' = Returned(S)
    BY <1>1 DEF Returned
  <2>8. n # 0 => pool' # <<>>
    BY <2>3
  <2>9. pool' \in Seq(Returned(S)')
    BY <2>3, <2>6, <2>7
  <2>10. PoolType'
    BY <2>9 DEF PoolType
  <2>11. pool # <<>> => n # 0
    BY <2>1, <2>2
  <2> QED  BY <2>8, <2>10, <2>11
<1>7. HeapType' /\ FramesType' /\ Onward(frames[Exec], frames'[Exec])
  BY <1>1, <1>2, OnwardSame DEF HeapType, FramesType, Threads
<1>8. TypeInv'
  BY <1>3, <1>4, <1>5, <1>6, <1>7 DEF TypeInv
<1> QED  BY <1>1, <1>2, <1>3, <1>4, <1>5, <1>6, <1>7, <1>8, QuietStep

-----------------------------------------------------------------------------
(* Recording                                                               *)

(* What the list being recorded uses is marked for it.                     *)
LEMMA MarkStep ==
  ASSUME NumbersInv, MemoryType, RetiredInv, NEW m \in Memory, Usable(m), NEW writes \in BOOLEAN,
         memory' = MarkUsed(m, writes), retired' = retired, nextID' = nextID, completed' = completed
  PROVE  /\ MemoryType' /\ BuffersKept
         /\ memory'[m].state = "live" /\ memory'[m].last = nextID
         /\ writes => memory'[m].written = nextID
<1>1. PICK c \in Nat, i \in Nat : completed = c /\ nextID = i
  BY DEF NumbersInv
<1>2. PICK p \in LivePiece : p = memory[m]
  BY PieceIs DEF Usable
<1>3. PICK w \in Nat : w = IF writes THEN i ELSE p.written
  BY DEF LivePiece
<1>4. PICK u : u = [p EXCEPT !.last = i, !.written = w]
  OBVIOUS
<1>5. /\ u \in LivePiece /\ u.state = "live" /\ u.last = i /\ u.written = w
      /\ p.state = "live" /\ p.written \in Nat /\ p.last \in Nat
  BY <1>4 DEF LivePiece
<1>6. memory' = [memory EXCEPT ![m] = u]
  BY <1>1, <1>2, <1>3, <1>4 DEF MarkUsed, Used
<1>7. memory'[m] = u /\ \A k \in Memory : k # m => memory'[k] = memory[k]
  BY <1>6 DEF MemoryType
<1>8. MemoryType'
  BY <1>5, <1>6 DEF MemoryType
<1>9. RetiredInv'
  <2>1. \A q \in Queues : \A j \in DOMAIN retired[q] : retired[q][j].item # m
    BY <1>2, <1>5 DEF RetiredInv, Usable
  <2> QED  BY <1>7, <2>1 DEF RetiredInv, Memory
<1>10. ASSUME NEW k \in Buffers, NEW n \in completed' + 1 .. nextID
       PROVE  (Marked(k, n) => Marked(k, n)') /\ (MarkedWritten(k, n) => MarkedWritten(k, n)')
  <2>1. Awaits(k, n)' <=> Awaits(k, n)
    BY DEF Awaits
  <2>2. CASE k = m
    <3>1. n \in c + 1 .. i
      BY <1>1
    <3>2. i >= n /\ (p.written >= n => w >= n)
      BY <1>3, <3>1
    <3> QED  BY <1>2, <1>5, <1>7, <2>1, <2>2, <3>2 DEF Marked, MarkedWritten
  <2>3. CASE k # m
    BY <1>7, <2>1, <2>3 DEF Marked, MarkedWritten, Memory
  <2> QED  BY <2>2, <2>3
<1> QED  BY <1>1, <1>3, <1>5, <1>7, <1>8, <1>9, <1>10 DEF BuffersKept

(* The list being recorded gets something more.                            *)
LEMMA RecordStep ==
  ASSUME Inv, Exec \in Threads, nextID' = nextID, completed' = completed, pool' = pool, pressed' = pressed,
         NEW e, lists' = [lists EXCEPT ![nextID] = e], DOMAIN e = Fields,
         frames'[Exec] = <<>>, FramesType', MemoryType', HeapType', BuffersKept,
         \A m \in Buffers : m \in e.uses =>
           m \in lists[nextID].uses \/ (memory'[m].state = "live" /\ memory'[m].last >= nextID),
         \A m \in Buffers : m \in e.writes =>
           \/ m \in lists[nextID].writes
           \/ memory'[m].state = "live" /\ memory'[m].last >= nextID /\ memory'[m].written >= nextID,
         e.torn => lists[nextID].torn \/ Pressed
  PROVE  Inv'
<1>1. /\ NumbersInv /\ ListsType /\ PoolType /\ LaterInv /\ UsesInv /\ DispatchesWhole
  BY DEF Inv, TypeInv
<1>2. PICK c \in Nat, i \in Nat, max \in Nat : completed = c /\ nextID = i /\ MaxLists = max
  BY <1>1, CommandListsAssumption DEF NumbersInv
<1>3. c < i /\ i >= 1 /\ i <= max /\ completed' = c /\ nextID' = i
  BY <1>1, <1>2 DEF NumbersInv
<1>4. NumbersInv' /\ PoolType'
  BY <1>1 DEF NumbersInv, PoolType, Returned
<1>5. /\ DOMAIN lists' = 1 .. max /\ lists'[i] = e
      /\ \A n \in 1 .. max : n # i => lists'[n] = lists[n]
  BY <1>1, <1>2, <1>3 DEF ListsType
<1>6. ListsType'
  BY <1>1, <1>2, <1>5 DEF ListsType
<1>7. LaterInv'
  <2>1. \A n \in i + 1 .. max : n \in 1 .. max /\ n # i
    BY <1>3
  <2>2. \A n \in i + 1 .. max : lists'[n].uses = {} /\ lists'[n].writes = {} /\ ~lists'[n].torn
    BY <1>1, <1>2, <1>5, <2>1 DEF LaterInv
  <2> QED  BY <1>2, <1>3, <2>2 DEF LaterInv
<1>8. UsesInv'
  <2>1. ASSUME NEW n \in c + 1 .. i, NEW m \in Buffers
        PROVE  /\ m \in lists'[n].uses => Marked(m, n)'
               /\ m \in lists'[n].writes => MarkedWritten(m, n)'
    <3>1. n \in completed' + 1 .. nextID /\ n \in completed + 1 .. nextID
      BY <1>2, <1>3
    <3>2. /\ m \in lists[n].uses => Marked(m, n)'
          /\ m \in lists[n].writes => MarkedWritten(m, n)'
      BY <1>1, <3>1 DEF UsesInv, BuffersKept
    <3>3. CASE n = i
      BY <1>2, <1>5, <3>2, <3>3 DEF Marked, MarkedWritten
    <3>4. CASE n # i
      <4>1. n \in 1 .. max
        BY <1>3
      <4> QED  BY <1>5, <3>2, <3>4, <4>1
    <3> QED  BY <3>3, <3>4
  <2> QED  BY <1>2, <1>3, <2>1 DEF UsesInv
<1>9. DispatchesWhole'
  <2>1. ASSUME NEW n \in 1 .. i, lists'[n].torn
        PROVE  \E p \in pressed : p < n
    <3>1. CASE n = i
      BY <1>1, <1>2, <1>3, <1>5, <2>1, <3>1 DEF Pressed, DispatchesWhole
    <3>2. CASE n # i
      <4>1. n \in 1 .. max
        BY <1>3
      <4> QED  BY <1>1, <1>2, <1>5, <2>1, <3>2, <4>1 DEF DispatchesWhole
    <3> QED  BY <3>1, <3>2
  <2> QED  BY <1>3, <2>1 DEF DispatchesWhole
<1>10. /\ StackInv(frames'[Exec], nextID') /\ ~Owes(frames'[Exec])
       /\ DispatchInv' /\ MapInv'
  <2>1. DOMAIN frames'[Exec] = {}
    OBVIOUS
  <2> QED  BY <2>1 DEF StackInv, Owes, DispatchInv, MapInv, Base
<1>11. TypeInv'
  BY <1>4, <1>6 DEF TypeInv
<1> QED  BY <1>7, <1>8, <1>9, <1>10, <1>11 DEF Inv, BuffersKept

(* Something is recorded in one go.                                        *)
LEMMA RecordCopyStep ==
  ASSUME Inv, NEW m \in Memory, NEW writes \in BOOLEAN, RecordCopy(m, writes)
  PROVE  Inv'
<1>1. /\ frames[Exec] = <<>> /\ Usable(m) /\ memory' = MarkUsed(m, writes)
      /\ lists' = [lists EXCEPT ![nextID] = WithCopy(lists[nextID], m, writes)]
      /\ nextID' = nextID /\ completed' = completed /\ pool' = pool /\ retired' = retired
      /\ heap' = heap /\ frames' = frames /\ pressed' = pressed
  BY DEF RecordCopy, Idle
<1>2. /\ NumbersInv /\ ListsType /\ MemoryType /\ HeapType /\ FramesType /\ RetiredInv
      /\ nextID \in 1 .. MaxLists /\ nextID \in Nat
  BY DEF Inv, TypeInv, NumbersInv
<1>3. /\ MemoryType' /\ BuffersKept
      /\ memory'[m].state = "live" /\ memory'[m].last = nextID
      /\ writes => memory'[m].written = nextID
  BY <1>1, <1>2, MarkStep
<1>4. PICK l : l = lists[nextID]
  OBVIOUS
<1>5. DOMAIN l = Fields
  BY <1>2, <1>4 DEF ListsType
<1>6. PICK e : e = WithCopy(l, m, writes)
  OBVIOUS
<1>7. PICK w : w = IF writes THEN l.writes \cup {m} ELSE l.writes
  OBVIOUS
<1>8. e = [l EXCEPT !.uses = l.uses \cup {m}, !.writes = w]
  BY <1>6, <1>7 DEF WithCopy
<1>9. DOMAIN e = Fields /\ e.uses = l.uses \cup {m} /\ e.writes = w /\ e.torn = l.torn
  BY <1>5, <1>8 DEF Fields
<1>10. HeapType' /\ FramesType' /\ frames'[Exec] = <<>> /\ Exec \in Threads
  BY <1>1, <1>2 DEF HeapType, FramesType, Threads
<1>11. nextID >= nextID
  BY <1>2
<1>12. lists' = [lists EXCEPT ![nextID] = e]
  BY <1>1, <1>4, <1>6
<1>13. \A k \in Buffers : k \in e.uses =>
         k \in lists[nextID].uses \/ (memory'[k].state = "live" /\ memory'[k].last >= nextID)
  BY <1>3, <1>4, <1>9, <1>11
<1>14. \A k \in Buffers : k \in e.writes =>
         \/ k \in lists[nextID].writes
         \/ memory'[k].state = "live" /\ memory'[k].last >= nextID /\ memory'[k].written >= nextID
  BY <1>3, <1>4, <1>7, <1>9, <1>11
<1>15. e.torn => lists[nextID].torn \/ Pressed
  BY <1>4, <1>9
<1> QED  BY <1>1, <1>3, <1>9, <1>10, <1>12, <1>13, <1>14, <1>15, RecordStep

(* The dispatch is recorded.                                               *)
LEMMA DispatchStep ==
  ASSUME Inv, Dispatch
  PROVE  Inv'
<1>1. PICK slots :
      /\ In(Exec, "dispatch")
      /\ lists' = [lists EXCEPT ![nextID] = WithDispatch(lists[nextID], Top(Exec), slots)]
      /\ frames' = [frames EXCEPT ![Exec] = Front(frames[Exec])]
      /\ nextID' = nextID /\ completed' = completed /\ pool' = pool /\ memory' = memory
      /\ retired' = retired /\ pressed' = pressed
  BY DEF Dispatch, Pop
<1>2. heap' = [heap EXCEPT !.ring = Allocate(heap.ring, SlotsOfDispatch, nextID).ring]
  BY DEF Dispatch
<1>3. /\ NumbersInv /\ ListsType /\ MemoryType /\ HeapType /\ FramesType /\ RetiredInv /\ DispatchInv
      /\ nextID \in 1 .. MaxLists /\ nextID \in Nat /\ Exec \in Threads /\ StackInv(frames[Exec], nextID)
  BY DEF Inv, TypeInv, NumbersInv, Threads
<1>4. TopIs(Exec, "dispatch") /\ Top(Exec) = Last(frames[Exec])
  BY <1>1, <1>3, InIs
<1>5. PICK F \in Seq(Frame) : F = frames[Exec] /\ F # <<>> /\ Last(F).op = "dispatch"
  BY <1>4 DEF TopIs
<1>6. Len(F) = 1 /\ Last(F) = F[1] /\ Front(F) = <<>>
  <2>1. PICK n \in Nat : /\ n = Len(F) /\ n > 0 /\ DOMAIN F = 1 .. n /\ Last(F) = F[n]
                         /\ Front(F) \in Seq(Frame) /\ Len(Front(F)) = n - 1
    BY <1>5, StackParts
  <2>2. n = 1
    <3>1. n \in DOMAIN F /\ F[n].op = "dispatch" /\ StackInv(F, nextID)
      BY <1>3, <1>5, <2>1
    <3>2. F[n].op \in {"map", "dispatch"} => n = 1
      BY <3>1 DEF StackInv
    <3> QED  BY <3>1, <3>2
  <2>3. Front(F) = <<>>
    BY <2>1, <2>2, EmptySeq
  <2> QED  BY <2>1, <2>2, <2>3
<1>7. PICK f \in Frame : f = F[1] /\ f.op = "dispatch"
  BY <1>5, <1>6
<1>8. Base("dispatch") /\ Bottom = f /\ Top(Exec) = f
  BY <1>4, <1>5, <1>6, <1>7 DEF Base, Bottom
<1>9. /\ f.item \in Buffers /\ memory[f.item].state = "live"
      /\ f.list = nextID => memory[f.item].last = nextID /\ memory[f.item].written = nextID
      /\ f.list # nextID => Pressed
  BY <1>3, <1>8 DEF DispatchInv
<1>10. PICK l : l = lists[nextID] /\ DOMAIN l = Fields
  BY <1>3 DEF ListsType
<1>11. PICK args : args = IF f.list = nextID THEN {f.item} ELSE {}
  OBVIOUS
<1>12. PICK e : e = WithDispatch(l, f, slots)
  OBVIOUS
<1>13. e = [l EXCEPT !.uses = l.uses \cup {heap.in} \cup args, !.writes = l.writes \cup args,
                     !.slots = l.slots \cup slots, !.torn = l.torn \/ f.list # nextID]
  BY <1>11, <1>12 DEF WithDispatch
<1>14. /\ DOMAIN e = Fields /\ e.uses = l.uses \cup {heap.in} \cup args
       /\ e.writes = l.writes \cup args /\ (e.torn => l.torn \/ f.list # nextID)
  BY <1>10, <1>13 DEF Fields
<1>15. heap.in \notin Buffers
  BY <1>3, CommandListsAssumption DEF HeapType, AnyHeap, Memory
<1>16. nextID >= nextID
  BY <1>3
<1>17. \A k \in Buffers : k \in args =>
         memory[k].state = "live" /\ memory[k].last >= nextID /\ memory[k].written >= nextID
  BY <1>9, <1>11, <1>16
<1>18. \A k \in Buffers : k \in e.uses =>
         k \in lists[nextID].uses \/ (memory'[k].state = "live" /\ memory'[k].last >= nextID)
  BY <1>1, <1>10, <1>14, <1>15, <1>17
<1>19. \A k \in Buffers : k \in e.writes =>
         \/ k \in lists[nextID].writes
         \/ memory'[k].state = "live" /\ memory'[k].last >= nextID /\ memory'[k].written >= nextID
  BY <1>1, <1>10, <1>14, <1>17
<1>20. e.torn => lists[nextID].torn \/ Pressed
  BY <1>9, <1>10, <1>14
<1>21. HeapType'
  BY <1>2, <1>3 DEF HeapType
<1>22. MemoryType' /\ BuffersKept
  BY <1>1, <1>3, Untouched DEF MemoryType
<1>23. FramesType' /\ frames'[Exec] = <<>>
  <2>1. Front(F) \in Seq(Frame)
    BY <1>5, StackParts
  <2> QED  BY <1>1, <1>3, <1>5, <1>6, <2>1, OneStack
<1>24. lists' = [lists EXCEPT ![nextID] = e]
  BY <1>1, <1>8, <1>10, <1>12
<1> QED  BY <1>1, <1>3, <1>14, <1>18, <1>19, <1>20, <1>21, <1>22, <1>23, <1>24, RecordStep

(* A dispatch begins.                                                      *)
LEMMA BeginDispatchStep ==
  ASSUME Inv, NEW m \in Memory, BeginDispatch(m)
  PROVE  Inv'
<1>1. /\ frames[Exec] = <<>> /\ Usable(m) /\ memory' = MarkUsed(m, TRUE)
      /\ frames' = [frames EXCEPT ![Exec] = frames[Exec] \o <<[op |-> "dispatch", item |-> m, list |-> nextID]>>]
      /\ nextID' = nextID /\ completed' = completed /\ pool' = pool /\ retired' = retired
      /\ lists' = lists /\ heap' = heap /\ pressed' = pressed /\ early' = early
  BY DEF BeginDispatch, Idle, Push
<1>2. /\ NumbersInv /\ ListsType /\ PoolType /\ MemoryType /\ HeapType /\ FramesType /\ RetiredInv
      /\ UsesInv /\ LaterInv /\ DispatchesWhole /\ nextID \in Nat /\ completed \in Nat
  BY DEF Inv, TypeInv, NumbersInv
<1>3. /\ MemoryType' /\ BuffersKept
      /\ memory'[m].state = "live" /\ memory'[m].last = nextID /\ memory'[m].written = nextID
  BY <1>1, <1>2, MarkStep
<1>4. PICK f : f = [op |-> "dispatch", item |-> m, list |-> nextID]
  OBVIOUS
<1>5. f \in Frame /\ f.op = "dispatch" /\ f.item = m /\ f.list = nextID
  BY <1>2, <1>4 DEF Frame
<1>6. PICK G \in Seq(Frame) : G = <<f>> /\ G # <<>> /\ DOMAIN G = {1} /\ G[1] = f /\ StackInv(G, nextID)
  BY <1>5, OneFrame
<1>7. frames' = [frames EXCEPT ![Exec] = G]
  <2>1. <<>> \o <<f>> = G
    BY <1>6, ConcatEmptySeq
  <2> QED  BY <1>1, <1>4, <2>1
<1>8. FramesType' /\ frames'[Exec] = G
  BY <1>2, <1>7, OneStack DEF Threads
<1>9. NumbersInv' /\ ListsType' /\ PoolType' /\ HeapType'
  BY <1>1, <1>2 DEF NumbersInv, ListsType, PoolType, Returned, HeapType
<1>10. completed <= completed' /\ nextID' \in Nat /\ completed' \in Nat
  BY <1>1, <1>2
<1>11. ListsShrink
  BY <1>1, <1>2, <1>9, <1>10, ListsStay
<1>12. UsesInv' /\ RetiredInv' /\ LaterInv' /\ DispatchesWhole'
  BY <1>1, <1>2, <1>3, <1>10, <1>11, ListsStep
<1>13. m \in Buffers
  BY <1>1 DEF Usable
<1>14. DispatchInv'
  <2>1. frames'[Exec][1] = f
    BY <1>6, <1>8
  <2>2. f.list <= nextID
    BY <1>2, <1>5
  <2> QED  BY <1>1, <1>3, <1>5, <1>13, <2>1, <2>2 DEF DispatchInv, Bottom
<1>15. MapInv' /\ ~Owes(frames'[Exec]) /\ StackInv(frames'[Exec], nextID')
  BY <1>1, <1>5, <1>6, <1>8 DEF MapInv, Base, Owes
<1> QED  BY <1>3, <1>8, <1>9, <1>12, <1>14, <1>15 DEF Inv, TypeInv

(* A map begins.                                                           *)
LEMMA MapStep ==
  ASSUME Inv, NEW m \in Memory, NEW reads \in BOOLEAN, Map(m, reads)
  PROVE  Inv'
<1>1. /\ frames[Exec] = <<>> /\ Usable(m) /\ memory' = memory
      /\ frames' = [frames EXCEPT ![Exec] = frames[Exec] \o
           <<[op |-> "map", item |-> m, reads |-> reads], Wait(MapFenceValue(m, reads), "called")>>]
      /\ nextID' = nextID /\ completed' = completed /\ pool' = pool /\ retired' = retired
      /\ lists' = lists /\ heap' = heap /\ pressed' = pressed /\ early' = early
  BY DEF Map, Idle, Push
<1>2. /\ NumbersInv /\ ListsType /\ PoolType /\ MemoryType /\ HeapType /\ FramesType /\ RetiredInv
      /\ UsesInv /\ LaterInv /\ DispatchesWhole /\ nextID \in Nat /\ completed \in Nat
  BY DEF Inv, TypeInv, NumbersInv
<1>3. m \in Buffers /\ memory[m].state = "live"
  BY <1>1 DEF Usable
<1>4. memory[m].last \in Nat /\ memory[m].written \in Nat
  BY <1>2, <1>3, PieceIs
<1>5. PICK v \in Nat : v = IF reads THEN memory[m].written ELSE memory[m].last
  BY <1>4
<1>6. PICK f : f = [op |-> "map", item |-> m, reads |-> reads]
  OBVIOUS
<1>7. f \in Frame /\ f.op = "map" /\ f.item = m /\ f.reads = reads
  BY <1>6 DEF Frame
<1>8. PICK w : w = Wait(v, "called")
  OBVIOUS
<1>9. w \in [op : {"wait"}, value : Int, state : {"called", "submitted", "registered", "blocked"}]
  BY <1>8 DEF Wait
<1>10. w \in Frame /\ w.op = "wait" /\ w.value = v
  BY <1>8, <1>9 DEF Frame, Wait
<1>11. PICK G : G = <<f, w>>
  OBVIOUS
<1>12. G \in Seq(Frame) /\ Len(G) = 2 /\ G # <<>> /\ DOMAIN G = {1, 2} /\ G[1] = f /\ G[2] = w
  BY <1>7, <1>10, <1>11
<1>13. StackInv(G, nextID) /\ ~Owes(G)
  BY <1>7, <1>10, <1>12 DEF StackInv, Owes
<1>14. frames' = [frames EXCEPT ![Exec] = G]
  <2>1. <<>> \o <<f, w>> = G
    BY <1>11, <1>12, ConcatEmptySeq
  <2>2. MapFenceValue(m, reads) = v
    BY <1>5 DEF MapFenceValue
  <2> QED  BY <1>1, <1>6, <1>8, <2>1, <2>2
<1>15. FramesType' /\ frames'[Exec] = G
  BY <1>2, <1>12, <1>14, OneStack DEF Threads
<1>16. NumbersInv' /\ ListsType' /\ PoolType' /\ HeapType' /\ MemoryType'
  BY <1>1, <1>2 DEF NumbersInv, ListsType, PoolType, Returned, HeapType, MemoryType
<1>17. completed <= completed' /\ nextID' \in Nat /\ completed' \in Nat
  BY <1>1, <1>2
<1>18. ListsShrink /\ BuffersKept
  BY <1>1, <1>2, <1>16, <1>17, ListsStay, Untouched
<1>19. UsesInv' /\ RetiredInv' /\ LaterInv' /\ DispatchesWhole'
  BY <1>1, <1>2, <1>17, <1>18, ListsStep
<1>20. \A n : ~Awaits(m, n)
  BY <1>2, <1>3 DEF Awaits, RetiredInv
<1>21. ASSUME NEW n \in completed + 1 .. nextID, m \in lists[n].writes \/ (~reads /\ m \in lists[n].uses)
       PROVE  n <= v
  <2>1. n \in Int
    BY <1>2
  <2>2. /\ m \in lists[n].uses => memory[m].last >= n
        /\ m \in lists[n].writes => memory[m].last >= n /\ memory[m].written >= n
    BY <1>2, <1>3, <1>20 DEF UsesInv, Marked, MarkedWritten
  <2>3. v >= n
    BY <1>5, <1>21, <2>2
  <2> QED  BY <2>1, <2>3
<1>22. MapInv'
  <2>1. Bottom' = f /\ Len(frames'[Exec]) = 2 /\ frames'[Exec][2] = w
    BY <1>12, <1>15 DEF Bottom
  <2>2. ASSUME NEW n \in completed' + 1 .. nextID',
               f.item \in lists'[n].writes \/ (~f.reads /\ f.item \in lists'[n].uses)
        PROVE  n <= w.value
    <3>1. n \in completed + 1 .. nextID
      BY <1>1, <2>2
    <3>2. m \in lists[n].writes \/ (~reads /\ m \in lists[n].uses)
      BY <1>1, <1>7, <2>2
    <3> QED  BY <1>10, <1>21, <3>1, <3>2
  <2> QED  BY <1>3, <1>7, <1>10, <2>1, <2>2 DEF MapInv
<1>23. DispatchInv'
  BY <1>7, <1>12, <1>15 DEF DispatchInv, Base
<1>24. StackInv(frames'[Exec], nextID') /\ ~Owes(frames'[Exec])
  BY <1>1, <1>13, <1>15
<1> QED  BY <1>15, <1>16, <1>19, <1>22, <1>23, <1>24 DEF Inv, TypeInv

-----------------------------------------------------------------------------
(* The theorems                                                            *)

(* Nothing has been recorded or marked at first.                           *)
LEMMA InitInv ==
  ASSUME Init
  PROVE  Inv
<1>1. PICK o \in Heaps :
      /\ nextID = 1 /\ completed = 0
      /\ lists = [n \in 1 .. MaxLists |-> IF n = 1 THEN NewList(1) ELSE Over]
      /\ pool = <<>>
      /\ memory = [m \in Memory |-> IF m = o THEN Live("heap") ELSE Free]
      /\ retired = [object |-> <<>>, block |-> <<>>]
      /\ heap = [in |-> o, desc |-> StartSlots, ring |-> Ring(StartSlots), pool |-> <<>>]
      /\ frames = [t \in Threads |-> <<>>] /\ pressed = {}
  BY DEF Init
<1>2. PICK max \in Nat : max = MaxLists /\ max >= 1
  BY CommandListsAssumption
<1>3. \A n \in 1 .. max : /\ DOMAIN lists[n] = Fields /\ lists[n].uses = {}
                          /\ lists[n].writes = {} /\ ~lists[n].torn
  BY <1>1, <1>2 DEF NewList, Over, Fields
<1>4. NumbersInv
  BY <1>1, <1>2 DEF NumbersInv
<1>5. ListsType
  BY <1>1, <1>2, <1>3 DEF ListsType
<1>6. PoolType
  <2>1. pool \in Seq(Returned({}))
    BY <1>1, EmptySeq
  <2> QED  BY <2>1 DEF PoolType
<1>7. MemoryType /\ RetiredInv
  <2>1. Live("heap") \in LivePiece
    BY DEF Live, LivePiece
  <2>2. memory \in [Memory -> {Free, Retired} \cup LivePiece]
    BY <1>1, <2>1
  <2>3. \A q \in Queues : retired[q] = <<>>
    BY <1>1 DEF Queues
  <2>4. DOMAIN retired = Queues /\ retired = [q \in Queues |-> retired[q]]
    BY <1>1 DEF Queues
  <2>5. \A q \in Queues : retired[q] \in Seq(Entry)
    BY <2>3, EmptySeq
  <2>6. retired \in [Queues -> Seq(Entry)]
    BY <2>4, <2>5
  <2>7. \A q \in Queues : DOMAIN retired[q] = {}
    BY <2>3
  <2> QED  BY <2>2, <2>6, <2>7 DEF MemoryType, Entry, RetiredInv
<1>8. HeapType
  <2>1. heap.pool = <<>> /\ heap.in = o /\ DOMAIN heap = {"in", "desc", "ring", "pool"}
    BY <1>1
  <2>2. heap.pool \in Seq([item : AnyHeap, last : Int])
    BY <2>1, EmptySeq
  <2> QED  BY <2>1, <2>2 DEF HeapType, AnyHeap
<1>9. FramesType
  <2>1. <<>> \in Seq(Frame)
    BY EmptySeq
  <2> QED  BY <1>1, <2>1 DEF FramesType
<1>10. frames[Exec] = <<>> /\ DOMAIN frames[Exec] = {}
  BY <1>1 DEF Threads
<1>11. /\ StackInv(frames[Exec], nextID) /\ ~Owes(frames[Exec])
       /\ DispatchInv /\ MapInv
  BY <1>10 DEF StackInv, Owes, DispatchInv, MapInv, Base
<1>12. UsesInv
  <2>1. \A n \in completed + 1 .. nextID : n \in 1 .. max
    BY <1>1, <1>2
  <2> QED  BY <1>3, <2>1 DEF UsesInv
<1>13. LaterInv
  <2>1. \A n \in nextID + 1 .. MaxLists : n \in 1 .. max
    BY <1>1, <1>2
  <2> QED  BY <1>3, <2>1 DEF LaterInv
<1>14. DispatchesWhole
  <2>1. \A n \in 1 .. nextID : n \in 1 .. max
    BY <1>1, <1>2
  <2> QED  BY <1>3, <2>1 DEF DispatchesWhole
<1> QED  BY <1>4, <1>5, <1>6, <1>7, <1>8, <1>9, <1>11, <1>12, <1>13, <1>14 DEF Inv, TypeInv

(* A step of one thread.                                                   *)
LEMMA ThreadStepKeeps ==
  ASSUME Inv, NEW t \in Threads, ThreadStep(t)
  PROVE  Inv'
<1>1. CASE WaitForFenceValue(t)
  BY <1>1, WaitForFenceValueStep
<1>2. CASE WaitForSingleObject(t)
  BY <1>2, WaitForSingleObjectStep
<1>3. CASE Allocated(t)
  BY <1>3, AllocatedKeeps
<1>4. CASE ResourceAllocationFallback(t)
  BY <1>4, ResourceAllocationFallbackStep
<1>5. CASE FallbackReturns(t)
  BY <1>5, FallbackReturnsStep
<1> QED  BY <1>1, <1>2, <1>3, <1>4, <1>5 DEF ThreadStep

(* Every step preserves the invariant.                                     *)
LEMMA NextInv ==
  ASSUME Inv, [Next]_vars
  PROVE  Inv'
<1>1. CASE \E t \in Threads : ThreadStep(t)
  BY <1>1, ThreadStepKeeps
<1>2. CASE Retrieve
  BY <1>2, RetrieveStep
<1>3. CASE Dispatch
  BY <1>3, DispatchStep
<1>4. CASE RollOverHeap
  BY <1>4, RollOverHeapKeeps
<1>5. CASE MapReturns
  BY <1>5, MapReturnsStep
<1>6. CASE GpuCompletes
  BY <1>6, GpuCompletesStep
<1>7. CASE SetEvent
  BY <1>7, SetEventStep
<1>8. CASE EnqueueSetEvent
  BY <1>8, EnqueueSetEventStep
<1>9. CASE \E t \in Threads : BeginAllocate(t)
  BY <1>9, BeginAllocateStep
<1>10. ASSUME NEW m \in Memory, Release(m)
       PROVE  Inv'
  BY <1>10, ReleaseKeeps
<1>11. ASSUME NEW m \in Memory, BeginDispatch(m)
       PROVE  Inv'
  BY <1>11, BeginDispatchStep
<1>12. ASSUME NEW m \in Memory, NEW b \in BOOLEAN, RecordCopy(m, b)
       PROVE  Inv'
  BY <1>12, RecordCopyStep
<1>13. ASSUME NEW m \in Memory, NEW b \in BOOLEAN, Map(m, b)
       PROVE  Inv'
  BY <1>13, MapStep
<1>14. CASE UNCHANGED vars
  <2>1. Steady /\ memory' = memory /\ retired' = retired /\ heap' = heap /\ frames' = frames /\ early' = early
    BY <1>14 DEF vars, Steady
  <2>2. MemoryType /\ HeapType /\ RetiredInv /\ FramesType /\ StackInv(frames[Exec], nextID)
    BY DEF Inv, TypeInv
  <2>3. MemoryType' /\ HeapType' /\ FramesType' /\ BuffersKept /\ ItemKept
    BY <2>1, <2>2, Untouched DEF MemoryType, HeapType, FramesType
  <2>4. Onward(frames[Exec], frames'[Exec])
    BY <2>1, <2>2, OnwardSame DEF FramesType, Threads
  <2> QED  BY <2>1, <2>2, <2>3, <2>4, SteadyStep
<1>15. CASE Next
  <2>1. ExecStep => (\E t \in Threads : ThreadStep(t)) \/ Retrieve \/ Dispatch \/ RollOverHeap \/ MapReturns
    BY DEF ExecStep, Threads
  <2>2. (\E t \in FreeThreads : ThreadStep(t)) => \E t \in Threads : ThreadStep(t)
    BY DEF Threads
  <2> QED  BY <1>1, <1>2, <1>3, <1>4, <1>5, <1>6, <1>7, <1>8, <1>9, <1>10, <1>11, <1>12, <1>13, <1>15,
              <2>1, <2>2 DEF Next, Gpu
<1> QED  BY <1>14, <1>15

(* The invariant holds.                                                    *)
LEMMA InvAlways == Spec => []Inv
<1>1. Init => Inv
  BY InitInv
<1>2. Inv /\ [Next]_vars => Inv'
  BY NextInv
<1> QED  BY <1>1, <1>2, PTL DEF Spec

(* When a map is about to return, nothing is left of what it waits for.    *)
LEMMA MapsWaited ==
  ASSUME Inv
  PROVE  MapsSynchronized
<1>1. SUFFICES ASSUME In(Exec, "map"), ~early, NEW n \in completed + 1 .. nextID
               PROVE  /\ Top(Exec).item \notin lists[n].writes
                      /\ ~Top(Exec).reads => Top(Exec).item \notin lists[n].uses
  BY DEF MapsSynchronized, InFlight
<1>2. /\ FramesType /\ Exec \in Threads /\ StackInv(frames[Exec], nextID) /\ MapInv
  BY DEF Inv, TypeInv, Threads
<1>3. TopIs(Exec, "map") /\ Top(Exec) = Last(frames[Exec])
  BY <1>1, <1>2, InIs
<1>4. PICK F \in Seq(Frame) : F = frames[Exec] /\ F # <<>> /\ Last(F).op = "map"
  BY <1>3 DEF TopIs
<1>5. PICK k \in Nat : k = Len(F) /\ k > 0 /\ DOMAIN F = 1 .. k /\ Last(F) = F[k]
  BY <1>4, StackParts
<1>6. k = 1
  <2>1. k \in DOMAIN F /\ F[k].op = "map" /\ StackInv(F, nextID)
    BY <1>2, <1>4, <1>5
  <2>2. F[k].op \in {"map", "dispatch"} => k = 1
    BY <2>1 DEF StackInv
  <2> QED  BY <2>1, <2>2
<1>7. Base("map") /\ Bottom = Top(Exec) /\ ~ (Len(frames[Exec]) > 1)
  BY <1>3, <1>4, <1>5, <1>6 DEF Base, Bottom
<1> QED  BY <1>1, <1>2, <1>7 DEF MapInv

(* When a map returns, no list that is not over writes what is mapped, nor *)
(* reads it where the map is to write, unless a wait has failed.  This is  *)
(* SynchronizeForMap with WaitForFenceValueInternal.                       *)
THEOREM MapsAlwaysSynchronized == Spec => []MapsSynchronized
<1>1. Inv => MapsSynchronized
  BY MapsWaited
<1> QED  BY <1>1, InvAlways, PTL

(* A dispatch is recorded in the list that its pipeline was set in, unless *)
(* memory ran out in between.  This is ExecuteKernel::RecordImpl with      *)
(* RollOverHeap and TryAllocateResourceWithFallback.                       *)
THEOREM DispatchesAlwaysWhole == Spec => []DispatchesWhole
<1>1. Inv => DispatchesWhole
  BY DEF Inv
<1> QED  BY <1>1, InvAlways, PTL
=============================================================================
