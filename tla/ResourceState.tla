--------------------------- MODULE ResourceState ----------------------------
(***************************************************************************)
(* Which state each subresource is in while command lists are recorded     *)
(* (ResourceState.cpp), and what the commands of the runtime ask for.      *)
(*                                                                         *)
(* A state is a set of D3D12_RESOURCE_STATES bits; the common state has    *)
(* none.  Textures change their state by barriers alone.  Buffers allow    *)
(* simultaneous access: they take the state of whatever uses them first,   *)
(* and are in the common state again when the list is over.                *)
(***************************************************************************)
EXTENDS Integers, FiniteSets

CONSTANTS
  Textures, Buffers,
  Staging,            \* the buffer through which a copy within one goes
  Subresources,       \* how many each texture has
  MaxLists            \* bound on the command lists

ASSUME StagingAssumption == Staging \in Buffers
ASSUME SubresourcesAssumption == Subresources \in Nat \ {0}
ASSUME KindsAssumption == Textures \cap Buffers = {}

Resources == Textures \cup Buffers

Count(r) == IF r \in Buffers THEN 1 ELSE Subresources
Index(r) == 0 .. Count(r) - 1

ReadBits  == {"copy source", "shader resource"}
WriteBits == {"copy dest", "unordered access"}
Bits      == ReadBits \cup WriteBits
Common    == {}
Unknown   == {"unknown"}
Flags     == {"exact", "force write", "unused if unchanged"}

VARIABLES
  nextID,     \* the list that is being recorded
  tracked,    \* m_currentState of every resource
  barriers,   \* m_vResourceBarriers of the command recorded last
  accesses,   \* what that command uses, and as what
  half,       \* the subresource of a copy within it that is half recorded
  actual,     \* the state D3D12 has every subresource in
  inList      \* history: what this list has done with each buffer

vars == <<nextID, tracked, barriers, accesses, half, actual, inList>>

-----------------------------------------------------------------------------
(* What CDesiredResourceState and CCurrentResourceState have in common:    *)
(* one entry for all subresources, or one for each of them.                *)

SetResourceState(r, x) == [same |-> TRUE, of |-> [i \in Index(r) |-> x]]

(* SetSubresourceState, for the subresources S one after the other.        *)
SetSubresourceStates(r, s, S, f) ==
  [same |-> s.same /\ Count(r) = 1, of |-> [i \in Index(r) |-> IF i \in S THEN f[i] ELSE s.of[i]]]

-----------------------------------------------------------------------------
(* Transitions.                                                            *)

IsWrite(state, flags) == state \cap WriteBits # {} \/ "force write" \in flags

Required(current, wanted, flags) ==
  current # wanted /\ ("exact" \in flags \/ ~(wanted \subseteq current))

(* Mutant: a state is added to the one before, written or not.             *)
DestinationAdds(current, wanted, flags) ==
  IF "exact" \in flags THEN wanted ELSE current \cup wanted

(* Reading states add up, so that fewer transitions follow.                *)
Destination(current, wanted, flags) ==
  IF "exact" \in flags THEN wanted
  ELSE IF wanted \subseteq current THEN current
  ELSE IF IsWrite(wanted, {}) \/ IsWrite(current, {}) THEN wanted
  ELSE wanted \cup current

(* ProcessTransitioningResource for one subresource, tracked as "now" and  *)
(* wanted as "want".  A buffer has no need of a transition before it has   *)
(* been written in the same list.                                          *)
Compared(r, now) == r \notin Buffers \/ now.write = nextID

Changes(r, now, want) ==
  want.state # Unknown /\ Compared(r, now) /\ Required(now.state, want.state, want.flags)

After(r, now, want) ==
  IF Compared(r, now) THEN Destination(now.state, want.state, want.flags)
  ELSE IF now.read = nextID THEN want.state \cup now.state
  ELSE want.state

Touched(r, now, want) ==
  want.state # Unknown /\ (Changes(r, now, want) \/ "unused if unchanged" \notin want.flags)

(* Mutant: only a transition makes the list use the subresource.           *)
ProcessedIfChanged(r, now, want) ==
  [state |-> After(r, now, want),
   read  |-> IF Changes(r, now, want) THEN nextID ELSE now.read,
   write |-> IF Changes(r, now, want) /\ IsWrite(After(r, now, want), want.flags) THEN nextID ELSE now.write]

Processed(r, now, want) ==
  [state |-> After(r, now, want),
   read  |-> nextID,
   write |-> IF IsWrite(After(r, now, want), want.flags) THEN nextID ELSE now.write]

AtOnce(r, request) == tracked[r].same /\ request.same

(* The subresources gone through: entry 0 stands for all of them.          *)
Visited(r, request) == IF AtOnce(r, request) THEN {0} ELSE Index(r)

Set(r, request) ==
  {i \in Visited(r, request) : Touched(r, tracked[r].of[i], request.of[i])}

(* Mutant: what is tracked for one subresource is taken for all of them.   *)
TrackFirst(r, request) ==
  LET new == [i \in Index(r) |-> Processed(r, tracked[r].of[i], request.of[i])] IN
  IF Set(r, request) = {} THEN tracked[r]
  ELSE IF request.same THEN SetResourceState(r, new[0])
  ELSE SetSubresourceStates(r, tracked[r], Set(r, request), new)

Track(r, request) ==
  LET new == [i \in Index(r) |-> Processed(r, tracked[r].of[i], request.of[i])] IN
  IF Set(r, request) = {} THEN tracked[r]
  ELSE IF AtOnce(r, request) THEN SetResourceState(r, new[0])
  ELSE SetSubresourceStates(r, tracked[r], Set(r, request), new)

BarriersOf(r, request) ==
  {[res |-> r, subs |-> IF AtOnce(r, request) THEN Index(r) ELSE {i},
    before |-> tracked[r].of[i].state, after |-> After(r, tracked[r].of[i], request.of[i])]
   : i \in {j \in Visited(r, request) : Changes(r, tracked[r].of[j], request.of[j])}}

-----------------------------------------------------------------------------
(* Recording.                                                              *)

Init ==
  /\ nextID = 1 /\ barriers = {} /\ accesses = {} /\ half = {}
  /\ tracked = [r \in Resources |-> SetResourceState(r, [state |-> Common, read |-> 0, write |-> 0])]
  /\ actual = [r \in Resources |-> [i \in Index(r) |-> Common]]
  /\ inList = [b \in Buffers |-> "unused"]

Used(uses, r, i) == {a.as : a \in {b \in uses : b.res = r /\ b.sub = i}}

(* The state of a subresource when the barriers are through.               *)
Transitioned(r, i) ==
  LET its == {b \in barriers' : b.res = r /\ i \in b.subs}
  IN IF its = {} THEN actual[r][i] ELSE (CHOOSE b \in its : TRUE).after

(* What D3D12 does when a command uses a subresource as "used" says: the   *)
(* use of a buffer adds to its state.                                      *)
Promoted(r, i, used) == IF r \in Buffers THEN Transitioned(r, i) \cup used ELSE Transitioned(r, i)

Done(sofar, used) ==
  IF used = {} \/ sofar = "reread" THEN sofar
  ELSE IF IsWrite(used, {}) THEN IF sofar = "read" THEN "reread" ELSE "written"
  ELSE IF sofar = "unused" THEN "read" ELSE sofar

(* A command is recorded: ApplyAllResourceTransitions for what it has      *)
(* asked for, and the command itself.                                      *)
Record(desired, uses) ==
  /\ tracked' = [r \in Resources |-> Track(r, desired[r])]
  /\ barriers' = UNION {BarriersOf(r, desired[r]) : r \in Resources}
  /\ accesses' = uses
  /\ actual' = [r \in Resources |-> [i \in Index(r) |-> Promoted(r, i, Used(uses, r, i))]]
  /\ inList' = [b \in Buffers |-> Done(inList[b], Used(uses, b, 0))]
  /\ UNCHANGED nextID

Want(state) == [state |-> state, flags |-> {}]

Nothing == [r \in Resources |-> SetResourceState(r, Want(Unknown))]

(* TransitionResource, TransitionSubresources and TransitionSubresource.   *)
Ask(r, request, S, want) ==
  IF S = Index(r) THEN SetResourceState(r, want)
  ELSE SetSubresourceStates(r, request, S, [i \in S |-> want])

AskBoth(dst, D, want1, src, S, want2) ==
  LET dest == [Nothing EXCEPT ![dst] = Ask(dst, @, D, want1)] IN
  [dest EXCEPT ![src] = Ask(src, @, S, want2)]

As(r, S, bit) == {[res |-> r, sub |-> i, as |-> bit] : i \in S}

(* UpdateSubresources by way of an upload heap.                            *)
UpdateSubresources(dst, S) ==
  /\ Record([Nothing EXCEPT ![dst] = Ask(dst, @, S, Want({"copy dest"}))], As(dst, S, "copy dest"))
  /\ half = {} /\ UNCHANGED half

(* ResourceCopyRegion and CopyBufferAndImage: subresources of one resource *)
(* are asked for in one request.                                           *)
Copy(dst, D, src, S) ==
  /\ dst # src \/ D \cap S = {}
  /\ Record(AskBoth(dst, D, Want({"copy dest"}), src, S, Want({"copy source"})),
            As(dst, D, "copy dest") \cup As(src, S, "copy source"))
  /\ half = {} /\ UNCHANGED half

(* SameResourceCopy: out to the staging buffer ...                         *)
SameResourceCopy(r, i) ==
  /\ half = {}
  /\ Record(AskBoth(Staging, {0}, Want({"copy dest"}), r, {i}, Want({"copy source"})),
            As(Staging, {0}, "copy dest") \cup As(r, {i}, "copy source"))
  /\ half' = {<<r, i>>}

(* ... and back.                                                           *)
CopyBack ==
  \E p \in half :
    /\ Record(AskBoth(Staging, {0}, Want(ReadBits), p[1], {p[2]}, Want({"copy dest"})),
              As(Staging, {0}, "copy source") \cup As(p[1], {p[2]}, "copy dest"))
    /\ half' = {}

(* A dispatch: what a kernel may write, and what it only reads.  A barrier *)
(* for unordered writes comes behind these transitions; the buffer of the  *)
(* arguments belongs to one dispatch alone and is left out.                *)
Dispatch(uavs, srvs) ==
  LET args == uavs \cup srvs
      bit  == [r \in args |-> IF r \in uavs THEN "unordered access" ELSE "shader resource"]
  IN
  /\ Record([r \in Resources |-> IF r \in args THEN SetResourceState(r, Want({bit[r]})) ELSE Nothing[r]],
            UNION {As(r, Index(r), bit[r]) : r \in args})
  /\ half = {} /\ UNCHANGED half

(* A texture is given to the CPU or to GL in the common state.             *)
GiveAway(t, S, flags) ==
  /\ Record([Nothing EXCEPT ![t] = Ask(t, @, S, [state |-> Common, flags |-> flags])],
            As(t, S, "common"))
  /\ half = {} /\ UNCHANGED half

MapDefault(t, i) == GiveAway(t, {i}, {"exact", "unused if unchanged"})
ReleaseToGL(t)   == GiveAway(t, Index(t), Flags)

(* The next list: in between the buffers fall back to the common state.    *)
Submit ==
  /\ nextID < MaxLists /\ half = {}
  /\ nextID' = nextID + 1
  /\ actual' = [r \in Resources |-> IF r \in Buffers THEN [i \in Index(r) |-> Common] ELSE actual[r]]
  /\ inList' = [b \in Buffers |-> "unused"] /\ barriers' = {} /\ accesses' = {}
  /\ UNCHANGED <<tracked, half>>

Ours == Resources \ {Staging}

Next ==
  \/ \E r \in Ours :
       \/ \E S \in SUBSET Index(r) \ {{}} : UpdateSubresources(r, S)
       \/ \E i \in Index(r) : SameResourceCopy(r, i)
  \/ CopyBack
  \/ \E dst, src \in Ours : \E D \in SUBSET Index(dst) \ {{}}, S \in SUBSET Index(src) \ {{}} :
       Copy(dst, D, src, S)
  \/ \E uavs \in SUBSET Ours : \E srvs \in SUBSET (Ours \ uavs) : Dispatch(uavs, srvs)
  \/ \E t \in Textures : ReleaseToGL(t) \/ \E i \in Index(t) : MapDefault(t, i)
  \/ Submit

Spec == Init /\ [][Next]_vars

-----------------------------------------------------------------------------
(* Properties.                                                             *)

(* A buffer that the list reads first and then writes has no barrier in    *)
(* between, and the bits of both afterwards.                               *)
Reread(r) == r \in Buffers /\ inList[r] = "reread"

(* Every transition barrier says of each subresource the state that D3D12  *)
(* has it in.                                                              *)
BarriersMatch ==
  [][\A b \in barriers' : ~Reread(b.res) =>
       b.before # b.after /\ \A i \in b.subs : actual[b.res][i] = b.before]_vars

\* A state that writes is alone.
Suffices(s, as) == IF as = "common" THEN s = Common ELSE as \in s /\ (IsWrite(s, {}) => s = {as})

(* A command finds each subresource in the state that it uses it in, and   *)
(* whatever else was done with one that it writes is on the other side of  *)
(* a barrier.                                                              *)
StatesSuffice ==
  [][\A a \in accesses' : Reread(a.res)' \/ Suffices(actual'[a.res][a.sub], a.as)]_vars

(* What a command uses and what it writes has the value of this list in    *)
(* the fence values that a map will wait for.                              *)
FencesTell ==
  [][\A a \in accesses' : a.as # "common" =>
       LET tells == tracked'[a.res].of[a.sub] IN
       tells.read = nextID /\ (a.as \in WriteBits => tells.write = nextID)]_vars
=============================================================================
