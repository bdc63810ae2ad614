----------------------- MODULE TranslationLayer_proofs -----------------------
(***************************************************************************)
(* Three parts of the translation layer that look after memory.            *)
(*                                                                         *)
(* Residency: everything a list uses is resident when the list may run,    *)
(* for any number of allocations, any budgets and any number of lists.     *)
(*                                                                         *)
(* Resource states: for any number of textures, subresources, buffers and  *)
(* command lists, the barriers name the state that D3D12 has each          *)
(* subresource in.  The invariant says why: what is tracked for a texture  *)
(* is its state; of a buffer it is so only once the list has written it,   *)
(* until then nothing is compared and D3D12 has promoted it from the       *)
(* common state.                                                           *)
(*                                                                         *)
(* Suballocators: blocks of the buddy allocator share no memory and lie in *)
(* buffers that are held, for ranges and buckets of any size.              *)
(***************************************************************************)
EXTENDS Residency, ResourceState, Suballocator, FiniteSetTheorems, FunctionTheorems, SequenceTheorems,
        WellFoundedInduction, TLAPS

-----------------------------------------------------------------------------
(* Sequences                                                               *)

(* A set of numbers that is not empty has a least element.                 *)
LEMMA LeastNumber ==
  ASSUME NEW T \in SUBSET Nat, T # {}
  PROVE  \E x \in T : \A y \in T : x <= y
<1>1. \E x \in T : \A y \in T : ~ (<<y, x>> \in OpToRel(<, Nat))
  BY NatLessThanWellFounded, WFMin
<1>2. PICK x \in T : \A y \in T : ~ (<<y, x>> \in OpToRel(<, Nat))
  BY <1>1
<1>3. \A y \in T : ~(y < x)
  BY <1>2 DEF OpToRel
<1> QED  BY <1>3

(* What holds of 0 and goes over from i - 1 to i holds up to n.            *)
LEMMA UpTo ==
  ASSUME NEW n \in Nat, NEW T, 0 \in T,
         \A i \in 1 .. n : i - 1 \in T => i \in T
  PROVE  \A i \in 0 .. n : i \in T
<1> DEFINE U == {i \in 0 .. n : i \notin T}
<1> SUFFICES ASSUME U # {} PROVE FALSE
  OBVIOUS
<1>1. U \in SUBSET Nat
  OBVIOUS
<1>2. PICK x \in U : \A y \in U : x <= y
  BY <1>1, LeastNumber
<1>3. x \in 1 .. n /\ x \notin T
  OBVIOUS
<1>4. x - 1 \in 0 .. n /\ ~(x <= x - 1)
  BY <1>3
<1>5. x - 1 \in T
  BY <1>2, <1>4
<1> QED  BY <1>3, <1>5

-----------------------------------------------------------------------------
(* Sizes                                                                   *)

\* f[i] is the size of the first i objects of s.
Sizes(f, s, n) == f = [i \in 0 .. n |-> IF i = 0 THEN 0 ELSE f[i - 1] + SizeOf[s[i]]]

(* There is such a function.                                               *)
LEMMA SizesExist ==
  ASSUME NEW s, NEW n \in Nat
  PROVE  \E f : Sizes(f, s, n)
<1> DEFINE T == {m \in Nat : \E f : Sizes(f, s, m)}
<1>1. 0 \in T
  <2>1. Sizes([i \in 0 .. 0 |-> 0], s, 0)
    BY DEF Sizes
  <2> QED  BY <2>1
<1>2. ASSUME NEW m \in 1 .. n, m - 1 \in T PROVE m \in T
  <2>1. PICK f : Sizes(f, s, m - 1)
    BY <1>2
  <2> DEFINE h == [i \in 0 .. m |-> IF i = 0 THEN 0 ELSE f[i - 1] + SizeOf[s[i]]]
  <2>2. \A i \in 0 .. m - 1 : f[i] = IF i = 0 THEN 0 ELSE f[i - 1] + SizeOf[s[i]]
    BY <2>1 DEF Sizes
  <2>3. \A i \in 0 .. m - 1 : h[i] = f[i]
    BY <2>2
  <2>4. \A i \in 1 .. m : i - 1 \in 0 .. m - 1
    OBVIOUS
  <2>5. Sizes(h, s, m)
    <3> HIDE DEF h
    <3>1. h = [i \in 0 .. m |-> IF i = 0 THEN 0 ELSE f[i - 1] + SizeOf[s[i]]]
      BY DEF h
    <3>2. \A i \in 0 .. m : (IF i = 0 THEN 0 ELSE f[i - 1] + SizeOf[s[i]])
                          = (IF i = 0 THEN 0 ELSE h[i - 1] + SizeOf[s[i]])
      BY <2>3, <2>4
    <3> QED  BY <3>1, <3>2 DEF Sizes
  <2> QED  BY <2>5
<1> HIDE DEF T
<1>3. n \in T
  BY <1>1, <1>2, UpTo
<1> QED  BY <1>3 DEF T

(* The size of a list of objects, step by step.                            *)
LEMMA SizeIs ==
  ASSUME NEW s \in Seq(Allocations)
  PROVE  \E f : /\ TotalSize(s) = f[Len(s)] /\ f[0] = 0
                /\ \A i \in 1 .. Len(s) : f[i] = f[i - 1] + SizeOf[s[i]]
                /\ \A i \in 0 .. Len(s) : f[i] \in Nat
                /\ \A i, k \in 0 .. Len(s) : i <= k => f[i] <= f[k]
                /\ \A i, k \in 0 .. Len(s) : i < k => f[i] < f[k]
<1>1. PICK n \in Nat : n = Len(s)
  OBVIOUS
<1>2. PICK f : Sizes(f, s, n) /\ TotalSize(s) = f[n]
  <2>1. \E f : f = [i \in 0 .. n |-> IF i = 0 THEN 0 ELSE f[i - 1] + SizeOf[s[i]]]
    BY SizesExist DEF Sizes
  <2>2. TotalSize(s) = (CHOOSE f : f = [i \in 0 .. n |-> IF i = 0 THEN 0 ELSE f[i - 1] + SizeOf[s[i]]])[n]
    BY <1>1 DEF TotalSize
  <2> QED  BY Zenon, <2>1, <2>2 DEF Sizes
<1>3. f[0] = 0
  BY <1>2 DEF Sizes
<1>4. \A i \in 1 .. n : f[i] = f[i - 1] + SizeOf[s[i]]
  BY <1>2 DEF Sizes
<1>5. \A i \in 1 .. n : SizeOf[s[i]] \in Nat \ {0}
  BY <1>1, ResidencyAssumption
<1>6. \A i \in 0 .. n : f[i] \in Nat
  <2> DEFINE T == {i \in 0 .. n : f[i] \in Nat}
  <2>1. 0 \in T
    BY <1>3
  <2>2. \A i \in 1 .. n : i - 1 \in T => i \in T
    BY <1>4, <1>5
  <2> HIDE DEF T
  <2>3. \A i \in 0 .. n : i \in T
    BY <2>1, <2>2, UpTo
  <2> QED  BY <2>3 DEF T
<1>7. \A i \in 0 .. n, k \in 0 .. n : (i <= k => f[i] <= f[k]) /\ (i < k => f[i] < f[k])
  <2> TAKE i \in 0 .. n
  <2> DEFINE T == {k \in 0 .. n : (i <= k => f[i] <= f[k]) /\ (i < k => f[i] < f[k])}
  <2>1. 0 \in T
    BY <1>3, <1>6
  <2>2. ASSUME NEW k \in 1 .. n, k - 1 \in T PROVE k \in T
    <3>1. f[k - 1] \in Nat /\ f[k] \in Nat /\ f[i] \in Nat
      BY <1>6
    <3>2. PICK z \in Nat \ {0} : f[k] = f[k - 1] + z
      BY <1>4, <1>5
    <3>3. i <= k - 1 => f[i] <= f[k - 1]
      BY <2>2
    <3>4. f[k - 1] < f[k]
      BY <3>1, <3>2
    <3>5. i <= k => f[i] <= f[k]
      BY <3>1, <3>3, <3>4
    <3>6. i < k => f[i] < f[k]
      BY <3>1, <3>3, <3>4
    <3> QED  BY <3>5, <3>6
  <2> HIDE DEF T
  <2>3. \A k \in 0 .. n : k \in T
    BY <2>1, <2>2, UpTo
  <2> QED  BY <2>3 DEF T
<1> QED  BY <1>1, <1>2, <1>3, <1>4, <1>6, <1>7

-----------------------------------------------------------------------------
(* Those of a list that are in a set                                       *)

\* f[i] is what is kept of the first i objects of s.
Keeps(f, s, S, n) ==
  f = [i \in 0 .. n |->
        IF i = 0 THEN <<>> ELSE IF s[i] \in S THEN Append(f[i - 1], s[i]) ELSE f[i - 1]]

(* There is such a function.                                               *)
LEMMA KeepsExist ==
  ASSUME NEW s, NEW S, NEW n \in Nat
  PROVE  \E f : Keeps(f, s, S, n)
<1> DEFINE Step(g, i) == IF i = 0 THEN <<>> ELSE IF s[i] \in S THEN Append(g[i - 1], s[i]) ELSE g[i - 1]
           T == {m \in Nat : \E f : Keeps(f, s, S, m)}
<1>1. 0 \in T
  <2>1. Keeps([i \in 0 .. 0 |-> <<>>], s, S, 0)
    BY DEF Keeps
  <2> QED  BY <2>1
<1>2. ASSUME NEW m \in 1 .. n, m - 1 \in T PROVE m \in T
  <2>1. PICK f : Keeps(f, s, S, m - 1)
    BY <1>2
  <2> DEFINE h == [i \in 0 .. m |-> Step(f, i)]
  <2>2. \A i \in 0 .. m - 1 : f[i] = Step(f, i)
    BY <2>1 DEF Keeps
  <2>3. \A i \in 0 .. m - 1 : h[i] = f[i]
    BY <2>2
  <2>4. \A i \in 1 .. m : i - 1 \in 0 .. m - 1
    OBVIOUS
  <2>5. Keeps(h, s, S, m)
    <3> HIDE DEF h
    <3>1. h = [i \in 0 .. m |-> Step(f, i)]
      BY DEF h
    <3>2. \A i \in 0 .. m : Step(f, i) = Step(h, i)
      BY <2>3, <2>4
    <3> QED  BY <3>1, <3>2 DEF Keeps
  <2> QED  BY <2>5
<1> HIDE DEF T
<1>3. n \in T
  BY <1>1, <1>2, UpTo
<1> QED  BY <1>3 DEF T

\* A list without repetitions of the objects of a set.
Lists(s, S) == s \in Seq(Allocations) /\ IsInjective(s) /\ ToSet(s) = S

(* One more object on such a list.                                         *)
LEMMA OneMore ==
  ASSUME NEW s, NEW S, Lists(s, S), NEW a \in Allocations, a \notin S
  PROVE  Lists(Append(s, a), S \cup {a})
<1>1. PICK n \in Nat : n = Len(s) /\ DOMAIN s = 1 .. n
  BY DEF Lists
<1>0. s \in Seq(Allocations)
  BY DEF Lists
<1>2. PICK r : r = Append(s, a) /\ r \in Seq(Allocations) /\ Len(r) = n + 1 /\ DOMAIN r = 1 .. n + 1
  <2>1. Append(s, a) \in Seq(Allocations) /\ Len(Append(s, a)) = n + 1
    BY <1>0, <1>1, AppendProperties
  <2> QED  BY <2>1, LenProperties
<1>3. \A i \in 1 .. n + 1 : r[i] = IF i = n + 1 THEN a ELSE s[i]
  BY <1>0, <1>1, <1>2, AppendProperties
<1>4. \A i \in 1 .. n : s[i] \in S /\ s[i] # a
  BY <1>1 DEF Lists, ToSet
<1>5. \A i, k \in 1 .. n : s[i] = s[k] => i = k
  BY <1>1 DEF Lists, IsInjective
<1>6. \A i, k \in 1 .. n + 1 : r[i] = r[k] => i = k
  BY <1>3, <1>4, <1>5
<1>7. ToSet(r) = S \cup {a}
  <2>1. \A x \in S : \E i \in 1 .. n : x = s[i]
    BY <1>1 DEF Lists, ToSet
  <2>2. \A x \in S \cup {a} : \E i \in 1 .. n + 1 : x = r[i]
    BY <1>3, <2>1
  <2>3. \A i \in 1 .. n + 1 : r[i] \in S \cup {a}
    BY <1>3, <1>4
  <2> QED  BY <1>2, <2>2, <2>3 DEF ToSet
<1> QED  BY <1>2, <1>6, <1>7 DEF Lists, IsInjective

(* What Those keeps.                                                       *)
LEMMA ThoseAre ==
  ASSUME NEW s \in Seq(Allocations), IsInjective(s), NEW S
  PROVE  Lists(Those(s, S), ToSet(s) \cap S)
<1>1. PICK n \in Nat : n = Len(s) /\ DOMAIN s = 1 .. n
  OBVIOUS
<1>2. PICK f : Keeps(f, s, S, n) /\ Those(s, S) = f[n]
  <2>0. \E f : Keeps(f, s, S, n)
    BY KeepsExist
  <2>1. \E f : f = [i \in 0 .. n |->
          IF i = 0 THEN <<>> ELSE IF s[i] \in S THEN Append(f[i - 1], s[i]) ELSE f[i - 1]]
    BY Zenon, <2>0 DEF Keeps
  <2>2. Those(s, S) = (CHOOSE f : f = [i \in 0 .. n |->
          IF i = 0 THEN <<>> ELSE IF s[i] \in S THEN Append(f[i - 1], s[i]) ELSE f[i - 1]])[n]
    BY <1>1 DEF Those
  <2> QED  BY Zenon, <2>1, <2>2 DEF Keeps
<1>3. f[0] = <<>>
  BY <1>2 DEF Keeps
<1>4. \A i \in 1 .. n : f[i] = IF s[i] \in S THEN Append(f[i - 1], s[i]) ELSE f[i - 1]
  <2>1. \A i \in 0 .. n : f[i] =
          IF i = 0 THEN <<>> ELSE IF s[i] \in S THEN Append(f[i - 1], s[i]) ELSE f[i - 1]
    BY Zenon, <1>2 DEF Keeps
  <2>2. \A i \in 1 .. n : i \in 0 .. n /\ i # 0
    BY <1>1
  <2> QED  BY <2>1, <2>2
<1> DEFINE Before(i) == {s[k] : k \in 1 .. i} \cap S
           T == {i \in 0 .. n : Lists(f[i], Before(i))}
<1> HIDE DEF Before
<1>5. 0 \in T
  <2>1. Before(0) = {}
    BY DEF Before
  <2>2. Lists(<<>>, {})
    BY DEF Lists, IsInjective, ToSet
  <2>3. Lists(f[0], Before(0))
    BY Zenon, <1>3, <2>1, <2>2
  <2> QED  BY <2>3
<1>6. ASSUME NEW i \in 1 .. n, i - 1 \in T PROVE i \in T
  <2>1. Lists(f[i - 1], Before(i - 1))
    BY <1>6
  <2>2. s[i] \in Allocations /\ s[i] \notin Before(i - 1)
    <3>1. \A k \in 1 .. i - 1 : k \in DOMAIN s /\ k # i
      BY <1>1
    <3> QED  BY <1>1, <3>1 DEF IsInjective, Before
  <2>3. Before(i) = IF s[i] \in S THEN Before(i - 1) \cup {s[i]} ELSE Before(i - 1)
    <3>1. \A k \in 1 .. i : k \in 1 .. i - 1 \/ k = i
      OBVIOUS
    <3>2. \A k \in 1 .. i - 1 : k \in 1 .. i
      OBVIOUS
    <3> QED  BY <3>1, <3>2 DEF Before
  <2>4. Lists(f[i], Before(i))
    BY <1>4, <2>1, <2>2, <2>3, OneMore
  <2> QED  BY <2>4
<1> HIDE DEF T
<1>7. \A i \in 0 .. n : i \in T
  BY <1>5, <1>6, UpTo
<1>8. n \in T
  BY <1>1, <1>7
<1>9. Before(n) = ToSet(s) \cap S
  BY <1>1 DEF ToSet, Before
<1> QED  BY <1>2, <1>8, <1>9 DEF T

(* Some of the leading objects are taken from a list.                      *)
LEMMA Dropped ==
  ASSUME NEW s, NEW S, Lists(s, S), NEW n \in 0 .. Len(s)
  PROVE  /\ Lists(Drop(s, n), S \ Leading(s, n))
         /\ Leading(s, n) = {s[i] : i \in 1 .. n}
         /\ Leading(s, n) \subseteq S
         /\ Len(Drop(s, n)) = Len(s) - n
         /\ \A i \in 1 .. Len(s) - n : Drop(s, n)[i] = s[n + i]
<1>1. PICK m \in Nat : m = Len(s) /\ DOMAIN s = 1 .. m /\ s \in Seq(Allocations)
  BY DEF Lists
<1>2. n \in Nat /\ n <= m
  BY <1>1
<1>3. PICK r : r = Drop(s, n)
  OBVIOUS
<1>4. /\ r \in Seq(Allocations) /\ Len(r) = m - n /\ DOMAIN r = 1 .. m - n
      /\ \A i \in 1 .. m - n : r[i] = s[n + i]
  BY <1>1, <1>2, <1>3, SubSeqProperties DEF Drop
<1>5. Leading(s, n) = {s[i] : i \in 1 .. n}
  <2>1. PICK q : q = SubSeq(s, 1, n)
    OBVIOUS
  <2>2. DOMAIN q = 1 .. n /\ \A i \in 1 .. n : q[i] = s[i]
    BY <1>1, <1>2, <2>1, SubSeqProperties
  <2> QED  BY <2>1, <2>2 DEF Leading, ToSet
<1>6. \A i \in 1 .. m - n : n + i \in 1 .. m /\ n + i \notin 1 .. n
  BY <1>1, <1>2
<1>7. \A i, k \in 1 .. m : s[i] = s[k] => i = k
  BY <1>1 DEF Lists, IsInjective
<1>8. \A i, k \in 1 .. m - n : r[i] = r[k] => i = k
  <2> SUFFICES ASSUME NEW i \in 1 .. m - n, NEW k \in 1 .. m - n, r[i] = r[k]
               PROVE  i = k
    OBVIOUS
  <2>1. n + i = n + k
    BY <1>4, <1>6, <1>7
  <2> QED  BY <1>2, <2>1
<1>9. ToSet(r) = S \ Leading(s, n)
  <2>1. \A x \in S : \E i \in 1 .. m : x = s[i]
    BY <1>1 DEF Lists, ToSet
  <2>2. \A x \in S : x \notin Leading(s, n) => \E i \in 1 .. m - n : x = r[i]
    <3> SUFFICES ASSUME NEW x \in S, x \notin Leading(s, n)
                 PROVE  \E i \in 1 .. m - n : x = r[i]
      OBVIOUS
    <3>1. PICK i \in 1 .. m : x = s[i]
      BY <2>1
    <3>2. i \notin 1 .. n
      BY <1>5, <3>1
    <3>3. i - n \in 1 .. m - n /\ n + (i - n) = i
      BY <1>2, <3>2
    <3> QED  BY <1>4, <3>1, <3>3
  <2>3. \A i \in 1 .. m - n : r[i] \in S /\ r[i] \notin Leading(s, n)
    <3> SUFFICES ASSUME NEW i \in 1 .. m - n
                 PROVE  r[i] \in S /\ r[i] \notin Leading(s, n)
      OBVIOUS
    <3>1. r[i] = s[n + i] /\ n + i \in 1 .. m
      BY <1>4, <1>6
    <3>2. \A k \in 1 .. n : k \in 1 .. m /\ k # n + i
      BY <1>2
    <3> QED  BY <1>1, <1>5, <1>7, <3>1, <3>2 DEF Lists, ToSet
  <2> QED  BY <1>4, <2>2, <2>3 DEF ToSet
<1>10. Leading(s, n) \subseteq S
  <2>1. \A i \in 1 .. n : i \in 1 .. m
    BY <1>2
  <2> QED  BY <1>1, <1>5, <2>1 DEF Lists, ToSet
<1> QED  BY <1>1, <1>3, <1>4, <1>5, <1>8, <1>9, <1>10 DEF Lists, IsInjective

(* A list has no more objects than there are.                              *)
LEMMA NotLonger ==
  ASSUME NEW s, NEW S, Lists(s, S)
  PROVE  Len(s) = Cardinality(S) /\ Len(s) <= Cardinality(Allocations) /\ Cardinality(Allocations) \in Nat
<1>1. PICK n \in Nat : n = Len(s) /\ DOMAIN s = 1 .. n /\ s \in [1 .. n -> Allocations]
  BY DEF Lists
<1>2. S \subseteq Allocations /\ IsFiniteSet(Allocations)
  BY <1>1, ResidencyAssumption DEF Lists, ToSet
<1>3. IsFiniteSet(S) /\ Cardinality(S) <= Cardinality(Allocations) /\ Cardinality(Allocations) \in Nat
  BY <1>2, FS_Subset, FS_CardinalityType
<1>4. s \in Bijection(1 .. n, S)
  <2>1. \A i, k \in 1 .. n : s[i] = s[k] => i = k
    BY <1>1 DEF Lists, IsInjective
  <2>2. \A i \in 1 .. n : s[i] \in S
    BY <1>1 DEF Lists, ToSet
  <2>3. \A x \in S : \E i \in 1 .. n : s[i] = x
    BY <1>1 DEF Lists, ToSet
  <2>4. s \in [1 .. n -> S]
    BY <1>1, <2>2
  <2> QED  BY <2>1, <2>3, <2>4, Fun_IsBij DEF Bijection, Injection, Surjection, IsInjective
<1>5. Cardinality(S) = n
  BY <1>1, <1>4, FS_CountingElements DEF ExistsBijection
<1> QED  BY <1>1, <1>3, <1>5

(* Two lists with nothing in common, one behind the other.                 *)
LEMMA ListsJoined ==
  ASSUME NEW s, NEW S, Lists(s, S), NEW r, NEW R, Lists(r, R), S \cap R = {}
  PROVE  Lists(s \o r, S \cup R) /\ Len(s \o r) = Len(s) + Len(r)
<1>1. PICK m \in Nat : m = Len(s) /\ DOMAIN s = 1 .. m
  BY DEF Lists
<1>2. PICK n \in Nat : n = Len(r) /\ DOMAIN r = 1 .. n
  BY DEF Lists
<1>3. s \in Seq(Allocations) /\ r \in Seq(Allocations)
  BY DEF Lists
<1>4. PICK t : t = s \o r /\ t \in Seq(Allocations) /\ Len(t) = m + n
  BY <1>1, <1>2, <1>3, ConcatProperties
<1>5. DOMAIN t = 1 .. m + n
  BY <1>4, LenProperties
<1>6. \A i \in 1 .. m + n : t[i] = IF i <= m THEN s[i] ELSE r[i - m]
  BY <1>1, <1>2, <1>3, <1>4, ConcatProperties
<1>7. \A i \in 1 .. m + n : (i <= m => i \in 1 .. m) /\ (~(i <= m) => i - m \in 1 .. n)
  OBVIOUS
<1>8. (\A i \in 1 .. m : s[i] \in S) /\ (\A i \in 1 .. n : r[i] \in R)
  BY <1>1, <1>2 DEF Lists, ToSet
<1>9. \A i, k \in 1 .. m + n : t[i] = t[k] => i = k
  <2> SUFFICES ASSUME NEW i \in 1 .. m + n, NEW k \in 1 .. m + n, t[i] = t[k] PROVE i = k
    OBVIOUS
  <2>1. CASE i <= m /\ k <= m
    BY <1>1, <1>6, <1>7, <2>1 DEF Lists, IsInjective
  <2>2. CASE ~(i <= m) /\ ~(k <= m)
    <3>1. i - m = k - m
      BY <1>2, <1>6, <1>7, <2>2 DEF Lists, IsInjective
    <3> QED  BY <3>1
  <2>3. CASE (i <= m) # (k <= m)
    <3>1. t[i] \in S \/ t[k] \in S
      BY <1>6, <1>7, <1>8, <2>3
    <3>2. t[i] \in R \/ t[k] \in R
      BY <1>6, <1>7, <1>8, <2>3
    <3> QED  BY <3>1, <3>2
  <2> QED  BY <2>1, <2>2, <2>3
<1>10. ToSet(t) = S \cup R
  <2>1. \A i \in 1 .. m + n : t[i] \in S \cup R
    BY <1>6, <1>7, <1>8
  <2>2. \A x \in S : \E i \in 1 .. m : x = s[i]
    BY <1>1 DEF Lists, ToSet
  <2>3. \A x \in R : \E i \in 1 .. n : x = r[i]
    BY <1>2 DEF Lists, ToSet
  <2>4. \A i \in 1 .. m : i \in 1 .. m + n /\ i <= m
    OBVIOUS
  <2>5. \A i \in 1 .. n : m + i \in 1 .. m + n /\ ~(m + i <= m) /\ (m + i) - m = i
    OBVIOUS
  <2>6. \A x \in S : \E i \in 1 .. m + n : x = t[i]
    BY <1>6, <2>2, <2>4
  <2>7. \A x \in R : \E i \in 1 .. m + n : x = t[i]
    <3> SUFFICES ASSUME NEW x \in R PROVE \E i \in 1 .. m + n : x = t[i]
      OBVIOUS
    <3>1. PICK i \in 1 .. n : x = r[i]
      BY <2>3
    <3>2. t[m + i] = r[i]
      BY <1>6, <2>5
    <3> QED  BY <2>5, <3>1, <3>2
  <2> QED  BY <1>5, <2>1, <2>6, <2>7 DEF ToSet
<1> QED  BY <1>1, <1>2, <1>4, <1>5, <1>9, <1>10 DEF Lists, IsInjective

(* A list of one object.                                                   *)
LEMMA JustOne ==
  ASSUME NEW a \in Allocations
  PROVE  Lists(<<a>>, {a}) /\ Len(<<a>>) = 1
<1>1. PICK s : s = <<a>>
  OBVIOUS
<1>4. s \in Seq(Allocations) /\ Len(s) = 1 /\ s[1] = a
  BY <1>1
<1>5. DOMAIN s = {1}
  BY <1>4, LenProperties
<1>2. \A i, k \in DOMAIN s : i = k
  BY <1>5
<1>3. ToSet(s) = {a}
  BY <1>4, <1>5 DEF ToSet
<1> QED  BY <1>1, <1>2, <1>3, <1>4 DEF Lists, IsInjective

(* How many of the first n were last used no later than in list fence.     *)
LEMMA StaleAre ==
  ASSUME NEW order \in Seq(Allocations), NEW n \in 0 .. Len(order),
         NEW used \in [Allocations -> Int], NEW fence \in Int
  PROVE  /\ Stale(order, n, used, fence) \in 0 .. n
         /\ \A i \in 1 .. Stale(order, n, used, fence) : used[order[i]] <= fence
         /\ n > 0 /\ used[order[1]] <= fence => Stale(order, n, used, fence) > 0
<1> DEFINE ends == {i \in 1 .. n : used[order[i]] > fence}
<1>1. Stale(order, n, used, fence) =
        IF ends = {} THEN n ELSE (CHOOSE i \in ends : \A j \in ends : i <= j) - 1
  BY DEF Stale
<1>2. \A i \in 1 .. n : used[order[i]] \in Int
  OBVIOUS
<1>3. n \in Nat /\ \A i \in ends : i \in 1 .. n /\ used[order[i]] > fence
  OBVIOUS
<1>4. \A i \in 1 .. n : i \notin ends => used[order[i]] <= fence
  BY <1>2
<1>5. ends \in SUBSET Nat
  OBVIOUS
<1> HIDE DEF ends
<1>6. CASE ends = {}
  BY <1>1, <1>3, <1>4, <1>6
<1>7. CASE ends # {}
  <2>1. \E i \in ends : \A j \in ends : i <= j
    BY <1>5, <1>7, LeastNumber
  <2>2. PICK k \in ends : k = (CHOOSE i \in ends : \A j \in ends : i <= j) /\ \A j \in ends : k <= j
    BY <2>1
  <2>3. Stale(order, n, used, fence) = k - 1 /\ k \in 1 .. n
    BY <1>1, <1>3, <1>7, <2>2
  <2>4. \A i \in 1 .. k - 1 : i \notin ends /\ i \in 1 .. n
    <3>1. k \in Nat /\ \A i \in 1 .. k - 1 : ~(k <= i) /\ i \in 1 .. n
      BY <1>3, <2>3
    <3> QED  BY <2>2, <3>1
  <2>5. n > 0 /\ used[order[1]] <= fence => k # 1
    BY <1>3, <2>2
  <2>6. \A i \in 1 .. k - 1 : used[order[i]] <= fence
    BY <1>4, <2>4
  <2> QED  BY <2>3, <2>5, <2>6
<1> QED  BY <1>6, <1>7

-----------------------------------------------------------------------------
(* The inductive invariant                                                 *)

PagingRecord ==
  [active : {TRUE}, missing : Seq(Allocations), space : Int, waitFor : Int, rounds : Nat]

TypeInv ==
  /\ lru \in Seq(Allocations) /\ opened \in Seq(Allocations)
  /\ lastUsed \in [Allocations -> Int]
  /\ listID \in 1 .. MaxExecuted + 1 /\ over \in Nat /\ over < listID
  /\ flight \in [1 .. MaxExecuted -> [uses : SUBSET Allocations, waits : Nat]]
  /\ onDevice \subseteq Allocations
  /\ requests \in Seq(SUBSET Allocations)
  /\ paging = Idle \/ paging \in PagingRecord

\* What is in lists is tracked, and has been used for the list recorded now
\* when that is being paged in.
ListsInv ==
  /\ IsInjective(lru) /\ IsInjective(opened)
  /\ opened # <<>> => listID <= MaxExecuted
  /\ \A a \in ToSet(lru) \cup ToSet(opened) : Tracked(a)
  /\ \A a \in Allocations : lastUsed[a] \in -1 .. listID
  /\ \A a \in Allocations : lastUsed[a] = listID <=> paging.active /\ a \in ToSet(opened)

PagingInv ==
  paging.active =>
    /\ opened # <<>>
    /\ ToSet(opened) \subseteq ToSet(lru) /\ ToSet(paging.missing) \subseteq ToSet(opened)
    /\ IsInjective(paging.missing)

\* A list not over: what it uses counts as used for it or later, and lies in
\* memory or in a request that the list waits for.
FlightInv ==
  \A n \in over + 1 .. listID - 1 :
    /\ flight[n].waits <= Len(requests)
    /\ \A a \in flight[n].uses :
         /\ lastUsed[a] >= n
         /\ a \in onDevice \/ \E i \in 1 .. flight[n].waits : a \in requests[i]

\* What is requested is used by a list that waits for the request, or by the
\* one being paged in.
RequestInv ==
  \A i \in DOMAIN requests : \A a \in requests[i] :
    \/ lastUsed[a] = listID
    \/ \E n \in over + 1 .. listID - 1 : flight[n].waits >= i /\ lastUsed[a] >= n

Requested(a) == \E i \in DOMAIN requests : a \in requests[i]

BooksInv ==
  \A a \in Allocations :
    a \in ToSet(lru) <=> a \in onDevice \/ Requested(a) \/ a \in ToSet(paging.missing)

\* Each round evicts something that the list does not use, but for the last
\* one before all that is missing fits.
LastRound == paging.waitFor = Untracked /\ TotalSize(paging.missing) < paging.space
RoundsInv ==
  paging.active =>
    /\ paging.rounds + Len(lru) - Len(opened) < Cardinality(Allocations) + (IF LastRound THEN 1 ELSE 0)
    /\ paging.waitFor # Untracked => lastUsed[Head(lru)] = paging.waitFor

Inv == TypeInv /\ ListsInv /\ PagingInv /\ FlightInv /\ RequestInv /\ BooksInv /\ RoundsInv

-----------------------------------------------------------------------------
(* Parts of the invariant                                                  *)

(* The values of the constants and the types of what is in a state.        *)
LEMMA Types ==
  ASSUME TypeInv
  PROVE  /\ MaxExecuted \in Nat /\ listID \in Nat \ {0} /\ listID \in Int /\ over \in Nat /\ over \in Int
         /\ over < listID /\ listID <= MaxExecuted + 1
         /\ \A n \in over + 1 .. listID - 1 :
              /\ n \in 1 .. MaxExecuted /\ n \in Int /\ n > over /\ n < listID
              /\ flight[n] \in [uses : SUBSET Allocations, waits : Nat]
              /\ flight[n].uses \subseteq Allocations /\ flight[n].waits \in Nat
         /\ \A a \in Allocations : lastUsed[a] \in Int
         /\ DOMAIN requests = 1 .. Len(requests) /\ Len(requests) \in Nat
         /\ \A i \in DOMAIN requests : requests[i] \subseteq Allocations
<1>1. MaxExecuted \in Nat /\ listID \in 1 .. MaxExecuted + 1 /\ over \in Nat /\ over < listID
  BY ResidencyAssumption DEF TypeInv
<1>2. \A n \in over + 1 .. listID - 1 : n \in 1 .. MaxExecuted /\ n \in Int /\ n > over /\ n < listID
  BY <1>1
<1>3. \A n \in over + 1 .. listID - 1 :
        /\ flight[n] \in [uses : SUBSET Allocations, waits : Nat]
        /\ flight[n].uses \subseteq Allocations /\ flight[n].waits \in Nat
  BY <1>2 DEF TypeInv
<1>4. DOMAIN requests = 1 .. Len(requests) /\ Len(requests) \in Nat
  BY DEF TypeInv
<1>5. \A i \in DOMAIN requests : requests[i] \subseteq Allocations
  BY <1>4 DEF TypeInv
<1> QED  BY <1>1, <1>2, <1>3, <1>4, <1>5 DEF TypeInv

(* What is requested will be used by a list that is not over.              *)
LEMMA RequestedLater ==
  ASSUME TypeInv, RequestInv, NEW a, Requested(a)
  PROVE  a \in Allocations /\ lastUsed[a] > over
<1>1. PICK i \in DOMAIN requests : a \in requests[i]
  BY DEF Requested
<1>2. a \in Allocations /\ lastUsed[a] \in Int
  BY <1>1, Types
<1>3. CASE lastUsed[a] = listID
  BY <1>2, <1>3, Types
<1>4. ASSUME NEW n \in over + 1 .. listID - 1, lastUsed[a] >= n PROVE lastUsed[a] > over
  BY <1>2, <1>4, Types
<1> QED  BY <1>1, <1>2, <1>3, <1>4 DEF RequestInv

(* What belongs to lists stays as it is when nothing that a list not over  *)
(* uses, S being all that is evicted, is evicted.                          *)
LEMMA EvictionKeeps ==
  ASSUME TypeInv, FlightInv, RequestInv, NEW S,
         UNCHANGED <<listID, over, flight, requests>>,
         lastUsed' \in [Allocations -> Int],
         \A a \in Allocations : a \notin S =>
           lastUsed'[a] >= lastUsed[a] /\ (lastUsed[a] = listID => lastUsed'[a] = listID),
         \A a \in Allocations : a \in S => lastUsed[a] <= over,
         \A a \in onDevice : a \notin S => a \in onDevice'
  PROVE  FlightInv' /\ RequestInv'
<1>1. \A a \in Allocations : lastUsed[a] \in Int /\ lastUsed'[a] \in Int
  BY Types
<1>2. FlightInv'
  <2> SUFFICES ASSUME NEW n \in over + 1 .. listID - 1
               PROVE  /\ flight[n].waits <= Len(requests)
                      /\ \A a \in flight[n].uses :
                           /\ lastUsed'[a] >= n
                           /\ a \in onDevice' \/ \E i \in 1 .. flight[n].waits : a \in requests[i]
    BY DEF FlightInv
  <2>1. ASSUME NEW a \in flight[n].uses
        PROVE  lastUsed'[a] >= n /\ (a \in onDevice' \/ \E i \in 1 .. flight[n].waits : a \in requests[i])
    <3>1. a \in Allocations /\ n \in Int /\ n > over /\ over \in Int
      BY Types
    <3>2. lastUsed[a] >= n /\ (a \in onDevice \/ \E i \in 1 .. flight[n].waits : a \in requests[i])
      BY DEF FlightInv
    <3>3. a \notin S
      BY <1>1, <3>1, <3>2
    <3>4. lastUsed'[a] >= n
      BY <1>1, <3>1, <3>2, <3>3
    <3> QED  BY <3>2, <3>3, <3>4
  <2> QED  BY <2>1 DEF FlightInv
<1>3. RequestInv'
  <2> SUFFICES ASSUME NEW i \in DOMAIN requests, NEW a \in requests[i]
               PROVE  \/ lastUsed'[a] = listID
                      \/ \E n \in over + 1 .. listID - 1 : flight[n].waits >= i /\ lastUsed'[a] >= n
    BY DEF RequestInv
  <2>1. a \in Allocations /\ lastUsed[a] > over
    BY RequestedLater DEF Requested
  <2>2. a \notin S
    BY <1>1, <2>1, Types
  <2>3. CASE lastUsed[a] = listID
    BY <2>1, <2>2, <2>3
  <2>4. ASSUME NEW n \in over + 1 .. listID - 1, flight[n].waits >= i, lastUsed[a] >= n
        PROVE  lastUsed'[a] >= n
    BY <1>1, <2>1, <2>2, <2>4, Types
  <2> QED  BY <2>3, <2>4 DEF RequestInv
<1> QED  BY <1>2, <1>3

(* Nothing is paged in while the manager's mutex is free.                  *)
LEMMA NotPaging ==
  ASSUME TypeInv, ~paging.active
  PROVE  paging = Idle /\ ToSet(paging.missing) = {}
<1>1. paging = Idle
  BY DEF TypeInv, PagingRecord
<1> QED  BY <1>1 DEF Idle, ToSet

-----------------------------------------------------------------------------
(* The actions                                                             *)

(* BeginTrackingObject.                                                    *)
LEMMA BeginStep ==
  ASSUME Inv, NEW a \in Allocations, NEW resident \in BOOLEAN, BeginTrackingObject(a, resident)
  PROVE  Inv'
<1>1. /\ ~paging.active /\ lastUsed[a] = -1
      /\ lastUsed' = [lastUsed EXCEPT ![a] = 0]
      /\ lru' = IF resident THEN <<a>> \o lru ELSE lru
      /\ onDevice' = IF resident THEN onDevice \cup {a} ELSE onDevice
      /\ UNCHANGED <<opened, listID, over, flight, requests, paging>>
  BY DEF BeginTrackingObject, Tracked, Untracked
<1>2. TypeInv /\ ListsInv /\ FlightInv /\ RequestInv /\ BooksInv
  BY DEF Inv
<1>3. a \notin ToSet(lru) /\ a \notin ToSet(opened)
  BY <1>1, <1>2 DEF ListsInv, Tracked, Untracked
<1>4. Lists(lru, ToSet(lru))
  BY <1>2 DEF Lists, ListsInv, TypeInv
<1>5. lru' \in Seq(Allocations) /\ IsInjective(lru')
      /\ ToSet(lru') = IF resident THEN {a} \cup ToSet(lru) ELSE ToSet(lru)
  <2>1. CASE resident
    <3>1. Lists(<<a>> \o lru, {a} \cup ToSet(lru))
      BY <1>3, <1>4, JustOne, ListsJoined
    <3> QED  BY <1>1, <2>1, <3>1 DEF Lists
  <2>2. CASE ~resident
    BY <1>1, <1>4, <2>2 DEF Lists
  <2> QED  BY <2>1, <2>2
<1>6. /\ lastUsed' \in [Allocations -> Int]
      /\ \A b \in Allocations : lastUsed'[b] = IF b = a THEN 0 ELSE lastUsed[b]
  BY <1>1, <1>2 DEF TypeInv
<1>7. TypeInv'
  BY <1>1, <1>2, <1>5, <1>6 DEF TypeInv
<1>8. ListsInv'
  <2>1. \A b \in ToSet(lru') \cup ToSet(opened') : b \in Allocations
    BY <1>7 DEF TypeInv, ToSet
  <2>2. \A b \in ToSet(lru') \cup ToSet(opened') : lastUsed'[b] # -1
    BY <1>1, <1>2, <1>5, <1>6, <2>1 DEF ListsInv, Tracked, Untracked
  <2>3. listID \in Nat \ {0}
    BY <1>2, Types
  <2> QED  BY <1>1, <1>2, <1>5, <1>6, <2>2, <2>3 DEF ListsInv, Tracked, Untracked
<1>9. FlightInv' /\ RequestInv'
  <2>1. \A b \in Allocations : lastUsed'[b] >= lastUsed[b] /\ (lastUsed[b] = listID => lastUsed'[b] = listID)
    BY <1>1, <1>2, <1>6, Types
  <2> QED  BY <1>1, <1>2, <1>6, <2>1, EvictionKeeps, SMTT(20)
<1>10. BooksInv'
  <2>1. \A b : Requested(b)' <=> Requested(b)
    BY <1>1 DEF Requested
  <2> QED  BY <1>1, <1>2, <1>5, <2>1 DEF BooksInv
<1> QED  BY <1>1, <1>7, <1>8, <1>9, <1>10 DEF Inv, PagingInv, RoundsInv

(* EndTrackingObject.                                                      *)
LEMMA EndStep ==
  ASSUME Inv, NEW a \in Allocations, EndTrackingObject(a)
  PROVE  Inv'
<1>1. /\ ~paging.active /\ lastUsed[a] \in 0 .. over /\ a \notin ToSet(opened)
      /\ lastUsed' = [lastUsed EXCEPT ![a] = -1]
      /\ lru' = Those(lru, Allocations \ {a})
      /\ onDevice' = onDevice \ {a}
      /\ UNCHANGED <<opened, listID, over, flight, requests, paging>>
  BY DEF EndTrackingObject, Untracked
<1>2. TypeInv /\ ListsInv /\ FlightInv /\ RequestInv /\ BooksInv
  BY DEF Inv
<1>3. lru' \in Seq(Allocations) /\ IsInjective(lru') /\ ToSet(lru') = ToSet(lru) \ {a}
  <2>1. Lists(lru', ToSet(lru) \cap (Allocations \ {a}))
    BY <1>1, <1>2, ThoseAre DEF TypeInv, ListsInv
  <2>2. ToSet(lru) \subseteq Allocations
    BY <1>2 DEF TypeInv, ToSet
  <2> QED  BY <2>1, <2>2 DEF Lists
<1>4. /\ lastUsed' \in [Allocations -> Int]
      /\ \A b \in Allocations : lastUsed'[b] = IF b = a THEN -1 ELSE lastUsed[b]
  BY <1>1, <1>2 DEF TypeInv
<1>5. TypeInv'
  BY <1>1, <1>2, <1>3, <1>4 DEF TypeInv
<1>6. ListsInv'
  <2>1. \A b \in ToSet(lru) \cup ToSet(opened) : b \in Allocations
    BY <1>2 DEF TypeInv, ToSet
  <2>2. \A b \in ToSet(lru') \cup ToSet(opened') : lastUsed'[b] # -1
    BY <1>1, <1>2, <1>3, <1>4, <2>1 DEF ListsInv, Tracked, Untracked
  <2>3. listID \in Nat \ {0}
    BY <1>2, Types
  <2>4. lastUsed[a] # listID /\ -1 # listID /\ -1 \in -1 .. listID
    BY <1>1, <1>2, <2>3, Types
  <2>5. \A b \in Allocations : lastUsed'[b] \in -1 .. listID
    BY <1>2, <1>4, <2>4 DEF ListsInv
  <2>6. \A b \in Allocations : lastUsed'[b] = listID <=> paging.active /\ b \in ToSet(opened)
    BY <1>1, <1>2, <1>4, <2>4 DEF ListsInv
  <2> QED  BY <1>1, <1>2, <1>3, <2>2, <2>5, <2>6 DEF ListsInv, Tracked, Untracked
<1>7. FlightInv' /\ RequestInv'
  <2>1. \A b \in Allocations : b \notin {a} =>
          lastUsed'[b] >= lastUsed[b] /\ (lastUsed[b] = listID => lastUsed'[b] = listID)
    BY <1>2, <1>4, Types
  <2>2. \A b \in Allocations : b \in {a} => lastUsed[b] <= over
    BY <1>1
  <2>3. \A b \in onDevice : b \notin {a} => b \in onDevice'
    BY <1>1
  <2> QED  BY <1>1, <1>2, <1>4, <2>1, <2>2, <2>3, EvictionKeeps
<1>8. BooksInv'
  <2>1. \A b : Requested(b)' <=> Requested(b)
    BY <1>1 DEF Requested
  <2>2. ~Requested(a)
    <3>1. lastUsed[a] <= over /\ ~(lastUsed[a] > over)
      BY <1>1, <1>2, Types
    <3> QED  BY <1>2, <3>1, RequestedLater
  <2>3. ToSet(paging.missing) = {} /\ paging' = paging
    BY <1>1, <1>2, NotPaging
  <2> QED  BY <1>1, <1>2, <1>3, <2>1, <2>2, <2>3 DEF BooksInv
<1> QED  BY <1>1, <1>5, <1>6, <1>7, <1>8 DEF Inv, PagingInv, RoundsInv

(* Insert, into the set of the list that is recorded.                      *)
LEMMA InsertStep ==
  ASSUME Inv, NEW a \in Allocations, Insert(a)
  PROVE  Inv'
<1>1. /\ ~paging.active /\ lastUsed[a] # -1 /\ a \notin ToSet(opened) /\ listID <= MaxExecuted
      /\ opened' = Append(opened, a)
      /\ UNCHANGED <<lru, lastUsed, listID, over, flight, onDevice, requests, paging>>
  BY DEF Insert, Tracked, Untracked
<1>2. TypeInv /\ ListsInv /\ FlightInv /\ RequestInv /\ BooksInv
  BY DEF Inv
<1>3. opened' \in Seq(Allocations) /\ IsInjective(opened') /\ ToSet(opened') = ToSet(opened) \cup {a}
  <2>1. Lists(opened, ToSet(opened))
    BY <1>2 DEF TypeInv, ListsInv, Lists
  <2> QED  BY <1>1, <2>1, OneMore DEF Lists
<1>4. TypeInv'
  BY <1>1, <1>2, <1>3 DEF TypeInv
<1>5. ListsInv'
  BY <1>1, <1>2, <1>3 DEF ListsInv, Tracked, Untracked
<1>6. FlightInv' /\ RequestInv' /\ BooksInv'
  <2>1. \A b : Requested(b)' <=> Requested(b)
    BY <1>1 DEF Requested
  <2> QED  BY <1>1, <1>2, <2>1 DEF FlightInv, RequestInv, BooksInv
<1> QED  BY <1>1, <1>4, <1>5, <1>6 DEF Inv, PagingInv, RoundsInv

(* ProcessPagingWork, up to its loop.                                      *)
LEMMA PagingStep ==
  ASSUME Inv, NEW old \in Nat, NEW space \in Spaces, ProcessPagingWork(old, space)
  PROVE  Inv'
<1> DEFINE used == [a \in Allocations |-> IF a \in ToSet(opened) THEN listID ELSE lastUsed[a]]
           order == Those(lru, Allocations \ ToSet(opened)) \o opened
           limit == IF old < Len(order) THEN old ELSE Len(order)
           n == Stale(order, limit, used, over)
<1>1. /\ ~paging.active /\ opened # <<>>
      /\ lastUsed' = used /\ lru' = Drop(order, n) /\ onDevice' = onDevice \ Leading(order, n)
      /\ paging' = [active |-> TRUE, missing |-> Those(opened, Evicted),
                    space |-> space, waitFor |-> -1, rounds |-> 0]
      /\ UNCHANGED <<opened, listID, over, flight, requests>>
  BY DEF ProcessPagingWork, Untracked
<1>2. TypeInv /\ ListsInv /\ FlightInv /\ RequestInv /\ BooksInv
  BY DEF Inv
<1>3. PICK Now : Now = ToSet(opened)
  OBVIOUS
<1>4. Lists(lru, ToSet(lru)) /\ Lists(opened, Now)
  BY <1>2, <1>3 DEF Lists, ListsInv, TypeInv
<1>5. ToSet(lru) \subseteq Allocations /\ Now \subseteq Allocations
  BY <1>2, <1>3 DEF TypeInv, ToSet
<1>6. Lists(order, ToSet(lru) \cup Now)
  <2>1. Lists(Those(lru, Allocations \ Now), ToSet(lru) \cap (Allocations \ Now))
    BY <1>4, ThoseAre DEF Lists
  <2>2. Lists(order, (ToSet(lru) \cap (Allocations \ Now)) \cup Now)
    BY <1>3, <1>4, <2>1, ListsJoined
  <2>3. (ToSet(lru) \cap (Allocations \ Now)) \cup Now = ToSet(lru) \cup Now
    BY <1>5
  <2> QED  BY <2>2, <2>3
<1>7. /\ used \in [Allocations -> Int]
      /\ \A a \in Allocations : used[a] = IF a \in Now THEN listID ELSE lastUsed[a]
  BY <1>2, <1>3, Types
<1> HIDE DEF used, order
<1>8. limit \in 0 .. Len(order) /\ Len(order) \in Nat /\ order \in Seq(Allocations)
  <2>1. order \in Seq(Allocations) /\ Len(order) \in Nat
    BY <1>6 DEF Lists
  <2> QED  BY <2>1
<1> HIDE DEF limit
<1>9. n \in 0 .. Len(order) /\ \A i \in 1 .. n : used[order[i]] <= over
  <2>1. over \in Int
    BY <1>2, Types
  <2>2. n \in 0 .. limit /\ \A i \in 1 .. n : used[order[i]] <= over
    BY <1>7, <1>8, <2>1, StaleAre
  <2> QED  BY <1>8, <2>2
<1> HIDE DEF n
<1>10. PICK L : L = Leading(order, n) /\ L \subseteq ToSet(lru) \cup Now
                /\ L = {order[i] : i \in 1 .. n} /\ Lists(lru', (ToSet(lru) \cup Now) \ L)
  BY <1>1, <1>6, <1>9, Dropped
<1>11. \A a \in L : a \in Allocations /\ a \notin Now /\ lastUsed[a] <= over
  <2> SUFFICES ASSUME NEW a \in L PROVE a \in Allocations /\ a \notin Now /\ lastUsed[a] <= over
    OBVIOUS
  <2>1. a \in Allocations /\ used[a] <= over
    BY <1>5, <1>9, <1>10
  <2>2. ~(listID <= over)
    BY <1>2, Types
  <2> QED  BY <1>7, <2>1, <2>2
<1>12. ToSet(lru') = (ToSet(lru) \cup Now) \ L /\ IsInjective(lru') /\ lru' \in Seq(Allocations)
  BY <1>10 DEF Lists
<1>13. Lists(paging'.missing, Now \ ToSet(lru)) /\ paging' \in PagingRecord
  <2>1. Lists(Those(opened, Evicted), Now \cap Evicted)
    BY <1>3, <1>4, ThoseAre DEF Lists
  <2>2. \A a \in Now : a \in Evicted <=> a \notin ToSet(lru)
    BY <1>2, <1>3, <1>5 DEF Evicted, ListsInv
  <2>3. Now \cap Evicted = Now \ ToSet(lru)
    BY <2>2
  <2>4. space \in Int
    BY ResidencyAssumption
  <2>5. Those(opened, Evicted) \in Seq(Allocations)
    BY <2>1 DEF Lists
  <2>6. paging'.missing = Those(opened, Evicted)
    BY <1>1
  <2>7. Lists(paging'.missing, Now \ ToSet(lru))
    BY Zenon, <2>1, <2>3, <2>6
  <2>8. paging' \in PagingRecord
    BY <1>1, <2>4, <2>5 DEF PagingRecord
  <2> QED  BY <2>7, <2>8
<1>14. ToSet(paging'.missing) = Now \ ToSet(lru) /\ IsInjective(paging'.missing)
  BY <1>13 DEF Lists
<1>15. TypeInv'
  <2>1. onDevice' \subseteq Allocations
    BY <1>1, <1>2 DEF TypeInv
  <2> QED  BY <1>1, <1>2, <1>7, <1>12, <1>13, <2>1 DEF TypeInv
<1>16. paging'.active /\ ToSet(opened') = Now /\ \A a \in Allocations : lastUsed'[a] = used[a]
  BY <1>1, <1>3
<1>17. ListsInv'
  <2>1. listID \in Nat \ {0}
    BY <1>2, Types
  <2>2. \A a \in ToSet(lru') \cup Now : used[a] # -1
    BY <1>2, <1>3, <1>5, <1>7, <1>12, <2>1 DEF ListsInv, Tracked, Untracked
  <2>3. \A a \in Allocations : used[a] \in -1 .. listID
    BY <1>2, <1>7, <2>1 DEF ListsInv
  <2>4. \A a \in Allocations : used[a] = listID <=> a \in Now
    BY <1>1, <1>2, <1>7 DEF ListsInv
  <2>5. \A a \in ToSet(lru') \cup Now : lastUsed'[a] # -1
    BY <1>1, <2>2
  <2> QED  BY <1>1, <1>2, <1>12, <1>16, <2>3, <2>4, <2>5 DEF ListsInv, Tracked, Untracked
<1>18. PagingInv'
  BY <1>1, <1>11, <1>12, <1>14, <1>16 DEF PagingInv
<1>19. FlightInv' /\ RequestInv'
  <2>1. \A a \in Allocations : lastUsed'[a] >= lastUsed[a] /\ (lastUsed[a] = listID => lastUsed'[a] = listID)
    <3>1. \A a \in Allocations : lastUsed[a] \in Int /\ lastUsed[a] <= listID /\ listID \in Int
      BY <1>2, Types DEF ListsInv
    <3> QED  BY <1>7, <1>16, <3>1
  <2>2. \A a \in onDevice : a \notin L => a \in onDevice'
    BY <1>1, <1>10
  <2>3. lastUsed' \in [Allocations -> Int]
    BY <1>1, <1>7
  <2> QED  BY <1>1, <1>2, <1>11, <2>1, <2>2, <2>3, EvictionKeeps
<1>20. BooksInv'
  <2>1. \A b : Requested(b)' <=> Requested(b)
    BY <1>1 DEF Requested
  <2>2. \A a \in L : ~Requested(a)
    <3> SUFFICES ASSUME NEW a \in L, Requested(a) PROVE FALSE
      OBVIOUS
    <3>1. lastUsed[a] > over /\ lastUsed[a] <= over /\ lastUsed[a] \in Int /\ over \in Int
      BY <1>2, <1>11, RequestedLater, Types
    <3> QED  BY <3>1
  <2>3. ToSet(paging.missing) = {}
    BY <1>1, <1>2, NotPaging
  <2>4. \A a \in Allocations : a \in ToSet(lru) <=> a \in onDevice \/ Requested(a)
    BY <1>2, <2>3 DEF BooksInv
  <2>5. onDevice' = onDevice \ L
    BY <1>1, <1>10
  <2>6. \A a \in Allocations :
          a \in ToSet(lru') <=> a \in onDevice' \/ Requested(a) \/ a \in Now \ ToSet(lru)
    BY <1>11, <1>12, <2>2, <2>4, <2>5
  <2> QED  BY <1>14, <2>1, <2>6 DEF BooksInv
<1>21. RoundsInv'
  <2>1. Len(lru') \in Nat /\ Cardinality(Allocations) \in Nat /\ Len(lru') <= Cardinality(Allocations)
    BY <1>10, NotLonger DEF Lists
  <2>2. Len(opened) \in Nat \ {0} /\ opened' = opened
    BY <1>1, <1>2 DEF TypeInv
  <2>3. paging'.rounds = 0 /\ paging'.waitFor = -1
    BY <1>1
  <2>4. Len(lru') - Len(opened) < Cardinality(Allocations)
    BY <2>1, <2>2
  <2> QED  BY <2>1, <2>2, <2>3, <2>4 DEF RoundsInv, Untracked
<1> QED  BY <1>15, <1>17, <1>18, <1>19, <1>20, <1>21 DEF Inv

-----------------------------------------------------------------------------
(* The loop of ProcessPagingWork                                           *)

(* The first n objects of a list: their size is no greater, and not if the *)
(* list is empty.                                                          *)
LEMMA SizeOfFirst ==
  ASSUME NEW s \in Seq(Allocations), NEW n \in 0 .. Len(s)
  PROVE  /\ SubSeq(s, 1, n) \in Seq(Allocations)
         /\ TotalSize(SubSeq(s, 1, n)) \in Nat /\ TotalSize(s) \in Nat
         /\ TotalSize(SubSeq(s, 1, n)) <= TotalSize(s)
         /\ n = 0 => TotalSize(SubSeq(s, 1, n)) = 0
<1>1. PICK m \in Nat : m = Len(s) /\ n \in 0 .. m /\ n \in Nat
  OBVIOUS
<1>2. PICK r : r = SubSeq(s, 1, n)
  OBVIOUS
<1>3. r \in Seq(Allocations) /\ Len(r) = n /\ \A i \in 1 .. n : r[i] = s[i]
  BY <1>1, <1>2, SubSeqProperties
<1>4. PICK f : /\ TotalSize(s) = f[m] /\ f[0] = 0
               /\ \A i \in 1 .. m : f[i] = f[i - 1] + SizeOf[s[i]]
               /\ \A i \in 0 .. m : f[i] \in Nat
               /\ \A i, k \in 0 .. m : i <= k => f[i] <= f[k]
  BY <1>1, SizeIs
<1>5. PICK g : /\ TotalSize(r) = g[n] /\ g[0] = 0
               /\ \A i \in 1 .. n : g[i] = g[i - 1] + SizeOf[r[i]]
               /\ \A i \in 0 .. n : g[i] \in Nat
  BY <1>3, SizeIs
<1> DEFINE T == {i \in 0 .. n : g[i] = f[i]}
<1>6. 0 \in T
  BY <1>1, <1>4, <1>5
<1>7. ASSUME NEW i \in 1 .. n, i - 1 \in T PROVE i \in T
  <2>1. i \in 1 .. m /\ r[i] = s[i] /\ g[i - 1] = f[i - 1]
    BY <1>1, <1>3, <1>7
  <2>2. g[i] = f[i]
    BY <1>4, <1>5, <2>1
  <2> QED  BY <2>2
<1> HIDE DEF T
<1>8. \A i \in 0 .. n : i \in T
  BY <1>1, <1>6, <1>7, UpTo
<1>9. g[n] = f[n]
  BY <1>1, <1>8 DEF T
<1>10. m \in 0 .. m /\ n \in 0 .. m /\ n <= m
  BY <1>1
<1>11. TotalSize(r) \in Nat /\ TotalSize(s) \in Nat /\ TotalSize(r) <= TotalSize(s)
  BY <1>4, <1>5, <1>9, <1>10
<1>12. n = 0 => TotalSize(r) = 0
  BY <1>5
<1> QED  BY <1>2, <1>3, <1>11, <1>12

(* How many of what is missing are asked for: all of them, if they fit.    *)
LEMMA FittingIs ==
  ASSUME paging \in PagingRecord
  PROVE  /\ Fitting \in 0 .. Len(paging.missing)
         /\ TotalSize(paging.missing) <= paging.space => Fitting = Len(paging.missing)
<1>1. PICK m \in Seq(Allocations), space \in Int : m = paging.missing /\ space = paging.space
  BY DEF PagingRecord
<1>2. PICK len \in Nat : len = Len(m)
  BY <1>1
<1> DEFINE P(n) == /\ TotalSize(SubSeq(m, 1, n)) <= space \/ n = 0
                   /\ n < len => TotalSize(SubSeq(m, 1, n + 1)) > space
           T == {n \in 0 .. len : n < len => TotalSize(SubSeq(m, 1, n + 1)) > space}
<1>3. Fitting = CHOOSE n \in 0 .. len : P(n)
  BY <1>1, <1>2 DEF Fitting
<1>4. \A n \in 0 .. len : TotalSize(SubSeq(m, 1, n)) \in Nat /\ TotalSize(m) \in Nat
                          /\ TotalSize(SubSeq(m, 1, n)) <= TotalSize(m)
  BY <1>2, SizeOfFirst
<1>5. \E n \in 0 .. len : P(n)
  <2>1. len \in T /\ T \in SUBSET Nat
    OBVIOUS
  <2>2. PICK n \in T : \A k \in T : n <= k
    BY <2>1, LeastNumber
  <2>3. CASE n = 0
    BY <2>3
  <2>4. CASE n # 0
    <3>1. n - 1 \in 0 .. len /\ n - 1 < len /\ ~(n <= n - 1) /\ (n - 1) + 1 = n /\ n \in 0 .. len
      BY <2>4
    <3>2. n - 1 \notin T
      BY <2>2, <3>1
    <3>3. ~(TotalSize(SubSeq(m, 1, n)) > space)
      BY <3>1, <3>2
    <3>4. TotalSize(SubSeq(m, 1, n)) <= space
      BY <1>4, <3>1, <3>3
    <3> QED  BY <3>1, <3>4
  <2> QED  BY <2>3, <2>4
<1> HIDE DEF P
<1>6. Fitting \in 0 .. len /\ P(Fitting)
  BY <1>3, <1>5
<1>7. ASSUME TotalSize(m) <= space PROVE Fitting = len
  <2> SUFFICES ASSUME Fitting # len PROVE FALSE
    OBVIOUS
  <2>1. PICK k : k = Fitting + 1 /\ k \in 0 .. len /\ Fitting < len
    BY <1>6
  <2>2. TotalSize(SubSeq(m, 1, k)) > space
    BY <1>6, <2>1 DEF P
  <2>3. TotalSize(SubSeq(m, 1, k)) \in Nat /\ TotalSize(m) \in Nat /\ TotalSize(SubSeq(m, 1, k)) <= TotalSize(m)
    BY <1>4, <2>1
  <2> QED  BY <1>7, <2>2, <2>3
<1> QED  BY <1>1, <1>2, <1>6, <1>7

\* r goes on behind q with sets of things in S.
Continues(r, q, S) ==
  /\ r \in Seq(SUBSET Allocations) /\ Len(q) <= Len(r)
  /\ \A i \in 1 .. Len(q) : r[i] = q[i]
  /\ \A i \in 1 .. Len(r) : i > Len(q) => r[i] \subseteq S

(* One request more.                                                       *)
LEMMA OneRequest ==
  ASSUME NEW q \in Seq(SUBSET Allocations), NEW S, S \subseteq Allocations, NEW r, Continues(r, q, S),
         NEW X, X \subseteq S
  PROVE  /\ Continues(Append(r, X), q, S)
         /\ \A i \in 1 .. Len(r) : Append(r, X)[i] = r[i]
         /\ Len(Append(r, X)) = Len(r) + 1 /\ Append(r, X)[Len(r) + 1] = X
<1>1. r \in Seq(SUBSET Allocations) /\ X \in SUBSET Allocations
  BY DEF Continues
<1>2. PICK k \in Nat, l \in Nat : k = Len(q) /\ l = Len(r) /\ k <= l
  BY <1>1 DEF Continues
<1>3. PICK t : t = Append(r, X)
  OBVIOUS
<1>4. t \in Seq(SUBSET Allocations) /\ Len(t) = l + 1
      /\ (\A i \in 1 .. l : t[i] = r[i]) /\ t[l + 1] = X
  BY <1>1, <1>2, <1>3, AppendProperties
<1>5. \A i \in 1 .. k : i \in 1 .. l
  BY <1>2
<1>6. \A i \in 1 .. k : t[i] = q[i]
  BY <1>2, <1>4, <1>5 DEF Continues
<1>7. \A i \in 1 .. l + 1 : i > k => t[i] \subseteq S
  <2>1. \A i \in 1 .. l + 1 : i \in 1 .. l \/ i = l + 1
    BY <1>2
  <2> QED  BY <1>2, <1>4, <2>1 DEF Continues
<1> QED  BY <1>2, <1>3, <1>4, <1>6, <1>7 DEF Continues

\* What a round of the loop asks for, and what it leaves to ask for.
Asks(left) ==
  /\ Continues(requests', requests, ToSet(paging.missing))
  /\ left \subseteq ToSet(paging.missing)
  /\ \A a \in ToSet(paging.missing) :
       a \in left \/ \E i \in 1 .. Len(requests') : a \in requests'[i]

\* Nothing is left to evict but what the list uses; or there is something to
\* wait for.
Forced == lastUsed[Head(lru)] > listID - 1
Waiting(rest) == [paging EXCEPT !.missing = rest, !.waitFor = lastUsed[Head(lru)]]
WaitsWith(rest) ==
  /\ rest \in Seq(Allocations) /\ IsInjective(rest) /\ Asks(ToSet(rest))
  /\ paging' = Waiting(rest) /\ ~Forced
  /\ ~(TotalSize(paging.missing) < paging.space)
  /\ UNCHANGED <<opened, listID, flight>>

(* What a round of the loop does.                                          *)
LEMMA RoundIs ==
  ASSUME TypeInv, PagingInv, MakeResident
  PROVE  /\ paging \in PagingRecord /\ paging.waitFor = -1 /\ paging.active
         /\ UNCHANGED <<lru, lastUsed, over, onDevice>>
         /\ (Asks({}) /\ ExecuteCommandList) \/ \E rest : WaitsWith(rest)
<1>1. paging.active /\ paging.waitFor = -1 /\ UNCHANGED <<lru, lastUsed, over, onDevice>>
  BY DEF MakeResident, Untracked
<1>2. paging \in PagingRecord
  BY <1>1 DEF TypeInv, Idle
<1>3. PICK m \in Seq(Allocations), space \in Int : m = paging.missing /\ space = paging.space
  BY <1>2 DEF PagingRecord
<1>4. PICK len \in Nat : len = Len(m)
  BY <1>3
<1>5. PICK M : M = ToSet(m) /\ Lists(m, M) /\ M \subseteq Allocations
  <2>1. Lists(m, ToSet(m))
    BY <1>1, <1>3 DEF PagingInv, Lists
  <2> QED  BY <1>3, <2>1 DEF ToSet
<1>6. PICK n : n = IF space > 0 THEN Fitting ELSE 0
  OBVIOUS
<1>7. n \in 0 .. len /\ (TotalSize(m) < space => n = len)
  <2>1. Fitting \in 0 .. len /\ (TotalSize(m) <= space => Fitting = len)
    BY <1>2, <1>3, <1>4, FittingIs
  <2>2. TotalSize(m) \in Nat
    BY <1>4, SizeOfFirst
  <2>3. TotalSize(m) < space => space > 0 /\ TotalSize(m) <= space
    BY <1>3, <2>2
  <2> QED  BY <1>6, <2>1, <2>3
<1>8. PICK L, rest : /\ L = Leading(m, n) /\ rest = Drop(m, n) /\ Lists(rest, M \ L) /\ L \subseteq M
                     /\ Len(rest) = len - n /\ (n = 0 => L = {})
  <2>1. n = 0 => {m[i] : i \in 1 .. n} = {}
    OBVIOUS
  <2> QED  BY <1>4, <1>5, <1>7, <2>1, Dropped
<1>9. rest = <<>> <=> M \ L = {}
  <2>1. rest = <<>> => M \ L = {}
    BY <1>8 DEF Lists, ToSet
  <2>2. rest # <<>> => M \ L # {}
    <3>1. rest \in Seq(Allocations) /\ ToSet(rest) = M \ L
      BY <1>8 DEF Lists
    <3>2. rest # <<>> => 1 \in DOMAIN rest
      BY <3>1
    <3> QED  BY <3>1, <3>2 DEF ToSet
  <2> QED  BY <2>1, <2>2
<1>10. PICK batched : batched = IF m = <<>> \/ space <= 0 THEN requests ELSE Append(requests, L)
  OBVIOUS
<1>12. /\ IF rest = <<>> \/ Forced
          THEN /\ requests' = IF rest = <<>> THEN batched ELSE Append(batched, ToSet(rest))
               /\ ExecuteCommandList
          ELSE /\ requests' = batched
               /\ paging' = Waiting(rest)
               /\ UNCHANGED <<opened, listID, flight>>
  BY <1>3, <1>6, <1>8, <1>10 DEF MakeResident, Forced, Waiting
<1>13. requests \in Seq(SUBSET Allocations) /\ Continues(requests, requests, M)
  BY DEF TypeInv, Continues
<1>14. /\ Continues(batched, requests, M)
       /\ \A a \in M : a \in M \ L \/ \E i \in 1 .. Len(batched) : a \in batched[i]
  <2>1. CASE m = <<>> \/ space <= 0
    <3>1. n = 0
      BY <1>4, <1>6, <1>7, <2>1
    <3> QED  BY <1>8, <1>10, <1>13, <2>1, <3>1
  <2>2. CASE ~(m = <<>> \/ space <= 0)
    <3>1. batched = Append(requests, L) /\ Len(requests) \in Nat
      BY <1>10, <1>13, <2>2
    <3>2. /\ Continues(batched, requests, M)
          /\ Len(batched) = Len(requests) + 1 /\ batched[Len(requests) + 1] = L
      BY <1>5, <1>8, <1>13, <3>1, OneRequest, SMTT(20)
    <3> QED  BY <3>1, <3>2, SMTT(20)
  <2> QED  BY <2>1, <2>2
<1>15. CASE rest = <<>> \/ Forced
  <2>1. Asks({})
    <3>1. CASE rest = <<>>
      BY <1>3, <1>5, <1>9, <1>12, <1>14, <3>1 DEF Asks
    <3>2. CASE rest # <<>>
      <4>2. PICK R : R = M \ L /\ R \subseteq M
        OBVIOUS
      <4>1. requests' = Append(batched, R) /\ Len(batched) \in Nat
        BY <1>8, <1>12, <1>14, <1>15, <3>2, <4>2 DEF Lists, Continues
      <4> DEFINE More(t) == /\ Continues(t, requests, M)
                            /\ \A i \in 1 .. Len(batched) : t[i] = batched[i]
                            /\ Len(t) = Len(batched) + 1 /\ t[Len(batched) + 1] = R
      <4>3. More(Append(batched, R))
        BY <1>5, <1>13, <1>14, <4>2, OneRequest
      <4> HIDE DEF More
      <4>6. More(requests')
        BY Zenon, <4>1, <4>3
      <4>7. /\ Continues(requests', requests, M)
            /\ \A i \in 1 .. Len(batched) : requests'[i] = batched[i]
            /\ Len(requests') = Len(batched) + 1 /\ requests'[Len(batched) + 1] = R
        BY Zenon, <4>6 DEF More
      <4>4. \A i \in 1 .. Len(batched) : i \in 1 .. Len(requests')
        BY <4>1, <4>7
      <4>5. Len(batched) + 1 \in 1 .. Len(requests')
        BY <4>1, <4>7
      <4>8. \A a \in M : \E i \in 1 .. Len(requests') : a \in requests'[i]
        BY <1>14, <4>2, <4>4, <4>5, <4>7
      <4> QED  BY <1>3, <1>5, <4>7, <4>8 DEF Asks
    <3> QED  BY <3>1, <3>2
  <2> QED  BY <1>1, <1>2, <1>12, <1>15, <2>1
<1>16. CASE ~(rest = <<>> \/ Forced)
  <2>1. rest \in Seq(Allocations) /\ IsInjective(rest) /\ ToSet(rest) = M \ L
    BY <1>8 DEF Lists
  <2>2. Asks(ToSet(rest))
    BY <1>3, <1>5, <1>12, <1>14, <1>16, <2>1 DEF Asks
  <2>3. ~(TotalSize(m) < space)
    <3>1. n = len => Len(rest) = 0
      BY <1>4, <1>8
    <3>2. Len(rest) = 0 => rest = <<>>
      BY <2>1
    <3> QED  BY <1>7, <1>16, <3>1, <3>2
  <2>4. WaitsWith(rest)
    BY <1>3, <1>12, <1>16, <2>1, <2>2, <2>3 DEF WaitsWith
  <2> QED  BY <1>1, <1>2, <2>4
<1> QED  BY <1>15, <1>16

(* What a round asks for goes on behind the requests there are, for what   *)
(* the list being paged in uses.                                           *)
LEMMA AsksMore ==
  ASSUME TypeInv, ListsInv, PagingInv, BooksInv, paging.active, NEW left, Asks(left)
  PROVE  /\ requests' \in Seq(SUBSET Allocations) /\ Len(requests') \in Nat
         /\ DOMAIN requests' = 1 .. Len(requests') /\ Len(requests) <= Len(requests')
         /\ \A i \in DOMAIN requests : i \in DOMAIN requests' /\ requests'[i] = requests[i]
         /\ \A i \in DOMAIN requests' : i \notin DOMAIN requests =>
              \A a \in requests'[i] : a \in Allocations /\ lastUsed[a] = listID
         /\ \A a \in Allocations :
              a \in ToSet(lru) <=> a \in onDevice \/ Requested(a)' \/ a \in left
<1>1. /\ requests' \in Seq(SUBSET Allocations) /\ Len(requests) <= Len(requests')
      /\ \A i \in 1 .. Len(requests) : requests'[i] = requests[i]
      /\ \A i \in 1 .. Len(requests') : i > Len(requests) => requests'[i] \subseteq ToSet(paging.missing)
      /\ left \subseteq ToSet(paging.missing)
      /\ \A a \in ToSet(paging.missing) :
           a \in left \/ \E i \in 1 .. Len(requests') : a \in requests'[i]
  BY DEF Asks, Continues
<1>2. Len(requests') \in Nat /\ DOMAIN requests' = 1 .. Len(requests')
  BY <1>1, LenProperties
<1>3. DOMAIN requests = 1 .. Len(requests) /\ Len(requests) \in Nat
  BY Types
<1>4. \A i \in DOMAIN requests : i \in DOMAIN requests' /\ requests'[i] = requests[i]
  BY <1>1, <1>2, <1>3
<1>5. \A a \in ToSet(paging.missing) : a \in Allocations /\ lastUsed[a] = listID
  <2>1. ToSet(opened) \subseteq Allocations
    BY DEF TypeInv, ToSet
  <2> QED  BY <2>1 DEF PagingInv, ListsInv
<1>6. \A i \in DOMAIN requests' : i \notin DOMAIN requests => requests'[i] \subseteq ToSet(paging.missing)
  BY <1>1, <1>2, <1>3
<1>7. \A a : Requested(a)' <=> \E i \in DOMAIN requests' : a \in requests'[i]
  BY DEF Requested
<1>8. \A a : Requested(a)' => Requested(a) \/ a \in ToSet(paging.missing)
  BY <1>4, <1>6, <1>7 DEF Requested
<1>9. \A a : Requested(a) => Requested(a)'
  BY <1>4, <1>7 DEF Requested
<1>10. \A a \in ToSet(paging.missing) : a \in left \/ Requested(a)'
  BY <1>1, <1>2, <1>7
<1>11. \A a \in Allocations : a \in ToSet(lru) <=> a \in onDevice \/ Requested(a)' \/ a \in left
  BY <1>1, <1>8, <1>9, <1>10 DEF BooksInv
<1> QED  BY <1>1, <1>2, <1>4, <1>5, <1>6, <1>11

(* While a list is paged in, there is a stalest object.                    *)
LEMMA StalestExists ==
  ASSUME TypeInv, PagingInv, paging.active
  PROVE  Head(lru) \in Allocations /\ Head(lru) = lru[1] /\ Len(lru) > 0 /\ Head(lru) \in ToSet(lru)
<1>1. opened # <<>> /\ opened \in Seq(Allocations)
  BY DEF PagingInv, TypeInv
<1>2. opened[1] \in ToSet(opened)
  <2>1. 1 \in DOMAIN opened
    BY <1>1
  <2> QED  BY <2>1 DEF ToSet
<1>3. ToSet(opened) \subseteq ToSet(lru)
  BY DEF PagingInv
<1>4. lru # <<>>
  <2>1. ToSet(<<>>) = {}
    BY DEF ToSet
  <2> QED  BY <1>2, <1>3, <2>1
<1>5. lru \in Seq(Allocations)
  BY DEF TypeInv
<1>6. Head(lru) = lru[1] /\ 1 \in DOMAIN lru /\ lru[1] \in Allocations /\ Len(lru) > 0
  BY <1>4, <1>5
<1> QED  BY <1>6 DEF ToSet

(* A round that ends with a wait.                                          *)
LEMMA WaitStep ==
  ASSUME Inv, paging \in PagingRecord, paging.waitFor = -1, paging.active,
         UNCHANGED <<lru, lastUsed, over, onDevice>>, NEW rest, WaitsWith(rest)
  PROVE  Inv'
<1>1. /\ rest \in Seq(Allocations) /\ IsInjective(rest) /\ Asks(ToSet(rest))
      /\ paging' = Waiting(rest) /\ ~Forced
      /\ ~(TotalSize(paging.missing) < paging.space)
      /\ UNCHANGED <<opened, listID, flight>>
  BY DEF WaitsWith
<1>2. TypeInv /\ ListsInv /\ PagingInv /\ FlightInv /\ RequestInv /\ BooksInv /\ RoundsInv
  BY DEF Inv
<1>3. /\ requests' \in Seq(SUBSET Allocations) /\ Len(requests') \in Nat
      /\ DOMAIN requests' = 1 .. Len(requests') /\ Len(requests) <= Len(requests')
      /\ \A i \in DOMAIN requests : i \in DOMAIN requests' /\ requests'[i] = requests[i]
      /\ \A i \in DOMAIN requests' : i \notin DOMAIN requests =>
           \A a \in requests'[i] : a \in Allocations /\ lastUsed[a] = listID
      /\ \A a \in Allocations :
           a \in ToSet(lru) <=> a \in onDevice \/ Requested(a)' \/ a \in ToSet(rest)
  BY <1>1, <1>2, AsksMore
<1>4. PICK h \in Allocations : h = Head(lru) /\ lastUsed[h] \in Int /\ h \in ToSet(lru)
  <2>1. Head(lru) \in Allocations /\ Head(lru) \in ToSet(lru)
    BY <1>2, StalestExists
  <2> QED  BY <1>2, <2>1, Types
<1>5. PICK v \in Int : v = lastUsed[h] /\ v # -1
  BY <1>2, <1>4 DEF ListsInv, Tracked, Untracked
<1>6. /\ paging' \in PagingRecord /\ paging'.active /\ paging'.missing = rest
      /\ paging'.waitFor = v /\ paging'.rounds = paging.rounds
  <2>1. paging' = [paging EXCEPT !.missing = rest, !.waitFor = v]
    BY <1>1, <1>4, <1>5 DEF Waiting
  <2> QED  BY <1>1, <2>1 DEF PagingRecord
<1>7. TypeInv'
  BY <1>1, <1>2, <1>3, <1>6 DEF TypeInv
<1>8. ListsInv' /\ PagingInv'
  <2>1. ToSet(rest) \subseteq ToSet(paging.missing)
    BY <1>1 DEF Asks
  <2>2. ListsInv'
    BY <1>1, <1>2, <1>6 DEF ListsInv, Tracked, Untracked
  <2>3. PagingInv'
    BY <1>1, <1>2, <1>6, <2>1 DEF PagingInv
  <2> QED  BY <2>2, <2>3
<1>9. FlightInv'
  <2> SUFFICES ASSUME NEW n \in over + 1 .. listID - 1
               PROVE  /\ flight[n].waits <= Len(requests')
                      /\ \A a \in flight[n].uses :
                           /\ lastUsed[a] >= n
                           /\ a \in onDevice \/ \E i \in 1 .. flight[n].waits : a \in requests'[i]
    BY <1>1 DEF FlightInv
  <2>1. /\ flight[n].waits <= Len(requests)
        /\ \A a \in flight[n].uses :
             /\ lastUsed[a] >= n
             /\ a \in onDevice \/ \E i \in 1 .. flight[n].waits : a \in requests[i]
    BY <1>2 DEF FlightInv
  <2>2. flight[n].waits \in Nat /\ DOMAIN requests = 1 .. Len(requests) /\ Len(requests) \in Nat
    BY <1>2, Types
  <2>3. \A i \in 1 .. flight[n].waits : i \in DOMAIN requests
    BY <2>1, <2>2
  <2> QED  BY <1>3, <2>1, <2>2, <2>3
<1>10. RequestInv'
  <2> SUFFICES ASSUME NEW i \in DOMAIN requests', NEW a \in requests'[i]
               PROVE  \/ lastUsed[a] = listID
                      \/ \E n \in over + 1 .. listID - 1 : flight[n].waits >= i /\ lastUsed[a] >= n
    BY <1>1 DEF RequestInv
  <2> QED  BY <1>2, <1>3 DEF RequestInv
<1>11. BooksInv'
  BY <1>3, <1>6 DEF BooksInv
<1>12. RoundsInv'
  <2>1. Len(lru) \in Nat /\ Len(opened) \in Nat /\ paging.rounds \in Nat /\ Cardinality(Allocations) \in Nat
    <3>1. IsFiniteSet(Allocations)
      BY ResidencyAssumption
    <3> QED  BY <1>2, <3>1, FS_CardinalityType DEF TypeInv, PagingRecord
  <2>2. paging.rounds + Len(lru) - Len(opened) < Cardinality(Allocations)
    BY <1>1, <1>2, <2>1 DEF RoundsInv, LastRound
  <2>3. Head(lru') = h /\ lastUsed'[h] = v
    BY <1>4, <1>5
  <2>4. ~LastRound'
    BY <1>5, <1>6 DEF LastRound, Untracked
  <2>5. Len(lru') = Len(lru) /\ Len(opened') = Len(opened) /\ paging'.rounds = paging.rounds
    BY <1>1, <1>6
  <2>6. paging'.rounds + Len(lru') - Len(opened') < Cardinality(Allocations) + (IF LastRound' THEN 1 ELSE 0)
    BY <2>1, <2>2, <2>4, <2>5
  <2>7. lastUsed'[Head(lru')] = paging'.waitFor
    BY <1>6, <2>3
  <2> QED  BY <2>6, <2>7 DEF RoundsInv
<1> QED  BY <1>7, <1>8, <1>9, <1>10, <1>11, <1>12 DEF Inv

(* The list is executed.                                                   *)
LEMMA ExecuteStep ==
  ASSUME Inv, paging \in PagingRecord, paging.active,
         UNCHANGED <<lru, lastUsed, over, onDevice>>, Asks({}), ExecuteCommandList
  PROVE  Inv'
<1>1. /\ flight' = [flight EXCEPT ![listID] = [uses |-> ToSet(opened), waits |-> Len(requests')]]
      /\ listID' = listID + 1 /\ opened' = <<>> /\ paging' = Idle
  BY DEF ExecuteCommandList
<1>2. TypeInv /\ ListsInv /\ PagingInv /\ FlightInv /\ RequestInv /\ BooksInv
  BY DEF Inv
<1>3. /\ requests' \in Seq(SUBSET Allocations) /\ Len(requests') \in Nat
      /\ DOMAIN requests' = 1 .. Len(requests') /\ Len(requests) <= Len(requests')
      /\ \A i \in DOMAIN requests : i \in DOMAIN requests' /\ requests'[i] = requests[i]
      /\ \A i \in DOMAIN requests' : i \notin DOMAIN requests =>
           \A a \in requests'[i] : a \in Allocations /\ lastUsed[a] = listID
      /\ \A a \in Allocations : a \in ToSet(lru) <=> a \in onDevice \/ Requested(a)'
  BY <1>2, AsksMore
<1>4. PICK U : U = ToSet(opened) /\ U \subseteq Allocations /\ U \subseteq ToSet(lru)
  <2>1. ToSet(opened) \subseteq Allocations
    BY <1>2 DEF TypeInv, ToSet
  <2>2. ToSet(opened) \subseteq ToSet(lru)
    BY <1>2 DEF PagingInv
  <2> QED  BY <2>1, <2>2
<1>5. listID \in 1 .. MaxExecuted /\ listID \in Nat /\ over \in Nat /\ over < listID
      /\ MaxExecuted \in Nat
  BY <1>2, Types DEF PagingInv, ListsInv
<1>6. \A a \in U : lastUsed[a] = listID
  BY <1>2, <1>4 DEF ListsInv
<1>7. /\ flight' \in [1 .. MaxExecuted -> [uses : SUBSET Allocations, waits : Nat]]
      /\ flight'[listID].uses = U /\ flight'[listID].waits = Len(requests')
      /\ \A n \in 1 .. MaxExecuted : n # listID => flight'[n] = flight[n]
  BY <1>1, <1>2, <1>3, <1>4, <1>5 DEF TypeInv
<1>8. TypeInv'
  BY <1>1, <1>2, <1>3, <1>5, <1>7 DEF TypeInv
<1>9. ~paging'.active /\ ToSet(paging'.missing) = {} /\ ToSet(opened') = {}
  BY <1>1 DEF Idle, ToSet
<1>10. ListsInv'
  <2>1. IsInjective(opened')
    BY <1>1 DEF IsInjective
  <2>2. \A a \in Allocations : lastUsed[a] \in -1 .. listID + 1 /\ lastUsed[a] # listID + 1
    <3>1. \A a \in Allocations : lastUsed[a] \in -1 .. listID
      BY <1>2 DEF ListsInv
    <3> QED  BY <1>5, <3>1
  <2> QED  BY <1>1, <1>2, <1>9, <2>1, <2>2 DEF ListsInv, Tracked, Untracked
<1>11. FlightInv'
  <2> SUFFICES ASSUME NEW n \in over + 1 .. listID
               PROVE  /\ flight'[n].waits <= Len(requests')
                      /\ \A a \in flight'[n].uses :
                           /\ lastUsed[a] >= n
                           /\ a \in onDevice \/ \E i \in 1 .. flight'[n].waits : a \in requests'[i]
    <3>1. (listID + 1) - 1 = listID
      BY <1>5
    <3> QED  BY <1>1, <3>1 DEF FlightInv
  <2>1. CASE n = listID
    <3>1. \A a \in U : a \in onDevice \/ \E i \in 1 .. Len(requests') : a \in requests'[i]
      BY <1>3, <1>4 DEF Requested
    <3> QED  BY <1>3, <1>5, <1>6, <1>7, <2>1, <3>1
  <2>2. CASE n # listID
    <3>1. n \in over + 1 .. listID - 1
      BY <1>5, <2>2
    <3>2. flight'[n] = flight[n]
      BY <1>2, <1>7, <2>2, <3>1, Types
    <3>3. /\ flight[n].waits <= Len(requests)
          /\ \A a \in flight[n].uses :
               /\ lastUsed[a] >= n
               /\ a \in onDevice \/ \E i \in 1 .. flight[n].waits : a \in requests[i]
      BY <1>2, <3>1 DEF FlightInv
    <3>4. flight[n].waits \in Nat /\ DOMAIN requests = 1 .. Len(requests) /\ Len(requests) \in Nat
      BY <1>2, <3>1, Types
    <3>5. \A i \in 1 .. flight[n].waits : i \in DOMAIN requests
      BY <3>3, <3>4
    <3> QED  BY <1>3, <3>2, <3>3, <3>4, <3>5
  <2> QED  BY <2>1, <2>2
<1>12. RequestInv'
  <2> SUFFICES ASSUME NEW i \in DOMAIN requests', NEW a \in requests'[i]
               PROVE  \E n \in over + 1 .. listID : flight'[n].waits >= i /\ lastUsed[a] >= n
    <3>1. (listID + 1) - 1 = listID
      BY <1>5
    <3> QED  BY <1>1, <3>1 DEF RequestInv
  <2>1. CASE lastUsed[a] = listID
    BY <1>3, <1>5, <1>7, <2>1
  <2>2. CASE lastUsed[a] # listID
    <3>1. i \in DOMAIN requests /\ a \in requests[i]
      BY <1>3, <2>2
    <3>2. PICK n \in over + 1 .. listID - 1 : flight[n].waits >= i /\ lastUsed[a] >= n
      BY <1>2, <2>2, <3>1 DEF RequestInv
    <3>3. n \in over + 1 .. listID /\ n # listID /\ n \in 1 .. MaxExecuted
      BY <1>2, <1>5, Types
    <3> QED  BY <1>7, <3>2, <3>3
  <2> QED  BY <2>1, <2>2
<1>13. BooksInv'
  BY <1>3, <1>9 DEF BooksInv
<1> QED  BY <1>8, <1>9, <1>10, <1>11, <1>12, <1>13 DEF Inv, PagingInv, RoundsInv

(* A round of the loop.                                                    *)
LEMMA MakeResidentStep ==
  ASSUME Inv, MakeResident
  PROVE  Inv'
<1>1. TypeInv /\ PagingInv
  BY DEF Inv
<1> QED  BY <1>1, RoundIs, WaitStep, ExecuteStep

-----------------------------------------------------------------------------
(* TrimToSyncPointInclusive                                                *)

\* What is missing will fit if the first k of lru are evicted.
Enough(k) == TotalSize(paging.missing) - TotalSize(SubSeq(lru, 1, k)) < paging.space

(* How many are evicted: one at least, unless what is missing fits; none   *)
(* that was used after the list that has been waited for.                  *)
LEMMA TrimmedIs ==
  ASSUME Inv, paging \in PagingRecord, paging.waitFor \in 0 .. over, NEW n, n = Trimmed(paging.waitFor)
  PROVE  /\ n \in 0 .. Len(lru)
         /\ \A i \in 1 .. n : lastUsed[lru[i]] <= over
         /\ n > 0 \/ Enough(0)
<1>1. TypeInv /\ PagingInv /\ RoundsInv /\ paging.active
  BY DEF Inv, PagingRecord
<1>2. PICK v \in Int : v = paging.waitFor /\ v \in 0 .. over
  BY DEF PagingRecord
<1>3. lru \in Seq(Allocations) /\ Len(lru) \in 0 .. Len(lru) /\ Len(lru) > 0
  BY <1>1, StalestExists DEF TypeInv
<1>4. lastUsed[lru[1]] = v
  <2>1. v # Untracked
    BY <1>2 DEF Untracked
  <2> QED  BY <1>1, <1>2, <2>1, StalestExists DEF RoundsInv
<1>5. PICK stale \in Nat : stale = Stale(lru, Len(lru), lastUsed, v)
                           /\ stale \in 0 .. Len(lru) /\ stale > 0
                           /\ \A i \in 1 .. stale : lastUsed[lru[i]] <= v
  <2>1. lastUsed \in [Allocations -> Int] /\ v <= v
    BY <1>1, <1>2 DEF TypeInv
  <2>2. PICK stale : stale = Stale(lru, Len(lru), lastUsed, v)
    OBVIOUS
  <2>3. /\ stale \in 0 .. Len(lru)
        /\ \A i \in 1 .. stale : lastUsed[lru[i]] <= v
        /\ Len(lru) > 0 /\ lastUsed[lru[1]] <= v => stale > 0
    BY <1>2, <1>3, <2>1, <2>2, StaleAre
  <2>4. lastUsed[lru[1]] <= v
    BY <1>4, <2>1
  <2> QED  BY <1>3, <2>2, <2>3, <2>4
<1> DEFINE T == {k \in 0 .. stale : k = stale \/ Enough(k)}
<1>6. n = CHOOSE k \in 0 .. stale : (k = stale \/ Enough(k)) /\ \A j \in 0 .. k - 1 : ~Enough(j)
  BY <1>2, <1>5 DEF Trimmed, Enough
<1>7. \E k \in 0 .. stale : (k = stale \/ Enough(k)) /\ \A j \in 0 .. k - 1 : ~Enough(j)
  <2> HIDE DEF Enough
  <2>1. T \in SUBSET Nat /\ stale \in T
    BY <1>5
  <2>2. PICK k \in T : \A j \in T : k <= j
    BY <2>1, LeastNumber
  <2>3. \A j \in 0 .. k - 1 : j \in 0 .. stale /\ ~(k <= j)
    BY <2>2
  <2>4. \A j \in 0 .. k - 1 : ~Enough(j)
    BY <2>2, <2>3
  <2> QED  BY <2>2, <2>4
<1>8. n \in 0 .. stale /\ (n = stale \/ Enough(n))
  BY Zenon, <1>6, <1>7
<1>9. \A i \in 1 .. n : i \in 1 .. stale /\ lru[i] \in Allocations
  BY <1>3, <1>5, <1>8
<1>10. \A i \in 1 .. n : lastUsed[lru[i]] <= over
  <2> SUFFICES ASSUME NEW i \in 1 .. n PROVE lastUsed[lru[i]] <= over
    OBVIOUS
  <2>1. lastUsed[lru[i]] <= v /\ lastUsed[lru[i]] \in Int /\ over \in Int
    BY <1>1, <1>5, <1>9, Types
  <2> QED  BY <1>2, <2>1
<1>11. n > 0 \/ Enough(0)
  BY <1>5, <1>8
<1> QED  BY <1>3, <1>5, <1>8, <1>10, <1>11

(* The wait is over.                                                       *)
LEMMA TrimStep ==
  ASSUME Inv, TrimToSyncPointInclusive
  PROVE  Inv'
<1>1. PICK n : /\ n = Trimmed(paging.waitFor)
               /\ lru' = Drop(lru, n) /\ onDevice' = onDevice \ Leading(lru, n)
  BY DEF TrimToSyncPointInclusive
<1>2. /\ paging.active /\ paging.waitFor \in 0 .. over
      /\ paging' = [paging EXCEPT !.waitFor = Untracked, !.rounds = @ + 1]
      /\ UNCHANGED <<lastUsed, opened, listID, over, flight, requests>>
  BY DEF TrimToSyncPointInclusive
<1>3. TypeInv /\ ListsInv /\ PagingInv /\ FlightInv /\ RequestInv /\ BooksInv /\ RoundsInv
  BY DEF Inv
<1>4. paging \in PagingRecord
  BY <1>2, <1>3 DEF TypeInv, Idle
<1>5. /\ n \in 0 .. Len(lru) /\ (n > 0 \/ Enough(0))
      /\ \A i \in 1 .. n : lastUsed[lru[i]] <= over
  BY <1>1, <1>2, <1>4, TrimmedIs
<1>6. Lists(lru, ToSet(lru))
  BY <1>3 DEF Lists, ListsInv, TypeInv
<1>7. PICK L : L = Leading(lru, n) /\ L = {lru[i] : i \in 1 .. n} /\ L \subseteq ToSet(lru)
               /\ Lists(lru', ToSet(lru) \ L) /\ Len(lru') = Len(lru) - n
  BY <1>1, <1>5, <1>6, Dropped
<1>8. ToSet(lru) \subseteq Allocations
  BY <1>3 DEF TypeInv, ToSet
<1>9. \A a \in L : a \in Allocations /\ lastUsed[a] <= over /\ a \notin ToSet(opened)
  <2> SUFFICES ASSUME NEW a \in L
               PROVE  a \in Allocations /\ lastUsed[a] <= over /\ a \notin ToSet(opened)
    OBVIOUS
  <2>1. a \in Allocations /\ lastUsed[a] <= over
    BY <1>5, <1>7, <1>8
  <2>2. lastUsed[a] # listID
    BY <1>3, <2>1, Types
  <2> QED  BY <1>2, <1>3, <2>1, <2>2 DEF ListsInv
<1>10. ToSet(lru') = ToSet(lru) \ L /\ IsInjective(lru') /\ lru' \in Seq(Allocations)
  BY <1>7 DEF Lists
<1>11. /\ paging' \in PagingRecord /\ paging'.active /\ paging'.missing = paging.missing
       /\ paging'.space = paging.space /\ paging'.waitFor = -1 /\ paging'.rounds = paging.rounds + 1
  <2>1. PICK p \in PagingRecord : p = paging
    BY <1>4
  <2>6. PICK u \in Int : u = -1
    OBVIOUS
  <2>2. PICK q : q = [p EXCEPT !.waitFor = u]
    OBVIOUS
  <2>3. paging' = [q EXCEPT !.rounds = p.rounds + 1]
    BY <1>2, <2>1, <2>2, <2>6 DEF Untracked
  <2>4. q \in PagingRecord /\ q.missing = p.missing /\ q.space = p.space /\ q.waitFor = u
    BY <2>2 DEF PagingRecord
  <2>5. p.rounds + 1 \in Nat
    BY DEF PagingRecord
  <2> QED  BY <2>1, <2>3, <2>4, <2>5, <2>6 DEF PagingRecord
<1>12. onDevice' = onDevice \ L
  BY <1>1, <1>7
<1>13. TypeInv'
  BY <1>2, <1>3, <1>10, <1>11, <1>12 DEF TypeInv
<1>14. ListsInv'
  BY <1>2, <1>3, <1>10, <1>11 DEF ListsInv, Tracked, Untracked
<1>15. PagingInv'
  BY <1>2, <1>3, <1>9, <1>10, <1>11 DEF PagingInv
<1>16. FlightInv' /\ RequestInv'
  <2>1. \A a \in Allocations : lastUsed'[a] >= lastUsed[a] /\ (lastUsed[a] = listID => lastUsed'[a] = listID)
    BY <1>2, <1>3, Types
  <2>2. \A a \in onDevice : a \notin L => a \in onDevice'
    BY <1>12
  <2>3. lastUsed' \in [Allocations -> Int]
    BY <1>2, <1>3 DEF TypeInv
  <2> QED  BY <1>2, <1>3, <1>9, <2>1, <2>2, <2>3, EvictionKeeps
<1>17. BooksInv'
  <2>1. \A b : Requested(b)' <=> Requested(b)
    BY <1>2 DEF Requested
  <2>2. \A a \in L : ~Requested(a)
    <3> SUFFICES ASSUME NEW a \in L, Requested(a) PROVE FALSE
      OBVIOUS
    <3>1. lastUsed[a] > over /\ lastUsed[a] <= over /\ lastUsed[a] \in Int /\ over \in Int
      BY <1>3, <1>9, RequestedLater, Types
    <3> QED  BY <3>1
  <2>3. \A a \in L : a \notin ToSet(paging.missing)
    BY <1>2, <1>3, <1>9 DEF PagingInv
  <2>4. \A a \in Allocations :
          a \in ToSet(lru') <=> a \in onDevice' \/ Requested(a) \/ a \in ToSet(paging.missing)
    BY <1>3, <1>10, <1>12, <2>2, <2>3 DEF BooksInv
  <2> QED  BY <1>11, <2>1, <2>4 DEF BooksInv
<1>18. RoundsInv'
  <2>1. Len(lru) \in Nat /\ Len(opened) \in Nat /\ paging.rounds \in Nat /\ Cardinality(Allocations) \in Nat
        /\ n \in Nat
    <3>1. IsFiniteSet(Allocations)
      BY ResidencyAssumption
    <3> QED  BY <1>3, <1>4, <1>5, <3>1, FS_CardinalityType DEF TypeInv, PagingRecord
  <2>2. paging.rounds + Len(lru) - Len(opened) < Cardinality(Allocations)
    <3>1. ~LastRound
      BY <1>2 DEF LastRound, Untracked
    <3> QED  BY <1>2, <1>3, <2>1, <3>1 DEF RoundsInv
  <2>3. n > 0 \/ LastRound'
    <3> SUFFICES ASSUME Enough(0) PROVE LastRound'
      BY <1>5
    <3>1. paging.missing \in Seq(Allocations) /\ lru \in Seq(Allocations) /\ 0 \in 0 .. Len(lru)
      BY <1>3, <1>4, <2>1 DEF TypeInv, PagingRecord
    <3>2. TotalSize(SubSeq(lru, 1, 0)) = 0
      BY <3>1, SizeOfFirst
    <3>3. TotalSize(paging.missing) \in Nat
      <4>1. Len(paging.missing) \in 0 .. Len(paging.missing)
        BY <3>1
      <4> QED  BY <3>1, <4>1, SizeOfFirst
    <3>4. TotalSize(paging.missing) < paging.space
      BY <3>2, <3>3 DEF Enough
    <3>5. TotalSize(paging'.missing) < paging'.space
      BY Zenon, <1>11, <3>4
    <3> QED  BY <1>11, <3>5 DEF LastRound, Untracked
  <2>4. Len(lru') = Len(lru) - n /\ Len(opened') = Len(opened) /\ paging'.rounds = paging.rounds + 1
    BY <1>2, <1>7, <1>11
  <2>5. paging'.rounds + Len(lru') - Len(opened') < Cardinality(Allocations) + (IF LastRound' THEN 1 ELSE 0)
    <3> DEFINE e == IF LastRound' THEN 1 ELSE 0
    <3>1. e \in {0, 1} /\ (LastRound' => e = 1)
      BY Zenon
    <3>2. n > 0 \/ e = 1
      BY <2>3, <3>1
    <3> HIDE DEF e
    <3>4. PICK l, o, r, c \in Nat :
            l = Len(lru) /\ o = Len(opened) /\ r = paging.rounds /\ c = Cardinality(Allocations)
      BY <2>1
    <3>5. r + l - o < c /\ n \in Nat
      BY <2>1, <2>2, <3>4
    <3>6. (r + 1) + (l - n) - o < c + e
      BY <3>1, <3>2, <3>5
    <3>3. paging'.rounds + Len(lru') - Len(opened') < Cardinality(Allocations) + e
      BY <2>4, <3>4, <3>6
    <3> QED  BY <3>3 DEF e
  <2> QED  BY <1>11, <2>5 DEF RoundsInv, Untracked
<1> QED  BY <1>13, <1>14, <1>15, <1>16, <1>17, <1>18 DEF Inv

-----------------------------------------------------------------------------
(* The device, and the theorem                                             *)

\* A list waits for one request less.
Sooner(f) == [f EXCEPT !.waits = IF @ = 0 THEN 0 ELSE @ - 1]

(* The device meets a request.                                             *)
LEMMA MeetsStep ==
  ASSUME Inv, MeetsRequest
  PROVE  Inv'
<1>1. /\ requests # <<>> /\ onDevice' = onDevice \cup Head(requests) /\ requests' = Tail(requests)
      /\ flight' = [n \in DOMAIN flight |-> Sooner(flight[n])]
      /\ UNCHANGED <<lru, lastUsed, opened, listID, over, paging>>
  BY DEF MeetsRequest, Sooner
<1>2. TypeInv /\ ListsInv /\ PagingInv /\ FlightInv /\ RequestInv /\ BooksInv /\ RoundsInv
  BY DEF Inv
<1>3. PICK m \in Nat \ {0} : m = Len(requests)
  BY <1>1, <1>2 DEF TypeInv
<1>4. /\ requests' \in Seq(SUBSET Allocations) /\ Len(requests') = m - 1
      /\ \A i \in 1 .. m - 1 : requests'[i] = requests[i + 1]
      /\ Head(requests) = requests[1] /\ requests[1] \subseteq Allocations
  BY <1>1, <1>2, <1>3 DEF TypeInv
<1>5. DOMAIN requests = 1 .. m /\ DOMAIN requests' = 1 .. m - 1
  BY <1>2, <1>3, <1>4 DEF TypeInv
<1>6. ASSUME NEW f \in [uses : SUBSET Allocations, waits : Nat]
      PROVE  /\ Sooner(f) \in [uses : SUBSET Allocations, waits : Nat] /\ Sooner(f).uses = f.uses
             /\ Sooner(f).waits = IF f.waits = 0 THEN 0 ELSE f.waits - 1
  <2>1. PICK w \in Nat : w = IF f.waits = 0 THEN 0 ELSE f.waits - 1
    OBVIOUS
  <2>2. Sooner(f) = [f EXCEPT !.waits = w]
    BY <2>1 DEF Sooner
  <2> QED  BY <2>1, <2>2
<1>7. \A n \in 1 .. MaxExecuted :
        /\ flight'[n] \in [uses : SUBSET Allocations, waits : Nat] /\ flight'[n].uses = flight[n].uses
        /\ flight'[n].waits = IF flight[n].waits = 0 THEN 0 ELSE flight[n].waits - 1
  <2> SUFFICES ASSUME NEW n \in 1 .. MaxExecuted
               PROVE  /\ flight'[n] \in [uses : SUBSET Allocations, waits : Nat]
                      /\ flight'[n].uses = flight[n].uses
                      /\ flight'[n].waits = IF flight[n].waits = 0 THEN 0 ELSE flight[n].waits - 1
    OBVIOUS
  <2>1. flight[n] \in [uses : SUBSET Allocations, waits : Nat] /\ flight'[n] = Sooner(flight[n])
    BY <1>1, <1>2 DEF TypeInv
  <2>2. PICK f \in [uses : SUBSET Allocations, waits : Nat] : f = flight[n]
    BY <2>1
  <2> QED  BY <1>6, <2>1, <2>2
<1>8. flight' \in [1 .. MaxExecuted -> [uses : SUBSET Allocations, waits : Nat]]
  <2>1. DOMAIN flight = 1 .. MaxExecuted
    BY <1>2 DEF TypeInv
  <2>2. flight' = [n \in 1 .. MaxExecuted |-> flight'[n]]
    BY <1>1, <2>1
  <2> QED  BY <1>7, <2>2
<1>9. TypeInv'
  BY <1>1, <1>2, <1>4, <1>8 DEF TypeInv
<1>10. \A a, i : i \in 1 .. m /\ a \in requests[i] =>
         a \in onDevice' \/ (i - 1 \in 1 .. m - 1 /\ a \in requests'[i - 1])
  <2> SUFFICES ASSUME NEW a, NEW i \in 1 .. m, a \in requests[i]
               PROVE  a \in onDevice' \/ (i - 1 \in 1 .. m - 1 /\ a \in requests'[i - 1])
    OBVIOUS
  <2>1. CASE i = 1
    BY <1>1, <1>4, <2>1
  <2>2. CASE i # 1
    <3>1. i - 1 \in 1 .. m - 1 /\ (i - 1) + 1 = i
      BY <2>2
    <3> QED  BY <1>4, <3>1
  <2> QED  BY <2>1, <2>2
<1>11. FlightInv'
  <2> SUFFICES ASSUME NEW n \in over + 1 .. listID - 1
               PROVE  /\ flight'[n].waits <= Len(requests')
                      /\ \A a \in flight'[n].uses :
                           /\ lastUsed[a] >= n
                           /\ a \in onDevice' \/ \E i \in 1 .. flight'[n].waits : a \in requests'[i]
    BY <1>1 DEF FlightInv
  <2>1. n \in 1 .. MaxExecuted /\ flight[n].waits \in Nat
    BY <1>2, Types
  <2>2. PICK w \in Nat, v \in Nat :
          w = flight[n].waits /\ v = flight'[n].waits /\ v = (IF w = 0 THEN 0 ELSE w - 1)
    BY <1>7, <2>1
  <2>3. /\ w <= m
        /\ \A a \in flight[n].uses :
             lastUsed[a] >= n /\ (a \in onDevice \/ \E i \in 1 .. w : a \in requests[i])
    BY <1>2, <1>3, <2>2 DEF FlightInv
  <2>4. v <= m - 1
    BY <2>2, <2>3
  <2>5. \A i \in 1 .. w : i \in 1 .. m /\ (i - 1 \in 1 .. m - 1 => i - 1 \in 1 .. v)
    BY <2>2, <2>3
  <2>6. \A a \in flight[n].uses : a \in onDevice' \/ \E i \in 1 .. v : a \in requests'[i]
    <3> SUFFICES ASSUME NEW a \in flight[n].uses, a \notin onDevice'
                 PROVE  \E i \in 1 .. v : a \in requests'[i]
      OBVIOUS
    <3>1. PICK i \in 1 .. w : a \in requests[i]
      BY <1>1, <2>3
    <3>2. i - 1 \in 1 .. v /\ a \in requests'[i - 1]
      BY <1>10, <2>5, <3>1
    <3> QED  BY <3>2
  <2> QED  BY <1>4, <1>7, <2>1, <2>2, <2>3, <2>4, <2>6
<1>12. RequestInv'
  <2> SUFFICES ASSUME NEW i \in 1 .. m - 1, NEW a \in requests'[i]
               PROVE  \/ lastUsed[a] = listID
                      \/ \E n \in over + 1 .. listID - 1 : flight'[n].waits >= i /\ lastUsed[a] >= n
    BY <1>1, <1>5 DEF RequestInv
  <2>1. i + 1 \in DOMAIN requests /\ a \in requests[i + 1]
    BY <1>4, <1>5
  <2>2. ASSUME NEW n \in over + 1 .. listID - 1, flight[n].waits >= i + 1, lastUsed[a] >= n
        PROVE  flight'[n].waits >= i
    <3>1. n \in 1 .. MaxExecuted /\ flight[n].waits \in Nat
      BY <1>2, Types
    <3>2. PICK w \in Nat, v \in Nat :
            w = flight[n].waits /\ v = flight'[n].waits /\ v = (IF w = 0 THEN 0 ELSE w - 1)
      BY <1>7, <3>1
    <3> QED  BY <2>2, <3>2
  <2> QED  BY <1>2, <2>1, <2>2 DEF RequestInv
<1>13. \A a : a \in onDevice' \/ Requested(a)' <=> a \in onDevice \/ Requested(a)
  <2>1. \A a : Requested(a) => a \in onDevice' \/ Requested(a)'
    BY <1>5, <1>10 DEF Requested
  <2>2. \A a : Requested(a)' => Requested(a)
    <3>1. \A i \in 1 .. m - 1 : i + 1 \in 1 .. m
      OBVIOUS
    <3> QED  BY <1>4, <1>5, <3>1 DEF Requested
  <2>3. \A a \in onDevice' : a \in onDevice \/ Requested(a)
    <3>1. 1 \in DOMAIN requests
      BY <1>5
    <3> QED  BY <1>1, <1>4, <3>1 DEF Requested
  <2> QED  BY <1>1, <2>1, <2>2, <2>3
<1>14. BooksInv'
  BY <1>1, <1>2, <1>13 DEF BooksInv
<1>15. ListsInv' /\ PagingInv' /\ RoundsInv'
  BY <1>1, <1>2 DEF ListsInv, Tracked, Untracked, PagingInv, RoundsInv, LastRound
<1> QED  BY <1>9, <1>11, <1>12, <1>14, <1>15 DEF Inv

(* A list is over.                                                         *)
LEMMA FinishStep ==
  ASSUME Inv, FinishesList
  PROVE  Inv'
<1>1. /\ over + 1 < listID /\ flight[over + 1].waits = 0 /\ over' = over + 1
      /\ flight' = [flight EXCEPT ![over + 1] = Gone]
      /\ UNCHANGED <<lru, lastUsed, opened, listID, onDevice, requests, paging>>
  BY DEF FinishesList
<1>2. TypeInv /\ ListsInv /\ PagingInv /\ FlightInv /\ RequestInv /\ BooksInv /\ RoundsInv
  BY DEF Inv
<1>3. Gone \in [uses : SUBSET Allocations, waits : Nat]
  BY DEF Gone
<1>4. over \in Nat /\ listID \in Nat /\ over + 1 \in Nat
  BY <1>2, Types
<1>5. /\ flight' \in [1 .. MaxExecuted -> [uses : SUBSET Allocations, waits : Nat]]
      /\ \A n \in 1 .. MaxExecuted : n # over + 1 => flight'[n] = flight[n]
  BY <1>1, <1>2, <1>3 DEF TypeInv
<1>6. TypeInv'
  BY <1>1, <1>2, <1>4, <1>5 DEF TypeInv
<1>7. \A n \in over' + 1 .. listID - 1 :
        n \in over + 1 .. listID - 1 /\ n # over + 1 /\ flight'[n] = flight[n]
  <2>1. \A n \in (over + 1) + 1 .. listID - 1 : n \in over + 1 .. listID - 1 /\ n # over + 1
    BY <1>4
  <2> QED  BY <1>1, <1>2, <1>5, <2>1, Types
<1>8. FlightInv'
  BY <1>1, <1>2, <1>7 DEF FlightInv
<1>9. RequestInv'
  <2> SUFFICES ASSUME NEW i \in DOMAIN requests, NEW a \in requests[i]
               PROVE  \/ lastUsed[a] = listID
                      \/ \E n \in over' + 1 .. listID - 1 : flight'[n].waits >= i /\ lastUsed[a] >= n
    BY <1>1 DEF RequestInv
  <2>1. CASE lastUsed[a] = listID
    BY <2>1
  <2>2. ASSUME NEW n \in over + 1 .. listID - 1, flight[n].waits >= i, lastUsed[a] >= n
        PROVE  n \in over' + 1 .. listID - 1 /\ flight'[n] = flight[n]
    <3>1. i \in 1 .. Len(requests) /\ Len(requests) \in Nat
      BY <1>2, Types
    <3>2. ~(0 >= i)
      BY <3>1
    <3>3. n # over + 1
      BY <1>1, <2>2, <3>2
    <3>4. n \in (over + 1) + 1 .. listID - 1
      BY <1>4, <3>3
    <3> QED  BY <1>1, <1>7, <3>4
  <2> QED  BY <1>2, <2>1, <2>2 DEF RequestInv
<1>10. BooksInv'
  <2>1. \A b : Requested(b)' <=> Requested(b)
    BY <1>1 DEF Requested
  <2> QED  BY <1>1, <1>2, <2>1 DEF BooksInv
<1>11. ListsInv' /\ PagingInv' /\ RoundsInv'
  BY <1>1, <1>2 DEF ListsInv, Tracked, Untracked, PagingInv, RoundsInv, LastRound
<1> QED  BY <1>6, <1>8, <1>9, <1>10, <1>11 DEF Inv

(* Nothing is tracked at first.                                            *)
LEMMA InitInv ==
  ResidencyInit => Inv
<1> SUFFICES ASSUME ResidencyInit PROVE Inv
  OBVIOUS
<1>1. /\ lru = <<>> /\ lastUsed = [a \in Allocations |-> -1] /\ opened = <<>>
      /\ listID = 1 /\ over = 0 /\ flight = [n \in 1 .. MaxExecuted |-> Gone]
      /\ onDevice = {} /\ requests = <<>> /\ paging = Idle
  BY DEF ResidencyInit, Untracked
<1>2. MaxExecuted \in Nat /\ Gone \in [uses : SUBSET Allocations, waits : Nat]
  BY ResidencyAssumption DEF Gone
<1>3. ~paging.active /\ paging.missing = <<>>
  BY <1>1 DEF Idle
<1>4. ToSet(<<>>) = {} /\ IsInjective(<<>>)
  BY DEF ToSet, IsInjective
<1>5. TypeInv
  <2>1. lru \in Seq(Allocations) /\ opened \in Seq(Allocations) /\ requests \in Seq(SUBSET Allocations)
    BY <1>1
  <2>2. lastUsed \in [Allocations -> Int]
        /\ flight \in [1 .. MaxExecuted -> [uses : SUBSET Allocations, waits : Nat]]
    BY <1>1, <1>2
  <2> QED  BY <1>1, <1>2, <2>1, <2>2 DEF TypeInv
<1>6. ListsInv
  <2>1. \A a \in Allocations : lastUsed[a] = -1
    BY <1>1
  <2> QED  BY <1>1, <1>3, <1>4, <2>1 DEF ListsInv
<1>7. PagingInv /\ RoundsInv
  BY <1>3 DEF PagingInv, RoundsInv
<1>8. FlightInv
  BY <1>1 DEF FlightInv
<1>9. RequestInv /\ BooksInv
  <2>1. DOMAIN requests = {}
    BY <1>1
  <2> QED  BY <1>1, <1>3, <1>4, <2>1 DEF RequestInv, BooksInv, Requested
<1> QED  BY <1>5, <1>6, <1>7, <1>8, <1>9 DEF Inv

(* Every step.                                                             *)
LEMMA NextInv ==
  ASSUME Inv, [ResidencyNext]_residencyVars
  PROVE  Inv'
<1>1. CASE UNCHANGED residencyVars
  <2>1. UNCHANGED <<lru, lastUsed, opened, listID, over, flight, onDevice, requests, paging>>
    BY <1>1 DEF residencyVars
  <2>2. TypeInv' /\ ListsInv' /\ PagingInv' /\ FlightInv' /\ RequestInv' /\ RoundsInv'
    BY <2>1 DEF Inv, TypeInv, ListsInv, Tracked, PagingInv, FlightInv, RequestInv, RoundsInv, LastRound
  <2>3. BooksInv'
    BY <2>1 DEF Inv, BooksInv, Requested
  <2> QED  BY <2>2, <2>3 DEF Inv
<1>2. ASSUME NEW old \in 0 .. Cardinality(Allocations), NEW space \in Spaces, ProcessPagingWork(old, space)
      PROVE  Inv'
  <2>1. Cardinality(Allocations) \in Nat
    BY ResidencyAssumption, FS_CardinalityType
  <2>2. old \in Nat
    BY <2>1
  <2> QED  BY <1>2, <2>2, PagingStep
<1> QED  BY <1>1, <1>2, BeginStep, EndStep, InsertStep, MakeResidentStep, TrimStep, MeetsStep, FinishStep
         DEF ResidencyNext

(* The invariant says it all.                                              *)
LEMMA InvResident ==
  Inv => ResidentWhenRun
<1> SUFFICES ASSUME Inv PROVE ResidentWhenRun
  OBVIOUS
<1>1. TypeInv /\ ListsInv /\ PagingInv /\ FlightInv /\ BooksInv /\ RoundsInv
  BY DEF Inv
<1>2. \A n \in over + 1 .. listID - 1 : flight[n].waits = 0 => flight[n].uses \subseteq onDevice
  <2> SUFFICES ASSUME NEW n \in over + 1 .. listID - 1, flight[n].waits = 0, NEW a \in flight[n].uses
               PROVE  a \in onDevice
    OBVIOUS
  <2>1. a \in onDevice \/ \E i \in 1 .. 0 : a \in requests[i]
    BY <1>1 DEF FlightInv
  <2> QED  BY <2>1
<1>3. BooksAgree
  <2>1. ToSet(lru) \subseteq Allocations /\ onDevice \subseteq Allocations
    BY <1>1 DEF TypeInv, ToSet
  <2>2. ToSet(paging.missing) \subseteq Allocations
    <3>1. paging.missing \in Seq(Allocations)
      <4>1. CASE paging = Idle
        BY <4>1 DEF Idle
      <4>2. CASE paging \in PagingRecord
        BY <4>2 DEF PagingRecord
      <4> QED  BY <1>1, <4>1, <4>2 DEF TypeInv
    <3> QED  BY <3>1 DEF ToSet
  <2>3. \A a : a \in UNION ToSet(requests) <=> Requested(a)
    BY DEF ToSet, Requested
  <2>4. \A a : Requested(a) => a \in Allocations
    BY <1>1, Types DEF Requested
  <2>5. \A a : a \in ToSet(lru) <=> a \in onDevice \/ a \in UNION ToSet(requests) \/ a \in ToSet(paging.missing)
    BY <1>1, <2>1, <2>2, <2>3, <2>4 DEF BooksInv
  <2>6. ToSet(lru) = onDevice \cup (UNION ToSet(requests)) \cup ToSet(paging.missing)
    <3> HIDE DEF ToSet
    <3> QED  BY <2>5
  <2> QED  BY <1>1, <2>6 DEF BooksAgree, ListsInv
<1>4. ASSUME paging.active PROVE paging.rounds <= Cardinality(Allocations)
  <2>1. paging \in PagingRecord
    BY <1>1, <1>4 DEF TypeInv, Idle
  <2>2. Lists(lru, ToSet(lru)) /\ Lists(opened, ToSet(opened))
    BY <1>1 DEF TypeInv, ListsInv, Lists
  <2>3. PICK l, o, r, c \in Nat :
          l = Len(lru) /\ o = Len(opened) /\ r = paging.rounds /\ c = Cardinality(Allocations)
    BY <1>1, <2>1, <2>2, NotLonger DEF TypeInv, PagingRecord
  <2>4. o <= l
    <3>1. Len(lru) = Cardinality(ToSet(lru)) /\ Len(opened) = Cardinality(ToSet(opened))
      BY <2>2, NotLonger
    <3>2. ToSet(opened) \subseteq ToSet(lru)
      BY <1>1, <1>4 DEF PagingInv
    <3>3. IsFiniteSet(ToSet(lru))
      <4>1. ToSet(lru) \subseteq Allocations /\ IsFiniteSet(Allocations)
        BY <1>1, ResidencyAssumption DEF TypeInv, ToSet
      <4> QED  BY <4>1, FS_Subset
    <3>4. Cardinality(ToSet(opened)) <= Cardinality(ToSet(lru))
      BY <3>2, <3>3, FS_Subset
    <3> QED  BY <2>3, <3>1, <3>4
  <2>5. r + l - o < c + 1
    <3> DEFINE e == IF LastRound THEN 1 ELSE 0
    <3>1. e \in {0, 1}
      BY Zenon
    <3>2. paging.rounds + Len(lru) - Len(opened) < Cardinality(Allocations) + e
      BY <1>1, <1>4 DEF RoundsInv
    <3> HIDE DEF e
    <3>3. r + l - o < c + e
      BY Zenon, <2>3, <3>2
    <3> QED  BY <3>1, <3>3
  <2> QED  BY <2>3, <2>4, <2>5
<1> QED  BY <1>2, <1>3, <1>4 DEF ResidentWhenRun

(* ResidentWhenRun holds for any allocations, sizes and budgets: whatever  *)
(* a list uses is resident from when it may run until it is over, the      *)
(* manager's books agree with the device, and its loop ends.               *)
THEOREM ResidentAlways ==
  ResidencySpec => []ResidentWhenRun
<1>1. ResidencyInit => Inv
  BY InitInv
<1>2. Inv /\ [ResidencyNext]_residencyVars => Inv'
  BY NextInv
<1>3. Inv => ResidentWhenRun
  BY InvResident
<1> QED  BY <1>1, <1>2, <1>3, PTL DEF ResidencySpec

-----------------------------------------------------------------------------
(* Resource states                                                         *)

(* One entry stands for all only where they are equal.                     *)
SameInv ==
  \A r \in Resources :
    /\ tracked[r].same \in BOOLEAN
    /\ tracked[r].same => \A i \in Index(r) : tracked[r].of[i] = tracked[r].of[0]

Alone(state) == IsWrite(state, {}) => \E bit \in Bits : state = {bit}

TextureInv ==
  \A t \in Textures : \A i \in Index(t) :
    /\ tracked[t].of[i].state = actual[t][i]
    /\ actual[t][i] \in SUBSET Bits /\ Alone(actual[t][i])

(* What a buffer's tracked state is worth depends on what the list did.    *)
BufferFits(now, did, state) ==
  /\ now.read \in Nat /\ now.read <= nextID
  /\ now.write \in Nat /\ now.write <= nextID
  /\ now.state \in SUBSET Bits
  /\ did \in {"unused", "read", "written", "reread"}
  /\ did = "unused" => now.read # nextID /\ now.write # nextID /\ state = {}
  /\ did = "read" => now.read = nextID /\ now.write # nextID /\ ~IsWrite(now.state, {}) /\ now.state = state
  /\ did = "written" => now.read = nextID /\ now.write = nextID /\ now.state = state /\ Alone(now.state)

BufferInv == \A b \in Buffers : BufferFits(tracked[b].of[0], inList[b], actual[b][0])

(* The staging buffer is written before it is read.                        *)
HalfInv ==
  /\ inList[Staging] \in {"unused", "written"}
  /\ \A p \in half : p[1] \in Ours /\ p[2] \in Index(p[1]) /\ inList[Staging] = "written"

StateInv == nextID \in Nat /\ SameInv /\ TextureInv /\ BufferInv /\ HalfInv

(* What every command asks for: the state it uses the subresource in.      *)
AsksState(r, want, used) ==
  \/ want = Want(Unknown) /\ used = {}
  \/ \E bit \in Bits : want = Want({bit}) /\ used = {bit}
  \/ r = Staging /\ want = Want(ReadBits) /\ used = {"copy source"} /\ inList[Staging] = "written"
  \/ r \in Textures /\ want.state = Common /\ want.flags \in SUBSET Flags /\ "exact" \in want.flags
       /\ used = {"common"}

WellAsked(desired, uses) ==
  /\ \A r \in Resources :
       /\ desired[r].same \in BOOLEAN
       /\ desired[r].same => \A i \in Index(r) : desired[r].of[i] = desired[r].of[0]
       /\ \A i \in Index(r) : AsksState(r, desired[r].of[i], Used(uses, r, i))
  /\ \A a \in uses : a.res \in Resources /\ a.sub \in Index(a.res)

-----------------------------------------------------------------------------
(* Each resource has a first subresource, and a buffer has no other.       *)
LEMMA FirstIndex ==
  ASSUME NEW r \in Resources
  PROVE  /\ 0 \in Index(r)
         /\ r \in Buffers => Index(r) = {0}
         /\ r \in Textures => r \notin Buffers
BY SubresourcesAssumption, KindsAssumption DEF Index, Count, Resources

(* The tracked state that a request leaves, subresource by subresource.    *)
LEMMA TrackAt ==
  ASSUME NEW r \in Resources, NEW request, NEW i \in Index(r), SameInv,
         request.same \in BOOLEAN,
         request.same => \A j \in Index(r) : request.of[j] = request.of[0]
  PROVE  Track(r, request).of[i] =
           IF Touched(r, tracked[r].of[i], request.of[i])
           THEN Processed(r, tracked[r].of[i], request.of[i]) ELSE tracked[r].of[i]
<1> DEFINE touched(j) == Touched(r, tracked[r].of[j], request.of[j])
           new == [j \in Index(r) |-> Processed(r, tracked[r].of[j], request.of[j])]
<1>0. 0 \in Index(r)
  BY FirstIndex
<1>1. CASE AtOnce(r, request)
  <2>1. tracked[r].of[i] = tracked[r].of[0] /\ request.of[i] = request.of[0]
    BY <1>1 DEF AtOnce, SameInv
  <2>2. Set(r, request) = IF touched(0) THEN {0} ELSE {}
    BY <1>1 DEF Set, Visited
  <2>3. CASE touched(0)
    <3>1. Track(r, request) = SetResourceState(r, new[0])
      BY <1>1, <2>2, <2>3 DEF Track
    <3>2. Track(r, request).of[i] = new[0]
      BY <3>1 DEF SetResourceState
    <3> QED BY <1>0, <2>1, <2>3, <3>2
  <2>4. CASE ~touched(0)
    <3>1. Track(r, request) = tracked[r]
      BY <2>2, <2>4 DEF Track
    <3> QED BY <2>1, <2>4, <3>1
  <2> QED BY <2>3, <2>4
<1>2. CASE ~AtOnce(r, request)
  <2>1. Set(r, request) = {j \in Index(r) : touched(j)}
    BY <1>2 DEF Set, Visited
  <2>2. CASE Set(r, request) = {}
    <3>1. Track(r, request) = tracked[r]
      BY <2>2 DEF Track
    <3> QED BY <2>1, <2>2, <3>1
  <2>3. CASE Set(r, request) # {}
    <3>1. Track(r, request) = SetSubresourceStates(r, tracked[r], Set(r, request), new)
      BY <1>2, <2>3 DEF Track
    <3>2. Track(r, request).of[i] = IF i \in Set(r, request) THEN new[i] ELSE tracked[r].of[i]
      BY <3>1 DEF SetSubresourceStates
    <3> QED BY <2>1, <3>2
  <2> QED BY <2>2, <2>3
<1> QED BY <1>1, <1>2

(* An entry for all is kept, or made, only of equal entries.               *)
LEMMA TrackSame ==
  ASSUME NEW r \in Resources, NEW request, SameInv, request.same \in BOOLEAN
  PROVE  /\ Track(r, request).same \in BOOLEAN
         /\ Track(r, request).same =>
              \A i \in Index(r) : Track(r, request).of[i] = Track(r, request).of[0]
<1> DEFINE new == [j \in Index(r) |-> Processed(r, tracked[r].of[j], request.of[j])]
<1>0. 0 \in Index(r)
  BY FirstIndex
<1>1. CASE Set(r, request) = {}
  BY <1>1 DEF Track, SameInv
<1>2. CASE Set(r, request) # {} /\ AtOnce(r, request)
  <2>1. Track(r, request) = SetResourceState(r, new[0])
    BY <1>2 DEF Track
  <2> QED BY <1>0, <2>1 DEF SetResourceState
<1>3. CASE Set(r, request) # {} /\ ~AtOnce(r, request)
  <2>1. Track(r, request) = SetSubresourceStates(r, tracked[r], Set(r, request), new)
    BY <1>3 DEF Track
  <2> DEFINE flag == tracked[r].same /\ Count(r) = 1
             entries == [i \in Index(r) |-> IF i \in Set(r, request) THEN new[i] ELSE tracked[r].of[i]]
  <2>2. Track(r, request).same = flag
    <3>1. Track(r, request) = [same |-> flag, of |-> entries]
      BY <2>1, Zenon DEF SetSubresourceStates
    <3> HIDE DEF flag, entries
    <3> QED BY <3>1
  <2>3. Track(r, request).same \in BOOLEAN
    BY <2>2
  <2>4. Count(r) = 1 => Index(r) = {0}
    BY DEF Index
  <2> QED BY <2>2, <2>3, <2>4
<1> QED BY <1>1, <1>2, <1>3

(* A subresource has at most one barrier in a command.                     *)
LEMMA TransitionedAt ==
  ASSUME NEW desired, NEW uses, Record(desired, uses), SameInv, WellAsked(desired, uses),
         NEW r \in Resources, NEW i \in Index(r)
  PROVE  Transitioned(r, i) =
           IF Changes(r, tracked[r].of[i], desired[r].of[i])
           THEN After(r, tracked[r].of[i], desired[r].of[i]) ELSE actual[r][i]
<1> DEFINE its == {b \in barriers' : b.res = r /\ i \in b.subs}
           changes(j) == Changes(r, tracked[r].of[j], desired[r].of[j])
           barrier(j) == [res |-> r, subs |-> IF AtOnce(r, desired[r]) THEN Index(r) ELSE {j},
                          before |-> tracked[r].of[j].state,
                          after |-> After(r, tracked[r].of[j], desired[r].of[j])]
           own == IF AtOnce(r, desired[r]) THEN 0 ELSE i
<1>0. 0 \in Index(r)
  BY FirstIndex
<1>1. tracked[r].of[i] = tracked[r].of[own] /\ desired[r].of[i] = desired[r].of[own]
  BY DEF AtOnce, SameInv, WellAsked
<1>2. its = {b \in BarriersOf(r, desired[r]) : i \in b.subs}
  <2>1. barriers' = UNION {BarriersOf(q, desired[q]) : q \in Resources}
    BY DEF Record
  <2>2. ASSUME NEW q \in Resources, NEW b \in BarriersOf(q, desired[q])
        PROVE  b.res = q
    BY <2>2 DEF BarriersOf
  <2> QED BY <2>1, <2>2
<1>3. BarriersOf(r, desired[r]) = {barrier(j) : j \in {k \in Visited(r, desired[r]) : changes(k)}}
  BY DEF BarriersOf
<1>4. its = IF changes(own) THEN {barrier(own)} ELSE {}
  <2>1. CASE AtOnce(r, desired[r])
    <3>1. Visited(r, desired[r]) = {0} /\ own = 0
      BY <2>1 DEF Visited
    <3>2. i \in barrier(0).subs
      BY <2>1
    <3> HIDE DEF barrier, changes
    <3> QED BY <1>2, <1>3, <3>1, <3>2
  <2>2. CASE ~AtOnce(r, desired[r])
    <3>1. Visited(r, desired[r]) = Index(r) /\ own = i
      BY <2>2 DEF Visited
    <3>2. \A j : i \in barrier(j).subs <=> j = i
      BY <2>2
    <3> HIDE DEF barrier, changes
    <3> QED BY <1>2, <1>3, <3>1, <3>2
  <2> QED BY <2>1, <2>2
<1>5. Transitioned(r, i) = IF its = {} THEN actual[r][i] ELSE (CHOOSE b \in its : TRUE).after
  BY DEF Transitioned
<1>6. CASE changes(own)
  <2>1. (CHOOSE b \in its : TRUE) = barrier(own) /\ its # {}
    <3> HIDE DEF barrier, changes, its
    <3> QED BY <1>4, <1>6
  <2>2. barrier(own).after = After(r, tracked[r].of[own], desired[r].of[own])
    OBVIOUS
  <2>3. Transitioned(r, i) = barrier(own).after
    <3> HIDE DEF barrier, changes, its
    <3> QED BY <1>5, <2>1
  <2> HIDE DEF barrier, its, own
  <2> QED BY <1>1, <1>6, <2>2, <2>3
<1>7. CASE ~changes(own)
  BY <1>1, <1>4, <1>5, <1>7
<1> QED BY <1>6, <1>7

(* The state after a transition is neither the one before ...              *)
LEMMA ChangesItsState ==
  ASSUME NEW r \in Resources, NEW now, NEW want, Changes(r, now, want)
  PROVE  now.state # After(r, now, want)
BY DEF Changes, After, Required, Destination

(* ... nor is the state another where there is none.                       *)
LEMMA UnchangedState ==
  ASSUME NEW r \in Resources, NEW now, NEW want, Compared(r, now), want.state # Unknown,
         ~Changes(r, now, want)
  PROVE  After(r, now, want) = now.state
BY DEF Changes, After, Required, Destination

(* What is asked for is known, except where nothing is.                    *)
LEMMA AskedKnown ==
  ASSUME NEW r \in Resources, NEW want, NEW used, AsksState(r, want, used)
  PROVE  /\ want.state # Unknown <=> used # {}
         /\ want.state # Unknown => want.state \in SUBSET Bits
         /\ want.flags \in SUBSET Flags
         /\ used \subseteq Bits \cup {"common"}
<1>1. CASE want = Want(Unknown) /\ used = {}
  BY <1>1 DEF Want
<1>2. ASSUME NEW bit \in Bits, want = Want({bit}), used = {bit}
      PROVE  /\ want.state # Unknown /\ used # {} /\ want.state \in SUBSET Bits
             /\ want.flags \in SUBSET Flags /\ used \subseteq Bits
  BY <1>2 DEF Want, Unknown, Bits, ReadBits, WriteBits
<1>3. CASE want = Want(ReadBits) /\ used = {"copy source"}
  BY <1>3 DEF Want, Unknown, Bits, ReadBits
<1>4. CASE want.state = Common /\ want.flags \in SUBSET Flags /\ used = {"common"}
  BY <1>4 DEF Common, Unknown
<1> QED BY <1>1, <1>2, <1>3, <1>4 DEF AsksState

(* The state after a transition is the one used, alone if it is written.   *)
LEMMA DestinationFits ==
  ASSUME NEW current \in SUBSET Bits, Alone(current), NEW bit \in Bits
  PROVE  LET after == Destination(current, {bit}, {}) IN
         /\ bit \in after /\ after \in SUBSET Bits
         /\ Alone(after) /\ Suffices(after, bit)
<1> DEFINE after == Destination(current, {bit}, {})
<1>1. CASE bit \in current
  <2>1. after = current
    BY <1>1 DEF Destination
  <2> QED BY <1>1, <2>1 DEF Alone, Suffices, IsWrite, Bits, ReadBits, WriteBits
<1>2. CASE bit \notin current
  <2>1. CASE IsWrite({bit}, {}) \/ IsWrite(current, {})
    <3>1. after = {bit}
      BY <1>2, <2>1 DEF Destination
    <3> QED BY <3>1 DEF Alone, Suffices, IsWrite, Bits, ReadBits, WriteBits
  <2>2. CASE ~IsWrite({bit}, {}) /\ ~IsWrite(current, {})
    <3>1. after = {bit} \cup current
      BY <1>2, <2>2 DEF Destination
    <3>2. ~IsWrite(after, {})
      BY <2>2, <3>1 DEF IsWrite
    <3> QED BY <3>1, <3>2 DEF Alone, Suffices, Bits, ReadBits, WriteBits
  <2> QED BY <2>1, <2>2
<1> QED BY <1>1, <1>2

(* Textures: what is tracked stays the state there is.                     *)
LEMMA TextureStep ==
  ASSUME StateInv, NEW desired, NEW uses, Record(desired, uses), WellAsked(desired, uses),
         NEW t \in Textures, NEW i \in Index(t)
  PROVE  /\ tracked'[t].of[i].state = actual'[t][i]
         /\ actual'[t][i] \in SUBSET Bits
         /\ Alone(actual'[t][i])
         /\ \A a \in Used(uses, t, i) : Suffices(actual'[t][i], a)
<1> DEFINE now == tracked[t].of[i]
           want == desired[t].of[i]
           used == Used(uses, t, i)
<1>0. t \in Resources /\ t \notin Buffers
  BY FirstIndex DEF Resources
<1>1. SameInv /\ now.state = actual[t][i] /\ actual[t][i] \in SUBSET Bits /\ Alone(actual[t][i])
  BY DEF StateInv, TextureInv
<1>2. AsksState(t, want, used)
  BY <1>0 DEF WellAsked
<1>3. tracked'[t].of[i] = IF Touched(t, now, want) THEN Processed(t, now, want) ELSE now
  <2>1. tracked'[t] = Track(t, desired[t])
    BY <1>0 DEF Record
  <2> QED BY <1>0, <1>1, <2>1, TrackAt DEF WellAsked
<1>4. actual'[t][i] = IF Changes(t, now, want) THEN After(t, now, want) ELSE now.state
  <2>1. actual'[t][i] = Promoted(t, i, used)
    BY <1>0 DEF Record
  <2>2. actual'[t][i] = Transitioned(t, i)
    BY <1>0, <2>1 DEF Promoted
  <2> QED BY <1>0, <1>1, <2>2, TransitionedAt
<1>5. Processed(t, now, want).state = After(t, now, want)
  BY DEF Processed
<1>6. Compared(t, now)
  BY <1>0 DEF Compared
<1>7. tracked'[t].of[i].state = actual'[t][i]
  <2>1. CASE Changes(t, now, want)
    <3>1. Touched(t, now, want)
      BY <2>1 DEF Touched, Changes
    <3> QED BY <1>3, <1>4, <1>5, <2>1, <3>1
  <2>2. CASE ~Changes(t, now, want) /\ Touched(t, now, want)
    <3>1. After(t, now, want) = now.state
      BY <1>0, <1>6, <2>2, UnchangedState DEF Touched
    <3> QED BY <1>3, <1>4, <1>5, <2>2, <3>1
  <2>3. CASE ~Changes(t, now, want) /\ ~Touched(t, now, want)
    BY <1>3, <1>4, <2>3
  <2> QED BY <2>1, <2>2, <2>3
<1>8. CASE want = Want(Unknown) /\ used = {}
  <2>1. ~Changes(t, now, want)
    BY <1>8 DEF Changes, Want
  <2> QED BY <1>1, <1>4, <1>7, <1>8, <2>1
<1>9. ASSUME NEW bit \in Bits, want = Want({bit}), used = {bit}
      PROVE  /\ actual'[t][i] \in SUBSET Bits /\ Alone(actual'[t][i])
             /\ \A a \in used : Suffices(actual'[t][i], a)
  <2>1. want.state # Unknown
    BY <1>0, <1>2, <1>9, AskedKnown
  <2>2. actual'[t][i] = After(t, now, want)
    BY <1>0, <1>4, <1>6, <2>1, UnchangedState
  <2>3. actual'[t][i] = Destination(now.state, {bit}, {})
    BY <1>6, <1>9, <2>2 DEF After, Want
  <2> QED BY <1>1, <1>9, <2>3, DestinationFits
<1>10. CASE want.state = Common /\ "exact" \in want.flags /\ used = {"common"}
  <2>1. want.state # Unknown
    BY <1>10 DEF Common, Unknown
  <2>2. actual'[t][i] = After(t, now, want)
    BY <1>0, <1>4, <1>6, <2>1, UnchangedState
  <2>3. actual'[t][i] = Common
    BY <1>6, <1>10, <2>2 DEF After, Destination
  <2>4. actual'[t][i] \in SUBSET Bits /\ Alone(actual'[t][i])
    BY <2>3 DEF Common, Alone, IsWrite
  <2> QED BY <1>7, <1>10, <2>3, <2>4 DEF Suffices
<1>11. t # Staging
  BY StagingAssumption, <1>0
<1> QED BY <1>2, <1>7, <1>8, <1>9, <1>10, <1>11 DEF AsksState

(* The staging buffer is asked for as a source of every kind.              *)
LEMMA SourceFits ==
  ASSUME NEW current \in SUBSET Bits, Alone(current)
  PROVE  LET after == Destination(current, ReadBits, {}) IN
         /\ after \in SUBSET Bits /\ "copy source" \in after
         /\ Alone(after) /\ Suffices(after, "copy source")
<1> DEFINE after == Destination(current, ReadBits, {})
<1>1. CASE IsWrite(current, {})
  <2>1. PICK bit \in Bits : current = {bit}
    BY <1>1 DEF Alone
  <2>2. ~(ReadBits \subseteq current)
    BY <2>1 DEF ReadBits
  <2>3. after = ReadBits
    BY <1>1, <2>2 DEF Destination
  <2> QED BY <2>3 DEF Alone, Suffices, IsWrite, Bits, ReadBits, WriteBits
<1>2. CASE ~IsWrite(current, {})
  <2>1. ~IsWrite(ReadBits, {})
    BY DEF IsWrite, ReadBits, WriteBits
  <2>2. after = ReadBits \cup current
    BY <1>2, <2>1 DEF Destination
  <2>3. ~IsWrite(after, {})
    BY <1>2, <2>1, <2>2 DEF IsWrite
  <2> QED BY <2>2, <2>3 DEF Alone, Suffices, Bits, ReadBits
<1> QED BY <1>1, <1>2

(* Buffers: what is tracked of one that the list has written is its state. *)
LEMMA BufferStep ==
  ASSUME StateInv, NEW desired, NEW uses, Record(desired, uses), WellAsked(desired, uses),
         NEW b \in Buffers
  PROVE  /\ BufferFits(tracked'[b].of[0], inList'[b], actual'[b][0])
         /\ inList'[b] # "reread" => \A a \in Used(uses, b, 0) : Suffices(actual'[b][0], a)
<1> DEFINE now == tracked[b].of[0]
           then == tracked'[b].of[0]
           want == desired[b].of[0]
           used == Used(uses, b, 0)
<1>0. b \in Resources /\ 0 \in Index(b) /\ b \notin Textures
  BY FirstIndex, KindsAssumption DEF Resources
<1>1. nextID \in Nat /\ SameInv /\ BufferFits(now, inList[b], actual[b][0])
  BY DEF StateInv, BufferInv
<1>2. AsksState(b, want, used)
  BY <1>0 DEF WellAsked
<1>3. then = IF Touched(b, now, want) THEN Processed(b, now, want) ELSE now
  <2>1. tracked'[b] = Track(b, desired[b])
    BY <1>0 DEF Record
  <2> QED BY <1>0, <1>1, <2>1, TrackAt DEF WellAsked
<1>4. actual'[b][0] = (IF Changes(b, now, want) THEN After(b, now, want) ELSE actual[b][0]) \cup used
  <2>1. actual'[b][0] = Promoted(b, 0, used)
    BY <1>0 DEF Record
  <2>2. actual'[b][0] = Transitioned(b, 0) \cup used
    BY <2>1 DEF Promoted
  <2> QED BY <1>0, <1>1, <2>2, TransitionedAt
<1>5. inList'[b] = Done(inList[b], used)
  BY DEF Record
<1>6. CASE want = Want(Unknown) /\ used = {}
  <2>1. ~Changes(b, now, want) /\ ~Touched(b, now, want)
    BY <1>6 DEF Changes, Touched, Want
  <2>2. then = now /\ actual'[b][0] = actual[b][0] /\ inList'[b] = inList[b]
    BY <1>3, <1>4, <1>5, <1>6, <2>1 DEF Done
  <2> QED BY <1>1, <1>6, <2>2
<1>7. ASSUME want.state # Unknown, want.flags = {}
      PROVE  /\ then.state = After(b, now, want) /\ then.read = nextID
             /\ then.write = IF IsWrite(After(b, now, want), {}) THEN nextID ELSE now.write
  BY <1>3, <1>7 DEF Touched, Processed
<1>8. ASSUME NEW bit \in Bits, want = Want({bit}), used = {bit}
      PROVE  /\ BufferFits(then, inList'[b], actual'[b][0])
             /\ inList'[b] # "reread" => \A a \in used : Suffices(actual'[b][0], a)
  <2>1. want.state # Unknown /\ want.state = {bit} /\ want.flags = {}
    BY <1>0, <1>2, <1>8, AskedKnown DEF Want
  <2>2. /\ then.state = After(b, now, want) /\ then.read = nextID
        /\ then.write = IF IsWrite(After(b, now, want), {}) THEN nextID ELSE now.write
    BY <1>7, <2>1
  <2>3. then.write \in Nat /\ then.write <= nextID /\ then.read \in Nat /\ then.read <= nextID
    BY <1>1, <2>2 DEF BufferFits
  <2>4. CASE inList[b] = "unused"
    <3>1. ~Compared(b, now) /\ now.read # nextID /\ now.write # nextID /\ actual[b][0] = {}
      BY <1>1, <2>4 DEF BufferFits, Compared
    <3>2. ~Changes(b, now, want) /\ After(b, now, want) = {bit}
      BY <2>1, <3>1 DEF Changes, After
    <3>3. actual'[b][0] = {bit} /\ then.state = {bit}
      BY <1>4, <1>8, <2>2, <3>1, <3>2
    <3>4. inList'[b] = IF IsWrite({bit}, {}) THEN "written" ELSE "read"
      BY <1>5, <1>8, <2>4 DEF Done
    <3>5. Alone({bit}) /\ \A a \in used : Suffices({bit}, a)
      BY <1>8 DEF Alone, Suffices, IsWrite, Bits, ReadBits, WriteBits
    <3> QED BY <2>2, <2>3, <3>1, <3>2, <3>3, <3>4, <3>5 DEF BufferFits
  <2>5. CASE inList[b] = "read"
    <3>1. ~Compared(b, now) /\ now.read = nextID /\ now.state = actual[b][0] /\ ~IsWrite(now.state, {})
          /\ now.write # nextID /\ now.state \in SUBSET Bits
      BY <1>1, <2>5 DEF BufferFits, Compared
    <3>2. ~Changes(b, now, want) /\ After(b, now, want) = {bit} \cup now.state
      BY <2>1, <3>1 DEF Changes, After
    <3>3. actual'[b][0] = then.state /\ then.state = {bit} \cup now.state /\ then.state \in SUBSET Bits
      BY <1>4, <1>8, <2>2, <3>1, <3>2
    <3>4. inList'[b] = IF IsWrite({bit}, {}) THEN "reread" ELSE "read"
      BY <1>5, <1>8, <2>5 DEF Done
    <3>5. ~IsWrite({bit}, {}) => ~IsWrite(then.state, {})
      BY <3>1, <3>3 DEF IsWrite
    <3>6. ~IsWrite(then.state, {}) => \A a \in used : Suffices(then.state, a)
      BY <1>8, <3>3 DEF Suffices, Bits, ReadBits, WriteBits
    <3> QED BY <2>2, <2>3, <3>1, <3>2, <3>3, <3>4, <3>5, <3>6 DEF BufferFits
  <2>6. CASE inList[b] = "written"
    <3>1. Compared(b, now) /\ now.write = nextID /\ now.state = actual[b][0]
          /\ now.state \in SUBSET Bits /\ Alone(now.state)
      BY <1>1, <2>6 DEF BufferFits, Compared
    <3>2. After(b, now, want) = Destination(now.state, {bit}, {})
      BY <2>1, <3>1 DEF After
    <3>3. /\ bit \in then.state /\ then.state \in SUBSET Bits
          /\ Alone(then.state) /\ Suffices(then.state, bit)
      BY <2>2, <3>1, <3>2, DestinationFits
    <3>4. (IF Changes(b, now, want) THEN After(b, now, want) ELSE actual[b][0]) = then.state
      BY <1>0, <2>1, <2>2, <3>1, UnchangedState
    <3>5. actual'[b][0] = then.state
      BY <1>4, <1>8, <3>3, <3>4
    <3>6. inList'[b] = "written" /\ then.write = nextID
      BY <1>5, <1>8, <2>2, <2>6, <3>1 DEF Done
    <3> QED BY <1>8, <2>2, <2>3, <3>3, <3>5, <3>6 DEF BufferFits
  <2>7. CASE inList[b] = "reread"
    <3>1. inList'[b] = "reread"
      BY <1>5, <2>7 DEF Done
    <3>2. now.state \in SUBSET Bits
      BY <1>1 DEF BufferFits
    <3>3. After(b, now, want) \in SUBSET Bits
      BY <2>1, <3>2 DEF After, Destination
    <3> QED BY <2>2, <2>3, <3>1, <3>3 DEF BufferFits
  <2> QED BY <1>1, <2>4, <2>5, <2>6, <2>7 DEF BufferFits
<1>9. CASE want = Want(ReadBits) /\ used = {"copy source"} /\ inList[b] = "written"
  <2>1. want.state # Unknown /\ want.state = ReadBits /\ want.flags = {}
    <3>1. want.state = ReadBits /\ want.flags = {}
      <4> HIDE DEF want, used
      <4> QED BY <1>9 DEF Want
    <3>2. want.state # Unknown
      <4> HIDE DEF want, used
      <4> QED BY <1>0, <1>2, <1>9, AskedKnown
    <3> QED BY <3>1, <3>2
  <2>2. /\ then.state = After(b, now, want) /\ then.read = nextID
        /\ then.write = IF IsWrite(After(b, now, want), {}) THEN nextID ELSE now.write
    BY <1>7, <2>1
  <2>3. Compared(b, now) /\ now.write = nextID /\ now.state = actual[b][0]
        /\ now.state \in SUBSET Bits /\ Alone(now.state)
    BY <1>1, <1>9 DEF BufferFits, Compared
  <2>4. After(b, now, want) = Destination(now.state, ReadBits, {})
    BY <2>1, <2>3 DEF After
  <2>5. /\ "copy source" \in then.state /\ then.state \in SUBSET Bits
        /\ Alone(then.state) /\ Suffices(then.state, "copy source")
    BY <2>2, <2>3, <2>4, SourceFits
  <2>6. (IF Changes(b, now, want) THEN After(b, now, want) ELSE actual[b][0]) = then.state
    BY <1>0, <2>1, <2>2, <2>3, UnchangedState
  <2>7. actual'[b][0] = then.state
    BY <1>4, <1>9, <2>5, <2>6
  <2>8. inList'[b] = "written" /\ then.write = nextID
    BY <1>5, <1>9, <2>2, <2>3 DEF Done, IsWrite, WriteBits
  <2> QED BY <1>1, <1>9, <2>2, <2>5, <2>7, <2>8 DEF BufferFits
<1> QED BY <1>0, <1>2, <1>6, <1>8, <1>9 DEF AsksState

(* A command that asks for what it uses keeps the invariant.               *)
LEMMA RecordKeepsInv ==
  ASSUME StateInv, NEW desired, NEW uses, Record(desired, uses), WellAsked(desired, uses),
         HalfInv'
  PROVE  StateInv'
<1>1. nextID' \in Nat
  BY DEF StateInv, Record
<1>2. SameInv'
  <2>1. ASSUME NEW r \in Resources
        PROVE  /\ tracked'[r].same \in BOOLEAN
               /\ tracked'[r].same => \A i \in Index(r) : tracked'[r].of[i] = tracked'[r].of[0]
    <3>1. tracked'[r] = Track(r, desired[r])
      BY DEF Record
    <3> QED BY <3>1, TrackSame DEF StateInv, WellAsked
  <2> QED BY <2>1 DEF SameInv
<1>3. TextureInv'
  <2>1. ASSUME NEW t \in Textures, NEW i \in Index(t)
        PROVE  /\ tracked'[t].of[i].state = actual'[t][i]
               /\ actual'[t][i] \in SUBSET Bits /\ Alone(actual'[t][i])
    BY <2>1, TextureStep
  <2> QED BY <2>1 DEF TextureInv
<1>4. BufferInv'
  <2>1. ASSUME NEW b \in Buffers
        PROVE  BufferFits(tracked'[b].of[0], inList'[b], actual'[b][0])
    BY <2>1, BufferStep
  <2>2. nextID' = nextID
    BY DEF Record
  <2> QED BY <2>1, <2>2 DEF BufferInv, BufferFits
<1> QED BY <1>1, <1>2, <1>3, <1>4 DEF StateInv

-----------------------------------------------------------------------------
(* Every command asks for what it uses.                                    *)

(* What is used as one thing, and what is asked for a set of subresources. *)
LEMMA AskOf ==
  ASSUME NEW r \in Resources, NEW request, NEW S \in SUBSET Index(r), NEW want, request.same \in BOOLEAN
  PROVE  /\ Ask(r, request, S, want).same \in BOOLEAN
         /\ (request.same => \A i \in Index(r) : request.of[i] = request.of[0])
              => (Ask(r, request, S, want).same
                    => \A i \in Index(r) : Ask(r, request, S, want).of[i] = Ask(r, request, S, want).of[0])
         /\ \A i \in Index(r) :
              Ask(r, request, S, want).of[i] = IF i \in S THEN want ELSE request.of[i]
<1>0. 0 \in Index(r)
  BY FirstIndex
<1>1. CASE S = Index(r)
  <2>1. Ask(r, request, S, want) = SetResourceState(r, want)
    BY <1>1 DEF Ask
  <2> QED BY <1>0, <1>1, <2>1 DEF SetResourceState
<1>2. CASE S # Index(r)
  <2> DEFINE flag == request.same /\ Count(r) = 1
             entries == [i \in Index(r) |-> IF i \in S THEN want ELSE request.of[i]]
  <2>1. Ask(r, request, S, want) = [same |-> flag, of |-> entries]
    <3>1. Ask(r, request, S, want) = SetSubresourceStates(r, request, S, [i \in S |-> want])
      BY <1>2 DEF Ask
    <3>2. [i \in Index(r) |-> IF i \in S THEN [j \in S |-> want][i] ELSE request.of[i]] = entries
      OBVIOUS
    <3>3. Ask(r, request, S, want)
            = [same |-> flag, of |-> [i \in Index(r) |-> IF i \in S THEN [j \in S |-> want][i] ELSE request.of[i]]]
      BY <3>1, Zenon DEF SetSubresourceStates
    <3> HIDE DEF entries, flag
    <3> QED BY <3>2, <3>3
  <2>2. Ask(r, request, S, want).same = flag /\ Ask(r, request, S, want).of = entries
    <3> HIDE DEF entries, flag
    <3> QED BY <2>1
  <2>3. flag \in BOOLEAN /\ (flag => Index(r) = {0})
    BY DEF Index
  <2>4. Ask(r, request, S, want).same \in BOOLEAN
    <3> HIDE DEF flag, entries
    <3> QED BY <2>2, <2>3
  <2>5. Ask(r, request, S, want).same
          => \A i \in Index(r) : Ask(r, request, S, want).of[i] = Ask(r, request, S, want).of[0]
    <3> HIDE DEF flag, entries
    <3> QED BY <2>2, <2>3
  <2>6. \A i \in Index(r) : Ask(r, request, S, want).of[i] = IF i \in S THEN want ELSE request.of[i]
    BY <2>2
  <2> QED BY <2>4, <2>5, <2>6
<1> QED BY <1>1, <1>2

Settled(r, request) ==
  /\ request.same \in BOOLEAN
  /\ request.same => \A i \in Index(r) : request.of[i] = request.of[0]

(* AskOf for a request that is in order.                                   *)
LEMMA AskSettled ==
  ASSUME NEW r \in Resources, NEW request, Settled(r, request), NEW S \in SUBSET Index(r), NEW want
  PROVE  /\ Settled(r, Ask(r, request, S, want))
         /\ \A i \in Index(r) :
              Ask(r, request, S, want).of[i] = IF i \in S THEN want ELSE request.of[i]
BY AskOf DEF Settled

LEMMA NothingAt ==
  ASSUME NEW r \in Resources
  PROVE  /\ Settled(r, Nothing[r])
         /\ \A i \in Index(r) : Nothing[r].of[i] = Want(Unknown)
<1>1. Nothing[r] = SetResourceState(r, Want(Unknown))
  BY DEF Nothing
<1> QED BY <1>1, FirstIndex DEF SetResourceState, Settled

(* The uses of a command, subresource by subresource.                      *)
LEMMA UsedOf ==
  ASSUME NEW uses1, NEW uses2, NEW r, NEW i
  PROVE  Used(uses1 \cup uses2, r, i) = Used(uses1, r, i) \cup Used(uses2, r, i)
<1>1. ASSUME NEW uses, NEW x
      PROVE  x \in Used(uses, r, i) <=> \E a \in uses : a.res = r /\ a.sub = i /\ x = a.as
  BY DEF Used
<1>2. ASSUME NEW x
      PROVE  x \in Used(uses1 \cup uses2, r, i) <=> x \in Used(uses1, r, i) \cup Used(uses2, r, i)
  BY <1>1
<1> QED BY <1>2

LEMMA UsedAs ==
  ASSUME NEW p, NEW D, NEW bit, NEW r, NEW i
  PROVE  Used(As(p, D, bit), r, i) = IF r = p /\ i \in D THEN {bit} ELSE {}
<1> DEFINE use(j) == [res |-> p, sub |-> j, as |-> bit]
<1>1. ASSUME NEW x
      PROVE  x \in Used(As(p, D, bit), r, i)
               <=> \E a \in As(p, D, bit) : a.res = r /\ a.sub = i /\ x = a.as
  BY DEF Used
<1>2. As(p, D, bit) = {use(j) : j \in D}
  BY DEF As
<1>3. ASSUME NEW x
      PROVE  x \in Used(As(p, D, bit), r, i)
               <=> \E j \in D : use(j).res = r /\ use(j).sub = i /\ x = use(j).as
  <2> HIDE DEF use
  <2> QED BY <1>1, <1>2
<1>4. ASSUME NEW x
      PROVE  x \in Used(As(p, D, bit), r, i) <=> r = p /\ i \in D /\ x = bit
  BY <1>3
<1> QED BY <1>4

LEMMA UsedTwo ==
  ASSUME NEW p, NEW D, NEW bit1, NEW q, NEW S, NEW bit2, NEW r, NEW i
  PROVE  Used(As(p, D, bit1) \cup As(q, S, bit2), r, i)
           = (IF r = p /\ i \in D THEN {bit1} ELSE {}) \cup (IF r = q /\ i \in S THEN {bit2} ELSE {})
<1>1. Used(As(p, D, bit1) \cup As(q, S, bit2), r, i)
        = Used(As(p, D, bit1), r, i) \cup Used(As(q, S, bit2), r, i)
  BY UsedOf
<1> QED BY <1>1, UsedAs

(* A command that uses subresources of one resource.                       *)
LEMMA OneAsked ==
  ASSUME NEW p \in Resources, NEW D \in SUBSET Index(p), NEW want, NEW bit, AsksState(p, want, {bit})
  PROVE  WellAsked([Nothing EXCEPT ![p] = Ask(p, @, D, want)], As(p, D, bit))
<1> DEFINE desired == [Nothing EXCEPT ![p] = Ask(p, @, D, want)]
           uses == As(p, D, bit)
<1>1. ASSUME NEW r \in Resources
      PROVE  /\ Settled(r, desired[r])
             /\ \A i \in Index(r) : AsksState(r, desired[r].of[i], Used(uses, r, i))
  <2>1. \A i \in Index(r) : Used(uses, r, i) = IF r = p /\ i \in D THEN {bit} ELSE {}
    BY UsedAs
  <2>2. desired[r] = IF r = p THEN Ask(p, Nothing[p], D, want) ELSE Nothing[r]
    BY DEF Nothing
  <2>3. /\ Settled(r, desired[r])
        /\ \A i \in Index(r) : desired[r].of[i] = IF r = p /\ i \in D THEN want ELSE Want(Unknown)
    <3> HIDE DEF desired
    <3> QED BY <2>2, NothingAt, AskSettled
  <2> HIDE DEF desired, uses
  <2> QED BY <2>1, <2>3 DEF AsksState
<1>2. \A a \in uses : a.res \in Resources /\ a.sub \in Index(a.res)
  BY DEF As
<1> HIDE DEF desired, uses
<1>3. WellAsked(desired, uses)
  BY <1>1, <1>2 DEF WellAsked, Settled
<1> QED BY <1>3 DEF desired, uses

(* A command that uses subresources of two resources, or others of one.    *)
LEMMA TwoAsked ==
  ASSUME NEW p \in Resources, NEW D \in SUBSET Index(p), NEW want1, NEW bit1, AsksState(p, want1, {bit1}),
         NEW q \in Resources, NEW S \in SUBSET Index(q), NEW want2, NEW bit2, AsksState(q, want2, {bit2}),
         p # q \/ D \cap S = {}
  PROVE  WellAsked(AskBoth(p, D, want1, q, S, want2), As(p, D, bit1) \cup As(q, S, bit2))
<1> DEFINE first == [Nothing EXCEPT ![p] = Ask(p, @, D, want1)]
           desired == AskBoth(p, D, want1, q, S, want2)
           uses == As(p, D, bit1) \cup As(q, S, bit2)
<1>1. ASSUME NEW r \in Resources
      PROVE  /\ Settled(r, desired[r])
             /\ \A i \in Index(r) : AsksState(r, desired[r].of[i], Used(uses, r, i))
  <2>1. \A i \in Index(r) : Used(uses, r, i) = (IF r = p /\ i \in D THEN {bit1} ELSE {})
                                            \cup (IF r = q /\ i \in S THEN {bit2} ELSE {})
    BY UsedTwo
  <2>2. first[r] = IF r = p THEN Ask(p, Nothing[p], D, want1) ELSE Nothing[r]
    BY DEF Nothing
  <2>3. desired[r] = IF r = q THEN Ask(q, first[q], S, want2) ELSE first[r]
    <3>1. desired = [first EXCEPT ![q] = Ask(q, @, S, want2)]
      BY DEF AskBoth
    <3>2. DOMAIN first = Resources
      BY DEF Nothing
    <3> HIDE DEF first, desired
    <3> QED BY <3>1, <3>2
  <2>4. /\ Settled(r, first[r])
        /\ \A i \in Index(r) : first[r].of[i] = IF r = p /\ i \in D THEN want1 ELSE Want(Unknown)
    <3> HIDE DEF first
    <3> QED BY <2>2, NothingAt, AskSettled
  <2>5. /\ Settled(r, desired[r])
        /\ \A i \in Index(r) : desired[r].of[i] = IF r = q /\ i \in S THEN want2 ELSE first[r].of[i]
    <3> HIDE DEF first, desired
    <3> QED BY <2>3, <2>4, AskSettled
  <2> HIDE DEF first, desired, uses
  <2>6. ASSUME NEW i \in Index(r)
        PROVE  AsksState(r, desired[r].of[i], Used(uses, r, i))
    <3>1. CASE r = q /\ i \in S
      <4>1. ~(r = p /\ i \in D)
        BY <3>1
      <4> QED BY <2>1, <2>5, <3>1, <4>1
    <3>2. CASE ~(r = q /\ i \in S) /\ r = p /\ i \in D
      BY <2>1, <2>4, <2>5, <3>2
    <3>3. CASE ~(r = q /\ i \in S) /\ ~(r = p /\ i \in D)
      BY <2>1, <2>4, <2>5, <3>3 DEF AsksState
    <3> QED BY <3>1, <3>2, <3>3
  <2> QED BY <2>5, <2>6
<1>2. \A a \in uses : a.res \in Resources /\ a.sub \in Index(a.res)
  BY DEF As
<1> HIDE DEF desired, uses
<1>3. WellAsked(desired, uses)
  BY <1>1, <1>2 DEF WellAsked, Settled
<1> QED BY <1>3 DEF desired, uses

LEMMA DispatchAsked ==
  ASSUME NEW Q \in SUBSET Resources, NEW bit, \A r \in Q : bit[r] \in Bits
  PROVE  WellAsked([r \in Resources |-> IF r \in Q THEN SetResourceState(r, Want({bit[r]})) ELSE Nothing[r]],
                   UNION {As(r, Index(r), bit[r]) : r \in Q})
<1> DEFINE desired == [r \in Resources |->
                          IF r \in Q THEN SetResourceState(r, Want({bit[r]})) ELSE Nothing[r]]
           uses == UNION {As(r, Index(r), bit[r]) : r \in Q}
<1>1. ASSUME NEW r \in Resources, NEW i \in Index(r)
      PROVE  Used(uses, r, i) = IF r \in Q THEN {bit[r]} ELSE {}
  <2>1. ASSUME NEW x
        PROVE  x \in Used(uses, r, i) <=> \E a \in uses : a.res = r /\ a.sub = i /\ x = a.as
    BY DEF Used
  <2>2. ASSUME NEW x, NEW q \in Q
        PROVE  x \in Used(As(q, Index(q), bit[q]), r, i)
                 <=> \E a \in As(q, Index(q), bit[q]) : a.res = r /\ a.sub = i /\ x = a.as
    BY DEF Used
  <2>3. ASSUME NEW x
        PROVE  x \in Used(uses, r, i) <=> \E q \in Q : x \in Used(As(q, Index(q), bit[q]), r, i)
    BY <2>1, <2>2
  <2>4. ASSUME NEW q \in Q
        PROVE  Used(As(q, Index(q), bit[q]), r, i) = IF r = q THEN {bit[r]} ELSE {}
    <3>1. Used(As(q, Index(q), bit[q]), r, i) = IF r = q /\ i \in Index(q) THEN {bit[q]} ELSE {}
      BY UsedAs
    <3> QED BY <3>1
  <2> HIDE DEF uses
  <2> QED BY <2>3, <2>4
<1>2. ASSUME NEW r \in Resources
      PROVE  /\ Settled(r, desired[r])
             /\ \A i \in Index(r) : AsksState(r, desired[r].of[i], Used(uses, r, i))
  <2>1. CASE r \in Q
    <3>1. desired[r] = SetResourceState(r, Want({bit[r]}))
      BY <2>1
    <3> HIDE DEF desired
    <3>2. Settled(r, desired[r]) /\ \A i \in Index(r) : desired[r].of[i] = Want({bit[r]})
      BY <3>1, FirstIndex DEF SetResourceState, Settled
    <3> HIDE DEF uses
    <3> QED BY <1>1, <2>1, <3>2 DEF AsksState
  <2>2. CASE r \notin Q
    <3>1. desired[r] = Nothing[r]
      BY <2>2
    <3> HIDE DEF desired, uses
    <3> QED BY <1>1, <2>2, <3>1, NothingAt DEF AsksState
  <2> QED BY <2>1, <2>2
<1>3. \A a \in uses : a.res \in Resources /\ a.sub \in Index(a.res)
  BY DEF As
<1> HIDE DEF desired, uses
<1>4. WellAsked(desired, uses)
  BY <1>2, <1>3 DEF WellAsked, Settled
<1> QED BY <1>4 DEF desired, uses

-----------------------------------------------------------------------------
(* A step submits the list, or records a command that is well asked.       *)
LEMMA NextRecords ==
  ASSUME StateInv, Next, ~Submit
  PROVE  \E desired, uses : Record(desired, uses) /\ WellAsked(desired, uses) /\ HalfInv'
<1>0. Staging \in Buffers /\ Staging \in Resources /\ Staging \notin Ours /\ 0 \in Index(Staging)
      /\ Ours \subseteq Resources /\ inList[Staging] \in {"unused", "written"}
  BY StagingAssumption, FirstIndex DEF Resources, Ours, StateInv, HalfInv
<1>1. ASSUME NEW uses, NEW desired, Record(desired, uses), Used(uses, Staging, 0) = {}, half' = {}
      PROVE  HalfInv'
  <2>1. inList'[Staging] = inList[Staging]
    BY <1>0, <1>1 DEF Record, Done
  <2> QED BY <1>0, <1>1, <2>1 DEF HalfInv
<1>2. ASSUME NEW bit \in Bits, NEW r \in Resources
      PROVE  AsksState(r, Want({bit}), {bit})
  BY DEF AsksState
<1>3. {"copy dest", "copy source", "shader resource", "unordered access"} \subseteq Bits
  BY DEF Bits, ReadBits, WriteBits
<1>4. ASSUME NEW r \in Ours, NEW S \in SUBSET Index(r), UpdateSubresources(r, S)
      PROVE  \E desired, uses : Record(desired, uses) /\ WellAsked(desired, uses) /\ HalfInv'
  <2> DEFINE desired == [Nothing EXCEPT ![r] = Ask(r, @, S, Want({"copy dest"}))]
             uses == As(r, S, "copy dest")
  <2>1. Record(desired, uses) /\ half' = {}
    BY <1>4 DEF UpdateSubresources
  <2>2. WellAsked(desired, uses)
    BY <1>0, <1>2, <1>3, OneAsked
  <2>3. Used(uses, Staging, 0) = {}
    BY <1>0, UsedAs
  <2> HIDE DEF desired, uses
  <2> QED BY <1>1, <2>1, <2>2, <2>3
<1>5. ASSUME NEW t \in Textures, NEW S \in SUBSET Index(t), NEW flags \in SUBSET Flags, "exact" \in flags,
             GiveAway(t, S, flags)
      PROVE  \E desired, uses : Record(desired, uses) /\ WellAsked(desired, uses) /\ HalfInv'
  <2> DEFINE want == [state |-> Common, flags |-> flags]
             desired == [Nothing EXCEPT ![t] = Ask(t, @, S, want)]
             uses == As(t, S, "common")
  <2>0. t \in Resources /\ t # Staging
    BY <1>0, KindsAssumption DEF Resources
  <2>1. Record(desired, uses) /\ half' = {}
    BY <1>5 DEF GiveAway
  <2>2. AsksState(t, want, {"common"})
    BY <1>5 DEF AsksState
  <2>3. WellAsked(desired, uses)
    BY <2>0, <2>2, OneAsked
  <2>4. Used(uses, Staging, 0) = {}
    BY <2>0, UsedAs
  <2> HIDE DEF desired, uses
  <2> QED BY <1>1, <2>1, <2>3, <2>4
<1>6. ASSUME NEW dst \in Ours, NEW src \in Ours, NEW D \in SUBSET Index(dst), NEW S \in SUBSET Index(src),
             Copy(dst, D, src, S)
      PROVE  \E desired, uses : Record(desired, uses) /\ WellAsked(desired, uses) /\ HalfInv'
  <2> DEFINE desired == AskBoth(dst, D, Want({"copy dest"}), src, S, Want({"copy source"}))
             uses == As(dst, D, "copy dest") \cup As(src, S, "copy source")
  <2>1. Record(desired, uses) /\ half' = {} /\ (dst # src \/ D \cap S = {})
    BY <1>6 DEF Copy
  <2>2. WellAsked(desired, uses)
    BY <1>0, <1>2, <1>3, <2>1, TwoAsked
  <2>3. Used(uses, Staging, 0) = {}
    <3>1. \A bit1, bit2 : Used(As(dst, D, bit1) \cup As(src, S, bit2), Staging, 0) = {}
      BY <1>0, UsedTwo
    <3> QED BY <3>1
  <2> HIDE DEF desired, uses
  <2> QED BY <1>1, <2>1, <2>2, <2>3
<1>7. ASSUME NEW r \in Ours, NEW i \in Index(r), NEW want1, NEW bit1 \in Bits, NEW bit2 \in Bits,
             AsksState(Staging, want1, {bit1}),
             Record(AskBoth(Staging, {0}, want1, r, {i}, Want({bit2})),
                    As(Staging, {0}, bit1) \cup As(r, {i}, bit2))
      PROVE  /\ \E desired, uses : Record(desired, uses) /\ WellAsked(desired, uses)
             /\ inList'[Staging] = Done(inList[Staging], {bit1})
  <2> DEFINE desired == AskBoth(Staging, {0}, want1, r, {i}, Want({bit2}))
             uses == As(Staging, {0}, bit1) \cup As(r, {i}, bit2)
  <2>1. WellAsked(desired, uses)
    BY <1>0, <1>2, <1>7, TwoAsked
  <2>2. Used(uses, Staging, 0) = {bit1}
    BY <1>0, UsedTwo
  <2>3. inList'[Staging] = Done(inList[Staging], Used(uses, Staging, 0))
    BY <1>0, <1>7 DEF Record
  <2> HIDE DEF desired, uses
  <2>4. Record(desired, uses)
    BY <1>7 DEF desired, uses
  <2> QED BY <2>1, <2>2, <2>3, <2>4
<1>8. ASSUME NEW r \in Ours, NEW i \in Index(r), SameResourceCopy(r, i)
      PROVE  \E desired, uses : Record(desired, uses) /\ WellAsked(desired, uses) /\ HalfInv'
  <2>1. /\ \E desired, uses : Record(desired, uses) /\ WellAsked(desired, uses)
        /\ inList'[Staging] = Done(inList[Staging], {"copy dest"})
    BY <1>0, <1>2, <1>3, <1>7, <1>8 DEF SameResourceCopy
  <2>2. inList'[Staging] = "written"
    BY <1>0, <2>1 DEF Done, IsWrite, WriteBits
  <2>3. \A p \in half' : p[1] \in Ours /\ p[2] \in Index(p[1])
    <3>1. half' = {<<r, i>>}
      BY <1>8 DEF SameResourceCopy
    <3>2. ASSUME NEW p \in half'
          PROVE  p[1] = r /\ p[2] = i
      BY <3>1
    <3> QED BY <3>2
  <2>4. HalfInv'
    BY <2>2, <2>3 DEF HalfInv
  <2> QED BY <2>1, <2>4
<1>9. ASSUME CopyBack
      PROVE  \E desired, uses : Record(desired, uses) /\ WellAsked(desired, uses) /\ HalfInv'
  <2>1. PICK p \in half :
          /\ Record(AskBoth(Staging, {0}, Want(ReadBits), p[1], {p[2]}, Want({"copy dest"})),
                    As(Staging, {0}, "copy source") \cup As(p[1], {p[2]}, "copy dest"))
          /\ half' = {}
    BY <1>9 DEF CopyBack
  <2>2. p[1] \in Ours /\ p[2] \in Index(p[1]) /\ inList[Staging] = "written"
    BY DEF StateInv, HalfInv
  <2>3. AsksState(Staging, Want(ReadBits), {"copy source"})
    BY <2>2 DEF AsksState
  <2>4. /\ \E desired, uses : Record(desired, uses) /\ WellAsked(desired, uses)
        /\ inList'[Staging] = Done(inList[Staging], {"copy source"})
    BY <1>3, <1>7, <2>1, <2>2, <2>3
  <2>5. inList'[Staging] = "written"
    BY <2>2, <2>4 DEF Done
  <2> QED BY <2>1, <2>4, <2>5 DEF HalfInv
<1>10. ASSUME NEW uavs \in SUBSET Ours, NEW srvs \in SUBSET (Ours \ uavs), Dispatch(uavs, srvs)
       PROVE  \E desired, uses : Record(desired, uses) /\ WellAsked(desired, uses) /\ HalfInv'
  <2> DEFINE Q == uavs \cup srvs
             bit == [r \in Q |-> IF r \in uavs THEN "unordered access" ELSE "shader resource"]
             desired == [r \in Resources |->
                            IF r \in Q THEN SetResourceState(r, Want({bit[r]})) ELSE Nothing[r]]
             uses == UNION {As(r, Index(r), bit[r]) : r \in Q}
  <2>1. Record(desired, uses) /\ half' = {}
    BY <1>10 DEF Dispatch
  <2>2. WellAsked(desired, uses)
    <3>1. Q \in SUBSET Resources /\ \A r \in Q : bit[r] \in Bits
      BY <1>0, <1>3
    <3> HIDE DEF Q, bit
    <3> QED BY <3>1, DispatchAsked
  <2>3. Used(uses, Staging, 0) = {}
    <3>1. ASSUME NEW a \in uses
          PROVE  a.res \in Ours
      <4>1. PICK r \in Q : a \in As(r, Index(r), bit[r])
        OBVIOUS
      <4>2. a.res = r
        <5> HIDE DEF bit
        <5> QED BY <4>1 DEF As
      <4> QED BY <4>2
    <3>2. \A a \in uses : a.res # Staging
      BY <1>0, <3>1
    <3> HIDE DEF uses
    <3> QED BY <3>2 DEF Used
  <2> HIDE DEF desired, uses
  <2> QED BY <1>1, <2>1, <2>2, <2>3
<1>11. ASSUME NEW t \in Textures, ReleaseToGL(t)
       PROVE  \E desired, uses : Record(desired, uses) /\ WellAsked(desired, uses) /\ HalfInv'
  <2>1. Flags \in SUBSET Flags /\ "exact" \in Flags /\ Index(t) \in SUBSET Index(t)
    BY DEF Flags
  <2> QED BY <1>5, <1>11, <2>1 DEF ReleaseToGL
<1>12. ASSUME NEW t \in Textures, NEW i \in Index(t), MapDefault(t, i)
       PROVE  \E desired, uses : Record(desired, uses) /\ WellAsked(desired, uses) /\ HalfInv'
  <2>1. {"exact", "unused if unchanged"} \in SUBSET Flags /\ {i} \in SUBSET Index(t)
    BY DEF Flags
  <2> QED BY <1>5, <1>12, <2>1 DEF MapDefault
<1> QED BY <1>4, <1>6, <1>8, <1>9, <1>10, <1>11, <1>12 DEF Next

LEMMA StateInitInv ==
  ASSUME Init
  PROVE  StateInv
<1>1. ASSUME NEW r \in Resources
      PROVE  /\ tracked[r].same = TRUE
             /\ \A i \in Index(r) : tracked[r].of[i] = [state |-> Common, read |-> 0, write |-> 0]
  BY DEF Init, SetResourceState
<1>2. SameInv
  BY <1>1, FirstIndex DEF SameInv
<1>3. TextureInv
  <2>1. ASSUME NEW t \in Textures, NEW i \in Index(t)
        PROVE  tracked[t].of[i].state = {} /\ actual[t][i] = {}
    <3>1. t \in Resources
      BY DEF Resources
    <3>2. tracked[t].of[i] = [state |-> {}, read |-> 0, write |-> 0]
      BY <1>1, <3>1 DEF Common
    <3> QED BY <3>1, <3>2 DEF Init, Common
  <2>2. Alone({})
    BY DEF Alone, IsWrite
  <2> QED BY <2>1, <2>2 DEF TextureInv
<1>4. BufferInv
  <2>1. ASSUME NEW b \in Buffers
        PROVE  BufferFits(tracked[b].of[0], inList[b], actual[b][0])
    <3>1. b \in Resources /\ 0 \in Index(b)
      BY FirstIndex DEF Resources
    <3>2. tracked[b].of[0] = [state |-> Common, read |-> 0, write |-> 0]
      BY <1>1, <3>1
    <3> QED BY <3>1, <3>2 DEF BufferFits, Init, Common
  <2> QED BY <2>1 DEF BufferInv
<1>5. HalfInv
  BY StagingAssumption DEF HalfInv, Init
<1> QED BY <1>2, <1>3, <1>4, <1>5 DEF StateInv, Init

LEMMA SubmitKeepsInv ==
  ASSUME StateInv, Submit
  PROVE  StateInv'
<1>1. SameInv'
  BY DEF StateInv, SameInv, Submit
<1>2. TextureInv'
  <2>1. ASSUME NEW t \in Textures
        PROVE  actual'[t] = actual[t] /\ tracked'[t] = tracked[t]
    BY KindsAssumption DEF Submit, Resources
  <2> QED BY <2>1 DEF StateInv, TextureInv
<1>3. BufferInv'
  <2>1. ASSUME NEW b \in Buffers
        PROVE  BufferFits(tracked[b].of[0], inList[b], actual[b][0])'
    <3>1. b \in Resources /\ 0 \in Index(b)
      BY FirstIndex DEF Resources
    <3>2. actual'[b][0] = {} /\ inList'[b] = "unused" /\ tracked' = tracked /\ nextID' = nextID + 1
      BY <3>1 DEF Submit, Common
    <3> QED BY <3>2 DEF StateInv, BufferInv, BufferFits
  <2> QED BY <2>1 DEF BufferInv
<1>4. HalfInv'
  BY StagingAssumption DEF Submit, HalfInv
<1> QED BY <1>1, <1>2, <1>3, <1>4 DEF StateInv, Submit

LEMMA Invariant == Spec => []StateInv
<1>1. StateInv /\ [Next]_vars => StateInv'
  <2> SUFFICES ASSUME StateInv, [Next]_vars
               PROVE  StateInv'
    OBVIOUS
  <2>1. CASE Submit
    BY <2>1, SubmitKeepsInv
  <2>2. CASE Next /\ ~Submit
    <3>1. PICK desired, uses : Record(desired, uses) /\ WellAsked(desired, uses) /\ HalfInv'
      BY <2>2, NextRecords
    <3> QED BY <3>1, RecordKeepsInv
  <2>3. CASE UNCHANGED vars
    BY <2>3 DEF vars, StateInv, SameInv, TextureInv, BufferInv, BufferFits, HalfInv
  <2> QED BY <2>1, <2>2, <2>3
<1> QED BY <1>1, StateInitInv, PTL DEF Spec

-----------------------------------------------------------------------------
(* The properties.                                                         *)

(* What a command that is well asked leaves satisfies all three of them.   *)
LEMMA RecordMatches ==
  ASSUME StateInv, NEW desired, NEW uses, Record(desired, uses), WellAsked(desired, uses),
         NEW b \in barriers', ~Reread(b.res)
  PROVE  b.before # b.after /\ \A i \in b.subs : actual[b.res][i] = b.before
<1>1. PICK r \in Resources : b \in BarriersOf(r, desired[r])
  BY DEF Record
<1>2. PICK j \in Visited(r, desired[r]) :
        /\ Changes(r, tracked[r].of[j], desired[r].of[j])
        /\ b = [res |-> r, subs |-> IF AtOnce(r, desired[r]) THEN Index(r) ELSE {j},
                before |-> tracked[r].of[j].state, after |-> After(r, tracked[r].of[j], desired[r].of[j])]
  BY <1>1 DEF BarriersOf
<1>3. b.res = r /\ b.before = tracked[r].of[j].state /\ b.after = After(r, tracked[r].of[j], desired[r].of[j])
  BY <1>2
<1>4. b.before # b.after
  BY <1>2, <1>3, ChangesItsState
<1>5. j \in Index(r)
  BY FirstIndex DEF Visited
<1>6. ASSUME NEW i \in b.subs
      PROVE  i \in Index(r) /\ tracked[r].of[i] = tracked[r].of[j]
  <2>1. b.subs = IF AtOnce(r, desired[r]) THEN Index(r) ELSE {j}
    BY <1>2
  <2> QED BY <1>5, <1>6, <2>1 DEF StateInv, SameInv, AtOnce
<1>7. ASSUME NEW i \in Index(r), Compared(r, tracked[r].of[i])
      PROVE  tracked[r].of[i].state = actual[r][i]
  <2>1. CASE r \in Textures
    BY <1>7, <2>1 DEF StateInv, TextureInv
  <2>2. CASE r \in Buffers
    <3>1. i = 0 /\ tracked[r].of[0].write = nextID
      BY <1>7, <2>2, FirstIndex DEF Compared
    <3>2. inList[r] # "reread"
      BY <1>3, <2>2 DEF Reread
    <3>3. BufferFits(tracked[r].of[0], inList[r], actual[r][0])
      BY <2>2 DEF StateInv, BufferInv
    <3> QED BY <3>1, <3>2, <3>3 DEF BufferFits
  <2> QED BY <2>1, <2>2 DEF Resources
<1>8. Compared(r, tracked[r].of[j])
  BY <1>2 DEF Changes
<1> QED BY <1>3, <1>4, <1>6, <1>7, <1>8

LEMMA RecordSuffices ==
  ASSUME StateInv, NEW desired, NEW uses, Record(desired, uses), WellAsked(desired, uses),
         NEW a \in accesses', ~Reread(a.res)'
  PROVE  Suffices(actual'[a.res][a.sub], a.as)
<1>1. a \in uses /\ a.res \in Resources /\ a.sub \in Index(a.res)
  BY DEF Record, WellAsked
<1>2. a.as \in Used(uses, a.res, a.sub)
  BY <1>1 DEF Used
<1>3. CASE a.res \in Textures
  BY <1>1, <1>2, <1>3, TextureStep
<1>4. CASE a.res \in Buffers
  <2>1. a.sub = 0 /\ inList'[a.res] # "reread"
    BY <1>1, <1>4, FirstIndex DEF Reread
  <2> QED BY <1>2, <1>4, <2>1, BufferStep
<1> QED BY <1>1, <1>3, <1>4 DEF Resources

LEMMA RecordTells ==
  ASSUME StateInv, NEW desired, NEW uses, Record(desired, uses), WellAsked(desired, uses),
         NEW a \in accesses', a.as # "common"
  PROVE  /\ tracked'[a.res].of[a.sub].read = nextID
         /\ a.as \in WriteBits => tracked'[a.res].of[a.sub].write = nextID
<1> DEFINE now == tracked[a.res].of[a.sub]
           want == desired[a.res].of[a.sub]
           used == Used(uses, a.res, a.sub)
<1>1. a \in uses /\ a.res \in Resources /\ a.sub \in Index(a.res)
  BY DEF Record, WellAsked
<1>2. a.as \in used
  BY <1>1 DEF Used
<1>3. AsksState(a.res, want, used)
  BY <1>1 DEF WellAsked
<1>4. want.state # Unknown
  <2>1. used # {}
    BY <1>2
  <2> HIDE DEF want, used
  <2> QED BY <1>1, <1>3, <2>1, AskedKnown
<1>5. want.flags = {} /\ (a.as \in WriteBits => want.state = {a.as})
  <2> HIDE DEF want, used
  <2>1. CASE used = {}
    BY <1>2, <2>1
  <2>2. ASSUME NEW bit \in Bits, want = Want({bit}), used = {bit}
        PROVE  want.flags = {} /\ want.state = {a.as}
    BY <1>2, <2>2 DEF Want
  <2>3. CASE want = Want(ReadBits) /\ used = {"copy source"}
    <3>1. a.as = "copy source"
      BY <1>2, <2>3
    <3> QED BY <2>3, <3>1 DEF Want, WriteBits
  <2>4. CASE used = {"common"}
    BY <1>2, <2>4
  <2> QED BY <1>3, <2>1, <2>2, <2>3, <2>4 DEF AsksState
<1>6. tracked'[a.res].of[a.sub] = Processed(a.res, now, want)
  <2>1. tracked'[a.res] = Track(a.res, desired[a.res])
    BY <1>1 DEF Record
  <2>2. Touched(a.res, now, want)
    BY <1>4, <1>5 DEF Touched
  <2> QED BY <1>1, <2>1, <2>2, TrackAt DEF WellAsked, StateInv
<1>7. a.as \in WriteBits => IsWrite(After(a.res, now, want), want.flags)
  <2> SUFFICES ASSUME a.as \in WriteBits
               PROVE  IsWrite(After(a.res, now, want), want.flags)
    OBVIOUS
  <2>1. a.as \in After(a.res, now, want)
    BY <1>5 DEF After, Destination
  <2> QED BY <2>1 DEF IsWrite
<1> QED BY <1>6, <1>7 DEF Processed

(* For any number of lists: a barrier's state before is the state that the *)
(* subresource is in (ResourceStateManager::ProcessTransitioningResource). *)
THEOREM BarriersAreRight == Spec => BarriersMatch
<1> DEFINE Right == \A b \in barriers' : ~Reread(b.res) =>
             b.before # b.after /\ \A i \in b.subs : actual[b.res][i] = b.before
<1>1. StateInv /\ [Next]_vars => [Right]_vars
  <2> SUFFICES ASSUME StateInv, Next
               PROVE  Right
    OBVIOUS
  <2>1. CASE Submit
    BY <2>1 DEF Submit
  <2>2. CASE ~Submit
    <3>1. PICK desired, uses : Record(desired, uses) /\ WellAsked(desired, uses) /\ HalfInv'
      BY <2>2, NextRecords
    <3> QED BY <3>1, RecordMatches
  <2> QED BY <2>1, <2>2
<1> QED BY <1>1, Invariant, PTL DEF Spec, BarriersMatch

(* For any number of lists: a command finds the states it needs, and what  *)
(* it writes is in no other state (the commands of ImmediateContext).      *)
THEOREM StatesAreEnough == Spec => StatesSuffice
<1> DEFINE AllSuffice == \A a \in accesses' : Reread(a.res)' \/ Suffices(actual'[a.res][a.sub], a.as)
<1>1. StateInv /\ [Next]_vars => [AllSuffice]_vars
  <2> SUFFICES ASSUME StateInv, Next
               PROVE  AllSuffice
    OBVIOUS
  <2>1. CASE Submit
    BY <2>1 DEF Submit
  <2>2. CASE ~Submit
    <3>1. PICK desired, uses : Record(desired, uses) /\ WellAsked(desired, uses) /\ HalfInv'
      BY <2>2, NextRecords
    <3> QED BY <3>1, RecordSuffices
  <2> QED BY <2>1, <2>2
<1> QED BY <1>1, Invariant, PTL DEF Spec, StatesSuffice

(* For any number of lists: a map that waits for the tracked fence values  *)
(* waits for the last use (Resource::GetLastFenceValue and its callers).   *)
THEOREM FencesAreTold == Spec => FencesTell
<1> DEFINE Told == \A a \in accesses' : a.as # "common" =>
             LET tells == tracked'[a.res].of[a.sub] IN
             tells.read = nextID /\ (a.as \in WriteBits => tells.write = nextID)
<1>1. StateInv /\ [Next]_vars => [Told]_vars
  <2> SUFFICES ASSUME StateInv, Next
               PROVE  Told
    OBVIOUS
  <2>1. CASE Submit
    BY <2>1 DEF Submit
  <2>2. CASE ~Submit
    <3>1. PICK desired, uses : Record(desired, uses) /\ WellAsked(desired, uses) /\ HalfInv'
      BY <2>2, NextRecords
    <3> QED BY <3>1, RecordTells
  <2> QED BY <2>1, <2>2
<1> QED BY <1>1, Invariant, PTL DEF Spec, FencesTell

-----------------------------------------------------------------------------
(* Suballocator: powers of two, and their multiples                        *)

\* 2 ^ k counts the subsets of 1 .. k, of which one more element makes twice
\* as many.
LEMMA Power ==
  ASSUME NEW k \in Nat
  PROVE  2 ^ k \in Nat \ {0} /\ 2 ^ (k + 1) = 2 * 2 ^ k /\ 2 ^ 0 = 1
<1> DEFINE S == SUBSET (1 .. k)
           T == {s \cup {k + 1} : s \in S}
<1>1. IsFiniteSet(1 .. k) /\ Cardinality(1 .. k) = k /\ IsFiniteSet(1 .. k + 1)
      /\ Cardinality(1 .. k + 1) = k + 1
  BY FS_Interval
<1>2. IsFiniteSet(S) /\ Cardinality(S) = 2 ^ k /\ Cardinality(SUBSET (1 .. k + 1)) = 2 ^ (k + 1)
  BY <1>1, FS_SUBSET
<1>3. Cardinality(S) \in Nat /\ {} \in S
  BY <1>2, FS_CardinalityType
<1>4. Cardinality(S) # 0
  BY <1>2, <1>3, FS_EmptySet
<1>5. IsFiniteSet(T) /\ Cardinality(T) = Cardinality(S)
  <2> DEFINE f == [s \in S |-> s \cup {k + 1}]
  <2>1. k + 1 \notin 1 .. k
    OBVIOUS
  <2>2. \A s, t \in S : s \cup {k + 1} = t \cup {k + 1} => s = t
    <3> SUFFICES ASSUME NEW s \in S, NEW t \in S, s \cup {k + 1} = t \cup {k + 1}
                 PROVE  s = t
      OBVIOUS
    <3> k + 1 \notin s /\ k + 1 \notin t
      BY <2>1
    <3> QED  OBVIOUS
  <2>3. f \in Bijection(S, T)
    <3>1. f \in [S -> T] /\ \A y \in T : \E x \in S : f[x] = y
      OBVIOUS
    <3>2. \A a, b \in S : f[a] = f[b] => a = b
      BY <2>2
    <3> HIDE DEF S, T, f
    <3>3. f \in Injection(S, T)
      BY <3>1, <3>2 DEF Injection, IsInjective
    <3>4. f \in Surjection(S, T)
      BY <3>1 DEF Surjection
    <3> QED  BY <3>3, <3>4 DEF Bijection
  <2> HIDE DEF S, T, f
  <2>4. ExistsBijection(S, T)
    BY <2>3 DEF ExistsBijection
  <2> QED  BY <1>2, <2>4, FS_Bijection
<1>6. SUBSET (1 .. k + 1) = S \cup T
  <2>1. 1 .. k + 1 = (1 .. k) \cup {k + 1} /\ k + 1 \notin 1 .. k
    OBVIOUS
  <2>2. ASSUME NEW s \in SUBSET (1 .. k + 1) PROVE s \in S \cup T
    <3>1. CASE k + 1 \in s
      <4>1. s \ {k + 1} \in S /\ s = (s \ {k + 1}) \cup {k + 1}
        BY <2>1, <3>1
      <4> QED  BY <4>1
    <3>2. CASE k + 1 \notin s
      BY <2>1, <3>2
    <3> QED  BY <3>1, <3>2
  <2>3. ASSUME NEW s \in S \cup T PROVE s \in SUBSET (1 .. k + 1)
    BY <2>1
  <2> QED  BY <2>2, <2>3
<1>7. S \cap T = {}
  <2> k + 1 \notin 1 .. k
    OBVIOUS
  <2> QED  OBVIOUS
<1>8. Cardinality(S \cup T) = Cardinality(S) + Cardinality(T)
  <2> HIDE DEF S, T
  <2>1. Cardinality({}) = 0
    BY FS_EmptySet
  <2>2. Cardinality(S \cup T) = Cardinality(S) + Cardinality(T) - Cardinality({})
    BY <1>2, <1>5, <1>7, FS_Union
  <2> QED  BY <1>3, <1>5, <2>1, <2>2
<1>9. 2 ^ 0 = 1
  OBVIOUS
<1> HIDE DEF S, T
<1>10. PICK p \in Nat, q \in Nat : p = 2 ^ k /\ q = 2 ^ (k + 1) /\ q = p + p /\ p # 0
  <2>1. 2 ^ k \in Nat /\ 2 ^ k # 0
    BY <1>2, <1>3, <1>4
  <2>2. 2 ^ (k + 1) = 2 ^ k + 2 ^ k
    BY <1>2, <1>5, <1>6, <1>8
  <2> QED  BY <2>1, <2>2
<1> QED  BY <1>9, <1>10

(* A power of two divides the greater ones.                                *)
LEMMA PowerDivides ==
  ASSUME NEW i \in Nat, NEW k \in Nat, i <= k
  PROVE  /\ \E m \in Nat \ {0} : 2 ^ k = m * 2 ^ i
         /\ i < k => \E m \in Nat \ {0} : 2 ^ k = m * 2 ^ (i + 1)
<1>1. ASSUME NEW n \in Nat, NEW j \in Nat PROVE \E m \in Nat \ {0} : 2 ^ (n + j) = m * 2 ^ n
  <2> DEFINE T == {d \in 0 .. j : \E m \in Nat \ {0} : 2 ^ (n + d) = m * 2 ^ n}
  <2>1. 0 \in T
    <3> 2 ^ (n + 0) = 1 * 2 ^ n
      BY Power
    <3> QED  OBVIOUS
  <2>2. ASSUME NEW d \in 1 .. j, d - 1 \in T PROVE d \in T
    <3>1. PICK m \in Nat \ {0} : 2 ^ (n + (d - 1)) = m * 2 ^ n
      BY <2>2
    <3>2. n + (d - 1) \in Nat /\ (n + (d - 1)) + 1 = n + d
      OBVIOUS
    <3>3. 2 ^ (n + d) = 2 * (m * 2 ^ n)
      <4>1. 2 ^ ((n + (d - 1)) + 1) = 2 * 2 ^ (n + (d - 1))
        BY <3>2, Power
      <4> QED  BY <3>1, <3>2, <4>1
    <3>4. PICK p \in Nat : p = 2 ^ n
      BY Power
    <3>5. 2 * (m * p) = (2 * m) * p /\ 2 * m \in Nat \ {0}
      OBVIOUS
    <3>6. PICK l \in Nat \ {0} : 2 ^ (n + d) = l * p
      BY <3>3, <3>4, <3>5
    <3>7. d \in 0 .. j /\ 2 ^ (n + d) = l * 2 ^ n
      BY <3>4, <3>6
    <3> QED  BY <3>7
  <2> HIDE DEF T
  <2>3. \A d \in 0 .. j : d \in T
    BY <2>1, <2>2, UpTo
  <2>4. j \in T
    BY <2>3
  <2> QED  BY <2>4 DEF T
<1>2. \E m \in Nat \ {0} : 2 ^ k = m * 2 ^ i
  <2> k - i \in Nat /\ i + (k - i) = k
    OBVIOUS
  <2> QED  BY <1>1
<1>3. i < k => \E m \in Nat \ {0} : 2 ^ k = m * 2 ^ (i + 1)
  <2> SUFFICES ASSUME i < k PROVE \E m \in Nat \ {0} : 2 ^ k = m * 2 ^ (i + 1)
    OBVIOUS
  <2>1. PICK n \in Nat, j \in Nat : n = i + 1 /\ n + j = k
    <3> i + 1 \in Nat /\ k - (i + 1) \in Nat /\ (i + 1) + (k - (i + 1)) = k
      OBVIOUS
    <3> QED  OBVIOUS
  <2>2. \E m \in Nat \ {0} : 2 ^ (n + j) = m * 2 ^ n
    BY <1>1
  <2> QED  BY <2>1, <2>2
<1> QED  BY <1>2, <1>3

LEMMA PowersMultiply ==
  ASSUME NEW i \in Nat, NEW k \in Nat, i <= k
  PROVE  2 ^ k = 2 ^ (k - i) * 2 ^ i
<1> DEFINE T == {d \in 0 .. k - i : 2 ^ (i + d) = 2 ^ d * 2 ^ i}
<1>1. k - i \in Nat /\ i + (k - i) = k
  OBVIOUS
<1>2. 0 \in T
  <2> 2 ^ (i + 0) = 1 * 2 ^ i
    BY Power
  <2> QED  BY <1>1, Power
<1>3. ASSUME NEW d \in 1 .. k - i, d - 1 \in T PROVE d \in T
  <2>1. PICK e \in Nat : e = d - 1 /\ d = e + 1 /\ i + d = (i + e) + 1
    OBVIOUS
  <2>2. PICK x \in Nat, y \in Nat, z \in Nat : x = 2 ^ e /\ y = 2 ^ i /\ z = 2 ^ (i + e)
                                          /\ 2 ^ d = 2 * x /\ 2 ^ (i + d) = 2 * z
    BY <2>1, Power
  <2>3. z = x * y
    BY <1>3, <2>1, <2>2
  <2>4. 2 * (x * y) = (2 * x) * y
    OBVIOUS
  <2>5. d \in 0 .. k - i /\ 2 ^ (i + d) = 2 ^ d * 2 ^ i
    BY <2>2, <2>3, <2>4
  <2> QED  BY <2>5
<1> HIDE DEF T
<1>4. \A d \in 0 .. k - i : d \in T
  BY <1>1, <1>2, <1>3, UpTo
<1>5. PICK d \in 0 .. k - i : d = k - i /\ d \in T /\ i + d = k
  BY <1>1, <1>4
<1> QED  BY <1>5 DEF T

LEMMA MultipleGrows ==
  ASSUME NEW m \in Nat \ {0}, NEW p \in Nat
  PROVE  p <= m * p
<1>1. m - 1 \in Nat /\ m * p = (m - 1) * p + p
  OBVIOUS
<1>2. (m - 1) * p \in Nat
  OBVIOUS
<1> QED  BY <1>1, <1>2

LEMMA PowersGrow ==
  ASSUME NEW i \in Nat, NEW k \in Nat, i <= k
  PROVE  2 ^ i <= 2 ^ k /\ (i < k => 2 ^ (i + 1) <= 2 ^ k)
<1>1. PICK m \in Nat \ {0} : 2 ^ k = m * 2 ^ i
  BY PowerDivides
<1>2. 2 ^ i <= 2 ^ k
  BY <1>1, Power, MultipleGrows
<1>3. CASE i < k
  <2>1. PICK n \in Nat \ {0} : 2 ^ k = n * 2 ^ (i + 1)
    BY <1>3, PowerDivides
  <2>2. 2 ^ (i + 1) \in Nat
    BY Power
  <2> QED  BY <1>2, <2>1, <2>2, MultipleGrows
<1> QED  BY <1>2, <1>3

LEMMA DivisionIs ==
  ASSUME NEW q \in Nat, NEW p \in Nat \ {0}, NEW r \in 0 .. p - 1
  PROVE  (q * p + r) \div p = q /\ (q * p + r) % p = r
  OBVIOUS

Aligned(at, k) == \E q \in Nat : at = q * 2 ^ k

LEMMA AlignedBelow ==
  ASSUME NEW k \in Nat, NEW j \in Nat, j <= k, NEW at, Aligned(at, k)
  PROVE  Aligned(at, j) /\ at \in Nat
<1>1. PICK q \in Nat, p \in Nat, r \in Nat, m \in Nat :
        at = q * p /\ p = 2 ^ k /\ r = 2 ^ j /\ p = m * r
  <2>1. PICK q \in Nat : at = q * 2 ^ k
    BY DEF Aligned
  <2>2. PICK m \in Nat : 2 ^ k = m * 2 ^ j
    BY PowerDivides
  <2>3. 2 ^ k \in Nat /\ 2 ^ j \in Nat
    BY Power
  <2> QED  BY <2>1, <2>2, <2>3
<1>2. at = (q * m) * r /\ q * m \in Nat /\ at \in Nat
  BY <1>1
<1> QED  BY <1>1, <1>2 DEF Aligned

(* Two multiples lie apart by the power at least.                          *)
LEMMA AlignedApart ==
  ASSUME NEW k \in Nat, NEW a, NEW b, Aligned(a, k), Aligned(b, k), a < b
  PROVE  a + 2 ^ k <= b
<1>1. PICK q \in Nat, s \in Nat, p \in Nat \ {0} : a = q * p /\ b = s * p /\ p = 2 ^ k
  <2>1. PICK q \in Nat : a = q * 2 ^ k
    BY DEF Aligned
  <2>2. PICK s \in Nat : b = s * 2 ^ k
    BY DEF Aligned
  <2> QED  BY <2>1, <2>2, Power
<1>2. q < s
  <2> SUFFICES ASSUME s <= q PROVE FALSE
    BY <1>1
  <2>1. q * p = s * p + (q - s) * p /\ (q - s) * p \in Nat /\ s * p \in Nat
    <3> q - s \in Nat
      OBVIOUS
    <3> QED  BY <1>1
  <2> QED  BY <1>1, <2>1
<1>3. s * p = q * p + (s - q) * p /\ s - q \in Nat \ {0} /\ q * p \in Nat
  BY <1>1, <1>2
<1>4. p <= (s - q) * p
  BY <1>3, MultipleGrows
<1>5. PICK z \in Nat : z = (s - q) * p
  BY <1>3
<1> QED  BY <1>1, <1>3, <1>4, <1>5

\* The next multiple, and one that is a multiple of a greater power.
LEMMA AlignedNext ==
  ASSUME NEW k \in Nat, NEW at, Aligned(at, k)
  PROVE  Aligned(at + 2 ^ k, k)
<1>1. PICK q \in Nat : at = q * 2 ^ k
  BY DEF Aligned
<1>2. 2 ^ k \in Nat
  BY Power
<1>3. at + 2 ^ k = (q + 1) * 2 ^ k
  BY <1>1, <1>2
<1> QED  BY <1>3 DEF Aligned

LEMMA AlignedZero ==
  ASSUME NEW k \in Nat
  PROVE  Aligned(0, k)
<1>1. 0 = 0 * 2 ^ k
  BY Power
<1> QED  BY <1>1 DEF Aligned

LEMMA AlignedPower ==
  ASSUME NEW k \in Nat, NEW j \in Nat, j <= k
  PROVE  Aligned(2 ^ k, j)
  BY PowerDivides DEF Aligned

(* A block that begins in the range ends in it.                            *)
LEMMA AlignedInside ==
  ASSUME NEW k \in Nat, NEW m \in Nat, k <= m, NEW at, Aligned(at, k), at < 2 ^ m
  PROVE  at + 2 ^ k <= 2 ^ m
  BY AlignedApart, AlignedPower

LEMMA EvenIs ==
  ASSUME NEW k \in Nat, NEW at, Aligned(at, k + 1)
  PROVE  (at \div 2 ^ k) % 2 = 0
<1>1. PICK q \in Nat, p \in Nat \ {0} : at = q * (2 * p) /\ p = 2 ^ k
  <2>1. PICK q \in Nat : at = q * 2 ^ (k + 1)
    BY DEF Aligned
  <2> QED  BY <2>1, Power
<1>2. at = (2 * q) * p + 0 /\ 0 \in 0 .. p - 1 /\ 2 * q \in Nat
  BY <1>1
<1>3. at \div p = 2 * q
  BY <1>2, DivisionIs
<1> QED  BY <1>1, <1>3

\* The buddy of one on the left is on the right.
LEMMA OddNext ==
  ASSUME NEW k \in Nat, NEW at, Aligned(at, k), (at \div 2 ^ k) % 2 = 0
  PROVE  ((at + 2 ^ k) \div 2 ^ k) % 2 # 0
<1>1. PICK q \in Nat, p \in Nat \ {0} : at = q * p /\ p = 2 ^ k
  <2>1. PICK q \in Nat : at = q * 2 ^ k
    BY DEF Aligned
  <2> QED  BY <2>1, Power
<1>2. at = q * p + 0 /\ 0 \in 0 .. p - 1 /\ at + p = (q + 1) * p + 0 /\ q + 1 \in Nat
  BY <1>1
<1>3. at \div p = q
  BY <1>2, DivisionIs
<1>4. (at + p) \div p = q + 1
  <2>1. PICK n \in Nat, b \in Nat : n = q + 1 /\ b = at + p /\ b = n * p + 0 /\ 0 \in 0 .. p - 1
    BY <1>2
  <2> QED  BY <2>1, DivisionIs
<1> QED  BY <1>1, <1>3, <1>4

(* Where the buddy is, and what the two make up.                           *)
LEMMA BuddyIs ==
  ASSUME NEW k \in Nat, NEW at, Aligned(at, k),
         NEW buddy, buddy = BuddyOffset(at, k)
  PROVE  /\ buddy \in Nat /\ Aligned(buddy, k)
         /\ \/ buddy = at + 2 ^ k /\ Aligned(at, k + 1) /\ (at \div 2 ^ k) % 2 = 0
            \/ buddy = at - 2 ^ k /\ Aligned(buddy, k + 1) /\ (at \div 2 ^ k) % 2 # 0
<1>1. PICK q \in Nat, p \in Nat \ {0} : at = q * p /\ p = 2 ^ k /\ 2 ^ (k + 1) = 2 * p
  <2>1. PICK q \in Nat : at = q * 2 ^ k
    BY DEF Aligned
  <2> QED  BY <2>1, Power
<1>2. at \div p = q
  <2>1. at = q * p + 0 /\ 0 \in 0 .. p - 1
    BY <1>1
  <2> QED  BY <2>1, DivisionIs
<1>3. CASE q % 2 = 0
  <2>1. PICK h \in Nat : q = 2 * h
    BY <1>3
  <2>2. at = h * (2 * p) /\ at \in Nat
    BY <1>1, <2>1
  <2>3. Aligned(at, k + 1)
    BY <1>1, <2>2 DEF Aligned
  <2>4. buddy = at + p
    BY <1>1, <1>2, <1>3 DEF BuddyOffset
  <2>5. Aligned(buddy, k)
    BY <1>1, <2>4, AlignedNext
  <2> QED  BY <1>1, <1>2, <1>3, <2>2, <2>3, <2>4, <2>5
<1>4. CASE q % 2 # 0
  <2>1. PICK h \in Nat : q = 2 * h + 1
    BY <1>4
  <2>2. at = h * (2 * p) + p
    BY <1>1, <2>1
  <2>3. buddy = at - p
    BY <1>1, <1>2, <1>4 DEF BuddyOffset
  <2>4. buddy = h * (2 * p) /\ h * (2 * p) \in Nat
    <3> h * (2 * p) \in Nat
      OBVIOUS
    <3> QED  BY <2>2, <2>3
  <2>5. Aligned(buddy, k + 1)
    BY <1>1, <2>4 DEF Aligned
  <2>6. Aligned(buddy, k)
    BY <2>5, AlignedBelow
  <2> QED  BY <1>1, <1>2, <1>4, <2>3, <2>4, <2>5, <2>6
<1> QED  BY <1>3, <1>4

-----------------------------------------------------------------------------
(* Suballocator: what its operators choose                                 *)

LEMMA MinIs ==
  ASSUME NEW T \in SUBSET Nat, T # {}
  PROVE  Min(T) \in T /\ \A y \in T : Min(T) <= y
  BY LeastNumber DEF Min

(* A block for what needs no buffer of its own is no larger than a bucket. *)
LEMMA OrderFits ==
  ASSUME NEW size \in ByteSizes, NEW own \in BOOLEAN, ~ResourceNeedsOwnAllocation(size, own)
  PROVE  OrderOf(size) \in 0 .. BucketOrder
<1>1. PICK m \in Nat \ {0}, p \in Nat \ {0}, z \in Nat \ {0} :
        m = MinBlockSize /\ p = 2 ^ BucketOrder /\ z = size
  BY SuballocatorAssumption, Power
<1>2. z <= p * m
  BY <1>1 DEF ResourceNeedsOwnAllocation
<1>3. (z + m - 1) \div m <= p
  <2>1. PICK d \in Nat, r \in 0 .. m - 1 : d = (z + m - 1) \div m /\ z + m - 1 = d * m + r
    <3> z + m - 1 \in Nat
      OBVIOUS
    <3> QED  OBVIOUS
  <2>2. SUFFICES ASSUME d >= p + 1 PROVE FALSE
    BY <1>1, <2>1
  <2>3. d * m = (d - p) * m + p * m /\ d - p \in Nat \ {0}
    BY <2>2
  <2>4. m <= (d - p) * m
    BY <2>3, MultipleGrows
  <2>5. PICK e \in Nat, f \in Nat : e = (d - p) * m /\ f = p * m
    BY <2>3
  <2> QED  BY <1>2, <2>1, <2>3, <2>4, <2>5
<1> DEFINE T == {k \in Orders : 2 ^ k >= (size + MinBlockSize - 1) \div MinBlockSize}
<1>4. BucketOrder \in T /\ T \in SUBSET Nat
  BY <1>1, <1>3, SuballocatorAssumption DEF Orders
<1>5. OrderOf(size) = Min(T)
  BY DEF OrderOf
<1> HIDE DEF T
<1>6. Min(T) \in T /\ Min(T) <= BucketOrder
  BY <1>4, MinIs
<1>7. Min(T) \in Nat
  BY <1>4, <1>6
<1> QED  BY <1>5, <1>6, <1>7, SuballocatorAssumption

JoinedAs(f, at, order, last) ==
  f = [k \in order .. last |->
         IF k = order THEN at ELSE Min({f[k - 1], BuddyOffset(f[k - 1], k - 1)})]

LEMMA JoinedExists ==
  ASSUME NEW at, NEW order \in Nat, NEW n \in Nat
  PROVE  \E f : JoinedAs(f, at, order, order + n)
<1> DEFINE T == {m \in Nat : \E f : JoinedAs(f, at, order, order + m)}
<1>1. 0 \in T
  <2>1. JoinedAs([k \in order .. order |-> at], at, order, order)
    BY DEF JoinedAs
  <2> QED  BY <2>1
<1>2. ASSUME NEW m \in 1 .. n, m - 1 \in T PROVE m \in T
  <2> DEFINE Onward(g, k) == Min({g[k - 1], BuddyOffset(g[k - 1], k - 1)})
  <2>1. PICK f : JoinedAs(f, at, order, order + (m - 1))
    BY <1>2
  <2> DEFINE h == [k \in order .. order + m |-> IF k = order THEN at ELSE Onward(f, k)]
  <2>2. \A k \in order .. order + (m - 1) : f[k] = IF k = order THEN at ELSE Onward(f, k)
    BY <2>1 DEF JoinedAs
  <2>3. \A k \in order .. order + (m - 1) : h[k] = f[k]
    <3>1. \A k \in order .. order + m : h[k] = IF k = order THEN at ELSE Onward(f, k)
      OBVIOUS
    <3>2. order .. order + (m - 1) \subseteq order .. order + m
      OBVIOUS
    <3> HIDE DEF h, Onward
    <3> QED  BY <2>2, <3>1, <3>2
  <2>4. \A k \in order .. order + m : k # order => k - 1 \in order .. order + (m - 1)
    OBVIOUS
  <2>5. JoinedAs(h, at, order, order + m)
    <3>1. h = [k \in order .. order + m |-> IF k = order THEN at ELSE Onward(f, k)]
      BY DEF h
    <3> HIDE DEF h
    <3>2. \A k \in order .. order + m : (IF k = order THEN at ELSE Onward(f, k))
                                      = (IF k = order THEN at ELSE Onward(h, k))
      BY <2>3, <2>4
    <3> HIDE DEF Onward
    <3>3. h = [k \in order .. order + m |-> IF k = order THEN at ELSE Onward(h, k)]
      BY <3>1, <3>2
    <3> QED  BY <3>3 DEF JoinedAs, Onward
  <2> QED  BY <2>5
<1> HIDE DEF T
<1>3. n \in T
  BY <1>1, <1>2, UpTo
<1> QED  BY <1>3 DEF T

(* Joined is the function that its recursion describes.                    *)
LEMMA JoinedIs ==
  ASSUME NEW order \in Orders, NEW at
  PROVE  JoinedAs(Joined(at, order), at, order, MaxOrder)
<1>1. \E f : JoinedAs(f, at, order, MaxOrder)
  <2> order \in Nat /\ MaxOrder - order \in Nat /\ order + (MaxOrder - order) = MaxOrder
    BY SuballocatorAssumption DEF Orders
  <2>1. PICK n \in Nat : order + n = MaxOrder
    OBVIOUS
  <2> QED  BY <2>1, JoinedExists
<1>2. Joined(at, order) = CHOOSE f : f = [k \in order .. MaxOrder |->
         IF k = order THEN at ELSE Min({f[k - 1], BuddyOffset(f[k - 1], k - 1)})]
  BY DEF Joined
<1> QED  BY Zenon, <1>1, <1>2 DEF JoinedAs

(* Joining a block to its buddies, each time with the next power of two.   *)
JoinsOn(f, k) ==
  LET buddy == BuddyOffset(f[k], k) IN
  \/ buddy = f[k] + 2 ^ k /\ f[k + 1] = f[k]
  \/ buddy = f[k] - 2 ^ k /\ f[k + 1] = buddy

LEMMA JoinedSteps ==
  ASSUME NEW order \in Orders, NEW at, Aligned(at, order), NEW f, f = Joined(at, order)
  PROVE  /\ f[order] = at
         /\ \A k \in order .. MaxOrder : Aligned(f[k], k) /\ f[k] \in Nat /\ f[k] <= at
         /\ \A k \in order .. MaxOrder - 1 : JoinsOn(f, k)
<1>1. JoinedAs(f, at, order, MaxOrder)
  BY JoinedIs
<1>2. order \in Nat /\ MaxOrder \in Nat /\ order <= MaxOrder
  BY SuballocatorAssumption DEF Orders
<1>3. \A k \in order .. MaxOrder : f[k] =
        IF k = order THEN at ELSE Min({f[k - 1], BuddyOffset(f[k - 1], k - 1)})
  BY <1>1 DEF JoinedAs
<1>4. f[order] = at /\ at \in Nat
  <2>1. order \in order .. MaxOrder
    BY <1>2
  <2>2. at \in Nat
    BY <1>2, AlignedBelow
  <2> QED  BY <1>3, <2>1, <2>2
<1>5. \A k \in order .. MaxOrder - 1 : f[k + 1] = Min({f[k], BuddyOffset(f[k], k)})
  <2> TAKE k \in order .. MaxOrder - 1
  <2>1. k + 1 \in order .. MaxOrder /\ k + 1 # order /\ (k + 1) - 1 = k
    BY <1>2
  <2> QED  BY <1>3, <2>1
<1>6. ASSUME NEW k \in order .. MaxOrder - 1, Aligned(f[k], k), f[k] \in Nat, f[k] <= at
      PROVE  JoinsOn(f, k) /\ Aligned(f[k + 1], k + 1) /\ f[k + 1] \in Nat /\ f[k + 1] <= at
  <2>0. PICK b : b = BuddyOffset(f[k], k)
    OBVIOUS
  <2>1. PICK p \in Nat \ {0}, g \in Nat : p = 2 ^ k /\ g = f[k] /\ k \in Nat
    <3> k \in Nat
      BY <1>2
    <3> QED  BY <1>6, Power
  <2>2. /\ b \in Nat
        /\ (b = g + p /\ Aligned(g, k + 1)) \/ (b = g - p /\ Aligned(b, k + 1))
    BY <1>6, <2>0, <2>1, BuddyIs
  <2>3. PICK n : n = Min({g, b}) /\ n \in {g, b} /\ n <= g /\ n <= b
    <3> {g, b} \in SUBSET Nat /\ {g, b} # {}
      BY <2>2
    <3> QED  BY MinIs
  <2>4. f[k + 1] = n
    BY <1>5, <2>0, <2>1, <2>3
  <2>5. CASE b = g + p /\ Aligned(g, k + 1)
    <3> n = g
      BY <2>2, <2>3, <2>5
    <3> QED  BY <1>6, <2>0, <2>1, <2>4, <2>5 DEF JoinsOn
  <2>6. CASE b = g - p /\ Aligned(b, k + 1)
    <3>1. f[k + 1] = b /\ b \in Nat /\ b <= g
      BY <2>2, <2>3, <2>4, <2>6
    <3>2. JoinsOn(f, k)
      BY <2>0, <2>1, <2>6, <3>1 DEF JoinsOn
    <3>3. b <= at
      BY <1>4, <1>6, <2>1, <3>1
    <3> QED  BY <2>6, <3>1, <3>2, <3>3
  <2> QED  BY <2>2, <2>5, <2>6
<1> DEFINE T == {d \in 0 .. MaxOrder - order :
                   Aligned(f[order + d], order + d) /\ f[order + d] \in Nat /\ f[order + d] <= at}
<1>7. 0 \in T
  BY <1>2, <1>4
<1>8. ASSUME NEW d \in 1 .. MaxOrder - order, d - 1 \in T PROVE d \in T
  <2>1. PICK k \in order .. MaxOrder - 1 : k = order + (d - 1) /\ k + 1 = order + d
    BY <1>2
  <2>2. Aligned(f[k], k) /\ f[k] \in Nat /\ f[k] <= at
    BY <1>8, <2>1
  <2>3. Aligned(f[k + 1], k + 1) /\ f[k + 1] \in Nat /\ f[k + 1] <= at
    BY <1>6, <2>2
  <2> QED  BY <2>1, <2>3
<1> HIDE DEF T
<1>9. \A d \in 0 .. MaxOrder - order : d \in T
  BY <1>2, <1>7, <1>8, UpTo
<1>10. ASSUME NEW k \in order .. MaxOrder
       PROVE  Aligned(f[k], k) /\ f[k] \in Nat /\ f[k] <= at
  <2>1. PICK d \in 0 .. MaxOrder - order : order + d = k
    <3> k - order \in 0 .. MaxOrder - order /\ order + (k - order) = k
      BY <1>2
    <3> QED  OBVIOUS
  <2>2. d \in T
    BY <1>9
  <2> QED  BY <2>1, <2>2 DEF T
<1>11. \A k \in order .. MaxOrder - 1 : k \in order .. MaxOrder
  BY <1>2
<1> QED  BY <1>4, <1>6, <1>10, <1>11

(* What is joined is the block and its buddies.                            *)
LEMMA JoinedUnits ==
  ASSUME NEW order \in Orders, NEW at, Aligned(at, order), NEW f, f = Joined(at, order),
         NEW last \in order .. MaxOrder, NEW u
  PROVE  u \in Units(f[last], last) <=>
           \/ u \in Units(at, order)
           \/ \E k \in order .. last - 1 : u \in Units(BuddyOffset(f[k], k), k)
<1>1. order \in Nat /\ MaxOrder \in Nat /\ order <= MaxOrder
  BY SuballocatorAssumption DEF Orders
<1>2. /\ f[order] = at
      /\ \A k \in order .. MaxOrder : Aligned(f[k], k) /\ f[k] \in Nat
      /\ \A k \in order .. MaxOrder - 1 : JoinsOn(f, k)
  BY JoinedSteps
<1> DEFINE Among(l) == \/ u \in Units(at, order)
                       \/ \E k \in order .. l - 1 : u \in Units(BuddyOffset(f[k], k), k)
           T == {d \in 0 .. last - order : u \in Units(f[order + d], order + d) <=> Among(order + d)}
<1>3. 0 \in T
  <2> order + 0 = order /\ order .. order - 1 = {}
    BY <1>1
  <2> QED  BY <1>1, <1>2
<1>4. ASSUME NEW k \in order .. MaxOrder - 1
      PROVE  u \in Units(f[k + 1], k + 1) <=>
               u \in Units(f[k], k) \/ u \in Units(BuddyOffset(f[k], k), k)
  <2>0. PICK b, n : b = BuddyOffset(f[k], k) /\ n = f[k + 1]
    OBVIOUS
  <2>1. PICK p \in Nat \ {0}, g \in Nat : p = 2 ^ k /\ 2 ^ (k + 1) = 2 * p /\ g = f[k]
    <3> k \in Nat /\ k \in order .. MaxOrder
      BY <1>1
    <3> QED  BY <1>2, Power
  <2>2. (b = g + p /\ n = g) \/ (b = g - p /\ n = b)
    BY <1>2, <2>0, <2>1 DEF JoinsOn
  <2>3. u \in n .. n + 2 * p - 1 <=> u \in g .. g + p - 1 \/ u \in b .. b + p - 1
    BY <2>2
  <2> QED  BY <2>0, <2>1, <2>3 DEF Units
<1>5. ASSUME NEW d \in 1 .. last - order, d - 1 \in T PROVE d \in T
  <2>1. PICK k \in order .. MaxOrder - 1 : k = order + (d - 1) /\ k + 1 = order + d
    BY <1>1
  <2>2. u \in Units(f[k], k) <=> Among(k)
    BY <1>5, <2>1
  <2>3. Among(k + 1) <=> Among(k) \/ u \in Units(BuddyOffset(f[k], k), k)
    <3>1. order .. (k + 1) - 1 = (order .. k - 1) \cup {k}
      BY <1>1
    <3> HIDE DEF T
    <3> QED  BY <3>1
  <2>4. u \in Units(f[k + 1], k + 1) <=> Among(k + 1)
    BY <1>4, <2>2, <2>3
  <2> HIDE DEF Among
  <2> QED  BY <2>1, <2>4
<1> HIDE DEF T
<1>6. \A d \in 0 .. last - order : d \in T
  BY <1>1, <1>3, <1>5, UpTo
<1>7. PICK d \in 0 .. last - order : order + d = last
  <2> last - order \in 0 .. last - order /\ order + (last - order) = last
    BY <1>1
  <2> QED  OBVIOUS
<1>8. d \in T
  BY <1>6
<1> QED  BY <1>7, <1>8 DEF T

-----------------------------------------------------------------------------
(* Suballocator: a range that is divided into blocks                       *)

Of(x) == Units(x.at, x.order)
Covers(S) == \A u \in Units(0, MaxOrder) : \E x \in S : u \in Of(x)
Apart(S) == \A x, y \in S : \A u : u \in Of(x) /\ u \in Of(y) => x = y

FreeIn(free) == UNION {{Block(at, k) : at \in free[k]} : k \in Orders}

GoodBlock(x) ==
  /\ x = Block(x.at, x.order) /\ x.order \in Orders
  /\ Aligned(x.at, x.order) /\ x.at < 2 ^ MaxOrder

NoBuddies(free) ==
  \A k \in 0 .. MaxOrder - 1 : \A at \in free[k] :
    (at \div 2 ^ k) % 2 = 0 => at + 2 ^ k \notin free[k]

Divided(free, used) ==
  /\ free \in [Orders -> SUBSET Nat]
  /\ \A x \in FreeIn(free) \cup used : GoodBlock(x)
  /\ FreeIn(free) \cap used = {}
  /\ Covers(FreeIn(free) \cup used) /\ Apart(FreeIn(free) \cup used)
  /\ NoBuddies(free)

LEMMA FreeIs ==
  ASSUME NEW free, NEW x
  PROVE  x \in FreeIn(free) <=> \E k \in Orders : \E at \in free[k] : x = Block(at, k)
  BY DEF FreeIn

LEMMA BlockIs ==
  ASSUME NEW at, NEW k
  PROVE  /\ Block(at, k).at = at /\ Block(at, k).order = k /\ ~IsDirectAllocation(Block(at, k))
         /\ \A b, j : Block(at, k) = Block(b, j) <=> at = b /\ k = j
         /\ Of(Block(at, k)) = Units(at, k)
<1>1. \A b, j : Block(b, j).at = b /\ Block(b, j).order = j
  BY DEF Block
<1>2. Of(Block(at, k)) = Units(at, k)
  BY <1>1 DEF Of
<1>3. ~IsDirectAllocation(Block(at, k))
  BY DEF Block, IsDirectAllocation
<1> QED  BY <1>1, <1>2, <1>3

(* A block has its first unit.                                             *)
LEMMA FirstUnit ==
  ASSUME NEW at \in Nat, NEW k \in Nat
  PROVE  at \in Units(at, k)
  BY Power DEF Units

(* Blocks are exchanged for others of the same units.                      *)
LEMMA Exchanged ==
  ASSUME NEW S, NEW R, NEW A, R \subseteq S, Covers(S), Apart(S), Apart(A),
         \A u : (\E x \in R : u \in Of(x)) <=> (\E x \in A : u \in Of(x))
  PROVE  Covers((S \ R) \cup A) /\ Apart((S \ R) \cup A)
<1>1. Covers((S \ R) \cup A)
  <2> SUFFICES ASSUME NEW u \in Units(0, MaxOrder)
               PROVE  \E x \in (S \ R) \cup A : u \in Of(x)
    BY DEF Covers
  <2>1. PICK x \in S : u \in Of(x)
    BY DEF Covers
  <2> QED  BY <2>1
<1>2. Apart((S \ R) \cup A)
  <2> SUFFICES ASSUME NEW x \in (S \ R) \cup A, NEW y \in (S \ R) \cup A, NEW u,
                      u \in Of(x), u \in Of(y)
               PROVE  x = y
    BY DEF Apart
  <2>1. CASE x \in S \ R /\ y \in S \ R
    BY <2>1 DEF Apart
  <2>2. CASE x \in A /\ y \in A
    BY <2>2 DEF Apart
  <2>3. CASE x \in S \ R /\ y \in A
    <3>1. PICK z \in R : u \in Of(z)
      BY <2>3
    <3> QED  BY <2>3, <3>1 DEF Apart
  <2>4. CASE x \in A /\ y \in S \ R
    <3>1. PICK z \in R : u \in Of(z)
      BY <2>4
    <3> QED  BY <2>4, <3>1 DEF Apart
  <2> QED  BY <2>1, <2>2, <2>3, <2>4
<1> QED  BY <1>1, <1>2

(* A block is its left part and all the right halves that were cut off.    *)
LEMMA SplitUnits ==
  ASSUME NEW order \in Nat, NEW from \in Nat, order <= from, NEW at \in Nat, NEW u
  PROVE  u \in Units(at, from) <=>
           u \in Units(at, order) \/ \E k \in order .. from - 1 : u \in Units(at + 2 ^ k, k)
<1> DEFINE Among(l) == u \in Units(at, order) \/ \E k \in order .. l - 1 : u \in Units(at + 2 ^ k, k)
           T == {d \in 0 .. from - order : u \in Units(at, order + d) <=> Among(order + d)}
<1>1. 0 \in T
  <2> order + 0 = order /\ order .. order - 1 = {}
    OBVIOUS
  <2> QED  OBVIOUS
<1>2. ASSUME NEW d \in 1 .. from - order, d - 1 \in T PROVE d \in T
  <2>1. PICK k \in Nat : k = order + (d - 1) /\ k + 1 = order + d
    OBVIOUS
  <2>2. u \in Units(at, k) <=> Among(k)
    BY <1>2, <2>1
  <2>3. Among(k + 1) <=> Among(k) \/ u \in Units(at + 2 ^ k, k)
    <3>1. order .. (k + 1) - 1 = (order .. k - 1) \cup {k}
      BY <2>1
    <3> HIDE DEF T
    <3> QED  BY <3>1
  <2>4. u \in Units(at, k + 1) <=> u \in Units(at, k) \/ u \in Units(at + 2 ^ k, k)
    <3>1. PICK p \in Nat \ {0} : p = 2 ^ k /\ 2 ^ (k + 1) = 2 * p
      BY Power
    <3>2. u \in at .. at + 2 * p - 1 <=> u \in at .. at + p - 1 \/ u \in at + p .. at + p + p - 1
      OBVIOUS
    <3> QED  BY <3>1, <3>2 DEF Units
  <2>5. u \in Units(at, k + 1) <=> Among(k + 1)
    BY <2>2, <2>3, <2>4
  <2> HIDE DEF Among
  <2> QED  BY <2>1, <2>5
<1> HIDE DEF T
<1>3. \A d \in 0 .. from - order : d \in T
  <2> from - order \in Nat
    OBVIOUS
  <2> QED  BY <1>1, <1>2, UpTo
<1>4. PICK d \in 0 .. from - order : order + d = from
  <2> from - order \in 0 .. from - order /\ order + (from - order) = from
    OBVIOUS
  <2> QED  OBVIOUS
<1>5. d \in T
  BY <1>3
<1> QED  BY <1>4, <1>5 DEF T

(* The halves that were cut off have no unit in common.                    *)
LEMMA HalvesApart ==
  ASSUME NEW order \in Nat, NEW from \in Nat, order <= from, NEW at \in Nat
  PROVE  Apart({Block(at, order)} \cup {Block(at + 2 ^ k, k) : k \in order .. from - 1})
<1> DEFINE A == {Block(at, order)} \cup {Block(at + 2 ^ k, k) : k \in order .. from - 1}
<1>1. ASSUME NEW j \in order .. from - 1, NEW u, u \in Units(at, order)
      PROVE  u \notin Units(at + 2 ^ j, j)
  <2>1. PICK p \in Nat, q \in Nat : p = 2 ^ order /\ q = 2 ^ j /\ p <= q
    BY Power, PowersGrow
  <2> QED  BY <1>1, <2>1 DEF Units
<1>2. ASSUME NEW j \in order .. from - 1, NEW k \in order .. from - 1, j < k, NEW u,
             u \in Units(at + 2 ^ j, j)
      PROVE  u \notin Units(at + 2 ^ k, k)
  <2>1. PICK p \in Nat, q \in Nat : p = 2 ^ j /\ q = 2 ^ k /\ 2 * p <= q
    BY <1>2, Power, PowersGrow
  <2> QED  BY <1>2, <2>1 DEF Units
<1>3. ASSUME NEW j \in order .. from - 1, NEW k \in order .. from - 1, NEW u,
             u \in Units(at + 2 ^ j, j), u \in Units(at + 2 ^ k, k)
      PROVE  j = k
  BY <1>2, <1>3
<1> SUFFICES ASSUME NEW x \in A, NEW y \in A, NEW u, u \in Of(x), u \in Of(y)
             PROVE  x = y
  BY DEF Apart
<1>4. CASE x = Block(at, order)
  <2>1. CASE y = Block(at, order)
    BY <1>4, <2>1
  <2>2. ASSUME NEW k \in order .. from - 1, y = Block(at + 2 ^ k, k) PROVE FALSE
    BY <1>1, <1>4, <2>2, BlockIs
  <2> QED  BY <2>1, <2>2
<1>5. ASSUME NEW j \in order .. from - 1, x = Block(at + 2 ^ j, j) PROVE x = y
  <2>1. CASE y = Block(at, order)
    BY <1>1, <1>5, <2>1, BlockIs
  <2>2. ASSUME NEW k \in order .. from - 1, y = Block(at + 2 ^ k, k) PROVE x = y
    <3> u \in Units(at + 2 ^ j, j) /\ u \in Units(at + 2 ^ k, k)
      BY <1>5, <2>2, BlockIs
    <3> QED  BY <1>3, <1>5, <2>2
  <2> QED  BY <2>1, <2>2
<1> QED  BY <1>4, <1>5

(* A block is taken: the range is still divided, and it is in use now.     *)
LEMMA AllocateDivides ==
  ASSUME NEW used, Divided(freeBlocks, used), NEW order \in Orders, Roomy(order) # {},
         NEW at, at = FirstFree(order)
  PROVE  /\ Divided(AllocateBlock(order), used \cup {Block(at, order)})
         /\ Block(at, order) \notin used
<1>1. PICK from : from = Min(Roomy(order))
  OBVIOUS
<1>2. order \in Nat /\ MaxOrder \in Nat /\ order <= MaxOrder /\ Orders = 0 .. MaxOrder
  BY SuballocatorAssumption DEF Orders
<1>3. from \in order .. MaxOrder /\ from \in Nat /\ order <= from /\ freeBlocks[from] # {}
  <2>1. Roomy(order) \in SUBSET Nat
    BY <1>2 DEF Roomy
  <2>2. from \in Roomy(order)
    BY <1>1, <2>1, MinIs
  <2> QED  BY <1>2, <2>2 DEF Roomy
<1>4. from \in Orders /\ freeBlocks[from] \in SUBSET Nat /\ \A k \in Orders : freeBlocks[k] \in SUBSET Nat
  BY <1>2, <1>3 DEF Divided
<1>5. at \in freeBlocks[from] /\ at \in Nat
  BY <1>1, <1>3, <1>4, MinIs DEF FirstFree
<1> DEFINE old == Block(at, from)
           new == Block(at, order)
           Halves == {Block(at + 2 ^ k, k) : k \in order .. from - 1}
           free == AllocateBlock(order)
           S == FreeIn(freeBlocks) \cup used
<1>6. old \in FreeIn(freeBlocks)
  BY <1>4, <1>5, FreeIs
<1>7. /\ free = [k \in Orders |->
           IF k = from THEN freeBlocks[k] \ {at}
           ELSE IF k \in order .. from - 1 THEN freeBlocks[k] \cup {at + 2 ^ k}
           ELSE freeBlocks[k]]
  BY <1>1 DEF AllocateBlock, FirstFree
<1> HIDE DEF free
<1>8. free \in [Orders -> SUBSET Nat]
  <2> \A k \in order .. from - 1 : at + 2 ^ k \in Nat
    BY <1>2, <1>3, <1>5, Power
  <2> QED  BY <1>4, <1>7
<1>9. FreeIn(free) = (FreeIn(freeBlocks) \ {old}) \cup Halves
  <2>1. ASSUME NEW x \in FreeIn(free) PROVE x \in (FreeIn(freeBlocks) \ {old}) \cup Halves
    <3>0. PICK k \in Orders : \E b \in free[k] : x = Block(b, k)
      BY FreeIs
    <3>1. PICK b \in free[k] : x = Block(b, k)
      BY <3>0
    <3>2. CASE k = from
      <4> b \in freeBlocks[k] /\ b # at
        BY <1>7, <3>1, <3>2
      <4> QED  BY <3>1, BlockIs, FreeIs
    <3>3. CASE k \in order .. from - 1 /\ b = at + 2 ^ k
      BY <3>1, <3>3
    <3>4. CASE k # from /\ b \in freeBlocks[k]
      BY <3>1, <3>4, BlockIs, FreeIs
    <3> QED  BY <1>7, <3>1, <3>2, <3>3, <3>4
  <2>2. ASSUME NEW x \in FreeIn(freeBlocks) \ {old} PROVE x \in FreeIn(free)
    <3>0. PICK k \in Orders : \E b \in freeBlocks[k] : x = Block(b, k)
      BY FreeIs
    <3>1. PICK b \in freeBlocks[k] : x = Block(b, k)
      BY <3>0
    <3>2. k = from => b # at
      BY <2>2, <3>1
    <3>3. b \in free[k]
      BY <1>7, <3>1, <3>2
    <3> QED  BY <3>1, <3>3, FreeIs
  <2>3. ASSUME NEW k \in order .. from - 1 PROVE Block(at + 2 ^ k, k) \in FreeIn(free)
    <3> k \in Orders /\ k # from
      BY <1>2, <1>3
    <3> at + 2 ^ k \in free[k]
      BY <1>7
    <3> QED  BY FreeIs
  <2> QED  BY <2>1, <2>2, <2>3
<1> DEFINE R == {old}
           A == {new} \cup Halves
<1>10. \A u : (\E x \in R : u \in Of(x)) <=> (\E x \in A : u \in Of(x))
  <2> TAKE u
  <2>1. u \in Units(at, from) <=>
          u \in Units(at, order) \/ \E k \in order .. from - 1 : u \in Units(at + 2 ^ k, k)
    BY <1>2, <1>3, <1>5, SplitUnits
  <2>2. (\E x \in A : u \in Of(x)) <=>
          u \in Of(new) \/ \E k \in order .. from - 1 : u \in Of(Block(at + 2 ^ k, k))
    OBVIOUS
  <2> QED  BY <2>1, <2>2, BlockIs
<1>11. Apart(A)
  BY <1>2, <1>3, <1>5, HalvesApart
<1>12. Covers((S \ R) \cup A) /\ Apart((S \ R) \cup A)
  <2> R \subseteq S /\ Covers(S) /\ Apart(S)
    BY <1>6 DEF Divided
  <2> HIDE DEF R, S, A
  <2> QED  BY <1>10, <1>11, Exchanged
<1>13. at \in Of(old) /\ at \in Of(new)
  BY <1>2, <1>3, <1>5, FirstUnit, BlockIs
<1>14. old \in S /\ old \notin used /\ Apart(S)
  BY <1>6 DEF Divided
<1>15. new \in S => new = old
  <2> HIDE DEF old, new, S
  <2> QED  BY <1>13, <1>14 DEF Apart
<1>16. \A x \in Halves : x \in S => x = old
  <2> TAKE x \in Halves
  <2>1. PICK k \in order .. from - 1 : x = Block(at + 2 ^ k, k)
    OBVIOUS
  <2>2. k \in Nat /\ at + 2 ^ k \in Nat
    BY <1>2, <1>5, Power
  <2>3. at + 2 ^ k \in Of(x) /\ at + 2 ^ k \in Units(at + 2 ^ k, k)
    BY <2>1, <2>2, FirstUnit, BlockIs
  <2>4. at + 2 ^ k \in Units(at, from)
    BY <1>2, <1>3, <1>5, <2>3, SplitUnits
  <2>5. at + 2 ^ k \in Of(old)
    BY <2>4, BlockIs
  <2> HIDE DEF old, S
  <2> QED  BY <1>14, <2>3, <2>5 DEF Apart
<1>17. new \notin used
  BY <1>14, <1>15
<1>18. FreeIn(free) \cup (used \cup {new}) = (S \ R) \cup A
  BY <1>9, <1>14
<1>19. FreeIn(free) \cap (used \cup {new}) = {}
  <2>1. new \notin FreeIn(freeBlocks) \ {old}
    BY <1>15
  <2>2. new \notin Halves
    <3> SUFFICES ASSUME NEW k \in order .. from - 1, new = Block(at + 2 ^ k, k) PROVE FALSE
      OBVIOUS
    <3>1. at = at + 2 ^ k
      BY BlockIs
    <3>2. 2 ^ k \in Nat \ {0}
      BY <1>2, Power
    <3> QED  BY <1>5, <3>1, <3>2
  <2>3. FreeIn(freeBlocks) \cap used = {}
    BY DEF Divided
  <2>4. \A x \in Halves : x \notin used
    BY <1>14, <1>16
  <2> HIDE DEF Halves, new, old
  <2> QED  BY <1>9, <2>1, <2>2, <2>3, <2>4
<1>20. \A x \in S : GoodBlock(x)
  BY DEF Divided
<1>21. Aligned(at, from) /\ at < 2 ^ MaxOrder
  BY <1>14, <1>20, BlockIs DEF GoodBlock
<1>22. GoodBlock(new)
  BY <1>2, <1>3, <1>21, AlignedBelow, BlockIs DEF GoodBlock
<1>23. ASSUME NEW k \in order .. from - 1
       PROVE  GoodBlock(Block(at + 2 ^ k, k)) /\ (at \div 2 ^ k) % 2 = 0 /\ k \in Nat
  <2>1. k \in Nat /\ k + 1 \in Nat /\ k <= from /\ k + 1 <= from /\ k \in Orders
    BY <1>2, <1>3
  <2>2. Aligned(at, k) /\ Aligned(at, k + 1)
    BY <1>3, <1>21, <2>1, AlignedBelow
  <2>3. Aligned(at + 2 ^ k, k)
    BY <2>1, <2>2, AlignedNext
  <2>4. at + 2 ^ (k + 1) <= 2 ^ MaxOrder
    BY <1>2, <1>3, <1>21, <2>1, <2>2, AlignedInside
  <2>5. at + 2 ^ k < 2 ^ MaxOrder
    <3> PICK p \in Nat \ {0}, m \in Nat : p = 2 ^ k /\ 2 ^ (k + 1) = 2 * p /\ m = 2 ^ MaxOrder
      BY <1>2, <2>1, Power
    <3> QED  BY <1>5, <2>4
  <2>6. (at \div 2 ^ k) % 2 = 0
    BY <2>1, <2>2, EvenIs
  <2> QED  BY <2>1, <2>3, <2>5, <2>6, BlockIs DEF GoodBlock
<1>24. \A x \in FreeIn(free) \cup (used \cup {new}) : GoodBlock(x)
  BY <1>18, <1>20, <1>22, <1>23
<1>25. NoBuddies(free)
  <2> SUFFICES ASSUME NEW k \in 0 .. MaxOrder - 1, NEW b \in free[k], (b \div 2 ^ k) % 2 = 0,
                      b + 2 ^ k \in free[k]
               PROVE  FALSE
    BY DEF NoBuddies
  <2>1. k \in Orders /\ k \in Nat
    BY <1>2
  <2>2. CASE b \in freeBlocks[k] /\ b + 2 ^ k \in freeBlocks[k]
    BY <2>2 DEF Divided, NoBuddies
  <2>3. CASE k \in order .. from - 1 /\ b = at + 2 ^ k
    <3>1. (at \div 2 ^ k) % 2 = 0 /\ Aligned(at, k)
      BY <1>3, <1>21, <1>23, <2>1, <2>3, AlignedBelow
    <3> QED  BY <2>1, <2>3, <3>1, OddNext
  <2>4. CASE k \in order .. from - 1 /\ b + 2 ^ k = at + 2 ^ k /\ b \in freeBlocks[k]
    <3>1. b = at
      <4> b \in Nat /\ 2 ^ k \in Nat
        BY <1>4, <2>1, <2>4, Power
      <4> QED  BY <1>5, <2>4
    <3>2. Block(at, k) \in S /\ at \in Of(Block(at, k))
      BY <1>5, <2>1, <2>4, <3>1, FreeIs, FirstUnit, BlockIs
    <3>3. Block(at, k) = old
      <4> HIDE DEF old, S
      <4> QED  BY <1>13, <1>14, <3>2 DEF Apart
    <3>4. k = from
      BY <3>3, BlockIs
    <3> QED  BY <1>3, <2>4, <3>4
  <2> QED  BY <1>7, <2>1, <2>2, <2>3, <2>4
<1>26. Covers(FreeIn(free) \cup (used \cup {new})) /\ Apart(FreeIn(free) \cup (used \cup {new}))
  <2> HIDE DEF S, R, A, new
  <2> QED  BY <1>12, <1>18
<1>27. Divided(free, used \cup {new})
  <2> HIDE DEF new
  <2> QED  BY <1>8, <1>19, <1>24, <1>25, <1>26 DEF Divided
<1> QED  BY <1>17, <1>27 DEF free

(* A block is given back: the range is still divided, without it.          *)
LEMMA DeallocateDivides ==
  ASSUME NEW free, NEW used, Divided(free, used), NEW at, NEW order \in Orders,
         Block(at, order) \in used
  PROVE  Divided(DeallocateBlock(free, at, order), used \ {Block(at, order)})
<1>1. PICK joined : joined = Joined(at, order)
  OBVIOUS
<1> DEFINE Buddy(k) == BuddyOffset(joined[k], k)
           T == {k \in order .. MaxOrder : Buddy(k) \notin free[k]}
           S == FreeIn(free) \cup used
           old == Block(at, order)
<1>2. order \in Nat /\ MaxOrder \in Nat /\ order <= MaxOrder /\ Orders = 0 .. MaxOrder
  BY SuballocatorAssumption DEF Orders
<1>3. \A x \in S : GoodBlock(x)
  BY DEF Divided
<1>4. old \in S /\ old \notin FreeIn(free) /\ Apart(S) /\ Covers(S)
  BY DEF Divided
<1>5. Aligned(at, order) /\ at < 2 ^ MaxOrder /\ at \in Nat
  <2> GoodBlock(old)
    BY <1>3, <1>4
  <2> QED  BY <1>2, BlockIs, AlignedBelow DEF GoodBlock
<1>6. /\ joined[order] = at
      /\ \A k \in order .. MaxOrder : Aligned(joined[k], k) /\ joined[k] \in Nat /\ joined[k] < 2 ^ MaxOrder
      /\ \A k \in order .. MaxOrder - 1 : JoinsOn(joined, k)
  <2>1. 2 ^ MaxOrder \in Nat
    BY <1>2, Power
  <2> QED  BY <1>1, <1>5, <2>1, JoinedSteps
<1>7. \A k \in order .. MaxOrder :
        /\ Buddy(k) \in Nat /\ Aligned(Buddy(k), k) /\ k \in Nat
        /\ \/ Buddy(k) = joined[k] + 2 ^ k /\ (joined[k] \div 2 ^ k) % 2 = 0
           \/ Buddy(k) = joined[k] - 2 ^ k /\ (joined[k] \div 2 ^ k) % 2 # 0
  <2> TAKE k \in order .. MaxOrder
  <2>1. PICK b : b = Buddy(k)
    OBVIOUS
  <2>2. k \in Nat /\ Aligned(joined[k], k)
    BY <1>2, <1>6
  <2>3. /\ b \in Nat /\ Aligned(b, k)
        /\ \/ b = joined[k] + 2 ^ k /\ (joined[k] \div 2 ^ k) % 2 = 0
           \/ b = joined[k] - 2 ^ k /\ (joined[k] \div 2 ^ k) % 2 # 0
    BY <2>1, <2>2, BuddyIs
  <2> QED  BY <2>1, <2>2, <2>3
<1>8. \A k \in Orders : free[k] \in SUBSET Nat /\ \A b \in free[k] : Block(b, k) \in FreeIn(free)
  BY FreeIs DEF Divided
<1>9. \A k \in Orders : \A b \in free[k] : Aligned(b, k) /\ b < 2 ^ MaxOrder
  BY <1>3, <1>8, BlockIs DEF GoodBlock
<1>10. MaxOrder \in T
  <2> SUFFICES ASSUME Buddy(MaxOrder) \in free[MaxOrder] PROVE FALSE
    BY <1>2
  <2>1. PICK p \in Nat \ {0} : p = 2 ^ MaxOrder
    BY <1>2, Power
  <2>2. PICK j \in Nat, b \in Nat : /\ j = joined[MaxOrder] /\ b = Buddy(MaxOrder)
                                   /\ j < p /\ b < p /\ (b = j + p \/ b = j - p)
    BY <1>2, <1>6, <1>7, <1>9, <2>1
  <2> QED  BY <2>2
<1>11. PICK last : last = Min(T)
  OBVIOUS
<1>12. last \in T /\ \A k \in T : last <= k
  <2> T \in SUBSET Nat
    BY <1>2
  <2> HIDE DEF T
  <2> QED  BY <1>10, <1>11, MinIs
<1>13. last \in order .. MaxOrder /\ last \in Nat /\ Buddy(last) \notin free[last]
  BY <1>2, <1>12
<1>14. \A k \in order .. last - 1 : Buddy(k) \in free[k] /\ k \in Orders /\ k \in Nat
                                   /\ k \in order .. MaxOrder /\ k # last
  <2> TAKE k \in order .. last - 1
  <2>1. k \in order .. MaxOrder /\ ~(last <= k) /\ k \in Orders
    BY <1>2, <1>13
  <2> QED  BY <1>2, <1>12, <2>1
<1> DEFINE whole == Block(joined[last], last)
           Buddies == {Block(Buddy(k), k) : k \in order .. last - 1}
           left == DeallocateBlock(free, at, order)
           R == {old} \cup Buddies
           A == {whole}
<1>15. left = [k \in Orders |->
         IF k \in order .. last - 1 THEN free[k] \ {Buddy(k)}
         ELSE IF k = last THEN free[k] \cup {joined[k]}
         ELSE free[k]]
  BY <1>1, <1>11 DEF DeallocateBlock
<1> HIDE DEF left, T
<1>16. last \in Orders /\ joined[last] \in Nat /\ Aligned(joined[last], last) /\ joined[last] < 2 ^ MaxOrder
  BY <1>2, <1>6, <1>13
<1>17. left \in [Orders -> SUBSET Nat]
  BY <1>8, <1>15, <1>16
<1>18. Buddies \subseteq FreeIn(free)
  BY <1>8, <1>14
<1>19. FreeIn(left) = (FreeIn(free) \ Buddies) \cup {whole}
  <2>1. ASSUME NEW x \in FreeIn(left) PROVE x \in (FreeIn(free) \ Buddies) \cup {whole}
    <3>1. PICK k \in Orders : \E b \in left[k] : x = Block(b, k)
      BY FreeIs
    <3>2. PICK b \in left[k] : x = Block(b, k)
      BY <3>1
    <3>3. CASE k = last /\ b = joined[k]
      BY <3>2, <3>3
    <3>4. CASE b \in free[k] /\ (k \in order .. last - 1 => b # Buddy(k))
      <4>1. x \in FreeIn(free)
        BY <1>8, <3>2, <3>4
      <4>2. ASSUME NEW j \in order .. last - 1, x = Block(Buddy(j), j) PROVE FALSE
        <5>0. PICK c : c = Buddy(j) /\ Block(b, k) = Block(c, j)
          BY <3>2, <4>2
        <5>1. k = j /\ b = Buddy(j)
          BY <5>0, BlockIs
        <5> QED  BY <3>4, <5>1
      <4> QED  BY <4>1, <4>2
    <3> QED  BY <1>14, <1>15, <3>2, <3>3, <3>4
  <2>2. ASSUME NEW x \in FreeIn(free) \ Buddies PROVE x \in FreeIn(left)
    <3>1. PICK k \in Orders : \E b \in free[k] : x = Block(b, k)
      BY FreeIs
    <3>2. PICK b \in free[k] : x = Block(b, k)
      BY <3>1
    <3>3. k \in order .. last - 1 => b # Buddy(k)
      BY <2>2, <3>2
    <3>4. b \in left[k]
      BY <1>15, <3>2, <3>3
    <3> QED  BY <3>2, <3>4, FreeIs
  <2>3. whole \in FreeIn(left)
    <3>1. last \notin order .. last - 1
      BY <1>13
    <3>2. joined[last] \in left[last]
      BY <1>15, <1>16, <3>1
    <3> QED  BY <1>16, <3>2, FreeIs
  <2> QED  BY <2>1, <2>2, <2>3
<1>20. \A u : (\E x \in R : u \in Of(x)) <=> (\E x \in A : u \in Of(x))
  <2> TAKE u
  <2>1. u \in Units(joined[last], last) <=>
          u \in Units(at, order) \/ \E k \in order .. last - 1 : u \in Units(Buddy(k), k)
    BY <1>1, <1>5, <1>13, JoinedUnits
  <2>2. (\E x \in R : u \in Of(x)) <=>
          u \in Of(old) \/ \E k \in order .. last - 1 : u \in Of(Block(Buddy(k), k))
    OBVIOUS
  <2>3. (\E x \in A : u \in Of(x)) <=> u \in Of(whole)
    OBVIOUS
  <2> QED  BY <2>1, <2>2, <2>3, BlockIs
<1>21. Covers((S \ R) \cup A) /\ Apart((S \ R) \cup A)
  <2>1. R \subseteq S
    BY <1>4, <1>18
  <2>2. Apart(A)
    BY DEF Apart
  <2> HIDE DEF R, S, A
  <2> QED  BY <1>4, <1>20, <2>1, <2>2, Exchanged
<1>22. \A x \in used \ {old} : x \notin Buddies /\ x \notin FreeIn(free)
  BY <1>18 DEF Divided
<1>23. FreeIn(left) \cup (used \ {old}) = (S \ R) \cup A
  <2> HIDE DEF old, whole, Buddies
  <2> QED  BY <1>4, <1>19, <1>22
<1>24. whole \notin used \ {old}
  <2> SUFFICES ASSUME whole \in used, whole # old PROVE FALSE
    OBVIOUS
  <2>1. at \in Of(old)
    BY <1>2, <1>5, FirstUnit, BlockIs
  <2>2. at \in Of(whole)
    <3>1. at \in Units(at, order)
      BY <1>2, <1>5, FirstUnit
    <3>2. at \in Units(joined[last], last)
      BY <1>1, <1>5, <1>13, <3>1, JoinedUnits
    <3> QED  BY <3>2, BlockIs
  <2>3. whole \in S
    OBVIOUS
  <2> HIDE DEF old, whole, S
  <2> QED  BY <1>4, <2>1, <2>2, <2>3 DEF Apart
<1>25. FreeIn(left) \cap (used \ {old}) = {}
  <2> HIDE DEF old, whole, Buddies
  <2> QED  BY <1>19, <1>22, <1>24
<1>26. GoodBlock(whole)
  BY <1>16, BlockIs DEF GoodBlock
<1>27. \A x \in FreeIn(left) \cup (used \ {old}) : GoodBlock(x)
  <2> HIDE DEF whole, R
  <2> QED  BY <1>3, <1>23, <1>26
<1>28. NoBuddies(left)
  <2> SUFFICES ASSUME NEW k \in 0 .. MaxOrder - 1, NEW b \in left[k], (b \div 2 ^ k) % 2 = 0,
                      b + 2 ^ k \in left[k]
               PROVE  FALSE
    BY DEF NoBuddies
  <2>1. k \in Orders /\ k \in Nat
    BY <1>2
  <2>2. PICK p \in Nat \ {0} : p = 2 ^ k
    BY <2>1, Power
  <2>3. CASE b \in free[k] /\ b + 2 ^ k \in free[k]
    BY <2>3 DEF Divided, NoBuddies
  <2>4. CASE k = last /\ b = joined[k]
    <3>1. Buddy(k) = b + 2 ^ k
      BY <1>7, <1>13, <2>4
    <3>2. b + 2 ^ k # b /\ b \in Nat
      BY <1>16, <2>2, <2>4
    <3>3. b + 2 ^ k \in free[k]
      BY <1>13, <1>15, <2>1, <2>4, <3>2
    <3> QED  BY <1>13, <2>4, <3>1, <3>3
  <2>5. CASE k = last /\ b + 2 ^ k = joined[k] /\ b \in free[k]
    <3>1. Aligned(b, k) /\ b \in Nat
      BY <1>8, <1>9, <2>1, <2>5
    <3>2. (joined[k] \div 2 ^ k) % 2 # 0
      BY <2>1, <2>5, <3>1, OddNext
    <3>3. Buddy(k) = joined[k] - 2 ^ k
      BY <1>7, <1>13, <2>5, <3>2
    <3>4. Buddy(k) = b
      BY <2>2, <2>5, <3>1, <3>3
    <3> QED  BY <1>13, <2>5, <3>4
  <2> QED  BY <1>15, <2>1, <2>3, <2>4, <2>5
<1>29. Covers(FreeIn(left) \cup (used \ {old})) /\ Apart(FreeIn(left) \cup (used \ {old}))
  <2> HIDE DEF S, R, A, old
  <2> QED  BY <1>21, <1>23
<1>30. Divided(left, used \ {old})
  <2> HIDE DEF old
  <2> QED  BY <1>17, <1>25, <1>27, <1>28, <1>29 DEF Divided
<1> QED  BY <1>30 DEF left

-----------------------------------------------------------------------------
(* Suballocator: blocks, buckets and buffers                               *)

HeldIn(k) == {x \in Shared : BucketFromOffset(x.at) = k}
Directs == {x \in InUse : IsDirectAllocation(x)}
Busy == {k \in Buckets : allocations[k].refcount > 0}
BufferOf(x) == IF IsDirectAllocation(x) THEN x.direct
               ELSE allocations[BucketFromOffset(x.at)].buffer

(* A block is in one place.                                                *)
PlaceInv ==
  /\ placing = [c \in Callers |-> placing[c]]
  /\ \A c, d \in Callers : placing[c] = placing[d] /\ placing[c] # NoBlock => c = d
  /\ \A c \in Callers, s \in placed : placing[c] # s.block
  /\ \A s, t \in placed : s.block = t.block => s = t
  /\ \A s \in placed : s.block # NoBlock

DivisionInv ==
  /\ Divided(freeBlocks, Shared)
  /\ \A x \in Shared : x.order <= BucketOrder

(* A bucket has a buffer of its own while there are blocks in it.          *)
BucketsInv ==
  /\ allocations \in [Buckets -> [refcount : Nat, buffer : HeapBuffers \cup {NoBuffer}]]
  /\ \A k \in Buckets : IsFiniteSet(HeldIn(k)) /\ allocations[k].refcount = Cardinality(HeldIn(k))
  /\ \A x \in Directs : x = DirectBlock(x.direct) /\ x.direct \in HeapBuffers
  /\ \A k \in Busy : allocations[k].buffer \in HeapBuffers
  /\ \A k, l \in Busy : allocations[k].buffer = allocations[l].buffer => k = l
  /\ \A k \in Busy, x \in Directs : allocations[k].buffer # x.direct
  /\ owned = {allocations[k].buffer : k \in Busy} \cup {x.direct : x \in Directs}
  /\ \A s \in placed : s.buffer = BufferOf(s.block)

SuballocatorInv == PlaceInv /\ DivisionInv /\ BucketsInv

(* A block is given to a caller, passed on, and given back.                *)
LEMMA BlockComes ==
  ASSUME PlaceInv, NEW c \in Callers, placing[c] = NoBlock, NEW x, x # NoBlock, x \notin InUse,
         placing' = [placing EXCEPT ![c] = x], placed' = placed
  PROVE  PlaceInv' /\ InUse' = InUse \cup {x}
<1>1. /\ placing = [d \in Callers |-> placing[d]]
      /\ placing' = [d \in Callers |-> IF d = c THEN x ELSE placing[d]]
  BY DEF PlaceInv
<1>2. \A d \in Callers : placing'[d] = IF d = c THEN x ELSE placing[d]
  BY <1>1
<1>3. \A d \in Callers : placing[d] # x
  BY DEF InUse
<1>4. \A s \in placed : s.block # x
  BY DEF InUse
<1>5. InUse' = InUse \cup {x}
  BY <1>2 DEF InUse
<1>6. PlaceInv'
  BY <1>1, <1>2, <1>3, <1>4 DEF PlaceInv
<1> QED  BY <1>5, <1>6

LEMMA BlockGoes ==
  ASSUME PlaceInv, NEW s \in placed, placed' = placed \ {s}, placing' = placing
  PROVE  PlaceInv' /\ InUse' = InUse \ {s.block}
<1>1. PlaceInv'
  BY DEF PlaceInv
<1>2. InUse' = InUse \ {s.block}
  BY DEF InUse, PlaceInv
<1> QED  BY <1>1, <1>2

LEMMA BlockPasses ==
  ASSUME PlaceInv, NEW c \in Callers, NEW buffer, placing[c] # NoBlock,
         placed' = placed \cup {[block |-> placing[c], buffer |-> buffer]},
         placing' = [placing EXCEPT ![c] = NoBlock]
  PROVE  PlaceInv' /\ InUse' = InUse
<1>0. PICK x : x = placing[c]
  OBVIOUS
<1> DEFINE s == [block |-> x, buffer |-> buffer]
<1>1. x = placing[c] /\ s.block = x
  BY <1>0
<1>2. /\ placing = [d \in Callers |-> placing[d]]
      /\ placing' = [d \in Callers |-> IF d = c THEN NoBlock ELSE placing[d]]
  BY DEF PlaceInv
<1>3. \A d \in Callers : placing'[d] = IF d = c THEN NoBlock ELSE placing[d]
  BY <1>2
<1>4. placed' = placed \cup {s}
  BY <1>1
<1> HIDE DEF s
<1>5. PlaceInv'
  BY <1>1, <1>2, <1>3, <1>4 DEF PlaceInv
<1>6. InUse' = InUse
  BY <1>1, <1>3, <1>4 DEF InUse
<1> QED  BY <1>5, <1>6

(* The bucket of a block.                                                  *)
LEMMA BucketIs ==
  ASSUME NEW at, NEW order \in 0 .. BucketOrder, Aligned(at, order), at < 2 ^ MaxOrder
  PROVE  /\ BucketFromOffset(at) \in Buckets
         /\ (at % 2 ^ BucketOrder) + 2 ^ order <= 2 ^ BucketOrder
<1>1. BucketOrder \in Nat /\ MaxOrder \in Nat /\ BucketOrder <= MaxOrder /\ order \in Nat /\ order <= BucketOrder
  BY SuballocatorAssumption
<1>2. PICK p \in Nat \ {0}, m \in Nat, n \in Nat \ {0} :
        p = 2 ^ BucketOrder /\ m = 2 ^ MaxOrder /\ n = 2 ^ (MaxOrder - BucketOrder)
  BY <1>1, Power
<1>3. m = n * p
  BY <1>1, <1>2, PowersMultiply
<1>4. at \in Nat
  BY <1>1, AlignedBelow
<1>5. PICK q \in Nat, r \in 0 .. p - 1 : at = q * p + r /\ at \div p = q /\ at % p = r
  <2>1. PICK q \in Nat, r \in 0 .. p - 1 : q = at \div p /\ r = at % p
    BY <1>4
  <2>2. at = q * p + r
    BY <1>4, <2>1
  <2> QED  BY <2>1, <2>2
<1>6. q < n
  <2> SUFFICES ASSUME n <= q PROVE FALSE
    OBVIOUS
  <2>1. q * p = (q - n) * p + n * p /\ (q - n) * p \in Nat
    <3> q - n \in Nat
      OBVIOUS
    <3> QED  OBVIOUS
  <2>2. PICK a \in Nat, b \in Nat : a = q * p /\ b = (q - n) * p
    BY <2>1
  <2> QED  BY <1>2, <1>3, <1>4, <1>5, <2>1, <2>2
<1>8. Aligned(r, order)
  <2>1. PICK o \in Nat \ {0}, z \in Nat, l \in Nat : o = 2 ^ order /\ at = z * o /\ p = l * o
    <3>1. PICK z \in Nat : at = z * 2 ^ order
      BY DEF Aligned
    <3>2. PICK l \in Nat : 2 ^ BucketOrder = l * 2 ^ order
      BY <1>1, PowerDivides
    <3> QED  BY <1>1, <1>2, <3>1, <3>2, Power
  <2>2. q * (l * o) = (q * l) * o /\ q * l \in Nat
    OBVIOUS
  <2>3. r = z * o - (q * l) * o
    <3> q * p \in Nat
      OBVIOUS
    <3> QED  BY <1>5, <2>1, <2>2
  <2>4. q * l <= z
    <3> SUFFICES ASSUME z < q * l PROVE FALSE
      BY <2>2
    <3>1. PICK d \in Nat \ {0} : q * l = z + d
      <4> q * l - z \in Nat \ {0} /\ q * l = z + (q * l - z)
        BY <2>2
      <4> QED  OBVIOUS
    <3>2. (z + d) * o = z * o + d * o /\ z * o \in Nat /\ d * o \in Nat
      OBVIOUS
    <3>3. o <= d * o
      BY MultipleGrows
    <3>4. PICK a \in Nat, b \in Nat : a = z * o /\ b = d * o
      BY <3>2
    <3> QED  BY <1>5, <2>3, <3>1, <3>2, <3>3, <3>4
  <2>5. PICK e \in Nat : z = q * l + e
    <3> z - q * l \in Nat /\ z = q * l + (z - q * l)
      BY <2>2, <2>4
    <3> QED  OBVIOUS
  <2>6. PICK w \in Nat : w = q * l
    BY <2>2
  <2>7. (w + e) * o = w * o + e * o /\ w * o \in Nat /\ e * o \in Nat
    OBVIOUS
  <2>8. r = e * o
    BY <2>3, <2>5, <2>6, <2>7
  <2> QED  BY <2>1, <2>8 DEF Aligned
<1>9. r + 2 ^ order <= p
  BY <1>1, <1>2, <1>5, <1>8, AlignedInside
<1>10. BucketFromOffset(at) = q /\ Buckets = 0 .. n - 1
  BY <1>2, <1>5 DEF BucketFromOffset, Buckets
<1>11. (at % 2 ^ BucketOrder) + 2 ^ order <= 2 ^ BucketOrder
  BY <1>2, <1>5, <1>9
<1> QED  BY <1>6, <1>10, <1>11

LEMMA NoBlockIs ==
  /\ \A b \in HeapBuffers : IsDirectAllocation(DirectBlock(b)) /\ DirectBlock(b) # NoBlock
                           /\ DirectBlock(b).direct = b
  /\ \A at \in Nat : \A k : Block(at, k) # NoBlock
<1>1. \A b \in HeapBuffers : b # NoBuffer
  BY SuballocatorAssumption
<1>2. \A b \in HeapBuffers : DirectBlock(b).direct = b
  BY DEF DirectBlock
<1>3. \A b \in HeapBuffers : IsDirectAllocation(DirectBlock(b))
  BY <1>1, <1>2 DEF IsDirectAllocation
<1>4. NoBlock.direct = NoBuffer /\ NoBlock.at = -1
  BY DEF NoBlock
<1>5. \A b \in HeapBuffers : DirectBlock(b) # NoBlock
  BY <1>1, <1>2, <1>4
<1>6. \A at \in Nat : \A k : Block(at, k) # NoBlock
  <2> \A at, k : Block(at, k).at = at
    BY DEF Block
  <2> QED  BY <1>4
<1> QED  BY <1>2, <1>3, <1>5, <1>6

(* Where there are blocks there is a buffer.                               *)
LEMMA SharedIs ==
  ASSUME SuballocatorInv, NEW x \in Shared
  PROVE  /\ BucketFromOffset(x.at) \in Busy /\ x = Block(x.at, x.order) /\ x.order \in 0 .. BucketOrder
         /\ (x.at % 2 ^ BucketOrder) + 2 ^ x.order <= 2 ^ BucketOrder
<1>1. GoodBlock(x)
  BY DEF SuballocatorInv, DivisionInv, Divided
<1>2. x.order \in 0 .. BucketOrder
  BY <1>1, SuballocatorAssumption DEF GoodBlock, Orders, SuballocatorInv, DivisionInv
<1>3. BucketFromOffset(x.at) \in Buckets /\ (x.at % 2 ^ BucketOrder) + 2 ^ x.order <= 2 ^ BucketOrder
  BY <1>1, <1>2, BucketIs DEF GoodBlock
<1>4. PICK k \in Buckets : k = BucketFromOffset(x.at)
  BY <1>3
<1>5. x \in HeldIn(k)
  BY <1>4 DEF HeldIn
<1>6. Cardinality(HeldIn(k)) # 0 /\ Cardinality(HeldIn(k)) \in Nat
  BY <1>5, FS_EmptySet, FS_CardinalityType DEF SuballocatorInv, BucketsInv
<1>7. allocations[k].refcount > 0
  BY <1>6 DEF SuballocatorInv, BucketsInv
<1> QED  BY <1>1, <1>2, <1>3, <1>4, <1>7 DEF Busy, GoodBlock

(* In the beginning one block is the range.                                *)
LEMMA SuballocatorStarts ==
  ASSUME SuballocatorInit
  PROVE  SuballocatorInv
<1>1. InUse = {} /\ Shared = {} /\ Directs = {}
  BY DEF SuballocatorInit, InUse, Shared, Directs
<1>2. PlaceInv
  BY DEF PlaceInv, SuballocatorInit
<1>3. MaxOrder \in Nat /\ MaxOrder \in Orders /\ Orders = 0 .. MaxOrder
  BY SuballocatorAssumption DEF Orders
<1>4. freeBlocks = [k \in Orders |-> IF k = MaxOrder THEN {0} ELSE {}]
  BY DEF SuballocatorInit
<1>5. FreeIn(freeBlocks) = {Block(0, MaxOrder)}
  <2>1. ASSUME NEW x \in FreeIn(freeBlocks) PROVE x = Block(0, MaxOrder)
    <3>1. PICK k \in Orders : \E b \in freeBlocks[k] : x = Block(b, k)
      BY FreeIs
    <3> QED  BY <1>4, <3>1
  <2>2. 0 \in freeBlocks[MaxOrder]
    BY <1>3, <1>4
  <2> QED  BY <1>3, <2>1, <2>2, FreeIs
<1>6. Divided(freeBlocks, Shared)
  <2>1. GoodBlock(Block(0, MaxOrder))
    BY <1>3, AlignedZero, Power, BlockIs DEF GoodBlock
  <2>2. Covers({Block(0, MaxOrder)})
    BY BlockIs DEF Covers
  <2>3. Apart({Block(0, MaxOrder)})
    BY DEF Apart
  <2>4. NoBuddies(freeBlocks)
    <3> \A k \in 0 .. MaxOrder - 1 : freeBlocks[k] = {}
      BY <1>3, <1>4
    <3> QED  BY DEF NoBuddies
  <2>5. freeBlocks \in [Orders -> SUBSET Nat]
    BY <1>4
  <2> QED  BY <1>1, <1>5, <2>1, <2>2, <2>3, <2>4, <2>5 DEF Divided
<1>7. DivisionInv
  BY <1>1, <1>6 DEF DivisionInv
<1>8. BucketsInv
  <2>1. \A k \in Buckets : HeldIn(k) = {}
    BY <1>1 DEF HeldIn
  <2>2. allocations = [k \in Buckets |-> [refcount |-> 0, buffer |-> NoBuffer]] /\ placed = {} /\ owned = {}
    BY DEF SuballocatorInit
  <2>3. Busy = {}
    BY <2>2 DEF Busy
  <2>4. IsFiniteSet({}) /\ Cardinality({}) = 0
    BY FS_EmptySet
  <2> QED  BY <1>1, <2>1, <2>2, <2>3, <2>4 DEF BucketsInv
<1> QED  BY <1>2, <1>7, <1>8 DEF SuballocatorInv

(* A buffer of its own.                                                    *)
LEMMA DirectStep ==
  ASSUME SuballocatorInv, NEW c \in Callers, NEW size, NEW own, AllocateDirect(c, size, own)
  PROVE  SuballocatorInv'
<1>1. PICK b \in HeapBuffers \ owned :
        /\ owned' = owned \cup {b} /\ placing' = [placing EXCEPT ![c] = DirectBlock(b)]
        /\ placing[c] = NoBlock /\ placed' = placed /\ freeBlocks' = freeBlocks
        /\ allocations' = allocations
  BY DEF AllocateDirect
<1>2. PICK x : x = DirectBlock(b)
  OBVIOUS
<1>3. IsDirectAllocation(x) /\ x # NoBlock /\ x.direct = b
  BY <1>2, NoBlockIs
<1>4. x \notin InUse
  <2> SUFFICES ASSUME x \in InUse PROVE FALSE
    OBVIOUS
  <2> x \in Directs
    BY <1>3 DEF Directs
  <2> QED  BY <1>1, <1>3 DEF SuballocatorInv, BucketsInv
<1>5. PlaceInv' /\ InUse' = InUse \cup {x}
  BY <1>1, <1>2, <1>3, <1>4, BlockComes DEF SuballocatorInv
<1>6. Shared' = Shared /\ Directs' = Directs \cup {x}
  BY <1>3, <1>5 DEF Shared, Directs
<1>7. DivisionInv'
  BY <1>1, <1>6 DEF SuballocatorInv, DivisionInv
<1>8. \A k : HeldIn(k)' = HeldIn(k)
  BY <1>6 DEF HeldIn
<1>9. Busy' = Busy
  BY <1>1 DEF Busy
<1>10. \A y : BufferOf(y)' = BufferOf(y)
  BY <1>1 DEF BufferOf
<1>11. BucketsInv'
  <2>1. \A k \in Busy : allocations[k].buffer \in owned
    BY DEF SuballocatorInv, BucketsInv
  <2> QED  BY <1>1, <1>2, <1>3, <1>6, <1>8, <1>9, <1>10, <2>1 DEF SuballocatorInv, BucketsInv
<1> QED  BY <1>5, <1>7, <1>11 DEF SuballocatorInv

(* The block that is first, of what is asked for.                          *)
LEMMA FirstFreeIs ==
  ASSUME SuballocatorInv, NEW size \in ByteSizes, NEW own \in BOOLEAN,
         ~ResourceNeedsOwnAllocation(size, own), Roomy(OrderOf(size)) # {}
  PROVE  \E order \in 0 .. BucketOrder, at \in Nat, k \in Buckets :
           /\ order = OrderOf(size) /\ at = FirstFree(order) /\ k = BucketFromOffset(at)
           /\ Block(at, order) \notin Shared
           /\ Divided(AllocateBlock(order), Shared \cup {Block(at, order)})
<1>1. PICK order \in 0 .. BucketOrder : order = OrderOf(size)
  BY OrderFits
<1>2. order \in Orders
  BY SuballocatorAssumption DEF Orders
<1>3. PICK at : at = FirstFree(order)
  OBVIOUS
<1>4. Divided(freeBlocks, Shared)
  BY DEF SuballocatorInv, DivisionInv
<1>5. Divided(AllocateBlock(order), Shared \cup {Block(at, order)}) /\ Block(at, order) \notin Shared
  BY <1>1, <1>2, <1>3, <1>4, AllocateDivides
<1>6. GoodBlock(Block(at, order))
  BY <1>5 DEF Divided
<1>7. Aligned(at, order) /\ at < 2 ^ MaxOrder
  BY <1>6, BlockIs DEF GoodBlock
<1>8. at \in Nat /\ BucketFromOffset(at) \in Buckets
  BY <1>7, AlignedBelow, BucketIs, SuballocatorAssumption
<1> QED  BY <1>1, <1>3, <1>5, <1>8

(* A block of a bucket, which may need a buffer.                           *)
LEMMA SharedStep ==
  ASSUME SuballocatorInv, NEW c \in Callers, NEW size \in ByteSizes, NEW own \in BOOLEAN,
         AllocateShared(c, size, own)
  PROVE  SuballocatorInv'
<1>1. PICK order \in 0 .. BucketOrder, at \in Nat, k \in Buckets :
           /\ order = OrderOf(size) /\ at = FirstFree(order) /\ k = BucketFromOffset(at)
           /\ Block(at, order) \notin Shared
           /\ Divided(AllocateBlock(order), Shared \cup {Block(at, order)})
  BY FirstFreeIs DEF AllocateShared
<1>2. PICK x : x = Block(at, order)
  OBVIOUS
<1>3. ~IsDirectAllocation(x) /\ x # NoBlock /\ x.at = at /\ x.order = order /\ x \notin Shared
  BY <1>1, <1>2, BlockIs, NoBlockIs
<1>4. PICK b \in IF allocations[k].refcount = 0 THEN HeapBuffers \ owned ELSE {allocations[k].buffer} :
        /\ allocations' = [allocations EXCEPT ![k] = [refcount |-> @.refcount + 1, buffer |-> b]]
        /\ owned' = owned \cup {b}
  BY <1>1 DEF AllocateShared
<1>5. /\ placing[c] = NoBlock /\ placing' = [placing EXCEPT ![c] = x] /\ placed' = placed
      /\ freeBlocks' = AllocateBlock(order)
  BY <1>1, <1>2 DEF AllocateShared
<1>6. x \notin InUse
  BY <1>3 DEF Shared
<1>7. PlaceInv' /\ InUse' = InUse \cup {x}
  BY <1>3, <1>5, <1>6, BlockComes DEF SuballocatorInv
<1>8. Shared' = Shared \cup {x} /\ Directs' = Directs
  BY <1>3, <1>7 DEF Shared, Directs
<1>9. DivisionInv'
  <2>1. Divided(freeBlocks', Shared')
    BY <1>1, <1>2, <1>5, <1>8
  <2>2. \A y \in Shared' : y.order <= BucketOrder
    BY <1>3, <1>8 DEF SuballocatorInv, DivisionInv
  <2> QED  BY <2>1, <2>2 DEF DivisionInv
<1>10. HeldIn(k)' = HeldIn(k) \cup {x} /\ x \notin HeldIn(k) /\ \A n \in Buckets : n # k => HeldIn(n)' = HeldIn(n)
  BY <1>1, <1>3, <1>8 DEF HeldIn
<1>11. /\ \A n \in Buckets : allocations[n] \in [refcount : Nat, buffer : HeapBuffers \cup {NoBuffer}]
       /\ allocations = [n \in Buckets |-> allocations[n]]
  BY DEF SuballocatorInv, BucketsInv
<1>12. /\ allocations'[k] = [refcount |-> allocations[k].refcount + 1, buffer |-> b]
       /\ \A n \in Buckets : n # k => allocations'[n] = allocations[n]
       /\ allocations' = [n \in Buckets |-> allocations'[n]]
  BY <1>4, <1>11
<1>13. /\ allocations'[k].refcount = allocations[k].refcount + 1 /\ allocations[k].refcount \in Nat
       /\ allocations'[k].buffer = b
  BY <1>11, <1>12
<1>14. b \in HeapBuffers /\ (k \in Busy => b = allocations[k].buffer) /\ (k \notin Busy => b \notin owned)
  BY <1>4, <1>13 DEF Busy, SuballocatorInv, BucketsInv
<1>15. Busy' = Busy \cup {k}
  BY <1>12, <1>13 DEF Busy
<1>16. \A n \in Busy : allocations'[n].buffer = allocations[n].buffer
  BY <1>12, <1>13, <1>14 DEF Busy
<1>17. BucketsInv'
  <2>1. allocations' \in [Buckets -> [refcount : Nat, buffer : HeapBuffers \cup {NoBuffer}]]
    <3>1. allocations'[k] \in [refcount : Nat, buffer : HeapBuffers \cup {NoBuffer}]
      BY <1>12, <1>13, <1>14
    <3> QED  BY <1>11, <1>12, <3>1
  <2>2. \A n \in Buckets : IsFiniteSet(HeldIn(n))' /\ allocations'[n].refcount = Cardinality(HeldIn(n)')
    <3>1. IsFiniteSet(HeldIn(k)) /\ allocations[k].refcount = Cardinality(HeldIn(k))
      BY DEF SuballocatorInv, BucketsInv
    <3>2. IsFiniteSet(HeldIn(k) \cup {x}) /\ Cardinality(HeldIn(k) \cup {x}) = Cardinality(HeldIn(k)) + 1
      BY <1>10, <3>1, FS_AddElement
    <3> QED  BY <1>10, <1>12, <1>13, <3>1, <3>2 DEF SuballocatorInv, BucketsInv
  <2>3. \A n \in Busy' : allocations'[n].buffer \in HeapBuffers
    BY <1>13, <1>14, <1>15, <1>16 DEF SuballocatorInv, BucketsInv
  <2>4. \A n \in Busy : allocations[n].buffer \in owned
    BY DEF SuballocatorInv, BucketsInv
  <2>5. \A n, m \in Busy' : allocations'[n].buffer = allocations'[m].buffer => n = m
    <3>1. \A n, m \in Busy : allocations'[n].buffer = allocations'[m].buffer => n = m
      BY <1>16 DEF SuballocatorInv, BucketsInv
    <3>2. CASE k \in Busy
      BY <1>15, <3>1, <3>2
    <3>3. CASE k \notin Busy
      <4> \A n \in Busy : allocations'[n].buffer # b
        BY <1>14, <1>16, <2>4, <3>3
      <4> QED  BY <1>13, <1>15, <3>1
    <3> QED  BY <3>2, <3>3
  <2>6. \A n \in Busy', y \in Directs' : allocations'[n].buffer # y.direct
    <3>1. \A y \in Directs : y.direct \in owned
      BY DEF SuballocatorInv, BucketsInv
    <3>2. \A n \in Busy, y \in Directs : allocations'[n].buffer # y.direct
      BY <1>16 DEF SuballocatorInv, BucketsInv
    <3> QED  BY <1>8, <1>13, <1>14, <1>15, <3>1, <3>2
  <2>7. owned' = {allocations'[n].buffer : n \in Busy'} \cup {y.direct : y \in Directs'}
    <3>1. {allocations'[n].buffer : n \in Busy'} = {allocations[n].buffer : n \in Busy} \cup {b}
      BY <1>13, <1>15, <1>16
    <3>2. owned = {allocations[n].buffer : n \in Busy} \cup {y.direct : y \in Directs}
      BY DEF SuballocatorInv, BucketsInv
    <3> QED  BY <1>4, <1>8, <3>1, <3>2
  <2>8. \A s \in placed' : s.buffer = BufferOf(s.block)'
    <3> SUFFICES ASSUME NEW s \in placed PROVE s.buffer = BufferOf(s.block)'
      BY <1>5
    <3>1. s.buffer = BufferOf(s.block) /\ s.block \in InUse
      BY DEF SuballocatorInv, BucketsInv, InUse
    <3>2. CASE IsDirectAllocation(s.block)
      BY <3>1, <3>2 DEF BufferOf
    <3>3. CASE ~IsDirectAllocation(s.block)
      <4> BucketFromOffset(s.block.at) \in Busy
        BY <3>1, <3>3, SharedIs DEF Shared
      <4> QED  BY <1>16, <3>1, <3>3 DEF BufferOf
    <3> QED  BY <3>2, <3>3
  <2>9. \A y \in Directs' : y = DirectBlock(y.direct) /\ y.direct \in HeapBuffers
    BY <1>8 DEF SuballocatorInv, BucketsInv
  <2> QED  BY <2>1, <2>2, <2>3, <2>5, <2>6, <2>7, <2>8, <2>9 DEF BucketsInv
<1> QED  BY <1>7, <1>9, <1>17 DEF SuballocatorInv

(* A block for which there is no buffer goes back at once.                 *)
LEMMA FailsStep ==
  ASSUME SuballocatorInv, NEW size \in ByteSizes, AllocateFails(size)
  PROVE  SuballocatorInv'
<1>1. PICK order \in 0 .. BucketOrder, at \in Nat, k \in Buckets :
           /\ order = OrderOf(size) /\ at = FirstFree(order) /\ k = BucketFromOffset(at)
           /\ Block(at, order) \notin Shared
           /\ Divided(AllocateBlock(order), Shared \cup {Block(at, order)})
  BY FirstFreeIs DEF AllocateFails
<1>2. /\ freeBlocks' = DeallocateBlock(AllocateBlock(order), at, order)
      /\ allocations' = allocations /\ placing' = placing /\ placed' = placed /\ owned' = owned
  BY <1>1 DEF AllocateFails
<1>3. order \in Orders
  BY SuballocatorAssumption DEF Orders
<1>4. Divided(freeBlocks', (Shared \cup {Block(at, order)}) \ {Block(at, order)})
  BY <1>1, <1>2, <1>3, DeallocateDivides
<1>5. (Shared \cup {Block(at, order)}) \ {Block(at, order)} = Shared
  BY <1>1
<1>6. InUse' = InUse /\ Shared' = Shared /\ Directs' = Directs
  BY <1>2 DEF InUse, Shared, Directs
<1>7. PlaceInv'
  BY <1>2 DEF SuballocatorInv, PlaceInv
<1>8. DivisionInv'
  BY <1>4, <1>5, <1>6 DEF SuballocatorInv, DivisionInv
<1>9. BucketsInv'
  <2>1. \A n : HeldIn(n)' = HeldIn(n)
    BY <1>6 DEF HeldIn
  <2>2. Busy' = Busy /\ \A y : BufferOf(y)' = BufferOf(y)
    BY <1>2 DEF Busy, BufferOf
  <2> QED  BY <1>2, <1>6, <2>1, <2>2 DEF SuballocatorInv, BucketsInv
<1> QED  BY <1>7, <1>8, <1>9 DEF SuballocatorInv

(* The buffer of a block is asked for.                                     *)
LEMMA PassStep ==
  ASSUME SuballocatorInv, NEW c \in Callers, GetInnerAllocation(c)
  PROVE  SuballocatorInv'
<1>1. PICK x : x = placing[c]
  OBVIOUS
<1> DEFINE s == [block |-> x, buffer |-> BufferOf(x)]
<1>2. /\ x # NoBlock /\ placed' = placed \cup {s}
      /\ placing' = [placing EXCEPT ![c] = NoBlock]
      /\ freeBlocks' = freeBlocks /\ allocations' = allocations /\ owned' = owned
  BY <1>1 DEF GetInnerAllocation, BufferOf
<1>3. PlaceInv' /\ InUse' = InUse
  BY <1>1, <1>2, BlockPasses DEF SuballocatorInv
<1>4. Shared' = Shared /\ Directs' = Directs
  BY <1>3 DEF Shared, Directs
<1>5. DivisionInv'
  BY <1>2, <1>4 DEF SuballocatorInv, DivisionInv
<1>6. BucketsInv'
  <2>1. \A n : HeldIn(n)' = HeldIn(n)
    BY <1>4 DEF HeldIn
  <2>2. Busy' = Busy /\ \A y : BufferOf(y)' = BufferOf(y)
    BY <1>2 DEF Busy, BufferOf
  <2>3. s.block = x /\ s.buffer = BufferOf(x)
    OBVIOUS
  <2> HIDE DEF s
  <2>4. \A t \in placed' : t.buffer = BufferOf(t.block)
    BY <1>2, <2>3 DEF SuballocatorInv, BucketsInv
  <2> QED  BY <1>2, <1>4, <2>1, <2>2, <2>4 DEF SuballocatorInv, BucketsInv
<1> QED  BY <1>3, <1>5, <1>6 DEF SuballocatorInv

(* A buffer of its own is given back.                                      *)
LEMMA DirectGoes ==
  ASSUME SuballocatorInv, NEW s \in placed, DeallocateDirect(s)
  PROVE  SuballocatorInv'
<1>1. PICK x : x = s.block
  OBVIOUS
<1>2. /\ IsDirectAllocation(x) /\ placed' = placed \ {s} /\ owned' = owned \ {x.direct}
      /\ freeBlocks' = freeBlocks /\ allocations' = allocations /\ placing' = placing
  BY <1>1 DEF DeallocateDirect
<1>3. PlaceInv' /\ InUse' = InUse \ {x}
  BY <1>1, <1>2, BlockGoes DEF SuballocatorInv
<1>4. Shared' = Shared /\ Directs' = Directs \ {x} /\ x \in Directs
  BY <1>1, <1>2, <1>3 DEF Shared, Directs, InUse
<1>5. DivisionInv'
  BY <1>2, <1>4 DEF SuballocatorInv, DivisionInv
<1>6. BucketsInv'
  <2>1. \A n : HeldIn(n)' = HeldIn(n)
    BY <1>4 DEF HeldIn
  <2>2. Busy' = Busy /\ \A y : BufferOf(y)' = BufferOf(y)
    BY <1>2 DEF Busy, BufferOf
  <2>3. \A y, z \in Directs : y.direct = z.direct => y = z
    BY DEF SuballocatorInv, BucketsInv
  <2>4. owned' = {allocations[n].buffer : n \in Busy} \cup {y.direct : y \in Directs \ {x}}
    <3>1. owned = {allocations[n].buffer : n \in Busy} \cup {y.direct : y \in Directs}
      BY DEF SuballocatorInv, BucketsInv
    <3>2. \A n \in Busy : allocations[n].buffer # x.direct
      BY <1>4 DEF SuballocatorInv, BucketsInv
    <3>3. \A y \in Directs : y # x => y.direct # x.direct
      BY <1>4, <2>3
    <3> QED  BY <1>2, <1>4, <3>1, <3>2, <3>3
  <2> QED  BY <1>2, <1>4, <2>1, <2>2, <2>4 DEF SuballocatorInv, BucketsInv
<1> QED  BY <1>3, <1>5, <1>6 DEF SuballocatorInv

(* A block is given back, and the buffer of its bucket with the last one.  *)
LEMMA SharedGoes ==
  ASSUME SuballocatorInv, NEW s \in placed, DeallocateShared(s)
  PROVE  SuballocatorInv'
<1>1. PICK x : x = s.block
  OBVIOUS
<1>2. x \in Shared /\ ~IsDirectAllocation(x)
  BY <1>1 DEF DeallocateShared, Shared, InUse
<1>3. PICK k \in Busy : k = BucketFromOffset(x.at)
  BY <1>2, SharedIs
<1>4. k \in Buckets /\ allocations[k].refcount > 0
  BY DEF Busy
<1>5. PICK left, rest : left = allocations[k].refcount - 1
                     /\ rest = [refcount |-> left, buffer |-> IF left = 0 THEN NoBuffer ELSE allocations[k].buffer]
  OBVIOUS
<1>6. /\ allocations' = [allocations EXCEPT ![k] = rest]
      /\ owned' = IF left = 0 THEN owned \ {allocations[k].buffer} ELSE owned
      /\ freeBlocks' = DeallocateBlock(freeBlocks, x.at, x.order)
      /\ placed' = placed \ {s} /\ placing' = placing
  BY <1>1, <1>3, <1>5 DEF DeallocateShared
<1>7. PlaceInv' /\ InUse' = InUse \ {x}
  BY <1>1, <1>6, BlockGoes DEF SuballocatorInv
<1>8. Shared' = Shared \ {x} /\ Directs' = Directs
  BY <1>2, <1>7 DEF Shared, Directs
<1>9. DivisionInv'
  <2>1. x = Block(x.at, x.order) /\ x.order \in Orders
    BY <1>2, SharedIs, SuballocatorAssumption DEF Orders
  <2>2. PICK at, order : at = x.at /\ order = x.order
    OBVIOUS
  <2>3. Divided(freeBlocks', Shared \ {x})
    BY <1>2, <1>6, <2>1, <2>2, DeallocateDivides DEF SuballocatorInv, DivisionInv
  <2> QED  BY <1>8, <2>3 DEF SuballocatorInv, DivisionInv
<1>10. HeldIn(k)' = HeldIn(k) \ {x} /\ x \in HeldIn(k) /\ \A n \in Buckets : n # k => HeldIn(n)' = HeldIn(n)
  BY <1>2, <1>3, <1>8 DEF HeldIn
<1>11. /\ \A n \in Buckets : allocations[n] \in [refcount : Nat, buffer : HeapBuffers \cup {NoBuffer}]
       /\ allocations = [n \in Buckets |-> allocations[n]]
  BY DEF SuballocatorInv, BucketsInv
<1>12. /\ allocations'[k] = rest
       /\ \A n \in Buckets : n # k => allocations'[n] = allocations[n]
       /\ allocations' = [n \in Buckets |-> allocations'[n]]
  BY <1>4, <1>6, <1>11
<1>13. /\ left \in Nat /\ rest.refcount = left
       /\ rest.buffer = IF left = 0 THEN NoBuffer ELSE allocations[k].buffer
       /\ allocations[k].refcount = left + 1
  BY <1>4, <1>5, <1>11
<1>14. Busy' = IF left = 0 THEN Busy \ {k} ELSE Busy
  BY <1>4, <1>12, <1>13 DEF Busy
<1>15. \A n \in Busy' : n \in Busy /\ allocations'[n].buffer = allocations[n].buffer
  BY <1>12, <1>13, <1>14 DEF Busy
<1>16. BucketsInv'
  <2>1. allocations' \in [Buckets -> [refcount : Nat, buffer : HeapBuffers \cup {NoBuffer}]]
    <3>1. allocations[k].buffer \in HeapBuffers
      BY DEF SuballocatorInv, BucketsInv
    <3>2. rest \in [refcount : Nat, buffer : HeapBuffers \cup {NoBuffer}]
      BY <1>5, <1>13, <3>1
    <3> QED  BY <1>11, <1>12, <3>2
  <2>2. \A n \in Buckets : IsFiniteSet(HeldIn(n))' /\ allocations'[n].refcount = Cardinality(HeldIn(n)')
    <3>1. IsFiniteSet(HeldIn(k)) /\ allocations[k].refcount = Cardinality(HeldIn(k))
      BY <1>4 DEF SuballocatorInv, BucketsInv
    <3>2. IsFiniteSet(HeldIn(k) \ {x}) /\ Cardinality(HeldIn(k) \ {x}) = Cardinality(HeldIn(k)) - 1
      BY <1>10, <3>1, FS_RemoveElement
    <3>3. IsFiniteSet(HeldIn(k)') /\ Cardinality(HeldIn(k)') = left
      BY <1>10, <1>13, <3>1, <3>2
    <3>4. allocations'[k].refcount = left
      BY <1>12, <1>13
    <3>5. \A n \in Buckets : n # k => /\ IsFiniteSet(HeldIn(n))' /\ HeldIn(n)' = HeldIn(n)
                                     /\ allocations'[n].refcount = Cardinality(HeldIn(n))
      BY <1>10, <1>12 DEF SuballocatorInv, BucketsInv
    <3>6. \A n \in Buckets : n # k => allocations'[n].refcount = Cardinality(HeldIn(n)')
      BY <3>5
    <3> QED  BY <3>3, <3>4, <3>5, <3>6
  <2>3. /\ \A n \in Busy' : allocations'[n].buffer \in HeapBuffers
        /\ \A n, m \in Busy' : allocations'[n].buffer = allocations'[m].buffer => n = m
        /\ \A n \in Busy', y \in Directs' : allocations'[n].buffer # y.direct
    BY <1>8, <1>15 DEF SuballocatorInv, BucketsInv
  <2>4. owned' = {allocations'[n].buffer : n \in Busy'} \cup {y.direct : y \in Directs'}
    <3>1. owned = {allocations[n].buffer : n \in Busy} \cup {y.direct : y \in Directs}
      BY DEF SuballocatorInv, BucketsInv
    <3>2. {allocations'[n].buffer : n \in Busy'} = {allocations[n].buffer : n \in Busy'}
      BY <1>15
    <3>3. CASE left # 0
      BY <1>6, <1>8, <1>14, <3>1, <3>2, <3>3
    <3>4. CASE left = 0
      <4>1. \A n \in Busy : n # k => allocations[n].buffer # allocations[k].buffer
        BY DEF SuballocatorInv, BucketsInv
      <4>2. \A y \in Directs : y.direct # allocations[k].buffer
        BY DEF SuballocatorInv, BucketsInv
      <4>3. Busy' = Busy \ {k} /\ owned' = owned \ {allocations[k].buffer}
        BY <1>6, <1>14, <3>4
      <4> QED  BY <1>8, <3>1, <3>2, <4>1, <4>2, <4>3
    <3> QED  BY <3>3, <3>4
  <2>5. \A t \in placed' : t.buffer = BufferOf(t.block)'
    <3> SUFFICES ASSUME NEW t \in placed' PROVE t.buffer = BufferOf(t.block)'
      OBVIOUS
    <3>1. t.buffer = BufferOf(t.block) /\ t.block \in InUse' /\ t.block \in InUse
      <4>1. t \in placed /\ t.block \in InUse'
        BY <1>6 DEF InUse
      <4> QED  BY <1>7, <4>1 DEF SuballocatorInv, BucketsInv
    <3>2. CASE IsDirectAllocation(t.block)
      BY <3>1, <3>2 DEF BufferOf
    <3>3. CASE ~IsDirectAllocation(t.block)
      <4>1. t.block \in Shared' /\ t.block \in Shared
        BY <1>8, <3>1, <3>3 DEF Shared
      <4>2. PICK n \in Busy : n = BucketFromOffset(t.block.at)
        BY <4>1, SharedIs
      <4>3. n \in Buckets
        BY DEF Busy
      <4>4. t.block \in HeldIn(n)'
        BY <4>1, <4>2 DEF HeldIn
      <4>5. n \in Busy'
        <5>1. n = k => left # 0
          <6> SUFFICES ASSUME n = k, left = 0 PROVE FALSE
            OBVIOUS
          <6>1. IsFiniteSet(HeldIn(k)) /\ Cardinality(HeldIn(k)) = 1
            BY <1>4, <1>13 DEF SuballocatorInv, BucketsInv
          <6>2. IsFiniteSet(HeldIn(k) \ {x}) /\ Cardinality(HeldIn(k) \ {x}) = 0
            BY <1>10, <6>1, FS_RemoveElement
          <6>3. HeldIn(k) \ {x} = {}
            BY <6>2, FS_EmptySet
          <6> QED  BY <1>10, <4>4, <6>3
        <5> QED  BY <1>14, <5>1
      <4> QED  BY <1>15, <3>1, <3>3, <4>2, <4>5 DEF BufferOf
    <3> QED  BY <3>2, <3>3
  <2>6. \A y \in Directs' : y = DirectBlock(y.direct) /\ y.direct \in HeapBuffers
    BY <1>8 DEF SuballocatorInv, BucketsInv
  <2> QED  BY <2>1, <2>2, <2>3, <2>4, <2>5, <2>6 DEF BucketsInv
<1> QED  BY <1>7, <1>9, <1>16 DEF SuballocatorInv

LEMMA SuballocatorStep ==
  ASSUME SuballocatorInv, [SuballocatorNext]_suballocatorVars
  PROVE  SuballocatorInv'
<1>1. ASSUME NEW c \in Callers, NEW size \in ByteSizes, NEW own \in BOOLEAN,
             AllocateDirect(c, size, own) \/ AllocateShared(c, size, own)
      PROVE  SuballocatorInv'
  BY <1>1, DirectStep, SharedStep
<1>2. ASSUME NEW size \in ByteSizes, AllocateFails(size) PROVE SuballocatorInv'
  BY <1>2, FailsStep
<1>3. ASSUME NEW c \in Callers, GetInnerAllocation(c) PROVE SuballocatorInv'
  BY <1>3, PassStep
<1>4. ASSUME NEW s \in placed, DeallocateDirect(s) \/ DeallocateShared(s) PROVE SuballocatorInv'
  BY <1>4, DirectGoes, SharedGoes
<1>5. CASE UNCHANGED suballocatorVars
  <2>1. /\ freeBlocks' = freeBlocks /\ allocations' = allocations /\ placing' = placing
        /\ placed' = placed /\ owned' = owned
    BY <1>5 DEF suballocatorVars
  <2>2. InUse' = InUse /\ Shared' = Shared /\ Directs' = Directs /\ Busy' = Busy
    BY <2>1 DEF InUse, Shared, Directs, Busy
  <2>3. \A n : HeldIn(n)' = HeldIn(n)
    BY <2>2 DEF HeldIn
  <2>4. \A y : BufferOf(y)' = BufferOf(y)
    BY <2>1 DEF BufferOf
  <2>5. PlaceInv'
    BY <2>1 DEF SuballocatorInv, PlaceInv
  <2>6. DivisionInv'
    BY <2>1, <2>2 DEF SuballocatorInv, DivisionInv
  <2>7. BucketsInv'
    BY <2>1, <2>2, <2>3, <2>4 DEF SuballocatorInv, BucketsInv
  <2> QED  BY <2>5, <2>6, <2>7 DEF SuballocatorInv
<1> QED  BY <1>1, <1>2, <1>3, <1>4, <1>5 DEF SuballocatorNext

(* What the invariant says of blocks in use.                               *)
LEMMA BlocksApart ==
  ASSUME SuballocatorInv
  PROVE  SuballocationsApart
<1>1. SomeFree = FreeIn(freeBlocks)
  BY DEF SomeFree, FreeIn
<1>2. Divided(freeBlocks, Shared)
  BY DEF SuballocatorInv, DivisionInv
<1>3. RangeIsDivided
  <2>1. ASSUME NEW u \in Units(0, MaxOrder)
        PROVE  Cardinality({x \in SomeFree \cup Shared : u \in Units(x.at, x.order)}) = 1
    <3>1. PICK x \in SomeFree \cup Shared : u \in Units(x.at, x.order)
      BY <1>1, <1>2 DEF Divided, Covers, Of
    <3>2. \A y \in SomeFree \cup Shared : u \in Units(y.at, y.order) => y = x
      BY <1>1, <1>2, <3>1 DEF Divided, Apart, Of
    <3>3. {y \in SomeFree \cup Shared : u \in Units(y.at, y.order)} = {x}
      BY <3>1, <3>2
    <3> QED  BY <3>3, FS_Singleton
  <2> QED  BY <1>1, <1>2, <2>1 DEF RangeIsDivided, Divided
<1>4. BuddiesAreJoined
  BY <1>2 DEF Divided, NoBuddies, BuddiesAreJoined
<1>5. BucketsAreCounted
  BY DEF BucketsAreCounted, SuballocatorInv, BucketsInv, HeldIn, Busy, Directs
<1>6. \A x \in Shared : (x.at % 2 ^ BucketOrder) + 2 ^ x.order <= 2 ^ BucketOrder
  BY SharedIs
<1>7. ASSUME NEW s \in placed
      PROVE  /\ s.block \in InUse /\ s.buffer = BufferOf(s.block) /\ s.buffer \in owned
             /\ IsDirectAllocation(s.block) => s.block \in Directs /\ s.buffer = s.block.direct
             /\ ~IsDirectAllocation(s.block) =>
                  /\ s.block \in Shared /\ BucketFromOffset(s.block.at) \in Busy
                  /\ s.buffer = allocations[BucketFromOffset(s.block.at)].buffer
  <2>1. s.block \in InUse /\ s.buffer = BufferOf(s.block)
    BY DEF SuballocatorInv, BucketsInv, InUse
  <2>2. CASE IsDirectAllocation(s.block)
    BY <2>1, <2>2 DEF Directs, BufferOf, SuballocatorInv, BucketsInv
  <2>3. CASE ~IsDirectAllocation(s.block)
    <3>1. s.block \in Shared
      BY <2>1, <2>3 DEF Shared
    <3>2. PICK k \in Busy : k = BucketFromOffset(s.block.at)
      BY <3>1, SharedIs
    <3>3. s.buffer = allocations[k].buffer /\ allocations[k].buffer \in owned
      BY <2>1, <2>3, <3>2 DEF BufferOf, SuballocatorInv, BucketsInv
    <3> QED  BY <2>1, <2>3, <3>1, <3>2, <3>3
  <2> QED  BY <2>2, <2>3
<1>8. ASSUME NEW s \in placed, NEW t \in placed, s # t, s.buffer = t.buffer
      PROVE  /\ ~IsDirectAllocation(s.block) /\ ~IsDirectAllocation(t.block)
             /\ Units(s.block.at, s.block.order) \cap Units(t.block.at, t.block.order) = {}
  <2>1. s.block # t.block
    BY <1>8 DEF SuballocatorInv, PlaceInv
  <2>2. ~(IsDirectAllocation(s.block) /\ IsDirectAllocation(t.block))
    BY <1>7, <1>8, <2>1 DEF SuballocatorInv, BucketsInv
  <2>3. ~(IsDirectAllocation(s.block) /\ ~IsDirectAllocation(t.block))
    BY <1>7, <1>8 DEF SuballocatorInv, BucketsInv
  <2>4. ~(~IsDirectAllocation(s.block) /\ IsDirectAllocation(t.block))
    BY <1>7, <1>8 DEF SuballocatorInv, BucketsInv
  <2>5. s.block \in Shared /\ t.block \in Shared
    BY <1>7, <2>2, <2>3, <2>4
  <2>6. Units(s.block.at, s.block.order) \cap Units(t.block.at, t.block.order) = {}
    BY <1>2, <2>1, <2>5 DEF Divided, Apart, Of
  <2> QED  BY <2>2, <2>3, <2>4, <2>6
<1> QED  BY <1>3, <1>4, <1>5, <1>6, <1>7, <1>8 DEF SuballocationsApart

(* For a range of any size, cut into buckets of any size, and any number   *)
(* of threads: suballocations share no memory and stay in a buffer that is *)
(* held, whatever is split, joined or given back because a buffer could    *)
(* not be had (CDisjointBuddyAllocator over CBuddyAllocator).              *)
THEOREM SuballocationsStayApart == SuballocatorSpec => []SuballocationsApart
<1>1. SuballocatorInit => SuballocatorInv
  BY SuballocatorStarts
<1>2. SuballocatorInv /\ [SuballocatorNext]_suballocatorVars => SuballocatorInv'
  BY SuballocatorStep
<1>3. SuballocatorInv => SuballocationsApart
  BY BlocksApart
<1> QED  BY <1>1, <1>2, <1>3, PTL DEF SuballocatorSpec
=============================================================================
