--------------------------- MODULE Scheduler_proofs ---------------------------
(***************************************************************************)
(* Work given to a scheduler runs once or is cancelled, and a device's     *)
(* scheduler is a serial executor.                                         *)
(***************************************************************************)
EXTENDS Scheduler, FiniteSetTheorems, SequenceTheorems, WellFoundedInduction, TLAPS

-----------------------------------------------------------------------------
(* The work of a queue of tasks *)

Item == [work : Work \cup {Nothing}, mode : Nat]

(* Every set of numbers has a least one, which is induction in a form that *)
(* needs no operator for the property.                                     *)
LEMMA LeastNumber ==
  ASSUME NEW T \in SUBSET Nat, T # {}
  PROVE  \E x \in T : \A y \in T : x <= y
<1>1. \E x \in T : \A y \in T : ~ (<<y, x>> \in OpToRel(<, Nat))
  BY NatLessThanWellFounded, WFMin
<1>2. PICK x \in T : \A y \in T : ~ (<<y, x>> \in OpToRel(<, Nat))
  BY <1>1
<1>3. \A y \in T : ~(y < x)
  BY <1>2 DEF OpToRel
<1> QED BY <1>3

\* f gathers the work of the first i tasks of s, for i up to n.
Gathers(f, s, n) ==
  f = [i \in 0 .. n |-> IF i = 0 THEN <<>> ELSE f[i - 1] \o WorkIn(s[i])]

(* Such a function exists.                                                 *)
LEMMA Gathered ==
  ASSUME NEW s, NEW n \in Nat
  PROVE  \E f : Gathers(f, s, n)
<1> DEFINE T == {m \in Nat : ~ \E f : Gathers(f, s, m)}
<1> SUFFICES ASSUME T # {} PROVE FALSE
  OBVIOUS
<1>1. PICK m \in T : \A k \in T : m <= k
  BY LeastNumber
<1>2. m \in Nat /\ ~ \E f : Gathers(f, s, m)
  OBVIOUS
<1> HIDE DEF T
<1>3. m # 0
  <2>1. Gathers([i \in 0 .. 0 |-> <<>>], s, 0)
    BY DEF Gathers
  <2> QED BY <1>2, <2>1
<1>4. m - 1 \in Nat /\ ~(m <= m - 1)
  BY <1>2, <1>3
<1>5. \E f : Gathers(f, s, m - 1)
  BY <1>1, <1>4 DEF T
<1>6. PICK f : Gathers(f, s, m - 1)
  BY <1>5
<1> DEFINE h == [i \in 0 .. m |-> IF i = 0 THEN <<>> ELSE f[i - 1] \o WorkIn(s[i])]
<1>7. \A i \in 0 .. m - 1 : f[i] = IF i = 0 THEN <<>> ELSE f[i - 1] \o WorkIn(s[i])
  BY <1>6 DEF Gathers
<1>8. \A i \in 0 .. m - 1 : h[i] = f[i]
  <2>1. \A i \in 0 .. m - 1 : i \in 0 .. m
    BY <1>2
  <2> QED BY <1>7, <2>1
<1>9. \A i \in 0 .. m : i # 0 => i - 1 \in 0 .. m - 1
  BY <1>2
<1>10. h = [i \in 0 .. m |-> IF i = 0 THEN <<>> ELSE h[i - 1] \o WorkIn(s[i])]
  BY <1>8, <1>9
<1>11. Gathers(h, s, m)
  BY <1>10 DEF Gathers
<1> QED BY <1>2, <1>11

(* What is true of 0, and of every number that follows one of which it is  *)
(* true, is true of every number up to n.                                  *)
LEMMA UpTo ==
  ASSUME NEW n \in Nat, NEW T, 0 \in T, \A i \in 1 .. n : i - 1 \in T => i \in T
  PROVE  \A i \in 0 .. n : i \in T
<1> DEFINE F == {i \in 0 .. n : i \notin T}
<1> SUFFICES ASSUME F # {} PROVE FALSE
  OBVIOUS
<1>1. F \in SUBSET Nat
  OBVIOUS
<1> HIDE DEF F
<1>2. PICK i \in F : \A j \in F : i <= j
  BY <1>1, LeastNumber
<1>3. i \in 0 .. n /\ i \notin T
  BY <1>2 DEF F
<1>4. i # 0
  BY <1>3
<1>5. i \in 1 .. n /\ i - 1 \in 0 .. n /\ ~(i <= i - 1)
  BY <1>3, <1>4
<1>6. i - 1 \in T
  BY <1>2, <1>5 DEF F
<1>7. i \in T
  BY <1>5, <1>6
<1> QED BY <1>3, <1>7

\* f gathers step by step.
Steps(f, s, n) ==
  /\ f[0] = <<>>
  /\ \A i \in 1 .. n : f[i] = f[i - 1] \o WorkIn(s[i])

(* Gathered in one go, or step by step.                                    *)
LEMMA GatherSteps ==
  ASSUME NEW f, NEW s, NEW n \in Nat, Gathers(f, s, n)
  PROVE  Steps(f, s, n)
<1>1. \A i \in 0 .. n : f[i] = IF i = 0 THEN <<>> ELSE f[i - 1] \o WorkIn(s[i])
  BY DEF Gathers
<1>2. f[0] = <<>>
  <2>1. 0 \in 0 .. n
    OBVIOUS
  <2> QED BY <1>1, <2>1
<1>3. \A i \in 1 .. n : f[i] = f[i - 1] \o WorkIn(s[i])
  <2>1. \A i \in 1 .. n : i \in 0 .. n /\ i # 0
    OBVIOUS
  <2> QED BY <1>1, <2>1
<1> QED BY <1>2, <1>3 DEF Steps

(* What WorkOf computes.                                                   *)
LEMMA WorkGathered ==
  ASSUME NEW s, NEW n \in Nat, Len(s) = n
  PROVE  \E f : Steps(f, s, n) /\ WorkOf(s) = f[n]
<1> DEFINE g == CHOOSE f : Gathers(f, s, n)
<1>1. Gathers(g, s, n)
  BY Gathered
<1>2. WorkOf(s) = g[n]
  BY DEF WorkOf, Gathers
<1>3. Steps(g, s, n)
  <2>1. PICK f : f = g
    OBVIOUS
  <2>2. Gathers(f, s, n)
    BY <1>1, <2>1
  <2>3. Steps(f, s, n)
    BY <2>2, GatherSteps
  <2> QED BY <2>1, <2>3
<1> QED BY <1>2, <1>3

(* The work of one task.                                                   *)
LEMMA WorkInType ==
  ASSUME NEW i \in Item
  PROVE  WorkIn(i) \in Seq(Work)
<1>1. <<>> \in Seq(Work)
  OBVIOUS
<1>2. CASE i.work = Nothing
  BY <1>1, <1>2 DEF WorkIn
<1>3. CASE i.work # Nothing
  <2>1. i.work \in Work
    BY <1>3 DEF Item
  <2>2. <<i.work>> \in Seq(Work)
    BY <2>1
  <2> QED BY <1>3, <2>2 DEF WorkIn
<1> QED BY <1>2, <1>3

(* What is gathered is a sequence of work at each step.                    *)
LEMMA StepsType ==
  ASSUME NEW f, NEW n \in Nat, NEW s \in Seq(Item), n <= Len(s), Steps(f, s, n)
  PROVE  \A i \in 0 .. n : f[i] \in Seq(Work)
<1> DEFINE T == {i \in 0 .. n : f[i] \in Seq(Work)}
<1>1. 0 \in T
  <2>1. <<>> \in Seq(Work) /\ 0 \in 0 .. n
    OBVIOUS
  <2>2. f[0] \in Seq(Work)
    BY <2>1 DEF Steps
  <2> QED BY <2>1, <2>2
<1>2. ASSUME NEW i \in 1 .. n, i - 1 \in T PROVE i \in T
  <2>1. s[i] \in Item
    <3>1. i \in 1 .. Len(s)
      OBVIOUS
    <3> QED BY <3>1
  <2>2. WorkIn(s[i]) \in Seq(Work)
    BY <2>1, WorkInType
  <2>3. f[i] = f[i - 1] \o WorkIn(s[i])
    BY DEF Steps
  <2>4. f[i - 1] \in Seq(Work)
    BY <1>2
  <2>5. f[i] \in Seq(Work)
    BY <2>2, <2>3, <2>4
  <2> QED BY <2>5
<1> HIDE DEF T
<1>3. \A i \in 0 .. n : i \in T
  BY <1>1, <1>2, UpTo
<1> QED BY <1>3 DEF T

(* The work in a queue of tasks is a sequence of work.                     *)
LEMMA WorkOfType ==
  ASSUME NEW s \in Seq(Item)
  PROVE  WorkOf(s) \in Seq(Work)
<1>1. PICK n \in Nat : n = Len(s)
  OBVIOUS
<1>2. PICK f : Steps(f, s, n) /\ WorkOf(s) = f[n]
  BY <1>1, WorkGathered
<1>3. \A i \in 0 .. n : f[i] \in Seq(Work)
  BY <1>1, <1>2, StepsType
<1> QED BY <1>2, <1>3

(* The work in two queues, one behind the other.                           *)
LEMMA WorkOfConcat ==
  ASSUME NEW s \in Seq(Item), NEW r \in Seq(Item)
  PROVE  WorkOf(s \o r) = WorkOf(s) \o WorkOf(r)
<1>1. PICK m, n \in Nat : m = Len(s) /\ n = Len(r)
  OBVIOUS
<1>2. Len(s \o r) = m + n /\ m + n \in Nat
  BY <1>1
<1>3. PICK f : Steps(f, s, m) /\ WorkOf(s) = f[m]
  BY <1>1, WorkGathered
<1>4. PICK g : Steps(g, r, n) /\ WorkOf(r) = g[n]
  BY <1>1, WorkGathered
<1>5. PICK h : Steps(h, s \o r, m + n) /\ WorkOf(s \o r) = h[m + n]
  BY <1>2, WorkGathered
<1>6. /\ \A i \in 1 .. m : (s \o r)[i] = s[i]
      /\ \A i \in 1 .. n : (s \o r)[m + i] = r[i]
  BY <1>1
<1>7. \A i \in 0 .. m : h[i] = f[i]
  <2> DEFINE T == {i \in 0 .. m : h[i] = f[i]}
  <2>1. 0 \in T
    BY <1>3, <1>5 DEF Steps
  <2>2. ASSUME NEW i \in 1 .. m, i - 1 \in T PROVE i \in T
    <3>1. f[i] = f[i - 1] \o WorkIn(s[i])
      BY <1>3 DEF Steps
    <3>2. i \in 1 .. m + n
      OBVIOUS
    <3>3. h[i] = h[i - 1] \o WorkIn((s \o r)[i])
      BY <1>5, <3>2 DEF Steps
    <3>4. (s \o r)[i] = s[i]
      BY <1>6
    <3>5. h[i - 1] = f[i - 1]
      BY <2>2
    <3>6. h[i] = f[i]
      BY <3>1, <3>3, <3>4, <3>5
    <3> QED BY <3>6
  <2> HIDE DEF T
  <2>3. \A i \in 0 .. m : i \in T
    BY <2>1, <2>2, UpTo
  <2> QED BY <2>3 DEF T
<1>8. \A i \in 0 .. n : g[i] \in Seq(Work)
  BY <1>1, <1>4, StepsType
<1>9. f[m] \in Seq(Work)
  BY <1>3, WorkOfType
<1>10. \A i \in 0 .. n : h[m + i] = f[m] \o g[i]
  <2> DEFINE T == {i \in 0 .. n : h[m + i] = f[m] \o g[i]}
  <2>1. 0 \in T
    <3>1. h[m + 0] = f[m]
      BY <1>7
    <3>2. f[m] \o g[0] = f[m]
      <4>1. g[0] = <<>>
        BY <1>4 DEF Steps
      <4>2. f[m] \o <<>> = f[m]
        BY <1>9
      <4> QED BY <4>1, <4>2
    <3>3. 0 \in 0 .. n /\ h[m + 0] = f[m] \o g[0]
      BY <3>1, <3>2
    <3> QED BY <3>3
  <2>2. ASSUME NEW i \in 1 .. n, i - 1 \in T PROVE i \in T
    <3>1. g[i] = g[i - 1] \o WorkIn(r[i])
      BY <1>4 DEF Steps
    <3>2. m + i \in 1 .. m + n /\ (m + i) - 1 = m + (i - 1)
      OBVIOUS
    <3>3. h[m + i] = h[m + (i - 1)] \o WorkIn((s \o r)[m + i])
      BY <1>5, <3>2 DEF Steps
    <3>4. (s \o r)[m + i] = r[i]
      BY <1>6
    <3>5. h[m + (i - 1)] = f[m] \o g[i - 1]
      BY <2>2
    <3>6. h[m + i] = (f[m] \o g[i - 1]) \o WorkIn(r[i])
      BY <3>3, <3>4, <3>5
    <3>7. r[i] \in Item
      <4>1. i \in 1 .. Len(r)
        BY <1>1
      <4> QED BY <4>1
    <3>8. WorkIn(r[i]) \in Seq(Work)
      BY <3>7, WorkInType
    <3>9. g[i - 1] \in Seq(Work)
      BY <1>8
    <3>10. (f[m] \o g[i - 1]) \o WorkIn(r[i]) = f[m] \o (g[i - 1] \o WorkIn(r[i]))
      <4> HIDE DEF T
      <4>1. PICK a \in Seq(Work), b \in Seq(Work), c \in Seq(Work) :
              a = f[m] /\ b = g[i - 1] /\ c = WorkIn(r[i])
        BY <1>9, <3>8, <3>9
      <4>2. (a \o b) \o c = a \o (b \o c)
        BY ConcatAssociative
      <4> QED BY <4>1, <4>2
    <3>11. h[m + i] = f[m] \o g[i]
      BY <3>1, <3>6, <3>10
    <3>12. i \in 0 .. n
      OBVIOUS
    <3> QED BY <3>11, <3>12
  <2> HIDE DEF T
  <2>3. \A i \in 0 .. n : i \in T
    BY <2>1, <2>2, UpTo
  <2> QED BY <2>3 DEF T
<1>11. h[m + n] = f[m] \o g[n]
  <2>1. n \in 0 .. n
    OBVIOUS
  <2> QED BY <1>10, <2>1
<1> QED BY <1>3, <1>4, <1>5, <1>11

(* The work in an empty queue, and in a queue of one.                      *)
LEMMA WorkOfOne ==
  /\ WorkOf(<<>>) = <<>>
  /\ \A i \in Item : WorkOf(<<i>>) = WorkIn(i)
<1>1. WorkOf(<<>>) = <<>>
  <2>1. Len(<<>>) = 0 /\ 0 \in Nat
    OBVIOUS
  <2>2. PICK f : Steps(f, <<>>, 0) /\ WorkOf(<<>>) = f[0]
    BY <2>1, WorkGathered
  <2> QED BY <2>2 DEF Steps
<1>2. ASSUME NEW i \in Item PROVE WorkOf(<<i>>) = WorkIn(i)
  <2>1. Len(<<i>>) = 1 /\ 1 \in Nat
    OBVIOUS
  <2>2. PICK s : s = <<i>>
    OBVIOUS
  <2>3. PICK f : Steps(f, s, 1) /\ WorkOf(s) = f[1]
    BY <2>1, <2>2, WorkGathered
  <2>4. f[0] = <<>>
    BY <2>3 DEF Steps
  <2>5. f[1] = f[0] \o WorkIn(s[1])
    <3>1. 1 \in 1 .. 1 /\ 1 - 1 = 0
      OBVIOUS
    <3> QED BY <2>3, <3>1 DEF Steps
  <2>6. s[1] = i
    BY <2>2
  <2>7. WorkIn(i) \in Seq(Work)
    BY WorkInType
  <2>8. <<>> \o WorkIn(i) = WorkIn(i)
    BY <2>7
  <2> QED BY <2>2, <2>3, <2>4, <2>5, <2>6, <2>8
<1> QED BY <1>1, <1>2

-----------------------------------------------------------------------------
(* The order of the work *)

\* Of what was accepted, st was started and left is the newest; what lies
\* between, and nothing else of it, is gone; and nothing was accepted twice.
Lined(acc, st, left, gone) ==
  /\ Len(st) + Len(left) <= Len(acc)
  /\ \A i \in 1 .. Len(st) : acc[i] = st[i]
  /\ \A i \in 1 .. Len(left) : acc[Len(acc) - Len(left) + i] = left[i]
  /\ \A i \in 1 .. Len(acc) :
       acc[i] \in gone <=> Len(st) < i /\ i <= Len(acc) - Len(left)
  /\ \A i, j \in 1 .. Len(acc) : acc[i] = acc[j] => i = j

(* More work is accepted.                                                  *)
LEMMA LinedAccepts ==
  ASSUME NEW acc \in Seq(Work), NEW st \in Seq(Work), NEW left \in Seq(Work),
         NEW gone, NEW x \in Work,
         Lined(acc, st, left, gone), x \notin ToSet(acc) \cup gone
  PROVE  Lined(Append(acc, x), st, left \o <<x>>, gone)
<1> DEFINE n == Len(acc)
           p == Len(st)
           q == Len(left)
           a == Append(acc, x)
           l == left \o <<x>>
<1>1. n \in Nat /\ p \in Nat /\ q \in Nat
  OBVIOUS
<1>2. /\ Len(a) = n + 1 /\ a[n + 1] = x
      /\ \A i \in 1 .. n : a[i] = acc[i]
  OBVIOUS
<1>3. /\ Len(l) = q + 1 /\ l[q + 1] = x
      /\ \A i \in 1 .. q : l[i] = left[i]
  OBVIOUS
<1>4. \A i \in 1 .. n : acc[i] # x
  BY DEF ToSet
<1>5. x \notin gone
  OBVIOUS
<1>6. /\ p + q <= n
      /\ \A i \in 1 .. p : acc[i] = st[i]
      /\ \A i \in 1 .. q : acc[n - q + i] = left[i]
      /\ \A i \in 1 .. n : acc[i] \in gone <=> p < i /\ i <= n - q
      /\ \A i, j \in 1 .. n : acc[i] = acc[j] => i = j
  BY DEF Lined
<1> HIDE DEF n, p, q, a, l
<1>7. \A i \in 1 .. n + 1 : i \in 1 .. n \/ i = n + 1
  BY <1>1
<1>8. \A i \in 1 .. q + 1 : i \in 1 .. q \/ i = q + 1
  BY <1>1
<1>9. \A i \in 1 .. p : a[i] = st[i]
  <2>1. \A i \in 1 .. p : i \in 1 .. n
    BY <1>1, <1>6
  <2> QED BY <1>2, <1>6, <2>1
<1>10. \A i \in 1 .. q + 1 : a[(n + 1) - (q + 1) + i] = l[i]
  <2>1. ASSUME NEW i \in 1 .. q PROVE a[(n + 1) - (q + 1) + i] = l[i]
    <3>1. (n + 1) - (q + 1) + i = n - q + i /\ n - q + i \in 1 .. n
      BY <1>1, <1>6
    <3>2. a[n - q + i] = acc[n - q + i] /\ acc[n - q + i] = left[i] /\ l[i] = left[i]
      BY <1>2, <1>3, <1>6, <3>1
    <3> QED BY <3>1, <3>2
  <2>2. (n + 1) - (q + 1) + (q + 1) = n + 1
    BY <1>1
  <2> QED BY <1>2, <1>3, <1>8, <2>1, <2>2
<1>11. \A i \in 1 .. n + 1 : a[i] \in gone <=> p < i /\ i <= (n + 1) - (q + 1)
  <2>1. \A i \in 1 .. n : i <= (n + 1) - (q + 1) <=> i <= n - q
    BY <1>1
  <2>2. ~(n + 1 <= (n + 1) - (q + 1))
    BY <1>1
  <2>3. \A i \in 1 .. n : a[i] \in gone <=> p < i /\ i <= n - q
    BY <1>2, <1>6
  <2> QED BY <1>2, <1>5, <1>7, <2>1, <2>2, <2>3
<1>12. \A i, j \in 1 .. n + 1 : a[i] = a[j] => i = j
  <2>1. ASSUME NEW i \in 1 .. n + 1, NEW j \in 1 .. n + 1, a[i] = a[j] PROVE i = j
    <3>1. CASE i \in 1 .. n /\ j \in 1 .. n
      BY <1>2, <1>6, <2>1, <3>1
    <3>2. CASE i \in 1 .. n /\ j = n + 1
      BY <1>2, <1>4, <2>1, <3>2
    <3>3. CASE i = n + 1 /\ j \in 1 .. n
      BY <1>2, <1>4, <2>1, <3>3
    <3> QED BY <1>7, <3>1, <3>2, <3>3
  <2> QED BY <2>1
<1>13. p + (q + 1) <= n + 1
  BY <1>1, <1>6
<1>14. Lined(a, st, l, gone)
  BY <1>2, <1>3, <1>9, <1>10, <1>11, <1>12, <1>13 DEF Lined, p
<1> QED BY <1>14 DEF a, l

(* The first in line is started, when there is nothing before it.          *)
LEMMA LinedTakes ==
  ASSUME NEW acc \in Seq(Work), NEW st \in Seq(Work), NEW left \in Seq(Work),
         NEW gone, NEW x \in Work,
         Lined(acc, st, <<x>> \o left, gone), Len(acc) = Len(st) + Len(left) + 1
  PROVE  Lined(acc, st \o <<x>>, left, gone) /\ x \notin ToSet(st)
<1> DEFINE n == Len(acc)
           p == Len(st)
           q == Len(left)
           s == st \o <<x>>
           l == <<x>> \o left
<1>1. n \in Nat /\ p \in Nat /\ q \in Nat /\ n = p + q + 1
  OBVIOUS
<1>2. /\ Len(s) = p + 1 /\ s[p + 1] = x
      /\ \A i \in 1 .. p : s[i] = st[i]
  OBVIOUS
<1>3. /\ Len(l) = q + 1 /\ l[1] = x
      /\ \A i \in 1 .. q : l[i + 1] = left[i]
  OBVIOUS
<1>4. /\ \A i \in 1 .. p : acc[i] = st[i]
      /\ \A i \in 1 .. q + 1 : acc[n - (q + 1) + i] = l[i]
      /\ \A i \in 1 .. n : acc[i] \in gone <=> p < i /\ i <= n - (q + 1)
      /\ \A i, j \in 1 .. n : acc[i] = acc[j] => i = j
  BY <1>3 DEF Lined
<1>5. \A i \in 1 .. p : st[i] # x
  <2> SUFFICES ASSUME NEW i \in 1 .. p, st[i] = x PROVE FALSE
    OBVIOUS
  <2>1. 1 \in 1 .. q + 1 /\ n - (q + 1) + 1 = p + 1
    BY <1>1
  <2>2. acc[p + 1] = x
    BY <1>3, <1>4, <2>1
  <2>3. acc[i] = x
    BY <1>4
  <2>4. i \in 1 .. n /\ p + 1 \in 1 .. n /\ i # p + 1
    BY <1>1
  <2> QED BY <1>4, <2>2, <2>3, <2>4
<1>6. x \notin ToSet(st)
  <2>1. DOMAIN st = 1 .. p
    OBVIOUS
  <2> HIDE DEF p
  <2> QED BY <1>5, <2>1 DEF ToSet
<1> HIDE DEF n, p, q, s, l
<1>7. \A i \in 1 .. p + 1 : acc[i] = s[i]
  <2>1. \A i \in 1 .. p + 1 : i \in 1 .. p \/ i = p + 1
    BY <1>1
  <2>2. 1 \in 1 .. q + 1 /\ n - (q + 1) + 1 = p + 1
    BY <1>1
  <2>3. acc[p + 1] = x
    BY <1>3, <1>4, <2>2
  <2> QED BY <1>2, <1>4, <2>1, <2>3
<1>8. \A i \in 1 .. q : acc[n - q + i] = left[i]
  <2>1. \A i \in 1 .. q : i + 1 \in 1 .. q + 1 /\ n - (q + 1) + (i + 1) = n - q + i
    BY <1>1
  <2> QED BY <1>3, <1>4, <2>1
<1>9. \A i \in 1 .. n : acc[i] \in gone <=> p + 1 < i /\ i <= n - q
  <2>1. \A i \in 1 .. n : (p < i /\ i <= n - (q + 1)) <=> (p + 1 < i /\ i <= n - q)
    BY <1>1
  <2> QED BY <1>4, <2>1
<1>10. (p + 1) + q <= n
  BY <1>1
<1>11. Lined(acc, s, left, gone)
  BY <1>2, <1>4, <1>7, <1>8, <1>9, <1>10 DEF Lined, n, q
<1> QED BY <1>6, <1>11 DEF s

(* The first in line is cancelled.                                         *)
LEMMA LinedCancels ==
  ASSUME NEW acc \in Seq(Work), NEW st \in Seq(Work), NEW left \in Seq(Work),
         NEW gone, NEW x \in Work,
         Lined(acc, st, <<x>> \o left, gone)
  PROVE  Lined(acc, st, left, gone \cup {x})
<1> DEFINE n == Len(acc)
           p == Len(st)
           q == Len(left)
           l == <<x>> \o left
<1>1. n \in Nat /\ p \in Nat /\ q \in Nat
  OBVIOUS
<1>2. /\ Len(l) = q + 1 /\ l[1] = x
      /\ \A i \in 1 .. q : l[i + 1] = left[i]
  OBVIOUS
<1>3. /\ p + (q + 1) <= n
      /\ \A i \in 1 .. p : acc[i] = st[i]
      /\ \A i \in 1 .. q + 1 : acc[n - (q + 1) + i] = l[i]
      /\ \A i \in 1 .. n : acc[i] \in gone <=> p < i /\ i <= n - (q + 1)
      /\ \A i, j \in 1 .. n : acc[i] = acc[j] => i = j
  BY <1>2 DEF Lined
<1> HIDE DEF n, p, q, l
<1>4. acc[n - q] = x /\ n - q \in 1 .. n
  <2>1. 1 \in 1 .. q + 1 /\ n - (q + 1) + 1 = n - q /\ n - q \in 1 .. n
    BY <1>1, <1>3
  <2> QED BY <1>2, <1>3, <2>1
<1>5. \A i \in 1 .. q : acc[n - q + i] = left[i]
  <2>1. \A i \in 1 .. q : i + 1 \in 1 .. q + 1 /\ n - (q + 1) + (i + 1) = n - q + i
    BY <1>1
  <2> QED BY <1>2, <1>3, <2>1
<1>6. \A i \in 1 .. n : acc[i] \in gone \cup {x} <=> p < i /\ i <= n - q
  <2>1. \A i \in 1 .. n : acc[i] = x <=> i = n - q
    BY <1>3, <1>4
  <2>2. \A i \in 1 .. n : (p < i /\ i <= n - q)
                           <=> (p < i /\ i <= n - (q + 1)) \/ i = n - q
    BY <1>1, <1>3
  <2> QED BY <1>3, <2>1, <2>2
<1>7. p + q <= n
  BY <1>1, <1>3
<1> QED BY <1>3, <1>5, <1>6, <1>7 DEF Lined, n, p, q

(* Work that was not accepted is refused.                                  *)
LEMMA LinedRefuses ==
  ASSUME NEW acc \in Seq(Work), NEW st, NEW left, NEW gone, NEW x,
         Lined(acc, st, left, gone), x \notin ToSet(acc)
  PROVE  Lined(acc, st, left, gone \cup {x})
<1>1. \A i \in 1 .. Len(acc) : acc[i] # x
  BY DEF ToSet
<1>2. \A i \in 1 .. Len(acc) :
        acc[i] \in gone \cup {x} <=> Len(st) < i /\ i <= Len(acc) - Len(left)
  BY <1>1 DEF Lined
<1> QED BY <1>2 DEF Lined

(* The order, in the words of EachWorkOnce.                                *)
LEMMA LinedMeans ==
  ASSUME NEW acc \in Seq(Work), NEW st \in Seq(Work), NEW left \in Seq(Work),
         NEW gone, Lined(acc, st, left, gone)
  PROVE  /\ IsPrefix(st, acc)
         /\ IsSuffix(left, acc)
         /\ gone \cap ToSet(acc) =
              {acc[i] : i \in Len(st) + 1 .. Len(acc) - Len(left)}
<1>1. PICK n \in Nat, p \in Nat, q \in Nat : n = Len(acc) /\ p = Len(st) /\ q = Len(left)
  OBVIOUS
<1>2. /\ p + q <= n
      /\ \A i \in 1 .. p : acc[i] = st[i]
      /\ \A i \in 1 .. q : acc[n - q + i] = left[i]
      /\ \A i \in 1 .. n : acc[i] \in gone <=> p < i /\ i <= n - q
  BY <1>1 DEF Lined
<1>3. IsPrefix(st, acc)
  <2>1. p <= n
    BY <1>1, <1>2
  <2>2. SubSeq(st, 1, p) = SubSeq(acc, 1, p)
    <3>1. \A i \in 1 .. p : acc[i] \in Work /\ st[i] \in Work
      BY <1>1, <1>2
    <3>2. PICK u : u = SubSeq(st, 1, p)
      OBVIOUS
    <3>3. PICK v : v = SubSeq(acc, 1, p)
      OBVIOUS
    <3>4. u \in Seq(Work) /\ Len(u) = p /\ \A i \in 1 .. p : u[i] = st[i]
      BY <1>1, <3>2
    <3>5. v \in Seq(Work) /\ Len(v) = p /\ \A i \in 1 .. p : v[i] = acc[i]
      BY <1>1, <2>1, <3>3
    <3>6. u = v
      BY <1>2, <3>4, <3>5, SeqEqual
    <3> QED BY <3>2, <3>3, <3>6
  <2> QED BY <1>1, <2>1, <2>2 DEF IsPrefix
<1>4. IsSuffix(left, acc)
  <2> DEFINE a == Reverse(acc)
             l == Reverse(left)
  <2>1. /\ a \in Seq(Work) /\ Len(a) = n
        /\ \A i \in 1 .. n : a[i] = acc[(n - i) + 1]
    BY <1>1 DEF Reverse
  <2>2. /\ l \in Seq(Work) /\ Len(l) = q
        /\ \A i \in 1 .. q : l[i] = left[(q - i) + 1]
    BY <1>1 DEF Reverse
  <2> HIDE DEF a, l
  <2>3. q <= n
    BY <1>1, <1>2
  <2>4. \A i \in 1 .. q : a[i] = l[i]
    <3>1. ASSUME NEW i \in 1 .. q PROVE a[i] = l[i]
      <4>1. (q - i) + 1 \in 1 .. q /\ n - q + ((q - i) + 1) = (n - i) + 1 /\ i \in 1 .. n
        BY <1>1, <2>3
      <4>2. acc[n - q + ((q - i) + 1)] = left[(q - i) + 1]
        BY <1>2, <4>1
      <4> QED BY <2>1, <2>2, <4>1, <4>2
    <3> QED BY <3>1
  <2>5. SubSeq(l, 1, q) = SubSeq(a, 1, q)
    <3>2. PICK u : u = SubSeq(l, 1, q)
      OBVIOUS
    <3>3. PICK v : v = SubSeq(a, 1, q)
      OBVIOUS
    <3>4. u \in Seq(Work) /\ Len(u) = q /\ \A i \in 1 .. q : u[i] = l[i]
      BY <1>1, <2>2, <3>2
    <3>5. v \in Seq(Work) /\ Len(v) = q /\ \A i \in 1 .. q : v[i] = a[i]
      BY <1>1, <2>1, <2>3, <3>3
    <3>6. u = v
      BY <2>4, <3>4, <3>5, SeqEqual
    <3> QED BY <3>2, <3>3, <3>6
  <2>6. IsPrefix(l, a)
    BY <2>1, <2>2, <2>3, <2>5 DEF IsPrefix
  <2> QED BY <2>6 DEF IsSuffix, a, l
<1>5. gone \cap ToSet(acc) = {acc[i] : i \in p + 1 .. n - q}
  <2>1. ToSet(acc) = {acc[i] : i \in 1 .. n}
    BY <1>1 DEF ToSet
  <2>2. \A i \in p + 1 .. n - q : i \in 1 .. n /\ p < i /\ i <= n - q
    BY <1>1
  <2>3. \A i \in 1 .. n : p < i /\ i <= n - q => i \in p + 1 .. n - q
    BY <1>1
  <2> QED BY <1>2, <2>1, <2>2, <2>3
<1> QED BY <1>1, <1>3, <1>4, <1>5

-----------------------------------------------------------------------------
(* The invariant *)

Places == {"exited", "awake", "asleep", "working", "joining"}
Phases == {"running", "flagged", "cancelling", "stopping", "done"}

Types ==
  /\ owner \in Owners
  /\ switches \in Nat
  /\ tasks \in Seq(Item) /\ tasksToCancel \in Seq(Item)
  /\ threads \in Seq(Worker)
  /\ currentMode \in Nat /\ effectiveMode \in Nat
  /\ phase \in Phases
  /\ pc \in [Worker -> Places]
  /\ item \in [Worker -> Item]
  /\ accepted \in Seq(Work) /\ started \in Seq(Work)
  /\ finished \subseteq Work /\ cancelled \subseteq Work

Left == WorkOf(tasksToCancel \o tasks)

\* Until the queue is swapped nothing has been cancelled that was accepted;
\* afterwards nothing is queued.
PhaseInv ==
  /\ phase \in {"running", "flagged"} =>
       /\ tasksToCancel = <<>>
       /\ Len(accepted) = Len(started) + Len(Left)
  /\ phase \notin {"running", "flagged"} => tasks = <<>>

\* A change to no threads that is pending is the last task, or was taken.
TailInv ==
  phase = "running" /\ currentMode = 0 /\ tasks # <<>> =>
    Last(tasks).work = Nothing

\* it says what each worker has in hand: of what was started, each piece of
\* work is either finished or with one worker.
Hands(it, st, fin) ==
  /\ \A w \in Worker : it[w].work # Nothing => it[w].work \in ToSet(st) \ fin
  /\ \A x \in ToSet(st) : x \in fin \/ \E w \in Worker : it[w].work = x
  /\ fin \subseteq ToSet(st)
  /\ \A v, w \in Worker : it[v].work # Nothing /\ it[v].work = it[w].work => v = w

BusyInv == \A w \in Worker : item[w].work # Nothing => pc[w] = "working"

OnceInv ==
  /\ Types
  /\ PhaseInv
  /\ TailInv
  /\ Lined(accepted, started, Left, cancelled)
  /\ Hands(item, started, finished)
  /\ BusyInv

\* A device's scheduler: one thread, started once; everything queued is work.
OnlyWork(s) == \A i \in 1 .. Len(s) : s[i].work \in Work

DeviceInv ==
  owner = "device" =>
    /\ switches \in {0, 1}
    /\ switches = 0 => /\ phase = "running" /\ currentMode = 0 /\ effectiveMode = 0
                       /\ threads = <<>>
                       /\ \A w \in Worker : pc[w] = "exited"
    /\ OnlyWork(tasks) /\ OnlyWork(tasksToCancel)
    /\ \A w \in Worker : pc[w] = "working" => item[w].work \in Work
    /\ \A w \in Worker : pc[w] # "joining"
    /\ \A v, w \in Worker : pc[v] # "exited" /\ pc[w] # "exited" => v = w

-----------------------------------------------------------------------------
(* What a change of the number of threads does to them *)

(* The free workers, in some order, are free workers.                      *)
LEMMA FreshAreFree ==
  /\ SetToSeq(Free) \in Seq(Free)
  /\ Free \subseteq Worker
<1>1. Free \subseteq Worker
  BY DEF Free
<1>2. IsFiniteSet(Worker)
  BY SchedulerAssumption, FS_Interval DEF Worker
<1>3. IsFiniteSet(Free)
  BY <1>1, <1>2, FS_Subset
<1>4. Cardinality(Free) \in Nat /\ ExistsBijection(1 .. Cardinality(Free), Free)
  BY <1>3, FS_CardinalityType
<1>5. PICK c \in Nat : c = Cardinality(Free)
  BY <1>4
<1>6. \E f \in [1 .. c -> Free] : IsInjective(f)
  BY <1>4, <1>5 DEF ExistsBijection, Bijection, Injection
<1>7. SetToSeq(Free) \in [1 .. c -> Free]
  BY <1>5, <1>6 DEF SetToSeq
<1>8. SetToSeq(Free) \in Seq(Free)
  BY <1>7
<1> QED BY <1>1, <1>8

\* The threads that a change to n of them starts.
BornFor(n) == [i \in 1 .. n - Len(threads) |-> SetToSeq(Free)[i]]

(* Threads that are started were free.                                     *)
LEMMA BornAreFree ==
  ASSUME threads \in Seq(Worker), NEW n \in Nat,
         n - Len(threads) <= Len(SetToSeq(Free))
  PROVE  BornFor(n) \in Seq(Free)
<1>1. PICK k \in Nat : k = Len(threads)
  OBVIOUS
<1>2. PICK f \in Seq(Free) : f = SetToSeq(Free)
  BY FreshAreFree
<1>3. \A i \in 1 .. n - k : f[i] \in Free
  BY <1>1, <1>2
<1>4. CASE n - k \in Nat
  <2>1. [i \in 1 .. n - k |-> f[i]] \in [1 .. n - k -> Free]
    BY <1>3
  <2>2. [i \in 1 .. n - k |-> f[i]] \in Seq(Free)
    BY <1>4, <2>1
  <2> QED BY <1>1, <1>2, <2>2 DEF BornFor
<1>5. CASE n - k \notin Nat
  <2>1. 1 .. n - k = {}
    BY <1>5
  <2>2. [i \in 1 .. n - k |-> f[i]] = <<>>
    BY <2>1
  <2>3. <<>> \in Seq(Free)
    OBVIOUS
  <2> QED BY <1>1, <1>2, <2>2, <2>3 DEF BornFor
<1> QED BY <1>4, <1>5

\* What is left of pc and threads by a change to n threads that self makes.
Resized(n, self, selfPc) ==
  /\ pc' \in [Worker -> Places]
  /\ threads' \in Seq(Worker)
  /\ effectiveMode' = n
  /\ self \in Worker => pc'[self] = selfPc
  /\ \A w \in Worker \ {self} :
       \/ pc'[w] = pc[w]
       \/ pc[w] = "asleep" /\ pc'[w] = "awake"
       \/ pc[w] = "exited" /\ pc'[w] = "awake" /\ w \in ToSet(BornFor(n))

(* SetSchedulingModeImpl changes the threads so.                           *)
LEMMA ImplResizes ==
  ASSUME Types, NEW n \in Nat, NEW self, NEW selfPc \in Places,
         self \in Worker => pc[self] = "working",
         SetSchedulingModeImpl(n, self, selfPc)
  PROVE  Resized(n, self, selfPc)
<1> DEFINE old == Len(threads)
           born == BornFor(n)
           surplus == {threads[i] : i \in n + 1 .. old}
           woken == NotifyToLeave(surplus \ {self})
<1>1. /\ n - old <= Len(SetToSeq(Free))
      /\ effectiveMode' = n
      /\ threads' = SubSeq(threads, 1, IF n < old THEN n ELSE old) \o born
      /\ pc' = [w \in Worker |->
                  CASE w = self -> selfPc
                    [] w \in ToSet(born) \cup woken -> "awake"
                    [] OTHER -> pc[w]]
  BY DEF SetSchedulingModeImpl, BornFor
<1>2. threads \in Seq(Worker) /\ old \in Nat /\ pc \in [Worker -> Places]
  BY DEF Types
<1>3. born \in Seq(Free)
  BY <1>1, <1>2, BornAreFree
<1>4. \A w \in ToSet(born) : w \in Worker /\ pc[w] = "exited"
  <2>1. \A w \in ToSet(born) : w \in Free
    <3> HIDE DEF born
    <3> QED BY <1>3 DEF ToSet
  <2> QED BY <2>1 DEF Free
<1>5. \A w \in woken : pc[w] = "asleep"
  BY DEF NotifyToLeave, Asleep
<1> HIDE DEF born, woken, surplus
<1>6. threads' \in Seq(Worker)
  <2>1. born \in Seq(Worker)
    BY <1>3, FreshAreFree, SeqMonotonic
  <2>2. PICK m \in 0 .. old : m = IF n < old THEN n ELSE old
    BY <1>2
  <2>3. SubSeq(threads, 1, m) \in Seq(Worker)
    BY <1>2, <2>2
  <2> QED BY <1>1, <2>1, <2>2, <2>3
<1>7. ASSUME NEW w \in Worker, w = self
      PROVE  pc'[w] = selfPc
  <2>1. w \notin ToSet(born) \cup woken
    BY <1>4, <1>5, <1>7
  <2> QED BY <1>1, <1>7, <2>1
<1>8. ASSUME NEW w \in Worker, w # self
      PROVE  \/ pc'[w] = pc[w]
             \/ pc[w] = "asleep" /\ pc'[w] = "awake"
             \/ pc[w] = "exited" /\ pc'[w] = "awake" /\ w \in ToSet(born)
  <2>1. CASE w \in ToSet(born) \cup woken
    <3>1. pc'[w] = "awake"
      BY <1>1, <1>8, <2>1
    <3> QED BY <1>4, <1>5, <2>1, <3>1
  <2>2. CASE w \notin ToSet(born) \cup woken
    <3>1. pc'[w] = pc[w]
      BY <1>1, <1>8, <2>2
    <3> QED BY <3>1
  <2> QED BY <2>1, <2>2
<1>9. pc' \in [Worker -> Places]
  <2>1. \A w \in Worker : pc'[w] \in Places
    BY <1>2, <1>7, <1>8 DEF Places
  <2>2. pc' = [w \in Worker |-> pc'[w]]
    BY <1>1
  <2> QED BY <2>1, <2>2
<1> QED BY <1>1, <1>6, <1>7, <1>8, <1>9 DEF Resized, born

-----------------------------------------------------------------------------
(* Work runs once *)

(* A worker's task has ended and it has no work now.                       *)
LEMMA HandsReturn ==
  ASSUME NEW it \in [Worker -> Item], NEW w \in Worker, NEW j \in Item, j.work = Nothing,
         NEW st \in Seq(Work), NEW fin, Hands(it, st, fin)
  PROVE  Hands([it EXCEPT ![w] = j], st, fin \cup ({it[w].work} \ {Nothing}))
<1> DEFINE new == [it EXCEPT ![w] = j]
           all == fin \cup ({it[w].work} \ {Nothing})
<1>1. /\ new[w].work = Nothing
      /\ \A v \in Worker : v # w => new[v] = it[v]
  OBVIOUS
<1> HIDE DEF new
<1>2. \A v \in Worker : new[v].work # Nothing => new[v].work \in ToSet(st) \ all
  <2>1. ASSUME NEW v \in Worker, new[v].work # Nothing
        PROVE  new[v].work \in ToSet(st) \ all
    <3>1. v # w /\ new[v] = it[v]
      BY <1>1, <2>1
    <3>2. it[v].work # it[w].work
      BY <2>1, <3>1 DEF Hands
    <3>3. it[v].work \in ToSet(st) \ fin
      BY <2>1, <3>1 DEF Hands
    <3> QED BY <3>1, <3>2, <3>3
  <2> QED BY <2>1
<1>3. \A x \in ToSet(st) : x \in all \/ \E v \in Worker : new[v].work = x
  <2>1. ASSUME NEW x \in ToSet(st), x \notin all PROVE \E v \in Worker : new[v].work = x
    <3>1. PICK v \in Worker : it[v].work = x
      BY <2>1 DEF Hands
    <3>2. CASE v = w
      <4>1. x = Nothing
        BY <2>1, <3>1, <3>2
      <4> QED BY <1>1, <4>1
    <3>3. CASE v # w
      BY <1>1, <3>1, <3>3
    <3> QED BY <3>2, <3>3
  <2> QED BY <2>1
<1>4. all \subseteq ToSet(st)
  BY DEF Hands
<1>5. \A u, v \in Worker : new[u].work # Nothing /\ new[u].work = new[v].work => u = v
  <2>1. ASSUME NEW u \in Worker, NEW v \in Worker,
               new[u].work # Nothing, new[u].work = new[v].work
        PROVE  u = v
    <3>1. u # w /\ v # w
      BY <1>1, <2>1
    <3>2. it[u].work # Nothing /\ it[u].work = it[v].work
      BY <1>1, <2>1, <3>1
    <3> QED BY <3>2 DEF Hands
  <2> QED BY <2>1
<1>6. Hands(new, st, all)
  BY <1>2, <1>3, <1>4, <1>5 DEF Hands
<1> QED BY <1>6 DEF new

(* A worker without work takes work that was not started.                  *)
LEMMA HandsTake ==
  ASSUME NEW it \in [Worker -> Item], NEW w \in Worker, it[w].work = Nothing,
         NEW j \in Item, j.work # Nothing,
         NEW st \in Seq(Work), NEW fin, Hands(it, st, fin), j.work \notin ToSet(st)
  PROVE  Hands([it EXCEPT ![w] = j], st \o <<j.work>>, fin)
<1> DEFINE new == [it EXCEPT ![w] = j]
           more == st \o <<j.work>>
<1>1. /\ new[w] = j
      /\ \A v \in Worker : v # w => new[v] = it[v]
  OBVIOUS
<1>2. ToSet(more) = ToSet(st) \cup {j.work}
  <2>1. PICK x \in Work : x = j.work
    BY DEF Item
  <2>2. PICK n \in Nat : n = Len(st)
    OBVIOUS
  <2>3. /\ DOMAIN (st \o <<x>>) = 1 .. n + 1 /\ (st \o <<x>>)[n + 1] = x
        /\ \A i \in 1 .. n : (st \o <<x>>)[i] = st[i]
        /\ DOMAIN st = 1 .. n
    BY <2>2
  <2>4. \A i \in 1 .. n + 1 : i \in 1 .. n \/ i = n + 1
    BY <2>2
  <2>5. \A i \in 1 .. n : i \in 1 .. n + 1
    BY <2>2
  <2>6. n + 1 \in 1 .. n + 1
    BY <2>2
  <2> QED BY <2>1, <2>3, <2>4, <2>5, <2>6 DEF ToSet
<1>3. \A v \in Worker : it[v].work # j.work
  BY DEF Hands
<1> HIDE DEF new, more
<1>4. \A v \in Worker : new[v].work # Nothing => new[v].work \in ToSet(more) \ fin
  <2>1. j.work \notin fin
    BY DEF Hands
  <2>2. \A v \in Worker : it[v].work # Nothing => it[v].work \in ToSet(st) \ fin
    BY DEF Hands
  <2> QED BY <1>1, <1>2, <2>1, <2>2
<1>5. \A x \in ToSet(more) : x \in fin \/ \E v \in Worker : new[v].work = x
  <2>1. ASSUME NEW x \in ToSet(more), x \notin fin PROVE \E v \in Worker : new[v].work = x
    <3>1. CASE x = j.work
      BY <1>1, <3>1
    <3>2. CASE x # j.work
      <4>1. x \in ToSet(st)
        BY <1>2, <3>2
      <4>2. PICK v \in Worker : it[v].work = x
        BY <2>1, <4>1 DEF Hands
      <4>3. CASE v = w
        <5>1. x = Nothing
          BY <4>2, <4>3
        <5>2. Nothing \notin ToSet(st)
          <6>1. \A y \in ToSet(st) : y \in Work
            BY DEF ToSet
          <6> QED BY <6>1, SchedulerAssumption
        <5> QED BY <4>1, <5>1, <5>2
      <4>4. CASE v # w
        BY <1>1, <4>2, <4>4
      <4> QED BY <4>3, <4>4
    <3> QED BY <3>1, <3>2
  <2> QED BY <2>1
<1>6. fin \subseteq ToSet(more)
  BY <1>2 DEF Hands
<1>7. \A u, v \in Worker : new[u].work # Nothing /\ new[u].work = new[v].work => u = v
  <2>1. ASSUME NEW u \in Worker, NEW v \in Worker,
               new[u].work # Nothing, new[u].work = new[v].work
        PROVE  u = v
    <3>1. CASE u = w /\ v # w
      BY <1>1, <1>3, <2>1, <3>1
    <3>2. CASE u # w /\ v = w
      BY <1>1, <1>3, <2>1, <3>2
    <3>3. CASE u # w /\ v # w
      <4>1. it[u].work # Nothing /\ it[u].work = it[v].work
        BY <1>1, <2>1, <3>3
      <4> QED BY <4>1 DEF Hands
    <3> QED BY <3>1, <3>2, <3>3
  <2> QED BY <2>1
<1>8. Hands(new, more, fin)
  BY <1>4, <1>5, <1>6, <1>7 DEF Hands
<1> QED BY <1>8 DEF new, more

(* The work of a queue that has a first task.                              *)
LEMMA WorkOfHead ==
  ASSUME NEW s \in Seq(Item), s # <<>>
  PROVE  /\ Head(s) \in Item /\ Tail(s) \in Seq(Item)
         /\ WorkOf(s) = WorkOf(<<Head(s)>>) \o WorkOf(Tail(s))
         /\ WorkOf(<<Head(s)>>) = WorkIn(Head(s))
<1>0. /\ Head(s) \in Item /\ Tail(s) \in Seq(Item) /\ Head(s) = s[1]
      /\ Len(Tail(s)) = Len(s) - 1 /\ Len(s) \in Nat
      /\ \A k \in 1 .. Len(Tail(s)) : Tail(s)[k] = s[k + 1]
  BY HeadTailProperties
<1>1. PICK i \in Item, t \in Seq(Item) : i = Head(s) /\ t = Tail(s) /\ s = <<i>> \o t
  <2>1. PICK i \in Item, t \in Seq(Item) : i = Head(s) /\ t = Tail(s)
    BY <1>0
  <2>2. <<i>> \o t \in Seq(Item) /\ Len(<<i>> \o t) = Len(s)
    BY <1>0, <2>1
  <2>3. \A k \in 1 .. Len(s) : s[k] = (<<i>> \o t)[k]
    BY <1>0, <2>1
  <2>4. s = <<i>> \o t
    BY <2>2, <2>3, SeqEqual
  <2> QED BY <2>1, <2>4
<1>2. <<i>> \in Seq(Item)
  OBVIOUS
<1>3. WorkOf(<<i>> \o t) = WorkOf(<<i>>) \o WorkOf(t)
  BY <1>2, WorkOfConcat
<1>4. WorkOf(<<i>>) = WorkIn(i)
  BY WorkOfOne
<1> QED BY <1>1, <1>3, <1>4

(* The task that is taken from the queue is the next in order.             *)
LEMMA TakesNext ==
  ASSUME Types, PhaseInv, Lined(accepted, started, Left, cancelled), tasks # <<>>
  PROVE  LET i   == Head(tasks)
             st  == started \o WorkOf(<<i>>)
             new == WorkOf(tasksToCancel \o Tail(tasks))
         IN  /\ phase \in {"running", "flagged"} /\ tasksToCancel = <<>>
             /\ i \in Item /\ Tail(tasks) \in Seq(Item)
             /\ st \in Seq(Work)
             /\ Lined(accepted, st, new, cancelled)
             /\ Len(accepted) = Len(st) + Len(new)
             /\ i.work = Nothing => st = started
             /\ i.work # Nothing => st = started \o <<i.work>> /\ i.work \notin ToSet(started)
<1>1. phase \in {"running", "flagged"} /\ tasksToCancel = <<>>
      /\ Len(accepted) = Len(started) + Len(Left)
  BY DEF PhaseInv
<1>2. PICK t \in Seq(Item) : t = Tail(tasks)
  BY HeadTailProperties DEF Types
<1>3. PICK i \in Item : i = Head(tasks)
  BY HeadTailProperties DEF Types
<1>4. Left = WorkIn(i) \o WorkOf(t) /\ WorkOf(<<i>>) = WorkIn(i)
  <2>1. <<>> \o tasks = tasks
    BY DEF Types
  <2>2. tasks \in Seq(Item)
    BY DEF Types
  <2>3. WorkOf(tasks) = WorkOf(<<Head(tasks)>>) \o WorkOf(Tail(tasks))
        /\ WorkOf(<<Head(tasks)>>) = WorkIn(Head(tasks))
    BY <2>2, WorkOfHead
  <2> QED BY <1>1, <1>2, <1>3, <2>1, <2>3 DEF Left
<1>5. WorkOf(tasksToCancel \o Tail(tasks)) = WorkOf(t)
  <2>1. <<>> \o t = t
    OBVIOUS
  <2> QED BY <1>1, <1>2, <2>1
<1>6. PICK new \in Seq(Work) : new = WorkOf(t)
  BY WorkOfType
<1>7. accepted \in Seq(Work) /\ started \in Seq(Work)
  BY DEF Types
<1>8. CASE i.work = Nothing
  <2>1. WorkIn(i) = <<>>
    BY <1>8 DEF WorkIn
  <2>2. <<>> \o new = new /\ started \o <<>> = started
    BY <1>7
  <2>3. Lined(accepted, started, new, cancelled) /\ Len(accepted) = Len(started) + Len(new)
    BY <1>1, <1>4, <1>6, <2>1, <2>2
  <2> QED BY <1>1, <1>2, <1>3, <1>4, <1>5, <1>6, <1>7, <1>8, <2>1, <2>2, <2>3
<1>9. CASE i.work # Nothing
  <2>1. PICK x \in Work : x = i.work
    BY <1>9 DEF Item
  <2>2. WorkIn(i) = <<x>>
    BY <1>9, <2>1 DEF WorkIn
  <2>3. Lined(accepted, started, <<x>> \o new, cancelled)
    BY <1>4, <1>6, <2>2
  <2>4. Len(<<x>> \o new) = 1 + Len(new) /\ Len(new) \in Nat
    OBVIOUS
  <2>5. Len(accepted) = Len(started) + Len(new) + 1
    <3>1. Len(started) \in Nat
      BY <1>7
    <3>2. Len(accepted) = Len(started) + Len(<<x>> \o new)
      BY <1>1, <1>4, <1>6, <2>2
    <3> QED BY <2>4, <3>1, <3>2
  <2>6. Lined(accepted, started \o <<x>>, new, cancelled) /\ x \notin ToSet(started)
    BY <1>7, <2>3, <2>5, LinedTakes
  <2>7. PICK st \in Seq(Work) : st = started \o <<x>> /\ Len(st) = Len(started) + 1
    <3>1. started \o <<x>> \in Seq(Work) /\ Len(started \o <<x>>) = Len(started) + 1
      BY <1>7
    <3> QED BY <3>1
  <2>8. Len(accepted) = Len(st) + Len(new)
    <3>1. Len(started) \in Nat
      BY <1>7
    <3> QED BY <2>4, <2>5, <2>7, <3>1
  <2> QED BY <1>1, <1>2, <1>3, <1>4, <1>5, <1>6, <1>9, <2>1, <2>2, <2>6, <2>7, <2>8
<1> QED BY <1>8, <1>9

(* At first nothing has been accepted.                                     *)
LEMMA OnceInit == Init => OnceInv
<1> SUFFICES ASSUME Init PROVE OnceInv
  OBVIOUS
<1>1. NoItem \in Item /\ NoItem.work = Nothing
  BY DEF NoItem, ModeItem, Item
<1>2. Types
  <2>1. item \in [Worker -> Item]
    BY <1>1 DEF Init
  <2>2. pc \in [Worker -> Places]
    BY DEF Init, Places
  <2>3. <<>> \in Seq(Item) /\ <<>> \in Seq(Worker) /\ <<>> \in Seq(Work)
    OBVIOUS
  <2>4. phase \in Phases
    BY DEF Init, Phases
  <2> QED BY <2>1, <2>2, <2>3, <2>4 DEF Init, Types
<1>3. Left = <<>>
  <2>1. <<>> \o <<>> = <<>>
    OBVIOUS
  <2> QED BY <2>1, WorkOfOne DEF Left, Init
<1>4. Len(<<>>) = 0 /\ ToSet(<<>>) = {}
  BY DEF ToSet
<1>5. PhaseInv
  BY <1>3, <1>4 DEF PhaseInv, Init
<1>6. TailInv
  BY DEF TailInv, Init
<1>7. Lined(accepted, started, Left, cancelled)
  BY <1>3, <1>4 DEF Lined, Init
<1>8. \A w \in Worker : item[w].work = Nothing
  BY <1>1 DEF Init
<1>9. Hands(item, started, finished)
  BY <1>4, <1>8 DEF Hands, Init
<1>10. BusyInv
  BY <1>8 DEF BusyInv
<1> QED BY <1>2, <1>5, <1>6, <1>7, <1>9, <1>10 DEF OnceInv

(* Work that is accepted joins the queue at the end, and work that is not  *)
(* is cancelled at once.                                                   *)
LEMMA OnceQueueTask ==
  ASSUME OnceInv, NEW x \in Work, QueueTask(x)
  PROVE  OnceInv'
<1>0. Types /\ PhaseInv /\ TailInv /\ BusyInv /\ Hands(item, started, finished)
      /\ Lined(accepted, started, Left, cancelled)
  BY DEF OnceInv
<1>1. /\ UNCHANGED <<owner, switches, threads, effectiveMode, currentMode, phase,
                     tasksToCancel, item, started, finished>>
      /\ x \notin ToSet(accepted) \cup cancelled
  BY DEF QueueTask, ownerVars, poolVars, shutVars
<1>2. Left \in Seq(Work)
  <2>1. tasksToCancel \o tasks \in Seq(Item)
    BY <1>0 DEF Types
  <2> QED BY <2>1, WorkOfType DEF Left
<1>3. CASE cancelled' = cancelled \cup {x} /\ UNCHANGED <<tasks, accepted, pc>>
  <2>1. Types'
    BY <1>0, <1>1, <1>3 DEF Types
  <2>2. PhaseInv' /\ TailInv' /\ BusyInv' /\ Hands(item, started, finished)'
    BY <1>0, <1>1, <1>3 DEF PhaseInv, TailInv, BusyInv, Left
  <2>3. Lined(accepted, started, Left, cancelled \cup {x})
    <3>1. accepted \in Seq(Work)
      BY <1>0 DEF Types
    <3> QED BY <1>0, <1>1, <3>1, LinedRefuses
  <2>4. Lined(accepted, started, Left, cancelled)'
    BY <1>1, <1>3, <2>3 DEF Left
  <2> QED BY <2>1, <2>2, <2>4 DEF OnceInv
<1>4. CASE /\ phase = "running" /\ currentMode # 0
           /\ tasks' = Append(tasks, WorkItem(x))
           /\ accepted' = Append(accepted, x)
           /\ NotifyOne
           /\ cancelled' = cancelled
  <2>1. WorkItem(x) \in Item /\ WorkItem(x).work = x /\ x # Nothing
    BY SchedulerAssumption DEF WorkItem, Item
  <2>2. tasksToCancel = <<>>
    BY <1>0, <1>4 DEF PhaseInv
  <2>3. Left' = Left \o <<x>>
    <3>1. PICK i \in Item : i = WorkItem(x)
      BY <2>1
    <3>2. PICK q \in Seq(Item) : q = tasks
      BY <1>0 DEF Types
    <3>3. Append(q, i) = q \o <<i>> /\ <<i>> \in Seq(Item) /\ <<>> \o q = q
          /\ <<>> \o (q \o <<i>>) = q \o <<i>>
      OBVIOUS
    <3>4. WorkOf(q \o <<i>>) = WorkOf(q) \o WorkOf(<<i>>)
      BY <3>3, WorkOfConcat
    <3>5. WorkOf(<<i>>) = <<x>>
      BY <2>1, <3>1, WorkOfOne DEF WorkIn
    <3>6. Left = WorkOf(q)
      BY <2>2, <3>2, <3>3 DEF Left
    <3>7. Left' = WorkOf(q \o <<i>>)
      BY <1>1, <1>4, <2>2, <3>1, <3>2, <3>3 DEF Left
    <3> QED BY <3>4, <3>5, <3>6, <3>7
  <2>4. pc' \in [Worker -> Places] /\ \A w \in Worker : pc[w] = "working" => pc'[w] = "working"
    BY <1>0, <1>4 DEF NotifyOne, Asleep, Types, Places
  <2>5. Types'
    <3>1. tasks' \in Seq(Item) /\ accepted' \in Seq(Work)
      BY <1>0, <1>4, <2>1 DEF Types
    <3> QED BY <1>0, <1>1, <1>4, <2>4, <3>1 DEF Types
  <2>6. PhaseInv'
    <3>1. Len(Left \o <<x>>) = Len(Left) + 1 /\ Len(Left) \in Nat
      BY <1>2
    <3>2. Len(Append(accepted, x)) = Len(accepted) + 1 /\ Len(started) \in Nat
      BY <1>0 DEF Types
    <3>3. Len(accepted) = Len(started) + Len(Left)
      BY <1>0, <1>4 DEF PhaseInv
    <3>4. Len(accepted') = Len(started') + Len(Left')
      BY <1>1, <1>4, <2>3, <3>1, <3>2, <3>3
    <3> QED BY <1>1, <1>4, <2>2, <3>4 DEF PhaseInv
  <2>7. TailInv'
    BY <1>1, <1>4 DEF TailInv
  <2>8. Lined(Append(accepted, x), started, Left \o <<x>>, cancelled)
    <3>1. accepted \in Seq(Work) /\ started \in Seq(Work)
      BY <1>0 DEF Types
    <3> QED BY <1>0, <1>1, <1>2, <3>1, LinedAccepts
  <2>9. Lined(accepted, started, Left, cancelled)'
    BY <1>1, <1>4, <2>3, <2>8
  <2>10. BusyInv' /\ Hands(item, started, finished)'
    BY <1>0, <1>1, <2>4 DEF BusyInv
  <2> QED BY <2>5, <2>6, <2>7, <2>9, <2>10 DEF OnceInv
<1> QED BY <1>3, <1>4 DEF QueueTask

\* A step that leaves work and queue where they are.
Quiet ==
  /\ UNCHANGED <<owner, tasks, tasksToCancel, item, accepted, started, finished, cancelled>>
  /\ switches' \in Nat /\ currentMode' \in Nat /\ effectiveMode' \in Nat
  /\ threads' \in Seq(Worker)
  /\ pc' \in [Worker -> Places]
  /\ \A w \in Worker : pc[w] = "working" /\ item[w].work # Nothing => pc'[w] = "working"
  /\ phase' \in Phases
  /\ phase' \in {"running", "flagged"} <=> phase \in {"running", "flagged"}
  /\ phase' = "running" /\ currentMode' = 0 =>
       tasks = <<>> \/ (phase = "running" /\ currentMode = 0)

(* It keeps the invariant.                                                 *)
LEMMA OnceQuiet ==
  ASSUME OnceInv, Quiet
  PROVE  OnceInv'
<1>0. Types /\ PhaseInv /\ TailInv /\ BusyInv /\ Hands(item, started, finished)
      /\ Lined(accepted, started, Left, cancelled)
  BY DEF OnceInv
<1>1. Types'
  BY <1>0 DEF Types, Quiet
<1>2. Left' = Left
  BY DEF Quiet, Left
<1>3. PhaseInv'
  BY <1>0, <1>2 DEF PhaseInv, Quiet
<1>4. TailInv'
  BY <1>0 DEF TailInv, Quiet
<1>5. BusyInv'
  BY <1>0 DEF BusyInv, Quiet
<1>6. Hands(item, started, finished)' /\ Lined(accepted, started, Left, cancelled)'
  BY <1>0, <1>2 DEF Quiet
<1> QED BY <1>1, <1>3, <1>4, <1>5, <1>6 DEF OnceInv

(* Such are the steps that change the threads or how far Shutdown has come.*)
LEMMA QuietSteps ==
  ASSUME OnceInv,
         \/ SetSchedulingModeNow
         \/ Shutdown \/ StopThreads \/ JoinExitingThreads
         \/ \E w \in Worker : SetSchedulingModeTask(w) \/ SpuriousWakeup(w)
  PROVE  Quiet
<1>0. Types /\ BusyInv
  BY DEF OnceInv
<1>1. ASSUME NEW n \in Nat, NEW self, NEW selfPc \in Places,
             self \in Worker => pc[self] = "working" /\ item[self].work = Nothing,
             SetSchedulingModeImpl(n, self, selfPc)
      PROVE  /\ effectiveMode' \in Nat /\ threads' \in Seq(Worker) /\ pc' \in [Worker -> Places]
             /\ \A w \in Worker : pc[w] = "working" /\ item[w].work # Nothing => pc'[w] = "working"
  <2>1. Resized(n, self, selfPc)
    BY <1>0, <1>1, ImplResizes
  <2> QED BY <1>1, <2>1 DEF Resized
<1>2. Owner \notin Worker /\ "awake" \in Places /\ "joining" \in Places /\ 0 \in Nat
  BY SchedulerAssumption DEF Owner, Worker, Places
<1>3. CASE SetSchedulingModeNow
  <2>1. NextMode \in Nat
    BY SchedulerAssumption DEF NextMode
  <2>2. /\ effectiveMode' \in Nat /\ threads' \in Seq(Worker) /\ pc' \in [Worker -> Places]
        /\ \A w \in Worker : pc[w] = "working" /\ item[w].work # Nothing => pc'[w] = "working"
    BY <1>1, <1>2, <1>3, <2>1 DEF SetSchedulingModeNow
  <2>3. currentMode' = 0 => tasks = <<>>
    BY <1>0, <1>3, <2>1 DEF SetSchedulingModeNow, Immediate, IsSchedulerIdle, Types
  <2>4. switches' \in Nat
    BY <1>0, <1>3 DEF SetSchedulingModeNow, OwnerCalls, Types
  <2>5. /\ UNCHANGED <<owner, tasks, tasksToCancel, item, accepted, started, finished,
                       cancelled, phase>>
        /\ currentMode' \in Nat
    BY <1>3, <2>1 DEF SetSchedulingModeNow, OwnerCalls, queueVars, shutVars, history
  <2>6. phase \in Phases
    BY <1>0 DEF Types
  <2> QED BY <2>2, <2>3, <2>4, <2>5, <2>6 DEF Quiet
<1>4. CASE Shutdown
  BY <1>0, <1>4 DEF Shutdown, Quiet, Types, Phases, ownerVars, queueVars, poolVars, history
<1>5. CASE StopThreads
  <2>1. /\ effectiveMode' \in Nat /\ threads' \in Seq(Worker) /\ pc' \in [Worker -> Places]
        /\ \A w \in Worker : pc[w] = "working" /\ item[w].work # Nothing => pc'[w] = "working"
    BY <1>1, <1>2, <1>5 DEF StopThreads
  <2> QED BY <1>0, <1>2, <1>5, <2>1
          DEF StopThreads, Quiet, Types, Phases, ownerVars, queueVars, history
<1>6. CASE JoinExitingThreads
  BY <1>0, <1>6
          DEF JoinExitingThreads, Quiet, Types, Phases, ownerVars, queueVars, poolVars, history
<1>7. ASSUME NEW w \in Worker, SetSchedulingModeTask(w) PROVE Quiet
  <2>1. item[w].mode \in Nat
    <3>1. item[w] \in Item
      BY <1>0 DEF Types
    <3> QED BY <3>1 DEF Item
  <2>2. /\ effectiveMode' \in Nat /\ threads' \in Seq(Worker) /\ pc' \in [Worker -> Places]
        /\ \A v \in Worker : pc[v] = "working" /\ item[v].work # Nothing => pc'[v] = "working"
    BY <1>1, <1>2, <1>7, <2>1 DEF SetSchedulingModeTask
  <2> QED BY <1>0, <1>7, <2>2
          DEF SetSchedulingModeTask, Quiet, Types, ownerVars, queueVars, shutVars, history
<1>8. ASSUME NEW w \in Worker, SpuriousWakeup(w) PROVE Quiet
  <2>1. pc' \in [Worker -> Places] /\ \A v \in Worker : pc[v] = "working" => pc'[v] = "working"
    BY <1>0, <1>8 DEF SpuriousWakeup, Types, Places
  <2> QED BY <1>0, <1>8, <2>1
          DEF SpuriousWakeup, Quiet, Types, ownerVars, queueVars, poolVars, shutVars, history
<1> QED BY <1>3, <1>4, <1>5, <1>6, <1>7, <1>8

(* A change of mode in a queue is no work, nor is one in place of another. *)
LEMMA WorkOfMode ==
  ASSUME NEW s \in Seq(Item), NEW m \in Item, m.work = Nothing
  PROVE  /\ Append(s, m) \in Seq(Item)
         /\ WorkOf(Append(s, m)) = WorkOf(s)
         /\ s # <<>> /\ Last(s).work = Nothing =>
              Front(s) \in Seq(Item) /\ WorkOf(Front(s)) = WorkOf(s)
<1>1. ASSUME NEW q \in Seq(Item), NEW i \in Item, i.work = Nothing
      PROVE  q \o <<i>> \in Seq(Item) /\ WorkOf(q \o <<i>>) = WorkOf(q)
  <2>1. <<i>> \in Seq(Item) /\ q \o <<i>> \in Seq(Item)
    OBVIOUS
  <2>2. WorkOf(q \o <<i>>) = WorkOf(q) \o WorkOf(<<i>>)
    BY <2>1, WorkOfConcat
  <2>3. WorkOf(<<i>>) = <<>>
    BY <1>1, WorkOfOne DEF WorkIn
  <2>4. WorkOf(q) \in Seq(Work)
    BY WorkOfType
  <2>5. WorkOf(q) \o <<>> = WorkOf(q)
    BY <2>4
  <2> QED BY <2>1, <2>2, <2>3, <2>5
<1>2. Append(s, m) = s \o <<m>>
  OBVIOUS
<1>3. ASSUME s # <<>>, Last(s).work = Nothing
      PROVE  Front(s) \in Seq(Item) /\ WorkOf(Front(s)) = WorkOf(s)
  <2>1. PICK n \in Nat : n = Len(s)
    OBVIOUS
  <2>2. n # 0
    BY <1>3, <2>1
  <2>3. \A k \in 1 .. n : s[k] \in Item
    BY <2>1
  <2>4. PICK f : f = SubSeq(s, 1, n - 1)
    OBVIOUS
  <2>5. /\ f \in Seq(Item) /\ Len(f) = n - 1
        /\ \A k \in 1 .. n - 1 : f[k] = s[k]
    <3>1. \A k \in 1 .. n - 1 : s[k] \in Item
      BY <2>2, <2>3
    <3>2. n - 1 \in Nat
      BY <2>2
    <3> QED BY <2>1, <2>4, <3>1, <3>2
  <2>6. PICK i \in Item : i = s[n]
    BY <2>2, <2>3
  <2>7. s = f \o <<i>>
    <3>1. f \o <<i>> \in Seq(Item) /\ Len(f \o <<i>>) = n
      BY <2>2, <2>5
    <3>2. \A k \in 1 .. n : (f \o <<i>>)[k] = s[k]
      BY <2>2, <2>5, <2>6
    <3> QED BY <2>1, <3>1, <3>2, SeqEqual
  <2>8. i.work = Nothing /\ f = Front(s)
    BY <1>3, <2>1, <2>4, <2>6 DEF Last, Front
  <2>9. WorkOf(f \o <<i>>) = WorkOf(f)
    BY <1>1, <2>5, <2>8
  <2> QED BY <2>5, <2>7, <2>8, <2>9
<1> QED BY <1>1, <1>2, <1>3

(* A change of mode that is queued, or finds no task to replace.           *)
LEMMA OnceLater ==
  ASSUME OnceInv, SetSchedulingModeLater
  PROVE  OnceInv'
<1>0. Types /\ PhaseInv /\ TailInv /\ BusyInv /\ Hands(item, started, finished)
      /\ Lined(accepted, started, Left, cancelled)
  BY DEF OnceInv
<1>1. /\ UNCHANGED <<owner, threads, effectiveMode, phase, tasksToCancel, item,
                     accepted, started, finished, cancelled>>
      /\ switches' = switches + 1 /\ phase = "running" /\ NextMode # currentMode
  BY DEF SetSchedulingModeLater, OwnerCalls, poolVars, shutVars, history
<1>2. NextMode \in Nat
  BY SchedulerAssumption DEF NextMode
<1>3. CASE UNCHANGED <<tasks, currentMode, pc>>
  <2>1. switches' \in Nat
    BY <1>0, <1>1 DEF Types
  <2>2. Types'
    BY <1>0, <1>1, <1>3, <2>1 DEF Types
  <2> QED BY <1>0, <1>1, <1>3, <2>2 DEF OnceInv, PhaseInv, TailInv, BusyInv, Left
<1>4. ASSUME NEW kept,
             \/ currentMode # 0 /\ kept = tasks
             \/ currentMode = 0 /\ tasks # <<>> /\ kept = Front(tasks),
             tasks' = Append(kept, ModeItem(NextMode)),
             currentMode' = NextMode, NotifyOne
      PROVE  OnceInv'
  <2>1. ModeItem(NextMode) \in Item /\ ModeItem(NextMode).work = Nothing
    BY <1>2 DEF ModeItem, Item
  <2>2. tasks \in Seq(Item) /\ tasksToCancel = <<>>
    BY <1>0, <1>1 DEF Types, PhaseInv
  <2>3. kept \in Seq(Item) /\ WorkOf(kept) = WorkOf(tasks)
    <3>1. CASE currentMode # 0
      BY <1>4, <2>2, <3>1
    <3>2. CASE currentMode = 0
      <4>1. tasks # <<>> /\ kept = Front(tasks)
        BY <1>4, <3>2
      <4>2. Last(tasks).work = Nothing
        BY <1>0, <1>1, <3>2, <4>1 DEF TailInv
      <4> QED BY <2>1, <2>2, <4>1, <4>2, WorkOfMode
    <3> QED BY <3>1, <3>2
  <2>4. tasks' \in Seq(Item) /\ WorkOf(tasks') = WorkOf(tasks)
    BY <1>4, <2>1, <2>3, WorkOfMode
  <2>5. Left' = Left
    <3>1. <<>> \o tasks = tasks /\ <<>> \o tasks' = tasks'
      BY <2>2, <2>4
    <3> QED BY <1>1, <2>2, <2>4, <3>1 DEF Left
  <2>6. pc' \in [Worker -> Places] /\ \A w \in Worker : pc[w] = "working" => pc'[w] = "working"
    BY <1>0, <1>4 DEF NotifyOne, Asleep, Types, Places
  <2>7. Types'
    <3>1. switches' \in Nat
      BY <1>0, <1>1 DEF Types
    <3> QED BY <1>0, <1>1, <1>2, <1>4, <2>4, <2>6, <3>1 DEF Types
  <2>8. PhaseInv'
    BY <1>0, <1>1, <2>5 DEF PhaseInv
  <2>9. TailInv'
    <3>1. Last(tasks').work = Nothing
      <4>1. PICK m \in Item : m = ModeItem(NextMode)
        BY <2>1
      <4>2. Append(kept, m)[Len(Append(kept, m))] = m
        BY <2>3
      <4> QED BY <1>4, <2>1, <4>1, <4>2 DEF Last
    <3> QED BY <3>1 DEF TailInv
  <2>10. Lined(accepted, started, Left, cancelled)' /\ Hands(item, started, finished)' /\ BusyInv'
    BY <1>0, <1>1, <2>5, <2>6 DEF BusyInv
  <2> QED BY <2>7, <2>8, <2>9, <2>10 DEF OnceInv
<1>5. CASE ~(currentMode = 0 /\ tasks = <<>>)
  <2> DEFINE kept == IF currentMode = 0 THEN Front(tasks) ELSE tasks
  <2>1. tasks' = Append(kept, ModeItem(NextMode)) /\ currentMode' = NextMode /\ NotifyOne
    BY <1>5 DEF SetSchedulingModeLater
  <2>2. \/ currentMode # 0 /\ kept = tasks
        \/ currentMode = 0 /\ tasks # <<>> /\ kept = Front(tasks)
    BY <1>5
  <2> HIDE DEF kept
  <2> QED BY <1>4, <2>1, <2>2
<1>6. CASE currentMode = 0 /\ tasks = <<>>
  <2>1. UNCHANGED <<tasks, currentMode, pc>>
    BY <1>6 DEF SetSchedulingModeLater
  <2> QED BY <1>3, <2>1
<1> QED BY <1>5, <1>6

(* The queue is swapped.                                                   *)
LEMMA OnceCancelExisting ==
  ASSUME OnceInv, CancelExistingTasks
  PROVE  OnceInv' /\ Left' = Left
<1>0. Types /\ PhaseInv /\ TailInv /\ BusyInv /\ Hands(item, started, finished)
      /\ Lined(accepted, started, Left, cancelled)
  BY DEF OnceInv
<1>1. /\ UNCHANGED <<owner, switches, threads, effectiveMode, currentMode, pc, item,
                     accepted, started, finished, cancelled>>
      /\ phase = "flagged" /\ phase' = "cancelling"
      /\ tasksToCancel' = tasks /\ tasks' = <<>>
  BY DEF CancelExistingTasks, ownerVars, poolVars, history
<1>2. tasks \in Seq(Item) /\ tasksToCancel = <<>>
  BY <1>0, <1>1 DEF Types, PhaseInv
<1>3. Left' = Left
  <2>1. <<>> \o tasks = tasks /\ tasks \o <<>> = tasks
    BY <1>2
  <2> QED BY <1>1, <1>2, <2>1 DEF Left
<1>4. Types'
  <2>1. phase' \in Phases /\ <<>> \in Seq(Item)
    BY <1>1 DEF Phases
  <2> QED BY <1>0, <1>1, <1>2, <2>1 DEF Types
<1> QED BY <1>0, <1>1, <1>3, <1>4 DEF OnceInv, PhaseInv, TailInv, BusyInv

(* The first of the tasks that were swapped out is cancelled: it is the    *)
(* next piece of work in order, or a change of mode.                       *)
LEMMA CancelsNext ==
  ASSUME OnceInv, CancelTask
  PROVE  /\ tasks = <<>> /\ Head(tasksToCancel) \in Item
         /\ Left = WorkIn(Head(tasksToCancel)) \o Left'
         /\ Left' \in Seq(Work)
<1>1. phase = "cancelling" /\ tasksToCancel # <<>> /\ tasksToCancel' = Tail(tasksToCancel)
      /\ tasks' = tasks
  BY DEF CancelTask, queueVars
<1>2. tasksToCancel \in Seq(Item) /\ tasks = <<>>
  BY <1>1 DEF OnceInv, Types, PhaseInv
<1>3. PICK i \in Item, t \in Seq(Item) : i = Head(tasksToCancel) /\ t = Tail(tasksToCancel)
  BY <1>1, <1>2, HeadTailProperties
<1>4. Left = WorkOf(tasksToCancel) /\ Left' = WorkOf(t)
  <2>1. tasksToCancel \o <<>> = tasksToCancel /\ t \o <<>> = t
    BY <1>2
  <2> QED BY <1>1, <1>2, <1>3, <2>1 DEF Left
<1>5. WorkOf(tasksToCancel) = WorkOf(<<Head(tasksToCancel)>>) \o WorkOf(Tail(tasksToCancel))
      /\ WorkOf(<<Head(tasksToCancel)>>) = WorkIn(Head(tasksToCancel))
  BY <1>1, <1>2, WorkOfHead
<1>6. WorkOf(t) \in Seq(Work)
  BY WorkOfType
<1> QED BY <1>2, <1>3, <1>4, <1>5, <1>6

(* Cancelling keeps the invariant.                                         *)
LEMMA OnceCancelTask ==
  ASSUME OnceInv, CancelTask
  PROVE  OnceInv'
<1>0. Types /\ PhaseInv /\ TailInv /\ BusyInv /\ Hands(item, started, finished)
      /\ Lined(accepted, started, Left, cancelled)
  BY DEF OnceInv
<1>1. /\ UNCHANGED <<owner, switches, tasks, currentMode, phase, item,
                     accepted, started, finished>>
      /\ phase = "cancelling"
      /\ tasksToCancel # <<>> /\ tasksToCancel' = Tail(tasksToCancel)
      /\ cancelled' = cancelled \cup ({Head(tasksToCancel).work} \ {Nothing})
      /\ SetSchedulingModeImpl(0, Owner, "awake") \/ UNCHANGED <<poolVars, pc>>
  BY DEF CancelTask, ownerVars, queueVars
<1>2. /\ effectiveMode' \in Nat /\ threads' \in Seq(Worker) /\ pc' \in [Worker -> Places]
      /\ \A w \in Worker : pc[w] = "working" => pc'[w] = "working"
  <2>1. CASE SetSchedulingModeImpl(0, Owner, "awake")
    <3>1. Owner \notin Worker /\ "awake" \in Places /\ 0 \in Nat
      BY SchedulerAssumption DEF Owner, Worker, Places
    <3>2. Resized(0, Owner, "awake")
      BY <1>0, <2>1, <3>1, ImplResizes
    <3> QED BY <3>1, <3>2 DEF Resized
  <2>2. CASE UNCHANGED <<poolVars, pc>>
    BY <1>0, <2>2 DEF poolVars, Types
  <2> QED BY <1>1, <2>1, <2>2
<1>3. PICK i \in Item : i = Head(tasksToCancel)
  BY CancelsNext
<1>4. PICK new \in Seq(Work) : new = Left' /\ Left = WorkIn(i) \o new
  BY <1>3, CancelsNext
<1>5. accepted \in Seq(Work) /\ started \in Seq(Work)
  BY <1>0 DEF Types
<1>6. Lined(accepted, started, new, cancelled') /\ cancelled' \subseteq Work
  <2>1. CASE i.work = Nothing
    <3>1. WorkIn(i) = <<>> /\ cancelled' = cancelled
      BY <1>1, <1>3, <2>1 DEF WorkIn
    <3>2. <<>> \o new = new
      OBVIOUS
    <3> QED BY <1>0, <1>4, <3>1, <3>2 DEF Types
  <2>2. CASE i.work # Nothing
    <3>1. PICK x \in Work : x = i.work
      BY <2>2 DEF Item
    <3>2. WorkIn(i) = <<x>> /\ cancelled' = cancelled \cup {x}
      BY <1>1, <1>3, <2>2, <3>1 DEF WorkIn
    <3>3. Lined(accepted, started, <<x>> \o new, cancelled)
      BY <1>0, <1>4, <3>2
    <3>4. Lined(accepted, started, new, cancelled \cup {x})
      BY <1>5, <3>3, LinedCancels
    <3> QED BY <1>0, <3>2, <3>4 DEF Types
  <2> QED BY <2>1, <2>2
<1>7. Types'
  <2>1. tasksToCancel' \in Seq(Item)
    BY <1>0, <1>1, HeadTailProperties DEF Types
  <2> QED BY <1>0, <1>1, <1>2, <1>6, <2>1 DEF Types
<1>8. PhaseInv' /\ TailInv' /\ BusyInv' /\ Hands(item, started, finished)'
  BY <1>0, <1>1, <1>2 DEF PhaseInv, TailInv, BusyInv
<1>9. Lined(accepted, started, Left, cancelled)'
  BY <1>1, <1>4, <1>6
<1> QED BY <1>7, <1>8, <1>9 DEF OnceInv

(* A worker ends its task, if it has one, and turns to the next.           *)
LEMMA OnceTurn ==
  ASSUME OnceInv, NEW w \in Worker, NEW n, NextTask(w, n),
         finished' = finished \cup ({item[w].work} \ {Nothing}),
         UNCHANGED <<owner, switches, threads, effectiveMode, currentMode, phase,
                     tasksToCancel, accepted, cancelled>>
  PROVE  OnceInv'
<1>0. Types /\ PhaseInv /\ TailInv /\ BusyInv /\ Hands(item, started, finished)
      /\ Lined(accepted, started, Left, cancelled)
  BY DEF OnceInv
<1>1. pc \in [Worker -> Places] /\ item \in [Worker -> Item] /\ started \in Seq(Work)
      /\ tasks \in Seq(Item)
  BY <1>0 DEF Types
<1>2. NoItem \in Item /\ NoItem.work = Nothing
  BY DEF NoItem, ModeItem, Item
<1>3. finished' \subseteq Work
  <2>1. item[w].work \in Work \cup {Nothing}
    BY <1>1 DEF Item
  <2> QED BY <1>0, <2>1 DEF Types
<1>4. PICK it \in [Worker -> Item] : it = [item EXCEPT ![w] = NoItem]
  BY <1>1, <1>2
<1>5. Hands(it, started, finished')
  BY <1>0, <1>1, <1>2, <1>4, HandsReturn
<1>6. it[w].work = Nothing
  BY <1>2, <1>4
<1>7. CASE Leave(w, n) \/ Sleep(w, n)
  <2>1. /\ item' = it /\ UNCHANGED <<tasks, started>>
        /\ pc' \in [Worker -> Places]
        /\ \A v \in Worker : v # w => pc'[v] = pc[v]
    BY <1>1, <1>4, <1>7 DEF Leave, Sleep, Places
  <2>2. Types'
    BY <1>0, <1>3, <2>1 DEF Types
  <2>3. Left' = Left
    BY <2>1 DEF Left
  <2>4. BusyInv'
    <3>1. ASSUME NEW v \in Worker, item'[v].work # Nothing PROVE pc'[v] = "working"
      <4>1. v # w
        BY <1>6, <2>1, <3>1
      <4>2. item'[v] = item[v]
        BY <1>4, <2>1, <4>1
      <4> QED BY <1>0, <2>1, <3>1, <4>1, <4>2 DEF BusyInv
    <3> QED BY <3>1 DEF BusyInv
  <2> QED BY <1>0, <1>5, <2>1, <2>2, <2>3, <2>4 DEF OnceInv, PhaseInv, TailInv
<1>8. CASE Take(w, n)
  <2>1. /\ tasks # <<>> /\ tasks' = Tail(tasks)
        /\ pc' = [pc EXCEPT ![w] = "working"]
        /\ item' = [item EXCEPT ![w] = Head(tasks)]
        /\ started' = started \o WorkOf(<<Head(tasks)>>)
    BY <1>8 DEF Take
  <2>2. PICK i \in Item, t \in Seq(Item) : i = Head(tasks) /\ t = Tail(tasks)
    BY <1>1, <2>1, HeadTailProperties
  <2>3. /\ phase \in {"running", "flagged"} /\ tasksToCancel = <<>>
        /\ started' \in Seq(Work)
        /\ Lined(accepted, started', Left', cancelled)
        /\ Len(accepted) = Len(started') + Len(Left')
        /\ i.work = Nothing => started' = started
        /\ i.work # Nothing => started' = started \o <<i.work>> /\ i.work \notin ToSet(started)
    BY <1>0, <2>1, <2>2, TakesNext DEF Left
  <2>4. item' = [it EXCEPT ![w] = i]
    BY <1>1, <1>4, <2>1, <2>2
  <2>5. Hands(item', started', finished')
    <3>1. CASE i.work = Nothing
      <4>1. Hands([it EXCEPT ![w] = i], started, finished' \cup ({it[w].work} \ {Nothing}))
        BY <1>1, <1>5, <3>1, HandsReturn
      <4>2. finished' \cup ({it[w].work} \ {Nothing}) = finished'
        BY <1>6
      <4> QED BY <2>3, <2>4, <3>1, <4>1, <4>2
    <3>2. CASE i.work # Nothing
      <4>1. Hands([it EXCEPT ![w] = i], started \o <<i.work>>, finished')
        BY <1>1, <1>5, <1>6, <2>3, <3>2, HandsTake
      <4> QED BY <2>3, <2>4, <3>2, <4>1
    <3> QED BY <3>1, <3>2
  <2>6. Types'
    <3>1. pc' \in [Worker -> Places]
      BY <1>1, <2>1 DEF Places
    <3>2. item' \in [Worker -> Item]
      BY <2>4
    <3>3. tasks' \in Seq(Item)
      BY <2>1, <2>2
    <3> QED BY <1>0, <1>3, <2>3, <3>1, <3>2, <3>3 DEF Types
  <2>7. PhaseInv'
    BY <1>0, <2>3 DEF PhaseInv
  <2>8. TailInv'
    <3>1. ASSUME phase' = "running", currentMode' = 0, tasks' # <<>>
          PROVE  Last(tasks').work = Nothing
      <4>1. Last(tasks).work = Nothing
        BY <1>0, <2>1, <3>1 DEF TailInv
      <4>2. Last(Tail(tasks)) = Last(tasks)
        <5>1. PICK m \in Nat : m = Len(tasks)
          BY <1>1
        <5>2. Len(t) = m - 1 /\ Len(t) # 0 /\ Len(t) \in Nat
              /\ \A k \in 1 .. Len(t) : t[k] = tasks[k + 1]
          <6>1. Len(Tail(tasks)) = Len(tasks) - 1
                /\ \A k \in 1 .. Len(Tail(tasks)) : Tail(tasks)[k] = tasks[k + 1]
            BY <1>1, <2>1, HeadTailProperties
          <6>2. t # <<>>
            BY <2>1, <2>2, <3>1
          <6>3. Len(t) # 0 /\ Len(t) \in Nat
            BY <6>2
          <6> QED BY <2>2, <5>1, <6>1, <6>3
        <5>3. m - 1 \in 1 .. Len(t) /\ (m - 1) + 1 = m
          BY <5>1, <5>2
        <5>4. t[m - 1] = tasks[m]
          BY <5>2, <5>3
        <5> QED BY <2>2, <5>1, <5>2, <5>4 DEF Last
      <4> QED BY <2>1, <4>1, <4>2
    <3> QED BY <3>1 DEF TailInv
  <2>9. BusyInv'
    BY <1>0, <1>1, <2>1 DEF BusyInv
  <2>10. Lined(accepted, started, Left, cancelled)'
    BY <2>3
  <2> QED BY <2>5, <2>6, <2>7, <2>8, <2>9, <2>10 DEF OnceInv
<1> QED BY <1>7, <1>8 DEF NextTask

(* Every step keeps the invariant.                                         *)
LEMMA OnceStep == OnceInv /\ [Next]_vars => OnceInv'
<1> SUFFICES ASSUME OnceInv, [Next]_vars PROVE OnceInv'
  OBVIOUS
<1>1. ASSUME NEW x \in Work, QueueTask(x) PROVE OnceInv'
  BY <1>1, OnceQueueTask
<1>2. CASE \/ SetSchedulingModeNow
           \/ Shutdown \/ StopThreads \/ JoinExitingThreads
           \/ \E w \in Worker : SetSchedulingModeTask(w) \/ SpuriousWakeup(w)
  BY <1>2, QuietSteps, OnceQuiet
<1>3. CASE SetSchedulingModeLater
  BY <1>3, OnceLater
<1>4. CASE CancelExistingTasks
  BY <1>4, OnceCancelExisting
<1>5. CASE CancelTask
  BY <1>5, OnceCancelTask
<1>6. ASSUME NEW w \in Worker, TakeTask(w) PROVE OnceInv'
  <2>1. NextTask(w, tasksInProgress) /\ finished' = finished
        /\ UNCHANGED <<owner, switches, threads, effectiveMode, currentMode, phase,
                       tasksToCancel, accepted, cancelled>>
    BY <1>6 DEF TakeTask, ownerVars, poolVars, shutVars
  <2>2. item[w].work = Nothing
    BY <1>6 DEF TakeTask, OnceInv, BusyInv
  <2>3. finished' = finished \cup ({item[w].work} \ {Nothing})
    BY <2>1, <2>2
  <2> QED BY <2>1, <2>3, OnceTurn
<1>7. ASSUME NEW w \in Worker, FinishTask(w) PROVE OnceInv'
  <2>1. NextTask(w, tasksInProgress - 1)
        /\ finished' = finished \cup ({item[w].work} \ {Nothing})
        /\ UNCHANGED <<owner, switches, threads, effectiveMode, currentMode, phase,
                       tasksToCancel, accepted, cancelled>>
    BY <1>7 DEF FinishTask, ownerVars, shutVars
  <2> QED BY <2>1, OnceTurn
<1>8. CASE UNCHANGED vars
  <2>1. UNCHANGED <<owner, switches, tasks, tasksToCancel, threads, currentMode,
                    effectiveMode, phase, pc, item, accepted, started, finished, cancelled>>
    BY <1>8 DEF vars, ownerVars, queueVars, poolVars, shutVars, history
  <2> QED BY <2>1 DEF OnceInv, Types, PhaseInv, TailInv, BusyInv, Left
<1> QED BY <1>1, <1>2, <1>3, <1>4, <1>5, <1>6, <1>7, <1>8 DEF Next, ShutdownSteps, TaskThread

(* The invariant says what EachWorkOnce says.                              *)
LEMMA OnceMeans == OnceInv => EachWorkOnce
<1> SUFFICES ASSUME OnceInv PROVE EachWorkOnce
  OBVIOUS
<1>1. Types /\ Hands(item, started, finished) /\ Lined(accepted, started, Left, cancelled)
  BY DEF OnceInv
<1>2. accepted \in Seq(Work) /\ started \in Seq(Work) /\ Left \in Seq(Work)
  <2>1. tasksToCancel \o tasks \in Seq(Item)
    BY <1>1 DEF Types
  <2> QED BY <1>1, <2>1, WorkOfType DEF Types, Left
<1>3. /\ IsPrefix(started, accepted)
      /\ IsSuffix(Left, accepted)
      /\ cancelled \cap ToSet(accepted) =
           {accepted[i] : i \in Len(started) + 1 .. Len(accepted) - Len(Left)}
  BY <1>1, <1>2, LinedMeans
<1>4. \A x \in ToSet(started) : x # Nothing
  <2>1. \A x \in ToSet(started) : x \in Work
    BY <1>2 DEF ToSet
  <2> QED BY <2>1, SchedulerAssumption
<1>5. ToSet(started) = RunningWork \cup finished
  <2>1. \A x \in ToSet(started) : x \in RunningWork \cup finished
    BY <1>1, <1>4 DEF Hands, RunningWork
  <2>2. \A x \in RunningWork : x \in ToSet(started)
    BY <1>1 DEF Hands, RunningWork
  <2>3. finished \subseteq ToSet(started)
    BY <1>1 DEF Hands
  <2> QED BY <2>1, <2>2, <2>3
<1>6. RunningWork \cap finished = {}
  BY <1>1 DEF Hands, RunningWork
<1> QED BY <1>3, <1>5, <1>6 DEF EachWorkOnce, Left

(* No piece of work is lost, run twice, or both run and cancelled, whoever *)
(* owns the scheduler, however often the number of threads changes and     *)
(* whenever Shutdown comes: the property EachWorkOnce, always.             *)
THEOREM WorkRunsOnce == Spec => []EachWorkOnce
<1>1. Init => OnceInv
  BY OnceInit
<1>2. OnceInv /\ [Next]_vars => OnceInv'
  BY OnceStep
<1>3. OnceInv => EachWorkOnce
  BY OnceMeans
<1> QED BY <1>1, <1>2, <1>3, PTL DEF Spec

-----------------------------------------------------------------------------
(* A device's scheduler *)

(* At first there is no thread.                                            *)
LEMMA DeviceInit == Init => DeviceInv
<1> SUFFICES ASSUME Init PROVE DeviceInv
  OBVIOUS
<1>1. OnlyWork(<<>>)
  BY DEF OnlyWork
<1>2. \A w \in Worker : pc[w] = "exited"
  BY DEF Init
<1> QED BY <1>1, <1>2 DEF Init, DeviceInv

\* A step after which the scheduler has no more threads than before.
NoNewThread ==
  /\ owner' = owner /\ switches' = switches
  /\ OnlyWork(tasks') /\ OnlyWork(tasksToCancel')
  /\ \A w \in Worker : pc'[w] # "exited" => pc[w] # "exited"
  /\ \A w \in Worker : pc'[w] = "working" => item'[w].work \in Work
  /\ \A w \in Worker : pc'[w] # "joining"

(* It keeps the invariant, once the thread has been started.               *)
LEMMA DeviceKeeps ==
  ASSUME DeviceInv, owner = "device", switches # 0, NoNewThread
  PROVE  DeviceInv'
BY DEF DeviceInv, NoNewThread

(* Before the thread is started, nothing else can happen.                  *)
LEMMA StartsFirst ==
  ASSUME OnceInv, DeviceInv, owner = "device", Next
  PROVE  SetSchedulingModeNow \/ switches # 0
<1> SUFFICES ASSUME switches = 0 PROVE SetSchedulingModeNow
  OBVIOUS
<1>1. phase = "running" /\ currentMode = 0 /\ effectiveMode = 0
      /\ \A w \in Worker : pc[w] = "exited"
  BY DEF DeviceInv
<1>2. ~SetSchedulingModeLater
  <2>1. Immediate(NextMode)
    BY <1>1 DEF Immediate, NextMode
  <2> QED BY <2>1 DEF SetSchedulingModeLater
<1>3. \A x \in Work : ~QueueTask(x)
  BY DEF QueueTask
<1>4. ~Shutdown /\ ~ShutdownSteps
  BY <1>1 DEF Shutdown, ShutdownSteps, CancelExistingTasks, CancelTask, StopThreads,
              JoinExitingThreads
<1>5. \A w \in Worker : ~TaskThread(w) /\ ~SpuriousWakeup(w)
  BY <1>1 DEF TaskThread, TakeTask, SetSchedulingModeTask, FinishTask, SpuriousWakeup
<1> QED BY <1>2, <1>3, <1>4, <1>5 DEF Next

(* One thread is started.                                                  *)
LEMMA DeviceStarts ==
  ASSUME OnceInv, DeviceInv, owner = "device", SetSchedulingModeNow
  PROVE  DeviceInv' /\ \A w \in Worker : item'[w].work = Nothing /\ item[w].work = Nothing
<1>1. /\ owner' = owner /\ switches' = switches + 1 /\ switches < 1
      /\ UNCHANGED <<tasks, tasksToCancel, item>>
      /\ SetSchedulingModeImpl(1, Owner, "awake")
  BY DEF SetSchedulingModeNow, OwnerCalls, NextMode, queueVars, shutVars
<1>2. switches = 0
  BY <1>1 DEF DeviceInv
<1>3. threads = <<>> /\ \A w \in Worker : pc[w] = "exited"
  BY <1>2 DEF DeviceInv
<1>4. Resized(1, Owner, "awake")
  <2>1. Owner \notin Worker /\ "awake" \in Places /\ 1 \in Nat
    BY SchedulerAssumption DEF Owner, Worker, Places
  <2>2. Types
    BY DEF OnceInv
  <2> QED BY <1>1, <2>1, <2>2, ImplResizes
<1>5. \A w \in Worker :
        \/ pc'[w] = "exited"
        \/ pc'[w] = "awake" /\ w \in ToSet(BornFor(1))
  <2>1. Owner \notin Worker
    BY SchedulerAssumption DEF Owner, Worker
  <2> QED BY <1>3, <1>4, <2>1 DEF Resized
<1>6. \A v, w \in ToSet(BornFor(1)) : v = w
  <2>1. 1 - Len(<<>>) = 1
    OBVIOUS
  <2>2. DOMAIN BornFor(1) = 1 .. 1
    BY <1>3, <2>1 DEF BornFor
  <2>3. \A k \in 1 .. 1 : k = 1
    OBVIOUS
  <2> QED BY <2>2, <2>3 DEF ToSet
<1>7. \A w \in Worker : item[w].work = Nothing
  BY <1>3 DEF OnceInv, BusyInv
<1>8. DeviceInv'
  <2>1. OnlyWork(tasks') /\ OnlyWork(tasksToCancel') /\ switches' = 1
    BY <1>1, <1>2 DEF DeviceInv
  <2>2. \A w \in Worker : pc'[w] # "working" /\ pc'[w] # "joining"
    BY <1>5
  <2>3. \A v, w \in Worker : pc'[v] # "exited" /\ pc'[w] # "exited" => v = w
    BY <1>5, <1>6
  <2> QED BY <2>1, <2>2, <2>3 DEF DeviceInv
<1> QED BY <1>1, <1>7, <1>8

(* A task of a device's queue is work, and what follows it is too.         *)
LEMMA OnlyWorkTail ==
  ASSUME NEW s \in Seq(Item), s # <<>>, OnlyWork(s)
  PROVE  Head(s).work \in Work /\ OnlyWork(Tail(s))
<1>1. PICK t \in Seq(Item) : t = Tail(s) /\ Len(t) = Len(s) - 1
                             /\ \A k \in 1 .. Len(t) : t[k] = s[k + 1]
  BY HeadTailProperties
<1>2. Len(s) \in Nat /\ Len(s) # 0 /\ Len(t) \in Nat
  OBVIOUS
<1>3. \A k \in 1 .. Len(t) : k + 1 \in 1 .. Len(s)
  BY <1>1, <1>2
<1>4. Head(s) = s[1] /\ 1 \in 1 .. Len(s)
  BY <1>2
<1> QED BY <1>1, <1>3, <1>4 DEF OnlyWork

(* Otherwise no thread is started, and no change of mode is ever queued.   *)
LEMMA NoThreadIsStarted ==
  ASSUME OnceInv, DeviceInv, owner = "device", switches # 0, Next
  PROVE  NoNewThread
<1>0. Types
  BY DEF OnceInv
<1>1. /\ OnlyWork(tasks) /\ OnlyWork(tasksToCancel)
      /\ switches = 1
      /\ \A w \in Worker : pc[w] = "working" => item[w].work \in Work
      /\ \A w \in Worker : pc[w] # "joining"
  BY DEF DeviceInv
<1>2. tasks \in Seq(Item) /\ tasksToCancel \in Seq(Item) /\ pc \in [Worker -> Places]
      /\ item \in [Worker -> Item]
  BY <1>0 DEF Types
<1>3. ~SetSchedulingModeNow /\ ~SetSchedulingModeLater
  BY <1>1 DEF SetSchedulingModeNow, SetSchedulingModeLater, OwnerCalls
<1>4. ASSUME NEW x \in Work, QueueTask(x) PROVE NoNewThread
  <2>1. owner' = owner /\ switches' = switches /\ UNCHANGED <<tasksToCancel, item>>
    BY <1>4 DEF QueueTask, ownerVars, shutVars
  <2>2. OnlyWork(tasks')
    <3>1. CASE tasks' = tasks
      BY <1>1, <3>1
    <3>2. CASE tasks' = Append(tasks, WorkItem(x))
      <4>1. PICK i \in Item : i = WorkItem(x) /\ i.work = x
        <5>1. WorkItem(x) \in Item /\ WorkItem(x).work = x
          BY DEF WorkItem, Item
        <5> QED BY <5>1
      <4>2. /\ Len(Append(tasks, i)) = Len(tasks) + 1
            /\ Append(tasks, i)[Len(tasks) + 1] = i
            /\ \A k \in 1 .. Len(tasks) : Append(tasks, i)[k] = tasks[k]
        BY <1>2
      <4>3. \A k \in 1 .. Len(tasks) + 1 : k \in 1 .. Len(tasks) \/ k = Len(tasks) + 1
        BY <1>2
      <4> QED BY <1>1, <3>2, <4>1, <4>2, <4>3 DEF OnlyWork
    <3> QED BY <1>4, <3>1, <3>2 DEF QueueTask
  <2>3. \A w \in Worker : pc'[w] = pc[w] \/ (pc[w] = "asleep" /\ pc'[w] = "awake")
    BY <1>2, <1>4 DEF QueueTask, NotifyOne, Asleep
  <2> QED BY <1>1, <2>1, <2>2, <2>3 DEF NoNewThread
<1>5. CASE Shutdown
  BY <1>1, <1>5 DEF Shutdown, NoNewThread, ownerVars, queueVars, poolVars
<1>6. CASE CancelExistingTasks
  <2>1. OnlyWork(<<>>)
    BY DEF OnlyWork
  <2> QED BY <1>1, <1>6, <2>1 DEF CancelExistingTasks, NoNewThread, ownerVars, poolVars
<1>7. CASE CancelTask
  <2>1. tasksToCancel # <<>> /\ tasksToCancel' = Tail(tasksToCancel)
    BY <1>7 DEF CancelTask
  <2>2. Head(tasksToCancel).work \in Work /\ OnlyWork(Tail(tasksToCancel))
    BY <1>1, <1>2, <2>1, OnlyWorkTail
  <2>3. Head(tasksToCancel) # ModeItem(0)
    BY <2>2, SchedulerAssumption DEF ModeItem
  <2>4. pc' = pc
    BY <1>7, <2>3 DEF CancelTask
  <2>5. owner' = owner /\ switches' = switches /\ tasks' = tasks /\ item' = item
    BY <1>7 DEF CancelTask, ownerVars, queueVars
  <2> QED BY <1>1, <2>1, <2>2, <2>4, <2>5 DEF NoNewThread
<1>8. CASE StopThreads
  <2>1. SetSchedulingModeImpl(0, Owner, "awake")
        /\ owner' = owner /\ switches' = switches
        /\ UNCHANGED <<tasks, tasksToCancel, item>>
    BY <1>8 DEF StopThreads, ownerVars, queueVars
  <2>2. Owner \notin Worker /\ "awake" \in Places /\ 0 \in Nat
    BY SchedulerAssumption DEF Owner, Worker, Places
  <2>3. Resized(0, Owner, "awake")
    BY <1>0, <2>1, <2>2, ImplResizes
  <2>4. ToSet(BornFor(0)) = {}
    <3>1. PICK n \in Nat : n = Len(threads)
      BY <1>0 DEF Types
    <3>2. 1 .. 0 - n = {}
      OBVIOUS
    <3>3. DOMAIN BornFor(0) = {}
      BY <3>1, <3>2 DEF BornFor
    <3> QED BY <3>3 DEF ToSet
  <2>5. \A w \in Worker : pc'[w] = pc[w] \/ (pc[w] = "asleep" /\ pc'[w] = "awake")
    BY <2>2, <2>3, <2>4 DEF Resized
  <2> QED BY <1>1, <2>1, <2>5 DEF NoNewThread
<1>9. CASE JoinExitingThreads
  BY <1>1, <1>9 DEF JoinExitingThreads, NoNewThread, ownerVars, queueVars, poolVars
<1>10. ASSUME NEW w \in Worker, TakeTask(w) \/ FinishTask(w) PROVE NoNewThread
  <2>1. owner' = owner /\ switches' = switches /\ tasksToCancel' = tasksToCancel
        /\ pc[w] # "exited"
    BY <1>10 DEF TakeTask, FinishTask, ownerVars, shutVars
  <2>2. PICK n : NextTask(w, n)
    BY <1>10 DEF TakeTask, FinishTask
  <2>3. CASE Leave(w, n) \/ Sleep(w, n)
    <3>1. tasks' = tasks
          /\ \A v \in Worker : v # w => pc'[v] = pc[v] /\ item'[v] = item[v]
      BY <1>2, <2>3 DEF Leave, Sleep
    <3>2. pc'[w] \in {"exited", "asleep"}
      BY <1>2, <2>3 DEF Leave, Sleep
    <3>3. \A v \in Worker : pc'[v] = "working" => item'[v].work \in Work
      BY <1>1, <3>1, <3>2
    <3>4. \A v \in Worker : pc'[v] # "joining" /\ (pc'[v] # "exited" => pc[v] # "exited")
      BY <1>1, <2>1, <3>1, <3>2
    <3> QED BY <1>1, <2>1, <3>1, <3>3, <3>4 DEF NoNewThread
  <2>4. CASE Take(w, n)
    <3>1. tasks # <<>> /\ tasks' = Tail(tasks)
          /\ pc' = [pc EXCEPT ![w] = "working"] /\ item' = [item EXCEPT ![w] = Head(tasks)]
      BY <2>4 DEF Take
    <3>2. Head(tasks).work \in Work /\ OnlyWork(Tail(tasks))
      BY <1>1, <1>2, <3>1, OnlyWorkTail
    <3>3. \A v \in Worker : pc'[v] = "working" => item'[v].work \in Work
      BY <1>1, <1>2, <3>1, <3>2
    <3>4. \A v \in Worker : pc'[v] # "joining" /\ (pc'[v] # "exited" => pc[v] # "exited")
      BY <1>1, <1>2, <2>1, <3>1
    <3> QED BY <1>1, <2>1, <3>1, <3>2, <3>3, <3>4 DEF NoNewThread
  <2> QED BY <2>2, <2>3, <2>4 DEF NextTask
<1>11. ASSUME NEW w \in Worker PROVE ~SetSchedulingModeTask(w)
  BY <1>1, SchedulerAssumption DEF SetSchedulingModeTask
<1>12. ASSUME NEW w \in Worker, SpuriousWakeup(w) PROVE NoNewThread
  <2>1. \A v \in Worker : pc'[v] = pc[v] \/ (pc[v] = "asleep" /\ pc'[v] = "awake")
    BY <1>2, <1>12 DEF SpuriousWakeup
  <2> QED BY <1>1, <1>12, <2>1 DEF SpuriousWakeup, NoNewThread, ownerVars, queueVars, shutVars
<1> QED BY <1>3, <1>4, <1>5, <1>6, <1>7, <1>8, <1>9, <1>10, <1>11, <1>12
        DEF Next, ShutdownSteps, TaskThread

(* Every step keeps the invariant of a device's scheduler.                 *)
LEMMA DeviceStep == OnceInv /\ DeviceInv /\ [Next]_vars => DeviceInv'
<1> SUFFICES ASSUME OnceInv, DeviceInv, [Next]_vars, owner' = "device" PROVE DeviceInv'
  BY DEF DeviceInv
<1>1. owner' = owner
  BY DEF Next, QueueTask, SetSchedulingModeNow, SetSchedulingModeLater, OwnerCalls, Shutdown,
         ShutdownSteps, CancelExistingTasks, CancelTask, StopThreads, JoinExitingThreads,
         TaskThread, TakeTask, SetSchedulingModeTask, FinishTask, SpuriousWakeup,
         vars, ownerVars
<1>2. CASE Next
  BY <1>1, <1>2, StartsFirst, DeviceStarts, NoThreadIsStarted, DeviceKeeps
<1>3. CASE UNCHANGED vars
  BY <1>3 DEF DeviceInv, vars, ownerVars, queueVars, poolVars, shutVars
<1> QED BY <1>2, <1>3

-----------------------------------------------------------------------------
(* A device's scheduler is a serial executor *)

\* The piece of work in hand, as SerialExecutor is told.
CurrentOf(it) ==
  LET running == {it[w].work : w \in Worker} \ {Nothing}
  IN  IF running = {} THEN Nothing ELSE CHOOSE x \in running : TRUE

\* No worker but w has work in hand.
Alone(it, w) == \A v \in Worker \ {w} : it[v].work = Nothing

(* What is in hand is then what w has.                                     *)
LEMMA CurrentWhenAlone ==
  ASSUME NEW it, NEW w \in Worker, Alone(it, w)
  PROVE  CurrentOf(it) = it[w].work
<1> DEFINE running == {it[v].work : v \in Worker} \ {Nothing}
<1>1. CASE it[w].work = Nothing
  <2>1. running = {}
    BY <1>1 DEF Alone
  <2> QED BY <1>1, <2>1 DEF CurrentOf
<1>2. CASE it[w].work # Nothing
  <2>1. running = {it[w].work}
    BY <1>2 DEF Alone
  <2>2. running # {} /\ \A x \in running : x = it[w].work
    BY <2>1
  <2> QED BY <2>2 DEF CurrentOf
<1> QED BY <1>1, <1>2

(* Without any work there is none in hand.                                 *)
LEMMA NoCurrent ==
  ASSUME NEW it, \A w \in Worker : it[w].work = Nothing
  PROVE  CurrentOf(it) = Nothing
BY DEF CurrentOf

(* What SerialExecutor's variables stand for.                              *)
LEMMA SerialVariables ==
  /\ Serial!vars = <<Left, CurrentOf(item), finished, cancelled>>
  /\ Serial!vars' = <<Left', CurrentOf(item'), finished', cancelled'>>
BY DEF Serial!vars, Left, CurrentOf, RunningWork

(* A step that leaves work and queue where they are is none of its steps.  *)
LEMMA QuietIsNoStep ==
  ASSUME UNCHANGED <<item, finished, cancelled>>, Left' = Left
  PROVE  UNCHANGED Serial!vars
BY SerialVariables

(* Work that was not accepted is unknown to SerialExecutor.                *)
LEMMA UnknownIsFresh ==
  ASSUME OnceInv, NEW x \in Work, x \notin ToSet(accepted) \cup cancelled
  PROVE  Serial!Fresh(x)
<1>1. EachWorkOnce
  BY OnceMeans
<1>2. Types /\ Lined(accepted, started, Left, cancelled)
  BY DEF OnceInv
<1>3. Left \in Seq(Work) /\ accepted \in Seq(Work) /\ started \in Seq(Work)
  <2>1. tasksToCancel \o tasks \in Seq(Item)
    BY <1>2 DEF Types
  <2> QED BY <1>2, <2>1, WorkOfType DEF Types, Left
<1>4. PICK n \in Nat, p \in Nat, q \in Nat : n = Len(accepted) /\ p = Len(started) /\ q = Len(Left)
  BY <1>3
<1>5. /\ p + q <= n
      /\ \A i \in 1 .. p : accepted[i] = started[i]
      /\ \A i \in 1 .. q : accepted[n - q + i] = Left[i]
  BY <1>2, <1>4 DEF Lined
<1>6. \A i \in 1 .. n : accepted[i] # x
  BY <1>3, <1>4 DEF ToSet
<1>7. x \notin ToSet(started)
  <2>1. \A i \in 1 .. p : i \in 1 .. n
    BY <1>4, <1>5
  <2>2. \A i \in 1 .. p : started[i] # x
    BY <1>5, <1>6, <2>1
  <2> QED BY <1>3, <1>4, <2>2 DEF ToSet
<1>8. x \notin ToSet(Left)
  <2>1. \A i \in 1 .. q : n - q + i \in 1 .. n
    BY <1>4, <1>5
  <2>2. \A i \in 1 .. q : Left[i] # x
    BY <1>5, <1>6, <2>1
  <2> QED BY <1>3, <1>4, <2>2 DEF ToSet
<1>9. x # CurrentOf(item)
  <2> DEFINE running == {item[w].work : w \in Worker} \ {Nothing}
  <2>1. running \subseteq ToSet(started)
    BY <1>1 DEF EachWorkOnce, RunningWork
  <2>2. x # Nothing
    BY SchedulerAssumption
  <2>3. CASE running = {}
    BY <2>2, <2>3 DEF CurrentOf
  <2>4. CASE running # {}
    <3>1. CurrentOf(item) = CHOOSE y \in running : TRUE
      BY <2>4 DEF CurrentOf
    <3>2. CurrentOf(item) \in running
      BY <2>4, <3>1
    <3> QED BY <1>7, <2>1, <3>2
  <2> QED BY <2>3, <2>4
<1>10. x \notin finished
  BY <1>1, <1>7 DEF EachWorkOnce
<1>11. x \notin ToSet(Left) \cup {CurrentOf(item)} \cup finished \cup cancelled
  BY <1>8, <1>9, <1>10
<1> QED BY <1>11 DEF Serial!Fresh, Serial!ToSet, ToSet, Left, CurrentOf, RunningWork

(* QueueTask submits its work or has it refused.                           *)
LEMMA QueueTaskIsSubmit ==
  ASSUME OnceInv, NEW x \in Work, QueueTask(x)
  PROVE  Serial!Next
<1>1. Serial!Fresh(x)
  BY UnknownIsFresh DEF QueueTask
<1>2. UNCHANGED <<tasksToCancel, item, finished>>
  BY DEF QueueTask, shutVars
<1>3. CurrentOf(item') = CurrentOf(item)
  BY <1>2
<1>4. CASE cancelled' = cancelled \cup {x} /\ tasks' = tasks
  <2>1. Left' = Left
    BY <1>2, <1>4 DEF Left
  <2>2. Serial!Refuse(x)
    BY <1>1, <1>2, <1>3, <1>4, <2>1 DEF Serial!Refuse, Left, CurrentOf, RunningWork
  <2> QED BY <2>2 DEF Serial!Next
<1>5. CASE phase = "running" /\ tasks' = Append(tasks, WorkItem(x)) /\ cancelled' = cancelled
  <2>1. Left' = Append(Left, x)
    <3>1. PICK i \in Item : i = WorkItem(x) /\ WorkIn(i) = <<x>>
      <4>1. WorkItem(x) \in Item /\ WorkItem(x).work = x /\ x # Nothing
        BY SchedulerAssumption DEF WorkItem, Item
      <4> QED BY <4>1 DEF WorkIn
    <3>2. PICK q \in Seq(Item) : q = tasks /\ tasksToCancel = <<>>
      BY <1>5 DEF OnceInv, Types, PhaseInv
    <3>3. Append(q, i) = q \o <<i>> /\ <<i>> \in Seq(Item) /\ <<>> \o q = q
          /\ <<>> \o (q \o <<i>>) = q \o <<i>>
      OBVIOUS
    <3>4. WorkOf(q \o <<i>>) = WorkOf(q) \o <<x>>
      BY <3>1, <3>3, WorkOfConcat, WorkOfOne
    <3>5. PICK l \in Seq(Work) : l = WorkOf(q) /\ Append(l, x) = l \o <<x>>
      BY WorkOfType
    <3>6. Left = WorkOf(q)
      BY <3>2, <3>3 DEF Left
    <3>7. Left' = WorkOf(q \o <<i>>)
      BY <1>2, <1>5, <3>1, <3>2, <3>3 DEF Left
    <3> QED BY <3>4, <3>5, <3>6, <3>7
  <2>2. Serial!Submit(x)
    BY <1>1, <1>2, <1>3, <1>5, <2>1 DEF Serial!Submit, Left, CurrentOf, RunningWork
  <2> QED BY <2>2 DEF Serial!Next
<1> QED BY <1>4, <1>5 DEF QueueTask

(* A turn of the only thread is an advance.                                *)
LEMMA TurnIsAdvance ==
  ASSUME OnceInv, DeviceInv, owner = "device",
         NEW w \in Worker, pc[w] # "exited", NEW n, NextTask(w, n),
         finished' = finished \cup ({item[w].work} \ {Nothing}),
         UNCHANGED <<tasksToCancel, cancelled>>
  PROVE  Serial!Next
<1>0. Types /\ PhaseInv /\ BusyInv /\ Lined(accepted, started, Left, cancelled)
  BY DEF OnceInv
<1>1. item \in [Worker -> Item] /\ tasks \in Seq(Item)
  BY <1>0 DEF Types
<1>2. Alone(item, w)
  <2>1. \A v \in Worker \ {w} : pc[v] = "exited"
    BY DEF DeviceInv
  <2> QED BY <1>0, <2>1 DEF BusyInv, Alone
<1>3. \A v \in Worker : v # w => item'[v] = item[v]
  BY <1>1 DEF NextTask, Leave, Take, Sleep
<1>4. Alone(item', w)
  BY <1>2, <1>3 DEF Alone
<1>5. CurrentOf(item) = item[w].work /\ CurrentOf(item') = item'[w].work
  BY <1>2, <1>4, CurrentWhenAlone
<1>6. finished' = finished \cup ({CurrentOf(item)} \ {Nothing})
  BY <1>5
<1>7. CASE Leave(w, n) \/ Sleep(w, n)
  <2>1. item'[w].work = Nothing /\ tasks' = tasks
    BY <1>1, <1>7 DEF Leave, Sleep, NoItem, ModeItem
  <2>2. CurrentOf(item') = Nothing /\ Left' = Left
    BY <1>5, <2>1 DEF Left
  <2>3. Serial!Advance
    BY <1>6, <2>2 DEF Serial!Advance, Left, CurrentOf, RunningWork
  <2> QED BY <2>3 DEF Serial!Next
<1>8. CASE Take(w, n)
  <2>1. tasks # <<>> /\ tasks' = Tail(tasks) /\ item'[w] = Head(tasks)
    BY <1>1, <1>8 DEF Take
  <2>2. PICK x \in Work : x = Head(tasks).work
    BY <1>1, <2>1, OnlyWorkTail DEF DeviceInv
  <2>3. x # Nothing
    BY SchedulerAssumption
  <2>4. PICK l \in Seq(Work) : l = WorkOf(Tail(tasks))
    <3>1. Tail(tasks) \in Seq(Item)
      BY <1>1, <2>1, HeadTailProperties
    <3> QED BY <3>1, WorkOfType
  <2>5. WorkOf(tasks) = <<x>> \o l
    <3>1. WorkOf(tasks) = WorkIn(Head(tasks)) \o l
      BY <1>1, <2>1, <2>4, WorkOfHead
    <3> QED BY <2>2, <2>3, <3>1 DEF WorkIn
  <2>6. tasksToCancel = <<>>
    BY <1>0, <2>1 DEF PhaseInv
  <2>7. Left = <<x>> \o l /\ Left' = l
    <3>1. Tail(tasks) \in Seq(Item)
      BY <1>1, <2>1, HeadTailProperties
    <3>2. <<>> \o tasks = tasks /\ <<>> \o Tail(tasks) = Tail(tasks)
      BY <1>1, <3>1
    <3> QED BY <2>1, <2>4, <2>5, <2>6, <3>2 DEF Left
  <2>8. Left # <<>> /\ Head(Left) = x /\ Tail(Left) = l
    BY <2>7
  <2>9. CurrentOf(item') = Head(Left) /\ Left' = Tail(Left)
    BY <1>5, <2>1, <2>2, <2>7, <2>8
  <2>10. Serial!Advance
    BY <1>6, <2>8, <2>9 DEF Serial!Advance, Left, CurrentOf, RunningWork
  <2> QED BY <2>10 DEF Serial!Next
<1> QED BY <1>7, <1>8 DEF NextTask

(* A task that is cancelled is the oldest that waits.                      *)
LEMMA CancelTaskIsCancel ==
  ASSUME OnceInv, DeviceInv, owner = "device", CancelTask
  PROVE  Serial!Next
<1>1. tasksToCancel # <<>>
      /\ cancelled' = cancelled \cup ({Head(tasksToCancel).work} \ {Nothing})
      /\ UNCHANGED <<item, finished>>
  BY DEF CancelTask
<1>2. tasksToCancel \in Seq(Item) /\ OnlyWork(tasksToCancel)
  BY DEF OnceInv, Types, DeviceInv
<1>3. PICK x \in Work : x = Head(tasksToCancel).work
  BY <1>1, <1>2, OnlyWorkTail
<1>4. PICK l \in Seq(Work) : l = Left' /\ Left = <<x>> \o l
  <2>1. Left = WorkIn(Head(tasksToCancel)) \o Left' /\ Left' \in Seq(Work)
    BY CancelsNext
  <2>2. WorkIn(Head(tasksToCancel)) = <<x>>
    BY <1>3, SchedulerAssumption DEF WorkIn
  <2> QED BY <2>1, <2>2
<1>5. Left # <<>> /\ Head(Left) = x /\ Left' = Tail(Left)
  <2>1. <<x>> \o l # <<>> /\ Head(<<x>> \o l) = x /\ Tail(<<x>> \o l) = l
    OBVIOUS
  <2> QED BY <1>4, <2>1
<1>6. cancelled' = cancelled \cup {Head(Left)}
  <2>1. x # Nothing
    BY SchedulerAssumption
  <2> QED BY <1>1, <1>3, <1>5, <2>1
<1>7. CurrentOf(item') = CurrentOf(item)
  BY <1>1
<1>8. Serial!Cancel
  BY <1>1, <1>5, <1>6, <1>7 DEF Serial!Cancel, Left, CurrentOf, RunningWork
<1> QED BY <1>8 DEF Serial!Next

(* Every step of a device's scheduler is a step of SerialExecutor or none. *)
LEMMA SerialStep ==
  ASSUME OnceInv, DeviceInv, [Next]_vars, owner = "device"
  PROVE  [Serial!Next]_Serial!vars
<1>1. ASSUME NEW x \in Work, QueueTask(x) PROVE Serial!Next
  BY <1>1, QueueTaskIsSubmit
<1>2. CASE \/ SetSchedulingModeNow
           \/ Shutdown \/ StopThreads \/ JoinExitingThreads
           \/ \E w \in Worker : SetSchedulingModeTask(w) \/ SpuriousWakeup(w)
  <2>1. Quiet
    BY <1>2, QuietSteps
  <2>2. UNCHANGED <<item, finished, cancelled>> /\ Left' = Left
    BY <2>1 DEF Quiet, Left
  <2> QED BY <2>2, QuietIsNoStep
<1>3. ~SetSchedulingModeLater
  <2> SUFFICES ASSUME SetSchedulingModeLater PROVE FALSE
    OBVIOUS
  <2>1. switches = 0
    BY DEF SetSchedulingModeLater, OwnerCalls, DeviceInv
  <2>2. Immediate(NextMode)
    BY <2>1 DEF Immediate, NextMode, DeviceInv
  <2> QED BY <2>2 DEF SetSchedulingModeLater
<1>4. CASE CancelExistingTasks
  <2>1. Left' = Left
    BY <1>4, OnceCancelExisting
  <2>2. UNCHANGED <<item, finished, cancelled>>
    BY <1>4 DEF CancelExistingTasks, history
  <2> QED BY <2>1, <2>2, QuietIsNoStep
<1>5. CASE CancelTask
  BY <1>5, CancelTaskIsCancel
<1>6. ASSUME NEW w \in Worker, TakeTask(w) PROVE Serial!Next
  <2>1. NextTask(w, tasksInProgress) /\ finished' = finished /\ pc[w] = "awake"
        /\ UNCHANGED <<tasksToCancel, cancelled>>
    BY <1>6 DEF TakeTask, shutVars
  <2>2. item[w].work = Nothing
    BY <2>1 DEF OnceInv, BusyInv
  <2>3. finished' = finished \cup ({item[w].work} \ {Nothing})
    BY <2>1, <2>2
  <2> QED BY <2>1, <2>3, TurnIsAdvance
<1>7. ASSUME NEW w \in Worker, FinishTask(w) PROVE Serial!Next
  <2>1. NextTask(w, tasksInProgress - 1) /\ pc[w] # "exited"
        /\ finished' = finished \cup ({item[w].work} \ {Nothing})
        /\ UNCHANGED <<tasksToCancel, cancelled>>
    BY <1>7 DEF FinishTask, shutVars
  <2> QED BY <2>1, TurnIsAdvance
<1>8. CASE UNCHANGED vars
  <2>1. UNCHANGED <<item, finished, cancelled>> /\ Left' = Left
    BY <1>8 DEF vars, queueVars, shutVars, history, Left
  <2> QED BY <2>1, QuietIsNoStep
<1> QED BY <1>1, <1>2, <1>3, <1>4, <1>5, <1>6, <1>7, <1>8 DEF Next, ShutdownSteps, TaskThread

(* A device's scheduler implements SerialExecutor: what is submitted to a  *)
(* device runs one piece at a time, in the order it was queued, until the  *)
(* device is destroyed, and what has not started then is cancelled.        *)
THEOREM DevicesAreSerial == Spec => DeviceSchedulerIsSerial
<1>1. Init => OnceInv /\ DeviceInv
  BY OnceInit, DeviceInit
<1>2. OnceInv /\ DeviceInv /\ [Next]_vars => OnceInv' /\ DeviceInv'
  BY OnceStep, DeviceStep
<1>3. Init => Serial!Init
  <2> SUFFICES ASSUME Init PROVE Serial!Init
    OBVIOUS
  <2>1. Left = <<>>
    <3>1. <<>> \o <<>> = <<>>
      OBVIOUS
    <3> QED BY <3>1, WorkOfOne DEF Left, Init
  <2>2. \A w \in Worker : item[w].work = Nothing
    BY DEF Init, NoItem, ModeItem
  <2>3. CurrentOf(item) = Nothing
    BY <2>2, NoCurrent
  <2> QED BY <2>1, <2>3 DEF Serial!Init, Init, Left, CurrentOf, RunningWork
<1>4. OnceInv /\ DeviceInv /\ [Next]_vars => [owner = "device" => Serial!Next]_Serial!vars
  BY SerialStep
<1> QED BY <1>1, <1>2, <1>3, <1>4, PTL DEF Spec, DeviceSchedulerIsSerial
=============================================================================
