----------------------------- MODULE BlinkProofs -----------------------------
(***************************************************************************)
(* fish's blinkers for any number of slots and places: the slots and the    *)
(* list through them implement the collection of module Blinkers, every     *)
(* phase lasts its length and every place shows its blinker's phase.        *)
(***************************************************************************)
EXTENDS Blink, TLAPS, SequenceTheorems, FiniteSetTheorems, WellFoundedInduction

(* The hypotheses.  BlinkCorner and BlinkSlow show what happens without.    *)
NoCorner == \A u \in Structs : u.location # 0
NotSlow  == \A u \in Structs : u.on_length <= SignBit /\ u.off_length <= SignBit
-----------------------------------------------------------------------------
(* The numbers ordered by <, as a set of pairs. *)
Below == {ss \in Nat \X Nat : ss[1] < ss[2]}

(* The least element that Least chooses exists. *)
LEMMA LeastIs ==
  ASSUME NEW S \in SUBSET Nat, S # {}
  PROVE  Least(S) \in S /\ \A k \in S : Least(S) <= k
<1>1. IsWellFoundedOn(Below, Nat)
  BY NatLessThanWellFounded DEF OpToRel, Below
<1>2. PICK m \in S : \A k \in S : ~ (<<k, m>> \in Below)
  BY <1>1, WFMin
<1>3. \A k \in S : ~ (k < m)
  BY <1>2 DEF Below
<1>4. \A k \in S : m <= k
  BY <1>3
<1>5. \E x \in S : \A y \in S : x <= y
  BY <1>2, <1>4
<1> QED BY <1>5, Zenon DEF Least

(* The list from head h through the array A. *)
ListOf(h, A) == LET at[n \in Slot] == IF n = 1 THEN h
                                      ELSE IF at[n - 1] = NULL THEN NULL ELSE A[at[n - 1]].next
                IN [n \in {m \in Slot : at[m] # NULL} |-> at[n]]

(* The slots of s are on the list from h, each once, in this order, and are *)
(* the ones in use.                                                         *)
Linking(s, h, A) ==
  /\ h = IF Len(s) = 0 THEN NULL ELSE s[1]
  /\ \A i \in 1 .. Len(s) : A[s[i]].next = IF i = Len(s) THEN NULL ELSE s[i + 1]

Once(s) == \A i, j \in 1 .. Len(s) : s[i] = s[j] => i = j

InUse(s, A) == \A r \in Slot : A[r].location # 0 <=> \E i \in 1 .. Len(s) : s[i] = r

IsList(s, h, A) == s \in Seq(Slot) /\ Once(s) /\ Linking(s, h, A) /\ InUse(s, A)

(* The list of the state is that from its head. *)
LEMMA ListIs == List = ListOf(mp1_list_head, blink_array)
BY DEF List, ListOf

(* A list that holds every slot at most once is no longer than the array. *)
LEMMA ListFits ==
  ASSUME NEW s \in Seq(Slot), Once(s)
  PROVE  Len(s) \in 0 .. Slots
<1>1. Len(s) \in Nat /\ Slots \in Nat
  BY BlinkConstants DEF BlinkConstants
<1>2. ASSUME Len(s) > Slots PROVE FALSE
  <2>1. IsFiniteSet(1 .. Len(s)) /\ Cardinality(1 .. Len(s)) = Len(s)
    BY <1>1, <1>2, FS_Interval
  <2>2. IsFiniteSet(Slot) /\ Cardinality(Slot) = Slots
    <3>1. IsFiniteSet(1 .. Slots) /\ Cardinality(1 .. Slots) = IF 1 > Slots THEN 0 ELSE Slots - 1 + 1
      BY <1>1, FS_Interval
    <3> QED BY <1>1, <3>1 DEF Slot
  <2>3. s \in [1 .. Len(s) -> Slot]
    OBVIOUS
  <2>4. Cardinality(Slot) < Cardinality(1 .. Len(s))
    BY <1>1, <1>2, <2>1, <2>2
  <2>5. \E x, y \in 1 .. Len(s) : x # y /\ s[x] = s[y]
    BY <2>1, <2>2, <2>3, <2>4, FS_PigeonHole
  <2> QED BY <2>5 DEF Once
<1> QED BY <1>1, <1>2

(* What the walk's function satisfies. *)
WalkStep(f, h, A, n) == IF n = 1 THEN h ELSE IF f[n - 1] = NULL THEN NULL ELSE A[f[n - 1]].next
IsWalk(f, h, A) == f = [n \in Slot |-> WalkStep(f, h, A, n)]

(* The walk meets the slots of s in turn, then NULL for ever. *)
LEMMA WalkExists ==
  ASSUME NEW s, NEW h, NEW A, IsList(s, h, A)
  PROVE  IsWalk([n \in Slot |-> IF n <= Len(s) THEN s[n] ELSE NULL], h, A)
<1> DEFINE g == [n \in Slot |-> IF n <= Len(s) THEN s[n] ELSE NULL]
<1>1. s \in Seq(Slot) /\ Len(s) \in Nat /\ Linking(s, h, A)
  BY DEF IsList
<1>2. \A n \in Slot : g[n] = IF n <= Len(s) THEN s[n] ELSE NULL
  OBVIOUS
<1>3. \A i \in 1 .. Len(s) : s[i] \in Slot /\ s[i] # NULL
  <2>1. \A i \in 1 .. Len(s) : s[i] \in Slot
    BY <1>1
  <2>2. NULL \notin Slot
    BY DEF NULL, Slot
  <2> QED BY <2>1, <2>2
<1> HIDE DEF g
<1>4. ASSUME NEW n \in Slot PROVE g[n] = WalkStep(g, h, A, n)
  <2>n. n \in Nat /\ n >= 1
    BY DEF Slot
  <2>1. CASE n = 1
    <3>1. g[n] = h
      BY <1>1, <1>2, <2>1, <2>n DEF Linking
    <3> QED BY <2>1, <3>1 DEF WalkStep
  <2>2. CASE n # 1
    <3>1. n - 1 \in Slot /\ n - 1 >= 1
      BY <2>2, <2>n, BlinkConstants DEF BlinkConstants, Slot
    <3>2. g[n - 1] = IF n - 1 <= Len(s) THEN s[n - 1] ELSE NULL
      BY <1>2, <3>1
    <3>3. CASE n - 1 <= Len(s)
      <4>1. n - 1 \in 1 .. Len(s)
        BY <1>1, <2>n, <3>1, <3>3
      <4>2. g[n - 1] = s[n - 1] /\ g[n - 1] # NULL
        BY <1>3, <3>2, <3>3, <4>1
      <4>3. A[s[n - 1]].next = IF n - 1 = Len(s) THEN NULL ELSE s[(n - 1) + 1]
        BY <1>1, <4>1 DEF Linking
      <4>4. A[g[n - 1]].next = g[n]
        <5>1. CASE n - 1 = Len(s)
          BY <1>1, <1>2, <2>n, <4>2, <4>3, <5>1
        <5>2. CASE n - 1 # Len(s)
          <6>1. n <= Len(s) /\ (n - 1) + 1 = n
            BY <1>1, <2>n, <3>3, <5>2
          <6> QED BY <1>2, <4>2, <4>3, <5>2, <6>1
        <5> QED BY <5>1, <5>2
      <4> QED BY <2>2, <4>2, <4>4 DEF WalkStep
    <3>4. CASE ~ (n - 1 <= Len(s))
      <4>1. ~ (n <= Len(s))
        BY <1>1, <2>n, <3>4
      <4> QED BY <1>2, <2>2, <3>2, <3>4, <4>1 DEF WalkStep
    <3> QED BY <3>3, <3>4
  <2> QED BY <2>1, <2>2
<1>5. g = [n \in Slot |-> WalkStep(g, h, A, n)]
  BY <1>4, Zenon DEF g
<1> QED BY <1>5 DEF g, IsWalk

(* There is only one walk. *)
LEMMA WalkUnique ==
  ASSUME NEW f, NEW g, NEW h, NEW A, IsWalk(f, h, A), IsWalk(g, h, A)
  PROVE  f = g
<1>1. /\ f = [n \in Slot |-> WalkStep(f, h, A, n)]
      /\ g = [n \in Slot |-> WalkStep(g, h, A, n)]
  BY DEF IsWalk
<1>2. \A n \in Slot : f[n] = WalkStep(f, h, A, n) /\ g[n] = WalkStep(g, h, A, n)
  BY <1>1, Zenon
<1> DEFINE T == {n \in Slot : f[n] # g[n]}
<1>3. ASSUME T # {} PROVE FALSE
  <2>1. T \in SUBSET Nat
    BY DEF Slot
  <2>2. PICK m : m \in T /\ \A k \in T : m <= k
    <3> HIDE DEF T
    <3> QED BY <1>3, <2>1, LeastIs
  <2>3. m \in Slot /\ f[m] # g[m] /\ m \in Nat /\ m >= 1
    BY <2>2 DEF Slot
  <2>4. CASE m = 1
    BY <1>2, <2>3, <2>4 DEF WalkStep
  <2>5. CASE m # 1
    <3>1. m - 1 \in Slot /\ ~ (m <= m - 1)
      BY <2>3, <2>5, BlinkConstants DEF BlinkConstants, Slot
    <3>2. f[m - 1] = g[m - 1]
      BY <2>2, <3>1
    <3>3. WalkStep(f, h, A, m) = WalkStep(g, h, A, m)
      BY <2>5, <3>2 DEF WalkStep
    <3> QED BY <1>2, <2>3, <3>3
  <2> QED BY <2>4, <2>5
<1>4. \A n \in Slot : f[n] = g[n]
  BY <1>3
<1>5. DOMAIN f = Slot /\ DOMAIN g = Slot
  BY <1>1, Zenon
<1>6. f = [n \in Slot |-> f[n]] /\ g = [n \in Slot |-> g[n]]
  BY <1>1, <1>2, Zenon
<1> QED BY <1>4, <1>6, Zenon

(* The walk finds exactly the slots of the list. *)
LEMMA WalkFinds ==
  ASSUME NEW s, NEW h, NEW A, IsList(s, h, A)
  PROVE  ListOf(h, A) = s
<1> DEFINE g  == [n \in Slot |-> IF n <= Len(s) THEN s[n] ELSE NULL]
           at == CHOOSE f : IsWalk(f, h, A)
<1>1. ListOf(h, A) = [n \in {m \in Slot : at[m] # NULL} |-> at[n]]
  BY DEF ListOf, IsWalk, WalkStep
<1>2. IsWalk(g, h, A)
  BY WalkExists
<1>3. IsWalk(at, h, A)
  <2> HIDE DEF g
  <2> QED BY <1>2, Zenon
<1>4. at = g
  <2> HIDE DEF at, g
  <2> QED BY <1>2, <1>3, WalkUnique
<1>5. s \in Seq(Slot) /\ Len(s) \in 0 .. Slots /\ Slots \in Nat
  BY ListFits, BlinkConstants DEF BlinkConstants, IsList
<1>6. \A n \in Slot : g[n] = IF n <= Len(s) THEN s[n] ELSE NULL
  OBVIOUS
<1>7. \A i \in 1 .. Len(s) : i \in Slot /\ s[i] # NULL
  BY <1>5 DEF Slot, NULL
<1> HIDE DEF at, g
<1>8. {m \in Slot : g[m] # NULL} = 1 .. Len(s)
  <2>1. ASSUME NEW m \in Slot, g[m] # NULL PROVE m \in 1 .. Len(s)
    <3>1. m \in Nat /\ m >= 1 /\ m <= Len(s)
      BY <1>6, <2>1 DEF Slot
    <3> QED BY <1>5, <3>1
  <2>2. ASSUME NEW m \in 1 .. Len(s) PROVE m \in Slot /\ g[m] # NULL
    BY <1>5, <1>6, <1>7
  <2> QED BY <2>1, <2>2
<1>9. \A n \in 1 .. Len(s) : g[n] = s[n]
  BY <1>5, <1>6, <1>7
<1>10. ListOf(h, A) = [n \in 1 .. Len(s) |-> g[n]]
  BY <1>1, <1>4, <1>8, Zenon
<1>11. s = [n \in 1 .. Len(s) |-> s[n]]
  BY <1>5
<1>12. [n \in 1 .. Len(s) |-> g[n]] = [n \in 1 .. Len(s) |-> s[n]]
  BY <1>9, Zenon
<1> QED BY <1>10, <1>11, <1>12
-----------------------------------------------------------------------------
(* Elements of a list are slots. *)
LEMMA OnList ==
  ASSUME NEW s, NEW h, NEW A, IsList(s, h, A)
  PROVE  /\ s \in Seq(Slot) /\ Len(s) \in Nat /\ DOMAIN s = 1 .. Len(s) /\ NULL \notin Slot
         /\ \A i \in 1 .. Len(s) : s[i] \in Slot /\ A[s[i]].location # 0
<1>1. s \in Seq(Slot) /\ Len(s) \in Nat /\ DOMAIN s = 1 .. Len(s)
  BY DEF IsList
<1>2. \A i \in 1 .. Len(s) : s[i] \in Slot
  BY <1>1
<1>3. NULL \notin Slot
  BY DEF NULL, Slot
<1>4. \A i \in 1 .. Len(s) : A[s[i]].location # 0
  BY <1>2 DEF IsList, InUse
<1> QED BY <1>1, <1>2, <1>3, <1>4

(* What changes neither links nor locations leaves the list as it is. *)
LEMMA SameLinks ==
  ASSUME NEW s, NEW h, NEW A, NEW B, IsList(s, h, A),
         \A r \in Slot : B[r].next = A[r].next /\ B[r].location = A[r].location
  PROVE  IsList(s, h, B)
<1>1. \A i \in 1 .. Len(s) : s[i] \in Slot
  BY OnList
<1>2. Linking(s, h, B)
  BY <1>1 DEF IsList, Linking
<1>3. InUse(s, B)
  BY DEF IsList, InUse
<1> QED BY <1>2, <1>3 DEF IsList

(* A free slot goes to the front. *)
LEMMA PushList ==
  ASSUME NEW s, NEW h, NEW A, NEW B, IsList(s, h, A), NEW p \in Slot, A[p].location = 0,
         B[p].next = h, B[p].location # 0, \A r \in Slot \ {p} : B[r] = A[r]
  PROVE  IsList(<<p>> \o s, p, B)
<1> DEFINE t == <<p>> \o s
<1>1. s \in Seq(Slot) /\ Len(s) \in Nat /\ \A i \in 1 .. Len(s) : s[i] \in Slot /\ s[i] # p
  BY OnList
<1>2. <<p>> \in Seq(Slot) /\ Len(<<p>>) = 1 /\ <<p>>[1] = p
  OBVIOUS
<1>3. /\ t \in Seq(Slot) /\ Len(t) = Len(s) + 1 /\ t[1] = p
      /\ \A i \in 2 .. Len(s) + 1 : t[i] = s[i - 1]
  <2>1. /\ t \in Seq(Slot) /\ Len(t) = Len(<<p>>) + Len(s)
        /\ \A i \in 1 .. Len(<<p>>) + Len(s) :
             t[i] = IF i <= Len(<<p>>) THEN <<p>>[i] ELSE s[i - Len(<<p>>)]
    BY <1>1, <1>2, ConcatProperties
  <2> HIDE DEF t
  <2>2. Len(t) = Len(s) + 1
    BY <1>1, <1>2, <2>1
  <2>3. \A i \in 1 .. Len(s) + 1 : t[i] = IF i <= 1 THEN <<p>>[i] ELSE s[i - 1]
    BY <1>1, <1>2, <2>1, <2>2
  <2>4. t[1] = p
    BY <1>1, <1>2, <2>3
  <2>5. \A i \in 2 .. Len(s) + 1 : t[i] = s[i - 1]
    BY <1>1, <2>3
  <2> QED BY <2>1, <2>2, <2>4, <2>5
<1> HIDE DEF t
<1>4. \A i \in 1 .. Len(s) + 1 : i = 1 \/ (i \in 2 .. Len(s) + 1 /\ i - 1 \in 1 .. Len(s) /\ t[i] # p)
  BY <1>1, <1>3
<1>5. Once(t)
  <2> SUFFICES ASSUME NEW i \in 1 .. Len(s) + 1, NEW j \in 1 .. Len(s) + 1, t[i] = t[j] PROVE i = j
    BY <1>3 DEF Once
  <2>1. CASE i = 1 \/ j = 1
    BY <1>3, <1>4, <2>1
  <2>2. CASE i # 1 /\ j # 1
    <3>1. /\ i - 1 \in 1 .. Len(s) /\ j - 1 \in 1 .. Len(s) /\ s[i - 1] = s[j - 1]
      BY <1>3, <1>4, <2>2
    <3>2. i - 1 = j - 1
      BY <3>1 DEF IsList, Once
    <3> QED BY <3>2
  <2> QED BY <2>1, <2>2
<1>6. Linking(t, p, B)
  <2>1. ASSUME NEW i \in 1 .. Len(s) + 1
        PROVE  B[t[i]].next = IF i = Len(s) + 1 THEN NULL ELSE t[i + 1]
    <3>1. CASE i = 1
      <4>1. h = IF Len(s) = 0 THEN NULL ELSE s[1]
        BY DEF IsList, Linking
      <4>2. Len(s) # 0 => t[2] = s[1]
        BY <1>1, <1>3
      <4> QED BY <1>1, <1>3, <3>1, <4>1, <4>2
    <3>2. CASE i # 1
      <4>1. /\ i \in 2 .. Len(s) + 1 /\ i - 1 \in 1 .. Len(s) /\ t[i] = s[i - 1]
            /\ s[i - 1] \in Slot \ {p}
        BY <1>1, <1>3, <1>4, <3>2
      <4>2. B[t[i]].next = IF i - 1 = Len(s) THEN NULL ELSE s[(i - 1) + 1]
        BY <4>1 DEF IsList, Linking
      <4>3. i # Len(s) + 1 => t[i + 1] = s[(i - 1) + 1]
        <5> SUFFICES ASSUME i # Len(s) + 1 PROVE t[i + 1] = s[(i - 1) + 1]
          OBVIOUS
        <5>1. i + 1 \in 2 .. Len(s) + 1 /\ (i + 1) - 1 = i /\ (i - 1) + 1 = i
          BY <1>1
        <5> QED BY <1>3, <5>1
      <4>4. i - 1 = Len(s) <=> i = Len(s) + 1
        BY <1>1
      <4> QED BY <4>2, <4>3, <4>4
    <3> QED BY <3>1, <3>2
  <2> QED BY <1>1, <1>3, <2>1 DEF Linking
<1>7. InUse(t, B)
  <2> SUFFICES ASSUME NEW r \in Slot PROVE B[r].location # 0 <=> \E i \in 1 .. Len(s) + 1 : t[i] = r
    BY <1>3 DEF InUse
  <2>1. CASE r = p
    BY <1>1, <1>3, <2>1
  <2>2. CASE r # p
    <3>1. B[r].location # 0 <=> \E i \in 1 .. Len(s) : s[i] = r
      BY <2>2 DEF IsList, InUse
    <3>2. ASSUME NEW i \in 1 .. Len(s), s[i] = r PROVE \E j \in 1 .. Len(s) + 1 : t[j] = r
      <4>1. i + 1 \in 2 .. Len(s) + 1 /\ i + 1 \in 1 .. Len(s) + 1 /\ (i + 1) - 1 = i
        BY <1>1
      <4>2. t[i + 1] = r
        BY <1>3, <3>2, <4>1
      <4> QED BY <4>1, <4>2
    <3>3. ASSUME NEW i \in 1 .. Len(s) + 1, t[i] = r PROVE \E j \in 1 .. Len(s) : s[j] = r
      BY <1>3, <1>4, <2>2, <3>3
    <3> QED BY <3>1, <3>2, <3>3
  <2> QED BY <2>1, <2>2
<1>8. IsList(t, p, B)
  BY <1>3, <1>5, <1>6, <1>7 DEF IsList
<1> QED BY <1>8 DEF t

(* The list without its k-th element. *)
Drop(s, k) == [i \in 1 .. Len(s) - 1 |-> s[IF i < k THEN i ELSE i + 1]]

(* Its elements: those before k stay, those after move up. *)
LEMMA DropIs ==
  ASSUME NEW s \in Seq(Slot), NEW k \in 1 .. Len(s)
  PROVE  /\ Drop(s, k) \in Seq(Slot) /\ Len(Drop(s, k)) = Len(s) - 1
         /\ \A i \in 1 .. Len(s) - 1 : /\ i < k => Drop(s, k)[i] = s[i]
                                       /\ i >= k => Drop(s, k)[i] = s[i + 1]
<1>1. Len(s) \in Nat /\ Len(s) - 1 \in Nat
  OBVIOUS
<1>2. \A i \in 1 .. Len(s) - 1 : (IF i < k THEN i ELSE i + 1) \in 1 .. Len(s)
  BY <1>1
<1>3. \A i \in 1 .. Len(s) - 1 : s[IF i < k THEN i ELSE i + 1] \in Slot
  BY <1>2
<1>4. Drop(s, k) \in Seq(Slot) /\ Len(Drop(s, k)) = Len(s) - 1
  BY <1>1, <1>3 DEF Drop
<1>5. \A i \in 1 .. Len(s) - 1 : Drop(s, k)[i] = s[IF i < k THEN i ELSE i + 1]
  BY DEF Drop
<1>6. \A i \in 1 .. Len(s) - 1 : /\ i < k => Drop(s, k)[i] = s[i]
                                 /\ i >= k => Drop(s, k)[i] = s[i + 1]
  <2> TAKE i \in 1 .. Len(s) - 1
  <2>1. CASE i < k
    BY <1>1, <1>5, <2>1
  <2>2. CASE ~ (i < k)
    BY <1>1, <1>5, <2>2
  <2> QED BY <2>1, <2>2
<1> QED BY <1>4, <1>6

(* What unlinking the slot d does to the links of the slot r. *)
Relinked(s, h, A, d, r) ==
  IF h # d /\ A[r].next = d /\ (\E i \in 1 .. Len(s) : s[i] = r) THEN A[d].next ELSE A[r].next

(* A slot is taken out of the list and freed. *)
LEMMA DropList ==
  ASSUME NEW s, NEW h, NEW A, NEW B, IsList(s, h, A), NEW k \in 1 .. Len(s), NEW g,
         g = (IF h = s[k] THEN A[s[k]].next ELSE h),
         B[s[k]].location = 0,
         \A r \in Slot \ {s[k]} : /\ B[r].location = A[r].location
                                  /\ B[r].next = Relinked(s, h, A, s[k], r)
  PROVE  IsList(Drop(s, k), g, B)
<1>1. /\ s \in Seq(Slot) /\ Len(s) \in Nat \ {0} /\ NULL \notin Slot /\ k \in Nat /\ 1 <= k /\ k <= Len(s)
      /\ \A i \in 1 .. Len(s) : s[i] \in Slot
  BY OnList
<1>2. \A i, j \in 1 .. Len(s) : s[i] = s[j] => i = j
  BY DEF IsList, Once
<1>3. h = s[1]
  BY <1>1 DEF IsList, Linking
<1>4. \A i \in 1 .. Len(s) : A[s[i]].next = IF i = Len(s) THEN NULL ELSE s[i + 1]
  BY DEF IsList, Linking
<1> DEFINE t == Drop(s, k)
           N == Len(s)
<1>5. /\ t \in Seq(Slot) /\ Len(t) = N - 1
      /\ \A i \in 1 .. N - 1 : /\ i < k => t[i] = s[i]
                               /\ i >= k => t[i] = s[i + 1]
  BY <1>1, DropIs
<1> HIDE DEF t
<1>6. ASSUME NEW i \in 1 .. N - 1
      PROVE  \E j \in 1 .. N : j # k /\ t[i] = s[j] /\ j = IF i < k THEN i ELSE i + 1
  <2>1. CASE i < k
    <3>1. i \in 1 .. N /\ i # k
      BY <1>1, <2>1
    <3> QED BY <1>5, <2>1, <3>1
  <2>2. CASE i >= k
    <3>1. i + 1 \in 1 .. N /\ i + 1 # k /\ ~ (i < k)
      BY <1>1, <2>2
    <3> QED BY <1>5, <2>2, <3>1
  <2> QED BY <1>1, <2>1, <2>2
<1>7. Once(t)
  <2> SUFFICES ASSUME NEW i \in 1 .. N - 1, NEW j \in 1 .. N - 1, t[i] = t[j] PROVE i = j
    BY <1>5 DEF Once
  <2>1. PICK a \in 1 .. N : t[i] = s[a] /\ a = IF i < k THEN i ELSE i + 1
    BY <1>6
  <2>2. PICK b \in 1 .. N : t[j] = s[b] /\ b = IF j < k THEN j ELSE j + 1
    BY <1>6
  <2>3. a = b
    BY <1>2, <2>1, <2>2
  <2> QED BY <1>1, <2>1, <2>2, <2>3
<1>8. InUse(t, B)
  <2> SUFFICES ASSUME NEW r \in Slot PROVE B[r].location # 0 <=> \E i \in 1 .. N - 1 : t[i] = r
    BY <1>5 DEF InUse
  <2>1. ASSUME NEW i \in 1 .. N - 1, t[i] = r PROVE B[r].location # 0
    <3>1. PICK j \in 1 .. N : j # k /\ t[i] = s[j]
      BY <1>6
    <3>2. r # s[k] /\ A[r].location # 0
      BY <1>2, <2>1, <3>1, OnList
    <3> QED BY <3>2
  <2>2. ASSUME B[r].location # 0 PROVE \E i \in 1 .. N - 1 : t[i] = r
    <3>1. r # s[k] /\ A[r].location # 0
      BY <2>2
    <3>2. PICK j \in 1 .. N : s[j] = r
      BY <3>1 DEF IsList, InUse
    <3>3. j # k
      BY <3>1, <3>2
    <3>4. CASE j < k
      <4>1. j \in 1 .. N - 1
        BY <1>1, <3>4
      <4> QED BY <1>5, <3>2, <3>4, <4>1
    <3>5. CASE j > k
      <4>1. j - 1 \in 1 .. N - 1 /\ j - 1 >= k /\ (j - 1) + 1 = j
        BY <1>1, <3>5
      <4>2. t[j - 1] = s[(j - 1) + 1]
        BY <1>5, <4>1
      <4> QED BY <3>2, <4>1, <4>2
    <3> QED BY <1>1, <3>3, <3>4, <3>5
  <2> QED BY <2>1, <2>2
<1>9. g = IF Len(t) = 0 THEN NULL ELSE t[1]
  <2>1. CASE k = 1
    <3>1. g = IF N = 1 THEN NULL ELSE s[2]
      <4>1. 1 \in 1 .. N /\ 1 + 1 = 2
        BY <1>1
      <4>2. A[s[1]].next = IF 1 = N THEN NULL ELSE s[1 + 1]
        BY <1>4, <4>1
      <4>3. g = A[s[1]].next
        BY <1>3, <2>1
      <4> QED BY <4>1, <4>2, <4>3
    <3>2. N # 1 => t[1] = s[2]
      BY <1>1, <1>5, <2>1
    <3> QED BY <1>1, <1>5, <3>1, <3>2
  <2>2. CASE k # 1
    <3>1. 1 \in 1 .. N /\ k \in 1 .. N /\ 1 < k /\ 1 \in 1 .. N - 1 /\ N - 1 # 0
      BY <1>1, <2>2
    <3>2. s[1] # s[k] /\ g = s[1]
      BY <1>2, <1>3, <2>2, <3>1
    <3> QED BY <1>5, <3>1, <3>2
  <2> QED BY <2>1, <2>2
<1>10. ASSUME NEW i \in 1 .. N - 1
       PROVE  B[t[i]].next = IF i = N - 1 THEN NULL ELSE t[i + 1]
  <2>1. PICK j \in 1 .. N : j # k /\ t[i] = s[j] /\ j = IF i < k THEN i ELSE i + 1
    BY <1>6
  <2>2. s[j] \in Slot \ {s[k]} /\ (\E x \in 1 .. Len(s) : s[x] = s[j])
    BY <1>1, <1>2, <2>1
  <2>3. B[t[i]].next = IF h # s[k] /\ A[s[j]].next = s[k] THEN A[s[k]].next ELSE A[s[j]].next
    BY <2>1, <2>2 DEF Relinked
  <2>4. A[s[j]].next = IF j = N THEN NULL ELSE s[j + 1]
    BY <1>4
  <2>5. A[s[k]].next = IF k = N THEN NULL ELSE s[k + 1]
    BY <1>4
  <2>6. h # s[k] <=> k # 1
    <3>1. 1 \in 1 .. N
      BY <1>1
    <3> QED BY <1>2, <1>3, <3>1
  <2>7. A[s[j]].next = s[k] <=> j + 1 = k
    <3>1. CASE j = N
      <4>1. s[k] # NULL /\ j + 1 # k
        BY <1>1, <3>1
      <4> QED BY <2>4, <3>1, <4>1
    <3>2. CASE j # N
      <4>1. j + 1 \in 1 .. N
        BY <1>1, <3>2
      <4> QED BY <1>2, <2>4, <3>2, <4>1
    <3> QED BY <3>1, <3>2
  <2>8. CASE i < k - 1
    <3>1. /\ j = i /\ j + 1 # k /\ j # N /\ i # N - 1
          /\ i + 1 \in 1 .. N - 1 /\ i + 1 < k
      BY <1>1, <2>1, <2>8
    <3>2. B[t[i]].next = s[i + 1]
      BY <2>3, <2>4, <2>7, <3>1
    <3>3. t[i + 1] = s[i + 1]
      BY <1>5, <3>1
    <3> QED BY <3>1, <3>2, <3>3
  <2>9. CASE i = k - 1
    <3>1. j = i /\ j + 1 = k /\ k # 1 /\ (k = N <=> i = N - 1)
      BY <1>1, <2>1, <2>9
    <3>2. B[t[i]].next = IF k = N THEN NULL ELSE s[k + 1]
      BY <2>3, <2>5, <2>6, <2>7, <3>1
    <3>3. i # N - 1 => t[i + 1] = s[k + 1]
      <4> SUFFICES ASSUME i # N - 1 PROVE t[i + 1] = s[k + 1]
        OBVIOUS
      <4>1. i + 1 = k /\ k \in 1 .. N - 1 /\ k >= k
        BY <1>1, <2>9
      <4>2. t[k] = s[k + 1]
        BY <1>5, <4>1
      <4> QED BY <4>1, <4>2
    <3> QED BY <3>1, <3>2, <3>3
  <2>10. CASE i >= k
    <3>1. j = i + 1 /\ j + 1 # k /\ (j = N <=> i = N - 1)
      BY <1>1, <2>1, <2>10
    <3>2. B[t[i]].next = IF i = N - 1 THEN NULL ELSE s[j + 1]
      BY <2>3, <2>4, <2>7, <3>1
    <3>3. i # N - 1 => t[i + 1] = s[j + 1]
      <4> SUFFICES ASSUME i # N - 1 PROVE t[i + 1] = s[j + 1]
        OBVIOUS
      <4>1. i + 1 \in 1 .. N - 1 /\ i + 1 >= k
        BY <1>1, <2>10
      <4>2. t[i + 1] = s[(i + 1) + 1]
        BY <1>5, <4>1
      <4> QED BY <3>1, <4>2
    <3> QED BY <3>2, <3>3
  <2> QED BY <1>1, <2>8, <2>9, <2>10
<1>11. Linking(t, g, B)
  BY <1>5, <1>9, <1>10 DEF Linking
<1>12. IsList(t, g, B)
  BY <1>5, <1>7, <1>8, <1>11 DEF IsList
<1> QED BY <1>12 DEF t
-----------------------------------------------------------------------------
(* The invariants.  TypeOK with the other variables; the list.              *)
TypeInv == /\ TypeOK
           /\ screen \in [Locations -> Nat] /\ age \in [Slot -> Nat]
           /\ glitch \in [Slot -> BOOLEAN] /\ twins \in BOOLEAN
           /\ \A r \in Slot : blink_array[r].location \in Locations

ListInv == IsList(List, mp1_list_head, blink_array)

(* The k-th element of the list is the newest blinker at the location. *)
NewestAt(s, A, location, k) ==
  /\ k \in 1 .. Len(s) /\ A[s[k]].location = location
  /\ \A j \in 1 .. Len(s) : A[s[j]].location = location => k <= j

(* mp1_find_helper finds it, or NULL where no blinker is. *)
LEMMA FindIs ==
  ASSUME ListInv, NEW location
  PROVE  \/ /\ mp1_find_helper(location) = NULL
            /\ \A i \in 1 .. Len(List) : blink_array[List[i]].location # location
         \/ /\ mp1_find_helper(location) \in Slot
            /\ \E k \in 1 .. Len(List) : /\ NewestAt(List, blink_array, location, k)
                                         /\ mp1_find_helper(location) = List[k]
<1>1. PICK s, A : s = List /\ A = blink_array
  OBVIOUS
<1>2. /\ DOMAIN s = 1 .. Len(s) /\ Len(s) \in Nat /\ NULL \notin Slot
      /\ \A i \in 1 .. Len(s) : s[i] \in Slot
  BY <1>1, OnList DEF ListInv
<1> DEFINE found == {i \in 1 .. Len(s) : A[s[i]].location = location}
<1>3. mp1_find_helper(location) = IF found = {} THEN NULL ELSE s[Least(found)]
  BY <1>1, <1>2 DEF mp1_find_helper
<1>4. CASE found = {}
  BY <1>1, <1>3, <1>4
<1>5. CASE found # {}
  <2>1. found \in SUBSET Nat
    BY <1>2
  <2>2. PICK k : k = Least(found) /\ k \in found /\ \A j \in found : k <= j
    <3> HIDE DEF found
    <3> QED BY <1>5, <2>1, LeastIs
  <2>3. NewestAt(s, A, location, k)
    BY <2>2 DEF NewestAt
  <2>4. mp1_find_helper(location) = s[k] /\ k \in 1 .. Len(s)
    BY <1>3, <1>5, <2>2
  <2> QED BY <1>1, <1>2, <2>3, <2>4
<1> QED BY <1>4, <1>5

(* mp1_malloc gives a slot that is not in use. *)
LEMMA MallocIs ==
  ASSUME NEW p \in Slot, p = mp1_malloc
  PROVE  blink_array[p].location = 0
<1> DEFINE free == {r \in Slot : blink_array[r].location = 0}
<1>1. free \in SUBSET Nat
  BY DEF Slot
<1>2. mp1_malloc = IF free = {} THEN NULL ELSE Least(free)
  BY DEF mp1_malloc
<1>3. free # {}
  BY <1>2 DEF NULL, Slot
<1>4. Least(free) \in free
  <2> HIDE DEF free
  <2> QED BY <1>1, <1>3, LeastIs
<1> QED BY <1>2, <1>3, <1>4

(* What an add changes. *)
LEMMA AddEffect ==
  ASSUME NoCorner, TypeInv, ListInv, NEW u \in Structs, mp1_ioctl_add(u), ~ UNCHANGED vars
  PROVE  \E p \in Slot :
           /\ blink_array[p].location = 0 /\ u.location \in Locations /\ u.location # 0
           /\ blink_array' = [blink_array EXCEPT ![p] = Linked(u)]
           /\ mp1_list_head' = p
           /\ screen' = [screen EXCEPT ![u.location] = u.on_char]
           /\ age' = [age EXCEPT ![p] = 0] /\ glitch' = [glitch EXCEPT ![p] = FALSE]
           /\ twins' = (twins \/ mp1_find_helper(u.location) # NULL)
           /\ List' = <<p>> \o List /\ ListInv'
<1>1. PICK p \in Slot :
        /\ p = mp1_malloc /\ u.location < Places
        /\ blink_array' = [blink_array EXCEPT ![p] = Linked(u)]
        /\ mp1_list_head' = p
        /\ screen' = [screen EXCEPT ![u.location] = u.on_char]
        /\ age' = [age EXCEPT ![p] = 0] /\ glitch' = [glitch EXCEPT ![p] = FALSE]
        /\ twins' = (twins \/ mp1_find_helper(u.location) # NULL)
  BY DEF mp1_ioctl_add, Fails
<1>2. blink_array[p].location = 0
  BY <1>1, MallocIs
<1>3. u.location \in Locations /\ u.location # 0
  BY <1>1, NoCorner, BlinkConstants DEF BlinkConstants, NoCorner, Locations
<1>4. PICK s, A, h, B : s = List /\ A = blink_array /\ h = mp1_list_head /\ B = blink_array'
  OBVIOUS
<1>5. \A r \in Slot : B[r] = IF r = p THEN Linked(u) ELSE A[r]
  BY <1>1, <1>4 DEF TypeInv, TypeOK
<1>6. B[p].next = h /\ B[p].location = u.location
  BY <1>4, <1>5 DEF Linked
<1>7. IsList(s, h, A)
  BY <1>4 DEF ListInv
<1>8. IsList(<<p>> \o s, p, B)
  BY <1>2, <1>3, <1>4, <1>5, <1>6, <1>7, PushList
<1>9. List' = ListOf(p, B)
  BY <1>1, <1>4 DEF List, ListOf
<1>10. List' = <<p>> \o s
  BY <1>8, <1>9, WalkFinds
<1>11. ListInv'
  BY <1>1, <1>4, <1>8, <1>10 DEF ListInv
<1> QED BY <1>1, <1>2, <1>3, <1>4, <1>10, <1>11

(* Two structures that differ in NEXT at most. *)
SameBlinker(b, c) ==
  /\ b.location = c.location /\ b.on_char = c.on_char /\ b.off_char = c.off_char
  /\ b.on_length = c.on_length /\ b.off_length = c.off_length
  /\ b.countdown = c.countdown /\ b.status = c.status

(* A structure with another NEXT. *)
LEMMA Renext ==
  ASSUME NEW b \in Struct, NEW n \in 0 .. Slots
  PROVE  /\ [b EXCEPT !.next = n] \in Struct /\ [b EXCEPT !.next = n].next = n
         /\ SameBlinker([b EXCEPT !.next = n], b)
BY DEF Struct, SameBlinker

(* What a removal changes. *)
LEMMA RemoveEffect ==
  ASSUME TypeInv, ListInv, NEW location, mp1_ioctl_remove(location), ~ UNCHANGED vars
  PROVE  \E k \in 1 .. Len(List) :
           /\ NewestAt(List, blink_array, location, k)
           /\ List' = Drop(List, k) /\ ListInv'
           /\ blink_array' \in [Slot -> Struct] /\ blink_array'[List[k]] = Zero
           /\ \A r \in Slot \ {List[k]} : SameBlinker(blink_array'[r], blink_array[r])
           /\ mp1_list_head' \in 0 .. Slots
           /\ age' = [age EXCEPT ![List[k]] = 0] /\ glitch' = [glitch EXCEPT ![List[k]] = FALSE]
           /\ UNCHANGED <<screen, twins>>
<1>1. PICK d \in Slot :
        /\ d = mp1_find_helper(location) /\ Unlinked(d)
        /\ age' = [age EXCEPT ![d] = 0] /\ glitch' = [glitch EXCEPT ![d] = FALSE]
        /\ UNCHANGED <<screen, twins>>
  BY DEF mp1_ioctl_remove, Fails
<1>2. PICK s, A, h, B, g : /\ s = List /\ A = blink_array /\ h = mp1_list_head
                           /\ B = blink_array' /\ g = mp1_list_head'
  OBVIOUS
<1>3. IsList(s, h, A) /\ A \in [Slot -> Struct] /\ h \in 0 .. Slots
  BY <1>2 DEF ListInv, TypeInv, TypeOK
<1>4. PICK k \in 1 .. Len(s) : NewestAt(s, A, location, k) /\ d = s[k]
  <2>1. d # NULL
    BY DEF Slot, NULL
  <2> QED BY <1>1, <1>2, <2>1, FindIs
<1>5. /\ DOMAIN s = 1 .. Len(s) /\ g = (IF h = d THEN A[d].next ELSE h)
      /\ B = [r \in Slot |->
                IF r = d THEN Zero
                ELSE IF h # d /\ A[r].next = d /\ \E i \in DOMAIN s : s[i] = r
                     THEN [A[r] EXCEPT !.next = A[d].next]
                ELSE A[r]]
  BY <1>1, <1>2, <1>3, OnList DEF Unlinked
<1>6. A[d] \in Struct /\ A[d].next \in 0 .. Slots
  BY <1>3 DEF Struct
<1>7. B[d] = Zero /\ Zero \in Struct /\ Zero.location = 0
  <2>1. B[d] = Zero
    BY <1>5
  <2>2. Zero \in Struct /\ Zero.location = 0
    BY BlinkConstants DEF BlinkConstants, Zero, Struct, NULL
  <2> QED BY <2>1, <2>2
<1>8. ASSUME NEW r \in Slot \ {d}
      PROVE  /\ B[r] \in Struct /\ SameBlinker(B[r], A[r]) /\ B[r].next = Relinked(s, h, A, d, r)
  <2>1. A[r] \in Struct
    BY <1>3
  <2>2. CASE h # d /\ A[r].next = d /\ \E i \in 1 .. Len(s) : s[i] = r
    <3>1. B[r] = [A[r] EXCEPT !.next = A[d].next]
      BY <1>5, <2>2
    <3> QED BY <1>6, <2>1, <2>2, <3>1, Renext DEF Relinked
  <2>3. CASE ~ (h # d /\ A[r].next = d /\ \E i \in 1 .. Len(s) : s[i] = r)
    <3>1. B[r] = A[r]
      BY <1>5, <2>3
    <3> QED BY <2>1, <2>3, <3>1 DEF Relinked, SameBlinker
  <2> QED BY <2>2, <2>3
<1>9. B \in [Slot -> Struct]
  <2>1. \A r \in Slot : B[r] \in Struct
    BY <1>7, <1>8
  <2>2. B = [r \in Slot |-> B[r]]
    BY <1>5
  <2> QED BY <2>1, <2>2, Zenon
<1>10. IsList(Drop(s, k), g, B)
  <2>1. \A r \in Slot \ {s[k]} : B[r].location = A[r].location /\ B[r].next = Relinked(s, h, A, s[k], r)
    BY <1>4, <1>8 DEF SameBlinker
  <2>2. g = (IF h = s[k] THEN A[s[k]].next ELSE h) /\ B[s[k]].location = 0
    BY <1>4, <1>5, <1>7
  <2> QED BY <1>3, <2>1, <2>2, DropList
<1>11. List' = ListOf(g, B)
  BY <1>2 DEF List, ListOf
<1>12. List' = Drop(s, k)
  BY <1>10, <1>11, WalkFinds
<1>13. ListInv'
  BY <1>2, <1>10, <1>12 DEF ListInv
<1>14. g \in 0 .. Slots
  BY <1>3, <1>5, <1>6
<1> QED BY <1>1, <1>2, <1>4, <1>7, <1>8, <1>9, <1>12, <1>13, <1>14

(* The structure a sync leaves. *)
Synced(b, a) == [location |-> b.location, on_char |-> b.on_char, off_char |-> b.off_char,
                 on_length |-> a.on_length, off_length |-> a.off_length,
                 countdown |-> a.countdown, status |-> a.status, next |-> b.next]

(* What a sync changes. *)
LEMMA SyncEffect ==
  ASSUME TypeInv, ListInv, NEW from, NEW to, mp1_ioctl_sync(from, to), ~ UNCHANGED vars
  PROVE  \E k, m \in 1 .. Len(List) :
           /\ NewestAt(List, blink_array, from, k) /\ NewestAt(List, blink_array, to, m)
           /\ List' = List /\ ListInv' /\ mp1_list_head' = mp1_list_head
           /\ blink_array' \in [Slot -> Struct]
           /\ blink_array'[List[m]] = Synced(blink_array[List[m]], blink_array[List[k]])
           /\ \A r \in Slot \ {List[m]} : blink_array'[r] = blink_array[r]
           /\ screen' = [screen EXCEPT ![to] = blink_array[List[m]].off_char]
           /\ age' = [age EXCEPT ![List[m]] = age[List[k]]]
           /\ glitch' = [glitch EXCEPT ![List[m]] = TRUE] /\ twins' = twins
<1>1. PICK e, d : e = mp1_find_helper(from) /\ d = mp1_find_helper(to)
  OBVIOUS
<1>2. PICK s, A, h, B : s = List /\ A = blink_array /\ h = mp1_list_head /\ B = blink_array'
  OBVIOUS
<1>3. IsList(s, h, A) /\ A \in [Slot -> Struct] /\ h \in 0 .. Slots
  BY <1>2 DEF ListInv, TypeInv, TypeOK
<1>4. /\ e # NULL /\ d # NULL
      /\ B = [A EXCEPT ![d].on_length = A[e].on_length, ![d].off_length = A[e].off_length,
                       ![d].countdown = A[e].countdown, ![d].status = A[e].status]
      /\ screen' = [screen EXCEPT ![A[d].location] = A[d].off_char]
      /\ age' = [age EXCEPT ![d] = age[e]] /\ glitch' = [glitch EXCEPT ![d] = TRUE]
      /\ UNCHANGED <<mp1_list_head, twins>>
  BY <1>1, <1>2 DEF mp1_ioctl_sync, Fails, SyncChar
<1>5. PICK k \in 1 .. Len(s) : NewestAt(s, A, from, k) /\ e = s[k]
  BY <1>1, <1>2, <1>4, FindIs
<1>6. PICK m \in 1 .. Len(s) : NewestAt(s, A, to, m) /\ d = s[m]
  BY <1>1, <1>2, <1>4, FindIs
<1>7. e \in Slot /\ d \in Slot /\ A[e] \in Struct /\ A[d] \in Struct /\ A[d].location = to
  BY <1>3, <1>5, <1>6, OnList DEF NewestAt
<1>8. B[d] = Synced(A[d], A[e]) /\ \A r \in Slot \ {d} : B[r] = A[r]
  <2>1. B[d] = [A[d] EXCEPT !.on_length = A[e].on_length, !.off_length = A[e].off_length,
                            !.countdown = A[e].countdown, !.status = A[e].status]
    BY <1>3, <1>4, <1>7
  <2>2. PICK b \in Struct, a \in Struct : b = A[d] /\ a = A[e]
    BY <1>7
  <2>3. [b EXCEPT !.on_length = a.on_length, !.off_length = a.off_length,
                  !.countdown = a.countdown, !.status = a.status] = Synced(b, a)
    <3> DEFINE c == [b EXCEPT !.on_length = a.on_length, !.off_length = a.off_length,
                              !.countdown = a.countdown, !.status = a.status]
    <3>1. /\ c.location = b.location /\ c.on_char = b.on_char /\ c.off_char = b.off_char
          /\ c.on_length = a.on_length /\ c.off_length = a.off_length
          /\ c.countdown = a.countdown /\ c.status = a.status /\ c.next = b.next
      BY DEF Struct
    <3>2. c \in Struct
      BY DEF Struct
    <3> HIDE DEF c
    <3>3. c = [location |-> c.location, on_char |-> c.on_char, off_char |-> c.off_char,
               on_length |-> c.on_length, off_length |-> c.off_length,
               countdown |-> c.countdown, status |-> c.status, next |-> c.next]
      BY <3>2 DEF Struct
    <3>4. c = Synced(b, a)
      BY <3>1, <3>3 DEF Synced
    <3> QED BY <3>4 DEF c
  <2>4. \A r \in Slot \ {d} : B[r] = A[r]
    BY <1>3, <1>4, <1>7
  <2> QED BY <2>1, <2>2, <2>3, <2>4
<1>9. Synced(A[d], A[e]) \in Struct
  BY <1>7 DEF Struct, Synced
<1>10. B \in [Slot -> Struct]
  <2>1. \A r \in Slot : B[r] \in Struct
    BY <1>3, <1>8, <1>9
  <2>2. B = [r \in Slot |-> B[r]]
    BY <1>3, <1>4
  <2> QED BY <2>1, <2>2, Zenon
<1>11. \A r \in Slot : B[r].next = A[r].next /\ B[r].location = A[r].location
  BY <1>8 DEF Synced
<1>12. IsList(s, h, B)
  BY <1>3, <1>11, SameLinks
<1>13. List' = ListOf(h, B)
  <2>1. mp1_list_head' = h /\ blink_array' = B
    BY <1>2, <1>4, Zenon
  <2> QED BY <2>1 DEF List, ListOf
<1>14. List' = s
  BY <1>12, <1>13, WalkFinds
<1>15. ListInv'
  BY <1>2, <1>4, <1>12, <1>14 DEF ListInv
<1>16. /\ List' = List /\ ListInv' /\ mp1_list_head' = mp1_list_head /\ twins' = twins
       /\ blink_array' \in [Slot -> Struct]
       /\ blink_array'[s[m]] = Synced(A[s[m]], A[s[k]])
       /\ \A r \in Slot \ {s[m]} : blink_array'[r] = A[r]
  <2>1. blink_array' = B /\ List = s /\ d = s[m] /\ e = s[k]
    BY <1>2, <1>5, <1>6
  <2>2. mp1_list_head' = mp1_list_head /\ twins' = twins
    BY <1>4
  <2> QED BY <1>8, <1>10, <1>14, <1>15, <2>1, <2>2, Zenon
<1>17. /\ screen' = [screen EXCEPT ![to] = A[s[m]].off_char]
       /\ age' = [age EXCEPT ![s[m]] = age[s[k]]]
       /\ glitch' = [glitch EXCEPT ![s[m]] = TRUE]
  BY <1>4, <1>5, <1>6, <1>7
<1> QED BY <1>2, <1>5, <1>6, <1>16, <1>17, Zenon

(* The greatest element that Greatest chooses exists. *)
LEMMA GreatestIs ==
  ASSUME NEW n \in Nat, NEW S \in SUBSET (1 .. n), S # {}
  PROVE  Greatest(S) \in S /\ \A k \in S : k <= Greatest(S)
<1> DEFINE U == {m \in Nat : \A k \in S : k <= m}
<1>1. U \in SUBSET Nat /\ n \in U
  OBVIOUS
<1>2. PICK m \in U : \A k \in U : m <= k
  <2> HIDE DEF U
  <2> QED BY <1>1, LeastIs
<1>3. m \in Nat /\ \A k \in S : k <= m
  BY <1>2
<1>4. ASSUME m \notin S PROVE FALSE
  <2>1. \A k \in S : k \in Nat /\ k >= 1 /\ k <= m /\ k # m
    BY <1>3, <1>4
  <2>2. \A k \in S : k <= m - 1 /\ m - 1 \in Nat
    BY <1>3, <2>1
  <2>3. m - 1 \in U
    BY <2>2
  <2>4. m <= m - 1
    BY <1>2, <2>3
  <2> QED BY <1>3, <2>4
<1>5. \E x \in S : \A y \in S : y <= x
  BY <1>3, <1>4
<1> QED BY <1>5, Zenon DEF Greatest

(* Is a blinker due at the next tick, and what a tick makes of it. *)
IsDue(b) == Expired(Decremented(b.countdown))
TickIs(c, b) ==
  /\ c.location = b.location /\ c.on_char = b.on_char /\ c.off_char = b.off_char
  /\ c.on_length = b.on_length /\ c.off_length = b.off_length /\ c.next = b.next
  /\ IsDue(b) => /\ c.status = 1 - b.status
                 /\ c.countdown = IF b.status = 1 THEN b.off_length ELSE b.on_length
  /\ ~ IsDue(b) => c.status = b.status /\ c.countdown = Decremented(b.countdown)

(* It is done by Toggled or by the decrement. *)
LEMMA TickOne ==
  ASSUME NEW b \in Struct
  PROVE  /\ IsDue(b) => Toggled(b) \in Struct /\ TickIs(Toggled(b), b)
         /\ ~ IsDue(b) => /\ [b EXCEPT !.countdown = Decremented(b.countdown)] \in Struct
                          /\ TickIs([b EXCEPT !.countdown = Decremented(b.countdown)], b)
<1>1. b.status \in {0, 1} /\ b.countdown \in 0 .. 2 * SignBit - 1
  BY DEF Struct
<1>2. Decremented(b.countdown) \in 0 .. 2 * SignBit - 1
  BY <1>1, BlinkConstants DEF BlinkConstants, Decremented
<1>3. ASSUME IsDue(b), b.status = 1 PROVE Toggled(b) \in Struct /\ TickIs(Toggled(b), b)
  <2>1. Toggled(b) = [b EXCEPT !.status = 0, !.countdown = b.off_length]
    BY <1>3 DEF Toggled
  <2>2. [b EXCEPT !.status = 0, !.countdown = b.off_length] \in Struct
    BY DEF Struct
  <2>3. TickIs([b EXCEPT !.status = 0, !.countdown = b.off_length], b)
    BY <1>3 DEF Struct, TickIs
  <2> QED BY <2>1, <2>2, <2>3
<1>4. ASSUME IsDue(b), b.status = 0 PROVE Toggled(b) \in Struct /\ TickIs(Toggled(b), b)
  <2>1. Toggled(b) = [b EXCEPT !.status = 1, !.countdown = b.on_length]
    BY <1>4 DEF Toggled
  <2>2. [b EXCEPT !.status = 1, !.countdown = b.on_length] \in Struct
    BY DEF Struct
  <2>3. TickIs([b EXCEPT !.status = 1, !.countdown = b.on_length], b)
    BY <1>4 DEF Struct, TickIs
  <2> QED BY <2>1, <2>2, <2>3
<1>5. ASSUME NEW n \in 0 .. 2 * SignBit - 1
      PROVE  /\ [b EXCEPT !.countdown = n] \in Struct
             /\ n = Decremented(b.countdown) /\ ~ IsDue(b) => TickIs([b EXCEPT !.countdown = n], b)
  <2>1. [b EXCEPT !.countdown = n] \in Struct
    BY DEF Struct
  <2>2. n = Decremented(b.countdown) /\ ~ IsDue(b) => TickIs([b EXCEPT !.countdown = n], b)
    BY DEF Struct, TickIs
  <2> QED BY <2>1, <2>2
<1> QED BY <1>1, <1>2, <1>3, <1>4, <1>5

(* What a tick shows at a place: the character of a blinker that turned.    *)
TickShows(s, A, new, old, l) ==
  \/ (\A i \in 1 .. Len(s) : IsDue(A[s[i]]) => A[s[i]].location # l) /\ new = old
  \/ \E i \in 1 .. Len(s) : IsDue(A[s[i]]) /\ A[s[i]].location = l /\ new = ToggleChar(A[s[i]])

(* What a tick changes. *)
LEMMA TickEffect ==
  ASSUME TypeInv, ListInv, mp1_rtc_tasklet
  PROVE  /\ List' = List /\ ListInv' /\ mp1_list_head' = mp1_list_head /\ twins' = twins
         /\ blink_array' \in [Slot -> Struct]
         /\ \A i \in 1 .. Len(List) : TickIs(blink_array'[List[i]], blink_array[List[i]])
         /\ \A r \in Slot : (\A i \in 1 .. Len(List) : List[i] # r) => blink_array'[r] = blink_array[r]
         /\ screen' \in [Locations -> Nat]
         /\ \A l \in Locations : TickShows(List, blink_array, screen'[l], screen[l], l)
         /\ age' \in [Slot -> Nat] /\ glitch' \in [Slot -> BOOLEAN]
         /\ \A i \in 1 .. Len(List) :
              /\ age'[List[i]] = IF IsDue(blink_array[List[i]]) THEN 0 ELSE age[List[i]] + 1
              /\ glitch'[List[i]] <=> glitch[List[i]] /\ ~ IsDue(blink_array[List[i]])
<1>1. PICK s, A, h, B : s = List /\ A = blink_array /\ h = mp1_list_head /\ B = blink_array'
  OBVIOUS
<1>2. /\ IsList(s, h, A) /\ A \in [Slot -> Struct] /\ h \in 0 .. Slots
      /\ screen \in [Locations -> Nat] /\ age \in [Slot -> Nat] /\ glitch \in [Slot -> BOOLEAN]
  BY <1>1 DEF ListInv, TypeInv, TypeOK
<1>3. /\ DOMAIN s = 1 .. Len(s) /\ Len(s) \in Nat /\ s \in Seq(Slot)
      /\ \A i \in 1 .. Len(s) : s[i] \in Slot
      /\ \A i, j \in 1 .. Len(s) : s[i] = s[j] => i = j
  BY <1>2, OnList DEF IsList, Once
<1> DEFINE due == {i \in 1 .. Len(s) : IsDue(A[s[i]])}
           Listed == {s[i] : i \in 1 .. Len(s)}
           Due == {s[i] : i \in due}
           Here(l) == {i \in due : A[s[i]].location = l}
<1>4. /\ B = [r \in Slot |->
                CASE r \in Due -> Toggled(A[r])
                  [] r \in Listed \ Due -> [A[r] EXCEPT !.countdown = Decremented(A[r].countdown)]
                  [] OTHER -> A[r]]
      /\ screen' = [l \in Locations |-> IF Here(l) = {} THEN screen[l]
                                        ELSE ToggleChar(A[s[Greatest(Here(l))]])]
      /\ age' = [r \in Slot |-> IF r \in Due \/ r \notin Listed THEN 0 ELSE age[r] + 1]
      /\ glitch' = [r \in Slot |-> glitch[r] /\ r \notin Due]
      /\ UNCHANGED <<mp1_list_head, twins>>
  BY <1>1, <1>3 DEF mp1_rtc_tasklet, IsDue
<1>5. \A i \in 1 .. Len(s) : s[i] \in Listed /\ (s[i] \in Due <=> IsDue(A[s[i]]))
  BY <1>3
<1>6. \A r \in Slot : r \in Listed => \E i \in 1 .. Len(s) : s[i] = r
  OBVIOUS
<1>7. Due \subseteq Listed
  OBVIOUS
<1>8. \A l : Here(l) # {} => /\ Greatest(Here(l)) \in 1 .. Len(s)
                             /\ IsDue(A[s[Greatest(Here(l))]]) /\ A[s[Greatest(Here(l))]].location = l
  <2> TAKE l
  <2> SUFFICES ASSUME Here(l) # {} PROVE Greatest(Here(l)) \in Here(l)
    OBVIOUS
  <2>1. Here(l) \in SUBSET (1 .. Len(s))
    OBVIOUS
  <2> HIDE DEF Here
  <2> QED BY <1>3, <2>1, GreatestIs
<1>9. \A l : Here(l) = {} <=> \A i \in 1 .. Len(s) : IsDue(A[s[i]]) => A[s[i]].location # l
  OBVIOUS
<1>10. \A l \in Locations : screen'[l] = IF Here(l) = {} THEN screen[l]
                                         ELSE ToggleChar(A[s[Greatest(Here(l))]])
  BY <1>4, Zenon
<1>11. \A l \in Locations : TickShows(s, A, screen'[l], screen[l], l)
  <2> TAKE l \in Locations
  <2> HIDE DEF Here
  <2>1. CASE Here(l) = {}
    BY <1>9, <1>10, <2>1, Zenon DEF TickShows
  <2>2. CASE Here(l) # {}
    BY <1>8, <1>9, <1>10, <2>2, Zenon DEF TickShows
  <2> QED BY <2>1, <2>2
<1>12. \A b \in Struct : ToggleChar(b) \in Nat
  BY DEF Struct, ToggleChar
<1>13. screen' \in [Locations -> Nat]
  <2> HIDE DEF Here
  <2>1. \A l \in Locations : Here(l) # {} => A[s[Greatest(Here(l))]] \in Struct
    BY <1>2, <1>3, <1>8
  <2>2. \A l \in Locations : screen[l] \in Nat
    BY <1>2
  <2>3. \A l \in Locations : screen'[l] \in Nat
    BY <1>10, <1>12, <2>1, <2>2
  <2>4. screen' = [l \in Locations |-> screen'[l]]
    BY <1>4, <1>10, Zenon
  <2> QED BY <2>3, <2>4, Zenon
<1> HIDE DEF due, Listed, Due
<1>14. \A r \in Slot : B[r] = CASE r \in Due -> Toggled(A[r])
                  [] r \in Listed \ Due -> [A[r] EXCEPT !.countdown = Decremented(A[r].countdown)]
                  [] OTHER -> A[r]
  BY <1>4
<1>15. \A i \in 1 .. Len(s) : TickIs(B[s[i]], A[s[i]]) /\ B[s[i]] \in Struct
  <2> TAKE i \in 1 .. Len(s)
  <2>1. s[i] \in Slot /\ A[s[i]] \in Struct
    BY <1>2, <1>3
  <2>2. CASE IsDue(A[s[i]])
    <3>1. B[s[i]] = Toggled(A[s[i]])
      BY <1>5, <1>14, <2>1, <2>2
    <3> QED BY <2>1, <2>2, <3>1, TickOne
  <2>3. CASE ~ IsDue(A[s[i]])
    <3>1. B[s[i]] = [A[s[i]] EXCEPT !.countdown = Decremented(A[s[i]].countdown)]
      BY <1>5, <1>14, <2>1, <2>3
    <3> QED BY <2>1, <2>3, <3>1, TickOne
  <2> QED BY <2>2, <2>3
<1>16. \A r \in Slot : r \notin Listed => B[r] = A[r]
  BY <1>7, <1>14
<1>17. \A r \in Slot : (\A i \in 1 .. Len(s) : s[i] # r) => B[r] = A[r]
  BY <1>6, <1>16, Zenon
<1>18. B \in [Slot -> Struct]
  <2>1. \A r \in Slot : B[r] \in Struct
    BY <1>2, <1>6, <1>15, <1>16
  <2>2. B = [r \in Slot |-> B[r]]
    BY <1>4, <1>14, Zenon
  <2> QED BY <2>1, <2>2, Zenon
<1>19. \A r \in Slot : B[r].next = A[r].next /\ B[r].location = A[r].location
  BY <1>6, <1>15, <1>16 DEF TickIs
<1>20. IsList(s, h, B)
  BY <1>2, <1>19, SameLinks
<1>21. List' = ListOf(h, B)
  <2>1. mp1_list_head' = h /\ blink_array' = B
    BY <1>1, <1>4
  <2> QED BY <2>1 DEF List, ListOf
<1>22. List' = s
  BY <1>20, <1>21, WalkFinds
<1>23. ListInv'
  BY <1>1, <1>4, <1>20, <1>22 DEF ListInv
<1>24. age' \in [Slot -> Nat] /\ glitch' \in [Slot -> BOOLEAN]
  <2>1. \A r \in Slot : age[r] \in Nat
    BY <1>2
  <2>2. \A r \in Slot : (IF r \in Due \/ r \notin Listed THEN 0 ELSE age[r] + 1) \in Nat
    BY <2>1
  <2>3. age' \in [Slot -> Nat]
    BY <1>4, <2>2, Zenon
  <2>4. glitch' \in [Slot -> BOOLEAN]
    BY <1>4, Zenon
  <2> QED BY <2>3, <2>4
<1>25. \A i \in 1 .. Len(s) : /\ age'[s[i]] = IF IsDue(A[s[i]]) THEN 0 ELSE age[s[i]] + 1
                              /\ glitch'[s[i]] <=> glitch[s[i]] /\ ~ IsDue(A[s[i]])
  <2> TAKE i \in 1 .. Len(s)
  <2>1. s[i] \in Slot /\ s[i] \in Listed /\ (s[i] \in Due <=> IsDue(A[s[i]]))
    BY <1>3, <1>5
  <2>2. age'[s[i]] = IF s[i] \in Due \/ s[i] \notin Listed THEN 0 ELSE age[s[i]] + 1
    BY <1>4, <2>1, Zenon
  <2>3. glitch'[s[i]] = (glitch[s[i]] /\ s[i] \notin Due)
    BY <1>4, <2>1, Zenon
  <2> QED BY <2>1, <2>2, <2>3, Zenon
<1>26. List = s /\ blink_array = A /\ blink_array' = B
  BY <1>1, Zenon
<1>27. /\ List' = List /\ ListInv' /\ mp1_list_head' = mp1_list_head /\ twins' = twins
       /\ blink_array' \in [Slot -> Struct]
  BY <1>1, <1>4, <1>18, <1>22, <1>23, Zenon
<1>28. \A i \in 1 .. Len(List) : TickIs(blink_array'[List[i]], blink_array[List[i]])
  BY <1>15, <1>26, Zenon
<1>29. \A r \in Slot : (\A i \in 1 .. Len(List) : List[i] # r) => blink_array'[r] = blink_array[r]
  BY <1>17, <1>26, Zenon
<1>30. \A l \in Locations : TickShows(List, blink_array, screen'[l], screen[l], l)
  BY <1>11, <1>26, Zenon
<1>31. \A i \in 1 .. Len(List) :
         /\ age'[List[i]] = IF IsDue(blink_array[List[i]]) THEN 0 ELSE age[List[i]] + 1
         /\ glitch'[List[i]] <=> glitch[List[i]] /\ ~ IsDue(blink_array[List[i]])
  BY <1>25, <1>26, Zenon
<1> QED BY <1>13, <1>24, <1>27, <1>28, <1>29, <1>30, <1>31, Zenon
-----------------------------------------------------------------------------
(* The inductive invariant of the slots and the list. *)
Inv == TypeInv /\ ListInv

(* It holds of the empty array. *)
LEMMA InvInit == Init => Inv
<1> SUFFICES ASSUME Init PROVE Inv
  OBVIOUS
<1>1. Slots \in Nat /\ Places \in Nat /\ Places > 0 /\ SignBit \in Nat /\ SignBit > 0
  BY BlinkConstants DEF BlinkConstants
<1>2. Zero \in Struct /\ Zero.location = 0 /\ 0 \in Locations
  BY <1>1 DEF Zero, Struct, NULL, Locations
<1>3. \A r \in Slot : blink_array[r] = Zero
  BY DEF Init
<1>4. blink_array \in [Slot -> Struct]
  BY <1>2, Zenon DEF Init
<1>5. screen \in [Locations -> Nat] /\ age \in [Slot -> Nat] /\ mp1_list_head \in 0 .. Slots
  BY <1>1 DEF Init, NULL
<1>6. glitch \in [Slot -> BOOLEAN] /\ twins \in BOOLEAN
  BY Zenon DEF Init
<1>7. TypeInv
  BY <1>2, <1>3, <1>4, <1>5, <1>6 DEF TypeInv, TypeOK
<1>8. IsList(<<>>, NULL, blink_array)
  <2>1. <<>> \in Seq(Slot) /\ Len(<<>>) = 0
    OBVIOUS
  <2>2. Once(<<>>) /\ Linking(<<>>, NULL, blink_array)
    BY <2>1 DEF Once, Linking
  <2>3. InUse(<<>>, blink_array)
    BY <1>2, <1>3, <2>1 DEF InUse
  <2> QED BY <2>1, <2>2, <2>3 DEF IsList
<1>9. List = <<>>
  BY <1>8, ListIs, WalkFinds DEF Init
<1> QED BY <1>7, <1>8, <1>9 DEF Inv, ListInv, Init

(* A structure that is added has the type of one. *)
LEMMA LinkedType ==
  ASSUME NEW u \in Structs, mp1_list_head \in 0 .. Slots
  PROVE  Linked(u) \in Struct /\ Linked(u).location = u.location /\ u.on_char \in Nat
<1>1. /\ u.location \in Nat /\ u.on_char \in Nat /\ u.off_char \in Nat
      /\ u.on_length \in 0 .. 2 * SignBit - 1 /\ u.off_length \in 0 .. 2 * SignBit - 1
  BY BlinkConstants DEF BlinkConstants
<1> QED BY <1>1 DEF Linked, Struct

(* A step is a command that fails, or has one of the four effects.          *)
LEMMA StepCases ==
  ASSUME [Next]_vars
  PROVE  \/ UNCHANGED vars
         \/ ~ UNCHANGED vars /\ \E u \in Structs : mp1_ioctl_add(u)
         \/ ~ UNCHANGED vars /\ \E l \in Named : mp1_ioctl_remove(l)
         \/ ~ UNCHANGED vars /\ \E l, m \in Named : mp1_ioctl_sync(l, m)
         \/ mp1_rtc_tasklet
BY DEF Next

(* Nothing happens to the list of a state that stays. *)
LEMMA Stays ==
  ASSUME UNCHANGED vars
  PROVE  List' = List
BY DEF vars, List

(* Every step keeps the invariant. *)
LEMMA InvStep ==
  ASSUME NoCorner, Inv, [Next]_vars
  PROVE  Inv'
<1>1. TypeInv /\ ListInv
  BY DEF Inv
<1>2. /\ blink_array \in [Slot -> Struct] /\ mp1_list_head \in 0 .. Slots
      /\ screen \in [Locations -> Nat] /\ age \in [Slot -> Nat]
      /\ glitch \in [Slot -> BOOLEAN] /\ twins \in BOOLEAN
      /\ \A r \in Slot : blink_array[r].location \in Locations
  BY <1>1 DEF TypeInv, TypeOK
<1>3. 0 \in Locations /\ Zero.location = 0
  BY BlinkConstants DEF BlinkConstants, Locations, Zero
<1>4. CASE UNCHANGED vars
  <2>1. List' = List
    BY <1>4, Stays
  <2>2. ListInv'
    BY <1>1, <1>4, <2>1 DEF ListInv, vars
  <2>3. TypeInv'
    BY <1>1, <1>4 DEF TypeInv, TypeOK, vars
  <2> QED BY <2>2, <2>3 DEF Inv
<1>5. CASE ~ UNCHANGED vars /\ \E u \in Structs : mp1_ioctl_add(u)
  <2>1. PICK u \in Structs : mp1_ioctl_add(u)
    BY <1>5
  <2>2. PICK p \in Slot :
           /\ u.location \in Locations
           /\ blink_array' = [blink_array EXCEPT ![p] = Linked(u)]
           /\ mp1_list_head' = p
           /\ screen' = [screen EXCEPT ![u.location] = u.on_char]
           /\ age' = [age EXCEPT ![p] = 0] /\ glitch' = [glitch EXCEPT ![p] = FALSE]
           /\ twins' = (twins \/ mp1_find_helper(u.location) # NULL)
           /\ ListInv'
    BY <1>1, <1>5, <2>1, AddEffect
  <2>3. Linked(u) \in Struct /\ Linked(u).location = u.location /\ u.on_char \in Nat
    BY <1>2, LinkedType
  <2>4. blink_array' \in [Slot -> Struct] /\ \A r \in Slot : blink_array'[r].location \in Locations
    <3> HIDE DEF Linked
    <3>1. blink_array' \in [Slot -> Struct]
      BY <1>2, <2>2, <2>3
    <3>2. \A r \in Slot : blink_array'[r] = IF r = p THEN Linked(u) ELSE blink_array[r]
      BY <1>2, <2>2
    <3> QED BY <1>2, <2>2, <2>3, <3>1, <3>2
  <2>5. mp1_list_head' \in 0 .. Slots
    BY <2>2 DEF Slot
  <2>6. screen' \in [Locations -> Nat] /\ age' \in [Slot -> Nat]
    BY <1>2, <2>2, <2>3
  <2>7. glitch' \in [Slot -> BOOLEAN] /\ twins' \in BOOLEAN
    BY <1>2, <2>2
  <2> QED BY <2>2, <2>4, <2>5, <2>6, <2>7 DEF Inv, TypeInv, TypeOK
<1>6. CASE ~ UNCHANGED vars /\ \E l \in Named : mp1_ioctl_remove(l)
  <2>1. PICK l \in Named : mp1_ioctl_remove(l)
    BY <1>6
  <2>2. PICK k \in 1 .. Len(List) :
           /\ ListInv' /\ blink_array' \in [Slot -> Struct] /\ blink_array'[List[k]] = Zero
           /\ \A r \in Slot \ {List[k]} : SameBlinker(blink_array'[r], blink_array[r])
           /\ mp1_list_head' \in 0 .. Slots
           /\ age' = [age EXCEPT ![List[k]] = 0] /\ glitch' = [glitch EXCEPT ![List[k]] = FALSE]
           /\ UNCHANGED <<screen, twins>>
    BY <1>1, <1>6, <2>1, RemoveEffect
  <2>3. PICK d : d = List[k]
    OBVIOUS
  <2>4. \A r \in Slot : blink_array'[r].location \in Locations
    <3>1. \A r \in Slot \ {d} : blink_array'[r].location = blink_array[r].location
      BY <2>2, <2>3 DEF SameBlinker
    <3>2. blink_array'[d].location \in Locations
      BY <1>3, <2>2, <2>3
    <3> QED BY <1>2, <3>1, <3>2
  <2>5. age' \in [Slot -> Nat] /\ glitch' \in [Slot -> BOOLEAN]
    BY <1>2, <2>2
  <2> QED BY <1>2, <2>2, <2>4, <2>5 DEF Inv, TypeInv, TypeOK
<1>7. CASE ~ UNCHANGED vars /\ \E l, m \in Named : mp1_ioctl_sync(l, m)
  <2>1. PICK from \in Named, to \in Named : mp1_ioctl_sync(from, to)
    BY <1>7
  <2>2. PICK k \in 1 .. Len(List), m \in 1 .. Len(List) :
           /\ ListInv' /\ mp1_list_head' = mp1_list_head
           /\ blink_array' \in [Slot -> Struct]
           /\ blink_array'[List[m]] = Synced(blink_array[List[m]], blink_array[List[k]])
           /\ \A r \in Slot \ {List[m]} : blink_array'[r] = blink_array[r]
           /\ screen' = [screen EXCEPT ![to] = blink_array[List[m]].off_char]
           /\ age' = [age EXCEPT ![List[m]] = age[List[k]]]
           /\ glitch' = [glitch EXCEPT ![List[m]] = TRUE] /\ twins' = twins
    BY <1>1, <1>7, <2>1, SyncEffect
  <2>3. List[k] \in Slot /\ List[m] \in Slot
    BY <1>1, OnList DEF ListInv
  <2>4. PICK e \in Slot, d \in Slot : e = List[k] /\ d = List[m]
    BY <2>3
  <2>5. blink_array'[d].location = blink_array[d].location
    BY <2>2, <2>4 DEF Synced
  <2>6. \A r \in Slot : blink_array'[r].location \in Locations
    BY <1>2, <2>2, <2>4, <2>5
  <2>7. age[e] \in Nat /\ blink_array[d].off_char \in Nat
    BY <1>2 DEF Struct
  <2>8. age' \in [Slot -> Nat] /\ screen' \in [Locations -> Nat]
    BY <1>2, <2>2, <2>4, <2>7
  <2>9. glitch' \in [Slot -> BOOLEAN]
    BY <1>2, <2>2
  <2> QED BY <1>2, <2>2, <2>6, <2>8, <2>9 DEF Inv, TypeInv, TypeOK
<1>8. CASE mp1_rtc_tasklet
  <2>1. /\ ListInv' /\ mp1_list_head' = mp1_list_head /\ twins' = twins
        /\ blink_array' \in [Slot -> Struct]
        /\ screen' \in [Locations -> Nat] /\ age' \in [Slot -> Nat] /\ glitch' \in [Slot -> BOOLEAN]
    BY <1>1, <1>8, TickEffect
  <2>2. \A i \in 1 .. Len(List) : TickIs(blink_array'[List[i]], blink_array[List[i]])
    BY <1>1, <1>8, TickEffect
  <2>3. \A r \in Slot : (\A i \in 1 .. Len(List) : List[i] # r) => blink_array'[r] = blink_array[r]
    BY <1>1, <1>8, TickEffect
  <2>4. \A r \in Slot : blink_array'[r].location = blink_array[r].location
    BY <2>2, <2>3 DEF TickIs
  <2> QED BY <1>2, <2>1, <2>4 DEF Inv, TypeInv, TypeOK
<1> QED BY <1>4, <1>5, <1>6, <1>7, <1>8, StepCases

(* A slot holds a structure with its fields in range and the head is a slot *)
(* or NULL, whatever is added, removed, synced and ticked: countdown does   *)
(* not leave its word and no link leaves blink_array.                       *)
THEOREM BlinkTypes ==
  ASSUME NoCorner
  PROVE  Spec => []TypeOK
<1>1. Inv /\ [Next]_vars => Inv'
  BY InvStep
<1>2. Inv => TypeOK
  BY DEF Inv, TypeInv
<1> QED BY InvInit, <1>1, <1>2, PTL DEF Spec
-----------------------------------------------------------------------------
(* No two blinkers are at one location, and every location shows what its   *)
(* blinker should, or is in a sync's glitch.                                *)
Alone(A) == \A q, r \in Slot : A[q].location = A[r].location /\ A[r].location # 0 => q = r
Shows(b, char, glitched) == char = Face(b) \/ (glitched /\ char = b.off_char)
ShownInv ==
  ~ twins => /\ Alone(blink_array)
             /\ \A r \in Slot : blink_array[r].location # 0 =>
                  Shows(blink_array[r], screen[blink_array[r].location], glitch[r])

(* The slots in use are those on the list. *)
LEMMA UsedIs ==
  ASSUME ListInv, NEW r \in Slot, blink_array[r].location # 0
  PROVE  \E i \in 1 .. Len(List) : List[i] = r
BY DEF ListInv, IsList, InUse

(* A location where mp1_find_helper finds nothing has no blinker. *)
LEMMA NotFound ==
  ASSUME ListInv, NEW location, mp1_find_helper(location) = NULL, location # 0
  PROVE  \A r \in Slot : blink_array[r].location # location
<1>1. NULL \notin Slot
  BY DEF NULL, Slot
<1>2. \A i \in 1 .. Len(List) : blink_array[List[i]].location # location
  BY <1>1, FindIs
<1> QED BY <1>2, UsedIs

(* Every step keeps ShownInv. *)
LEMMA ShownStep ==
  ASSUME NoCorner, Inv, ShownInv, [Next]_vars
  PROVE  ShownInv'
<1>1. TypeInv /\ ListInv
  BY DEF Inv
<1>2. /\ blink_array \in [Slot -> Struct] /\ screen \in [Locations -> Nat]
      /\ glitch \in [Slot -> BOOLEAN] /\ twins \in BOOLEAN
      /\ \A r \in Slot : blink_array[r].location \in Locations
  BY <1>1 DEF TypeInv, TypeOK
<1> SUFFICES ASSUME ~ twins'
             PROVE  /\ Alone(blink_array')
                    /\ \A r \in Slot : blink_array'[r].location # 0 =>
                         Shows(blink_array'[r], screen'[blink_array'[r].location], glitch'[r])
  BY DEF ShownInv
<1>3. PICK A, B, sc, sd, g, f : /\ A = blink_array /\ B = blink_array' /\ sc = screen /\ sd = screen'
                                /\ g = glitch /\ f = glitch'
  OBVIOUS
<1>4. ~ twins => /\ Alone(A)
                 /\ \A r \in Slot : A[r].location # 0 => Shows(A[r], sc[A[r].location], g[r])
  BY <1>3 DEF ShownInv
<1> DEFINE Goal == /\ Alone(B)
                   /\ \A r \in Slot : B[r].location # 0 => Shows(B[r], sd[B[r].location], f[r])
<1> SUFFICES Goal
  BY <1>3
<1>5. CASE UNCHANGED vars
  <2>1. ~ twins /\ B = A /\ sd = sc /\ f = g
    BY <1>3, <1>5 DEF vars
  <2> QED BY <1>4, <2>1
<1>6. CASE ~ UNCHANGED vars /\ \E u \in Structs : mp1_ioctl_add(u)
  <2>1. PICK u \in Structs : mp1_ioctl_add(u)
    BY <1>6
  <2>2. PICK p \in Slot :
           /\ A[p].location = 0 /\ u.location \in Locations /\ u.location # 0
           /\ blink_array' = [blink_array EXCEPT ![p] = Linked(u)]
           /\ screen' = [screen EXCEPT ![u.location] = u.on_char]
           /\ glitch' = [glitch EXCEPT ![p] = FALSE]
           /\ twins' = (twins \/ mp1_find_helper(u.location) # NULL)
    BY <1>1, <1>3, <1>6, <2>1, AddEffect
  <2>3. ~ twins /\ mp1_find_helper(u.location) = NULL
    BY <2>2, Zenon
  <2>4. \A r \in Slot : A[r].location # u.location
    BY <1>1, <1>3, <2>2, <2>3, NotFound
  <2>5. \A r \in Slot : B[r] = IF r = p THEN Linked(u) ELSE A[r]
    BY <1>2, <1>3, <2>2
  <2>6. B[p].location = u.location /\ B[p].on_char = u.on_char /\ B[p].status = 1
    BY <2>5 DEF Linked
  <2>7. \A l \in Locations : sd[l] = IF l = u.location THEN u.on_char ELSE sc[l]
    BY <1>2, <1>3, <2>2
  <2>8. \A r \in Slot \ {p} : f[r] = g[r] /\ B[r] = A[r]
    BY <1>2, <1>3, <2>2, <2>5
  <2>9. Alone(B)
    BY <1>4, <2>3, <2>4, <2>6, <2>8 DEF Alone
  <2>10. Shows(B[p], sd[B[p].location], f[p])
    BY <2>2, <2>6, <2>7 DEF Shows, Face
  <2>11. ASSUME NEW r \in Slot \ {p}, B[r].location # 0
         PROVE  Shows(B[r], sd[B[r].location], f[r])
    <3>1. A[r].location \in Locations /\ A[r].location # u.location /\ A[r].location # 0
      BY <1>2, <1>3, <2>4, <2>8, <2>11
    <3>2. sd[B[r].location] = sc[A[r].location]
      BY <2>7, <2>8, <3>1
    <3>3. Shows(A[r], sc[A[r].location], g[r])
      BY <1>4, <2>3, <3>1
    <3> QED BY <2>8, <3>2, <3>3
  <2> QED BY <2>9, <2>10, <2>11
<1>7. CASE ~ UNCHANGED vars /\ \E l \in Named : mp1_ioctl_remove(l)
  <2>1. PICK l \in Named : mp1_ioctl_remove(l)
    BY <1>7
  <2>2. PICK k \in 1 .. Len(List) :
           /\ blink_array'[List[k]] = Zero
           /\ \A r \in Slot \ {List[k]} : SameBlinker(blink_array'[r], blink_array[r])
           /\ glitch' = [glitch EXCEPT ![List[k]] = FALSE]
           /\ UNCHANGED <<screen, twins>>
    BY <1>1, <1>7, <2>1, RemoveEffect
  <2>3. List[k] \in Slot
    BY <1>1, OnList DEF ListInv
  <2>4. PICK d \in Slot : d = List[k]
    BY <2>3
  <2>5. B[d].location = 0 /\ ~ twins /\ sd = sc
    BY <1>3, <2>2, <2>4 DEF Zero
  <2>6. \A r \in Slot \ {d} : SameBlinker(B[r], A[r]) /\ f[r] = g[r]
    BY <1>2, <1>3, <2>2, <2>4
  <2>7. Alone(B)
    BY <1>4, <2>5, <2>6 DEF Alone, SameBlinker
  <2>8. \A r \in Slot : B[r].location # 0 => Shows(B[r], sd[B[r].location], f[r])
    BY <1>4, <2>5, <2>6 DEF Shows, Face, SameBlinker
  <2> QED BY <2>7, <2>8
<1>8. CASE ~ UNCHANGED vars /\ \E l, m \in Named : mp1_ioctl_sync(l, m)
  <2>1. PICK from \in Named, to \in Named : mp1_ioctl_sync(from, to)
    BY <1>8
  <2>2. PICK k \in 1 .. Len(List), m \in 1 .. Len(List) :
           /\ NewestAt(List, blink_array, to, m)
           /\ blink_array'[List[m]] = Synced(blink_array[List[m]], blink_array[List[k]])
           /\ \A r \in Slot \ {List[m]} : blink_array'[r] = blink_array[r]
           /\ screen' = [screen EXCEPT ![to] = blink_array[List[m]].off_char]
           /\ glitch' = [glitch EXCEPT ![List[m]] = TRUE] /\ twins' = twins
    BY <1>1, <1>8, <2>1, SyncEffect
  <2>3. List[m] \in Slot /\ blink_array[List[m]].location # 0
    BY <1>1, OnList DEF ListInv
  <2>4. PICK d \in Slot : d = List[m] /\ A[d].location = to /\ to # 0
    BY <1>3, <2>2, <2>3 DEF NewestAt
  <2>5. B[d].location = to /\ B[d].off_char = A[d].off_char /\ ~ twins
    BY <1>3, <2>2, <2>4 DEF Synced
  <2>6. to \in Locations
    BY <1>2, <1>3, <2>4
  <2>7. f[d] /\ sd[to] = B[d].off_char
    BY <1>2, <1>3, <2>2, <2>4, <2>5, <2>6
  <2>8. \A r \in Slot \ {d} : B[r] = A[r] /\ f[r] = g[r]
    BY <1>2, <1>3, <2>2, <2>4
  <2>9. Alone(B)
    BY <1>4, <2>4, <2>5, <2>8 DEF Alone
  <2>10. \A l \in Locations \ {to} : sd[l] = sc[l]
    BY <1>2, <1>3, <2>2
  <2>11. Shows(B[d], sd[B[d].location], f[d])
    BY <2>5, <2>7 DEF Shows
  <2>12. ASSUME NEW r \in Slot \ {d}, B[r].location # 0
         PROVE  Shows(B[r], sd[B[r].location], f[r])
    <3>1. A[r].location \in Locations \ {to} /\ A[r].location # 0
      BY <1>2, <1>3, <1>4, <2>4, <2>5, <2>8, <2>12 DEF Alone
    <3>2. sd[B[r].location] = sc[A[r].location]
      BY <2>8, <2>10, <3>1
    <3> QED BY <1>4, <2>5, <2>8, <3>1, <3>2
  <2> QED BY <2>9, <2>11, <2>12
<1>9. CASE mp1_rtc_tasklet
  <2>1. PICK s : s = List
    OBVIOUS
  <2>2. /\ \A i \in 1 .. Len(s) : TickIs(B[s[i]], A[s[i]])
        /\ \A r \in Slot : (\A i \in 1 .. Len(s) : s[i] # r) => B[r] = A[r]
        /\ \A l \in Locations : TickShows(s, A, sd[l], sc[l], l)
        /\ \A i \in 1 .. Len(s) : f[s[i]] <=> g[s[i]] /\ ~ IsDue(A[s[i]])
        /\ ~ twins
    BY <1>1, <1>3, <1>9, <2>1, TickEffect
  <2>3. \A i \in 1 .. Len(s) : s[i] \in Slot
    BY <1>1, <2>1, OnList DEF ListInv
  <2>4. \A r \in Slot : A[r].location # 0 => /\ TickIs(B[r], A[r])
                                             /\ f[r] <=> g[r] /\ ~ IsDue(A[r])
    BY <1>1, <1>3, <2>1, <2>2, UsedIs
  <2>5. \A r \in Slot : B[r].location = A[r].location
    BY <2>2 DEF TickIs
  <2>6. Alone(B)
    BY <1>4, <2>2, <2>5 DEF Alone
  <2>7. ASSUME NEW r \in Slot, B[r].location # 0
        PROVE  Shows(B[r], sd[B[r].location], f[r])
    <3>1. /\ A[r].location # 0 /\ A[r].location \in Locations /\ B[r].location = A[r].location
          /\ TickIs(B[r], A[r]) /\ (f[r] <=> g[r] /\ ~ IsDue(A[r])) /\ A[r].status \in {0, 1}
      BY <1>2, <1>3, <2>4, <2>5, <2>7 DEF Struct
    <3>2. PICK l : l = A[r].location
      OBVIOUS
    <3>3. TickShows(s, A, sd[l], sc[l], l)
      BY <2>2, <3>1, <3>2
    <3>4. \A i \in 1 .. Len(s) : A[s[i]].location = l => s[i] = r
      BY <1>4, <2>2, <2>3, <3>1, <3>2 DEF Alone
    <3>5. \E i \in 1 .. Len(s) : s[i] = r
      BY <1>1, <1>3, <2>1, <3>1, UsedIs
    <3>6. CASE IsDue(A[r])
      <4>1. sd[l] = ToggleChar(A[r])
        BY <3>2, <3>3, <3>4, <3>5, <3>6 DEF TickShows
      <4> QED BY <3>1, <3>2, <3>6, <4>1 DEF TickIs, ToggleChar, Shows, Face
    <3>7. CASE ~ IsDue(A[r])
      <4>1. sd[l] = sc[l]
        BY <3>3, <3>4, <3>7 DEF TickShows
      <4>2. Shows(A[r], sc[l], g[r])
        BY <1>4, <2>2, <3>1, <3>2
      <4> QED BY <3>1, <3>2, <3>7, <4>1, <4>2 DEF TickIs, Shows, Face
    <3> QED BY <3>6, <3>7
  <2> QED BY <2>6, <2>7
<1> QED BY <1>5, <1>6, <1>7, <1>8, <1>9, StepCases

(* As long as no place had two blinkers, the place of a blinker shows the   *)
(* character of the phase that mp1_ioctl_find reports, or, from a sync to   *)
(* the next turn, its off_char: neither a tick, nor a removal, nor a sync   *)
(* of another leaves an old character behind.                               *)
THEOREM PlacesShowPhases ==
  ASSUME NoCorner
  PROVE  Spec => []ShownRight
<1>1. Init => Inv /\ ShownInv
  <2> SUFFICES ASSUME Init PROVE ShownInv
    BY InvInit
  <2>1. \A r \in Slot : blink_array[r].location = 0
    BY DEF Init, Zero
  <2> QED BY <2>1 DEF ShownInv, Alone
<1>2. Inv /\ ShownInv /\ [Next]_vars => (Inv /\ ShownInv)'
  BY InvStep, ShownStep
<1>3. Inv /\ ShownInv => ShownRight
  <2> SUFFICES ASSUME Inv, ShownInv, ~ twins, NEW l \in Named, NEW b \in mp1_ioctl_find(l)
               PROVE  screen[l] = Face(b) \/ (glitch[mp1_find_helper(l)] /\ screen[l] = b.off_char)
    BY DEF ShownRight
  <2>1. mp1_find_helper(l) # NULL /\ b = blink_array[mp1_find_helper(l)]
    BY DEF mp1_ioctl_find
  <2>2. PICK k \in 1 .. Len(List) : /\ NewestAt(List, blink_array, l, k)
                                    /\ mp1_find_helper(l) = List[k]
    BY <2>1, FindIs DEF Inv
  <2>3. List[k] \in Slot /\ blink_array[List[k]].location # 0
    BY <2>2, OnList DEF Inv, ListInv
  <2>4. PICK d \in Slot : d = mp1_find_helper(l) /\ blink_array[d].location = l /\ l # 0
    BY <2>2, <2>3 DEF NewestAt
  <2> QED BY <2>1, <2>4 DEF ShownInv, Shows
<1> QED BY <1>1, <1>2, <1>3, PTL DEF Spec
-----------------------------------------------------------------------------
(* How far a blinker is in its phase: its countdown has come down from the  *)
(* phase's length by the ticks it has seen, and is not beyond the sign bit. *)
Length(b) == IF b.status = 1 THEN b.on_length ELSE b.off_length
InPhase(b, n) == /\ b.on_length <= SignBit /\ b.off_length <= SignBit
                 /\ b.countdown + n = Length(b)
                 /\ n > 0 => b.countdown >= 1
PhaseInv == \A r \in Slot : blink_array[r].location # 0 => InPhase(blink_array[r], age[r])

(* A countdown that is not beyond the sign bit is due at 1 or 0.            *)
LEMMA DueIs ==
  ASSUME NEW b \in Struct, b.countdown <= SignBit
  PROVE  /\ IsDue(b) <=> b.countdown <= 1
         /\ b.countdown > 1 => Decremented(b.countdown) = b.countdown - 1
<1>1. b.countdown \in Nat /\ SignBit \in Nat /\ SignBit >= 1
  BY BlinkConstants DEF BlinkConstants, Struct
<1>2. PICK n \in Nat : n = b.countdown /\ n <= SignBit
  BY <1>1
<1>3. CASE n = 0
  <2>1. (n - 1) % (2 * SignBit) = 2 * SignBit - 1
    BY <1>1, <1>3
  <2> QED BY <1>1, <1>2, <1>3, <2>1 DEF IsDue, Decremented, Expired
<1>4. CASE n > 0
  <2>1. (n - 1) % (2 * SignBit) = n - 1
    BY <1>1, <1>2, <1>4
  <2> QED BY <1>1, <1>2, <1>4, <2>1 DEF IsDue, Decremented, Expired
<1> QED BY <1>3, <1>4

(* A blinker in its phase has a countdown that is not beyond the sign bit.  *)
LEMMA PhaseFits ==
  ASSUME NEW b \in Struct, NEW n \in Nat, InPhase(b, n)
  PROVE  b.countdown <= SignBit
BY BlinkConstants DEF BlinkConstants, Struct, InPhase, Length

(* A tick keeps a blinker in its phase, or starts the next. *)
LEMMA TickPhase ==
  ASSUME NEW b \in Struct, NEW c \in Struct, NEW n \in Nat, InPhase(b, n), TickIs(c, b)
  PROVE  InPhase(c, IF IsDue(b) THEN 0 ELSE n + 1)
<1>1. /\ b.countdown \in Nat /\ b.on_length \in Nat /\ b.off_length \in Nat /\ b.status \in {0, 1}
      /\ SignBit \in Nat /\ b.countdown <= SignBit
  BY BlinkConstants, PhaseFits DEF BlinkConstants, Struct
<1>2. CASE IsDue(b)
  <2>1. c.countdown = Length(c)
    BY <1>1, <1>2 DEF TickIs, Length
  <2>2. Length(c) \in Nat /\ c.on_length <= SignBit /\ c.off_length <= SignBit
    BY <1>1 DEF Length, TickIs, InPhase
  <2> QED BY <1>2, <2>1, <2>2 DEF InPhase
<1>3. CASE ~ IsDue(b)
  <2>1. b.countdown > 1 /\ Decremented(b.countdown) = b.countdown - 1
    BY <1>1, <1>3, DueIs
  <2>2. c.countdown = b.countdown - 1 /\ Length(c) = Length(b)
    BY <1>3, <2>1 DEF TickIs, Length
  <2>3. c.countdown + (n + 1) = Length(c) /\ c.countdown >= 1
    BY <1>1, <2>1, <2>2 DEF InPhase
  <2>4. c.on_length <= SignBit /\ c.off_length <= SignBit
    BY DEF TickIs, InPhase
  <2> QED BY <1>3, <2>3, <2>4 DEF InPhase
<1> QED BY <1>2, <1>3

(* Every step keeps PhaseInv. *)
LEMMA PhaseStep ==
  ASSUME NoCorner, NotSlow, Inv, PhaseInv, [Next]_vars
  PROVE  PhaseInv'
<1>1. TypeInv /\ ListInv
  BY DEF Inv
<1>2. blink_array \in [Slot -> Struct] /\ age \in [Slot -> Nat] /\ mp1_list_head \in 0 .. Slots
  BY <1>1 DEF TypeInv, TypeOK
<1>3. PICK A, B, n, m : A = blink_array /\ B = blink_array' /\ n = age /\ m = age'
  OBVIOUS
<1>4. \A r \in Slot : A[r].location # 0 => InPhase(A[r], n[r])
  BY <1>3 DEF PhaseInv
<1> SUFFICES \A r \in Slot : B[r].location # 0 => InPhase(B[r], m[r])
  BY <1>3 DEF PhaseInv
<1>5. CASE UNCHANGED vars
  BY <1>3, <1>4, <1>5 DEF vars
<1>6. CASE ~ UNCHANGED vars /\ \E u \in Structs : mp1_ioctl_add(u)
  <2>1. PICK u \in Structs : mp1_ioctl_add(u)
    BY <1>6
  <2>2. PICK p \in Slot : /\ blink_array' = [blink_array EXCEPT ![p] = Linked(u)]
                          /\ age' = [age EXCEPT ![p] = 0]
    BY <1>1, <1>6, <2>1, AddEffect
  <2>3. \A r \in Slot : /\ B[r] = IF r = p THEN Linked(u) ELSE A[r]
                        /\ m[r] = IF r = p THEN 0 ELSE n[r]
    BY <1>2, <1>3, <2>2
  <2>4. InPhase(Linked(u), 0)
    <3>1. u.on_length \in Nat /\ u.on_length <= SignBit /\ u.off_length <= SignBit
      BY BlinkConstants DEF BlinkConstants, NotSlow
    <3> QED BY <3>1 DEF InPhase, Length, Linked
  <2> QED BY <1>4, <2>3, <2>4
<1>7. CASE ~ UNCHANGED vars /\ \E l \in Named : mp1_ioctl_remove(l)
  <2>1. PICK l \in Named : mp1_ioctl_remove(l)
    BY <1>7
  <2>2. PICK k \in 1 .. Len(List) :
           /\ blink_array'[List[k]] = Zero
           /\ \A r \in Slot \ {List[k]} : SameBlinker(blink_array'[r], blink_array[r])
           /\ age' = [age EXCEPT ![List[k]] = 0]
    BY <1>1, <1>7, <2>1, RemoveEffect
  <2>3. PICK d : d = List[k]
    OBVIOUS
  <2>4. B[d].location = 0
    BY <1>3, <2>2, <2>3 DEF Zero
  <2>5. \A r \in Slot \ {d} : SameBlinker(B[r], A[r]) /\ m[r] = n[r]
    BY <1>2, <1>3, <2>2, <2>3
  <2> QED BY <1>4, <2>4, <2>5 DEF SameBlinker, InPhase, Length
<1>8. CASE ~ UNCHANGED vars /\ \E l, j \in Named : mp1_ioctl_sync(l, j)
  <2>1. PICK from \in Named, to \in Named : mp1_ioctl_sync(from, to)
    BY <1>8
  <2>2. PICK k \in 1 .. Len(List), j \in 1 .. Len(List) :
           /\ blink_array'[List[j]] = Synced(blink_array[List[j]], blink_array[List[k]])
           /\ \A r \in Slot \ {List[j]} : blink_array'[r] = blink_array[r]
           /\ age' = [age EXCEPT ![List[j]] = age[List[k]]]
    BY <1>1, <1>8, <2>1, SyncEffect
  <2>3. /\ List[j] \in Slot /\ List[k] \in Slot /\ blink_array[List[k]].location # 0
    BY <1>1, OnList DEF ListInv
  <2>4. PICK d \in Slot, e \in Slot : d = List[j] /\ e = List[k] /\ A[e].location # 0
    BY <1>3, <2>3
  <2>5. B[d] = Synced(A[d], A[e]) /\ m[d] = n[e]
    BY <1>2, <1>3, <2>2, <2>4
  <2>6. \A r \in Slot \ {d} : B[r] = A[r] /\ m[r] = n[r]
    BY <1>2, <1>3, <2>2, <2>4
  <2>7. InPhase(B[d], m[d])
    BY <1>4, <2>4, <2>5 DEF InPhase, Length, Synced
  <2> QED BY <1>4, <2>6, <2>7
<1>9. CASE mp1_rtc_tasklet
  <2>1. PICK s : s = List
    OBVIOUS
  <2>2. /\ B \in [Slot -> Struct]
        /\ \A i \in 1 .. Len(s) : TickIs(B[s[i]], A[s[i]])
        /\ \A r \in Slot : (\A i \in 1 .. Len(s) : s[i] # r) => B[r] = A[r]
        /\ \A i \in 1 .. Len(s) : m[s[i]] = IF IsDue(A[s[i]]) THEN 0 ELSE n[s[i]] + 1
    BY <1>1, <1>3, <1>9, <2>1, TickEffect
  <2>3. ASSUME NEW r \in Slot, B[r].location # 0 PROVE InPhase(B[r], m[r])
    <3>1. A[r].location # 0
      BY <2>2, <2>3 DEF TickIs
    <3>2. PICK i \in 1 .. Len(s) : s[i] = r
      BY <1>1, <1>3, <2>1, <3>1, UsedIs
    <3>3. /\ TickIs(B[r], A[r]) /\ m[r] = IF IsDue(A[r]) THEN 0 ELSE n[r] + 1
          /\ B[r] \in Struct /\ A[r] \in Struct /\ n[r] \in Nat
      BY <1>2, <1>3, <2>2, <3>2
    <3>4. InPhase(A[r], n[r])
      BY <1>4, <3>1
    <3>5. InPhase(B[r], IF IsDue(A[r]) THEN 0 ELSE n[r] + 1)
      BY <3>3, <3>4, TickPhase
    <3> QED BY <3>3, <3>5
  <2> QED BY <2>3
<1> QED BY <1>5, <1>6, <1>7, <1>8, <1>9, StepCases

(* A step that turns a blinker over, other than a sync, is a tick on which   *)
(* its phase is over.                                                       *)
LEMMA TurnsOnTime ==
  ASSUME NoCorner, NotSlow, Inv, PhaseInv, [Next]_vars,
         NEW i \in 1 .. Len(List), NEW d \in Slot, d = List[i],
         blink_array'[d].location = blink_array[d].location,
         blink_array'[d].status # blink_array[d].status, ~ glitch'[d]
  PROVE  age[d] + 1 = IF Length(blink_array[d]) = 0 THEN 1 ELSE Length(blink_array[d])
<1>1. TypeInv /\ ListInv
  BY DEF Inv
<1>2. /\ blink_array \in [Slot -> Struct] /\ age \in [Slot -> Nat]
      /\ glitch \in [Slot -> BOOLEAN]
  BY <1>1 DEF TypeInv, TypeOK
<1>3. blink_array[d].location # 0
  BY <1>1, OnList DEF ListInv
<1>4. CASE UNCHANGED vars
  BY <1>4 DEF vars
<1>5. CASE ~ UNCHANGED vars /\ \E u \in Structs : mp1_ioctl_add(u)
  <2>1. PICK u \in Structs : mp1_ioctl_add(u)
    BY <1>5
  <2>2. PICK p \in Slot : /\ blink_array[p].location = 0
                          /\ blink_array' = [blink_array EXCEPT ![p] = Linked(u)]
    BY <1>1, <1>5, <2>1, AddEffect
  <2>3. blink_array'[d] = blink_array[d]
    BY <1>2, <1>3, <2>2
  <2> QED BY <2>3
<1>6. CASE ~ UNCHANGED vars /\ \E l \in Named : mp1_ioctl_remove(l)
  <2>1. PICK l \in Named : mp1_ioctl_remove(l)
    BY <1>6
  <2>2. PICK k \in 1 .. Len(List) :
           /\ blink_array'[List[k]] = Zero
           /\ \A r \in Slot \ {List[k]} : SameBlinker(blink_array'[r], blink_array[r])
    BY <1>1, <1>6, <2>1, RemoveEffect
  <2>3. d # List[k]
    BY <1>3, <2>2 DEF Zero
  <2> QED BY <2>2, <2>3 DEF SameBlinker
<1>7. CASE ~ UNCHANGED vars /\ \E l, j \in Named : mp1_ioctl_sync(l, j)
  <2>1. PICK from \in Named, to \in Named : mp1_ioctl_sync(from, to)
    BY <1>7
  <2>2. PICK j \in 1 .. Len(List) :
           /\ \A r \in Slot \ {List[j]} : blink_array'[r] = blink_array[r]
           /\ glitch' = [glitch EXCEPT ![List[j]] = TRUE]
    BY <1>1, <1>7, <2>1, SyncEffect
  <2>3. d # List[j]
    BY <1>2, <2>2
  <2> QED BY <2>2, <2>3
<1>8. CASE mp1_rtc_tasklet
  <2>1. PICK b \in Struct, n \in Nat : b = blink_array[d] /\ n = age[d]
    BY <1>2
  <2>2. TickIs(blink_array'[d], b)
    BY <1>1, <1>8, <2>1, TickEffect
  <2>3. IsDue(b)
    BY <2>1, <2>2 DEF TickIs
  <2>4. InPhase(b, n)
    BY <1>3, <2>1 DEF PhaseInv
  <2>5. b.countdown <= 1
    BY <2>3, <2>4, DueIs, PhaseFits
  <2>6. b.countdown \in Nat /\ b.countdown + n = Length(b) /\ (n > 0 => b.countdown >= 1)
    BY <2>4 DEF InPhase, Struct
  <2>7. n + 1 = IF Length(b) = 0 THEN 1 ELSE Length(b)
    BY <2>5, <2>6
  <2> QED BY <2>1, <2>7
<1> QED BY <1>4, <1>5, <1>6, <1>7, <1>8, StepCases

(* A phase of a blinker lasts its length in ticks of mp1_rtc_tasklet, and    *)
(* one tick when that is 0, for lengths up to the sign bit of countdown: no *)
(* add, removal or sync of another shortens or lengthens it.                *)
THEOREM PhasesLast ==
  ASSUME NoCorner, NotSlow
  PROVE  Spec => PhaseLasts
<1> DEFINE Lasts ==
      \A i \in DOMAIN List :
        LET s == List[i]
            b == blink_array[s]
            length == IF b.status = 1 THEN b.on_length ELSE b.off_length
            turned == blink_array'[s].location = b.location /\ blink_array'[s].status # b.status
        IN turned /\ ~ glitch'[s] => age[s] + 1 = IF length = 0 THEN 1 ELSE length
<1>1. Init => Inv /\ PhaseInv
  <2> SUFFICES ASSUME Init PROVE PhaseInv
    BY InvInit
  <2>1. \A r \in Slot : blink_array[r].location = 0
    BY DEF Init, Zero
  <2> QED BY <2>1 DEF PhaseInv
<1>2. Inv /\ PhaseInv /\ [Next]_vars => (Inv /\ PhaseInv)'
  BY InvStep, PhaseStep
<1>3. Inv /\ PhaseInv /\ [Next]_vars => Lasts
  <2> SUFFICES ASSUME Inv, PhaseInv, [Next]_vars, NEW i \in DOMAIN List, NEW d, d = List[i],
                      blink_array'[d].location = blink_array[d].location,
                      blink_array'[d].status # blink_array[d].status, ~ glitch'[d]
               PROVE  age[d] + 1 = IF Length(blink_array[d]) = 0 THEN 1 ELSE Length(blink_array[d])
    BY DEF Length
  <2>1. i \in 1 .. Len(List) /\ List[i] \in Slot
    BY OnList DEF Inv, ListInv
  <2> QED BY <2>1, TurnsOnTime
<1> QED BY <1>1, <1>2, <1>3, PTL DEF Spec, PhaseLasts
-----------------------------------------------------------------------------
(* What the collection sees of a structure, and of the list s in array A.   *)
Seen(b) == [location |-> b.location, on_length |-> b.on_length, off_length |-> b.off_length,
            countdown |-> b.countdown, status |-> b.status]
View(s, A) == [i \in DOMAIN s |-> Seen(A[s[i]])]
Blinker == [location : Nat, on_length : Nat, off_length : Nat, countdown : Nat, status : {0, 1}]

(* A structure is seen as a blinker. *)
LEMMA SeenIs ==
  ASSUME NEW b \in Struct
  PROVE  Seen(b) \in Blinker
<1>1. \A n \in 0 .. 2 * SignBit - 1 : n \in Nat
  BY BlinkConstants DEF BlinkConstants
<1> QED BY <1>1 DEF Struct, Seen, Blinker

(* It is a sequence of blinkers, one for each element of the list. *)
LEMMA ViewIs ==
  ASSUME NEW s \in Seq(Slot), NEW A \in [Slot -> Struct]
  PROVE  /\ View(s, A) \in Seq(Blinker) /\ Len(View(s, A)) = Len(s)
         /\ DOMAIN View(s, A) = 1 .. Len(s)
         /\ View(s, A) = [i \in 1 .. Len(s) |-> Seen(A[s[i]])]
         /\ \A i \in 1 .. Len(s) : View(s, A)[i] = Seen(A[s[i]]) /\ Seen(A[s[i]]) \in Blinker
<1>1. \A b \in Struct : Seen(b) \in Blinker
  BY SeenIs
<1>2. \A i \in 1 .. Len(s) : A[s[i]] \in Struct
  OBVIOUS
<1>3. \A i \in 1 .. Len(s) : Seen(A[s[i]]) \in Blinker
  BY <1>1, <1>2
<1>4. DOMAIN s = 1 .. Len(s) /\ Len(s) \in Nat
  OBVIOUS
<1>5. View(s, A) = [i \in 1 .. Len(s) |-> Seen(A[s[i]])]
  BY <1>4 DEF View
<1>6. View(s, A) \in Seq(Blinker) /\ Len(View(s, A)) = Len(s) /\ DOMAIN View(s, A) = 1 .. Len(s)
  <2> HIDE DEF Seen
  <2> QED BY <1>3, <1>4, <1>5
<1>7. \A i \in 1 .. Len(s) : View(s, A)[i] = Seen(A[s[i]])
  BY <1>5
<1> QED BY <1>3, <1>5, <1>6, <1>7

(* Two sequences of one length with the same elements are equal. *)
LEMMA SameSeq ==
  ASSUME NEW n \in Nat, NEW s, NEW t, s = [i \in 1 .. n |-> s[i]], t = [i \in 1 .. n |-> t[i]],
         \A i \in 1 .. n : s[i] = t[i]
  PROVE  s = t
<1>1. [i \in 1 .. n |-> s[i]] = [i \in 1 .. n |-> t[i]]
  BY Zenon
<1> QED BY <1>1

(* The newest blinker of the collection at a location is the one that       *)
(* mp1_find_helper finds.                                                   *)
LEMMA NewestIs ==
  ASSUME NEW s, NEW A, NEW location, NEW k, NewestAt(s, A, location, k), NEW S \in SUBSET Nat,
         \A i : i \in S <=> i \in 1 .. Len(s) /\ A[s[i]].location = location
  PROVE  S # {} /\ Least(S) = k
<1>1. k \in S /\ \A j \in S : k <= j
  BY DEF NewestAt
<1>2. Least(S) \in S /\ \A j \in S : Least(S) <= j
  BY <1>1, LeastIs
<1>3. Least(S) = k
  BY <1>1, <1>2
<1> QED BY <1>1, <1>3

(* What is seen after a slot goes to the front. *)
LEMMA AddView ==
  ASSUME NEW s \in Seq(Slot), NEW A \in [Slot -> Struct], NEW B \in [Slot -> Struct],
         NEW p \in Slot, \A i \in 1 .. Len(s) : s[i] # p, \A r \in Slot \ {p} : B[r] = A[r]
  PROVE  View(<<p>> \o s, B) = <<Seen(B[p])>> \o View(s, A)
<1> DEFINE t == <<p>> \o s
           v == <<Seen(B[p])>> \o View(s, A)
<1>1. Len(s) \in Nat /\ View(s, A) \in Seq(Blinker) /\ Len(View(s, A)) = Len(s)
  BY ViewIs
<1>2. /\ t \in Seq(Slot) /\ Len(t) = Len(s) + 1 /\ t[1] = p
      /\ \A i \in 2 .. Len(s) + 1 : t[i] = s[i - 1]
  BY <1>1
<1>3. /\ Len(v) = Len(s) + 1 /\ v[1] = Seen(B[p]) /\ v = [i \in 1 .. Len(s) + 1 |-> v[i]]
      /\ \A i \in 2 .. Len(s) + 1 : v[i] = View(s, A)[i - 1]
  <2> HIDE DEF Seen
  <2>1. PICK w, x : w = View(s, A) /\ x = Seen(B[p])
    OBVIOUS
  <2>2. w \in Seq(Blinker) /\ Len(w) = Len(s)
    BY <1>1, <2>1
  <2>3. x \in Blinker
    <3>1. B[p] \in Struct
      OBVIOUS
    <3> QED BY <2>1, <3>1, SeenIs
  <2>4. /\ Len(<<x>> \o w) = Len(s) + 1 /\ (<<x>> \o w)[1] = x /\ <<x>> \o w \in Seq(Blinker)
        /\ \A i \in 2 .. Len(s) + 1 : (<<x>> \o w)[i] = w[i - 1]
    BY <1>1, <2>2, <2>3
  <2>5. <<x>> \o w = [i \in 1 .. Len(s) + 1 |-> (<<x>> \o w)[i]]
    BY <1>1, <2>4
  <2> QED BY <2>1, <2>4, <2>5
<1> HIDE DEF t, v
<1>4. /\ View(t, B) = [i \in 1 .. Len(s) + 1 |-> Seen(B[t[i]])]
      /\ \A i \in 1 .. Len(s) + 1 : View(t, B)[i] = Seen(B[t[i]])
  BY <1>2, ViewIs
<1>5. ASSUME NEW i \in 1 .. Len(s) + 1 PROVE View(t, B)[i] = v[i]
  <2>1. CASE i = 1
    BY <1>2, <1>3, <1>4, <2>1
  <2>2. CASE i # 1
    <3>1. i \in 2 .. Len(s) + 1 /\ i - 1 \in 1 .. Len(s)
      BY <1>1, <2>2
    <3>2. View(s, A)[i - 1] = Seen(A[s[i - 1]]) /\ s[i - 1] \in Slot \ {p}
      BY <3>1, ViewIs
    <3>3. View(t, B)[i] = Seen(B[s[i - 1]])
      BY <1>2, <1>4, <3>1
    <3>4. B[s[i - 1]] = A[s[i - 1]]
      BY <3>2
    <3> QED BY <1>3, <3>1, <3>2, <3>3, <3>4
  <2> QED BY <2>1, <2>2
<1>6. View(t, B) = [i \in 1 .. Len(s) + 1 |-> View(t, B)[i]]
  BY <1>4, Zenon
<1>7. Len(s) + 1 \in Nat
  BY <1>1
<1>8. View(t, B) = v
  BY <1>3, <1>5, <1>6, <1>7, SameSeq
<1> QED BY <1>8 DEF t, v

(* What is seen after an element is taken out. *)
LEMMA RemoveView ==
  ASSUME NEW s \in Seq(Slot), NEW A \in [Slot -> Struct], NEW B \in [Slot -> Struct], Once(s),
         NEW k \in 1 .. Len(s), \A r \in Slot \ {s[k]} : SameBlinker(B[r], A[r]),
         NEW v, v = View(s, A)
  PROVE  View(Drop(s, k), B) = Drop(v, k)
<1> DEFINE t == Drop(s, k)
           N == Len(s) - 1
<1>1. Len(s) \in Nat /\ N \in Nat /\ Len(v) - 1 = N /\ k \in Nat
  BY ViewIs
<1>2. t \in Seq(Slot) /\ Len(t) = N
  BY DropIs
<1>3. ASSUME NEW i \in 1 .. N, NEW j, j = IF i < k THEN i ELSE i + 1
      PROVE  j \in 1 .. Len(s) /\ j # k /\ t[i] = s[j]
  <2>1. /\ i < k => t[i] = s[i]
        /\ i >= k => t[i] = s[i + 1]
    BY <1>3, DropIs
  <2>2. CASE i < k
    BY <1>1, <1>3, <2>1, <2>2
  <2>3. CASE ~ (i < k)
    BY <1>1, <1>3, <2>1, <2>3
  <2> QED BY <2>2, <2>3
<1> HIDE DEF t
<1>4. /\ View(t, B) = [i \in 1 .. N |-> Seen(B[t[i]])]
      /\ \A i \in 1 .. N : View(t, B)[i] = Seen(B[t[i]])
  BY <1>2, ViewIs
<1>5. ASSUME NEW i \in 1 .. N PROVE Seen(B[t[i]]) = v[IF i < k THEN i ELSE i + 1]
  <2>1. PICK j : j = IF i < k THEN i ELSE i + 1
    OBVIOUS
  <2>2. j \in 1 .. Len(s) /\ j # k /\ t[i] = s[j]
    BY <1>3, <2>1
  <2>3. s[j] \in Slot /\ s[j] # s[k]
    BY <2>2 DEF Once
  <2>4. SameBlinker(B[s[j]], A[s[j]])
    BY <2>3
  <2>5. Seen(B[s[j]]) = Seen(A[s[j]])
    BY <2>4 DEF SameBlinker, Seen
  <2>6. v[j] = Seen(A[s[j]])
    BY <2>2, ViewIs
  <2> QED BY <2>1, <2>2, <2>5, <2>6
<1>6. [i \in 1 .. N |-> Seen(B[t[i]])] = [i \in 1 .. N |-> v[IF i < k THEN i ELSE i + 1]]
  <2> HIDE DEF Seen, N
  <2> QED BY <1>5, Zenon
<1>7. Drop(v, k) = [i \in 1 .. N |-> v[IF i < k THEN i ELSE i + 1]]
  BY <1>1 DEF Drop
<1> QED BY <1>4, <1>6, <1>7 DEF t

(* What is seen after a sync: m goes on as k does. *)
Following(v, k, m, to) == [v EXCEPT ![m] = [v[k] EXCEPT !.location = to]]
LEMMA SyncView ==
  ASSUME NEW s \in Seq(Slot), NEW A \in [Slot -> Struct], NEW B \in [Slot -> Struct], Once(s),
         NEW k \in 1 .. Len(s), NEW m \in 1 .. Len(s), NEW to, A[s[m]].location = to,
         B[s[m]] = Synced(A[s[m]], A[s[k]]), \A r \in Slot \ {s[m]} : B[r] = A[r],
         NEW v, v = View(s, A)
  PROVE  View(s, B) = Following(v, k, m, to)
<1> DEFINE N == Len(s)
           w == [v EXCEPT ![m] = [v[k] EXCEPT !.location = to]]
<1>1. /\ N \in Nat /\ DOMAIN v = 1 .. N /\ v = [i \in 1 .. N |-> Seen(A[s[i]])]
      /\ \A i \in 1 .. N : v[i] = Seen(A[s[i]])
  BY ViewIs
<1>2. View(s, B) = [i \in 1 .. N |-> Seen(B[s[i]])] /\ \A i \in 1 .. N : View(s, B)[i] = Seen(B[s[i]])
  BY ViewIs
<1>3. v[k] = Seen(A[s[k]])
  BY <1>1
<1>4. [v[k] EXCEPT !.location = to] = Seen(B[s[m]])
  <2>1. PICK a, b : a = A[s[k]] /\ b = A[s[m]]
    OBVIOUS
  <2>2. [Seen(a) EXCEPT !.location = to] = Seen(Synced(b, a))
    BY <2>1 DEF Seen, Synced
  <2> QED BY <1>3, <2>1, <2>2
<1>5. ASSUME NEW i \in 1 .. N PROVE View(s, B)[i] = w[i]
  <2> HIDE DEF Seen, Synced
  <2>1. CASE i = m
    <3>1. w[i] = [v[k] EXCEPT !.location = to]
      BY <1>1, <2>1, Zenon
    <3> QED BY <1>2, <1>4, <2>1, <3>1
  <2>2. CASE i # m
    <3>1. w[i] = v[i]
      BY <1>1, <2>2, Zenon
    <3>2. s[i] \in Slot /\ s[i] # s[m]
      BY <2>2 DEF Once
    <3>3. B[s[i]] = A[s[i]]
      BY <3>2
    <3> QED BY <1>1, <1>2, <3>1, <3>3
  <2> QED BY <2>1, <2>2
<1>6. w = [i \in 1 .. N |-> w[i]]
  BY <1>1
<1>7. View(s, B) = [i \in 1 .. N |-> View(s, B)[i]]
  BY <1>2, Zenon
<1> HIDE DEF w
<1>8. View(s, B) = w
  BY <1>1, <1>5, <1>6, <1>7, SameSeq
<1> QED BY <1>8 DEF w, Following

(* What is seen after a tick. *)
LEMMA TickView ==
  ASSUME NEW s \in Seq(Slot), NEW A \in [Slot -> Struct], NEW B \in [Slot -> Struct],
         \A i \in 1 .. Len(s) : TickIs(B[s[i]], A[s[i]]) /\ A[s[i]].countdown <= SignBit,
         NEW v, v = View(s, A)
  PROVE  View(s, B) = [i \in DOMAIN v |-> Collection!Ticked(v[i])]
<1> DEFINE N == Len(s)
<1>1. /\ N \in Nat /\ DOMAIN v = 1 .. N
      /\ \A i \in 1 .. N : v[i] = Seen(A[s[i]])
  BY ViewIs
<1>2. View(s, B) = [i \in 1 .. N |-> Seen(B[s[i]])]
  BY ViewIs
<1>3. ASSUME NEW b \in Struct, NEW c \in Struct, TickIs(c, b), b.countdown <= SignBit
      PROVE  Seen(c) = Collection!Ticked(Seen(b))
  <2>1. /\ b.countdown \in Nat /\ b.status \in {0, 1}
        /\ Seen(b).countdown = b.countdown /\ Seen(b).status = b.status
        /\ Seen(b).on_length = b.on_length /\ Seen(b).off_length = b.off_length
    BY BlinkConstants DEF BlinkConstants, Struct, Seen
  <2>2. CASE b.countdown > 1
    <3>1. c.countdown = b.countdown - 1 /\ c.status = b.status
      BY <1>3, <2>1, <2>2, DueIs DEF TickIs
    <3>2. Collection!Ticked(Seen(b)) = [Seen(b) EXCEPT !.countdown = b.countdown - 1]
      BY <2>1, <2>2 DEF Collection!Ticked
    <3> QED BY <1>3, <3>1, <3>2 DEF Seen, TickIs
  <2>3. CASE ~ (b.countdown > 1) /\ b.status = 1
    <3>1. c.countdown = b.off_length /\ c.status = 0
      BY <1>3, <2>1, <2>3, DueIs DEF TickIs
    <3>2. Collection!Ticked(Seen(b)) = [Seen(b) EXCEPT !.status = 0, !.countdown = b.off_length]
      BY <2>1, <2>3 DEF Collection!Ticked
    <3> QED BY <1>3, <3>1, <3>2 DEF Seen, TickIs
  <2>4. CASE ~ (b.countdown > 1) /\ b.status = 0
    <3>1. c.countdown = b.on_length /\ c.status = 1
      BY <1>3, <2>1, <2>4, DueIs DEF TickIs
    <3>2. Collection!Ticked(Seen(b)) = [Seen(b) EXCEPT !.status = 1, !.countdown = b.on_length]
      BY <2>1, <2>4 DEF Collection!Ticked
    <3> QED BY <1>3, <3>1, <3>2 DEF Seen, TickIs
  <2> QED BY <2>1, <2>2, <2>3, <2>4
<1>4. ASSUME NEW i \in 1 .. N PROVE Seen(B[s[i]]) = Collection!Ticked(v[i])
  <2>1. s[i] \in Slot /\ A[s[i]] \in Struct /\ B[s[i]] \in Struct
    OBVIOUS
  <2> QED BY <1>1, <1>3, <2>1
<1>5. [i \in 1 .. N |-> Seen(B[s[i]])] = [i \in 1 .. N |-> Collection!Ticked(v[i])]
  <2> HIDE DEF Seen, N
  <2> QED BY <1>4, Zenon
<1> QED BY <1>1, <1>2, <1>5

(* What the refinement mapping puts for blinkers, and the collection's      *)
(* operations on what is seen.                                              *)
Blinkers == LET list == List
            IN [i \in DOMAIN list |->
                  LET b == blink_array[list[i]]
                  IN [location |-> b.location, on_length |-> b.on_length, off_length |-> b.off_length,
                      countdown |-> b.countdown, status |-> b.status]]
LEMMA OnView ==
  ASSUME NEW v, v = View(List, blink_array), NEW w, w = View(List, blink_array)'
  PROVE  /\ v = <<>> => Collection!Init
         /\ w = v => UNCHANGED Blinkers
         /\ \A u : u.location < Places /\ Len(v) < Slots /\ w = <<Collection!New(u)>> \o v
                   => Collection!Add(u)
         /\ w = [i \in DOMAIN v |-> Collection!Ticked(v[i])] => Collection!Tick
<1>1. v = <<>> => Collection!Init
  BY DEF Collection!Init, View, Seen
<1>2. w = v => UNCHANGED Blinkers
  BY DEF Blinkers, View, Seen
<1>3. \A u : u.location < Places /\ Len(v) < Slots /\ w = <<Collection!New(u)>> \o v
             => Collection!Add(u)
  BY DEF Collection!Add, View, Seen
<1>4. w = [i \in DOMAIN v |-> Collection!Ticked(v[i])] => Collection!Tick
  BY DEF Collection!Tick, View, Seen
<1> QED BY <1>1, <1>2, <1>3, <1>4

(* The collection's newest blinker at a location is the list's. *)
LEMMA OnNewest ==
  ASSUME Inv, NEW v, v = View(List, blink_array), NEW l, NEW k, NewestAt(List, blink_array, l, k)
  PROVE  Collection!At(l) # {} /\ Collection!Newest(l) = k
<1>1. List \in Seq(Slot) /\ blink_array \in [Slot -> Struct]
  BY OnList DEF Inv, ListInv, TypeInv, TypeOK
<1>2. Collection!At(l) = {i \in DOMAIN v : v[i].location = l}
  BY DEF Collection!At, View, Seen
<1>3. PICK S : S = Collection!At(l)
  OBVIOUS
<1>4. PICK s \in Seq(Slot), A \in [Slot -> Struct] : s = List /\ A = blink_array
  BY <1>1
<1>5. /\ DOMAIN View(s, A) = 1 .. Len(s) /\ Len(s) \in Nat
      /\ \A i \in 1 .. Len(s) : View(s, A)[i].location = A[s[i]].location
  BY ViewIs DEF Seen
<1>6. S # {} /\ Least(S) = k
  <2>1. S = {i \in DOMAIN View(s, A) : View(s, A)[i].location = l} /\ NewestAt(s, A, l, k)
    BY <1>2, <1>3, <1>4
  <2>2. \A i : i \in S <=> i \in 1 .. Len(s) /\ A[s[i]].location = l
    BY <1>5, <2>1
  <2>3. S \in SUBSET Nat
    BY <1>5, <2>2
  <2> QED BY <2>1, <2>2, <2>3, NewestIs
<1>7. Collection!Newest(l) = Least(Collection!At(l))
  BY DEF Collection!Newest, Least
<1> QED BY <1>3, <1>6, <1>7

(* Every step of the driver is one of the collection, or none. *)
LEMMA CollectionStep ==
  ASSUME NoCorner, NotSlow, Inv, PhaseInv, [Next]_vars
  PROVE  Collection!Next \/ UNCHANGED Blinkers
<1>1. TypeInv /\ ListInv /\ Inv'
  BY InvStep DEF Inv
<1>2. PICK s, A, t, B, v, w : /\ s = List /\ A = blink_array /\ t = List' /\ B = blink_array'
                              /\ v = View(s, A) /\ w = View(t, B)
  OBVIOUS
<1>3. v = View(List, blink_array) /\ w = View(List, blink_array)'
  BY <1>2
<1>4. /\ s \in Seq(Slot) /\ Once(s) /\ A \in [Slot -> Struct]
      /\ t \in Seq(Slot) /\ Once(t) /\ B \in [Slot -> Struct]
  BY <1>1, <1>2 DEF Inv, ListInv, IsList, TypeInv, TypeOK
<1>5. Len(v) = Len(s)
  BY <1>2, <1>4, ViewIs
<1>6. \A i \in 1 .. Len(s) : s[i] \in Slot /\ A[s[i]].location # 0
  BY <1>1, <1>2, OnList DEF ListInv
<1>7. CASE UNCHANGED vars
  <2>1. w = v
    BY <1>2, <1>7, Stays DEF vars
  <2> QED BY <1>3, <2>1, OnView
<1>8. CASE ~ UNCHANGED vars /\ \E u \in Structs : mp1_ioctl_add(u)
  <2>1. PICK u \in Structs : mp1_ioctl_add(u)
    BY <1>8
  <2>2. PICK p \in Slot :
           /\ A[p].location = 0 /\ u.location \in Locations
           /\ blink_array' = [blink_array EXCEPT ![p] = Linked(u)]
           /\ List' = <<p>> \o List
    BY <1>1, <1>2, <1>8, <2>1, AddEffect
  <2>3. \A r \in Slot : B[r] = IF r = p THEN Linked(u) ELSE A[r]
    BY <1>2, <1>4, <2>2
  <2>4. t = <<p>> \o s /\ \A i \in 1 .. Len(s) : s[i] # p
    BY <1>2, <1>6, <2>2
  <2>5. w = <<Seen(B[p])>> \o v
    <3>1. \A r \in Slot \ {p} : B[r] = A[r]
      BY <2>3
    <3>2. View(<<p>> \o s, B) = <<Seen(B[p])>> \o View(s, A)
      BY <1>4, <2>4, <3>1, AddView
    <3> QED BY <1>2, <2>4, <3>2
  <2>6. Seen(B[p]) = Collection!New(u)
    <3>1. B[p] = Linked(u)
      BY <2>3
    <3> QED BY <3>1 DEF Linked, Seen, Collection!New
  <2>7. Len(s) < Slots
    <3>1. Len(t) = Len(s) + 1 /\ Len(s) \in Nat
      BY <1>4, <2>4
    <3>2. Len(t) \in 0 .. Slots
      BY <1>4, ListFits
    <3> QED BY <3>1, <3>2, BlinkConstants DEF BlinkConstants
  <2>8. u.location < Places
    BY <2>2, BlinkConstants DEF BlinkConstants, Locations
  <2>9. Collection!Add(u)
    <3>1. w = <<Collection!New(u)>> \o v /\ Len(v) < Slots
      BY <1>5, <2>5, <2>6, <2>7
    <3> QED BY <1>3, <2>8, <3>1, OnView
  <2> QED BY <2>9 DEF Collection!Next
<1>9. CASE ~ UNCHANGED vars /\ \E l \in Named : mp1_ioctl_remove(l)
  <2>1. PICK l \in Named : mp1_ioctl_remove(l)
    BY <1>9
  <2>2. PICK k \in 1 .. Len(List) :
           /\ NewestAt(List, blink_array, l, k) /\ List' = Drop(List, k)
           /\ \A r \in Slot \ {List[k]} : SameBlinker(blink_array'[r], blink_array[r])
    BY <1>1, <1>9, <2>1, RemoveEffect
  <2>3. /\ k \in 1 .. Len(s) /\ t = Drop(s, k)
        /\ \A r \in Slot \ {s[k]} : SameBlinker(B[r], A[r])
    BY <1>2, <2>2
  <2>4. w = Drop(v, k)
    BY <1>2, <1>4, <2>3, RemoveView
  <2>5. Collection!At(l) # {} /\ Collection!Newest(l) = k
    BY <1>3, <2>2, OnNewest
  <2>6. Collection!Remove(l)
    <3>1. Collection!Remove(l)
            <=> /\ Collection!At(l) # {}
                /\ w = [i \in 1 .. Len(v) - 1 |-> v[IF i < Collection!Newest(l) THEN i ELSE i + 1]]
      BY <1>3 DEF Collection!Remove, View, Seen
    <3> QED BY <2>4, <2>5, <3>1 DEF Drop
  <2>7. l \in Collection!Named
    BY DEF Named, Collection!Named
  <2> QED BY <2>6, <2>7 DEF Collection!Next
<1>10. CASE ~ UNCHANGED vars /\ \E l, m \in Named : mp1_ioctl_sync(l, m)
  <2>1. PICK from \in Named, to \in Named : mp1_ioctl_sync(from, to)
    BY <1>10
  <2>2. PICK k \in 1 .. Len(List), m \in 1 .. Len(List) :
           /\ NewestAt(List, blink_array, from, k) /\ NewestAt(List, blink_array, to, m)
           /\ List' = List
           /\ blink_array'[List[m]] = Synced(blink_array[List[m]], blink_array[List[k]])
           /\ \A r \in Slot \ {List[m]} : blink_array'[r] = blink_array[r]
    BY <1>1, <1>10, <2>1, SyncEffect
  <2>3. /\ k \in 1 .. Len(s) /\ m \in 1 .. Len(s) /\ t = s /\ A[s[m]].location = to
        /\ B[s[m]] = Synced(A[s[m]], A[s[k]]) /\ \A r \in Slot \ {s[m]} : B[r] = A[r]
    BY <1>2, <2>2 DEF NewestAt
  <2>4. View(s, B) = Following(v, k, m, to)
    BY <1>2, <1>4, <2>3, SyncView
  <2>5. w = Following(v, k, m, to)
    BY <1>2, <2>3, <2>4
  <2>6. /\ Collection!At(from) # {} /\ Collection!Newest(from) = k
        /\ Collection!At(to) # {} /\ Collection!Newest(to) = m
    BY <1>3, <2>2, OnNewest
  <2>7. Collection!Sync(from, to)
    <3>1. Collection!Sync(from, to)
            <=> /\ Collection!At(from) # {} /\ Collection!At(to) # {}
                /\ w = [v EXCEPT ![Collection!Newest(to)] =
                                    [v[Collection!Newest(from)] EXCEPT !.location = to]]
      BY <1>3 DEF Collection!Sync, View, Seen
    <3> QED BY <2>5, <2>6, <3>1 DEF Following
  <2>8. from \in Collection!Named /\ to \in Collection!Named
    BY DEF Named, Collection!Named
  <2> QED BY <2>7, <2>8 DEF Collection!Next
<1>11. CASE mp1_rtc_tasklet
  <2>1. List' = List /\ \A i \in 1 .. Len(List) : TickIs(blink_array'[List[i]], blink_array[List[i]])
    BY <1>1, <1>11, TickEffect
  <2>2. t = s /\ \A i \in 1 .. Len(s) : TickIs(B[s[i]], A[s[i]])
    BY <1>2, <2>1
  <2>3. \A r \in Slot : A[r].location # 0 => A[r].countdown <= SignBit
    <3> SUFFICES ASSUME NEW r \in Slot, A[r].location # 0 PROVE A[r].countdown <= SignBit
      OBVIOUS
    <3>1. PICK n \in Nat : n = age[r]
      BY <1>1 DEF TypeInv
    <3>2. InPhase(A[r], n) /\ A[r] \in Struct
      BY <1>2, <1>4, <3>1 DEF PhaseInv
    <3> QED BY <3>2, PhaseFits
  <2>4. \A i \in 1 .. Len(s) : TickIs(B[s[i]], A[s[i]]) /\ A[s[i]].countdown <= SignBit
    BY <1>6, <2>2, <2>3
  <2>5. View(s, B) = [i \in DOMAIN v |-> Collection!Ticked(v[i])]
    BY <1>2, <1>4, <2>4, TickView
  <2>6. w = [i \in DOMAIN v |-> Collection!Ticked(v[i])]
    BY <1>2, <2>2, <2>5
  <2>7. Collection!Tick
    BY <1>3, <2>6, OnView
  <2> QED BY <2>7 DEF Collection!Next
<1> QED BY <1>7, <1>8, <1>9, <1>10, <1>11, StepCases

(* The slots of blink_array and the list threaded through them implement a  *)
(* collection of blinkers, newest first, for any number of slots: a removal *)
(* takes the newest blinker of its location and no other, whether it is at  *)
(* the head, in the middle or at the end of the list, an add never takes a  *)
(* slot in use, a sync changes the blinker it names, and a tick steps every *)
(* blinker exactly once.                                                    *)
THEOREM BlinkersKept ==
  ASSUME NoCorner, NotSlow
  PROVE  Spec => Implements
<1>1. Init => Inv /\ PhaseInv /\ Collection!Init
  <2> SUFFICES ASSUME Init PROVE PhaseInv /\ Collection!Init
    BY InvInit
  <2>1. \A r \in Slot : blink_array[r].location = 0
    BY DEF Init, Zero
  <2>2. PhaseInv
    BY <2>1 DEF PhaseInv
  <2>3. PICK s, h, A : s = List /\ h = mp1_list_head /\ A = blink_array
    OBVIOUS
  <2>4. s \in Seq(Slot) /\ h = NULL /\ \A i \in 1 .. Len(s) : s[i] \in Slot /\ A[s[i]].location # 0
    BY <2>3, InvInit, OnList DEF Init, Inv, ListInv
  <2>5. \A i \in 1 .. Len(s) : FALSE
    BY <2>1, <2>3, <2>4
  <2>6. DOMAIN s = {}
    BY <2>4, <2>5
  <2>7. View(s, A) = <<>>
    <3>1. View(s, A) = [i \in {} |-> Seen(A[s[i]])]
      BY <2>6 DEF View
    <3>2. View(s, A) = [i \in 1 .. 0 |-> Seen(A[s[i]])]
      BY <3>1
    <3> QED BY <3>2
  <2>8. Collection!Init
    BY <2>3, <2>7, OnView
  <2> QED BY <2>2, <2>8
<1>2. Inv /\ PhaseInv /\ [Next]_vars => (Inv /\ PhaseInv)'
  BY InvStep, PhaseStep
<1>3. Inv /\ PhaseInv /\ [Next]_vars => [Collection!Next]_Blinkers
  BY CollectionStep
<1> QED BY <1>1, <1>2, <1>3, PTL DEF Spec, Implements, Collection!Spec, Blinkers
=============================================================================
