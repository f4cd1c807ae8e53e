--------------------------- MODULE ManifestProofs ---------------------------
(***************************************************************************)
(* Theorems about Manifests: add takes a schema exactly when its fields    *)
(* can be resolved; every manifest follows its sources; and a reprobe      *)
(* rebuilds a file as if it were added.  For schemas of any number of      *)
(* fields, and any number of files and types.                              *)
(***************************************************************************)
EXTENDS Manifests, FiniteSetTheorems, SequenceTheorems, NaturalsInduction, WellFoundedInduction, TLAPS

(* A set of naturals has a least element.                                     *)
LEMMA Least ==
  ASSUME NEW T, T \subseteq Nat, T # {}
  PROVE  \E m \in T : \A k \in T : m <= k
  <1> DEFINE Lt == {ss \in Nat \X Nat : ss[1] < ss[2]}
  <1>1. IsWellFoundedOn(Lt, Nat)
    BY NatLessThanWellFounded DEF OpToRel
  <1> HIDE DEF Lt
  <1>2. PICK m \in T : \A k \in T : <<k, m>> \notin Lt
    BY <1>1, WFMin
  <1>3. ASSUME NEW k \in T
        PROVE  m <= k
    <2>1. k \in Nat /\ m \in Nat
      BY <1>2
    <2>2. k < m => <<k, m>> \in Lt
      BY <2>1 DEF Lt
    <2> QED
      BY <1>2, <2>1, <2>2
  <1> QED
    BY <1>3

(* Induction over the naturals, for a set.                                    *)
LEMMA Induction ==
  ASSUME NEW S, 0 \in S, \A n \in Nat : n \in S => n + 1 \in S
  PROVE  Nat \subseteq S
  <1> SUFFICES ASSUME Nat \ S # {} PROVE FALSE
    OBVIOUS
  <1>1. PICK m \in Nat \ S : \A k \in Nat \ S : m <= k
    BY Least
  <1>2. m # 0 /\ m - 1 \in Nat /\ m - 1 + 1 = m
    BY <1>1
  <1>3. m - 1 \in Nat \ S
    BY <1>1, <1>2
  <1> QED
    BY <1>1, <1>2, <1>3

---------------------------------------------------------------------------
(* Sorting.                                                                 *)

Rising(s) == \A i, j \in DOMAIN s : i < j => s[i] < s[j]

(* A finite set of numbers has a sequence that lists it in rising order.    *)
LEMMA Sortable ==
  ASSUME NEW S, S \subseteq Nat, IsFiniteSet(S)
  PROVE  \E s \in [1 .. Cardinality(S) -> S] : Rising(s)
  <1> DEFINE T == {n \in Nat : \A U \in SUBSET Nat : IsFiniteSet(U) /\ Cardinality(U) = n =>
                                  \E s \in [1 .. n -> U] : Rising(s)}
  <1>1. 0 \in T
    <2> SUFFICES ASSUME NEW U \in SUBSET Nat, IsFiniteSet(U), Cardinality(U) = 0
                 PROVE  \E s \in [1 .. 0 -> U] : Rising(s)
      OBVIOUS
    <2>1. <<>> \in [1 .. 0 -> U] /\ Rising(<<>>)
      BY DEF Rising
    <2> QED
      BY <2>1
  <1>2. ASSUME NEW n \in Nat, n \in T
        PROVE  n + 1 \in T
    <2> SUFFICES ASSUME NEW U \in SUBSET Nat, IsFiniteSet(U), Cardinality(U) = n + 1
                 PROVE  \E s \in [1 .. n + 1 -> U] : Rising(s)
      BY <1>2
    <2>1. U # {}
      BY FS_EmptySet
    <2>2. PICK m \in U : \A k \in U : m <= k
      BY <2>1, Least
    <2>3. IsFiniteSet(U \ {m}) /\ Cardinality(U \ {m}) = n
      BY FS_RemoveElement, FS_CardinalityType
    <2>4. PICK t \in [1 .. n -> U \ {m}] : Rising(t)
      BY <1>2, <2>3
    <2> DEFINE s == [i \in 1 .. n + 1 |-> IF i = 1 THEN m ELSE t[i - 1]]
    <2>5. \A i \in 1 .. n + 1 : i # 1 => i - 1 \in 1 .. n
      OBVIOUS
    <2>6. s \in [1 .. n + 1 -> U]
      BY <2>5
    <2>7. ASSUME NEW i \in 1 .. n + 1, NEW j \in 1 .. n + 1, i < j
          PROVE  s[i] < s[j]
      <3>1. j # 1 /\ j - 1 \in 1 .. n /\ t[j - 1] \in U \ {m} /\ s[j] = t[j - 1]
        BY <2>7
      <3>2. CASE i = 1
        <4>1. m \in Nat /\ t[j - 1] \in Nat /\ m <= t[j - 1] /\ m # t[j - 1]
          BY <2>2, <3>1
        <4> QED
          BY <3>1, <3>2, <4>1
      <3>3. CASE i # 1
        <4>1. i - 1 \in 1 .. n /\ s[i] = t[i - 1] /\ i - 1 < j - 1
          BY <2>7, <3>3
        <4> QED
          BY <2>4, <3>1, <4>1 DEF Rising
      <3> QED
        BY <3>2, <3>3
    <2> QED
      BY <2>6, <2>7 DEF Rising
  <1> HIDE DEF T
  <1>3. Nat \subseteq T
    BY <1>1, <1>2, Induction
  <1>4. Cardinality(S) \in Nat
    BY FS_CardinalityType
  <1> QED
    BY <1>3, <1>4 DEF T

(* A listing of S of its own length that repeats nothing is all of S.       *)
LEMMA ListsAll ==
  ASSUME NEW S, IsFiniteSet(S), NEW s \in [1 .. Cardinality(S) -> S],
         \A i, j \in 1 .. Cardinality(S) : s[i] = s[j] => i = j
  PROVE  \A x \in S : \E i \in 1 .. Cardinality(S) : s[i] = x
  <1>1. Cardinality(S) \in Nat
    BY FS_CardinalityType
  <1>2. Cardinality(1 .. Cardinality(S)) = Cardinality(S)
    BY <1>1, FS_Interval
  <1>3. s \in Injection(1 .. Cardinality(S), S)
    BY DEF Injection, IsInjective
  <1>4. s \in Surjection(1 .. Cardinality(S), S)
    BY <1>2, <1>3, FS_Injection
  <1> QED
    BY <1>4 DEF Surjection

Distinct(s) == \A i, j \in 1 .. Len(s) : s[i] = s[j] => i = j
Elems(s)    == {s[i] : i \in 1 .. Len(s)}

(* What ready.sort() makes of a set of names.                               *)
LEMMA AscendingLists ==
  ASSUME NEW S, S \subseteq Nat, IsFiniteSet(S)
  PROVE  Ascending(S) \in Seq(S) /\ Distinct(Ascending(S)) /\ Elems(Ascending(S)) = S
  <1> DEFINE n == Cardinality(S)
             a == Ascending(S)
  <1>1. n \in Nat
    BY FS_CardinalityType
  <1>2. a \in [1 .. n -> S] /\ Rising(a)
    BY Sortable DEF Ascending, Rising
  <1> HIDE DEF a
  <1>3. Len(a) = n /\ a \in Seq(S)
    BY <1>1, <1>2
  <1>4. ASSUME NEW i \in 1 .. n, NEW j \in 1 .. n, a[i] = a[j]
        PROVE  i = j
    <2>1. a[i] \in Nat /\ a[j] \in Nat /\ DOMAIN a = 1 .. n
      BY <1>2
    <2>2. (i < j => a[i] < a[j]) /\ (j < i => a[j] < a[i])
      BY <1>2, <2>1 DEF Rising
    <2> QED
      BY <1>1, <1>4, <2>1, <2>2
  <1>5. \A x \in S : \E i \in 1 .. n : a[i] = x
    BY <1>2, <1>4, ListsAll
  <1>6. Distinct(a) /\ Elems(a) = S
    <2>1. Distinct(a)
      BY <1>3, <1>4 DEF Distinct
    <2>2. \A i \in 1 .. n : a[i] \in S
      BY <1>2
    <2> QED
      BY <1>3, <1>5, <2>1, <2>2 DEF Elems
  <1> QED
    BY <1>3, <1>6 DEF a

(* What ready.sort_by(|a, b| b.cmp(a)) makes of one.                        *)
LEMMA DescendingLists ==
  ASSUME NEW S, S \subseteq Nat, IsFiniteSet(S)
  PROVE  Descending(S) \in Seq(S) /\ Distinct(Descending(S)) /\ Elems(Descending(S)) = S
  <1> DEFINE n == Cardinality(S)
             a == Descending(S)
  <1>1. n \in Nat
    BY FS_CardinalityType
  <1>2. PICK s \in [1 .. n -> S] : Rising(s)
    BY Sortable
  <1> DEFINE r == [i \in 1 .. n |-> s[n + 1 - i]]
  <1>3. \A i \in 1 .. n : n + 1 - i \in 1 .. n
    BY <1>1
  <1>4. r \in [1 .. n -> S] /\ \A i, j \in 1 .. n : i < j => r[i] > r[j]
    <2>1. r \in [1 .. n -> S]
      BY <1>3
    <2>2. ASSUME NEW i \in 1 .. n, NEW j \in 1 .. n, i < j PROVE r[i] > r[j]
      <3>1. n + 1 - j < n + 1 - i
        BY <1>1, <2>2
      <3>2. s[n + 1 - j] < s[n + 1 - i]
        BY <1>2, <1>3, <3>1 DEF Rising
      <3>3. s[n + 1 - j] \in Nat /\ s[n + 1 - i] \in Nat
        BY <1>3
      <3> QED
        BY <3>2, <3>3
    <2> QED
      BY <2>1, <2>2
  <1> HIDE DEF r
  <1>5. a \in [1 .. n -> S] /\ \A i, j \in 1 .. n : i < j => a[i] > a[j]
    <2>1. \E f \in [1 .. n -> S] : \A i, j \in DOMAIN f : i < j => f[i] > f[j]
      BY <1>4
    <2>2. a \in [1 .. n -> S] /\ \A i, j \in DOMAIN a : i < j => a[i] > a[j]
      BY <2>1 DEF Descending
    <2> HIDE DEF a
    <2> QED
      BY <2>2
  <1> HIDE DEF a
  <1>6. Len(a) = n /\ a \in Seq(S)
    BY <1>1, <1>5
  <1>7. ASSUME NEW i \in 1 .. n, NEW j \in 1 .. n, a[i] = a[j]
        PROVE  i = j
    <2>1. a[i] \in Nat /\ a[j] \in Nat
      BY <1>5
    <2>2. (i < j => a[i] > a[j]) /\ (j < i => a[j] > a[i])
      BY <1>5
    <2> QED
      BY <1>1, <1>7, <2>1, <2>2
  <1>8. \A x \in S : \E i \in 1 .. n : a[i] = x
    BY <1>5, <1>7, ListsAll
  <1>9. Distinct(a) /\ Elems(a) = S
    <2>1. Distinct(a)
      BY <1>6, <1>7 DEF Distinct
    <2>2. \A i \in 1 .. n : a[i] \in S
      BY <1>5
    <2> QED
      BY <1>6, <1>8, <2>1, <2>2 DEF Elems
  <1> QED
    BY <1>6, <1>9 DEF a

---------------------------------------------------------------------------
(* topo_sort.  What has been put out and what is ready are, together, the   *)
(* fields that wait for no other or for one that has been put out.          *)

Waits(fields, n) == Primary(fields[n]).k = "field"
From(fields, n)  == Primary(fields[n]).from

Unlocked(fields, done) ==
  {n \in DOMAIN fields : Waits(fields, n) => From(fields, n) \in done}

OutOrdered(fields, out) ==
  \A j \in 1 .. Len(out) : Waits(fields, out[j]) =>
    \E l \in 1 .. Len(out) : l < j /\ out[l] = From(fields, out[j])

SortOK(fields, st, i) ==
  /\ st.out \in Seq(DOMAIN fields) /\ Distinct(st.out)
  /\ st.ready \in Seq(DOMAIN fields) /\ Distinct(st.ready)
  /\ Elems(st.out) \cap Elems(st.ready) = {}
  /\ Elems(st.out) \cup Elems(st.ready) = Unlocked(fields, Elems(st.out))
  /\ OutOrdered(fields, st.out)
  /\ Len(st.out) <= i
  /\ Len(st.out) = i \/ st.ready = <<>>

LEMMA LastAndFront ==
  ASSUME NEW D, NEW s \in Seq(D), s # <<>>, Distinct(s)
  PROVE  /\ Last(s) \in D
         /\ Last(s) \in Elems(s)
         /\ Front(s) \in Seq(D)
         /\ Distinct(Front(s))
         /\ Elems(Front(s)) = Elems(s) \ {Last(s)}
         /\ Range(Front(s)) = Elems(Front(s))
  <1> DEFINE n == Len(s)
             f == Front(s)
  <1>1. n \in Nat \ {0} /\ s \in [1 .. n -> D]
    BY EmptySeq, LenProperties
  <1>2. Last(s) = s[n] /\ s[n] \in D
    BY <1>1 DEF Last
  <1>3. f \in Seq(D) /\ Len(f) = n - 1 /\ \A i \in 1 .. n - 1 : f[i] = s[i]
    BY <1>1, SubSeqProperties DEF Front
  <1>n. 1 .. n - 1 \subseteq 1 .. n \ {n} /\ n \in 1 .. n
    BY <1>1
  <1> HIDE DEF f
  <1>4. Distinct(f)
    BY <1>1, <1>3 DEF Distinct
  <1>5. Elems(f) = Elems(s) \ {Last(s)}
    <2>1. ASSUME NEW x \in Elems(f) PROVE x \in Elems(s) \ {Last(s)}
      <3>1. PICK i \in 1 .. n - 1 : x = s[i]
        BY <1>3 DEF Elems
      <3>2. i \in 1 .. n /\ i # n /\ n \in 1 .. n
        BY <1>n, <3>1, Zenon
      <3>3. s[i] # s[n]
        BY <3>2, Zenon DEF Distinct
      <3> QED
        BY <1>2, <3>1, <3>2, <3>3 DEF Elems
    <2>2. ASSUME NEW x \in Elems(s) \ {Last(s)} PROVE x \in Elems(f)
      <3>1. PICK i \in 1 .. n : x = s[i]
        BY DEF Elems
      <3>2. i \in 1 .. n - 1
        BY <1>1, <1>2, <3>1
      <3> QED
        BY <1>3, <3>1, <3>2 DEF Elems
    <2> QED
      BY <2>1, <2>2
  <1>6. Range(f) = Elems(f)
    <2>1. DOMAIN f = 1 .. Len(f)
      BY <1>3, LenProperties
    <2> QED
      BY <2>1 DEF Range, Elems
  <1>7. Last(s) \in Elems(s)
    BY <1>1, <1>2 DEF Elems
  <1> QED
    BY <1>2, <1>3, <1>4, <1>5, <1>6, <1>7 DEF f

LEMMA Appended ==
  ASSUME NEW D, NEW s \in Seq(D), NEW x \in D
  PROVE  /\ Append(s, x) \in Seq(D)
         /\ Len(Append(s, x)) = Len(s) + 1
         /\ Append(s, x)[Len(s) + 1] = x
         /\ \A i \in 1 .. Len(s) : Append(s, x)[i] = s[i]
         /\ Elems(Append(s, x)) = Elems(s) \cup {x}
         /\ Distinct(s) /\ x \notin Elems(s) => Distinct(Append(s, x))
  <1> DEFINE t == Append(s, x)
             n == Len(s)
  <1>1. /\ t \in Seq(D) /\ Len(t) = n + 1 /\ n \in Nat
        /\ t[n + 1] = x /\ \A i \in 1 .. n : t[i] = s[i]
    BY AppendProperties, LenProperties
  <1> HIDE DEF t
  <1>2. Elems(t) = Elems(s) \cup {x}
    <2>1. ASSUME NEW y \in Elems(t) PROVE y \in Elems(s) \cup {x}
      <3>1. PICK i \in 1 .. n + 1 : y = t[i]
        BY <1>1 DEF Elems
      <3>2. i \in 1 .. n \/ i = n + 1
        BY <1>1
      <3> QED
        BY <1>1, <3>1, <3>2 DEF Elems
    <2>2. n + 1 \in 1 .. n + 1 /\ \A i \in 1 .. n : i \in 1 .. n + 1
      BY <1>1
    <2>3. Elems(s) \subseteq Elems(t)
      BY <1>1, <2>2 DEF Elems
    <2>4. x \in Elems(t)
      BY <1>1, <2>2 DEF Elems
    <2> QED
      BY <2>1, <2>3, <2>4
  <1>3. ASSUME Distinct(s), x \notin Elems(s) PROVE Distinct(t)
    <2> SUFFICES ASSUME NEW i \in 1 .. n + 1, NEW j \in 1 .. n + 1, t[i] = t[j]
                 PROVE  i = j
      BY <1>1 DEF Distinct
    <2>1. (i \in 1 .. n \/ i = n + 1) /\ (j \in 1 .. n \/ j = n + 1)
      BY <1>1
    <2>2. \A k \in 1 .. n : s[k] # x
      BY <1>3 DEF Elems
    <2> QED
      BY <1>1, <1>3, <2>1, <2>2 DEF Distinct
  <1> QED
    BY <1>1, <1>2, <1>3 DEF t

LEMMA PopKeeps ==
  ASSUME NEW fields, DOMAIN fields \subseteq Nat, IsFiniteSet(DOMAIN fields),
         NEW i \in Nat, NEW st, SortOK(fields, st, i)
  PROVE  SortOK(fields, PopReady(fields, st), i + 1)
  <1> DEFINE D    == DOMAIN fields
             n    == Last(st.ready)
             deps == Dependents(fields, n)
             rest == Front(st.ready)
             next == PopReady(fields, st)
  <1>1. CASE st.ready = <<>>
    <2>1. next = st /\ Len(st.out) \in Nat
      BY <1>1 DEF PopReady, SortOK
    <2>2. Len(st.out) <= i + 1
      BY <2>1 DEF SortOK
    <2>3. SortOK(fields, st, i + 1)
      BY <1>1, <2>2, Zenon DEF SortOK
    <2> QED
      BY <2>1, <2>3, Zenon
  <1>2. CASE st.ready # <<>>
    <2>1. /\ n \in D /\ n \in Elems(st.ready)
          /\ rest \in Seq(D) /\ Distinct(rest) /\ Elems(rest) = Elems(st.ready) \ {n}
          /\ Range(rest) = Elems(rest)
      BY <1>2, LastAndFront DEF SortOK
    <2>2. /\ next.out = Append(st.out, n)
          /\ next.ready = IF deps = {} THEN rest ELSE Descending(Elems(rest) \cup deps)
      BY <1>2, <2>1 DEF PopReady
    <2>3. deps = {m \in D : Waits(fields, m) /\ From(fields, m) = n}
      BY DEF Dependents, Waits, From
    <2> DEFINE out == next.out  ready == next.ready  E == Elems(st.out)  R == Elems(rest)
    <2> HIDE DEF n, deps, rest, next
    <2>4. n \notin E
      BY <2>1 DEF SortOK
    <2>5. /\ out \in Seq(D) /\ Distinct(out) /\ Elems(out) = E \cup {n}
          /\ Len(out) = Len(st.out) + 1 /\ out[Len(st.out) + 1] = n
          /\ \A j \in 1 .. Len(st.out) : out[j] = st.out[j]
      BY <2>1, <2>2, <2>4, Appended DEF SortOK
    <2>6. ready \in Seq(D) /\ Distinct(ready) /\ Elems(ready) = R \cup deps
      <3>1. R \subseteq D
        BY <2>1 DEF Elems
      <3>2. R \cup deps \subseteq D
        BY <2>3, <3>1
      <3>3. IsFiniteSet(R \cup deps) /\ R \cup deps \subseteq Nat
        BY <3>2, FS_Subset
      <3>4. LET a == Descending(R \cup deps) IN a \in Seq(R \cup deps) /\ Distinct(a) /\ Elems(a) = R \cup deps
        BY <3>3, DescendingLists
      <3>5. Descending(R \cup deps) \in Seq(D)
        BY <3>2, <3>4, SeqDef
      <3> QED
        BY <2>1, <2>2, <3>4, <3>5
    <2>7. E \cup R \cup {n} = Unlocked(fields, E)
      BY <2>1 DEF SortOK
    <2>8. Elems(out) \cup Elems(ready) = Unlocked(fields, Elems(out))
      BY <2>3, <2>5, <2>6, <2>7 DEF Unlocked
    <2>9. Elems(out) \cap Elems(ready) = {}
      <3>1. E \cap R = {} /\ n \notin R
        BY <2>1 DEF SortOK
      <3>2. ASSUME NEW m \in deps PROVE m \notin E \cup {n}
        <4>1. m \notin Unlocked(fields, E)
          BY <2>3, <2>4 DEF Unlocked
        <4> QED
          BY <2>7, <4>1
      <3> QED
        BY <2>4, <2>5, <2>6, <3>1, <3>2
    <2>10. OutOrdered(fields, out)
      <3> SUFFICES ASSUME NEW j \in 1 .. Len(out), Waits(fields, out[j])
                   PROVE  \E l \in 1 .. Len(out) : l < j /\ out[l] = From(fields, out[j])
        BY DEF OutOrdered
      <3>0. Len(st.out) \in Nat
        BY DEF SortOK
      <3>1. CASE j \in 1 .. Len(st.out)
        <4>1. PICK l \in 1 .. Len(st.out) : l < j /\ st.out[l] = From(fields, st.out[j])
          BY <2>5, <3>1 DEF SortOK, OutOrdered
        <4>2. l \in 1 .. Len(out)
          BY <2>5, <3>0
        <4> QED
          BY <2>5, <3>1, <4>1, <4>2
      <3>2. CASE j = Len(st.out) + 1
        <4>1. n \in Unlocked(fields, E)
          BY <2>7
        <4>2. From(fields, n) \in E
          BY <2>5, <3>2, <4>1 DEF Unlocked
        <4>3. PICK l \in 1 .. Len(st.out) : st.out[l] = From(fields, n)
          BY <4>2 DEF Elems
        <4>4. l \in 1 .. Len(out) /\ l < j
          BY <2>5, <3>0, <3>2
        <4> QED
          BY <2>5, <3>2, <4>3, <4>4
      <3> QED
        BY <2>5, <3>0, <3>1, <3>2
    <2>11. Len(out) = i + 1 /\ Len(out) <= i + 1
      BY <1>2, <2>5 DEF SortOK
    <2> QED
      BY <2>5, <2>6, <2>8, <2>9, <2>10, <2>11, Zenon DEF SortOK, next
  <1> QED
    BY <1>1, <1>2

Start(fields) ==
  [out |-> <<>>, ready |-> Ascending({n \in DOMAIN fields : Primary(fields[n]).k # "field"})]

LEMMA StartOK ==
  ASSUME NEW fields, DOMAIN fields \subseteq Nat, IsFiniteSet(DOMAIN fields)
  PROVE  SortOK(fields, Start(fields), 0)
  <1> DEFINE D == DOMAIN fields
             roots == {n \in D : Primary(fields[n]).k # "field"}
             a == Ascending(roots)
  <1>1. Start(fields).out = <<>> /\ Start(fields).ready = a
    BY DEF Start
  <1>2. roots \subseteq D /\ IsFiniteSet(roots)
    BY FS_Subset
  <1>3. a \in Seq(roots) /\ Distinct(a) /\ Elems(a) = roots
    BY <1>2, AscendingLists
  <1>4. a \in Seq(D)
    BY <1>2, <1>3, SeqDef
  <1>5. Unlocked(fields, {}) = roots
    BY DEF Unlocked, Waits
  <1>6. <<>> \in Seq(D) /\ Len(<<>>) = 0 /\ Distinct(<<>>) /\ Elems(<<>>) = {} /\ OutOrdered(fields, <<>>)
    BY DEF Distinct, Elems, OutOrdered
  <1>7. Len(<<>>) <= 0
    BY <1>6
  <1> HIDE DEF a, roots
  <1>8. {} \cap Elems(a) = {} /\ {} \cup Elems(a) = Unlocked(fields, {})
    BY <1>3, <1>5
  <1> QED
    BY <1>1, <1>3, <1>4, <1>6, <1>7, <1>8, Zenon DEF SortOK

(* The loop of topo_sort ends in a state that satisfies its invariant.      *)
LEMMA TopoSorted ==
  ASSUME NEW fields, DOMAIN fields \subseteq Nat, IsFiniteSet(DOMAIN fields)
  PROVE  \E st : TopoSort(fields) = st.out /\ SortOK(fields, st, Cardinality(DOMAIN fields))
  <1> DEFINE N == Cardinality(DOMAIN fields)
             start == Start(fields)
             turn == CHOOSE f : f = [i \in 0 .. N |-> IF i = 0 THEN start ELSE PopReady(fields, f[i - 1])]
             T == {n \in Nat : \E f : f = [i \in 0 .. n |-> IF i = 0 THEN start ELSE PopReady(fields, f[i - 1])]}
             S == {i \in Nat : i \in 0 .. N => SortOK(fields, turn[i], i)}
  <1>1. TopoSort(fields) = turn[N].out
    BY DEF TopoSort, Start
  <1>2. N \in Nat
    BY FS_CardinalityType
  <1>s. SortOK(fields, start, 0)
    BY StartOK
  <1> HIDE DEF start, N
  <1>3. 0 \in T
    <2> DEFINE f == [i \in 0 .. 0 |-> start]
    <2>1. f = [i \in 0 .. 0 |-> IF i = 0 THEN start ELSE PopReady(fields, f[i - 1])]
      OBVIOUS
    <2> HIDE DEF f
    <2> QED
      BY <2>1
  <1>4. ASSUME NEW n \in Nat, n \in T
        PROVE  n + 1 \in T
    <2>1. PICK f : f = [i \in 0 .. n |-> IF i = 0 THEN start ELSE PopReady(fields, f[i - 1])]
      BY <1>4
    <2> DEFINE g == [i \in 0 .. n + 1 |-> IF i = n + 1 THEN PopReady(fields, f[n]) ELSE f[i]]
    <2>2. ASSUME NEW i \in 0 .. n + 1
          PROVE  g[i] = IF i = 0 THEN start ELSE PopReady(fields, g[i - 1])
      <3>1. CASE i = n + 1
        <4>1. i # 0 /\ i - 1 = n /\ n \in 0 .. n + 1 /\ n # n + 1
          BY <3>1
        <4>2. g[n] = f[n] /\ g[i] = PopReady(fields, f[n])
          BY <3>1, <4>1
        <4> QED
          BY <4>1, <4>2, Zenon
      <3>2. CASE i # n + 1
        <4>1. i \in 0 .. n
          BY <3>2
        <4>2. f[i] = IF i = 0 THEN start ELSE PopReady(fields, f[i - 1])
          BY <2>1, <4>1, Zenon
        <4>3. g[i] = f[i] /\ (i # 0 => g[i - 1] = f[i - 1])
          BY <3>2, <4>1
        <4> QED
          BY <4>2, <4>3, Zenon
      <3> QED
        BY <3>1, <3>2
    <2>3. DOMAIN g = 0 .. n + 1
      OBVIOUS
    <2>4. g = [i \in 0 .. n + 1 |-> g[i]]
      OBVIOUS
    <2> HIDE DEF g
    <2>5. g = [i \in 0 .. n + 1 |-> IF i = 0 THEN start ELSE PopReady(fields, g[i - 1])]
      BY <2>2, <2>4, Zenon
    <2> QED
      BY <2>5
  <1> HIDE DEF T
  <1>5. N \in T
    BY <1>2, <1>3, <1>4, Induction
  <1>6. turn = [i \in 0 .. N |-> IF i = 0 THEN start ELSE PopReady(fields, turn[i - 1])]
    BY <1>5 DEF T
  <1> HIDE DEF turn
  <1>7. 0 \in S
    <2>1. 0 \in 0 .. N
      BY <1>2
    <2>2. turn[0] = IF 0 = 0 THEN start ELSE PopReady(fields, turn[0 - 1])
      BY <1>6, <2>1, Zenon
    <2>3. SortOK(fields, turn[0], 0)
      BY <1>s, <2>2, Zenon
    <2> QED
      BY <2>3
  <1>8. ASSUME NEW i \in Nat, i \in S
        PROVE  i + 1 \in S
    <2> SUFFICES ASSUME i + 1 \in 0 .. N PROVE SortOK(fields, turn[i + 1], i + 1)
      OBVIOUS
    <2>1. PICK j : j = i + 1
      OBVIOUS
    <2>2. j \in 0 .. N /\ j # 0 /\ j - 1 = i /\ i \in 0 .. N
      BY <1>2, <2>1
    <2>3. turn[j] = IF j = 0 THEN start ELSE PopReady(fields, turn[j - 1])
      BY <1>6, <2>2, Zenon
    <2>4. turn[j] = PopReady(fields, turn[i])
      BY <2>2, <2>3, Zenon
    <2>5. SortOK(fields, turn[i], i)
      BY <1>8, <2>2
    <2>6. SortOK(fields, PopReady(fields, turn[i]), i + 1)
      BY <2>5, PopKeeps
    <2> QED
      BY <2>1, <2>4, <2>6, Zenon
  <1> HIDE DEF S
  <1>9. N \in S
    BY <1>2, <1>7, <1>8, Induction
  <1>10. SortOK(fields, turn[N], N)
    BY <1>2, <1>9 DEF S
  <1> QED
    BY <1>1, <1>10 DEF N

FieldsOK(fields) ==
  /\ DOMAIN fields \subseteq Nat /\ IsFiniteSet(DOMAIN fields)
  /\ \A n \in DOMAIN fields : 1 \in DOMAIN fields[n].chain

LEMMA WellFormedFields ==
  ASSUME NEW fields, WellFormed(fields)
  PROVE  FieldsOK(fields)
  <1> SUFFICES ASSUME NEW n \in DOMAIN fields PROVE 1 \in DOMAIN fields[n].chain
    BY DEF FieldsOK, WellFormed
  <1>1. fields[n].chain \in Seq(Range(fields[n].chain)) /\ fields[n].chain # <<>>
    BY DEF WellFormed
  <1> QED
    BY <1>1, EmptySeq, LenProperties

LEMMA RefsExist ==
  ASSUME NEW fields, FieldsOK(fields), CheckFieldRefs(fields),
         NEW n \in DOMAIN fields, Waits(fields, n)
  PROVE  From(fields, n) \in DOMAIN fields
  <1> DEFINE src == fields[n].chain[1]
  <1>1. src \in Range(fields[n].chain)
    BY DEF FieldsOK, Range
  <1>2. src \in SourcesOf(fields)
    BY <1>1 DEF SourcesOf
  <1>3. src.k = "field" /\ src.from = From(fields, n)
    BY DEF Waits, From, Primary
  <1> HIDE DEF src
  <1> QED
    BY <1>2, <1>3 DEF CheckFieldRefs

(* Every field put out, each after the one it waits for, is a ranking.      *)
LEMMA SortedRanks ==
  ASSUME NEW fields, FieldsOK(fields), CheckFieldRefs(fields), EverySorted(fields)
  PROVE  Acyclic(fields)
  <1> DEFINE D == DOMAIN fields
             N == Cardinality(D)
             out == TopoSort(fields)
             rank == [n \in D |-> CHOOSE i \in 1 .. N : out[i] = n]
  <1>1. Len(out) = N /\ N \in Nat
    BY FS_CardinalityType DEF EverySorted, FieldsOK
  <1>2. out \in Seq(D) /\ Distinct(out) /\ OutOrdered(fields, out)
    BY TopoSorted DEF SortOK, FieldsOK
  <1> HIDE DEF out
  <1>3. out \in [1 .. N -> D] /\ \A i, j \in 1 .. N : out[i] = out[j] => i = j
    BY <1>1, <1>2, LenProperties DEF Distinct
  <1>4. \A n \in D : \E i \in 1 .. N : out[i] = n
    BY <1>3, ListsAll DEF FieldsOK
  <1>5. \A n \in D : rank[n] \in 1 .. N /\ out[rank[n]] = n
    BY <1>4
  <1>6. rank \in [D -> 1 .. N]
    BY <1>5
  <1> HIDE DEF rank
  <1>7. ASSUME NEW n \in D, Waits(fields, n)
        PROVE  rank[From(fields, n)] < rank[n]
    <2>1. PICK l \in 1 .. N : l < rank[n] /\ out[l] = From(fields, n)
      BY <1>1, <1>2, <1>5, <1>7 DEF OutOrdered
    <2>2. From(fields, n) \in D
      BY <1>7, RefsExist
    <2>3. rank[From(fields, n)] = l
      BY <1>3, <1>5, <2>1, <2>2
    <2> QED
      BY <2>1, <2>3
  <1> QED
    BY <1>6, <1>7 DEF Acyclic, Waits, From

(* With a ranking the loop cannot stop early: of the fields not put out the *)
(* one of least rank would be ready.                                        *)
LEMMA RankedSorts ==
  ASSUME NEW fields, FieldsOK(fields), CheckFieldRefs(fields), Acyclic(fields)
  PROVE  ~SelfReference(fields) /\ EverySorted(fields)
  <1> DEFINE D == DOMAIN fields
             N == Cardinality(D)
  <1>0. N \in Nat
    BY FS_CardinalityType DEF FieldsOK
  <1>1. PICK rank \in [D -> 1 .. N] :
          \A n \in D : Waits(fields, n) => rank[From(fields, n)] < rank[n]
    BY DEF Acyclic, Waits, From
  <1>2. ~SelfReference(fields)
    <2> SUFFICES ASSUME NEW n \in D, n \in Dependents(fields, n) PROVE FALSE
      BY DEF SelfReference
    <2>1. Waits(fields, n) /\ From(fields, n) = n
      BY DEF Dependents, Waits, From
    <2>2. rank[n] < rank[n] /\ rank[n] \in Nat
      BY <1>0, <1>1, <2>1
    <2> QED
      BY <2>2
  <1>3. PICK st : TopoSort(fields) = st.out /\ SortOK(fields, st, N)
    BY TopoSorted DEF FieldsOK
  <1> DEFINE out == st.out  E == Elems(out)
  <1>4. out \in Seq(D) /\ Distinct(out) /\ E \subseteq D
    <2>1. out \in Seq(D) /\ Distinct(out)
      BY <1>3 DEF SortOK
    <2> QED
      BY <2>1 DEF Elems
  <1>5. CASE Len(out) = N
    BY <1>2, <1>3, <1>5 DEF EverySorted
  <1>6. CASE Len(out) # N
    <2>1. st.ready = <<>>
      BY <1>3, <1>6 DEF SortOK
    <2>2. E = Unlocked(fields, E)
      <3>1. Elems(<<>>) = {}
        BY DEF Elems
      <3>2. E \cup Elems(st.ready) = Unlocked(fields, E)
        BY <1>3 DEF SortOK
      <3> QED
        BY <2>1, <3>1, <3>2
    <2>3. D \subseteq E
      <3> SUFFICES ASSUME D \ E # {} PROVE FALSE
        OBVIOUS
      <3> DEFINE R == {rank[n] : n \in D \ E}
      <3>1. R # {} /\ R \subseteq Nat
        BY <1>0, <1>1
      <3>2. PICK m \in R : \A k \in R : m <= k
        BY <3>1, Least
      <3>3. PICK n \in D \ E : m = rank[n]
        BY <3>2
      <3>4. Waits(fields, n) /\ From(fields, n) \notin E
        BY <2>2, <3>3 DEF Unlocked
      <3>5. From(fields, n) \in D \ E
        BY <3>3, <3>4, RefsExist
      <3>6. m <= rank[From(fields, n)] /\ rank[From(fields, n)] < m
        BY <1>1, <3>2, <3>3, <3>4, <3>5
      <3>7. m \in Nat /\ rank[From(fields, n)] \in Nat
        BY <1>0, <1>1, <3>3, <3>5
      <3> QED
        BY <3>6, <3>7
    <2>4. out \in [1 .. Len(out) -> D] /\ Len(out) \in Nat
      BY <1>4, LenProperties
    <2>5. out \in Bijection(1 .. Len(out), D)
      <3>1. out \in Injection(1 .. Len(out), D)
        BY <1>4, <2>4 DEF Injection, IsInjective, Distinct
      <3>2. out \in Surjection(1 .. Len(out), D)
        BY <2>3, <2>4 DEF Surjection, Elems
      <3> QED
        BY <3>1, <3>2 DEF Bijection
    <2>6. Cardinality(D) = Len(out)
      BY <2>4, <2>5, FS_CountingElements DEF ExistsBijection
    <2> QED
      BY <1>6, <2>6
  <1> QED
    BY <1>5, <1>6

LEMMA AcceptedIsSortable ==
  ASSUME NEW fields, FieldsOK(fields)
  PROVE  ParseAccepts(fields) <=> CheckFieldRefs(fields) /\ Acyclic(fields)
  BY SortedRanks, RankedSorts DEF ParseAccepts

---------------------------------------------------------------------------
(* The answer to the last offer was given on HEAD as it still is.           *)
OfferInv ==
  offer # <<>> =>
    /\ FieldsOK(offer[1].fields)
    /\ offer[2] = (ParseAccepts(offer[1].fields) /\ ValidateProbeRefs(offer[1].fields, CurrentProbes))

LEMMA OfferKept ==
  ASSUME OfferInv, [Next]_vars
  PROVE  OfferInv'
  <1>1. ASSUME NEW s \in Schemas, AddSchema(s)
        PROVE  OfferInv'
    <2> DEFINE ok == ParseAccepts(s.fields) /\ ValidateProbeRefs(s.fields, CurrentProbes)
    <2>1. offer' = <<s, ok>> /\ head' = head
      BY <1>1 DEF AddSchema
    <2>2. offer'[1] = s /\ offer'[2] = ok
      BY <2>1
    <2>3. FieldsOK(s.fields)
      BY SchemasAssumption, WellFormedFields DEF SchemasAssumption
    <2>4. CurrentProbes' = CurrentProbes
      BY <2>1 DEF CurrentProbes
    <2> QED
      BY <2>2, <2>3, <2>4 DEF OfferInv
  <1>2. ASSUME offer' = <<>>
        PROVE  OfferInv'
    BY <1>2 DEF OfferInv
  <1>3. CASE UNCHANGED vars
    BY <1>3 DEF OfferInv, vars, CurrentProbes
  <1> QED
    BY <1>1, <1>2, <1>3 DEF Next, AddFile, AddProbe, AddConfig, Commit

(* add takes a schema exactly when every field it names exists, every probe *)
(* is there, and no field waits for itself however far around: Schema::parse *)
(* sorts with Kahn's algorithm, one dependency per field, and compares the  *)
(* lengths, for schemas of any number of fields.                            *)
THEOREM SchemasAccepted == Spec => []SchemaAccepted
  <1>1. Init => OfferInv
    BY DEF Init, OfferInv
  <1>2. OfferInv => SchemaAccepted
    <2> SUFFICES ASSUME OfferInv, offer # <<>>
                 PROVE  offer[2] <=> /\ CheckFieldRefs(offer[1].fields)
                                     /\ \A src \in SourcesOf(offer[1].fields) :
                                           src.k = "probe" => src.probe \in DOMAIN CurrentProbes
                                     /\ Acyclic(offer[1].fields)
      BY DEF SchemaAccepted
    <2>1. ParseAccepts(offer[1].fields) <=> CheckFieldRefs(offer[1].fields) /\ Acyclic(offer[1].fields)
      BY AcceptedIsSortable DEF OfferInv
    <2> QED
      BY <2>1 DEF OfferInv, ValidateProbeRefs
  <1> QED
    BY <1>1, <1>2, OfferKept, PTL DEF Spec
---------------------------------------------------------------------------
(* The engine.  A source changes neither the resolved fields nor, unless    *)
(* it is a probe that fired, what is recorded.                              *)

IngFields == {"ok", "val", "resolved", "fired", "cache"}

TooLarge(in, probes, p) == SizeOf[in.content] > EffectiveCap(probes[p])

(* What is recorded is a probe that could run, with its hash.               *)
FiredOK(in, probes, fired) ==
  /\ in.chunked => fired = <<>>
  /\ \A p \in DOMAIN fired : ~in.chunked /\ ~TooLarge(in, probes, p) /\ fired[p] = probes[p].wasm

(* What is in the cache for a path is what the probes gave, but for the     *)
(* type of a whole number.                                                  *)
Near(v, out) == v = out \/ v = NormalizeValue(out, "float")

CacheTrue(path, cache) ==
  \A key \in DOMAIN cache : key[3] = path => Near(cache[key], RunProbe(key[2], key[1][1], key[3]))

CacheExact(path, cache) ==
  \A key \in DOMAIN cache : key[3] = path =>
    cache[key] # Failed /\ cache[key] = RunProbe(key[2], key[1][1], key[3])

CacheKept(old, new) ==
  \A path : /\ CacheTrue(path, old) => CacheTrue(path, new)
            /\ CacheExact(path, old) => CacheExact(path, new)

Frame(in, probes, old, new) ==
  /\ DOMAIN new = IngFields
  /\ new.resolved = old.resolved
  /\ DOMAIN old.fired \subseteq DOMAIN new.fired
  /\ FiredOK(in, probes, new.fired)
  /\ CacheKept(old.cache, new.cache)

Sound(in, probes, ing) == DOMAIN ing = IngFields /\ FiredOK(in, probes, ing.fired)

LEMMA FrameSame ==
  ASSUME NEW in, NEW probes, NEW ing, Sound(in, probes, ing)
  PROVE  Frame(in, probes, ing, ing)
  BY DEF CacheKept, Frame, Sound

LEMMA FrameSound ==
  ASSUME NEW in, NEW probes, NEW a, NEW b, Frame(in, probes, a, b)
  PROVE  Sound(in, probes, b)
  BY DEF Frame, Sound

LEMMA FrameTrans ==
  ASSUME NEW in, NEW probes, NEW a, NEW b, NEW c, Frame(in, probes, a, b), Frame(in, probes, b, c)
  PROVE  Frame(in, probes, a, c)
  BY DEF CacheKept, Frame

LEMMA FrameFail ==
  ASSUME NEW in, NEW probes, NEW a, NEW b, Frame(in, probes, a, b)
  PROVE  Frame(in, probes, a, Fail(b)) /\ Fail(b).ok = FALSE
  BY DEF Frame, Fail, IngFields

LEMMA FrameValue ==
  ASSUME NEW in, NEW probes, NEW ing, Sound(in, probes, ing), NEW v
  PROVE  /\ Frame(in, probes, ing, [ing EXCEPT !.val = v])
         /\ [ing EXCEPT !.val = v].val = v
         /\ [ing EXCEPT !.val = v].ok = ing.ok
  BY DEF CacheKept, Frame, Sound, IngFields

(* What a probe gives for an input, whatever is known so far.               *)
Given(in, probes, src) ==
  IF in.chunked THEN StreamingBuiltin(src.probe, in.content)
  ELSE IF TooLarge(in, probes, src.probe) THEN Null
  ELSE RunProbe(probes[src.probe].wasm, in.content, EffectivePath(src, in))

LEMMA RecordFrame ==
  ASSUME NEW in, NEW probes, NEW ing, Sound(in, probes, ing), NEW p,
         ~in.chunked, ~TooLarge(in, probes, p)
  PROVE  /\ Frame(in, probes, ing, RecordFired(ing, p, probes[p]))
         /\ p \in DOMAIN RecordFired(ing, p, probes[p]).fired
         /\ RecordFired(ing, p, probes[p]).ok = ing.ok
         /\ RecordFired(ing, p, probes[p]).cache = ing.cache
  <1> DEFINE r == RecordFired(ing, p, probes[p])
             f == Put(ing.fired, p, probes[p].wasm)
  <1>1. /\ DOMAIN r = IngFields /\ r.fired = f
        /\ r.resolved = ing.resolved /\ r.cache = ing.cache /\ r.ok = ing.ok
    BY DEF RecordFired, Sound, IngFields
  <1>2. DOMAIN f = {p} \cup DOMAIN ing.fired
    BY DEF Put
  <1>3. ASSUME NEW q \in DOMAIN f
        PROVE  ~in.chunked /\ ~TooLarge(in, probes, q) /\ f[q] = probes[q].wasm
    <2>1. CASE q = p
      <3>1. f[q] = probes[p].wasm
        BY <2>1 DEF Put
      <3> QED
        BY <2>1, <3>1
    <2>2. CASE q # p
      <3>1. q \in DOMAIN ing.fired /\ f[q] = ing.fired[q]
        BY <1>2, <2>2 DEF Put
      <3> QED
        BY <3>1 DEF Sound, FiredOK
    <2> QED
      BY <2>1, <2>2
  <1> HIDE DEF r, f
  <1>4. FiredOK(in, probes, f)
    BY <1>3 DEF FiredOK
  <1>5. Frame(in, probes, ing, r)
    BY <1>1, <1>2, <1>4 DEF Frame, CacheKept
  <1> QED
    BY <1>1, <1>2, <1>5 DEF r

LEMMA CacheGrows ==
  ASSUME NEW cache, NEW in, NEW wasm, NEW path, RunProbe(wasm, in.content, path) # Failed
  PROVE  CacheKept(cache, Put(cache, CacheKey(SourceHash(in), wasm, path), RunProbe(wasm, in.content, path)))
  <1> DEFINE key == CacheKey(SourceHash(in), wasm, path)
             out == RunProbe(wasm, in.content, path)
             c   == Put(cache, key, out)
             ran(k) == RunProbe(k[2], k[1][1], k[3])
  <1>1. key[1][1] = in.content /\ key[2] = wasm /\ key[3] = path
    BY DEF CacheKey, SourceHash
  <1>2. ran(key) = out
    BY <1>1
  <1> HIDE DEF key
  <1>3. /\ DOMAIN c = DOMAIN cache \cup {key}
        /\ c[key] = ran(key) /\ c[key] # Failed
        /\ \A k \in DOMAIN cache : k # key => c[k] = cache[k]
    BY <1>2 DEF Put
  <1> HIDE DEF c
  <1>4. ASSUME NEW at, CacheTrue(at, cache) PROVE CacheTrue(at, c)
    BY <1>3, <1>4 DEF CacheTrue, Near
  <1>5. ASSUME NEW at, CacheExact(at, cache) PROVE CacheExact(at, c)
    BY <1>3, <1>5 DEF CacheExact
  <1> QED
    BY <1>4, <1>5 DEF CacheKept, c, key

LEMMA ProbeFrame ==
  ASSUME NEW in, NEW probes, NEW ing, Sound(in, probes, ing), NEW src
  PROVE  LET r == ResolveProbe(src, in, probes, ing)
         IN  /\ Frame(in, probes, ing, r)
             /\ r.ok /\ CacheTrue(EffectivePath(src, in), ing.cache) => Near(r.val, Given(in, probes, src))
             /\ r.ok /\ ~in.chunked /\ ~TooLarge(in, probes, src.probe) => src.probe \in DOMAIN r.fired
  <1> DEFINE p    == src.probe
             blob == probes[p]
             path == EffectivePath(src, in)
             key  == CacheKey(SourceHash(in), blob.wasm, path)
             out  == RunProbe(blob.wasm, in.content, path)
             rec  == RecordFired(ing, p, blob)
             r    == ResolveProbe(src, in, probes, ing)
  <1>0. Frame(in, probes, ing, ing)
    BY FrameSame
  <1>1. CASE p \notin DOMAIN probes
    <2>1. r = Fail(ing)
      BY <1>1 DEF ResolveProbe
    <2> HIDE DEF r
    <2> QED
      BY <1>0, <2>1, FrameFail DEF r
  <1>2. CASE p \in DOMAIN probes /\ in.chunked
    <2>1. r = [ing EXCEPT !.val = StreamingBuiltin(p, in.content)]
      BY <1>2 DEF ResolveProbe
    <2> QED
      BY <1>2, <2>1, FrameValue DEF Given, Near
  <1>3. CASE p \in DOMAIN probes /\ ~in.chunked /\ TooLarge(in, probes, p)
    <2>1. r = [ing EXCEPT !.val = Null]
      BY <1>3 DEF ResolveProbe, TooLarge
    <2> QED
      BY <1>3, <2>1, FrameValue DEF Given, Near
  <1>4. CASE p \in DOMAIN probes /\ ~in.chunked /\ ~TooLarge(in, probes, p)
    <2>1. /\ Frame(in, probes, ing, rec) /\ p \in DOMAIN rec.fired
          /\ rec.ok = ing.ok /\ rec.cache = ing.cache
      BY <1>4, RecordFrame
    <2>2. Sound(in, probes, rec)
      BY <2>1, FrameSound
    <2>3. CASE key \in DOMAIN ing.cache
      <3>1. r = [rec EXCEPT !.val = ing.cache[key]]
        BY <1>4, <2>3 DEF ResolveProbe, TooLarge, CacheHit
      <3>2. Frame(in, probes, rec, r) /\ r.val = ing.cache[key]
        BY <2>2, <3>1, FrameValue
      <3>3. CacheTrue(path, ing.cache) => Near(ing.cache[key], out)
        <4>1. key[1][1] = in.content /\ key[2] = blob.wasm /\ key[3] = path
          BY DEF CacheKey, SourceHash
        <4> HIDE DEF key
        <4> QED
          BY <2>3, <4>1 DEF CacheTrue
      <3> HIDE DEF r, rec
      <3>4. Frame(in, probes, ing, r)
        BY <2>1, <3>2, FrameTrans
      <3>5. p \in DOMAIN r.fired
        BY <2>1, <3>2 DEF Frame
      <3>6. Given(in, probes, src) = out
        BY <1>4 DEF Given
      <3> QED
        BY <3>2, <3>3, <3>4, <3>5, <3>6 DEF r
    <2>4. CASE key \notin DOMAIN ing.cache /\ out = Failed
      <3>1. r = Fail(ing)
        BY <1>4, <2>4 DEF ResolveProbe, TooLarge
      <3> HIDE DEF r
      <3> QED
        BY <1>0, <3>1, FrameFail DEF r
    <2>5. CASE key \notin DOMAIN ing.cache /\ out # Failed
      <3> DEFINE c == Put(rec.cache, key, out)
      <3>1. r = [rec EXCEPT !.val = out, !.cache = Put(@, key, out)]
        BY <1>4, <2>5 DEF ResolveProbe, TooLarge
      <3>2. CacheKept(rec.cache, c)
        BY <2>5, CacheGrows
      <3> HIDE DEF rec, c
      <3>3. r.val = out /\ r.fired = rec.fired /\ r.resolved = rec.resolved /\ DOMAIN r = IngFields /\ r.cache = c
        BY <2>2, <3>1 DEF Sound, IngFields, c
      <3> HIDE DEF r
      <3>4. Frame(in, probes, rec, r)
        BY <2>2, <3>2, <3>3 DEF Frame, Sound
      <3>5. Frame(in, probes, ing, r)
        BY <2>1, <3>4, FrameTrans
      <3>6. Given(in, probes, src) = out
        BY <1>4 DEF Given
      <3> QED
        BY <2>1, <3>3, <3>5, <3>6 DEF r, Near
    <2> QED
      BY <2>3, <2>4, <2>5
  <1> QED
    BY <1>1, <1>2, <1>3, <1>4

LEMMA SourceFrame ==
  ASSUME NEW in, NEW probes, NEW ing, Sound(in, probes, ing), NEW name, NEW k,
         NEW src, src.k \in {"constant", "probe", "user", "field"}
  PROVE  Frame(in, probes, ing, ResolveSource(name, k, src, in, probes, ing))
  <1>1. CASE src.k = "probe"
    <2>1. ResolveSource(name, k, src, in, probes, ing) = ResolveProbe(src, in, probes, ing)
      BY <1>1 DEF ResolveSource
    <2> QED
      BY <2>1, ProbeFrame
  <1>2. CASE src.k # "probe"
    <2>1. \E v : ResolveSource(name, k, src, in, probes, ing) = [ing EXCEPT !.val = v]
      BY <1>2 DEF ResolveSource
    <2> QED
      BY <2>1, FrameValue
  <1> QED
    BY <1>1, <1>2

LEMMA TryFrame ==
  ASSUME NEW in, NEW probes, NEW ing, Sound(in, probes, ing), NEW name, NEW k, NEW field,
         field.chain[k].k \in {"constant", "probe", "user", "field"}
  PROVE  Frame(in, probes, ing, TrySource(name, k, field, in, probes, ing))
  BY SourceFrame, FrameSame DEF TrySource

ChainOK(field) ==
  /\ field.type # Failed.t
  /\ Len(field.chain) \in Nat \ {0}
  /\ \A k \in 1 .. Len(field.chain) : field.chain[k].k \in {"constant", "probe", "user", "field"}

LEMMA ChainsOK ==
  ASSUME NEW fields, WellFormed(fields), NEW n \in DOMAIN fields
  PROVE  ChainOK(fields[n])
  <1> DEFINE chain == fields[n].chain
             S == Range(chain)
  <1>1. chain \in Seq(S) /\ chain # <<>> /\ \A src \in S : src.k \in {"constant", "probe", "user", "field"}
    BY DEF WellFormed
  <1>2. \A k \in DOMAIN chain : chain[k] \in S
    BY DEF Range
  <1> HIDE DEF chain, S
  <1>3. Len(chain) \in Nat \ {0} /\ DOMAIN chain = 1 .. Len(chain)
    BY <1>1, EmptySeq, LenProperties
  <1> QED
    BY <1>1, <1>2, <1>3 DEF ChainOK, chain, WellFormed

(* What has been tried of a field, source by source, and after the last.    *)
Tried(in, probes, name, field, ing, tried) ==
  /\ ResolveField(name, field, in, probes, ing) = tried[Len(field.chain)]
  /\ tried[0] = ing
  /\ \A k \in 1 .. Len(field.chain) :
        tried[k] = TrySource(name, k, field, in, probes, tried[k - 1])

LEMMA FieldTried ==
  ASSUME NEW in, NEW probes, NEW name, NEW field, NEW ing, Len(field.chain) \in Nat
  PROVE  \E tried : Tried(in, probes, name, field, ing, tried)
  <1> DEFINE N == Len(field.chain)
             Body(f, k) == IF k = 0 THEN ing ELSE TrySource(name, k, field, in, probes, f[k - 1])
             tried == CHOOSE f : f = [k \in 0 .. N |-> Body(f, k)]
             T == {n \in Nat : \E f : f = [k \in 0 .. n |-> Body(f, k)]}
  <1>1. ResolveField(name, field, in, probes, ing) = tried[N]
    BY DEF ResolveField
  <1> HIDE DEF N
  <1>2. 0 \in T
    <2> DEFINE f == [k \in 0 .. 0 |-> ing]
    <2>1. f = [k \in 0 .. 0 |-> Body(f, k)]
      OBVIOUS
    <2> HIDE DEF f
    <2> QED
      BY <2>1
  <1>3. ASSUME NEW n \in Nat, n \in T
        PROVE  n + 1 \in T
    <2>1. PICK f : f = [k \in 0 .. n |-> Body(f, k)]
      BY <1>3
    <2> DEFINE g == [k \in 0 .. n + 1 |-> IF k = n + 1 THEN TrySource(name, k, field, in, probes, f[n]) ELSE f[k]]
    <2>2. ASSUME NEW k \in 0 .. n + 1
          PROVE  g[k] = Body(g, k)
      <3>1. CASE k = n + 1
        <4>1. k # 0 /\ k - 1 = n /\ n \in 0 .. n + 1 /\ n # n + 1
          BY <3>1
        <4>2. g[n] = f[n] /\ g[k] = TrySource(name, k, field, in, probes, f[n])
          BY <3>1, <4>1
        <4> QED
          BY <4>1, <4>2, Zenon
      <3>2. CASE k # n + 1
        <4>1. k \in 0 .. n
          BY <3>2
        <4>2. f[k] = Body(f, k)
          BY <2>1, <4>1, Zenon
        <4>3. g[k] = f[k] /\ (k # 0 => g[k - 1] = f[k - 1])
          BY <3>2, <4>1
        <4> QED
          BY <4>2, <4>3, Zenon
      <3> QED
        BY <3>1, <3>2
    <2>3. g = [k \in 0 .. n + 1 |-> g[k]]
      OBVIOUS
    <2> HIDE DEF g
    <2>4. g = [k \in 0 .. n + 1 |-> Body(g, k)]
      BY <2>2, <2>3, Zenon
    <2> QED
      BY <2>4
  <1> HIDE DEF T
  <1>4. N \in Nat /\ N \in T
    BY <1>2, <1>3, Induction DEF N
  <1>5. tried = [k \in 0 .. N |-> Body(tried, k)]
    BY <1>4 DEF T
  <1> HIDE DEF tried
  <1>6. \A k \in 0 .. N : tried[k] = Body(tried, k)
    BY <1>5, Zenon
  <1>7. tried[0] = ing
    <2>1. 0 \in 0 .. N
      BY <1>4
    <2> QED
      BY <1>6, <2>1, Zenon
  <1>8. \A k \in 1 .. N : tried[k] = TrySource(name, k, field, in, probes, tried[k - 1])
    <2>1. \A k \in 1 .. N : k \in 0 .. N /\ k # 0
      BY <1>4
    <2> QED
      BY <1>6, <2>1, Zenon
  <1> QED
    BY <1>1, <1>7, <1>8, Zenon DEF N, Tried

LEMMA FieldFrame ==
  ASSUME NEW in, NEW probes, NEW ing, Sound(in, probes, ing), NEW name, NEW field, ChainOK(field)
  PROVE  Frame(in, probes, ing, ResolveField(name, field, in, probes, ing))
  <1> DEFINE N == Len(field.chain)
  <1>1. N \in Nat
    BY DEF ChainOK
  <1>a. PICK tried : Tried(in, probes, name, field, ing, tried)
    BY <1>1, FieldTried, Zenon
  <1>2. /\ ResolveField(name, field, in, probes, ing) = tried[N]
        /\ tried[0] = ing
        /\ \A k \in 1 .. N : tried[k] = TrySource(name, k, field, in, probes, tried[k - 1])
    BY <1>a, Zenon DEF Tried
  <1> DEFINE S == {k \in Nat : k <= N => Frame(in, probes, ing, tried[k])}
  <1>3. 0 \in S
    BY <1>2, FrameSame
  <1>4. ASSUME NEW k \in Nat, k \in S
        PROVE  k + 1 \in S
    <2> SUFFICES ASSUME k + 1 <= N PROVE Frame(in, probes, ing, tried[k + 1])
      OBVIOUS
    <2>1. PICK j : j = k + 1
      OBVIOUS
    <2>2. j \in 1 .. N /\ j - 1 = k /\ k <= N
      BY <1>1, <2>1
    <2>3. tried[j] = TrySource(name, j, field, in, probes, tried[k])
      BY <1>2, <2>2
    <2>4. Frame(in, probes, ing, tried[k])
      BY <1>4, <2>2
    <2>5. Frame(in, probes, tried[k], tried[j])
      BY <2>2, <2>3, <2>4, FrameSound, TryFrame DEF ChainOK
    <2> QED
      BY <2>1, <2>4, <2>5, FrameTrans
  <1> HIDE DEF S
  <1>5. N \in S
    BY <1>1, <1>3, <1>4, Induction
  <1> QED
    BY <1>1, <1>2, <1>5 DEF S

(* A field with one source has the value of that source.                    *)
LEMMA SingleSource ==
  ASSUME NEW in, NEW probes, NEW ing, NEW name, NEW field, Len(field.chain) = 1, ing.ok
  PROVE  ResolveField(name, field, in, probes, ing)
           = ResolveSource(name, 1, Primary(field), in, probes, ing)
  <1>0. Len(field.chain) \in Nat /\ 1 \in 1 .. Len(field.chain) /\ 1 - 1 = 0
    OBVIOUS
  <1>1. PICK tried : Tried(in, probes, name, field, ing, tried)
    BY <1>0, FieldTried, Zenon
  <1>2. /\ ResolveField(name, field, in, probes, ing) = tried[1]
        /\ tried[1] = TrySource(name, 1, field, in, probes, ing)
    BY <1>0, <1>1, Zenon DEF Tried
  <1> QED
    BY <1>1, <1>2 DEF TrySource, Primary

(* What the loop over the fields does at one of them.                       *)
FieldStep(in, probes, n, field, old, new) ==
  /\ Sound(in, probes, new)
  /\ CacheKept(old.cache, new.cache)
  /\ new.ok =>
       /\ old.ok
       /\ DOMAIN old.fired \subseteq DOMAIN new.fired
       /\ DOMAIN new.resolved = DOMAIN old.resolved \cup {n}
       /\ \A m \in DOMAIN old.resolved \ {n} : new.resolved[m] = old.resolved[m]
       /\ new.resolved[n] # Failed

DerivedFrom(field, resolved, v) ==
  v = NormalizeValue(Transform(Primary(field).tr, resolved[Primary(field).from]), field.type)

ProbedFor(in, probes, field, fired, v) ==
  LET src == Primary(field) IN
  /\ v = NormalizeValue(Given(in, probes, src), field.type)
  /\ ~in.chunked /\ ~TooLarge(in, probes, src.probe) => src.probe \in DOMAIN fired

(* A whole number that was rounded is accepted by a float field only.       *)
LEMMA NearAccepted ==
  ASSUME NEW v, NEW out, NEW type, Near(v, out), Accepts(type, v)
  PROVE  NormalizeValue(v, type) = NormalizeValue(out, type)
  <1>1. CASE v = out
    BY <1>1
  <1>2. CASE v # out
    <2>1. out.t = "int" /\ v = Value("float", out.n)
      BY <1>2 DEF Near, NormalizeValue
    <2>2. v.t = "float" /\ Null.t = "null"
      BY <2>1 DEF Value, Null
    <2>3. type = "float"
      BY <2>2 DEF Accepts
    <2> QED
      BY <2>1, <2>2, <2>3 DEF NormalizeValue
  <1> QED
    BY <1>1, <1>2

LEMMA AcceptedIsValue ==
  ASSUME NEW v, NEW type, type # Failed.t, Accepts(type, v)
  PROVE  NormalizeValue(v, type) # Failed
  <1>1. /\ Null.t = "null" /\ Failed.t = "failed" /\ Null # Failed
        /\ \A n : Value("float", n).t = "float"
    BY DEF Null, Failed, Value
  <1>2. CASE v = Null
    BY <1>1, <1>2 DEF NormalizeValue
  <1>3. CASE v # Null
    <2>1. v.t # Failed.t
      BY <1>1, <1>3 DEF Accepts
    <2>2. NormalizeValue(v, type).t # Failed.t
      BY <1>1, <2>1 DEF NormalizeValue
    <2> QED
      BY <2>2
  <1> QED
    BY <1>2, <1>3

LEMMA IngestFieldStep ==
  ASSUME NEW in, NEW probes, NEW ing, Sound(in, probes, ing), NEW n, NEW field, ChainOK(field)
  PROVE  LET new == IngestField(n, field, in, probes, ing)
         IN  /\ FieldStep(in, probes, n, field, ing, new)
             /\ new.ok /\ Len(field.chain) = 1 =>
                  /\ Primary(field).k = "field" /\ Primary(field).from \in DOMAIN ing.resolved =>
                       DerivedFrom(field, ing.resolved, new.resolved[n])
                  /\ Primary(field).k = "probe" /\ CacheTrue(EffectivePath(Primary(field), in), ing.cache) =>
                       ProbedFor(in, probes, field, new.fired, new.resolved[n])
  <1> DEFINE r   == ResolveField(n, field, in, probes, ing)
             bad == ~r.ok \/ (field.required /\ r.val = Null) \/ ~Accepts(field.type, r.val)
             new == IngestField(n, field, in, probes, ing)
             v   == NormalizeValue(r.val, field.type)
             src == Primary(field)
  <1>1. Frame(in, probes, ing, r)
    BY FieldFrame
  <1>2. CASE ~ing.ok
    <2>1. new = ing
      BY <1>2 DEF IngestField, KeepField
    <2> HIDE DEF new
    <2>2. ~new.ok
      BY <1>2, <2>1
    <2> QED
      BY <2>1, <2>2 DEF FieldStep, CacheKept, new
  <1>3. CASE ing.ok /\ bad
    <2>1. new = Fail(r)
      BY <1>3 DEF IngestField, KeepField
    <2>2. Frame(in, probes, ing, Fail(r)) /\ Fail(r).ok = FALSE
      BY <1>1, FrameFail
    <2> HIDE DEF new, r
    <2>3. ~new.ok /\ Frame(in, probes, ing, new)
      BY <2>1, <2>2
    <2> QED
      BY <2>3, FrameSound DEF FieldStep, Frame, new
  <1>4. CASE ing.ok /\ ~bad
    <2>1. new = [r EXCEPT !.resolved = Put(@, n, v)]
      BY <1>4 DEF IngestField, KeepField
    <2>r. r.ok
      BY <1>4
    <2> HIDE DEF r, v
    <2>2. /\ DOMAIN new = IngFields /\ new.fired = r.fired /\ new.cache = r.cache
          /\ new.resolved = Put(ing.resolved, n, v)
      BY <1>1, <2>1 DEF Frame, IngFields
    <2> HIDE DEF new
    <2>3. /\ DOMAIN new.resolved = DOMAIN ing.resolved \cup {n}
          /\ new.resolved[n] = v
          /\ \A m \in DOMAIN ing.resolved \ {n} : new.resolved[m] = ing.resolved[m]
      BY <2>2 DEF Put
    <2>v. v # Failed
      BY <1>4, AcceptedIsValue DEF ChainOK, v
    <2>4. FieldStep(in, probes, n, field, ing, new)
      BY <1>1, <1>4, <2>2, <2>3, <2>v DEF FieldStep, Frame, Sound
    <2>5. ASSUME Len(field.chain) = 1, src.k = "field", src.from \in DOMAIN ing.resolved
          PROVE  DerivedFrom(field, ing.resolved, new.resolved[n])
      <3>1. r = ResolveSource(n, 1, src, in, probes, ing)
        BY <1>4, <2>5, SingleSource DEF r
      <3>2. r = [ing EXCEPT !.val = Transform(src.tr, ing.resolved[src.from])]
        BY <2>5, <3>1 DEF ResolveSource
      <3>3. r.val = Transform(src.tr, ing.resolved[src.from])
        BY <3>2, FrameValue
      <3> QED
        BY <2>3, <3>3 DEF DerivedFrom, v
    <2>6. ASSUME Len(field.chain) = 1, src.k = "probe", CacheTrue(EffectivePath(src, in), ing.cache)
          PROVE  ProbedFor(in, probes, field, new.fired, new.resolved[n])
      <3>1. r = ResolveSource(n, 1, src, in, probes, ing)
        BY <1>4, <2>6, SingleSource DEF r
      <3>2. r = ResolveProbe(src, in, probes, ing)
        BY <2>6, <3>1 DEF ResolveSource
      <3>3. /\ Near(r.val, Given(in, probes, src))
            /\ ~in.chunked /\ ~TooLarge(in, probes, src.probe) => src.probe \in DOMAIN r.fired
        BY <2>r, <2>6, <3>2, ProbeFrame
      <3>4. Accepts(field.type, r.val)
        BY <1>4
      <3>5. v = NormalizeValue(Given(in, probes, src), field.type)
        BY <3>3, <3>4, NearAccepted DEF v
      <3> QED
        BY <2>2, <2>3, <3>3, <3>5 DEF ProbedFor
    <2> QED
      BY <2>4, <2>5, <2>6 DEF new
  <1> QED
    BY <1>2, <1>3, <1>4

---------------------------------------------------------------------------
(* The loop: after the first i fields of the order, each that has a single  *)
(* source has what that source gives, among the values as they then are.    *)

Settled(in, probes, cache, ing, n, field) ==
  Len(field.chain) = 1 =>
    /\ Primary(field).k = "field" =>
         /\ Primary(field).from \in DOMAIN ing.resolved
         /\ DerivedFrom(field, ing.resolved, ing.resolved[n])
    /\ Primary(field).k = "probe" /\ CacheTrue(EffectivePath(Primary(field), in), cache) =>
         ProbedFor(in, probes, field, ing.fired, ing.resolved[n])

LoopInv(in, fields, probes, cache, ing, out, i) ==
  /\ Sound(in, probes, ing)
  /\ CacheKept(cache, ing.cache)
  /\ ing.ok =>
       /\ DOMAIN ing.resolved = {out[j] : j \in 1 .. i}
       /\ \A n \in DOMAIN ing.resolved : ing.resolved[n] # Failed
       /\ \A j \in 1 .. i : Settled(in, probes, cache, ing, out[j], fields[out[j]])

LEMMA LoopStep ==
  ASSUME NEW in, NEW probes, NEW cache, NEW fields, WellFormed(fields),
         NEW out \in Seq(DOMAIN fields), Distinct(out), OutOrdered(fields, out),
         NEW i \in Nat, i + 1 \in 1 .. Len(out),
         NEW ing, LoopInv(in, fields, probes, cache, ing, out, i)
  PROVE  LoopInv(in, fields, probes, cache,
                 IngestField(out[i + 1], fields[out[i + 1]], in, probes, ing), out, i + 1)
  <1> DEFINE n     == out[i + 1]
             field == fields[n]
             new   == IngestField(n, field, in, probes, ing)
             D     == DOMAIN ing.resolved
  <1>1. n \in DOMAIN fields /\ Len(out) \in Nat
    BY LenProperties
  <1>2. ChainOK(field)
    BY <1>1, ChainsOK
  <1>3. Sound(in, probes, ing) /\ CacheKept(cache, ing.cache)
    BY DEF LoopInv
  <1>4. /\ FieldStep(in, probes, n, field, ing, new)
        /\ new.ok /\ Len(field.chain) = 1 =>
             /\ Primary(field).k = "field" /\ Primary(field).from \in D =>
                  DerivedFrom(field, ing.resolved, new.resolved[n])
             /\ Primary(field).k = "probe" /\ CacheTrue(EffectivePath(Primary(field), in), ing.cache) =>
                  ProbedFor(in, probes, field, new.fired, new.resolved[n])
    BY <1>2, <1>3, IngestFieldStep
  <1> HIDE DEF new
  <1>5. Sound(in, probes, new) /\ CacheKept(cache, new.cache)
    BY <1>3, <1>4 DEF FieldStep, CacheKept
  <1>6. SUFFICES ASSUME new.ok
                 PROVE  /\ DOMAIN new.resolved = {out[j] : j \in 1 .. i + 1}
                        /\ \A m \in DOMAIN new.resolved : new.resolved[m] # Failed
                        /\ \A j \in 1 .. i + 1 : Settled(in, probes, cache, new, out[j], fields[out[j]])
    BY <1>5 DEF LoopInv, new
  <1>7. /\ ing.ok
        /\ DOMAIN ing.fired \subseteq DOMAIN new.fired
        /\ DOMAIN new.resolved = D \cup {n}
        /\ \A m \in D \ {n} : new.resolved[m] = ing.resolved[m]
        /\ new.resolved[n] # Failed
    BY <1>4, <1>6 DEF FieldStep
  <1>8. /\ D = {out[j] : j \in 1 .. i}
        /\ \A m \in D : ing.resolved[m] # Failed
        /\ \A j \in 1 .. i : Settled(in, probes, cache, ing, out[j], fields[out[j]])
    BY <1>7 DEF LoopInv
  <1>9. \A j \in 1 .. i : j \in 1 .. Len(out) /\ j # i + 1
    BY <1>1
  <1>10. n \notin D
    BY <1>8, <1>9 DEF Distinct
  <1>11. \A m \in D : new.resolved[m] = ing.resolved[m]
    BY <1>7, <1>10
  <1>12. 1 .. i + 1 = (1 .. i) \cup {i + 1}
    OBVIOUS
  <1>13. DOMAIN new.resolved = {out[j] : j \in 1 .. i + 1}
    BY <1>7, <1>8, <1>12
  <1>14. ASSUME NEW j \in 1 .. i
         PROVE  Settled(in, probes, cache, new, out[j], fields[out[j]])
    <2> DEFINE m == out[j]  f == fields[m]  src == Primary(f)
    <2>1. Settled(in, probes, cache, ing, m, f)
      BY <1>8
    <2>2. m \in D /\ new.resolved[m] = ing.resolved[m]
      BY <1>8, <1>11
    <2> HIDE DEF m
    <2>3. ASSUME Len(f.chain) = 1, src.k = "field"
          PROVE  src.from \in DOMAIN new.resolved /\ DerivedFrom(f, new.resolved, new.resolved[m])
      <3>1. src.from \in D /\ DerivedFrom(f, ing.resolved, ing.resolved[m])
        BY <2>1, <2>3 DEF Settled
      <3>2. new.resolved[src.from] = ing.resolved[src.from]
        BY <1>11, <3>1
      <3> QED
        BY <1>7, <2>2, <3>1, <3>2 DEF DerivedFrom
    <2>4. ASSUME Len(f.chain) = 1, src.k = "probe", CacheTrue(EffectivePath(src, in), cache)
          PROVE  ProbedFor(in, probes, f, new.fired, new.resolved[m])
      <3>1. ProbedFor(in, probes, f, ing.fired, ing.resolved[m])
        BY <2>1, <2>4 DEF Settled
      <3> QED
        BY <1>7, <2>2, <3>1 DEF ProbedFor
    <2>5. Settled(in, probes, cache, new, m, f)
      BY <2>3, <2>4 DEF Settled
    <2> QED
      BY <2>5 DEF m
  <1>15. Settled(in, probes, cache, new, n, field)
    <2> DEFINE src == Primary(field)
    <2>1. ASSUME Len(field.chain) = 1, src.k = "field"
          PROVE  src.from \in DOMAIN new.resolved /\ DerivedFrom(field, new.resolved, new.resolved[n])
      <3>1. PICK l \in 1 .. Len(out) : l < i + 1 /\ out[l] = src.from
        BY <2>1 DEF OutOrdered, Waits, From
      <3>2. l \in 1 .. i
        BY <1>1, <3>1
      <3>3. src.from \in D
        BY <1>8, <3>1, <3>2
      <3>4. new.resolved[src.from] = ing.resolved[src.from]
        BY <1>11, <3>3
      <3>5. DerivedFrom(field, ing.resolved, new.resolved[n])
        BY <1>4, <1>6, <2>1, <3>3
      <3> QED
        BY <1>7, <3>3, <3>4, <3>5 DEF DerivedFrom
    <2>2. ASSUME Len(field.chain) = 1, src.k = "probe", CacheTrue(EffectivePath(src, in), cache)
          PROVE  ProbedFor(in, probes, field, new.fired, new.resolved[n])
      BY <1>3, <1>4, <1>6, <2>2 DEF CacheKept
    <2> QED
      BY <2>1, <2>2 DEF Settled
  <1>16. \A m \in DOMAIN new.resolved : new.resolved[m] # Failed
    BY <1>7, <1>8, <1>11
  <1> QED
    BY <1>12, <1>13, <1>14, <1>15, <1>16

(* The loop from its first field to its last.                               *)
Started(cache) == [ok |-> TRUE, val |-> Null, resolved |-> <<>>, fired |-> <<>>, cache |-> cache]

Turned(in, fields, probes, cache, turn) ==
  LET order == TopoSort(fields) IN
  /\ IngestFields(in, fields, probes, cache) = turn[Len(order)]
  /\ turn[0] = Started(cache)
  /\ \A i \in 1 .. Len(order) :
        turn[i] = IngestField(order[i], fields[order[i]], in, probes, turn[i - 1])

LEMMA FieldsTurned ==
  ASSUME NEW in, NEW fields, NEW probes, NEW cache, Len(TopoSort(fields)) \in Nat
  PROVE  \E turn : Turned(in, fields, probes, cache, turn)
  <1> DEFINE out   == TopoSort(fields)
             N     == Len(out)
             start == Started(cache)
             Step(i, ing) == IngestField(out[i], fields[out[i]], in, probes, ing)
             Body(f, i) == IF i = 0 THEN start ELSE Step(i, f[i - 1])
             turn == CHOOSE f : f = [i \in 0 .. N |-> Body(f, i)]
             T == {n \in Nat : \E f : f = [i \in 0 .. n |-> Body(f, i)]}
  <1>1. IngestFields(in, fields, probes, cache) = turn[N]
    BY DEF IngestFields, Started
  <1> HIDE DEF N, start, Step, out
  <1>2. 0 \in T
    <2> DEFINE f == [i \in 0 .. 0 |-> start]
    <2>1. f = [i \in 0 .. 0 |-> Body(f, i)]
      OBVIOUS
    <2> HIDE DEF f
    <2> QED
      BY <2>1
  <1>3. ASSUME NEW n \in Nat, n \in T
        PROVE  n + 1 \in T
    <2>1. PICK f : f = [i \in 0 .. n |-> Body(f, i)]
      BY <1>3
    <2> DEFINE g == [i \in 0 .. n + 1 |-> IF i = n + 1 THEN Step(i, f[n]) ELSE f[i]]
    <2>2. ASSUME NEW i \in 0 .. n + 1
          PROVE  g[i] = Body(g, i)
      <3>1. CASE i = n + 1
        <4>1. i # 0 /\ i - 1 = n /\ n \in 0 .. n + 1 /\ n # n + 1
          BY <3>1
        <4>2. g[n] = f[n] /\ g[i] = Step(i, f[n])
          BY <3>1, <4>1
        <4> QED
          BY <4>1, <4>2, Zenon
      <3>2. CASE i # n + 1
        <4>1. i \in 0 .. n
          BY <3>2
        <4>2. f[i] = Body(f, i)
          BY <2>1, <4>1, Zenon
        <4>3. g[i] = f[i] /\ (i # 0 => g[i - 1] = f[i - 1])
          BY <3>2, <4>1
        <4> QED
          BY <4>2, <4>3, Zenon
      <3> QED
        BY <3>1, <3>2
    <2>3. g = [i \in 0 .. n + 1 |-> g[i]]
      OBVIOUS
    <2> HIDE DEF g
    <2>4. g = [i \in 0 .. n + 1 |-> Body(g, i)]
      BY <2>2, <2>3, Zenon
    <2> QED
      BY <2>4
  <1> HIDE DEF T
  <1>4. N \in Nat /\ N \in T
    BY <1>2, <1>3, Induction DEF N, out
  <1>5. turn = [i \in 0 .. N |-> Body(turn, i)]
    BY <1>4 DEF T
  <1> HIDE DEF turn
  <1>6. \A i \in 0 .. N : turn[i] = Body(turn, i)
    BY <1>5, Zenon
  <1>7. turn[0] = start
    <2>1. 0 \in 0 .. N
      BY <1>4
    <2> QED
      BY <1>6, <2>1, Zenon
  <1>8. \A i \in 1 .. N : turn[i] = Step(i, turn[i - 1])
    <2>1. \A i \in 1 .. N : i \in 0 .. N /\ i # 0
      BY <1>4
    <2> QED
      BY <1>6, <2>1, Zenon
  <1> QED
    BY <1>1, <1>7, <1>8, Zenon DEF N, out, start, Step, Turned

LEMMA AllIngested ==
  ASSUME NEW in, NEW probes, NEW cache, NEW fields, WellFormed(fields), ParseAccepts(fields)
  PROVE  LET ing == IngestFields(in, fields, probes, cache)
         IN  /\ Sound(in, probes, ing)
             /\ CacheKept(cache, ing.cache)
             /\ ing.ok =>
                  /\ DOMAIN ing.resolved = DOMAIN fields
                  /\ \A n \in DOMAIN fields : ing.resolved[n] # Failed
                  /\ \A n \in DOMAIN fields :
                        Settled(in, probes, cache, ing, n, fields[n])
  <1> DEFINE D   == DOMAIN fields
             out == TopoSort(fields)
             N   == Len(out)
             ing == IngestFields(in, fields, probes, cache)
  <1>1. out \in Seq(D) /\ Distinct(out) /\ OutOrdered(fields, out)
    BY WellFormedFields, TopoSorted DEF FieldsOK, SortOK
  <1>2. N = Cardinality(D) /\ IsFiniteSet(D)
    BY DEF ParseAccepts, EverySorted, WellFormed
  <1> HIDE DEF out
  <1>3. N \in Nat /\ out \in [1 .. N -> D]
    BY <1>1, LenProperties
  <1>4. PICK turn : Turned(in, fields, probes, cache, turn)
    BY <1>3, FieldsTurned DEF out
  <1>5. /\ ing = turn[N]
        /\ turn[0] = Started(cache)
        /\ \A i \in 1 .. N : turn[i] = IngestField(out[i], fields[out[i]], in, probes, turn[i - 1])
    BY <1>4, Zenon DEF Turned, out
  <1> HIDE DEF ing
  <1> DEFINE S == {i \in Nat : i <= N => LoopInv(in, fields, probes, cache, turn[i], out, i)}
  <1>6. 0 \in S
    <2> DEFINE s == Started(cache)
    <2>1. /\ DOMAIN s = IngFields /\ s.fired = <<>> /\ s.cache = cache
          /\ DOMAIN s.resolved = {}
      BY DEF Started, IngFields
    <2> HIDE DEF s
    <2>2. 1 .. 0 = {}
      OBVIOUS
    <2>3. Sound(in, probes, s)
      BY <2>1 DEF Sound, FiredOK
    <2>4. LoopInv(in, fields, probes, cache, s, out, 0)
      BY <2>1, <2>2, <2>3 DEF LoopInv, CacheKept
    <2> QED
      BY <1>5, <2>4 DEF s
  <1>7. ASSUME NEW i \in Nat, i \in S
        PROVE  i + 1 \in S
    <2> SUFFICES ASSUME i + 1 <= N PROVE LoopInv(in, fields, probes, cache, turn[i + 1], out, i + 1)
      OBVIOUS
    <2>1. i + 1 \in 1 .. N /\ i <= N
      BY <1>3
    <2>2. LoopInv(in, fields, probes, cache, turn[i], out, i)
      BY <1>7, <2>1
    <2>3. PICK j : j = i + 1
      OBVIOUS
    <2>4. j \in 1 .. N /\ j - 1 = i
      BY <2>1, <2>3
    <2>5. turn[j] = IngestField(out[j], fields[out[j]], in, probes, turn[i])
      BY <1>5, <2>4
    <2>6. LoopInv(in, fields, probes, cache,
                  IngestField(out[i + 1], fields[out[i + 1]], in, probes, turn[i]), out, i + 1)
      BY <1>1, <2>1, <2>2, LoopStep
    <2> QED
      BY <2>3, <2>5, <2>6
  <1> HIDE DEF S
  <1>8. N \in S
    BY <1>3, <1>6, <1>7, Induction
  <1>9. LoopInv(in, fields, probes, cache, ing, out, N)
    BY <1>3, <1>5, <1>8 DEF S
  <1>10. \A i, j \in 1 .. N : out[i] = out[j] => i = j
    BY <1>1 DEF Distinct
  <1>11. \A n \in D : \E i \in 1 .. N : out[i] = n
    BY <1>2, <1>3, <1>10, ListsAll
  <1>12. ASSUME ing.ok
         PROVE  /\ DOMAIN ing.resolved = D
                /\ \A n \in D : ing.resolved[n] # Failed
                /\ \A n \in D : Settled(in, probes, cache, ing, n, fields[n])
    <2>1. /\ DOMAIN ing.resolved = {out[j] : j \in 1 .. N}
          /\ \A n \in DOMAIN ing.resolved : ing.resolved[n] # Failed
          /\ \A j \in 1 .. N : Settled(in, probes, cache, ing, out[j], fields[out[j]])
      BY <1>9, <1>12 DEF LoopInv
    <2>2. {out[j] : j \in 1 .. N} = D
      BY <1>3, <1>11
    <2> QED
      BY <1>11, <2>1, <2>2
  <1> QED
    BY <1>9, <1>12 DEF LoopInv, ing

(* What the manifest of an ingest that succeeded holds.                     *)
Usable(schema) == WellFormed(schema.fields) /\ ParseAccepts(schema.fields)

LEMMA Ingested ==
  ASSUME NEW in, NEW probes, NEW cache, NEW schema, Usable(schema),
         IngestWithCache(in, schema, probes, cache).ok
  PROVE  LET m == IngestWithCache(in, schema, probes, cache).manifest
         IN  /\ m.type = schema.type /\ m.schema = schema /\ m.source = SourceHash(in)
             /\ DerivedIn(m)
             /\ in.chunked => m.probes = <<>>
             /\ \A n \in DOMAIN schema.fields :
                  LET f == schema.fields[n] IN
                  /\ Len(f.chain) = 1
                  /\ Primary(f).k = "probe"
                  /\ CacheTrue(EffectivePath(Primary(f), in), cache)
                  => FieldOf(m, n) = NormalizeValue(Replayed(in.path, m, Primary(f)), f.type)
             /\ \A n \in DOMAIN m.fields : m.fields[n] # Null
             /\ \A n \in DOMAIN schema.fields : FieldOf(m, n) # Failed
  <1> DEFINE F     == schema.fields
             ing   == IngestFields(in, F, probes, cache)
             extra == Restrict(in.user, DOMAIN in.user \ DOMAIN F)
             all   == Over(ing.resolved, extra)
             r     == IngestWithCache(in, schema, probes, cache)
             m     == r.manifest
  <1>1. WellFormed(F) /\ ParseAccepts(F)
    BY DEF Usable
  <1>2. /\ r.ok = (ing.ok /\ (schema.extra \/ extra = <<>>))
        /\ m = Manifest(in, schema, [ing EXCEPT !.resolved = Over(@, extra)])
    BY DEF IngestWithCache, IngestResult
  <1>3. ing.ok
    BY <1>2
  <1>4. /\ Sound(in, probes, ing)
        /\ DOMAIN ing.resolved = DOMAIN F
        /\ \A n \in DOMAIN F : ing.resolved[n] # Failed
        /\ \A n \in DOMAIN F : Settled(in, probes, cache, ing, n, F[n])
    BY <1>1, <1>3, AllIngested
  <1> HIDE DEF ing, extra, r
  <1>5. /\ m.type = schema.type /\ m.schema = schema /\ m.source = SourceHash(in)
        /\ m.probes = ing.fired /\ m.fields = WithoutNulls(all)
    BY <1>2, <1>4 DEF Manifest, Sound, IngFields
  <1> HIDE DEF m
  <1>6. /\ DOMAIN F \subseteq DOMAIN all
        /\ \A n \in DOMAIN F : all[n] = ing.resolved[n]
    BY <1>4 DEF Over
  <1> HIDE DEF all
  <1>7. /\ DOMAIN m.fields = {n \in DOMAIN all : all[n] # Null}
        /\ \A n \in DOMAIN m.fields : m.fields[n] = all[n]
    BY <1>5 DEF WithoutNulls, Restrict
  <1>8. \A n \in DOMAIN F : FieldOf(m, n) = ing.resolved[n]
    BY <1>6, <1>7 DEF FieldOf
  <1>9. DerivedIn(m)
    <2> SUFFICES ASSUME NEW n \in DOMAIN F, Len(F[n].chain) = 1, Primary(F[n]).k = "field"
                 PROVE  FieldOf(m, n) = NormalizeValue(Transform(Primary(F[n]).tr, FieldOf(m, Primary(F[n]).from)),
                                                       F[n].type)
      BY <1>5 DEF DerivedIn
    <2>1. /\ Primary(F[n]).from \in DOMAIN F
          /\ DerivedFrom(F[n], ing.resolved, ing.resolved[n])
      BY <1>4 DEF Settled
    <2> QED
      BY <1>8, <2>1 DEF DerivedFrom
  <1>10. in.chunked => m.probes = <<>>
    BY <1>4, <1>5 DEF Sound, FiredOK
  <1>11. ASSUME NEW n \in DOMAIN F, Len(F[n].chain) = 1, Primary(F[n]).k = "probe",
                CacheTrue(EffectivePath(Primary(F[n]), in), cache)
         PROVE  FieldOf(m, n) = NormalizeValue(Replayed(in.path, m, Primary(F[n])), F[n].type)
    <2> DEFINE src == Primary(F[n])
    <2>1. ProbedFor(in, probes, F[n], ing.fired, ing.resolved[n])
      BY <1>4, <1>11 DEF Settled
    <2>2. m.source[1] = in.content /\ m.source[2] = in.chunked
      BY <1>5 DEF SourceHash
    <2>3. EffectivePath(src, [path |-> in.path]) = EffectivePath(src, in)
      BY DEF EffectivePath
    <2>4. Given(in, probes, src) = Replayed(in.path, m, src)
      <3>1. CASE in.chunked
        BY <2>2, <3>1 DEF Given, Replayed
      <3>2. CASE ~in.chunked /\ TooLarge(in, probes, src.probe)
        <4>1. src.probe \notin DOMAIN m.probes
          BY <1>4, <1>5, <3>2 DEF Sound, FiredOK
        <4> QED
          BY <2>2, <3>2, <4>1 DEF Given, Replayed
      <3>3. CASE ~in.chunked /\ ~TooLarge(in, probes, src.probe)
        <4>1. src.probe \in DOMAIN m.probes /\ m.probes[src.probe] = probes[src.probe].wasm
          BY <1>4, <1>5, <2>1, <3>3 DEF Sound, FiredOK, ProbedFor
        <4> QED
          BY <2>2, <2>3, <3>3, <4>1 DEF Given, Replayed
      <3> QED
        BY <3>1, <3>2, <3>3
    <2> QED
      BY <1>8, <2>1, <2>4 DEF ProbedFor
  <1>12. \A n \in DOMAIN m.fields : m.fields[n] # Null
    BY <1>7
  <1>13. \A n \in DOMAIN F : FieldOf(m, n) # Failed
    BY <1>4, <1>8
  <1> QED
    BY <1>5, <1>9, <1>10, <1>11, <1>12, <1>13 DEF m, r

LEMMA IngestKeepsCache ==
  ASSUME NEW in, NEW probes, NEW cache, NEW schema, Usable(schema)
  PROVE  CacheKept(cache, IngestWithCache(in, schema, probes, cache).cache)
  BY AllIngested DEF IngestWithCache, IngestResult, Usable

(* From an empty cache every manifest replays.                              *)
LEMMA FreshReplays ==
  ASSUME NEW in, NEW probes, NEW schema, Usable(schema),
         IngestWithCache(in, schema, probes, <<>>).ok
  PROVE  Replays(in.path, IngestWithCache(in, schema, probes, <<>>).manifest)
  <1> DEFINE m == IngestWithCache(in, schema, probes, <<>>).manifest
  <1>1. \A path : CacheTrue(path, <<>>)
    BY DEF CacheTrue
  <1>2. /\ m.schema = schema /\ m.source = SourceHash(in)
        /\ in.chunked => m.probes = <<>>
        /\ \A n \in DOMAIN schema.fields :
             LET f == schema.fields[n] IN
             Len(f.chain) = 1 /\ Primary(f).k = "probe"
             => FieldOf(m, n) = NormalizeValue(Replayed(in.path, m, Primary(f)), f.type)
    BY <1>1, Ingested
  <1> HIDE DEF m
  <1>3. m.source[2] = in.chunked
    BY <1>2 DEF SourceHash
  <1>4. Replays(in.path, m)
    BY <1>2, <1>3 DEF Replays
  <1> QED
    BY <1>4 DEF m

---------------------------------------------------------------------------
(* The walk of run_auto_reprobe.                                            *)

Walked(pass, new, walk) ==
  LET paths == Ascending(DOMAIN head.files) IN
  /\ ReprobeType(pass, new) = walk[Len(paths)]
  /\ walk[0] = pass
  /\ \A i \in 1 .. Len(paths) : walk[i] = ReprobeFile(walk[i - 1], paths[i], new)

LEMMA TypeWalked ==
  ASSUME NEW pass, NEW new, Len(Ascending(DOMAIN head.files)) \in Nat
  PROVE  \E walk : Walked(pass, new, walk)
  <1> DEFINE paths == Ascending(DOMAIN head.files)
             N     == Len(paths)
             Step(i, p) == ReprobeFile(p, paths[i], new)
             Body(f, i) == IF i = 0 THEN pass ELSE Step(i, f[i - 1])
             walk == CHOOSE f : f = [i \in 0 .. N |-> Body(f, i)]
             T == {n \in Nat : \E f : f = [i \in 0 .. n |-> Body(f, i)]}
  <1>1. ReprobeType(pass, new) = walk[N]
    BY DEF ReprobeType
  <1> HIDE DEF N, Step, paths
  <1>2. 0 \in T
    <2> DEFINE f == [i \in 0 .. 0 |-> pass]
    <2>1. f = [i \in 0 .. 0 |-> Body(f, i)]
      OBVIOUS
    <2> HIDE DEF f
    <2> QED
      BY <2>1
  <1>3. ASSUME NEW n \in Nat, n \in T
        PROVE  n + 1 \in T
    <2>1. PICK f : f = [i \in 0 .. n |-> Body(f, i)]
      BY <1>3
    <2> DEFINE g == [i \in 0 .. n + 1 |-> IF i = n + 1 THEN Step(i, f[n]) ELSE f[i]]
    <2>2. ASSUME NEW i \in 0 .. n + 1
          PROVE  g[i] = Body(g, i)
      <3>1. CASE i = n + 1
        <4>1. i # 0 /\ i - 1 = n /\ n \in 0 .. n + 1 /\ n # n + 1
          BY <3>1
        <4>2. g[n] = f[n] /\ g[i] = Step(i, f[n])
          BY <3>1, <4>1
        <4> QED
          BY <4>1, <4>2, Zenon
      <3>2. CASE i # n + 1
        <4>1. i \in 0 .. n
          BY <3>2
        <4>2. f[i] = Body(f, i)
          BY <2>1, <4>1, Zenon
        <4>3. g[i] = f[i] /\ (i # 0 => g[i - 1] = f[i - 1])
          BY <3>2, <4>1
        <4> QED
          BY <4>2, <4>3, Zenon
      <3> QED
        BY <3>1, <3>2
    <2>3. g = [i \in 0 .. n + 1 |-> g[i]]
      OBVIOUS
    <2> HIDE DEF g
    <2>4. g = [i \in 0 .. n + 1 |-> Body(g, i)]
      BY <2>2, <2>3, Zenon
    <2> QED
      BY <2>4
  <1> HIDE DEF T
  <1>4. N \in Nat /\ N \in T
    BY <1>2, <1>3, Induction DEF N, paths
  <1>5. walk = [i \in 0 .. N |-> Body(walk, i)]
    BY <1>4 DEF T
  <1> HIDE DEF walk
  <1>6. \A i \in 0 .. N : walk[i] = Body(walk, i)
    BY <1>5, Zenon
  <1>7. walk[0] = pass
    <2>1. 0 \in 0 .. N
      BY <1>4
    <2> QED
      BY <1>6, <2>1, Zenon
  <1>8. \A i \in 1 .. N : walk[i] = Step(i, walk[i - 1])
    <2>1. \A i \in 1 .. N : i \in 0 .. N /\ i # 0
      BY <1>4
    <2> QED
      BY <1>6, <2>1, Zenon
  <1> QED
    BY <1>1, <1>7, <1>8, Zenon DEF N, paths, Step, Walked

Passed(pass) ==
  LET types == Ascending(ChangedTypes) IN
  /\ AutoReprobe = pass[Len(types)]
  /\ pass[0] = NoReprobe
  /\ \A i \in 1 .. Len(types) : pass[i] = ReprobeType(pass[i - 1], staged.schemas[types[i]])

LEMMA TypesPassed ==
  ASSUME Len(Ascending(ChangedTypes)) \in Nat
  PROVE  \E pass : Passed(pass)
  <1> DEFINE types == Ascending(ChangedTypes)
             N     == Len(types)
             Step(i, p) == ReprobeType(p, staged.schemas[types[i]])
             Body(f, i) == IF i = 0 THEN NoReprobe ELSE Step(i, f[i - 1])
             pass == CHOOSE f : f = [i \in 0 .. N |-> Body(f, i)]
             T == {n \in Nat : \E f : f = [i \in 0 .. n |-> Body(f, i)]}
  <1>1. AutoReprobe = pass[N]
    BY DEF AutoReprobe
  <1> HIDE DEF N, Step, types
  <1>2. 0 \in T
    <2> DEFINE f == [i \in 0 .. 0 |-> NoReprobe]
    <2>1. f = [i \in 0 .. 0 |-> Body(f, i)]
      OBVIOUS
    <2> HIDE DEF f
    <2> QED
      BY <2>1
  <1>3. ASSUME NEW n \in Nat, n \in T
        PROVE  n + 1 \in T
    <2>1. PICK f : f = [i \in 0 .. n |-> Body(f, i)]
      BY <1>3
    <2> DEFINE g == [i \in 0 .. n + 1 |-> IF i = n + 1 THEN Step(i, f[n]) ELSE f[i]]
    <2>2. ASSUME NEW i \in 0 .. n + 1
          PROVE  g[i] = Body(g, i)
      <3>1. CASE i = n + 1
        <4>1. i # 0 /\ i - 1 = n /\ n \in 0 .. n + 1 /\ n # n + 1
          BY <3>1
        <4>2. g[n] = f[n] /\ g[i] = Step(i, f[n])
          BY <3>1, <4>1
        <4> QED
          BY <4>1, <4>2, Zenon
      <3>2. CASE i # n + 1
        <4>1. i \in 0 .. n
          BY <3>2
        <4>2. f[i] = Body(f, i)
          BY <2>1, <4>1, Zenon
        <4>3. g[i] = f[i] /\ (i # 0 => g[i - 1] = f[i - 1])
          BY <3>2, <4>1
        <4> QED
          BY <4>2, <4>3, Zenon
      <3> QED
        BY <3>1, <3>2
    <2>3. g = [i \in 0 .. n + 1 |-> g[i]]
      OBVIOUS
    <2> HIDE DEF g
    <2>4. g = [i \in 0 .. n + 1 |-> Body(g, i)]
      BY <2>2, <2>3, Zenon
    <2> QED
      BY <2>4
  <1> HIDE DEF T
  <1>4. N \in Nat /\ N \in T
    BY <1>2, <1>3, Induction DEF N, types
  <1>5. pass = [i \in 0 .. N |-> Body(pass, i)]
    BY <1>4 DEF T
  <1> HIDE DEF pass
  <1>6. \A i \in 0 .. N : pass[i] = Body(pass, i)
    BY <1>5, Zenon
  <1>7. pass[0] = NoReprobe
    <2>1. 0 \in 0 .. N
      BY <1>4
    <2> QED
      BY <1>6, <2>1, Zenon
  <1>8. \A i \in 1 .. N : pass[i] = Step(i, pass[i - 1])
    <2>1. \A i \in 1 .. N : i \in 0 .. N /\ i # 0
      BY <1>4
    <2> QED
      BY <1>6, <2>1, Zenon
  <1> QED
    BY <1>1, <1>7, <1>8, Zenon DEF N, types, Step, Passed

---------------------------------------------------------------------------
(* With an exact cache for its path a file is ingested as with none: an     *)
(* answer out of the cache is what the probe would have given.              *)

Alike(path, a, b) ==
  /\ DOMAIN a = IngFields /\ DOMAIN b = IngFields
  /\ a.ok = b.ok /\ a.val = b.val /\ a.resolved = b.resolved /\ a.fired = b.fired
  /\ CacheExact(path, a.cache) /\ CacheExact(path, b.cache)

(* What a probe source does, seen without the cache.                        *)
Runs(src, in, probes) ==
  src.probe \in DOMAIN probes /\ ~in.chunked /\ ~TooLarge(in, probes, src.probe)

ProbeRan(src, in, probes, old, new) ==
  LET out == RunProbe(probes[src.probe].wasm, in.content, in.path) IN
  /\ DOMAIN new = IngFields /\ new.resolved = old.resolved /\ CacheExact(in.path, new.cache)
  /\ src.probe \notin DOMAIN probes \/ (Runs(src, in, probes) /\ out = Failed) =>
       new.ok = FALSE /\ new.val = old.val /\ new.fired = old.fired
  /\ src.probe \in DOMAIN probes /\ in.chunked =>
       new.ok = old.ok /\ new.val = StreamingBuiltin(src.probe, in.content) /\ new.fired = old.fired
  /\ src.probe \in DOMAIN probes /\ ~in.chunked /\ TooLarge(in, probes, src.probe) =>
       new.ok = old.ok /\ new.val = Null /\ new.fired = old.fired
  /\ Runs(src, in, probes) /\ out # Failed =>
       /\ new.ok = old.ok /\ new.val = out
       /\ new.fired = Put(old.fired, src.probe, probes[src.probe].wasm)

LEMMA ProbeRuns ==
  ASSUME NEW in, NEW probes, NEW src, src.path = 0,
         NEW ing, DOMAIN ing = IngFields, CacheExact(in.path, ing.cache)
  PROVE  ProbeRan(src, in, probes, ing, ResolveProbe(src, in, probes, ing))
  <1> DEFINE p    == src.probe
             blob == probes[p]
             path == EffectivePath(src, in)
             key  == CacheKey(SourceHash(in), blob.wasm, path)
             out  == RunProbe(blob.wasm, in.content, path)
             rec  == RecordFired(ing, p, blob)
             r    == ResolveProbe(src, in, probes, ing)
  <1>0. path = in.path
    BY DEF EffectivePath
  <1>1. CASE p \notin DOMAIN probes
    <2>1. r = [ing EXCEPT !.ok = FALSE]
      BY <1>1 DEF ResolveProbe, Fail
    <2> QED
      BY <1>1, <2>1 DEF ProbeRan, Runs, IngFields
  <1>2. CASE p \in DOMAIN probes /\ in.chunked
    <2>1. r = [ing EXCEPT !.val = StreamingBuiltin(p, in.content)]
      BY <1>2 DEF ResolveProbe
    <2> QED
      BY <1>2, <2>1 DEF ProbeRan, Runs, IngFields
  <1>3. CASE p \in DOMAIN probes /\ ~in.chunked /\ TooLarge(in, probes, p)
    <2>1. r = [ing EXCEPT !.val = Null]
      BY <1>3 DEF ResolveProbe, TooLarge
    <2> QED
      BY <1>3, <2>1 DEF ProbeRan, Runs, IngFields
  <1>4. CASE p \in DOMAIN probes /\ ~in.chunked /\ ~TooLarge(in, probes, p)
    <2>0. Runs(src, in, probes)
      BY <1>4 DEF Runs
    <2>1. /\ DOMAIN rec = IngFields /\ rec.ok = ing.ok /\ rec.cache = ing.cache
          /\ rec.resolved = ing.resolved /\ rec.fired = Put(ing.fired, p, blob.wasm)
      BY DEF RecordFired, IngFields
    <2>2. CASE key \in DOMAIN ing.cache
      <3>1. key[1][1] = in.content /\ key[2] = blob.wasm /\ key[3] = in.path
        BY <1>0 DEF CacheKey, SourceHash
      <3>2. r = [rec EXCEPT !.val = ing.cache[key]]
        BY <1>4, <2>2 DEF ResolveProbe, TooLarge, CacheHit
      <3> HIDE DEF key, rec
      <3>3. ing.cache[key] = out /\ out # Failed
        BY <1>0, <2>2, <3>1 DEF CacheExact
      <3>4. /\ DOMAIN r = IngFields /\ r.ok = ing.ok /\ r.val = out /\ r.cache = ing.cache
            /\ r.resolved = ing.resolved /\ r.fired = Put(ing.fired, p, blob.wasm)
        BY <2>1, <3>2, <3>3 DEF IngFields
      <3> HIDE DEF r
      <3> QED
        BY <1>0, <1>4, <2>0, <3>3, <3>4 DEF ProbeRan, r
    <2>3. CASE key \notin DOMAIN ing.cache /\ out = Failed
      <3>1. r = [ing EXCEPT !.ok = FALSE]
        BY <1>4, <2>3 DEF ResolveProbe, TooLarge, Fail
      <3>2. /\ DOMAIN r = IngFields /\ r.ok = FALSE /\ r.val = ing.val /\ r.cache = ing.cache
            /\ r.resolved = ing.resolved /\ r.fired = ing.fired
        BY <3>1 DEF IngFields
      <3> HIDE DEF r, key
      <3> QED
        BY <1>0, <1>4, <2>0, <2>3, <3>2 DEF ProbeRan, r
    <2>4. CASE key \notin DOMAIN ing.cache /\ out # Failed
      <3> DEFINE c == Put(ing.cache, key, out)
      <3>1. r = [rec EXCEPT !.val = out, !.cache = Put(@, key, out)]
        BY <1>4, <2>4 DEF ResolveProbe, TooLarge
      <3>2. CacheKept(ing.cache, c)
        BY <2>4, CacheGrows
      <3> HIDE DEF rec, key, c
      <3>3. /\ DOMAIN r = IngFields /\ r.ok = ing.ok /\ r.val = out /\ r.cache = c
            /\ r.resolved = ing.resolved /\ r.fired = Put(ing.fired, p, blob.wasm)
        BY <2>1, <3>1 DEF IngFields, c
      <3>4. CacheExact(in.path, c)
        BY <3>2 DEF CacheKept
      <3> HIDE DEF r
      <3> QED
        BY <1>0, <1>4, <2>0, <2>4, <3>3, <3>4 DEF ProbeRan, r
    <2> QED
      BY <2>2, <2>3, <2>4
  <1> QED
    BY <1>1, <1>2, <1>3, <1>4

LEMMA ProbeAlike ==
  ASSUME NEW in, NEW probes, NEW src, src.path = 0, NEW a, NEW b, Alike(in.path, a, b)
  PROVE  Alike(in.path, ResolveProbe(src, in, probes, a), ResolveProbe(src, in, probes, b))
  <1> DEFINE ra  == ResolveProbe(src, in, probes, a)
             rb  == ResolveProbe(src, in, probes, b)
             out == RunProbe(probes[src.probe].wasm, in.content, in.path)
  <1>1. ProbeRan(src, in, probes, a, ra) /\ ProbeRan(src, in, probes, b, rb)
    BY ProbeRuns DEF Alike
  <1> HIDE DEF ra, rb, out
  <1>2. ra.ok = rb.ok /\ ra.val = rb.val /\ ra.fired = rb.fired
    <2>1. \/ src.probe \notin DOMAIN probes \/ (Runs(src, in, probes) /\ out = Failed)
          \/ src.probe \in DOMAIN probes /\ in.chunked
          \/ src.probe \in DOMAIN probes /\ ~in.chunked /\ TooLarge(in, probes, src.probe)
          \/ Runs(src, in, probes) /\ out # Failed
      BY DEF Runs
    <2> QED
      BY <1>1, <2>1 DEF ProbeRan, Alike, out
  <1>3. Alike(in.path, ra, rb)
    BY <1>1, <1>2 DEF ProbeRan, Alike
  <1> QED
    BY <1>3 DEF ra, rb

PlainSource(src) ==
  /\ src.k \in {"constant", "probe", "user", "field"}
  /\ src.k = "probe" => src.path = 0

LEMMA ValueAlike ==
  ASSUME NEW path, NEW a, NEW b, Alike(path, a, b), NEW v
  PROVE  Alike(path, [a EXCEPT !.val = v], [b EXCEPT !.val = v])
  BY DEF Alike, IngFields

LEMMA SourceAlike ==
  ASSUME NEW in, NEW probes, NEW name, NEW k, NEW src, PlainSource(src),
         NEW a, NEW b, Alike(in.path, a, b)
  PROVE  Alike(in.path, ResolveSource(name, k, src, in, probes, a), ResolveSource(name, k, src, in, probes, b))
  <1>1. CASE src.k = "probe"
    <2>1. /\ ResolveSource(name, k, src, in, probes, a) = ResolveProbe(src, in, probes, a)
          /\ ResolveSource(name, k, src, in, probes, b) = ResolveProbe(src, in, probes, b)
      BY <1>1 DEF ResolveSource
    <2>2. src.path = 0
      BY <1>1 DEF PlainSource
    <2> QED
      BY <2>1, <2>2, ProbeAlike
  <1>2. CASE src.k # "probe"
    <2>1. a.resolved = b.resolved
      BY DEF Alike
    <2>2. \E v : /\ ResolveSource(name, k, src, in, probes, a) = [a EXCEPT !.val = v]
                 /\ ResolveSource(name, k, src, in, probes, b) = [b EXCEPT !.val = v]
      BY <1>2, <2>1 DEF ResolveSource, PlainSource
    <2> QED
      BY <2>2, ValueAlike
  <1> QED
    BY <1>1, <1>2

LEMMA TryAlike ==
  ASSUME NEW in, NEW probes, NEW name, NEW k, NEW field, PlainSource(field.chain[k]),
         NEW a, NEW b, Alike(in.path, a, b)
  PROVE  Alike(in.path, TrySource(name, k, field, in, probes, a), TrySource(name, k, field, in, probes, b))
  <1>1. a.ok = b.ok /\ a.val = b.val
    BY DEF Alike
  <1> QED
    BY <1>1, SourceAlike DEF TrySource

PlainField(field) ==
  /\ Len(field.chain) \in Nat
  /\ \A k \in 1 .. Len(field.chain) : PlainSource(field.chain[k])

LEMMA FieldAlike ==
  ASSUME NEW in, NEW probes, NEW name, NEW field, PlainField(field),
         NEW a, NEW b, Alike(in.path, a, b)
  PROVE  Alike(in.path, ResolveField(name, field, in, probes, a), ResolveField(name, field, in, probes, b))
  <1> DEFINE N == Len(field.chain)
  <1>1. N \in Nat
    BY DEF PlainField
  <1>a. PICK ta : Tried(in, probes, name, field, a, ta)
    BY <1>1, FieldTried, Zenon
  <1>b. PICK tb : Tried(in, probes, name, field, b, tb)
    BY <1>1, FieldTried, Zenon
  <1>2. /\ ResolveField(name, field, in, probes, a) = ta[N]
        /\ ta[0] = a
        /\ \A k \in 1 .. N : ta[k] = TrySource(name, k, field, in, probes, ta[k - 1])
    BY <1>a, Zenon DEF Tried
  <1>3. /\ ResolveField(name, field, in, probes, b) = tb[N]
        /\ tb[0] = b
        /\ \A k \in 1 .. N : tb[k] = TrySource(name, k, field, in, probes, tb[k - 1])
    BY <1>b, Zenon DEF Tried
  <1> DEFINE S == {k \in Nat : k <= N => Alike(in.path, ta[k], tb[k])}
  <1>4. 0 \in S
    BY <1>2, <1>3
  <1>5. ASSUME NEW k \in Nat, k \in S
        PROVE  k + 1 \in S
    <2> SUFFICES ASSUME k + 1 <= N PROVE Alike(in.path, ta[k + 1], tb[k + 1])
      OBVIOUS
    <2>1. PICK j : j = k + 1
      OBVIOUS
    <2>2. j \in 1 .. N /\ j - 1 = k /\ k <= N
      BY <1>1, <2>1
    <2>3. /\ ta[j] = TrySource(name, j, field, in, probes, ta[k])
          /\ tb[j] = TrySource(name, j, field, in, probes, tb[k])
      BY <1>2, <1>3, <2>2
    <2>4. Alike(in.path, ta[k], tb[k])
      BY <1>5, <2>2
    <2>5. PlainSource(field.chain[j])
      BY <2>2 DEF PlainField
    <2>6. Alike(in.path, ta[j], tb[j])
      BY <2>3, <2>4, <2>5, TryAlike
    <2> QED
      BY <2>1, <2>6
  <1> HIDE DEF S
  <1>6. N \in S
    BY <1>1, <1>4, <1>5, Induction
  <1> QED
    BY <1>1, <1>2, <1>3, <1>6 DEF S

LEMMA IngestFieldAlike ==
  ASSUME NEW in, NEW probes, NEW n, NEW field, PlainField(field),
         NEW a, NEW b, Alike(in.path, a, b)
  PROVE  Alike(in.path, IngestField(n, field, in, probes, a), IngestField(n, field, in, probes, b))
  <1> DEFINE ra == ResolveField(n, field, in, probes, a)
             rb == ResolveField(n, field, in, probes, b)
             bad == ~ra.ok \/ (field.required /\ ra.val = Null) \/ ~Accepts(field.type, ra.val)
             na == IngestField(n, field, in, probes, a)
             nb == IngestField(n, field, in, probes, b)
  <1>1. Alike(in.path, ra, rb)
    BY FieldAlike
  <1>2. ra.ok = rb.ok /\ ra.val = rb.val /\ a.ok = b.ok
    BY <1>1 DEF Alike
  <1>3. CASE ~a.ok
    <2>1. na = a /\ nb = b
      BY <1>2, <1>3 DEF IngestField, KeepField
    <2> QED
      BY <2>1
  <1>4. CASE a.ok /\ bad
    <2>1. na = Fail(ra) /\ nb = Fail(rb)
      BY <1>2, <1>4 DEF IngestField, KeepField
    <2> HIDE DEF ra, rb, na, nb
    <2>2. Alike(in.path, na, nb)
      BY <1>1, <2>1 DEF Alike, Fail, IngFields
    <2> QED
      BY <2>2 DEF na, nb
  <1>5. CASE a.ok /\ ~bad
    <2> DEFINE v == NormalizeValue(ra.val, field.type)
    <2>1. na = [ra EXCEPT !.resolved = Put(@, n, v)] /\ nb = [rb EXCEPT !.resolved = Put(@, n, v)]
      BY <1>2, <1>5 DEF IngestField, KeepField
    <2> HIDE DEF ra, rb, na, nb, v
    <2>2. Alike(in.path, na, nb)
      BY <1>1, <2>1 DEF Alike, IngFields
    <2> QED
      BY <2>2 DEF na, nb
  <1> QED
    BY <1>3, <1>4, <1>5

LEMMA FieldsAlike ==
  ASSUME NEW in, NEW probes, NEW fields, WellFormed(fields), ParseAccepts(fields),
         \A n \in DOMAIN fields : PlainField(fields[n]),
         NEW ca, CacheExact(in.path, ca), NEW cb, CacheExact(in.path, cb)
  PROVE  Alike(in.path, IngestFields(in, fields, probes, ca), IngestFields(in, fields, probes, cb))
  <1> DEFINE D   == DOMAIN fields
             out == TopoSort(fields)
             N   == Len(out)
  <1>1. out \in Seq(D)
    BY WellFormedFields, TopoSorted DEF FieldsOK, SortOK
  <1> HIDE DEF out
  <1>2. N \in Nat /\ \A i \in 1 .. N : out[i] \in D
    BY <1>1, LenProperties
  <1>a. PICK ta : Turned(in, fields, probes, ca, ta)
    BY <1>2, FieldsTurned, Zenon DEF out
  <1>b. PICK tb : Turned(in, fields, probes, cb, tb)
    BY <1>2, FieldsTurned, Zenon DEF out
  <1>3. /\ IngestFields(in, fields, probes, ca) = ta[N]
        /\ ta[0] = Started(ca)
        /\ \A i \in 1 .. N : ta[i] = IngestField(out[i], fields[out[i]], in, probes, ta[i - 1])
    BY <1>a, Zenon DEF Turned, out
  <1>4. /\ IngestFields(in, fields, probes, cb) = tb[N]
        /\ tb[0] = Started(cb)
        /\ \A i \in 1 .. N : tb[i] = IngestField(out[i], fields[out[i]], in, probes, tb[i - 1])
    BY <1>b, Zenon DEF Turned, out
  <1> DEFINE S == {i \in Nat : i <= N => Alike(in.path, ta[i], tb[i])}
  <1>5. 0 \in S
    <2>1. Alike(in.path, Started(ca), Started(cb))
      BY DEF Alike, Started, IngFields
    <2> QED
      BY <1>3, <1>4, <2>1
  <1>6. ASSUME NEW i \in Nat, i \in S
        PROVE  i + 1 \in S
    <2> SUFFICES ASSUME i + 1 <= N PROVE Alike(in.path, ta[i + 1], tb[i + 1])
      OBVIOUS
    <2>1. PICK j : j = i + 1
      OBVIOUS
    <2>2. j \in 1 .. N /\ j - 1 = i /\ i <= N
      BY <1>2, <2>1
    <2>3. /\ ta[j] = IngestField(out[j], fields[out[j]], in, probes, ta[i])
          /\ tb[j] = IngestField(out[j], fields[out[j]], in, probes, tb[i])
      BY <1>3, <1>4, <2>2
    <2>4. Alike(in.path, ta[i], tb[i])
      BY <1>6, <2>2
    <2>5. PlainField(fields[out[j]])
      BY <1>2, <2>2
    <2>6. Alike(in.path, ta[j], tb[j])
      BY <2>3, <2>4, <2>5, IngestFieldAlike
    <2> QED
      BY <2>1, <2>6
  <1> HIDE DEF S
  <1>7. N \in S
    BY <1>2, <1>5, <1>6, Induction
  <1> QED
    BY <1>2, <1>3, <1>4, <1>7 DEF S

PlainSchema(schema) ==
  Usable(schema) /\ \A n \in DOMAIN schema.fields : PlainField(schema.fields[n])

SameResult(a, b) == a.ok = b.ok /\ a.manifest = b.manifest

LEMMA IngestAlike ==
  ASSUME NEW in, NEW probes, NEW schema, PlainSchema(schema),
         NEW ca, CacheExact(in.path, ca), NEW cb, CacheExact(in.path, cb)
  PROVE  SameResult(IngestWithCache(in, schema, probes, ca), IngestWithCache(in, schema, probes, cb))
  <1> DEFINE a     == IngestFields(in, schema.fields, probes, ca)
             b     == IngestFields(in, schema.fields, probes, cb)
             extra == Restrict(in.user, DOMAIN in.user \ DOMAIN schema.fields)
  <1>1. Alike(in.path, a, b)
    BY FieldsAlike DEF PlainSchema, Usable
  <1>2. /\ IngestWithCache(in, schema, probes, ca).ok = (a.ok /\ (schema.extra \/ extra = <<>>))
        /\ IngestWithCache(in, schema, probes, cb).ok = (b.ok /\ (schema.extra \/ extra = <<>>))
        /\ IngestWithCache(in, schema, probes, ca).manifest = Manifest(in, schema, [a EXCEPT !.resolved = Over(@, extra)])
        /\ IngestWithCache(in, schema, probes, cb).manifest = Manifest(in, schema, [b EXCEPT !.resolved = Over(@, extra)])
    BY DEF IngestWithCache, IngestResult
  <1> HIDE DEF a, b, extra
  <1>3. Manifest(in, schema, [a EXCEPT !.resolved = Over(@, extra)]) = Manifest(in, schema, [b EXCEPT !.resolved = Over(@, extra)])
    BY <1>1 DEF Manifest, Alike, IngFields
  <1> QED
    BY <1>1, <1>2, <1>3 DEF Alike, SameResult

---------------------------------------------------------------------------
(* What a reprobe puts in the cache before it ingests a file.               *)

Seeded(path, old, new, m, probes, cache, seeded) ==
  LET order == TopoSort(new.fields) IN
  /\ SeedCache(path, old, new, m, probes, cache) = seeded[Len(order)]
  /\ seeded[0] = cache
  /\ \A i \in 1 .. Len(order) :
        seeded[i] = SeedField(order[i], path, old, new, m, probes, seeded[i - 1])

LEMMA CacheSeeded ==
  ASSUME NEW path, NEW old, NEW new, NEW m, NEW probes, NEW cache, Len(TopoSort(new.fields)) \in Nat
  PROVE  \E seeded : Seeded(path, old, new, m, probes, cache, seeded)
  <1> DEFINE out   == TopoSort(new.fields)
             N     == Len(out)
             Step(i, c) == SeedField(out[i], path, old, new, m, probes, c)
             Body(f, i) == IF i = 0 THEN cache ELSE Step(i, f[i - 1])
             seeded == CHOOSE f : f = [i \in 0 .. N |-> Body(f, i)]
             T == {n \in Nat : \E f : f = [i \in 0 .. n |-> Body(f, i)]}
  <1>1. SeedCache(path, old, new, m, probes, cache) = seeded[N]
    BY DEF SeedCache
  <1> HIDE DEF N, Step, out
  <1>2. 0 \in T
    <2> DEFINE f == [i \in 0 .. 0 |-> cache]
    <2>1. f = [i \in 0 .. 0 |-> Body(f, i)]
      OBVIOUS
    <2> HIDE DEF f
    <2> QED
      BY <2>1
  <1>3. ASSUME NEW n \in Nat, n \in T
        PROVE  n + 1 \in T
    <2>1. PICK f : f = [i \in 0 .. n |-> Body(f, i)]
      BY <1>3
    <2> DEFINE g == [i \in 0 .. n + 1 |-> IF i = n + 1 THEN Step(i, f[n]) ELSE f[i]]
    <2>2. ASSUME NEW i \in 0 .. n + 1
          PROVE  g[i] = Body(g, i)
      <3>1. CASE i = n + 1
        <4>1. i # 0 /\ i - 1 = n /\ n \in 0 .. n + 1 /\ n # n + 1
          BY <3>1
        <4>2. g[n] = f[n] /\ g[i] = Step(i, f[n])
          BY <3>1, <4>1
        <4> QED
          BY <4>1, <4>2, Zenon
      <3>2. CASE i # n + 1
        <4>1. i \in 0 .. n
          BY <3>2
        <4>2. f[i] = Body(f, i)
          BY <2>1, <4>1, Zenon
        <4>3. g[i] = f[i] /\ (i # 0 => g[i - 1] = f[i - 1])
          BY <3>2, <4>1
        <4> QED
          BY <4>2, <4>3, Zenon
      <3> QED
        BY <3>1, <3>2
    <2>3. g = [i \in 0 .. n + 1 |-> g[i]]
      OBVIOUS
    <2> HIDE DEF g
    <2>4. g = [i \in 0 .. n + 1 |-> Body(g, i)]
      BY <2>2, <2>3, Zenon
    <2> QED
      BY <2>4
  <1> HIDE DEF T
  <1>4. N \in Nat /\ N \in T
    BY <1>2, <1>3, Induction DEF N, out
  <1>5. seeded = [i \in 0 .. N |-> Body(seeded, i)]
    BY <1>4 DEF T
  <1> HIDE DEF seeded
  <1>6. \A i \in 0 .. N : seeded[i] = Body(seeded, i)
    BY <1>5, Zenon
  <1>7. seeded[0] = cache
    <2>1. 0 \in 0 .. N
      BY <1>4
    <2> QED
      BY <1>6, <2>1, Zenon
  <1>8. \A i \in 1 .. N : seeded[i] = Step(i, seeded[i - 1])
    <2>1. \A i \in 1 .. N : i \in 0 .. N /\ i # 0
      BY <1>4
    <2> QED
      BY <1>6, <2>1, Zenon
  <1> QED
    BY <1>1, <1>7, <1>8, Zenon DEF N, out, Step, Seeded

(* What may be seeded at a path, and is, is true or exact there; elsewhere  *)
(* nothing is.                                                              *)
SeedsTrue(path, at, old, new, m, probes) ==
  \A n \in Reused(old, new, m, probes) :
    LET src == SourceAt(new, n) IN
    src.k = "probe" /\ EffectivePath(src, [path |-> path]) = at =>
      Near(m.fields[n], RunProbe(probes[src.probe].wasm, m.source[1], at))

SeedsExact(path, at, old, new, m, probes) ==
  \A n \in Reused(old, new, m, probes) :
    LET src == SourceAt(new, n) IN
    src.k = "probe" /\ EffectivePath(src, [path |-> path]) = at =>
      /\ m.fields[n] # Failed
      /\ m.fields[n] = RunProbe(probes[src.probe].wasm, m.source[1], at)

LEMMA SeedStep ==
  ASSUME NEW n, NEW path, NEW at, NEW old, NEW new, NEW m, NEW probes, NEW cache
  PROVE  LET c == SeedField(n, path, old, new, m, probes, cache)
         IN  /\ SeedsTrue(path, at, old, new, m, probes) /\ CacheTrue(at, cache) => CacheTrue(at, c)
             /\ SeedsExact(path, at, old, new, m, probes) /\ CacheExact(at, cache) => CacheExact(at, c)
  <1> DEFINE src == SourceAt(new, n)
             ep  == EffectivePath(src, [path |-> path])
             key == CacheKey(m.source, probes[src.probe].wasm, ep)
             c   == SeedField(n, path, old, new, m, probes, cache)
             ran(k) == RunProbe(k[2], k[1][1], k[3])
  <1>1. CASE ~(n \in Reused(old, new, m, probes) /\ src.k = "probe")
    <2>1. c = cache
      BY <1>1 DEF SeedField
    <2> QED
      BY <2>1
  <1>2. CASE n \in Reused(old, new, m, probes) /\ src.k = "probe"
    <2>1. c = Put(cache, key, m.fields[n])
      BY <1>2 DEF SeedField
    <2>2. key[1] = m.source /\ key[2] = probes[src.probe].wasm /\ key[3] = ep
      BY DEF CacheKey
    <2>3. ran(key) = RunProbe(probes[src.probe].wasm, m.source[1], ep)
      BY <2>2
    <2> HIDE DEF key, c
    <2>4. /\ DOMAIN c = DOMAIN cache \cup {key}
          /\ c[key] = m.fields[n]
          /\ \A k \in DOMAIN cache : k # key => c[k] = cache[k]
      BY <2>1 DEF Put
    <2>5. ASSUME SeedsTrue(path, at, old, new, m, probes), CacheTrue(at, cache)
          PROVE  CacheTrue(at, c)
      <3>1. key[3] = at => Near(c[key], ran(key))
        BY <1>2, <2>2, <2>3, <2>4, <2>5 DEF SeedsTrue
      <3> QED
        BY <2>4, <2>5, <3>1 DEF CacheTrue
    <2>6. ASSUME SeedsExact(path, at, old, new, m, probes), CacheExact(at, cache)
          PROVE  CacheExact(at, c)
      <3>1. key[3] = at => c[key] # Failed /\ c[key] = ran(key)
        BY <1>2, <2>2, <2>3, <2>4, <2>6 DEF SeedsExact
      <3> QED
        BY <2>4, <2>6, <3>1 DEF CacheExact
    <2> QED
      BY <2>5, <2>6 DEF c
  <1> QED
    BY <1>1, <1>2

LEMMA SeedKeeps ==
  ASSUME NEW path, NEW at, NEW old, NEW new, Usable(new), NEW m, NEW probes, NEW cache
  PROVE  LET c == SeedCache(path, old, new, m, probes, cache)
         IN  /\ SeedsTrue(path, at, old, new, m, probes) /\ CacheTrue(at, cache) => CacheTrue(at, c)
             /\ SeedsExact(path, at, old, new, m, probes) /\ CacheExact(at, cache) => CacheExact(at, c)
  <1> DEFINE out == TopoSort(new.fields)
             N   == Len(out)
             st  == SeedsTrue(path, at, old, new, m, probes)
             se  == SeedsExact(path, at, old, new, m, probes)
             OK(c) == /\ st /\ CacheTrue(at, cache) => CacheTrue(at, c)
                      /\ se /\ CacheExact(at, cache) => CacheExact(at, c)
  <1>1. N \in Nat
    BY WellFormedFields, TopoSorted, LenProperties DEF FieldsOK, SortOK, Usable
  <1>2. PICK seeded : Seeded(path, old, new, m, probes, cache, seeded)
    BY <1>1, CacheSeeded, Zenon
  <1>3. /\ SeedCache(path, old, new, m, probes, cache) = seeded[N]
        /\ seeded[0] = cache
        /\ \A i \in 1 .. N : seeded[i] = SeedField(out[i], path, old, new, m, probes, seeded[i - 1])
    BY <1>2, Zenon DEF Seeded
  <1> HIDE DEF out, N, st, se
  <1> DEFINE S == {i \in Nat : i <= N => OK(seeded[i])}
  <1>4. 0 \in S
    BY <1>3
  <1>5. ASSUME NEW i \in Nat, i \in S
        PROVE  i + 1 \in S
    <2> SUFFICES ASSUME i + 1 <= N PROVE OK(seeded[i + 1])
      OBVIOUS
    <2>1. PICK j : j = i + 1
      OBVIOUS
    <2>2. j \in 1 .. N /\ j - 1 = i /\ i <= N
      BY <1>1, <2>1
    <2>3. seeded[j] = SeedField(out[j], path, old, new, m, probes, seeded[i])
      BY <1>3, <2>2
    <2>4. OK(seeded[i])
      BY <1>5, <2>2
    <2>5. OK(seeded[j])
      BY <2>3, <2>4, SeedStep DEF st, se
    <2> QED
      BY <2>1, <2>5
  <1> HIDE DEF S
  <1>6. N \in S
    BY <1>1, <1>4, <1>5, Induction
  <1>7. OK(seeded[N])
    BY <1>1, <1>6 DEF S
  <1> QED
    BY <1>3, <1>7 DEF st, se

---------------------------------------------------------------------------
(* What the proofs know of HEAD and the index.                              *)

AllSchemas == Schemas \cup InitialSchemas \cup Range(Starters) \cup {MinimalSchema}

NamedBlobs ==
  {<<p, StarterProbes[p]>> : p \in DOMAIN StarterProbes}
    \cup {<<p, InitialProbes[p]>> : p \in DOMAIN InitialProbes}
    \cup {<<b.probe, b.blob>> : b \in ProbeBlobs}

SchemaOK(schema) == schema \in AllSchemas /\ Usable(schema)

(* Of a manifest: its source, its derived fields, and no field failed.      *)
FileOK(m) ==
  /\ m.source[1] \in Contents
  /\ DerivedIn(m)
  /\ \A n \in DOMAIN m.schema.fields : FieldOf(m, n) # Failed

Parts == {"schemas", "probes", "files", "config"}

StateInv ==
  /\ commits \in Nat
  /\ DOMAIN head = Parts /\ DOMAIN staged = Parts
  /\ DOMAIN head.files \subseteq Paths /\ DOMAIN staged.files \subseteq Paths
  /\ DOMAIN staged.schemas \subseteq Nat /\ IsFiniteSet(DOMAIN staged.schemas)
  /\ \A t \in DOMAIN staged.schemas : staged.schemas[t].type = t /\ SchemaOK(staged.schemas[t])
  /\ DOMAIN head.schemas \subseteq Nat
  /\ \A t \in DOMAIN head.schemas : SchemaOK(head.schemas[t])
  /\ \A p \in DOMAIN head.probes : <<p, head.probes[p]>> \in NamedBlobs
  /\ \A p \in DOMAIN staged.probes : <<p, staged.probes[p]>> \in NamedBlobs

FilesInv ==
  /\ \A p \in DOMAIN head.files : FileOK(head.files[p])
  /\ \A p \in DOMAIN staged.files : FileOK(staged.files[p])

LEMMA IngestOK ==
  ASSUME NEW in, NEW probes, NEW cache, NEW schema, Usable(schema), in.content \in Contents,
         IngestWithCache(in, schema, probes, cache).ok
  PROVE  FileOK(IngestWithCache(in, schema, probes, cache).manifest)
  <1> DEFINE m == IngestWithCache(in, schema, probes, cache).manifest
  <1>1. /\ m.schema = schema /\ m.source = SourceHash(in)
        /\ DerivedIn(m)
        /\ \A n \in DOMAIN schema.fields : FieldOf(m, n) # Failed
    BY Ingested
  <1> HIDE DEF m
  <1>2. FileOK(m)
    BY <1>1 DEF FileOK, SourceHash
  <1> QED
    BY <1>2 DEF m

LEMMA LoadedOK ==
  ASSUME StateInv
  PROVE  /\ \A t \in DOMAIN LoadAllSchemas : SchemaOK(LoadAllSchemas[t])
         /\ \A p \in DOMAIN CurrentProbes : <<p, CurrentProbes[p]>> \in NamedBlobs
  <1>1. ASSUME NEW t \in DOMAIN LoadAllSchemas
        PROVE  SchemaOK(LoadAllSchemas[t])
    <2>1. CASE t \in DOMAIN head.schemas
      <3>1. LoadAllSchemas[t] = head.schemas[t]
        BY <1>1, <2>1 DEF LoadAllSchemas, Over
      <3> QED
        BY <2>1, <3>1 DEF StateInv
    <2>2. CASE t \notin DOMAIN head.schemas
      <3>1. t \in DOMAIN Starters /\ LoadAllSchemas[t] = Starters[t]
        BY <1>1, <2>2 DEF LoadAllSchemas, Over
      <3>2. Starters[t] \in Range(Starters)
        BY <3>1 DEF Range
      <3>3. Usable(Starters[t]) /\ Starters[t] \in AllSchemas
        BY <3>2, SchemasAssumption DEF SchemasAssumption, Usable, AllSchemas
      <3> QED
        BY <3>1, <3>3 DEF SchemaOK
    <2> QED
      BY <2>1, <2>2
  <1>2. ASSUME NEW p \in DOMAIN CurrentProbes
        PROVE  <<p, CurrentProbes[p]>> \in NamedBlobs
    <2>1. CASE p \in DOMAIN head.probes
      <3>1. CurrentProbes[p] = head.probes[p]
        BY <1>2, <2>1 DEF CurrentProbes, Over
      <3> QED
        BY <2>1, <3>1 DEF StateInv
    <2>2. CASE p \notin DOMAIN head.probes
      <3>1. p \in DOMAIN StarterProbes /\ CurrentProbes[p] = StarterProbes[p]
        BY <1>2, <2>2 DEF CurrentProbes, Over
      <3> QED
        BY <3>1 DEF NamedBlobs
    <2> QED
      BY <2>1, <2>2
  <1> QED
    BY <1>1, <1>2

---------------------------------------------------------------------------
(* The schemas that come with the program call probes without a path        *)
(* argument, and with no fallback behind them.                              *)
PlainProbes ==
  \A s \in AllSchemas : \A n \in DOMAIN s.fields :
    /\ \A src \in Range(s.fields[n].chain) : src.k = "probe" => src.path = 0
    /\ Primary(s.fields[n]).k = "probe" => Len(s.fields[n].chain) = 1

(* A probe that fills a float field does not give whole numbers.            *)
FloatProbes ==
  \A s \in AllSchemas : \A n \in DOMAIN s.fields :
    s.fields[n].type = "float" /\ Primary(s.fields[n]).k = "probe" =>
      \A b \in NamedBlobs : b[1] = Primary(s.fields[n]).probe =>
        \A c \in Contents, path \in Paths : Outcome(b[2].wasm, c, path).t # "int"

(* Made by the schema at HEAD from the start.                               *)
Faithful(path) == MadeAtHead(path) /\ path \notin drifted

LEMMA PrimaryInRange ==
  ASSUME NEW s, WellFormed(s.fields), NEW n \in DOMAIN s.fields
  PROVE  Primary(s.fields[n]) \in Range(s.fields[n].chain)
  <1>1. 1 \in DOMAIN s.fields[n].chain
    BY WellFormedFields DEF FieldsOK
  <1> QED
    BY <1>1 DEF Primary, Range

LEMMA PlainPath ==
  ASSUME PlainProbes, NEW s, SchemaOK(s), NEW n \in DOMAIN s.fields,
         Primary(s.fields[n]).k = "probe"
  PROVE  /\ Len(s.fields[n].chain) = 1
         /\ Primary(s.fields[n]).path = 0
         /\ \A in : EffectivePath(Primary(s.fields[n]), in) = in.path
  <1>1. Primary(s.fields[n]) \in Range(s.fields[n].chain)
    BY PrimaryInRange DEF SchemaOK, Usable
  <1>2. Len(s.fields[n].chain) = 1 /\ Primary(s.fields[n]).path = 0
    BY <1>1 DEF PlainProbes, SchemaOK
  <1> QED
    BY <1>2 DEF EffectivePath

LEMMA PlainFields ==
  ASSUME PlainProbes, NEW s, SchemaOK(s), NEW n \in DOMAIN s.fields
  PROVE  PlainField(s.fields[n])
  <1> DEFINE chain == s.fields[n].chain
  <1>1. ChainOK(s.fields[n])
    BY ChainsOK DEF SchemaOK, Usable
  <1>2. chain \in Seq(Range(chain))
    BY DEF SchemaOK, Usable, WellFormed
  <1>3. \A k \in 1 .. Len(chain) : chain[k] \in Range(chain)
    BY <1>2, LenProperties DEF Range
  <1>4. \A src \in Range(chain) : src.k = "probe" => src.path = 0
    BY DEF PlainProbes, SchemaOK
  <1> QED
    BY <1>1, <1>3, <1>4 DEF PlainField, PlainSource, ChainOK

(* A reprobe of one path seeds nothing for another.                         *)
LEMMA SeedsElsewhere ==
  ASSUME PlainProbes, NEW new, SchemaOK(new), NEW path, NEW at, at # path,
         NEW old, NEW m, NEW probes
  PROVE  SeedsTrue(path, at, old, new, m, probes) /\ SeedsExact(path, at, old, new, m, probes)
  <1>1. ASSUME NEW n \in Reused(old, new, m, probes), SourceAt(new, n).k = "probe"
        PROVE  EffectivePath(SourceAt(new, n), [path |-> path]) # at
    <2>1. n \in DOMAIN new.fields
      BY DEF Reused
    <2>2. EffectivePath(SourceAt(new, n), [path |-> path]) = path
      BY <1>1, <2>1, PlainPath DEF SourceAt
    <2> QED
      BY <2>2
  <1> QED
    BY <1>1 DEF SeedsTrue, SeedsExact

(* What is seeded for a file that HEAD's schema made and that replays.      *)
LEMMA SeedsHere ==
  ASSUME PlainProbes, StateInv, FilesInv, NEW path \in DOMAIN head.files, Faithful(path),
         Replays(path, head.files[path]), ~head.files[path].source[2], NEW new
  PROVE  LET m   == head.files[path]
             old == OldSchema(m.type)
         IN  /\ SeedsTrue(path, path, old, new, m, CurrentProbes)
             /\ FloatProbes => SeedsExact(path, path, old, new, m, CurrentProbes)
  <1> DEFINE m   == head.files[path]
             old == OldSchema(m.type)
  <1>1. /\ old = LoadAllSchemas[m.type] /\ m.type \in DOMAIN LoadAllSchemas
        /\ m.schema.fields = old.fields
    BY DEF Faithful, MadeAtHead, SchemasEqual, OldSchema
  <1>2. SchemaOK(old)
    BY <1>1, LoadedOK
  <1>3. FileOK(m)
    BY DEF FilesInv
  <1> HIDE DEF old, m
  <1>4. ASSUME NEW n \in Reused(old, new, m, CurrentProbes), SourceAt(new, n).k = "probe"
        PROVE  LET out == RunProbe(CurrentProbes[SourceAt(new, n).probe].wasm, m.source[1], path)
               IN  /\ m.fields[n] = NormalizeValue(out, old.fields[n].type)
                   /\ m.fields[n] # Failed
                   /\ FloatProbes /\ old.fields[n].type = "float" => out.t # "int"
    <2> DEFINE src == SourceAt(new, n)
               p   == src.probe
               f   == old.fields[n]
               out == RunProbe(CurrentProbes[p].wasm, m.source[1], path)
    <2>1. /\ n \in DOMAIN old.fields /\ n \in DOMAIN m.fields
          /\ Primary(f) = src /\ src.k = "probe"
          /\ p \in DOMAIN CurrentProbes /\ p \in DOMAIN m.probes
          /\ m.probes[p] = CurrentProbes[p].wasm
      BY <1>4 DEF Reused, SourceAt
    <2>2. Len(f.chain) = 1 /\ EffectivePath(src, [path |-> path]) = path
      BY <1>2, <2>1, PlainPath
    <2> HIDE DEF f, src, p
    <2>3. FieldOf(m, n) = NormalizeValue(Replayed(path, m, src), f.type)
      BY <1>1, <2>1, <2>2 DEF Replays, m, f
    <2>4. Replayed(path, m, src) = out
      BY <2>1, <2>2 DEF Replayed, m, p
    <2>5. FieldOf(m, n) = m.fields[n]
      BY <2>1 DEF FieldOf
    <2>6. m.fields[n] # Failed
      BY <1>1, <1>3, <2>1, <2>5 DEF FileOK
    <2>7. ASSUME FloatProbes, f.type = "float"
          PROVE  out.t # "int"
      <3>1. <<p, CurrentProbes[p]>> \in NamedBlobs
        BY <2>1, LoadedOK
      <3>2. m.source[1] \in Contents /\ path \in Paths
        BY <1>3 DEF FileOK, StateInv
      <3>3. Outcome(CurrentProbes[p].wasm, m.source[1], path).t # "int"
        <4>1. old \in AllSchemas /\ n \in DOMAIN old.fields /\ Primary(old.fields[n]).probe = p
              /\ Primary(old.fields[n]).k = "probe" /\ old.fields[n].type = "float"
          BY <1>2, <2>1, <2>7 DEF SchemaOK, f, p
        <4> DEFINE b == <<p, CurrentProbes[p]>>
        <4>2. b[1] = p /\ b[2] = CurrentProbes[p] /\ b \in NamedBlobs
          BY <3>1
        <4> HIDE DEF b
        <4>3. \A c \in Contents, q \in Paths : Outcome(b[2].wasm, c, q).t # "int"
          BY <2>7, <4>1, <4>2 DEF FloatProbes
        <4> QED
          BY <3>2, <4>2, <4>3
      <3>4. Failed.t # "int"
        BY DEF Failed, Value
      <3> QED
        BY <3>3, <3>4 DEF RunProbe
    <2> QED
      BY <2>3, <2>4, <2>5, <2>6, <2>7 DEF f, p, src
  <1>5. SeedsTrue(path, path, old, new, m, CurrentProbes)
    BY <1>4 DEF SeedsTrue, Near, NormalizeValue
  <1>6. FloatProbes => SeedsExact(path, path, old, new, m, CurrentProbes)
    BY <1>4 DEF SeedsExact, NormalizeValue
  <1> QED
    BY <1>5, <1>6 DEF old, m

---------------------------------------------------------------------------
(* One file of the walk.                                                    *)

PassParts == {"cache", "files", "skipped"}

Reopened(path, new) == head.files[path].type = new.type /\ head.files[path].schema # new

(* What a file that is ingested again becomes, with nothing in the cache.   *)
UserValuesOf(m) ==
  Restrict(m.fields, {n \in DOMAIN m.fields \cap DOMAIN m.schema.fields :
                          SourceAt(m.schema, n) = UserProvided})

FreshOf(path) ==
  LET m == head.files[path]
  IN  IngestWithCache(IngestInput(path, m.source[1], UserValuesOf(m), FALSE),
                      staged.schemas[m.type], CurrentProbes, <<>>)

Rebuilt(path, pass) ==
  IF ~head.files[path].source[2] /\ FreshOf(path).ok
  THEN path \in DOMAIN pass.files /\ pass.files[path] = FreshOf(path).manifest
  ELSE path \in pass.skipped /\ path \notin DOMAIN pass.files

(* A visit to a path leaves what there is for the others.                   *)
Elsewhere(path, a, b) ==
  \A p : p # path =>
    /\ p \in DOMAIN b.files <=> p \in DOMAIN a.files
    /\ p \in DOMAIN a.files => b.files[p] = a.files[p]
    /\ p \in b.skipped <=> p \in a.skipped
    /\ PlainProbes /\ CacheTrue(p, a.cache) => CacheTrue(p, b.cache)
    /\ PlainProbes /\ CacheExact(p, a.cache) => CacheExact(p, b.cache)

(* The three branches of reprobe's loop body.                               *)
LEMMA VisitSame ==
  ASSUME NEW pass, NEW path, NEW new, ~Reopened(path, new)
  PROVE  ReprobeFile(pass, path, new) = pass
  BY DEF ReprobeFile, Reopened, TakeUp

LEMMA VisitSkips ==
  ASSUME NEW pass, NEW path, NEW new, Reopened(path, new), head.files[path].source[2]
  PROVE  ReprobeFile(pass, path, new) = [pass EXCEPT !.skipped = @ \cup {path}]
  BY DEF ReprobeFile, Reopened, TakeUp

LEMMA VisitIngests ==
  ASSUME NEW pass, NEW path, NEW new, Reopened(path, new), ~head.files[path].source[2]
  PROVE  LET r == ReprobeOne(path, new, head.files[path], CurrentProbes, pass.cache)
             v == ReprobeFile(pass, path, new)
         IN  /\ DOMAIN v = PassParts
             /\ v.cache = r.cache
             /\ r.ok => v.files = Put(pass.files, path, r.manifest) /\ v.skipped = pass.skipped
             /\ ~r.ok => v.files = pass.files /\ v.skipped = pass.skipped \cup {path}
  <1> DEFINE r == ReprobeOne(path, new, head.files[path], CurrentProbes, pass.cache)
             v == ReprobeFile(pass, path, new)
  <1>1. v = [cache   |-> r.cache,
             files   |-> IF r.ok THEN Put(pass.files, path, r.manifest) ELSE pass.files,
             skipped |-> IF r.ok THEN pass.skipped ELSE pass.skipped \cup {path}]
    BY DEF ReprobeFile, Reopened, TakeUp
  <1> HIDE DEF r, v
  <1>2. /\ DOMAIN v = PassParts
        /\ v.cache = r.cache
        /\ r.ok => v.files = Put(pass.files, path, r.manifest) /\ v.skipped = pass.skipped
        /\ ~r.ok => v.files = pass.files /\ v.skipped = pass.skipped \cup {path}
    BY <1>1 DEF PassParts
  <1> QED
    BY <1>2 DEF r, v

LEMMA ReprobeCache ==
  ASSUME NEW path, NEW at, at # path, NEW new, SchemaOK(new), NEW m, NEW cache, PlainProbes
  PROVE  LET c == ReprobeOne(path, new, m, CurrentProbes, cache).cache
         IN  /\ CacheTrue(at, cache) => CacheTrue(at, c)
             /\ CacheExact(at, cache) => CacheExact(at, c)
  <1> DEFINE old  == OldSchema(new.type)
             in   == IngestInput(path, m.source[1], CarriedUserFields(old, new, m), FALSE)
             seed == SeedCache(path, old, new, m, CurrentProbes, cache)
             c    == ReprobeOne(path, new, m, CurrentProbes, cache).cache
  <1>1. c = IngestWithCache(in, new, CurrentProbes, seed).cache
    BY DEF ReprobeOne
  <1>2. Usable(new)
    BY DEF SchemaOK
  <1>3. CacheKept(seed, c)
    BY <1>1, <1>2, IngestKeepsCache
  <1>4. /\ CacheTrue(at, cache) => CacheTrue(at, seed)
        /\ CacheExact(at, cache) => CacheExact(at, seed)
    BY <1>2, SeedKeeps, SeedsElsewhere
  <1> QED
    BY <1>3, <1>4 DEF CacheKept

LEMMA VisitElsewhere ==
  ASSUME NEW pass, DOMAIN pass = PassParts, NEW path, NEW new, SchemaOK(new)
  PROVE  LET v == ReprobeFile(pass, path, new)
         IN  DOMAIN v = PassParts /\ Elsewhere(path, pass, v)
  <1> DEFINE v == ReprobeFile(pass, path, new)
             r == ReprobeOne(path, new, head.files[path], CurrentProbes, pass.cache)
  <1>1. CASE ~Reopened(path, new)
    <2>1. v = pass
      BY <1>1, VisitSame
    <2> QED
      BY <2>1 DEF Elsewhere
  <1>2. CASE Reopened(path, new) /\ head.files[path].source[2]
    <2>1. v = [pass EXCEPT !.skipped = @ \cup {path}]
      BY <1>2, VisitSkips
    <2>2. /\ DOMAIN v = PassParts /\ v.cache = pass.cache /\ v.files = pass.files
          /\ v.skipped = pass.skipped \cup {path}
      BY <2>1 DEF PassParts
    <2> HIDE DEF v
    <2>3. Elsewhere(path, pass, v)
      BY <2>2 DEF Elsewhere
    <2> QED
      BY <2>2, <2>3 DEF v
  <1>3. CASE Reopened(path, new) /\ ~head.files[path].source[2]
    <2>1. /\ DOMAIN v = PassParts
          /\ v.cache = r.cache
          /\ r.ok => v.files = Put(pass.files, path, r.manifest) /\ v.skipped = pass.skipped
          /\ ~r.ok => v.files = pass.files /\ v.skipped = pass.skipped \cup {path}
      BY <1>3, VisitIngests
    <2>2. \A p : p # path /\ PlainProbes =>
             /\ CacheTrue(p, pass.cache) => CacheTrue(p, r.cache)
             /\ CacheExact(p, pass.cache) => CacheExact(p, r.cache)
      BY ReprobeCache
    <2> HIDE DEF v, r
    <2>3. CASE r.ok
      BY <2>1, <2>2, <2>3 DEF Elsewhere, Put, v
    <2>4. CASE ~r.ok
      BY <2>1, <2>2, <2>4 DEF Elsewhere, v
    <2> QED
      BY <2>3, <2>4 DEF v
  <1> QED
    BY <1>1, <1>2, <1>3

(* What a visit makes of the file itself.                                   *)
LEMMA ReprobeOK ==
  ASSUME FilesInv, NEW path \in DOMAIN head.files, NEW new, SchemaOK(new), NEW cache,
         ReprobeOne(path, new, head.files[path], CurrentProbes, cache).ok
  PROVE  FileOK(ReprobeOne(path, new, head.files[path], CurrentProbes, cache).manifest)
  <1> DEFINE m    == head.files[path]
             old  == OldSchema(new.type)
             in   == IngestInput(path, m.source[1], CarriedUserFields(old, new, m), FALSE)
             seed == SeedCache(path, old, new, m, CurrentProbes, cache)
  <1>1. ReprobeOne(path, new, m, CurrentProbes, cache) = IngestWithCache(in, new, CurrentProbes, seed)
    BY DEF ReprobeOne
  <1>2. in.content \in Contents
    BY DEF FilesInv, FileOK, IngestInput
  <1>3. Usable(new)
    BY DEF SchemaOK
  <1> HIDE DEF in, seed, old
  <1> QED
    BY <1>1, <1>2, <1>3, IngestOK

LEMMA ReprobeReplays ==
  ASSUME PlainProbes, StateInv, FilesInv, NEW path \in DOMAIN head.files, Faithful(path),
         Replays(path, head.files[path]), ~head.files[path].source[2],
         NEW new, SchemaOK(new), new.type = head.files[path].type,
         NEW cache, CacheTrue(path, cache),
         ReprobeOne(path, new, head.files[path], CurrentProbes, cache).ok
  PROVE  Replays(path, ReprobeOne(path, new, head.files[path], CurrentProbes, cache).manifest)
  <1> DEFINE m    == head.files[path]
             old  == OldSchema(new.type)
             in   == IngestInput(path, m.source[1], CarriedUserFields(old, new, m), FALSE)
             seed == SeedCache(path, old, new, m, CurrentProbes, cache)
             r    == ReprobeOne(path, new, m, CurrentProbes, cache)
             made == r.manifest
  <1>1. r = IngestWithCache(in, new, CurrentProbes, seed)
    BY DEF ReprobeOne
  <1>2. Usable(new)
    BY DEF SchemaOK
  <1>3. CacheTrue(path, seed)
    BY <1>2, SeedsHere, SeedKeeps
  <1>4. in.path = path /\ in.chunked = FALSE
    BY DEF IngestInput
  <1> HIDE DEF in, seed, old
  <1>5. /\ made.schema = new /\ made.source = SourceHash(in)
        /\ \A n \in DOMAIN new.fields :
             LET f == new.fields[n] IN
             /\ Len(f.chain) = 1
             /\ Primary(f).k = "probe"
             /\ CacheTrue(EffectivePath(Primary(f), in), seed)
             => FieldOf(made, n) = NormalizeValue(Replayed(in.path, made, Primary(f)), f.type)
    BY <1>1, <1>2, Ingested
  <1> HIDE DEF made, r
  <1>6. made.source[2] = FALSE
    BY <1>4, <1>5 DEF SourceHash
  <1>7. \A n \in DOMAIN new.fields : Primary(new.fields[n]).k = "probe" =>
           EffectivePath(Primary(new.fields[n]), in) = path
    BY <1>4, PlainPath
  <1>8. Replays(path, made)
    BY <1>3, <1>4, <1>5, <1>6, <1>7 DEF Replays
  <1> QED
    BY <1>8 DEF made, r

LEMMA ReprobeFresh ==
  ASSUME PlainProbes, FloatProbes, StateInv, FilesInv, NEW path \in DOMAIN head.files, Faithful(path),
         Replays(path, head.files[path]), ~head.files[path].source[2],
         NEW new, SchemaOK(new), new.type = head.files[path].type,
         new = staged.schemas[head.files[path].type],
         NEW cache, CacheExact(path, cache)
  PROVE  LET r == ReprobeOne(path, new, head.files[path], CurrentProbes, cache)
         IN  r.ok = FreshOf(path).ok /\ r.manifest = FreshOf(path).manifest
  <1> DEFINE m    == head.files[path]
             old  == OldSchema(new.type)
             in   == IngestInput(path, m.source[1], CarriedUserFields(old, new, m), FALSE)
             seed == SeedCache(path, old, new, m, CurrentProbes, cache)
             r    == ReprobeOne(path, new, m, CurrentProbes, cache)
             none == <<>>
  <1>1. r = IngestWithCache(in, new, CurrentProbes, seed)
    BY DEF ReprobeOne
  <1>2. Usable(new)
    BY DEF SchemaOK
  <1>3. CacheExact(path, seed)
    BY <1>2, SeedsHere, SeedKeeps
  <1>4. m.schema.fields = old.fields
    BY DEF Faithful, MadeAtHead, SchemasEqual, OldSchema
  <1>5. CarriedUserFields(old, new, m) = UserValuesOf(m)
    BY <1>4 DEF CarriedUserFields, UserValuesOf, SourceAt
  <1>6. in = IngestInput(path, m.source[1], UserValuesOf(m), FALSE)
    BY <1>5
  <1>7. FreshOf(path) = IngestWithCache(in, new, CurrentProbes, none)
    BY <1>6 DEF FreshOf
  <1>8. CacheExact(path, none)
    BY DEF CacheExact
  <1>9. in.path = path
    BY DEF IngestInput
  <1>10. PlainSchema(new)
    BY <1>2, PlainFields DEF PlainSchema
  <1> HIDE DEF in, seed, old, r, none
  <1>11. CacheExact(in.path, seed) /\ CacheExact(in.path, none)
    BY <1>3, <1>8, <1>9
  <1>12. SameResult(IngestWithCache(in, new, CurrentProbes, seed), IngestWithCache(in, new, CurrentProbes, none))
    BY <1>10, <1>11, IngestAlike
  <1>13. r.ok = FreshOf(path).ok /\ r.manifest = FreshOf(path).manifest
    BY <1>1, <1>7, <1>12 DEF SameResult
  <1> QED
    BY <1>13 DEF r

---------------------------------------------------------------------------
(* What is known in the middle of a pass, of the pairs of a type and a path *)
(* that are done and of the others: every file that is not done finds its   *)
(* own part of the one cache as it was, and every file that is done is      *)
(* rebuilt or reported.                                                     *)
Pending(done, path) == <<head.files[path].type, path>> \notin done

PassType(pass) ==
  /\ DOMAIN pass = PassParts
  /\ DOMAIN pass.files \subseteq DOMAIN head.files
  /\ \A p \in DOMAIN pass.files : FileOK(pass.files[p])

PassReplays(done, pass) ==
  \A p \in DOMAIN head.files :
    /\ Pending(done, p) => CacheTrue(p, pass.cache)
    /\ p \in DOMAIN pass.files /\ Faithful(p) => Replays(p, pass.files[p])

Concerned(path) ==
  LET m == head.files[path]
  IN  m.type \in ChangedTypes /\ m.schema # staged.schemas[m.type]

PassFresh(done, pass) ==
  \A p \in DOMAIN head.files :
    /\ Pending(done, p) => CacheExact(p, pass.cache) /\ p \notin DOMAIN pass.files
    /\ ~Pending(done, p) /\ Concerned(p) /\ Faithful(p) => Rebuilt(p, pass)

PassInv(done, pass) ==
  /\ PassType(pass)
  /\ PlainProbes => PassReplays(done, pass)
  /\ PlainProbes /\ FloatProbes => PassFresh(done, pass)

HeadReplays == \A p \in DOMAIN head.files : Faithful(p) => Replays(p, head.files[p])

(* All that a visit needs to be known of the state.                         *)
PassContext == StateInv /\ FilesInv /\ (PlainProbes => HeadReplays)

LEMMA VisitType ==
  ASSUME PassContext, NEW new, SchemaOK(new), NEW path \in DOMAIN head.files,
         NEW pass, PassType(pass)
  PROVE  PassType(ReprobeFile(pass, path, new))
  <1> DEFINE v == ReprobeFile(pass, path, new)
             r == ReprobeOne(path, new, head.files[path], CurrentProbes, pass.cache)
  <1>1. DOMAIN v = PassParts /\ Elsewhere(path, pass, v)
    BY VisitElsewhere DEF PassType
  <1>2. CASE ~Reopened(path, new)
    BY <1>2, VisitSame
  <1>3. CASE Reopened(path, new) /\ head.files[path].source[2]
    <2>1. v = [pass EXCEPT !.skipped = @ \cup {path}]
      BY <1>3, VisitSkips
    <2>2. DOMAIN v = PassParts /\ v.files = pass.files
      BY <2>1 DEF PassParts, PassType
    <2> HIDE DEF v
    <2> QED
      BY <2>2 DEF PassType, v
  <1>4. CASE Reopened(path, new) /\ ~head.files[path].source[2]
    <2>1. /\ r.ok => v.files = Put(pass.files, path, r.manifest)
          /\ ~r.ok => v.files = pass.files
      BY <1>4, VisitIngests
    <2>2. r.ok => FileOK(r.manifest)
      BY ReprobeOK DEF PassContext
    <2> HIDE DEF v, r
    <2>3. CASE r.ok
      <3>1. /\ DOMAIN v.files = DOMAIN pass.files \cup {path}
            /\ \A p \in DOMAIN v.files : v.files[p] = IF p = path THEN r.manifest ELSE pass.files[p]
        BY <2>1, <2>3 DEF Put
      <3> QED
        BY <1>1, <2>2, <2>3, <3>1 DEF PassType, v
    <2>4. CASE ~r.ok
      BY <1>1, <2>1, <2>4 DEF PassType, v
    <2> QED
      BY <2>3, <2>4
  <1> QED
    BY <1>2, <1>3, <1>4

(* The pair of a type and a path is done: those of other paths stay as they *)
(* were.                                                                    *)
LEMMA PendingElsewhere ==
  ASSUME NEW done, NEW t, NEW path, NEW p
  PROVE  LET more == done \cup {<<t, path>>}
         IN  /\ Pending(more, p) => Pending(done, p)
             /\ p # path \/ head.files[p].type # t => (Pending(more, p) <=> Pending(done, p))
             /\ p = path /\ head.files[p].type = t => ~Pending(more, p)
  BY DEF Pending

LEMMA VisitReplays ==
  ASSUME PassContext, PlainProbes, NEW t, NEW new, SchemaOK(new), new.type = t,
         NEW path \in DOMAIN head.files, NEW done, <<t, path>> \notin done,
         NEW pass, DOMAIN pass = PassParts, PassReplays(done, pass)
  PROVE  PassReplays(done \cup {<<t, path>>}, ReprobeFile(pass, path, new))
  <1> DEFINE v    == ReprobeFile(pass, path, new)
             r    == ReprobeOne(path, new, head.files[path], CurrentProbes, pass.cache)
             more == done \cup {<<t, path>>}
  <1> SUFFICES ASSUME NEW p \in DOMAIN head.files
               PROVE  /\ Pending(more, p) => CacheTrue(p, v.cache)
                      /\ p \in DOMAIN v.files /\ Faithful(p) => Replays(p, v.files[p])
    BY DEF PassReplays
  <1>1. /\ Pending(done, p) => CacheTrue(p, pass.cache)
        /\ p \in DOMAIN pass.files /\ Faithful(p) => Replays(p, pass.files[p])
    BY DEF PassReplays
  <1>2. Pending(more, p) => Pending(done, p)
    BY PendingElsewhere
  <1>3. CASE p # path
    <2>1. Elsewhere(path, pass, v)
      BY VisitElsewhere
    <2> HIDE DEF v, more
    <2> QED
      BY <1>1, <1>2, <1>3, <2>1 DEF Elsewhere
  <1>4. CASE p = path /\ ~Reopened(path, new)
    BY <1>1, <1>2, <1>4, VisitSame
  <1>5. CASE p = path /\ Reopened(path, new) /\ head.files[path].source[2]
    <2>1. v = [pass EXCEPT !.skipped = @ \cup {path}]
      BY <1>5, VisitSkips
    <2>2. v.files = pass.files /\ v.cache = pass.cache
      BY <2>1 DEF PassParts
    <2> HIDE DEF v, more
    <2> QED
      BY <1>1, <1>2, <2>2
  <1>6. CASE p = path /\ Reopened(path, new) /\ ~head.files[path].source[2]
    <2>1. /\ r.ok => v.files = Put(pass.files, path, r.manifest)
          /\ ~r.ok => v.files = pass.files
      BY <1>6, VisitIngests
    <2>2. Pending(done, path) /\ ~Pending(more, path)
      BY <1>6, PendingElsewhere DEF Reopened, Pending
    <2>3. r.ok /\ Faithful(path) => Replays(path, r.manifest)
      <3>1. CacheTrue(path, pass.cache)
        BY <1>1, <1>6, <2>2
      <3>2. Faithful(path) => Replays(path, head.files[path])
        BY DEF PassContext, HeadReplays
      <3> QED
        BY <1>6, <3>1, <3>2, ReprobeReplays DEF PassContext, Reopened
    <2> HIDE DEF v, r, more
    <2>4. CASE r.ok
      <3>1. v.files[path] = r.manifest
        BY <2>1, <2>4 DEF Put
      <3> QED
        BY <1>6, <2>2, <2>3, <2>4, <3>1
    <2>5. CASE ~r.ok
      BY <1>1, <1>6, <2>1, <2>2, <2>5
    <2> QED
      BY <2>4, <2>5
  <1> QED
    BY <1>3, <1>4, <1>5, <1>6

LEMMA VisitFresh ==
  ASSUME PassContext, PlainProbes, FloatProbes, NEW t, SchemaOK(staged.schemas[t]),
         staged.schemas[t].type = t,
         NEW path \in DOMAIN head.files, NEW done, <<t, path>> \notin done,
         NEW pass, DOMAIN pass = PassParts, PassFresh(done, pass)
  PROVE  PassFresh(done \cup {<<t, path>>}, ReprobeFile(pass, path, staged.schemas[t]))
  <1> DEFINE new  == staged.schemas[t]
             v    == ReprobeFile(pass, path, new)
             r    == ReprobeOne(path, new, head.files[path], CurrentProbes, pass.cache)
             more == done \cup {<<t, path>>}
  <1> SUFFICES ASSUME NEW p \in DOMAIN head.files
               PROVE  /\ Pending(more, p) => CacheExact(p, v.cache) /\ p \notin DOMAIN v.files
                      /\ ~Pending(more, p) /\ Concerned(p) /\ Faithful(p) => Rebuilt(p, v)
    BY DEF PassFresh
  <1>1. /\ Pending(done, p) => CacheExact(p, pass.cache) /\ p \notin DOMAIN pass.files
        /\ ~Pending(done, p) /\ Concerned(p) /\ Faithful(p) => Rebuilt(p, pass)
    BY DEF PassFresh
  <1>2. Pending(more, p) => Pending(done, p)
    BY PendingElsewhere
  <1>3. CASE p # path
    <2>1. Elsewhere(path, pass, v)
      BY VisitElsewhere
    <2>2. Pending(more, p) <=> Pending(done, p)
      BY <1>3, PendingElsewhere
    <2> HIDE DEF v, more
    <2>3. Rebuilt(p, pass) => Rebuilt(p, v)
      BY <1>3, <2>1 DEF Elsewhere, Rebuilt
    <2> QED
      BY <1>1, <1>3, <2>1, <2>2, <2>3 DEF Elsewhere
  <1>4. CASE p = path /\ ~Reopened(path, new)
    <2>1. v = pass
      BY <1>4, VisitSame
    <2>2. head.files[p].type # t \/ ~Concerned(p)
      BY <1>4 DEF Reopened, Concerned
    <2>3. head.files[p].type # t => (Pending(more, p) <=> Pending(done, p))
      BY PendingElsewhere
    <2> HIDE DEF v, more
    <2> QED
      BY <1>1, <1>2, <2>1, <2>2, <2>3
  <1>5. CASE p = path /\ Reopened(path, new)
    <2>1. Pending(done, path) /\ ~Pending(more, path)
      BY <1>5, PendingElsewhere DEF Reopened, Pending
    <2>2. path \notin DOMAIN pass.files /\ CacheExact(path, pass.cache)
      BY <1>1, <1>5, <2>1
    <2>3. ASSUME Faithful(path)
          PROVE  Rebuilt(path, v)
      <3>1. CASE head.files[path].source[2]
        <4>1. v = [pass EXCEPT !.skipped = @ \cup {path}]
          BY <1>5, <3>1, VisitSkips
        <4>2. v.files = pass.files /\ path \in v.skipped
          BY <4>1 DEF PassParts
        <4> HIDE DEF v
        <4> QED
          BY <2>2, <3>1, <4>2 DEF Rebuilt
      <3>2. CASE ~head.files[path].source[2]
        <4>1. /\ r.ok => v.files = Put(pass.files, path, r.manifest)
              /\ ~r.ok => v.files = pass.files /\ v.skipped = pass.skipped \cup {path}
          BY <1>5, <3>2, VisitIngests
        <4>2. Replays(path, head.files[path])
          BY <2>3 DEF PassContext, HeadReplays
        <4>3. new.type = head.files[path].type /\ head.files[path].type = t
          BY <1>5 DEF Reopened
        <4>4. r.ok = FreshOf(path).ok /\ r.manifest = FreshOf(path).manifest
          BY <2>2, <2>3, <3>2, <4>2, <4>3, ReprobeFresh DEF PassContext
        <4> HIDE DEF v, r
        <4>5. CASE r.ok
          BY <3>2, <4>1, <4>4, <4>5 DEF Rebuilt, Put
        <4>6. CASE ~r.ok
          BY <2>2, <3>2, <4>1, <4>4, <4>6 DEF Rebuilt
        <4> QED
          BY <4>5, <4>6
      <3> QED
        BY <3>1, <3>2
    <2> QED
      BY <1>5, <2>1, <2>3
  <1> QED
    BY <1>3, <1>4, <1>5

LEMMA VisitStep ==
  ASSUME PassContext, NEW t \in ChangedTypes, NEW path \in DOMAIN head.files,
         NEW done, <<t, path>> \notin done, NEW pass, PassInv(done, pass)
  PROVE  PassInv(done \cup {<<t, path>>}, ReprobeFile(pass, path, staged.schemas[t]))
  <1>1. SchemaOK(staged.schemas[t]) /\ staged.schemas[t].type = t
    BY DEF PassContext, StateInv, ChangedTypes
  <1>2. DOMAIN pass = PassParts
    BY DEF PassInv, PassType
  <1> QED
    BY <1>1, <1>2, VisitType, VisitReplays, VisitFresh DEF PassInv

(* All the files, for one type; then all the types.                         *)
LEMMA TypeStep ==
  ASSUME PassContext, NEW t \in ChangedTypes, NEW done, \A p : <<t, p>> \notin done,
         NEW pass, PassInv(done, pass)
  PROVE  PassInv(done \cup ({t} \X DOMAIN head.files), ReprobeType(pass, staged.schemas[t]))
  <1> DEFINE D     == DOMAIN head.files
             paths == Ascending(D)
             N     == Len(paths)
             new   == staged.schemas[t]
             upto(i) == done \cup {<<t, paths[j]>> : j \in 1 .. i}
  <1>1. D \subseteq Nat /\ IsFiniteSet(D)
    BY ManifestsAssumption, FS_Subset DEF ManifestsAssumption, PassContext, StateInv
  <1>2. paths \in Seq(D) /\ Distinct(paths) /\ Elems(paths) = D
    BY <1>1, AscendingLists
  <1>3. N \in Nat /\ DOMAIN paths = 1 .. N
    BY <1>2, LenProperties
  <1>4. PICK walk : Walked(pass, new, walk)
    BY <1>3, TypeWalked, Zenon
  <1>5. /\ ReprobeType(pass, new) = walk[N]
        /\ walk[0] = pass
        /\ \A i \in 1 .. N : walk[i] = ReprobeFile(walk[i - 1], paths[i], new)
    BY <1>4, Zenon DEF Walked
  <1>6. /\ \A i \in 1 .. N : paths[i] \in D
        /\ \A i, j \in 1 .. N : paths[i] = paths[j] => i = j
        /\ \A p \in D : \E i \in 1 .. N : paths[i] = p
    BY <1>2, <1>3 DEF Distinct, Elems
  <1> HIDE DEF paths, N, D
  <1> DEFINE S == {i \in Nat : i <= N => PassInv(upto(i), walk[i])}
  <1>7. 0 \in S
    <2>1. upto(0) = done
      OBVIOUS
    <2> HIDE DEF upto
    <2> QED
      BY <1>5, <2>1
  <1>8. ASSUME NEW i \in Nat, i \in S
        PROVE  i + 1 \in S
    <2> SUFFICES ASSUME i + 1 <= N PROVE PassInv(upto(i + 1), walk[i + 1])
      OBVIOUS
    <2>1. PICK j : j = i + 1
      OBVIOUS
    <2>2. j \in 1 .. N /\ j - 1 = i /\ i <= N
      BY <1>3, <2>1
    <2>3. walk[j] = ReprobeFile(walk[i], paths[j], new) /\ paths[j] \in D
      BY <1>5, <1>6, <2>2
    <2>4. PassInv(upto(i), walk[i])
      BY <1>8, <2>2
    <2>5. <<t, paths[j]>> \notin upto(i)
      <3>1. \A k \in 1 .. i : k \in 1 .. N /\ k # j
        BY <1>3, <2>1, <2>2
      <3>2. \A k \in 1 .. i : paths[k] # paths[j]
        BY <1>6, <2>2, <3>1
      <3>3. \A k \in 1 .. i : <<t, paths[k]>> # <<t, paths[j]>>
        BY <3>2
      <3> QED
        BY <3>3
    <2>6. upto(j) = upto(i) \cup {<<t, paths[j]>>}
      <3>1. \A k : k \in 1 .. j <=> k \in 1 .. i \/ k = j
        BY <2>1, <2>2
      <3> QED
        BY <3>1
    <2> HIDE DEF upto
    <2>7. PassInv(upto(j), walk[j])
      BY <2>3, <2>4, <2>5, <2>6, VisitStep DEF D
    <2> QED
      BY <2>1, <2>7
  <1> HIDE DEF S
  <1>9. N \in S
    BY <1>3, <1>7, <1>8, Induction
  <1>10. PassInv(upto(N), walk[N])
    BY <1>3, <1>9 DEF S
  <1>11. upto(N) = done \cup ({t} \X D)
    BY <1>6
  <1> HIDE DEF upto
  <1> QED
    BY <1>5, <1>10, <1>11 DEF D

LEMMA PassStarts ==
  PassInv({}, NoReprobe)
  <1>1. /\ DOMAIN NoReprobe = PassParts /\ NoReprobe.cache = <<>> /\ NoReprobe.files = <<>>
    BY DEF NoReprobe, PassParts
  <1>2. DOMAIN NoReprobe.cache = {} /\ DOMAIN NoReprobe.files = {}
    BY <1>1
  <1>3. PassType(NoReprobe)
    BY <1>1, <1>2 DEF PassType
  <1>4. PassReplays({}, NoReprobe)
    BY <1>2 DEF PassReplays, CacheTrue
  <1>5. PassFresh({}, NoReprobe)
    BY <1>2 DEF PassFresh, CacheExact, Pending
  <1> QED
    BY <1>3, <1>4, <1>5 DEF PassInv

LEMMA PassDone ==
  ASSUME PassContext
  PROVE  PassInv(ChangedTypes \X DOMAIN head.files, AutoReprobe)
  <1> DEFINE D     == DOMAIN head.files
             types == Ascending(ChangedTypes)
             N     == Len(types)
             upto(i) == {types[j] : j \in 1 .. i} \X D
  <1>1. ChangedTypes \subseteq Nat /\ IsFiniteSet(ChangedTypes)
    <2>1. ChangedTypes \subseteq DOMAIN staged.schemas
      BY DEF ChangedTypes
    <2> QED
      BY <2>1, FS_Subset DEF PassContext, StateInv
  <1>2. types \in Seq(ChangedTypes) /\ Distinct(types) /\ Elems(types) = ChangedTypes
    BY <1>1, AscendingLists
  <1>3. N \in Nat /\ DOMAIN types = 1 .. N
    BY <1>2, LenProperties
  <1>4. PICK pass : Passed(pass)
    BY <1>3, TypesPassed, Zenon
  <1>5. /\ AutoReprobe = pass[N]
        /\ pass[0] = NoReprobe
        /\ \A i \in 1 .. N : pass[i] = ReprobeType(pass[i - 1], staged.schemas[types[i]])
    BY <1>4, Zenon DEF Passed
  <1>6. /\ \A i \in 1 .. N : types[i] \in ChangedTypes
        /\ \A i, j \in 1 .. N : types[i] = types[j] => i = j
        /\ \A t \in ChangedTypes : \E i \in 1 .. N : types[i] = t
    BY <1>2, <1>3 DEF Distinct, Elems
  <1> HIDE DEF types, N, D
  <1> DEFINE S == {i \in Nat : i <= N => PassInv(upto(i), pass[i])}
  <1>7. 0 \in S
    <2>1. upto(0) = {}
      OBVIOUS
    <2> HIDE DEF upto
    <2> QED
      BY <1>5, <2>1, PassStarts
  <1>8. ASSUME NEW i \in Nat, i \in S
        PROVE  i + 1 \in S
    <2> SUFFICES ASSUME i + 1 <= N PROVE PassInv(upto(i + 1), pass[i + 1])
      OBVIOUS
    <2>1. PICK j : j = i + 1
      OBVIOUS
    <2>2. j \in 1 .. N /\ j - 1 = i /\ i <= N
      BY <1>3, <2>1
    <2>3. pass[j] = ReprobeType(pass[i], staged.schemas[types[j]]) /\ types[j] \in ChangedTypes
      BY <1>5, <1>6, <2>2
    <2>4. PassInv(upto(i), pass[i])
      BY <1>8, <2>2
    <2>5. \A p : <<types[j], p>> \notin upto(i)
      <3>1. \A k \in 1 .. i : k \in 1 .. N /\ k # j
        BY <1>3, <2>1, <2>2
      <3>2. types[j] \notin {types[k] : k \in 1 .. i}
        BY <1>6, <2>2, <3>1
      <3> QED
        BY <3>2
    <2>6. upto(j) = upto(i) \cup ({types[j]} \X D)
      <3>1. \A k : k \in 1 .. j <=> k \in 1 .. i \/ k = j
        BY <2>1, <2>2
      <3>2. {types[k] : k \in 1 .. j} = {types[k] : k \in 1 .. i} \cup {types[j]}
        BY <3>1
      <3> QED
        BY <3>2
    <2> HIDE DEF upto
    <2>7. PassInv(upto(j), pass[j])
      BY <2>3, <2>4, <2>5, <2>6, TypeStep DEF D
    <2> QED
      BY <2>1, <2>7
  <1> HIDE DEF S
  <1>9. N \in S
    BY <1>3, <1>7, <1>8, Induction
  <1>10. PassInv(upto(N), pass[N])
    BY <1>3, <1>9 DEF S
  <1>11. upto(N) = ChangedTypes \X D
    <2>1. {types[j] : j \in 1 .. N} = ChangedTypes
      BY <1>6
    <2> QED
      BY <2>1
  <1> HIDE DEF upto
  <1> QED
    BY <1>5, <1>10, <1>11 DEF D

---------------------------------------------------------------------------
(* The steps.                                                               *)
Inv ==
  /\ StateInv
  /\ FilesInv
  /\ StagedReplay
  /\ PlainProbes => ProbesReplay

(* The schema for a file is one that parses.                                *)
LEMMA SchemaForOK ==
  ASSUME StateInv, NEW override, NEW content, NEW schema \in SchemaFor(override, content)
  PROVE  Usable(schema)
  <1> DEFINE all   == LoadAllSchemas
             mime  == MimeOf[content]
             types == DetectFileType(override, mime, all)
             matching == {t \in DOMAIN all : mime \in all[t].mimes}
  <1>1. \A t \in DOMAIN all : Usable(all[t])
    BY LoadedOK DEF SchemaOK
  <1>2. types \subseteq DOMAIN all
    <2>1. CASE override # 0
      BY <2>1 DEF DetectFileType
    <2>2. CASE override = 0 /\ matching = {}
      BY <2>2 DEF DetectFileType
    <2>3. CASE override = 0 /\ matching # {}
      <3>1. types = {Min(matching)}
        BY <2>3 DEF DetectFileType
      <3>2. matching \subseteq Nat
        BY SchemasAssumption DEF SchemasAssumption, StateInv, LoadAllSchemas, Over
      <3>3. \E k \in matching : \A j \in matching : k <= j
        BY <2>3, <3>2, Least
      <3>4. Min(matching) \in matching
        BY <3>3 DEF Min
      <3> QED
        BY <3>1, <3>4
    <2> QED
      BY <2>1, <2>2, <2>3
  <1>3. schema \in {all[t] : t \in types} \/ schema = MinimalSchema
    BY DEF SchemaFor
  <1>4. Usable(MinimalSchema)
    BY SchemasAssumption DEF SchemasAssumption, Usable
  <1> HIDE DEF all, types
  <1> QED
    BY <1>1, <1>2, <1>3, <1>4

LEMMA AddFileKeeps ==
  ASSUME Inv, NEW path \in Paths, NEW c \in Contents, NEW u, NEW o, AddFile(path, c, u, o)
  PROVE  Inv'
  <1>1. PICK schema \in SchemaFor(o, c) :
           LET in == IngestInput(path, c, u, IsChunked(c))
               r  == IngestWithCache(in, schema, CurrentProbes, <<>>)
           IN  r.ok /\ staged' = [staged EXCEPT !.files = Put(@, path, r.manifest)]
    BY DEF AddFile
  <1> DEFINE in == IngestInput(path, c, u, IsChunked(c))
             r  == IngestWithCache(in, schema, CurrentProbes, <<>>)
             m  == r.manifest
  <1>2. r.ok /\ staged' = [staged EXCEPT !.files = Put(@, path, m)]
    BY <1>1
  <1>3. UNCHANGED <<head, drifted, commits>>
    BY DEF AddFile
  <1>4. Usable(schema)
    BY SchemaForOK DEF Inv
  <1>5. in.path = path /\ in.content = c
    BY DEF IngestInput
  <1> HIDE DEF in
  <1>6. FileOK(m)
    BY <1>2, <1>4, <1>5, IngestOK
  <1>7. Replays(path, m)
    <2>1. Replays(in.path, m)
      BY <1>2, <1>4, FreshReplays
    <2> QED
      BY <1>5, <2>1
  <1> HIDE DEF m, r
  <1>8. /\ DOMAIN staged' = Parts
        /\ staged'.schemas = staged.schemas /\ staged'.probes = staged.probes
        /\ staged'.files = Put(staged.files, path, m)
    BY <1>2 DEF Inv, StateInv, Parts
  <1>9. /\ DOMAIN staged'.files = DOMAIN staged.files \cup {path}
        /\ \A p \in DOMAIN staged'.files : staged'.files[p] = IF p = path THEN m ELSE staged.files[p]
    BY <1>8 DEF Put
  <1>10. StateInv'
    BY <1>3, <1>8, <1>9 DEF Inv, StateInv
  <1>11. FilesInv'
    BY <1>3, <1>6, <1>9 DEF Inv, FilesInv
  <1>12. StagedReplay'
    BY <1>7, <1>9 DEF Inv, StagedReplay
  <1>13. PlainProbes => ProbesReplay'
    BY <1>3, <1>12 DEF Inv, ProbesReplay
  <1> QED
    BY <1>10, <1>11, <1>12, <1>13 DEF Inv

(* What is staged besides files leaves the manifests alone.                 *)
LEMMA OthersKeep ==
  ASSUME Inv, UNCHANGED <<head, drifted, commits>>, DOMAIN staged' = Parts,
         staged'.files = staged.files,
         DOMAIN staged'.schemas \subseteq Nat /\ IsFiniteSet(DOMAIN staged'.schemas),
         \A t \in DOMAIN staged'.schemas : staged'.schemas[t].type = t /\ SchemaOK(staged'.schemas[t]),
         \A p \in DOMAIN staged'.probes : <<p, staged'.probes[p]>> \in NamedBlobs
  PROVE  Inv'
  <1>1. StateInv'
    BY DEF Inv, StateInv
  <1>2. FilesInv'
    BY DEF Inv, FilesInv
  <1>3. StagedReplay'
    BY DEF Inv, StagedReplay
  <1>4. PlainProbes => ProbesReplay'
    BY <1>3 DEF Inv, ProbesReplay
  <1> QED
    BY <1>1, <1>2, <1>3, <1>4 DEF Inv

LEMMA AddSchemaKeeps ==
  ASSUME Inv, NEW s \in Schemas, AddSchema(s)
  PROVE  Inv'
  <1> DEFINE ok == ParseAccepts(s.fields) /\ ValidateProbeRefs(s.fields, CurrentProbes)
  <1>1. UNCHANGED <<head, drifted, commits>>
    BY DEF AddSchema
  <1>2. CASE ~ok
    <2>1. staged' = staged
      BY <1>2 DEF AddSchema
    <2> QED
      BY <1>1, <2>1, OthersKeep DEF Inv, StateInv
  <1>3. CASE ok
    <2>1. staged' = [staged EXCEPT !.schemas = Put(@, s.type, s)]
      BY <1>3 DEF AddSchema
    <2>2. SchemaOK(s) /\ s.type \in Nat
      BY <1>3, SchemasAssumption DEF SchemasAssumption, SchemaOK, Usable, AllSchemas
    <2>3. /\ DOMAIN staged' = Parts /\ staged'.files = staged.files /\ staged'.probes = staged.probes
          /\ staged'.schemas = Put(staged.schemas, s.type, s)
      BY <2>1 DEF Inv, StateInv, Parts
    <2>4. /\ DOMAIN staged'.schemas = DOMAIN staged.schemas \cup {s.type}
          /\ \A t \in DOMAIN staged'.schemas : staged'.schemas[t] = IF t = s.type THEN s ELSE staged.schemas[t]
      BY <2>3 DEF Put
    <2>5. DOMAIN staged'.schemas \subseteq Nat /\ IsFiniteSet(DOMAIN staged'.schemas)
      BY <2>2, <2>4, FS_AddElement DEF Inv, StateInv
    <2>6. \A t \in DOMAIN staged'.schemas : staged'.schemas[t].type = t /\ SchemaOK(staged'.schemas[t])
      BY <2>2, <2>4 DEF Inv, StateInv
    <2>7. \A p \in DOMAIN staged'.probes : <<p, staged'.probes[p]>> \in NamedBlobs
      BY <2>3 DEF Inv, StateInv
    <2> QED
      BY <1>1, <2>3, <2>5, <2>6, <2>7, OthersKeep
  <1> QED
    BY <1>2, <1>3

LEMMA AddProbeKeeps ==
  ASSUME Inv, NEW b \in ProbeBlobs, AddProbe(b.probe, b.blob)
  PROVE  Inv'
  <1>1. UNCHANGED <<head, drifted, commits>> /\ staged' = [staged EXCEPT !.probes = Put(@, b.probe, b.blob)]
    BY DEF AddProbe
  <1>2. /\ DOMAIN staged' = Parts /\ staged'.files = staged.files /\ staged'.schemas = staged.schemas
        /\ staged'.probes = Put(staged.probes, b.probe, b.blob)
    BY <1>1 DEF Inv, StateInv, Parts
  <1>3. \A p \in DOMAIN staged'.probes : <<p, staged'.probes[p]>> \in NamedBlobs
    <2>1. /\ DOMAIN staged'.probes = DOMAIN staged.probes \cup {b.probe}
          /\ \A p \in DOMAIN staged'.probes : staged'.probes[p] = IF p = b.probe THEN b.blob ELSE staged.probes[p]
      BY <1>2 DEF Put
    <2>2. <<b.probe, b.blob>> \in NamedBlobs
      BY DEF NamedBlobs
    <2>3. \A p \in DOMAIN staged.probes : <<p, staged.probes[p]>> \in NamedBlobs
      BY DEF Inv, StateInv
    <2> QED
      BY <2>1, <2>2, <2>3
  <1> QED
    BY <1>1, <1>2, <1>3, OthersKeep DEF Inv, StateInv

LEMMA AddConfigKeeps ==
  ASSUME Inv, NEW c, AddConfig(c)
  PROVE  Inv'
  <1>1. /\ UNCHANGED <<head, drifted, commits>>
        /\ staged' = IF ConfigAccepts(c) THEN [staged EXCEPT !.config = <<c>>] ELSE staged
    BY DEF AddConfig
  <1>2. /\ DOMAIN staged' = Parts /\ staged'.files = staged.files /\ staged'.schemas = staged.schemas
        /\ staged'.probes = staged.probes
    BY <1>1 DEF Inv, StateInv, Parts
  <1> QED
    BY <1>1, <1>2, OthersKeep DEF Inv, StateInv

PassOf(defer) == IF defer THEN NoReprobe ELSE AutoReprobe

LEMMA PassOK ==
  ASSUME Inv, NEW defer
  PROVE  /\ PassType(PassOf(defer))
         /\ PlainProbes => \A p \in DOMAIN PassOf(defer).files :
                              Faithful(p) => Replays(p, PassOf(defer).files[p])
  <1>1. PassContext
    BY DEF Inv, PassContext, HeadReplays, ProbesReplay, Faithful
  <1>2. PassInv({}, NoReprobe) /\ PassInv(ChangedTypes \X DOMAIN head.files, AutoReprobe)
    BY <1>1, PassStarts, PassDone
  <1>3. \E done : PassInv(done, PassOf(defer))
    BY <1>2 DEF PassOf
  <1> QED
    BY <1>3 DEF PassInv, PassReplays, PassType

LEMMA CommitKeeps ==
  ASSUME Inv, NEW defer, Commit(defer)
  PROVE  Inv'
  <1> DEFINE pass  == PassOf(defer)
             under == Over(staged.files, head.files)
  <1>1. /\ commits' = commits + 1
        /\ head' = [schemas |-> Over(staged.schemas, head.schemas),
                    probes  |-> WithoutRemoved(Over(staged.probes, head.probes)),
                    files   |-> Over(pass.files, under),
                    config  |-> IF staged.config = <<>> THEN head.config ELSE staged.config[1]]
        /\ staged' = NothingStaged
        /\ drifted' = {p \in DOMAIN pass.files : ~MadeAtHead(p)} \cup
                      (drifted \ (DOMAIN staged.files \ DOMAIN pass.files))
    BY DEF Commit, PassOf
  <1>2. /\ PassType(pass)
        /\ PlainProbes => \A p \in DOMAIN pass.files : Faithful(p) => Replays(p, pass.files[p])
    BY PassOK
  <1> HIDE DEF pass
  <1>3. /\ DOMAIN head' = Parts
        /\ head'.schemas = Over(staged.schemas, head.schemas)
        /\ head'.probes = WithoutRemoved(Over(staged.probes, head.probes))
        /\ head'.files = Over(pass.files, under)
    BY <1>1 DEF Parts
  <1>4. /\ DOMAIN staged' = Parts
        /\ staged'.schemas = <<>> /\ staged'.probes = <<>> /\ staged'.files = <<>>
    BY <1>1 DEF Parts, NothingStaged
  <1>5. DOMAIN staged'.schemas = {} /\ DOMAIN staged'.probes = {} /\ DOMAIN staged'.files = {}
    BY <1>4
  <1>6. /\ DOMAIN head'.files = DOMAIN pass.files \cup DOMAIN staged.files \cup DOMAIN head.files
        /\ \A p \in DOMAIN pass.files : head'.files[p] = pass.files[p]
        /\ \A p \in DOMAIN staged.files \ DOMAIN pass.files : head'.files[p] = staged.files[p]
        /\ \A p \in DOMAIN head.files \ (DOMAIN staged.files \cup DOMAIN pass.files) :
              head'.files[p] = head.files[p]
    BY <1>3 DEF Over
  <1>7. StateInv'
    <2>1. commits' \in Nat
      BY <1>1 DEF Inv, StateInv
    <2>2. DOMAIN head'.files \subseteq Paths
      BY <1>2, <1>6 DEF PassType, Inv, StateInv
    <2>3. /\ DOMAIN head'.schemas \subseteq Nat
          /\ \A t \in DOMAIN head'.schemas : SchemaOK(head'.schemas[t])
      <3>1. /\ DOMAIN head'.schemas = DOMAIN staged.schemas \cup DOMAIN head.schemas
            /\ \A t \in DOMAIN head'.schemas :
                  head'.schemas[t] = IF t \in DOMAIN staged.schemas THEN staged.schemas[t] ELSE head.schemas[t]
        BY <1>3 DEF Over
      <3> QED
        BY <3>1 DEF Inv, StateInv
    <2>4. \A p \in DOMAIN head'.probes : <<p, head'.probes[p]>> \in NamedBlobs
      <3>1. /\ DOMAIN head'.probes \subseteq DOMAIN staged.probes \cup DOMAIN head.probes
            /\ \A p \in DOMAIN head'.probes :
                  head'.probes[p] = IF p \in DOMAIN staged.probes THEN staged.probes[p] ELSE head.probes[p]
        BY <1>3 DEF Over, WithoutRemoved, Restrict
      <3> QED
        BY <3>1 DEF Inv, StateInv
    <2>5. IsFiniteSet(DOMAIN staged'.schemas)
      BY <1>5, FS_EmptySet
    <2> QED
      BY <1>3, <1>4, <1>5, <2>1, <2>2, <2>3, <2>4, <2>5 DEF StateInv
  <1>8. FilesInv'
    BY <1>2, <1>5, <1>6 DEF PassType, Inv, FilesInv
  <1>9. StagedReplay'
    BY <1>5 DEF StagedReplay
  <1>10. ASSUME PlainProbes, NEW p \in DOMAIN head'.files, p \notin drifted'
         PROVE  Replays(p, head'.files[p])
    <2>1. CASE p \in DOMAIN pass.files
      <3>1. Faithful(p)
        BY <1>1, <1>10, <2>1 DEF Faithful
      <3> QED
        BY <1>2, <1>6, <1>10, <2>1, <3>1
    <2>2. CASE p \in DOMAIN staged.files \ DOMAIN pass.files
      BY <1>6, <2>2 DEF Inv, StagedReplay
    <2>3. CASE p \in DOMAIN head.files \ (DOMAIN staged.files \cup DOMAIN pass.files)
      <3>1. p \notin drifted
        BY <1>1, <1>10, <2>3
      <3> QED
        BY <1>6, <1>10, <2>3, <3>1 DEF Inv, ProbesReplay
    <2> QED
      BY <1>6, <1>10, <2>1, <2>2, <2>3
  <1>11. PlainProbes => ProbesReplay'
    BY <1>9, <1>10 DEF ProbesReplay
  <1> QED
    BY <1>7, <1>8, <1>9, <1>11 DEF Inv

LEMMA InvStarts ==
  ASSUME Init
  PROVE  Inv
  <1>1. PICK s \in InitialSchemas :
           head = [schemas |-> Put(<<>>, s.type, s), probes |-> InitialProbes,
                   files |-> <<>>, config |-> InitialConfig]
    BY DEF Init
  <1>2. /\ DOMAIN head = Parts /\ head.schemas = Put(<<>>, s.type, s)
        /\ head.probes = InitialProbes /\ head.files = <<>>
    BY <1>1 DEF Parts
  <1>3. /\ DOMAIN staged = Parts
        /\ staged.schemas = <<>> /\ staged.probes = <<>> /\ staged.files = <<>>
    BY DEF Init, Parts, NothingStaged
  <1>4. /\ DOMAIN head.files = {} /\ DOMAIN staged.files = {}
        /\ DOMAIN staged.schemas = {} /\ DOMAIN staged.probes = {}
    BY <1>2, <1>3
  <1>5. SchemaOK(s) /\ s.type \in Nat
    BY SchemasAssumption DEF SchemasAssumption, SchemaOK, Usable, AllSchemas
  <1>6. /\ DOMAIN head.schemas = {s.type}
        /\ \A t \in DOMAIN head.schemas : head.schemas[t] = s
    BY <1>2 DEF Put
  <1>7. \A p \in DOMAIN head.probes : <<p, head.probes[p]>> \in NamedBlobs
    BY <1>2 DEF NamedBlobs
  <1>8. IsFiniteSet(DOMAIN staged.schemas) /\ commits \in Nat
    BY <1>4, FS_EmptySet DEF Init
  <1>9. StateInv
    BY <1>2, <1>3, <1>4, <1>5, <1>6, <1>7, <1>8 DEF StateInv
  <1> QED
    BY <1>4, <1>9 DEF Inv, FilesInv, StagedReplay, ProbesReplay

LEMMA InvKept ==
  ASSUME Inv, [Next]_vars
  PROVE  Inv'
  <1>1. CASE UNCHANGED vars
    BY <1>1 DEF vars, Inv, StateInv, FilesInv, StagedReplay, ProbesReplay
  <1>2. CASE Next
    BY <1>2, AddFileKeeps, AddSchemaKeeps, AddProbeKeeps, AddConfigKeeps, CommitKeeps DEF Next
  <1> QED
    BY <1>1, <1>2

LEMMA Invariance == Spec => []Inv
  BY InvStarts, InvKept, PTL DEF Spec

(* Whatever the schemas and the probes, a derived field of every manifest   *)
(* at HEAD or staged is what the engine's transform makes of the value the  *)
(* same manifest holds for its source, and a manifest that add has staged   *)
(* replays from the hashes it records: resolve_source reads only fields     *)
(* that topo_sort put before, and a probe is recorded when it is used.      *)
THEOREM StoredFieldsDerived == Spec => [](DerivedAgree /\ StagedReplay)
  <1>1. Inv => DerivedAgree /\ StagedReplay
    BY DEF Inv, FilesInv, FileOK, DerivedAgree
  <1> QED
    BY <1>1, Invariance, PTL

(* With probes called as the schemas of the program call them, what is      *)
(* rebuilt by run_auto_reprobe replays as well, unless HEAD's schema did    *)
(* not make what it was rebuilt from: the one cache of the pass never gives *)
(* a file the answer meant for another, and what reprobe_one seeds is what  *)
(* the probe had given.                                                     *)
THEOREM FieldsFollow ==
  ASSUME PlainProbes
  PROVE  Spec => []FieldsFollowSources
  <1>1. Inv => FieldsFollowSources
    BY DEF Inv, FilesInv, FileOK, DerivedAgree, FieldsFollowSources
  <1> QED
    BY <1>1, Invariance, PTL

(* And when no probe gives a whole number to a float field, a commit that   *)
(* changes a schema rebuilds every file of its type that HEAD's schema made *)
(* to what an ingest with an empty cache makes of it, or reports it and     *)
(* keeps what there was: reuse by run_auto_reprobe and reprobe_one never    *)
(* shows.                                                                   *)
THEOREM ReprobedAsFresh ==
  ASSUME PlainProbes, FloatProbes
  PROVE  Spec => ReprobeAsFresh
  <1> DEFINE Fresh == Reprobes =>
        \A path \in DOMAIN head.files : Current(path) =>
            LET m     == head.files[path]
                given == Restrict(m.fields, {n \in DOMAIN m.fields \cap DOMAIN m.schema.fields :
                                                SourceAt(m.schema, n) = UserProvided})
                fresh == IngestWithCache(IngestInput(path, m.source[1], given, FALSE),
                                         staged.schemas[m.type], CurrentProbes, <<>>)
            IN  IF ~m.source[2] /\ fresh.ok
                THEN head'.files[path] = fresh.manifest
                ELSE /\ path \in skipped'
                     /\ head'.files[path] = Over(staged.files, head.files)[path]
  <1>1. ASSUME Inv, Next
        PROVE  Fresh
    <2> SUFFICES ASSUME Reprobes, NEW path \in DOMAIN head.files, Current(path)
                 PROVE  IF ~head.files[path].source[2] /\ FreshOf(path).ok
                        THEN head'.files[path] = FreshOf(path).manifest
                        ELSE /\ path \in skipped'
                             /\ head'.files[path] = Over(staged.files, head.files)[path]
      BY DEF FreshOf, UserValuesOf
    <2>1. Commit(FALSE)
      <3>1. commits' # commits
        BY DEF Reprobes, Inv, StateInv
      <3>2. PICK defer \in BOOLEAN : Commit(defer)
        BY <1>1, <3>1 DEF Next, AddFile, AddSchema, AddProbe, AddConfig
      <3>3. deferred' = defer
        BY <3>2 DEF Commit
      <3>4. defer = FALSE
        BY <3>3 DEF Reprobes
      <3> QED
        BY <3>2, <3>4
    <2> DEFINE pass  == AutoReprobe
               under == Over(staged.files, head.files)
    <2>2. /\ head' = [schemas |-> Over(staged.schemas, head.schemas),
                      probes  |-> WithoutRemoved(Over(staged.probes, head.probes)),
                      files   |-> Over(pass.files, under),
                      config  |-> IF staged.config = <<>> THEN head.config ELSE staged.config[1]]
          /\ skipped' = pass.skipped
      BY <2>1 DEF Commit
    <2>3. PassContext
      BY <1>1 DEF Inv, PassContext, HeadReplays, ProbesReplay, Faithful
    <2>4. PassFresh(ChangedTypes \X DOMAIN head.files, pass)
      BY <2>3, PassDone DEF PassInv
    <2> HIDE DEF pass
    <2>5. head'.files = Over(pass.files, under)
      BY <2>2
    <2>6. Faithful(path) /\ Concerned(path)
      BY DEF Current, Faithful, Concerned
    <2>7. ~Pending(ChangedTypes \X DOMAIN head.files, path)
      BY <2>6 DEF Pending, Concerned
    <2>8. Rebuilt(path, pass)
      BY <2>4, <2>6, <2>7 DEF PassFresh
    <2>9. path \in DOMAIN under
      BY DEF Over
    <2>10. /\ path \in DOMAIN pass.files => head'.files[path] = pass.files[path]
           /\ path \notin DOMAIN pass.files => head'.files[path] = under[path]
      BY <2>5, <2>9 DEF Over
    <2> QED
      BY <2>2, <2>8, <2>10 DEF Rebuilt
  <1>2. Inv /\ [Next]_vars => [Fresh]_vars
    BY <1>1
  <1> QED
    BY <1>2, Invariance, PTL DEF Spec, ReprobeAsFresh

================================================================================
