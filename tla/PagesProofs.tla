---------------------------- MODULE PagesProofs -----------------------------
(***************************************************************************)
(* Theorems about NestedTrees and Pages, for any finite set of names, any  *)
(* depth, any trees, commits, predicates and limits: the recursive tree    *)
(* code is the map from paths to files its callers take it for, the pages  *)
(* of a query are together the matches of one commit, and a diff leads     *)
(* from the files of one tree to those of the other.                       *)
(*                                                                         *)
(* A tree at a prefix is Nest(tr)[prefix], for the files tr that it holds: *)
(* each recursive function is shown to keep to that, from the last name of *)
(* a path up to the first.                                                 *)
(***************************************************************************)
EXTENDS Pages, FiniteSetTheorems, SequenceTheorems, NaturalsInduction,
        WellFoundedInduction, FunctionTheorems, TLAPS

(* A set of naturals has a least element.                                   *)
LEMMA Least ==
  ASSUME NEW T, T \subseteq Nat, T # {}
  PROVE  \E m \in T : \A k \in T : m <= k
  <1> DEFINE Lt == {ss \in Nat \X Nat : ss[1] < ss[2]}
  <1>1. IsWellFoundedOn(Lt, Nat)
    BY NatLessThanWellFounded DEF OpToRel
  <1> HIDE DEF Lt
  <1>2. PICK m \in T : \A k \in T : <<k, m>> \notin Lt
    BY <1>1, WFMin
  <1>3. ASSUME NEW k \in T
        PROVE  m <= k
    <2>1. k \in Nat /\ m \in Nat
      BY <1>2
    <2>2. k < m => <<k, m>> \in Lt
      BY <2>1 DEF Lt
    <2> QED
      BY <1>2, <2>1, <2>2
  <1> QED
    BY <1>3

(* Induction over the naturals, for a set.                                  *)
LEMMA Induction ==
  ASSUME NEW S, 0 \in S, \A n \in Nat : n \in S => n + 1 \in S
  PROVE  Nat \subseteq S
  <1> SUFFICES ASSUME Nat \ S # {} PROVE FALSE
    OBVIOUS
  <1>1. PICK m \in Nat \ S : \A k \in Nat \ S : m <= k
    BY Least
  <1>2. m # 0 /\ m - 1 \in Nat /\ m - 1 + 1 = m
    BY <1>1
  <1>3. m - 1 \in Nat \ S
    BY <1>1, <1>2
  <1> QED
    BY <1>1, <1>2, <1>3

(* From the last name of a path up to the first.                            *)
LEMMA Upwards ==
  ASSUME NEW L \in Nat, L >= 1, NEW H,
         \A k \in 0 .. L - 1 : (k + 1 < L => k + 1 \in H) => k \in H
  PROVE  0 \in H
  <1> DEFINE S == {j \in Nat : j < L => L - (j + 1) \in H}
  <1>1. 0 \in S
    <2>1. L - (0 + 1) \in 0 .. L - 1 /\ ~(L - (0 + 1) + 1 < L)
      OBVIOUS
    <2> QED
      BY <2>1
  <1>2. ASSUME NEW j \in Nat, j \in S PROVE j + 1 \in S
    <2> SUFFICES ASSUME j + 1 < L PROVE L - (j + 1 + 1) \in H
      OBVIOUS
    <2> DEFINE k == L - (j + 1 + 1)
    <2>1. k \in 0 .. L - 1 /\ k + 1 = L - (j + 1) /\ j < L
      OBVIOUS
    <2>2. k + 1 \in H
      BY <1>2, <2>1
    <2> HIDE DEF k
    <2>3. k \in H
      BY <2>1, <2>2
    <2> QED
      BY <2>3 DEF k
  <1>3. Nat \subseteq S
    <2> HIDE DEF S
    <2> QED
      BY <1>1, <1>2, Induction
  <1>4. L - 1 \in Nat /\ L - 1 < L /\ L - (L - 1 + 1) = 0
    OBVIOUS
  <1> QED
    BY <1>3, <1>4

-----------------------------------------------------------------------------
(* Paths.                                                                   *)

Stems == Paths \cup {<<>>}

(* p is q or above it.                                                      *)
Heads(p, q) == Len(p) <= Len(q) /\ \A i \in 1 .. Len(p) : p[i] = q[i]

LEMMA DepthNat == Depth \in Nat
  BY NestedAssumption

LEMMA PathIs ==
  \A p : p \in Paths <=> p \in Seq(Names) /\ Len(p) >= 1 /\ Len(p) <= Depth
  <1> TAKE p
  <1>1. ASSUME p \in Paths PROVE p \in Seq(Names) /\ Len(p) >= 1 /\ Len(p) <= Depth
    <2>1. PICK n \in 1 .. Depth : p \in [1 .. n -> Names]
      BY <1>1, NestedAssumption
    <2>2. n \in Nat /\ p \in Seq(Names) /\ Len(p) = n
      BY <2>1, NestedAssumption
    <2> QED
      BY <2>1, <2>2, NestedAssumption
  <1>2. ASSUME p \in Seq(Names), Len(p) >= 1, Len(p) <= Depth PROVE p \in Paths
    <2>1. Len(p) \in 1 .. Depth /\ p \in [1 .. Len(p) -> Names]
      BY <1>2, NestedAssumption
    <2> QED
      BY <2>1, NestedAssumption
  <1> QED
    BY <1>1, <1>2

LEMMA PrefixIs ==
  /\ Stems \subseteq Seq(Names)
  /\ <<>> \in Stems /\ Len(<<>>) = 0
  /\ \A r : r \in Stems <=> r \in Seq(Names) /\ Len(r) <= Depth
  /\ \A r \in Stems : Len(r) \in Nat /\ Len(r) <= Depth
  <1>1. <<>> \in Seq(Names) /\ Len(<<>>) = 0
    OBVIOUS
  <1>2. \A r \in Seq(Names) : Len(r) \in Nat /\ (Len(r) < 1 => r = <<>>)
    OBVIOUS
  <1>3. ASSUME NEW r PROVE r \in Stems <=> r \in Seq(Names) /\ Len(r) <= Depth
    <2>1. r = <<>> => r \in Seq(Names) /\ Len(r) <= Depth
      BY <1>1, NestedAssumption
    <2>2. r \in Seq(Names) /\ Len(r) <= Depth => r = <<>> \/ r \in Paths
      BY <1>2, PathIs
    <2> QED
      BY <2>1, <2>2, PathIs DEF Stems
  <1>4. <<>> \in Stems
    BY DEF Stems
  <1>5. Stems \subseteq Seq(Names)
    BY <1>3
  <1>6. \A r \in Stems : Len(r) \in Nat /\ Len(r) <= Depth
    BY <1>2, <1>3
  <1> QED
    BY <1>1, <1>3, <1>4, <1>5, <1>6

LEMMA HeadsIs ==
  ASSUME NEW p \in Seq(Names), NEW q \in Seq(Names)
  PROVE  IsPrefix(p, q) <=> Heads(p, q)
  <1>1. CASE Len(p) <= Len(q)
    <2>1. SubSeq(p, 1, Len(p)) \in Seq(Names) /\ Len(SubSeq(p, 1, Len(p))) = Len(p)
          /\ \A i \in 1 .. Len(p) : SubSeq(p, 1, Len(p))[i] = p[i]
      OBVIOUS
    <2>2. SubSeq(q, 1, Len(p)) \in Seq(Names) /\ Len(SubSeq(q, 1, Len(p))) = Len(p)
          /\ \A i \in 1 .. Len(p) : SubSeq(q, 1, Len(p))[i] = q[i]
      BY <1>1
    <2>3. SubSeq(p, 1, Len(p)) = SubSeq(q, 1, Len(p))
            <=> \A i \in 1 .. Len(p) : SubSeq(p, 1, Len(p))[i] = SubSeq(q, 1, Len(p))[i]
      BY <2>1, <2>2, SeqEqual
    <2> QED
      BY <1>1, <2>1, <2>2, <2>3 DEF IsPrefix, Heads
  <1>2. CASE ~(Len(p) <= Len(q))
    BY <1>2 DEF IsPrefix, Heads
  <1> QED
    BY <1>1, <1>2

LEMMA BelowIs ==
  ASSUME NEW p \in Paths, NEW q \in Paths
  PROVE  Below(p, q) <=> Heads(p, q) /\ Len(p) < Len(q)
  <1>1. p \in Seq(Names) /\ q \in Seq(Names)
    BY PathIs
  <1>2. Below(p, q) <=> IsPrefix(p, q) /\ p # q
    BY NestedAssumption DEF Below, IsStrictPrefix
  <1>3. Heads(p, q) => (p = q <=> Len(p) = Len(q))
    <2> SUFFICES ASSUME Heads(p, q), Len(p) = Len(q) PROVE p = q
      OBVIOUS
    <2> QED
      BY <1>1, SeqEqual DEF Heads
  <1>4. Len(p) \in Nat /\ Len(q) \in Nat /\ (Heads(p, q) => Len(p) <= Len(q))
    BY <1>1 DEF Heads
  <1> QED
    BY <1>1, <1>2, <1>3, <1>4, HeadsIs

(* What lies at or below prefix r, one name further.                        *)
LEMMA OneFurther ==
  ASSUME NEW r \in Seq(Names), NEW n \in Names, NEW q \in Seq(Names)
  PROVE  /\ Append(r, n) \in Seq(Names) /\ Len(Append(r, n)) = Len(r) + 1
         /\ Append(r, n)[Len(r) + 1] = n
         /\ \A i \in 1 .. Len(r) : Append(r, n)[i] = r[i]
         /\ Heads(r, Append(r, n))
         /\ Heads(Append(r, n), q) <=> Heads(r, q) /\ Len(r) < Len(q) /\ q[Len(r) + 1] = n
  <1>1. /\ Append(r, n) \in Seq(Names) /\ Len(Append(r, n)) = Len(r) + 1
        /\ Append(r, n)[Len(r) + 1] = n
        /\ \A i \in 1 .. Len(r) : Append(r, n)[i] = r[i]
    OBVIOUS
  <1>2. Len(r) \in Nat /\ Len(q) \in Nat
    OBVIOUS
  <1>3. 1 .. Len(r) + 1 = 1 .. Len(r) \cup {Len(r) + 1}
    BY <1>2
  <1>4. Heads(r, Append(r, n))
    BY <1>1, <1>2 DEF Heads
  <1>5. Heads(Append(r, n), q) <=> Heads(r, q) /\ Len(r) < Len(q) /\ q[Len(r) + 1] = n
    BY <1>1, <1>2, <1>3 DEF Heads
  <1> QED
    BY <1>1, <1>4, <1>5

-----------------------------------------------------------------------------
(* The recursive functions satisfy their equations.                         *)

EntryOf(T) == [mode : {"leaf"}, hash : Values] \cup [mode : {"tree"}, sub : T]

LEMMA TreesOfIs ==
  /\ TreesOf[0] = {None}
  /\ \A d \in 1 .. Depth : TreesOf[d] = UNION {[names -> EntryOf(TreesOf[d - 1])] : names \in SUBSET Names}
  <1> DEFINE Next(T) == UNION {[names -> EntryOf(T)] : names \in SUBSET Names}
             Eq(f, n) == f = [d \in 0 .. n |-> IF d = 0 THEN {None} ELSE Next(f[d - 1])]
             S == {n \in Nat : \E f : Eq(f, n)}
  <1> HIDE DEF Next
  <1>1. 0 \in S
    <2> DEFINE f == [d \in 0 .. 0 |-> {None}]
    <2>1. Eq(f, 0)
      OBVIOUS
    <2> QED
      BY <2>1
  <1>2. ASSUME NEW n \in Nat, n \in S PROVE n + 1 \in S
    <2>1. PICK f : Eq(f, n)
      BY <1>2
    <2> DEFINE g == [d \in 0 .. n + 1 |-> IF d = 0 THEN {None} ELSE Next(f[d - 1])]
    <2>2. ASSUME NEW d \in 0 .. n PROVE g[d] = f[d]
      <3>1. d \in 0 .. n + 1
        OBVIOUS
      <3>2. g[d] = IF d = 0 THEN {None} ELSE Next(f[d - 1])
        BY <3>1
      <3>3. f[d] = IF d = 0 THEN {None} ELSE Next(f[d - 1])
        BY <2>1
      <3> QED
        BY <3>2, <3>3
    <2>3. \A d \in 0 .. n + 1 : d # 0 => g[d - 1] = f[d - 1]
      <3> HIDE DEF g
      <3>1. \A d \in 0 .. n + 1 : d # 0 => d - 1 \in 0 .. n
        OBVIOUS
      <3> QED
        BY <2>2, <3>1
    <2>4. Eq(g, n + 1)
      BY <2>3
    <2>5. \E h : Eq(h, n + 1)
      <3> HIDE DEF g, Eq
      <3> QED
        BY <2>4
    <2> QED
      BY <2>5
  <1>3. Depth \in S
    <2> HIDE DEF S
    <2> QED
      BY <1>1, <1>2, Induction, NestedAssumption
  <1>4. PICK f : Eq(f, Depth)
    BY <1>3
  <1>5. TreesOf = CHOOSE h : Eq(h, Depth)
    BY DEF TreesOf, Next, EntryOf
  <1>6. Eq(TreesOf, Depth)
    <2> HIDE DEF Eq
    <2> QED
      BY <1>4, <1>5
  <1>7. 0 \in 0 .. Depth /\ \A d \in 1 .. Depth : d \in 0 .. Depth /\ d # 0
    BY NestedAssumption
  <1> QED
    BY <1>6, <1>7 DEF Next

(* The names that a tree made of the files of tr has at prefix r.           *)
Used(tr, r) == {n \in Names : \E q \in Paths : tr[q] # NoFile /\ IsPrefix(Append(r, n), q)}

NestAt(tr, f, r) ==
    [n \in Used(tr, r) |-> IF tr[Append(r, n)] # NoFile THEN Leaf(tr[Append(r, n)]) ELSE Dir(f[Append(r, n)])]

LEMMA UsedIs ==
  ASSUME NEW tr, NEW r \in Stems, NEW n \in Used(tr, r)
  PROVE  Append(r, n) \in Paths /\ Len(Append(r, n)) = Len(r) + 1
  <1>1. PICK q \in Paths : IsPrefix(Append(r, n), q)
    BY DEF Used
  <1>2. n \in Names /\ r \in Seq(Names) /\ q \in Seq(Names) /\ Len(q) <= Depth
    BY PrefixIs, PathIs DEF Used
  <1>3. Len(Append(r, n)) <= Len(q) /\ Append(r, n) \in Seq(Names) /\ Len(Append(r, n)) = Len(r) + 1
    BY <1>1, <1>2, OneFurther, HeadsIs DEF Heads
  <1>4. Len(r) \in Nat /\ Len(q) \in Nat
    BY <1>2
  <1>5. Len(Append(r, n)) >= 1 /\ Len(Append(r, n)) <= Depth
    BY <1>2, <1>3, <1>4, NestedAssumption
  <1> QED
    BY <1>3, <1>5, PathIs

LEMMA NestIs ==
  ASSUME NEW tr
  PROVE  \A r \in Stems : Nest(tr)[r] = NestAt(tr, Nest(tr), r)
  <1> DEFINE D(k) == {r \in Stems : Len(r) > Depth - k}
             Eq(f, P) == f = [r \in P |-> NestAt(tr, f, r)]
             S == {k \in Nat : \E f : Eq(f, D(k))}
  <1>1. 0 \in S
    <2>1. D(0) = {}
      BY PrefixIs, NestedAssumption
    <2>2. Eq([r \in {} |-> None], {})
      OBVIOUS
    <2> QED
      BY <2>1, <2>2
  <1>2. ASSUME NEW k \in Nat, k \in S PROVE k + 1 \in S
    <2>1. PICK f : Eq(f, D(k))
      BY <1>2
    <2> DEFINE g == [r \in D(k + 1) |-> NestAt(tr, f, r)]
    <2>2. ASSUME NEW r \in D(k + 1), NEW n \in Used(tr, r)
          PROVE  g[Append(r, n)] = f[Append(r, n)]
      <3>1. Append(r, n) \in Paths /\ Len(Append(r, n)) = Len(r) + 1
        BY UsedIs
      <3>2. Len(r) \in Nat
        BY PrefixIs
      <3>3. Append(r, n) \in D(k) /\ Append(r, n) \in D(k + 1)
        BY <3>1, <3>2, NestedAssumption DEF Stems
      <3> QED
        BY <2>1, <3>3
    <2>3. ASSUME NEW r \in D(k + 1)
          PROVE  NestAt(tr, f, r) = NestAt(tr, g, r)
      BY <2>2 DEF NestAt
    <2>4. Eq(g, D(k + 1))
      BY <2>3
    <2>5. \E h : Eq(h, D(k + 1))
      <3> HIDE DEF g, Eq, D
      <3> QED
        BY <2>4
    <2> QED
      BY <2>5
  <1>3. Depth + 1 \in S
    <2> HIDE DEF S
    <2> QED
      BY <1>1, <1>2, Induction, NestedAssumption
  <1>4. D(Depth + 1) = Stems
    BY PrefixIs, NestedAssumption
  <1>5. PICK f : Eq(f, Stems)
    BY <1>3, <1>4
  <1>6. Nest(tr) = CHOOSE fcn : Eq(fcn, Stems)
    BY DEF Nest, NestAt, Used, Stems
  <1>7. Eq(Nest(tr), Stems)
    <2> HIDE DEF Eq
    <2> QED
      BY <1>5, <1>6
  <1> QED
    BY <1>7

PutNow(e, f, parts, t) ==
    LET n == Head(parts)
        child == IF IsDir(t, n) THEN t[n].sub ELSE None
        made == f[Tail(parts)][child]
    IN  IF Len(parts) = 1 THEN Ok(Insert(t, n, e))
        ELSE IF LeafInTheWay(t, n) \/ made = Err THEN Err
        ELSE Ok(Insert(t, n, Dir(made[1])))

DeleteNow(f, parts, t) ==
    LET n == Head(parts)
    IN  IF Len(parts) = 1 THEN Drop(t, n)
        ELSE IF ~IsDir(t, n) THEN t
        ELSE Pruned(t, n, f[Tail(parts)][t[n].sub])

LEMMA TailIs ==
  ASSUME NEW p \in Paths
  PROVE  /\ Head(p) = p[1] /\ Head(p) \in Names
         /\ Len(p) \in Nat /\ Len(p) >= 1
         /\ Len(p) # 1 => Tail(p) \in Paths /\ Len(Tail(p)) = Len(p) - 1
         /\ \A i \in 1 .. Len(p) - 1 : Tail(p)[i] = p[i + 1]
  <1>1. p \in Seq(Names) /\ Len(p) >= 1 /\ Len(p) <= Depth
    BY PathIs
  <1>2. Len(p) \in Nat /\ Head(p) = p[1] /\ Head(p) \in Names
    BY <1>1
  <1>3. /\ Tail(p) \in Seq(Names) /\ Len(Tail(p)) = Len(p) - 1
        /\ \A i \in 1 .. Len(p) - 1 : Tail(p)[i] = p[i + 1]
    <2>1. p # <<>>
      BY <1>1
    <2> QED
      BY <1>1, <2>1, HeadTailProperties
  <1>4. Len(p) # 1 => Len(Tail(p)) >= 1 /\ Len(Tail(p)) <= Depth
    BY <1>1, <1>2, <1>3, DepthNat
  <1> QED
    BY <1>1, <1>2, <1>3, <1>4, PathIs

LEMMA PutIs ==
  ASSUME NEW e
  PROVE  \A p \in Paths, t \in TreeObjects : PutInner(e)[p][t] = PutNow(e, PutInner(e), p, t)
  <1> DEFINE D(k) == {p \in Paths : Len(p) <= k}
             Eq(f, P) == f = [p \in P |-> [t \in TreeObjects |-> PutNow(e, f, p, t)]]
             S == {k \in Nat : \E f : Eq(f, D(k))}
  <1>1. 0 \in S
    <2>1. D(0) = {}
      BY PathIs
    <2>2. Eq([r \in {} |-> None], {})
      OBVIOUS
    <2> QED
      BY <2>1, <2>2
  <1>2. ASSUME NEW k \in Nat, k \in S PROVE k + 1 \in S
    <2>1. PICK f : Eq(f, D(k))
      BY <1>2
    <2> DEFINE g == [p \in D(k + 1) |-> [t \in TreeObjects |-> PutNow(e, f, p, t)]]
    <2>2. ASSUME NEW p \in D(k + 1), Len(p) # 1
          PROVE  g[Tail(p)] = f[Tail(p)]
      <3>1. Tail(p) \in D(k) /\ Tail(p) \in D(k + 1)
        BY <2>2, TailIs
      <3> QED
        BY <2>1, <3>1
    <2> HIDE DEF g
    <2>3. ASSUME NEW p \in D(k + 1), NEW t \in TreeObjects
          PROVE  PutNow(e, f, p, t) = PutNow(e, g, p, t)
      BY <2>2 DEF PutNow
    <2>4. Eq(g, D(k + 1))
      BY <2>3 DEF g
    <2>5. \E h : Eq(h, D(k + 1))
      <3> HIDE DEF Eq, D
      <3> QED
        BY <2>4
    <2> HIDE DEF Eq, D
    <2> QED
      BY <2>5
  <1>3. Depth \in S
    <2> HIDE DEF S
    <2> QED
      BY <1>1, <1>2, Induction, DepthNat
  <1>4. D(Depth) = Paths
    BY PathIs
  <1>5. PICK f : Eq(f, Paths)
    BY <1>3, <1>4
  <1>6. PutInner(e) = CHOOSE fcn : Eq(fcn, Paths)
    BY DEF PutInner, PutNow
  <1>7. Eq(PutInner(e), Paths)
    <2> HIDE DEF Eq
    <2> QED
      BY <1>5, <1>6
  <1> HIDE DEF D, S
  <1> QED
    BY <1>7

LEMMA DeleteIs ==
  \A p \in Paths, t \in TreeObjects : DeleteInner[p][t] = DeleteNow(DeleteInner, p, t)
  <1> DEFINE D(k) == {p \in Paths : Len(p) <= k}
             Eq(f, P) == f = [p \in P |-> [t \in TreeObjects |-> DeleteNow(f, p, t)]]
             S == {k \in Nat : \E f : Eq(f, D(k))}
  <1>1. 0 \in S
    <2>1. D(0) = {}
      BY PathIs
    <2>2. Eq([r \in {} |-> None], {})
      OBVIOUS
    <2> QED
      BY <2>1, <2>2
  <1>2. ASSUME NEW k \in Nat, k \in S PROVE k + 1 \in S
    <2>1. PICK f : Eq(f, D(k))
      BY <1>2
    <2> DEFINE g == [p \in D(k + 1) |-> [t \in TreeObjects |-> DeleteNow(f, p, t)]]
    <2>2. ASSUME NEW p \in D(k + 1), Len(p) # 1
          PROVE  g[Tail(p)] = f[Tail(p)]
      <3>1. Tail(p) \in D(k) /\ Tail(p) \in D(k + 1)
        BY <2>2, TailIs
      <3> QED
        BY <2>1, <3>1
    <2> HIDE DEF g
    <2>3. ASSUME NEW p \in D(k + 1), NEW t \in TreeObjects
          PROVE  DeleteNow(f, p, t) = DeleteNow(g, p, t)
      BY <2>2 DEF DeleteNow
    <2>4. Eq(g, D(k + 1))
      BY <2>3 DEF g
    <2>5. \E h : Eq(h, D(k + 1))
      <3> HIDE DEF Eq, D
      <3> QED
        BY <2>4
    <2> HIDE DEF Eq, D
    <2> QED
      BY <2>5
  <1>3. Depth \in S
    <2> HIDE DEF S
    <2> QED
      BY <1>1, <1>2, Induction, DepthNat
  <1>4. D(Depth) = Paths
    BY PathIs
  <1>5. PICK f : Eq(f, Paths)
    BY <1>3, <1>4
  <1>6. DeleteInner = CHOOSE fcn : Eq(fcn, Paths)
    BY DEF DeleteInner, DeleteNow
  <1>7. Eq(DeleteInner, Paths)
    <2> HIDE DEF Eq
    <2> QED
      BY <1>5, <1>6
  <1> HIDE DEF D, S
  <1> QED
    BY <1>7

-----------------------------------------------------------------------------
(* Tree objects.                                                            *)

LEMMA NoneIs ==
  /\ DOMAIN None = {}
  /\ \A E : None \in [{} -> E]
  /\ \A E, t : t \in [{} -> E] => t = None
  BY DEF None

LEMMA TreesGrow ==
  \A d \in 0 .. Depth : /\ None \in TreesOf[d]
                        /\ \A c \in 0 .. d : TreesOf[c] \subseteq TreesOf[d]
  <1> DEFINE Has(d) == None \in TreesOf[d] /\ \A c \in 0 .. d : TreesOf[c] \subseteq TreesOf[d]
             Up(d) == d > 0 => TreesOf[d - 1] \subseteq TreesOf[d]
             S == {d \in Nat : d <= Depth => Has(d) /\ Up(d)}
  <1>1. 0 \in S
    <2>1. None \in TreesOf[0] /\ Up(0)
      BY TreesOfIs
    <2>2. \A c \in 0 .. 0 : c = 0
      OBVIOUS
    <2> QED
      BY <2>1, <2>2
  <1>2. ASSUME NEW d \in Nat, d \in S PROVE d + 1 \in S
    <2> SUFFICES ASSUME d + 1 <= Depth PROVE Has(d + 1) /\ Up(d + 1)
      OBVIOUS
    <2>0. Has(d) /\ Up(d)
      <3> HIDE DEF Has, Up
      <3> QED
        BY <1>2, DepthNat
    <2>1. TreesOf[d + 1] = UNION {[names -> EntryOf(TreesOf[d])] : names \in SUBSET Names}
      <3>1. d + 1 \in 1 .. Depth /\ d + 1 - 1 = d
        BY DepthNat
      <3> QED
        BY <3>1, TreesOfIs
    <2>2. None \in TreesOf[d + 1]
      <3>1. None \in [{} -> EntryOf(TreesOf[d])]
        BY NoneIs
      <3> QED
        BY <2>1, <3>1
    <2>3. TreesOf[d] \subseteq TreesOf[d + 1]
      <3>1. CASE d = 0
        BY <2>2, <3>1, TreesOfIs
      <3>2. CASE d # 0
        <4> DEFINE A == EntryOf(TreesOf[d - 1])  B == EntryOf(TreesOf[d])
        <4>1. d \in 1 .. Depth /\ d > 0
          BY <3>2, DepthNat
        <4>2. A \subseteq B
          BY <2>0, <4>1 DEF EntryOf
        <4>3. TreesOf[d] = UNION {[names -> A] : names \in SUBSET Names}
          BY <4>1, TreesOfIs
        <4>4. TreesOf[d + 1] = UNION {[names -> B] : names \in SUBSET Names}
          BY <2>1
        <4> HIDE DEF A, B
        <4>5. \A names : [names -> A] \subseteq [names -> B]
          BY <4>2
        <4> QED
          BY <4>3, <4>4, <4>5
      <3> QED
        BY <3>1, <3>2
    <2>4. ASSUME NEW c \in 0 .. d + 1 PROVE TreesOf[c] \subseteq TreesOf[d + 1]
      <3>1. c = d + 1 \/ c \in 0 .. d
        OBVIOUS
      <3> QED
        BY <2>0, <2>3, <3>1
    <2>5. d + 1 - 1 = d
      OBVIOUS
    <2> QED
      BY <2>2, <2>3, <2>4, <2>5
  <1>3. Nat \subseteq S
    <2> HIDE DEF S
    <2> QED
      BY <1>1, <1>2, Induction
  <1>4. ASSUME NEW d \in 0 .. Depth PROVE Has(d)
    <2>1. d \in Nat /\ d <= Depth
      BY DepthNat
    <2> HIDE DEF Has, Up
    <2> QED
      BY <1>3, <2>1
  <1> QED
    BY <1>4

(* What stands in a tree object, and that it stands in no deeper one.       *)
LEMMA EntryIs ==
  ASSUME NEW d \in 0 .. Depth, NEW t \in TreesOf[d]
  PROVE  /\ DOMAIN t \subseteq Names /\ IsFiniteSet(DOMAIN t)
         /\ \A n \in DOMAIN t :
               \/ t[n].mode = "leaf" /\ t[n].hash \in Values /\ t[n] = Leaf(t[n].hash)
               \/ d > 0 /\ t[n].mode = "tree" /\ t[n].sub \in TreesOf[d - 1] /\ t[n] = Dir(t[n].sub)
  <1>1. CASE d = 0
    <2>1. t = None
      BY <1>1, TreesOfIs
    <2>2. DOMAIN t = {}
      BY <2>1, NoneIs
    <2> QED
      BY <2>2, FS_EmptySet
  <1>2. CASE d # 0
    <2>1. d \in 1 .. Depth
      BY <1>2
    <2>2. PICK names \in SUBSET Names : t \in [names -> EntryOf(TreesOf[d - 1])]
      BY <2>1, TreesOfIs
    <2>3. DOMAIN t = names /\ IsFiniteSet(names)
      BY <2>2, FS_Subset, NestedAssumption
    <2>4. \A n \in DOMAIN t : t[n] \in EntryOf(TreesOf[d - 1])
      BY <2>2
    <2> QED
      BY <2>1, <2>3, <2>4 DEF EntryOf, Leaf, Dir
  <1> QED
    BY <1>1, <1>2

(* A tree with entries of the level below.                                  *)
LEMMA EntriesMake ==
  ASSUME NEW d \in 1 .. Depth, NEW t, NEW names \in SUBSET Names, t \in [names -> EntryOf(TreesOf[d - 1])]
  PROVE  t \in TreesOf[d]
  BY TreesOfIs

LEMMA NestTyped ==
  ASSUME NEW tr \in Tree, NEW r \in Stems
  PROVE  Nest(tr)[r] \in TreesOf[Depth - Len(r)] /\ Nest(tr)[r] \in TreeObjects
  <1> DEFINE Typed(k) == \A q \in Stems : Len(q) + k = Depth => Nest(tr)[q] \in TreesOf[k]
             S == {k \in Nat : k <= Depth => Typed(k)}
  <1>1. 0 \in S
    <2> SUFFICES ASSUME NEW q \in Stems, Len(q) + 0 = Depth
                 PROVE  Nest(tr)[q] \in TreesOf[0]
      OBVIOUS
    <2>0. Len(q) = Depth
      BY PrefixIs, DepthNat
    <2>1. ASSUME NEW n \in Used(tr, q) PROVE FALSE
      <3>1. Append(q, n) \in Paths /\ Len(Append(q, n)) = Len(q) + 1
        BY UsedIs
      <3>2. Len(Append(q, n)) <= Depth
        BY <3>1, PathIs
      <3> QED
        BY <2>0, <3>1, <3>2, DepthNat
    <2>2. Nest(tr)[q] = NestAt(tr, Nest(tr), q)
      BY NestIs
    <2>3. Nest(tr)[q] \in [{} -> {}]
      BY <2>1, <2>2 DEF NestAt
    <2> QED
      BY <2>3, NoneIs, TreesOfIs
  <1>2. ASSUME NEW k \in Nat, k \in S PROVE k + 1 \in S
    <2> SUFFICES ASSUME k + 1 <= Depth, NEW q \in Stems, Len(q) + (k + 1) = Depth
                 PROVE  Nest(tr)[q] \in TreesOf[k + 1]
      OBVIOUS
    <2>0. Typed(k)
      <3> HIDE DEF Typed
      <3> QED
        BY <1>2, DepthNat
    <2>1. Nest(tr)[q] = NestAt(tr, Nest(tr), q)
      BY NestIs
    <2>2. ASSUME NEW n \in Used(tr, q)
          PROVE  Nest(tr)[q][n] \in EntryOf(TreesOf[k])
      <3>1. Append(q, n) \in Paths /\ Len(Append(q, n)) = Len(q) + 1
        BY UsedIs
      <3>2. Append(q, n) \in Stems /\ Len(q) \in Nat
        BY <3>1, PrefixIs DEF Stems
      <3>3. Len(Append(q, n)) + k = Depth
        BY <3>1, <3>2, DepthNat
      <3>4. Nest(tr)[Append(q, n)] \in TreesOf[k]
        BY <2>0, <3>2, <3>3
      <3>5. tr[Append(q, n)] \in Values \cup {NoFile}
        BY <3>1 DEF Tree
      <3> QED
        BY <2>1, <3>4, <3>5 DEF NestAt, EntryOf, Leaf, Dir
    <2>3. Used(tr, q) \in SUBSET Names
      BY DEF Used
    <2>4. Nest(tr)[q] \in [Used(tr, q) -> EntryOf(TreesOf[k])]
      BY <2>1, <2>2 DEF NestAt
    <2>5. k + 1 \in 1 .. Depth /\ k + 1 - 1 = k
      BY DepthNat
    <2> QED
      BY <2>3, <2>4, <2>5, EntriesMake
  <1>3. Nat \subseteq S
    <2> HIDE DEF S
    <2> QED
      BY <1>1, <1>2, Induction
  <1>4. Len(r) \in Nat /\ Len(r) <= Depth
    BY PrefixIs
  <1> DEFINE k == Depth - Len(r)
  <1>5. k \in Nat /\ k \in 0 .. Depth /\ Len(r) + k = Depth /\ k <= Depth
    BY <1>4, DepthNat
  <1>6. Nest(tr)[r] \in TreesOf[k]
    <2> HIDE DEF k
    <2> QED
      BY <1>3, <1>5
  <1>7. Depth \in 0 .. Depth
    BY DepthNat
  <1> QED
    BY <1>5, <1>6, <1>7, TreesGrow DEF TreeObjects

-----------------------------------------------------------------------------
(* What stands where in the tree made of the files of tr.                   *)

Filled(tr, a) == \E q \in Paths : Heads(a, q) /\ Len(a) < Len(q) /\ tr[q] # NoFile

LEMMA UsedWhen ==
  ASSUME NEW tr, NEW r \in Stems, NEW n \in Names
  PROVE  n \in Used(tr, r) <=> \E q \in Paths : tr[q] # NoFile /\ Heads(Append(r, n), q)
  <1>1. r \in Seq(Names) /\ Append(r, n) \in Seq(Names) /\ \A q \in Paths : q \in Seq(Names)
    BY PrefixIs, PathIs, OneFurther
  <1>2. \A q \in Paths : IsPrefix(Append(r, n), q) <=> Heads(Append(r, n), q)
    BY <1>1, HeadsIs
  <1> QED
    BY <1>2 DEF Used

LEMMA NestEntry ==
  ASSUME NEW tr, NEW r \in Stems, NEW n \in Names, Append(r, n) \in Paths
  PROVE  LET t == Nest(tr)[r]
             a == Append(r, n)
         IN  /\ n \in DOMAIN t <=> tr[a] # NoFile \/ Filled(tr, a)
             /\ tr[a] # NoFile => t[n] = Leaf(tr[a])
             /\ n \in DOMAIN t /\ tr[a] = NoFile => t[n] = Dir(Nest(tr)[a])
  <1> DEFINE a == Append(r, n)
  <1>1. Nest(tr)[r] = NestAt(tr, Nest(tr), r)
    BY NestIs
  <1>2. DOMAIN Nest(tr)[r] = Used(tr, r)
    BY <1>1 DEF NestAt
  <1>3. n \in Used(tr, r) <=> \E q \in Paths : tr[q] # NoFile /\ Heads(a, q)
    BY UsedWhen
  <1>4. Heads(a, a)
    BY PathIs DEF Heads
  <1>5. \A q \in Paths : Heads(a, q) => a = q \/ Len(a) < Len(q)
    <2> SUFFICES ASSUME NEW q \in Paths, Heads(a, q), ~(Len(a) < Len(q)) PROVE a = q
      OBVIOUS
    <2>1. a \in Seq(Names) /\ q \in Seq(Names)
      <3> HIDE DEF a
      <3>1. a \in Paths
        BY DEF a
      <3> QED
        BY <3>1, PathIs
    <2> QED
      BY <2>1, SeqEqual DEF Heads
  <1>6. n \in Used(tr, r) <=> tr[a] # NoFile \/ Filled(tr, a)
    BY <1>3, <1>4, <1>5 DEF Filled
  <1> QED
    BY <1>1, <1>2, <1>6 DEF NestAt

LEMMA NestNone ==
  ASSUME NEW tr, NEW r \in Stems
  PROVE  Nest(tr)[r] = None <=> ~Filled(tr, r)
  <1>1. Nest(tr)[r] = NestAt(tr, Nest(tr), r)
    BY NestIs
  <1>2. DOMAIN Nest(tr)[r] = Used(tr, r)
    BY <1>1 DEF NestAt
  <1>3. Nest(tr)[r] = None <=> Used(tr, r) = {}
    <2>1. Nest(tr)[r] = None => Used(tr, r) = {}
      BY <1>2, NoneIs
    <2>2. Used(tr, r) = {} => Nest(tr)[r] \in [{} -> {}]
      BY <1>1 DEF NestAt
    <2> QED
      BY <2>1, <2>2, NoneIs
  <1>4. ASSUME NEW n \in Used(tr, r) PROVE Filled(tr, r)
    <2>1. n \in Names
      BY DEF Used
    <2>2. PICK q \in Paths : tr[q] # NoFile /\ Heads(Append(r, n), q)
      BY <2>1, UsedWhen
    <2>3. r \in Seq(Names) /\ q \in Seq(Names)
      BY PrefixIs, PathIs
    <2> QED
      BY <2>1, <2>2, <2>3, OneFurther DEF Filled
  <1>5. ASSUME Filled(tr, r) PROVE \E n : n \in Used(tr, r)
    <2>1. PICK q \in Paths : Heads(r, q) /\ Len(r) < Len(q) /\ tr[q] # NoFile
      BY <1>5 DEF Filled
    <2>2. r \in Seq(Names) /\ q \in Seq(Names) /\ Len(r) \in Nat /\ Len(q) \in Nat
      BY PrefixIs, PathIs
    <2>3. Len(r) + 1 \in 1 .. Len(q)
      BY <2>1, <2>2
    <2>4. q[Len(r) + 1] \in Names
      BY <2>2, <2>3
    <2>5. Heads(Append(r, q[Len(r) + 1]), q)
      BY <2>1, <2>2, <2>4, OneFurther
    <2> QED
      BY <2>1, <2>4, <2>5, UsedWhen
  <1> QED
    BY <1>3, <1>4, <1>5

LEMMA HeadsTrans ==
  ASSUME NEW p, NEW q, NEW s, Len(p) \in Nat, Len(q) \in Nat, Len(s) \in Nat
  PROVE  /\ Heads(p, q) /\ Heads(q, s) => Heads(p, s)
         /\ Heads(p, s) /\ Heads(q, s) /\ Len(p) <= Len(q) => Heads(p, q)
         /\ Heads(p, p)
  BY DEF Heads

(* The tree at r depends on the files below r alone.                        *)
LEMMA NestLocal ==
  ASSUME NEW tr, NEW ts
  PROVE  \A r \in Stems :
             (\A q \in Paths : Heads(r, q) /\ Len(r) < Len(q) => tr[q] = ts[q]) => Nest(tr)[r] = Nest(ts)[r]
  <1> DEFINE Same(r) == \A q \in Paths : Heads(r, q) /\ Len(r) < Len(q) => tr[q] = ts[q]
             Holds(k) == \A r \in Stems : Len(r) + k > Depth /\ Same(r) => Nest(tr)[r] = Nest(ts)[r]
             S == {k \in Nat : Holds(k)}
  <1>1. 0 \in S
    BY PrefixIs, DepthNat
  <1>2. ASSUME NEW k \in Nat, k \in S PROVE k + 1 \in S
    <2> SUFFICES ASSUME NEW r \in Stems, Len(r) + (k + 1) > Depth, Same(r)
                 PROVE  Nest(tr)[r] = Nest(ts)[r]
      OBVIOUS
    <2>0. Holds(k)
      BY <1>2
    <2>1. r \in Seq(Names) /\ Len(r) \in Nat /\ \A q \in Paths : q \in Seq(Names) /\ Len(q) \in Nat
      BY PrefixIs, PathIs
    <2>2. ASSUME NEW n \in Names, NEW q \in Paths, Heads(Append(r, n), q)
          PROVE  tr[q] = ts[q]
      BY <2>1, <2>2, OneFurther
    <2>3. Used(tr, r) = Used(ts, r)
      <3>1. \A n \in Names : n \in Used(tr, r) <=> n \in Used(ts, r)
        BY <2>2, UsedWhen
      <3> QED
        BY <3>1 DEF Used
    <2>4. ASSUME NEW n \in Used(tr, r)
          PROVE  LET a == Append(r, n) IN tr[a] = ts[a] /\ Nest(tr)[a] = Nest(ts)[a]
      <3> DEFINE a == Append(r, n)
      <3>1. n \in Names /\ a \in Paths /\ Len(a) = Len(r) + 1 /\ a \in Stems
        BY UsedIs DEF Used, Stems
      <3>2. tr[a] = ts[a]
        BY <2>1, <2>2, <3>1, HeadsTrans
      <3>3. Same(a)
        <4> SUFFICES ASSUME NEW q \in Paths, Heads(a, q), Len(a) < Len(q) PROVE tr[q] = ts[q]
          OBVIOUS
        <4> QED
          BY <2>2, <3>1
      <3>4. Len(a) + k > Depth
        BY <2>1, <3>1, DepthNat
      <3>5. Nest(tr)[a] = Nest(ts)[a]
        BY <2>0, <3>1, <3>3, <3>4
      <3> QED
        BY <3>2, <3>5
    <2>5. NestAt(tr, Nest(tr), r) = NestAt(ts, Nest(ts), r)
      BY <2>3, <2>4 DEF NestAt
    <2> QED
      BY <2>5, NestIs
  <1>3. Nat \subseteq S
    <2> HIDE DEF S
    <2> QED
      BY <1>1, <1>2, Induction
  <1>4. \A r \in Stems : Len(r) + (Depth + 1) > Depth
    BY PrefixIs, DepthNat
  <1>5. Depth + 1 \in Nat
    BY DepthNat
  <1>6. Holds(Depth + 1)
    <2> HIDE DEF Holds
    <2> QED
      BY <1>3, <1>5
  <1> QED
    BY <1>4, <1>6

(* The first k names of a path and the others.                              *)
First(w, k) == SubSeq(w, 1, k)
Rest(w, k)  == SubSeq(w, k + 1, Len(w))

LEMMA FirstIs ==
  ASSUME NEW w \in Paths, NEW k \in 0 .. Len(w)
  PROVE  /\ First(w, k) \in Seq(Names) /\ Len(First(w, k)) = k
         /\ \A i \in 1 .. k : First(w, k)[i] = w[i]
         /\ First(w, k) \in Stems
         /\ k > 0 => First(w, k) \in Paths
         /\ Heads(First(w, k), w)
         /\ First(w, Len(w)) = w /\ First(w, 0) = <<>>
  <1>1. w \in Seq(Names) /\ Len(w) <= Depth /\ Len(w) \in Nat
    BY PathIs
  <1>2. /\ First(w, k) \in Seq(Names) /\ Len(First(w, k)) = k
        /\ \A i \in 1 .. k : First(w, k)[i] = w[i]
    BY <1>1 DEF First
  <1>3. k <= Depth /\ (k > 0 => k >= 1)
    BY <1>1, DepthNat
  <1>4. First(w, k) \in Stems /\ (k > 0 => First(w, k) \in Paths)
    BY <1>2, <1>3, PrefixIs, PathIs
  <1>5. Heads(First(w, k), w)
    BY <1>1, <1>2 DEF Heads
  <1>6. First(w, Len(w)) = w
    BY <1>1, SeqEqual DEF First
  <1>7. First(w, 0) = <<>>
    BY <1>1 DEF First
  <1> QED
    BY <1>2, <1>4, <1>5, <1>6, <1>7

LEMMA StepIs ==
  ASSUME NEW w \in Paths, NEW k \in 0 .. Len(w) - 1
  PROVE  /\ w[k + 1] \in Names
         /\ Append(First(w, k), w[k + 1]) = First(w, k + 1)
         /\ Rest(w, k) \in Paths /\ Head(Rest(w, k)) = w[k + 1]
         /\ Len(Rest(w, k)) = Len(w) - k
         /\ k + 1 < Len(w) => Tail(Rest(w, k)) = Rest(w, k + 1)
         /\ Rest(w, 0) = w
  <1>1. w \in Seq(Names) /\ Len(w) <= Depth /\ Len(w) \in Nat /\ k + 1 \in 1 .. Len(w)
        /\ k \in 0 .. Len(w) /\ k + 1 \in 0 .. Len(w)
    BY PathIs
  <1>2. w[k + 1] \in Names
    BY <1>1
  <1>3. Append(First(w, k), w[k + 1]) = First(w, k + 1)
    <2>1. /\ First(w, k) \in Seq(Names) /\ Len(First(w, k)) = k
          /\ \A i \in 1 .. k : First(w, k)[i] = w[i]
      BY <1>1, FirstIs
    <2>2. /\ First(w, k + 1) \in Seq(Names) /\ Len(First(w, k + 1)) = k + 1
          /\ \A i \in 1 .. k + 1 : First(w, k + 1)[i] = w[i]
      BY <1>1, FirstIs
    <2> DEFINE f == First(w, k)  g == First(w, k + 1)  h == Append(f, w[k + 1])
    <2>3. h \in Seq(Names) /\ Len(h) = k + 1 /\ h[k + 1] = w[k + 1] /\ \A i \in 1 .. k : h[i] = f[i]
      BY <1>2, <2>1
    <2> HIDE DEF f, g, h
    <2>4. \A i \in 1 .. k + 1 : h[i] = g[i]
      BY <2>1, <2>2, <2>3 DEF f, g
    <2> QED
      BY <2>2, <2>3, <2>4, SeqEqual DEF f, g, h
  <1>4. /\ Rest(w, k) \in Seq(Names) /\ Len(Rest(w, k)) = Len(w) - k
        /\ \A i \in 1 .. Len(w) - k : Rest(w, k)[i] = w[k + i]
    BY <1>1 DEF Rest
  <1>5. Rest(w, k) \in Paths
    BY <1>1, <1>4, PathIs, DepthNat
  <1>6. Head(Rest(w, k)) = w[k + 1]
    BY <1>1, <1>4, <1>5, TailIs
  <1>7. ASSUME k + 1 < Len(w) PROVE Tail(Rest(w, k)) = Rest(w, k + 1)
    <2>1. /\ Rest(w, k + 1) \in Seq(Names) /\ Len(Rest(w, k + 1)) = Len(w) - (k + 1)
          /\ \A i \in 1 .. Len(w) - (k + 1) : Rest(w, k + 1)[i] = w[k + 1 + i]
      BY <1>1, <1>7 DEF Rest
    <2> DEFINE f == Rest(w, k)  g == Rest(w, k + 1)  h == Tail(f)
    <2>2. h \in Paths /\ Len(h) = Len(w) - (k + 1) /\ \A i \in 1 .. Len(w) - (k + 1) : h[i] = f[i + 1]
      BY <1>1, <1>4, <1>5, <1>7, TailIs
    <2>3. \A i \in 1 .. Len(w) - (k + 1) : f[i + 1] = w[k + 1 + i]
      BY <1>1, <1>4
    <2>4. h \in Seq(Names)
      BY <2>2, PathIs
    <2> HIDE DEF f, g, h
    <2>5. \A i \in 1 .. Len(w) - (k + 1) : h[i] = g[i]
      BY <2>1, <2>2, <2>3 DEF g
    <2> QED
      BY <2>1, <2>2, <2>4, <2>5, SeqEqual DEF f, g, h
  <1>8. Rest(w, 0) = w
    BY <1>1, SeqEqual DEF Rest
  <1> QED
    BY <1>2, <1>3, <1>4, <1>5, <1>6, <1>7, <1>8

-----------------------------------------------------------------------------
(* put_inner and delete_inner on such a tree.                               *)

LEMMA NestFcn ==
  ASSUME NEW tr, NEW r \in Stems
  PROVE  /\ Nest(tr)[r] = [n \in DOMAIN Nest(tr)[r] |-> Nest(tr)[r][n]]
         /\ DOMAIN Nest(tr)[r] \subseteq Names
         /\ \A n \in DOMAIN Nest(tr)[r] : Append(r, n) \in Paths
  <1>1. Nest(tr)[r] = NestAt(tr, Nest(tr), r)
    BY NestIs
  <1>2. DOMAIN Nest(tr)[r] = Used(tr, r)
    BY <1>1 DEF NestAt
  <1>3. Nest(tr)[r] = [n \in DOMAIN Nest(tr)[r] |-> Nest(tr)[r][n]]
    BY <1>1 DEF NestAt
  <1> QED
    BY <1>2, <1>3, UsedIs DEF Used

(* Files changed at and below w alone: the trees on the way to w differ     *)
(* only in their entry for the next name of w.                              *)
LEMMA Elsewhere ==
  ASSUME NEW tr, NEW ts, NEW w \in Paths, \A q \in Paths : ~Heads(w, q) => ts[q] = tr[q],
         NEW k \in 0 .. Len(w) - 1, NEW m \in Names, m # w[k + 1]
  PROVE  LET r == First(w, k)
         IN  /\ m \in DOMAIN Nest(ts)[r] <=> m \in DOMAIN Nest(tr)[r]
             /\ m \in DOMAIN Nest(tr)[r] => Nest(ts)[r][m] = Nest(tr)[r][m]
  <1> DEFINE r == First(w, k)
             a == Append(r, m)
  <1>1. w \in Seq(Names) /\ Len(w) \in Nat /\ k \in 0 .. Len(w) /\ k + 1 \in 1 .. Len(w)
    BY PathIs
  <1>2. r \in Stems /\ r \in Seq(Names) /\ Len(r) = k
    BY <1>1, FirstIs
  <1> HIDE DEF r
  <1>3. a \in Seq(Names) /\ Len(a) = k + 1 /\ a[k + 1] = m
    BY <1>2, OneFurther
  <1> HIDE DEF a
  <1>4. ASSUME NEW q \in Paths, Heads(a, q) PROVE ts[q] = tr[q]
    <2>1. q[k + 1] = m
      BY <1>1, <1>3, <1>4 DEF Heads
    <2>2. ~Heads(w, q)
      BY <1>1, <2>1 DEF Heads
    <2> QED
      BY <2>2
  <1>6. CASE a \in Paths
    <2>0. Heads(a, a)
      BY <1>1, <1>3 DEF Heads
    <2>1. ts[a] = tr[a]
      BY <1>4, <1>6, <2>0
    <2>2. Nest(ts)[a] = Nest(tr)[a]
      <3>1. \A q \in Paths : Heads(a, q) /\ Len(a) < Len(q) => tr[q] = ts[q]
        BY <1>4
      <3>2. a \in Stems
        BY <1>6 DEF Stems
      <3> QED
        BY <3>1, <3>2, NestLocal
    <2>3. Filled(ts, a) <=> Filled(tr, a)
      BY <1>4 DEF Filled
    <2>4. /\ m \in DOMAIN Nest(tr)[r] <=> tr[a] # NoFile \/ Filled(tr, a)
          /\ tr[a] # NoFile => Nest(tr)[r][m] = Leaf(tr[a])
          /\ m \in DOMAIN Nest(tr)[r] /\ tr[a] = NoFile => Nest(tr)[r][m] = Dir(Nest(tr)[a])
      BY <1>2, <1>6, NestEntry DEF a
    <2>5. /\ m \in DOMAIN Nest(ts)[r] <=> ts[a] # NoFile \/ Filled(ts, a)
          /\ ts[a] # NoFile => Nest(ts)[r][m] = Leaf(ts[a])
          /\ m \in DOMAIN Nest(ts)[r] /\ ts[a] = NoFile => Nest(ts)[r][m] = Dir(Nest(ts)[a])
      BY <1>2, <1>6, NestEntry DEF a
    <2> QED
      BY <2>1, <2>2, <2>3, <2>4, <2>5 DEF r
  <1>7. CASE a \notin Paths
    <2>1. m \notin DOMAIN Nest(ts)[r] /\ m \notin DOMAIN Nest(tr)[r]
      BY <1>2, <1>7, NestFcn DEF a
    <2> QED
      BY <2>1 DEF r
  <1> QED
    BY <1>6, <1>7

(* Trees that differ in their entry for n alone.                            *)
SameBut(f, t, n) ==
    /\ f = [m \in DOMAIN f |-> f[m]]
    /\ \A m : m # n => (m \in DOMAIN f <=> m \in DOMAIN t) /\ (m \in DOMAIN t => f[m] = t[m])

LEMMA ButOne ==
  ASSUME NEW f, NEW t, NEW n, SameBut(f, t, n)
  PROVE  /\ \A e : n \in DOMAIN f /\ f[n] = e => f = Insert(t, n, e)
         /\ n \notin DOMAIN f => f = Drop(t, n)
  <1>0. f = [m \in DOMAIN f |-> f[m]]
    BY DEF SameBut
  <1>1. ASSUME NEW e, n \in DOMAIN f, f[n] = e PROVE f = Insert(t, n, e)
    <2>1. DOMAIN f = DOMAIN t \cup {n}
      BY <1>1 DEF SameBut
    <2>2. \A m \in DOMAIN t \cup {n} : f[m] = IF m = n THEN e ELSE t[m]
      BY <1>1 DEF SameBut
    <2> QED
      BY <1>0, <2>1, <2>2 DEF Insert
  <1>2. ASSUME n \notin DOMAIN f PROVE f = Drop(t, n)
    <2>1. DOMAIN f = DOMAIN t \ {n}
      BY <1>2 DEF SameBut
    <2>2. \A m \in DOMAIN t \ {n} : f[m] = t[m]
      BY DEF SameBut
    <2> QED
      BY <1>0, <2>1, <2>2 DEF Drop
  <1> QED
    BY <1>1, <1>2

LEMMA SameNest ==
  ASSUME NEW tr, NEW ts, NEW w \in Paths, \A q \in Paths : ~Heads(w, q) => ts[q] = tr[q],
         NEW k \in 0 .. Len(w) - 1
  PROVE  SameBut(Nest(ts)[First(w, k)], Nest(tr)[First(w, k)], w[k + 1])
  <1> DEFINE r == First(w, k)  f == Nest(ts)[r]  t == Nest(tr)[r]  n == w[k + 1]
  <1>1. r \in Stems
    <2>1. Len(w) \in Nat /\ k \in 0 .. Len(w)
      BY PathIs
    <2> QED
      BY <2>1, FirstIs
  <1>2. /\ f = [m \in DOMAIN f |-> f[m]]
        /\ DOMAIN f \subseteq Names /\ DOMAIN t \subseteq Names
    BY <1>1, NestFcn
  <1>3. \A m \in Names : m # n => (m \in DOMAIN f <=> m \in DOMAIN t) /\ (m \in DOMAIN t => f[m] = t[m])
    BY Elsewhere
  <1> HIDE DEF f, t, n
  <1>4. \A m : m # n => (m \in DOMAIN f <=> m \in DOMAIN t) /\ (m \in DOMAIN t => f[m] = t[m])
    BY <1>2, <1>3
  <1>5. SameBut(f, t, n)
    BY <1>2, <1>4, Zenon DEF SameBut
  <1> QED
    BY <1>5 DEF f, t, n

LEMMA OpsLocal ==
  ASSUME NEW tr \in Tree, NEW w \in Paths
  PROVE  /\ DeleteAt(tr, w) \in Tree
         /\ \A q \in Paths : ~Heads(w, q) => DeleteAt(tr, w)[q] = tr[q]
         /\ \A v \in Values :
               /\ PutAt(tr, w, v) \in Tree
               /\ \A q \in Paths : ~Heads(w, q) => PutAt(tr, w, v)[q] = tr[q]
               /\ PutAt(tr, w, v)[w] = v
         /\ \A q \in Paths : Heads(w, q) => DeleteAt(tr, w)[q] = NoFile
         /\ \A k \in 1 .. Len(w) - 1 : ~Heads(w, First(w, k))
  <1>1. DeleteAt(tr, w) \in Tree /\ \A v \in Values : PutAt(tr, w, v) \in Tree
    BY DEF Tree, PutAt, DeleteAt
  <1>2. \A q \in Paths : Below(w, q) <=> Heads(w, q) /\ Len(w) < Len(q)
    BY BelowIs
  <1>3. ASSUME NEW q \in Paths PROVE Heads(w, q) <=> q = w \/ Below(w, q)
    <2>1. w \in Seq(Names) /\ q \in Seq(Names)
      BY PathIs
    <2>2. Len(w) \in Nat /\ Len(q) \in Nat
      BY <2>1
    <2>3. Heads(w, q) /\ Len(w) = Len(q) => q = w
      BY <2>1, SeqEqual DEF Heads
    <2>4. Heads(w, w)
      BY <2>2, HeadsTrans
    <2> QED
      BY <1>2, <2>2, <2>3, <2>4 DEF Heads
  <1>4. \A q \in Paths : ~Heads(w, q) => /\ DeleteAt(tr, w)[q] = tr[q]
                                        /\ \A v \in Values : PutAt(tr, w, v)[q] = tr[q]
    BY <1>3 DEF PutAt, DeleteAt
  <1>5. /\ \A v \in Values : PutAt(tr, w, v)[w] = v
        /\ \A q \in Paths : Heads(w, q) => DeleteAt(tr, w)[q] = NoFile
    BY <1>3 DEF PutAt, DeleteAt
  <1>6. ASSUME NEW k \in 1 .. Len(w) - 1 PROVE ~Heads(w, First(w, k))
    <2>1. Len(w) \in Nat /\ k \in 0 .. Len(w)
      BY PathIs
    <2>2. Len(First(w, k)) = k
      BY <2>1, FirstIs
    <2> QED
      BY <2>1, <2>2 DEF Heads
  <1> QED
    BY <1>1, <1>4, <1>5, <1>6

LEMMA BlockedWhen ==
  ASSUME NEW tr, NEW w \in Paths
  PROVE  PutBlocked(tr, w) <=> \E i \in 1 .. Len(w) - 1 : tr[First(w, i)] # NoFile
  <1>1. w \in Seq(Names) /\ Len(w) \in Nat
    BY PathIs
  <1>2. ASSUME NEW i \in 1 .. Len(w) - 1 PROVE First(w, i) \in Paths /\ Below(First(w, i), w)
    <2>1. i \in 0 .. Len(w) /\ i > 0 /\ i < Len(w)
      BY <1>1
    <2>2. First(w, i) \in Paths /\ Heads(First(w, i), w) /\ Len(First(w, i)) = i
      BY <2>1, FirstIs
    <2> QED
      BY <2>1, <2>2, BelowIs
  <1>3. ASSUME NEW q \in Paths, Below(q, w) PROVE \E i \in 1 .. Len(w) - 1 : q = First(w, i)
    <2>1. Heads(q, w) /\ Len(q) < Len(w)
      BY <1>3, BelowIs
    <2>2. q \in Seq(Names) /\ Len(q) >= 1 /\ Len(q) \in Nat
      BY PathIs
    <2> DEFINE i == Len(q)
    <2>3. i \in 1 .. Len(w) - 1 /\ i \in 0 .. Len(w)
      BY <1>1, <2>1, <2>2
    <2>4. /\ First(w, i) \in Seq(Names) /\ Len(First(w, i)) = i
          /\ \A j \in 1 .. i : First(w, i)[j] = w[j]
      BY <2>3, FirstIs
    <2>5. \A j \in 1 .. i : q[j] = w[j]
      BY <2>1 DEF Heads
    <2>6. q = First(w, i)
      BY <2>2, <2>4, <2>5, SeqEqual
    <2> QED
      BY <2>3, <2>6
  <1> QED
    BY <1>2, <1>3 DEF PutBlocked

(* put_at on the nested form is PutAt on the files.                         *)
LEMMA PutNested ==
  ASSUME NEW tr \in Tree, NEW w \in Paths, NEW v \in Values
  PROVE  PutInner(Leaf(v))[w][Nest(tr)[<<>>]] =
             IF PutBlocked(tr, w) THEN Err ELSE Ok(Nest(PutAt(tr, w, v))[<<>>])
  <1> DEFINE ts == PutAt(tr, w, v)
             L == Len(w)
             P == PutInner(Leaf(v))
             Blocked(k) == \E i \in k + 1 .. L - 1 : tr[First(w, i)] # NoFile
             Holds(k) == P[Rest(w, k)][Nest(tr)[First(w, k)]] =
                             IF Blocked(k) THEN Err ELSE Ok(Nest(ts)[First(w, k)])
             H == {k \in 0 .. L - 1 : Holds(k)}
  <1>1. L \in Nat /\ L >= 1
    BY PathIs
  <1>2. /\ ts \in Tree /\ ts[w] = v /\ v # NoFile
        /\ \A q \in Paths : ~Heads(w, q) => ts[q] = tr[q]
        /\ \A k \in 1 .. L - 1 : ~Heads(w, First(w, k))
    BY OpsLocal, ValueAssumption
  <1> HIDE DEF ts
  <1>3. ASSUME NEW k \in 0 .. L - 1, k + 1 < L => Holds(k + 1)
        PROVE  Holds(k)
    <2> DEFINE r == First(w, k)
               n == w[k + 1]
               a == First(w, k + 1)
               t == Nest(tr)[r]
               p == Rest(w, k)
               made == P[Tail(p)][IF IsDir(t, n) THEN t[n].sub ELSE None]
    <2>1. /\ n \in Names /\ Append(r, n) = a /\ p \in Paths /\ Head(p) = n
          /\ Len(p) = L - k /\ (k + 1 < L => Tail(p) = Rest(w, k + 1))
      BY StepIs
    <2>2. r \in Stems /\ a \in Paths /\ Heads(a, w) /\ Len(a) = k + 1
      <3>1. k \in 0 .. L /\ k + 1 \in 0 .. L /\ k + 1 > 0
        BY <1>1
      <3> QED
        BY <3>1, FirstIs
    <2>3. t \in TreeObjects
      BY <2>2, NestTyped
    <2>4. P[p][t] = IF Len(p) = 1 THEN Ok(Insert(t, n, Leaf(v)))
                    ELSE IF LeafInTheWay(t, n) \/ made = Err THEN Err
                    ELSE Ok(Insert(t, n, Dir(made[1])))
      <3>1. P[p][t] = PutNow(Leaf(v), P, p, t)
        BY <2>1, <2>3, PutIs
      <3> HIDE DEF P, t, p
      <3> QED
        BY <2>1, <3>1 DEF PutNow
    <2> HIDE DEF made, t, r, a, p, n, P
    <2>5. /\ n \in DOMAIN t <=> tr[a] # NoFile \/ Filled(tr, a)
          /\ tr[a] # NoFile => t[n] = Leaf(tr[a])
          /\ n \in DOMAIN t /\ tr[a] = NoFile => t[n] = Dir(Nest(tr)[a])
      BY <2>1, <2>2, NestEntry DEF t
    <2>6. /\ n \in DOMAIN Nest(ts)[r] <=> ts[a] # NoFile \/ Filled(ts, a)
          /\ ts[a] # NoFile => Nest(ts)[r][n] = Leaf(ts[a])
          /\ n \in DOMAIN Nest(ts)[r] /\ ts[a] = NoFile => Nest(ts)[r][n] = Dir(Nest(ts)[a])
      BY <2>1, <2>2, NestEntry
    <2>7. SameBut(Nest(ts)[r], t, n)
      BY <1>2, SameNest DEF t, r, n
    <2>9. ASSUME NEW e, n \in DOMAIN Nest(ts)[r], Nest(ts)[r][n] = e
          PROVE  Nest(ts)[r] = Insert(t, n, e)
      BY <2>7, <2>9, ButOne
    <2>10. CASE k + 1 = L
      <3>1. a = w
        BY <1>1, <2>10, FirstIs DEF a
      <3>2. n \in DOMAIN Nest(ts)[r] /\ Nest(ts)[r][n] = Leaf(v)
        BY <1>2, <2>6, <3>1
      <3>3. Nest(ts)[r] = Insert(t, n, Leaf(v))
        BY <2>9, <3>2
      <3>4. ~Blocked(k) /\ Len(p) = 1
        BY <1>1, <2>1, <2>10
      <3>5. P[p][t] = Ok(Nest(ts)[r])
        BY <2>4, <3>3, <3>4
      <3> QED
        BY <3>4, <3>5 DEF p, t, r
    <2>11. CASE k + 1 # L
      <3>0. k + 1 < L /\ k + 1 \in 1 .. L - 1 /\ Len(p) # 1
        BY <1>1, <2>1, <2>11
      <3>1. ts[a] = tr[a] /\ Filled(ts, a)
        <4>1. ts[a] = tr[a]
          BY <1>2, <2>2, <3>0 DEF a
        <4>2. w \in Paths /\ Heads(a, w) /\ Len(a) < Len(w) /\ ts[w] # NoFile
          BY <1>2, <2>2, <3>0
        <4> QED
          BY <4>1, <4>2 DEF Filled
      <3>2. CASE tr[a] # NoFile
        <4>1. Blocked(k)
          <5>1. tr[First(w, k + 1)] # NoFile
            BY <3>2 DEF a
          <5> QED
            BY <3>0, <5>1
        <4>2. LeafInTheWay(t, n)
          BY <2>5, <3>2 DEF LeafInTheWay, IsDir, Leaf
        <4>3. P[p][t] = Err
          BY <2>4, <3>0, <4>2
        <4> QED
          BY <4>1, <4>3 DEF p, t, r
      <3>3. CASE tr[a] = NoFile
        <4>1. Blocked(k) <=> Blocked(k + 1)
          <5>1. \A i \in k + 1 .. L - 1 : i = k + 1 \/ i \in k + 1 + 1 .. L - 1
            BY <1>1
          <5>2. \A i \in k + 1 + 1 .. L - 1 : i \in k + 1 .. L - 1
            BY <1>1
          <5>3. tr[First(w, k + 1)] = NoFile
            BY <3>3 DEF a
          <5> QED
            BY <5>1, <5>2, <5>3
        <4>2. ~LeafInTheWay(t, n) /\ (IF IsDir(t, n) THEN t[n].sub ELSE None) = Nest(tr)[a]
          <5>1. CASE n \in DOMAIN t
            BY <2>5, <3>3, <5>1 DEF LeafInTheWay, IsDir, Dir
          <5>2. CASE n \notin DOMAIN t
            <6>1. ~Filled(tr, a)
              BY <2>5, <5>2
            <6>2. Nest(tr)[a] = None
              BY <2>2, <6>1, NestNone DEF Stems
            <6> QED
              BY <5>2, <6>2 DEF LeafInTheWay, IsDir
          <5> QED
            BY <5>1, <5>2
        <4>3. made = IF Blocked(k + 1) THEN Err ELSE Ok(Nest(ts)[a])
          <5>1. made = P[Rest(w, k + 1)][Nest(tr)[a]]
            BY <2>1, <3>0, <4>2 DEF made
          <5> QED
            BY <1>3, <3>0, <5>1 DEF a
        <4>4. CASE Blocked(k)
          <5>1. P[p][t] = Err
            BY <2>4, <3>0, <4>1, <4>3, <4>4
          <5> QED
            BY <4>4, <5>1 DEF p, t, r
        <4>5. CASE ~Blocked(k)
          <5>1. made = <<Nest(ts)[a]>> /\ made # Err /\ made[1] = Nest(ts)[a]
            BY <4>1, <4>3, <4>5 DEF Ok, Err
          <5>2. P[p][t] = Ok(Insert(t, n, Dir(Nest(ts)[a])))
            BY <2>4, <3>0, <4>2, <5>1
          <5>3. n \in DOMAIN Nest(ts)[r] /\ Nest(ts)[r][n] = Dir(Nest(ts)[a])
            BY <2>6, <3>1, <3>3
          <5>4. P[p][t] = Ok(Nest(ts)[r])
            BY <2>9, <5>2, <5>3
          <5> QED
            BY <4>5, <5>4 DEF p, t, r
        <4> QED
          BY <4>4, <4>5
      <3> QED
        BY <3>2, <3>3
    <2> QED
      BY <2>10, <2>11
  <1> HIDE DEF Holds
  <1>4. ASSUME NEW k \in 0 .. L - 1, k + 1 < L => k + 1 \in H
        PROVE  k \in H
    BY <1>3, <1>4
  <1>5. 0 \in H
    <2> HIDE DEF H
    <2> QED
      BY <1>1, <1>4, Upwards
  <1>7. Holds(0)
    BY <1>5
  <1>8. 0 \in 0 .. L /\ 0 \in 0 .. L - 1 /\ 0 + 1 = 1
    BY <1>1
  <1>9. First(w, 0) = <<>> /\ Rest(w, 0) = w
    BY <1>8, FirstIs, StepIs
  <1>10. PutBlocked(tr, w) <=> Blocked(0)
    BY <1>8, BlockedWhen
  <1> QED
    BY <1>7, <1>9, <1>10 DEF Holds, ts

LEMMA ButNone ==
  ASSUME NEW f, NEW t, NEW n, SameBut(f, t, n), t = [m \in DOMAIN t |-> t[m]],
         n \in DOMAIN f <=> n \in DOMAIN t, n \in DOMAIN t => f[n] = t[n]
  PROVE  f = t
  <1>1. f = [m \in DOMAIN f |-> f[m]]
    BY DEF SameBut
  <1>2. DOMAIN f = DOMAIN t
    BY DEF SameBut
  <1>3. \A m \in DOMAIN t : f[m] = t[m]
    BY DEF SameBut
  <1>4. [m \in DOMAIN f |-> f[m]] = [m \in DOMAIN t |-> t[m]]
    BY <1>2, <1>3
  <1> QED
    BY <1>1, <1>4, Zenon

(* delete_inner on the nested form is DeleteAt on the files.                *)
LEMMA DeleteNested ==
  ASSUME NEW tr \in Tree, NEW w \in Paths
  PROVE  DeleteInner[w][Nest(tr)[<<>>]] = Nest(DeleteAt(tr, w))[<<>>]
  <1> DEFINE ts == DeleteAt(tr, w)
             L == Len(w)
             P == DeleteInner
             Holds(k) == P[Rest(w, k)][Nest(tr)[First(w, k)]] = Nest(ts)[First(w, k)]
             H == {k \in 0 .. L - 1 : Holds(k)}
  <1>1. L \in Nat /\ L >= 1
    BY PathIs
  <1>2. /\ ts \in Tree
        /\ \A q \in Paths : Heads(w, q) => ts[q] = NoFile
        /\ \A q \in Paths : ~Heads(w, q) => ts[q] = tr[q]
        /\ \A k \in 1 .. L - 1 : ~Heads(w, First(w, k))
    BY OpsLocal
  <1> HIDE DEF ts
  <1>3. ASSUME NEW k \in 0 .. L - 1, k + 1 < L => Holds(k + 1)
        PROVE  Holds(k)
    <2> DEFINE r == First(w, k)
               n == w[k + 1]
               a == First(w, k + 1)
               t == Nest(tr)[r]
               f == Nest(ts)[r]
               p == Rest(w, k)
               child == P[Tail(p)][t[n].sub]
    <2>1. /\ n \in Names /\ Append(r, n) = a /\ p \in Paths /\ Head(p) = n
          /\ Len(p) = L - k /\ (k + 1 < L => Tail(p) = Rest(w, k + 1))
      BY StepIs
    <2>2. r \in Stems /\ a \in Paths /\ a \in Stems
      <3>1. k \in 0 .. L /\ k + 1 \in 0 .. L /\ k + 1 > 0
        BY <1>1
      <3> QED
        BY <3>1, FirstIs
    <2>3. t \in TreeObjects
      BY <2>2, NestTyped
    <2>4. P[p][t] = IF Len(p) = 1 THEN Drop(t, n)
                    ELSE IF ~IsDir(t, n) THEN t
                    ELSE Pruned(t, n, child)
      <3>1. P[p][t] = DeleteNow(P, p, t)
        BY <2>1, <2>3, DeleteIs
      <3> HIDE DEF P, t, p
      <3> QED
        BY <2>1, <3>1 DEF DeleteNow
    <2>5. t = [m \in DOMAIN t |-> t[m]]
      BY <2>2, NestFcn
    <2> HIDE DEF child, t, f, r, a, p, n, P
    <2>6. /\ n \in DOMAIN t <=> tr[a] # NoFile \/ Filled(tr, a)
          /\ tr[a] # NoFile => t[n] = Leaf(tr[a])
          /\ n \in DOMAIN t /\ tr[a] = NoFile => t[n] = Dir(Nest(tr)[a])
      BY <2>1, <2>2, NestEntry DEF t
    <2>7. /\ n \in DOMAIN f <=> ts[a] # NoFile \/ Filled(ts, a)
          /\ ts[a] # NoFile => f[n] = Leaf(ts[a])
          /\ n \in DOMAIN f /\ ts[a] = NoFile => f[n] = Dir(Nest(ts)[a])
      BY <2>1, <2>2, NestEntry DEF f
    <2>8. SameBut(f, t, n)
      BY <1>2, SameNest DEF f, t, r, n
    <2>9. CASE k + 1 = L
      <3>1. a = w
        BY <1>1, <2>9, FirstIs DEF a
      <3>2. ts[a] = NoFile /\ ~Filled(ts, a)
        <4>1. Heads(w, w)
          BY <1>1, HeadsTrans
        <4> QED
          BY <1>2, <3>1, <4>1 DEF Filled
      <3>3. f = Drop(t, n)
        BY <2>7, <2>8, <3>2, ButOne
      <3>4. Len(p) = 1
        BY <1>1, <2>1, <2>9
      <3> QED
        BY <2>4, <3>3, <3>4 DEF p, t, f, r
    <2>10. CASE k + 1 # L
      <3>0. k + 1 < L /\ k + 1 \in 1 .. L - 1 /\ Len(p) # 1
        BY <1>1, <2>1, <2>10
      <3>1. ts[a] = tr[a]
        BY <1>2, <2>2, <3>0 DEF a
      <3>2. CASE ~IsDir(t, n)
        <4>1. Filled(ts, a) => Filled(tr, a)
          BY <1>2 DEF Filled
        <4>2. tr[a] = NoFile => n \notin DOMAIN t
          BY <2>6, <3>2 DEF IsDir, Dir
        <4>3. (n \in DOMAIN f <=> n \in DOMAIN t) /\ (n \in DOMAIN t => f[n] = t[n])
          BY <2>6, <2>7, <3>1, <4>1, <4>2
        <4>4. f = t
          BY <2>5, <2>8, <4>3, ButNone
        <4>5. P[p][t] = t
          BY <2>4, <3>0, <3>2
        <4> QED
          BY <4>4, <4>5 DEF p, t, f, r
      <3>3. CASE IsDir(t, n)
        <4>1. tr[a] = NoFile /\ t[n].sub = Nest(tr)[a]
          BY <2>6, <3>3 DEF IsDir, Leaf, Dir
        <4>2. child = Nest(ts)[a]
          <5>1. child = P[Rest(w, k + 1)][Nest(tr)[a]]
            BY <2>1, <3>0, <4>1 DEF child
          <5> QED
            BY <1>3, <3>0, <5>1 DEF a
        <4>3. child = None <=> ~Filled(ts, a)
          BY <2>2, <4>2, NestNone
        <4>4. CASE child = None
          <5>1. n \notin DOMAIN f
            BY <2>7, <3>1, <4>1, <4>3, <4>4
          <5>2. f = Drop(t, n)
            BY <2>8, <5>1, ButOne
          <5>3. P[p][t] = Drop(t, n)
            BY <2>4, <3>0, <3>3, <4>4 DEF Pruned
          <5> QED
            BY <5>2, <5>3 DEF p, t, f, r
        <4>5. CASE child # None
          <5>1. n \in DOMAIN f /\ f[n] = Dir(child)
            BY <2>7, <3>1, <4>1, <4>2, <4>3, <4>5
          <5>2. f = Insert(t, n, Dir(child))
            BY <2>8, <5>1, ButOne
          <5>3. P[p][t] = Insert(t, n, Dir(child))
            BY <2>4, <3>0, <3>3, <4>5 DEF Pruned
          <5> QED
            BY <5>2, <5>3 DEF p, t, f, r
        <4> QED
          BY <4>4, <4>5
      <3> QED
        BY <3>2, <3>3
    <2> QED
      BY <2>9, <2>10
  <1> HIDE DEF Holds
  <1>4. ASSUME NEW k \in 0 .. L - 1, k + 1 < L => k + 1 \in H
        PROVE  k \in H
    BY <1>3, <1>4
  <1>5. 0 \in H
    <2> HIDE DEF H
    <2> QED
      BY <1>1, <1>4, Upwards
  <1>6. Holds(0)
    BY <1>5
  <1>7. 0 \in 0 .. L /\ 0 \in 0 .. L - 1
    BY <1>1
  <1>8. First(w, 0) = <<>> /\ Rest(w, 0) = w
    BY <1>7, FirstIs, StepIs
  <1> QED
    BY <1>6, <1>8 DEF Holds, ts

(* What get_at is to answer at prefix a.                                    *)
Found(tr, a) ==
    IF Len(a) # 0 /\ tr[a] # NoFile THEN Ok(Leaf(tr[a]))
    ELSE IF Len(a) = 0 \/ Filled(tr, a) THEN Ok(Dir(Nest(tr)[a]))
    ELSE Err

(* One turn of its loop: from the answer so far, through the next name.     *)
Into(e, n) ==
    IF e = Err \/ e[1].mode # "tree" THEN Err
    ELSE IF n \in DOMAIN e[1].sub THEN Ok(e[1].sub[n]) ELSE Err

LEMMA IntoIs ==
  /\ \A n : Into(Err, n) = Err
  /\ \A v, n : Into(Ok(Leaf(v)), n) = Err
  /\ \A t, n : Into(Ok(Dir(t)), n) = IF n \in DOMAIN t THEN Ok(t[n]) ELSE Err
  <1>1. \A n : Into(Err, n) = Err
    BY DEF Into
  <1>2. \A v, n : Into(Ok(Leaf(v)), n) = Err
    BY DEF Into, Ok, Leaf
  <1>3. ASSUME NEW t, NEW n PROVE Into(Ok(Dir(t)), n) = IF n \in DOMAIN t THEN Ok(t[n]) ELSE Err
    <2>1. Ok(Dir(t)) # Err /\ Ok(Dir(t))[1] = Dir(t)
      BY DEF Ok, Err
    <2>2. Dir(t).mode = "tree" /\ Dir(t).sub = t
      BY DEF Dir
    <2> QED
      BY <2>1, <2>2 DEF Into
  <1> QED
    BY <1>1, <1>2, <1>3

LEMMA FoundInto ==
  ASSUME NEW tr \in Tree, WellFormed(tr), NEW p \in Paths, NEW k \in 0 .. Len(p) - 1
  PROVE  Into(Found(tr, First(p, k)), p[k + 1]) = Found(tr, First(p, k + 1))
  <1> DEFINE b == First(p, k)
             a == First(p, k + 1)
             n == p[k + 1]
  <1>1. p \in Seq(Names) /\ Len(p) \in Nat /\ k \in 0 .. Len(p) /\ k + 1 \in 0 .. Len(p) /\ k + 1 > 0
    BY PathIs
  <1>2. /\ b \in Stems /\ b \in Seq(Names) /\ Len(b) = k /\ (k > 0 => b \in Paths)
        /\ a \in Paths /\ a \in Seq(Names) /\ Len(a) = k + 1
        /\ Append(b, n) = a /\ n \in Names
    BY <1>1, FirstIs, StepIs
  <1> HIDE DEF a, b, n
  <1>3. Heads(b, a)
    BY <1>2, OneFurther
  <1>4. \A q \in Paths : Heads(a, q) => Heads(b, q) /\ Len(b) < Len(q)
    BY <1>2, OneFurther, PathIs
  <1>5. tr[a] # NoFile \/ Filled(tr, a) => Filled(tr, b)
    <2>1. Heads(a, a)
      BY <1>1, <1>2, HeadsTrans
    <2> QED
      BY <1>2, <1>4, <2>1 DEF Filled
  <1>6. Len(a) # 0 /\ (Len(b) = 0 <=> k = 0)
    BY <1>1, <1>2
  <1>7. CASE k # 0 /\ tr[b] # NoFile
    <2>1. b \in Paths
      BY <1>1, <1>2, <1>7
    <2>2. \A q \in Paths : Heads(b, q) /\ Len(b) < Len(q) => tr[q] = NoFile
      BY <1>7, <2>1, BelowIs DEF WellFormed
    <2>3. ~Filled(tr, b)
      BY <2>2 DEF Filled
    <2>4. Found(tr, b) = Ok(Leaf(tr[b])) /\ Found(tr, a) = Err
      BY <1>5, <1>6, <1>7, <2>3 DEF Found
    <2> QED
      BY <2>4, IntoIs DEF a, b, n
  <1>8. CASE k # 0 /\ tr[b] = NoFile /\ ~Filled(tr, b)
    <2>1. Found(tr, b) = Err /\ Found(tr, a) = Err
      BY <1>5, <1>6, <1>8 DEF Found
    <2> QED
      BY <2>1, IntoIs DEF a, b, n
  <1>9. CASE k = 0 \/ (tr[b] = NoFile /\ Filled(tr, b))
    <2>1. Found(tr, b) = Ok(Dir(Nest(tr)[b]))
      BY <1>6, <1>9 DEF Found
    <2>2. Into(Found(tr, b), n) = IF n \in DOMAIN Nest(tr)[b] THEN Ok(Nest(tr)[b][n]) ELSE Err
      BY <2>1, IntoIs
    <2>3. /\ n \in DOMAIN Nest(tr)[b] <=> tr[a] # NoFile \/ Filled(tr, a)
          /\ tr[a] # NoFile => Nest(tr)[b][n] = Leaf(tr[a])
          /\ n \in DOMAIN Nest(tr)[b] /\ tr[a] = NoFile => Nest(tr)[b][n] = Dir(Nest(tr)[a])
      BY <1>2, NestEntry
    <2>4. Into(Found(tr, b), n) = Found(tr, a)
      BY <1>6, <2>2, <2>3 DEF Found
    <2> QED
      BY <2>4 DEF a, b, n
  <1> QED
    BY <1>7, <1>8, <1>9

(* get_at on the nested form finds what the files are.                      *)
LEMMA GetNested ==
  ASSUME NEW tr \in Tree, WellFormed(tr), NEW p \in Paths
  PROVE  GetAt(Nest(tr)[<<>>], p) = Found(tr, p)
  <1> DEFINE L == Len(p)
             t == Nest(tr)[<<>>]
             At(f, i) == IF i = 0 THEN Ok(Dir(t)) ELSE Into(f[i - 1], p[i])
             Eq(f) == f = [i \in 0 .. L |-> At(f, i)]
             g == [i \in 0 .. L |-> Found(tr, First(p, i))]
  <1>1. p \in Seq(Names) /\ L \in Nat /\ 0 \in 0 .. L /\ L \in 0 .. L
    BY PathIs
  <1>2. Found(tr, First(p, 0)) = Ok(Dir(t))
    <2>1. First(p, 0) = <<>> /\ Len(<<>>) = 0
      BY <1>1, FirstIs
    <2> QED
      BY <2>1 DEF Found
  <1>3. ASSUME NEW i \in 0 .. L, i # 0
        PROVE  i - 1 \in 0 .. L /\ Into(Found(tr, First(p, i - 1)), p[i]) = Found(tr, First(p, i))
    <2> DEFINE k == i - 1
    <2>1. k \in 0 .. L - 1 /\ k \in 0 .. L /\ k + 1 = i
      BY <1>1, <1>3
    <2>2. Into(Found(tr, First(p, k)), p[k + 1]) = Found(tr, First(p, k + 1))
      BY <2>1, FoundInto
    <2> QED
      BY <2>1, <2>2
  <1>4. \E f : Eq(f)
    <2>1. ASSUME NEW i \in 0 .. L PROVE g[i] = At(g, i)
      <3>1. CASE i = 0
        BY <1>2, <3>1
      <3>2. CASE i # 0
        BY <1>3, <3>2
      <3> QED
        BY <3>1, <3>2
    <2>2. Eq(g)
      BY <2>1
    <2> HIDE DEF g, Eq
    <2> QED
      BY <2>2
  <1> DEFINE h == CHOOSE f : Eq(f)
  <1>5. GetAt(t, p) = h[L]
    BY DEF GetAt, Into
  <1>6. Eq(h)
    <2> HIDE DEF Eq
    <2> QED
      BY <1>4
  <1>7. \A i \in 0 .. L : h[i] = At(h, i)
    <2> HIDE DEF h, At
    <2> QED
      BY <1>6
  <1> DEFINE S == {i \in Nat : i <= L => h[i] = Found(tr, First(p, i))}
  <1> HIDE DEF h
  <1>8. 0 \in S
    BY <1>1, <1>2, <1>7
  <1>9. ASSUME NEW i \in Nat, i \in S PROVE i + 1 \in S
    <2> SUFFICES ASSUME i + 1 <= L PROVE h[i + 1] = Found(tr, First(p, i + 1))
      OBVIOUS
    <2>1. i + 1 \in 0 .. L /\ i + 1 # 0 /\ i + 1 - 1 = i /\ i <= L
      BY <1>1
    <2>2. h[i] = Found(tr, First(p, i))
      BY <1>9, <2>1
    <2>3. h[i + 1] = Into(h[i], p[i + 1])
      BY <1>7, <2>1
    <2> QED
      BY <1>3, <2>1, <2>2, <2>3
  <1>10. L \in S
    <2> HIDE DEF S
    <2> QED
      BY <1>1, <1>8, <1>9, Induction
  <1>11. First(p, L) = p
    BY <1>1, FirstIs
  <1> QED
    BY <1>1, <1>5, <1>10, <1>11

-----------------------------------------------------------------------------
(* Names in order.                                                          *)

Rising(s) == \A i, j \in DOMAIN s : i < j => s[i] < s[j]

(* A finite set of numbers has a sequence that lists it in rising order.    *)
LEMMA Sortable ==
  ASSUME NEW S, S \subseteq Nat, IsFiniteSet(S)
  PROVE  \E s \in [1 .. Cardinality(S) -> S] : Rising(s)
  <1> DEFINE T == {n \in Nat : \A U \in SUBSET Nat : IsFiniteSet(U) /\ Cardinality(U) = n =>
                                  \E s \in [1 .. n -> U] : Rising(s)}
  <1>1. 0 \in T
    <2> SUFFICES ASSUME NEW U \in SUBSET Nat, IsFiniteSet(U), Cardinality(U) = 0
                 PROVE  \E s \in [1 .. 0 -> U] : Rising(s)
      OBVIOUS
    <2>1. <<>> \in [1 .. 0 -> U] /\ Rising(<<>>)
      BY DEF Rising
    <2> QED
      BY <2>1
  <1>2. ASSUME NEW n \in Nat, n \in T
        PROVE  n + 1 \in T
    <2> SUFFICES ASSUME NEW U \in SUBSET Nat, IsFiniteSet(U), Cardinality(U) = n + 1
                 PROVE  \E s \in [1 .. n + 1 -> U] : Rising(s)
      BY <1>2
    <2>1. U # {}
      BY FS_EmptySet
    <2>2. PICK m \in U : \A k \in U : m <= k
      BY <2>1, Least
    <2>3. IsFiniteSet(U \ {m}) /\ Cardinality(U \ {m}) = n
      BY FS_RemoveElement, FS_CardinalityType
    <2>4. PICK t \in [1 .. n -> U \ {m}] : Rising(t)
      BY <1>2, <2>3
    <2> DEFINE s == [i \in 1 .. n + 1 |-> IF i = 1 THEN m ELSE t[i - 1]]
    <2>5. \A i \in 1 .. n + 1 : i # 1 => i - 1 \in 1 .. n
      OBVIOUS
    <2>6. s \in [1 .. n + 1 -> U]
      BY <2>5
    <2>7. ASSUME NEW i \in 1 .. n + 1, NEW j \in 1 .. n + 1, i < j
          PROVE  s[i] < s[j]
      <3>1. j # 1 /\ j - 1 \in 1 .. n /\ t[j - 1] \in U \ {m} /\ s[j] = t[j - 1]
        BY <2>7
      <3>2. CASE i = 1
        <4>1. m \in Nat /\ t[j - 1] \in Nat /\ m <= t[j - 1] /\ m # t[j - 1]
          BY <2>2, <3>1
        <4> QED
          BY <3>1, <3>2, <4>1
      <3>3. CASE i # 1
        <4>1. i - 1 \in 1 .. n /\ s[i] = t[i - 1] /\ i - 1 < j - 1
          BY <2>7, <3>3
        <4> QED
          BY <2>4, <3>1, <4>1 DEF Rising
      <3> QED
        BY <3>2, <3>3
    <2> QED
      BY <2>6, <2>7 DEF Rising
  <1> HIDE DEF T
  <1>3. Nat \subseteq T
    BY <1>1, <1>2, Induction
  <1>4. Cardinality(S) \in Nat
    BY FS_CardinalityType
  <1> QED
    BY <1>3, <1>4 DEF T

(* A listing of S of its own length that repeats nothing is all of S.       *)
LEMMA ListsAll ==
  ASSUME NEW S, IsFiniteSet(S), NEW s \in [1 .. Cardinality(S) -> S],
         \A i, j \in 1 .. Cardinality(S) : s[i] = s[j] => i = j
  PROVE  \A x \in S : \E i \in 1 .. Cardinality(S) : s[i] = x
  <1>1. Cardinality(S) \in Nat
    BY FS_CardinalityType
  <1>2. Cardinality(1 .. Cardinality(S)) = Cardinality(S)
    BY <1>1, FS_Interval
  <1>3. s \in Injection(1 .. Cardinality(S), S)
    BY DEF Injection, IsInjective
  <1>4. s \in Surjection(1 .. Cardinality(S), S)
    BY <1>2, <1>3, FS_Injection
  <1> QED
    BY <1>4 DEF Surjection

Listed(s) == {s[i] : i \in 1 .. Len(s)}

LEMMA InOrderIs ==
  ASSUME NEW t \in TreeObjects
  PROVE  LET names == InOrder(t)
         IN  /\ names \in Seq(DOMAIN t) /\ DOMAIN names = 1 .. Len(names) /\ Len(names) \in Nat
             /\ Listed(names) = DOMAIN t
             /\ \A i, j \in 1 .. Len(names) : i < j => names[i] < names[j]
  <1> DEFINE S == DOMAIN t
             n == Cardinality(S)
             a == InOrder(t)
  <1>0. S \subseteq Nat /\ IsFiniteSet(S)
    <2>1. Depth \in 0 .. Depth
      BY DepthNat
    <2>2. S \subseteq Names /\ IsFiniteSet(S)
      BY <2>1, EntryIs DEF TreeObjects
    <2> QED
      BY <2>2, NestedAssumption
  <1> HIDE DEF S
  <1>1. n \in Nat
    BY <1>0, FS_CardinalityType
  <1>2. a \in [1 .. n -> S] /\ Rising(a)
    BY <1>0, Sortable DEF InOrder, Rising, S
  <1> HIDE DEF a
  <1>3. Len(a) = n /\ a \in Seq(S) /\ DOMAIN a = 1 .. n
    BY <1>1, <1>2
  <1>4. \A i, j \in 1 .. n : i < j => a[i] < a[j]
    BY <1>2, <1>3 DEF Rising
  <1>5. ASSUME NEW i \in 1 .. n, NEW j \in 1 .. n, a[i] = a[j]
        PROVE  i = j
    <2>1. a[i] \in Nat /\ a[j] \in Nat
      BY <1>0, <1>2
    <2> QED
      BY <1>1, <1>4, <1>5, <2>1
  <1>6. \A x \in S : \E i \in 1 .. n : a[i] = x
    BY <1>0, <1>2, <1>5, ListsAll
  <1>7. Listed(a) = S
    <2>1. \A i \in 1 .. n : a[i] \in S
      BY <1>2
    <2> QED
      BY <1>3, <1>6, <2>1 DEF Listed
  <1> HIDE DEF n
  <1> QED
    BY <1>1, <1>3, <1>4, <1>7 DEF a, S

-----------------------------------------------------------------------------
(* Sequences joined: what they list, and that they stay in an order.        *)

Chain(s, R)     == \A i, j \in 1 .. Len(s) : i < j => <<s[i], s[j]>> \in R
Across(a, b, R) == \A x \in Listed(a), y \in Listed(b) : <<x, y>> \in R

LEMMA JoinTwo ==
  ASSUME NEW E, NEW R, NEW a \in Seq(E), NEW b \in Seq(E), Chain(a, R), Chain(b, R), Across(a, b, R)
  PROVE  a \o b \in Seq(E) /\ Listed(a \o b) = Listed(a) \cup Listed(b) /\ Chain(a \o b, R)
  <1> DEFINE s == a \o b  m == Len(a)  n == Len(b)
  <1>1. /\ m \in Nat /\ n \in Nat /\ s \in Seq(E) /\ Len(s) = m + n
        /\ \A i \in 1 .. m + n : s[i] = IF i <= m THEN a[i] ELSE b[i - m]
    BY ConcatProperties, LenProperties
  <1> HIDE DEF s, m, n
  <1>2. \A i \in 1 .. m + n : IF i <= m THEN i \in 1 .. m ELSE i - m \in 1 .. n
    BY <1>1
  <1>3. \A i \in 1 .. m : i \in 1 .. m + n /\ s[i] = a[i]
    BY <1>1
  <1>4. ASSUME NEW i \in 1 .. n PROVE m + i \in 1 .. m + n /\ s[m + i] = b[i]
    <2>1. m + i \in 1 .. m + n /\ ~(m + i <= m) /\ m + i - m = i
      BY <1>1
    <2> QED
      BY <1>1, <2>1
  <1>5. \A i \in 1 .. m + n : s[i] \in Listed(a) \cup Listed(b)
    BY <1>1, <1>2 DEF Listed, m, n
  <1>6. \A i \in 1 .. m : \E j \in 1 .. m + n : s[j] = a[i]
    BY <1>3
  <1>7. \A i \in 1 .. n : \E j \in 1 .. m + n : s[j] = b[i]
    BY <1>4
  <1>8. Listed(s) = Listed(a) \cup Listed(b)
    <2>1. Listed(s) \subseteq Listed(a) \cup Listed(b)
      BY <1>1, <1>5 DEF Listed
    <2>2. Listed(a) \subseteq Listed(s)
      BY <1>1, <1>6 DEF Listed, m
    <2>3. Listed(b) \subseteq Listed(s)
      BY <1>1, <1>7 DEF Listed, n
    <2> QED
      BY <2>1, <2>2, <2>3
  <1>9. ASSUME NEW i \in 1 .. m + n, NEW j \in 1 .. m + n, i < j
        PROVE  <<s[i], s[j]>> \in R
    <2>1. CASE j <= m
      <3>1. i \in 1 .. m /\ j \in 1 .. m
        BY <1>1, <1>9, <2>1
      <3> QED
        BY <1>3, <1>9, <3>1 DEF Chain, m
    <2>2. CASE i <= m /\ ~(j <= m)
      <3>1. i \in 1 .. m /\ j - m \in 1 .. n /\ s[i] = a[i] /\ s[j] = b[j - m]
        BY <1>1, <1>2, <2>2
      <3> QED
        BY <3>1 DEF Across, Listed, m, n
    <2>3. CASE ~(i <= m)
      <3>1. ~(j <= m) /\ i - m \in 1 .. n /\ j - m \in 1 .. n /\ i - m < j - m
        BY <1>1, <1>2, <1>9, <2>3
      <3>2. s[i] = b[i - m] /\ s[j] = b[j - m]
        BY <1>1, <2>3, <3>1
      <3> QED
        BY <3>1, <3>2 DEF Chain, n
    <2> QED
      BY <2>1, <2>2, <2>3
  <1> QED
    BY <1>1, <1>8, <1>9 DEF s, Chain

(* The first k of the sequences, joined.                                    *)
Joined(seqs, k, s, E, R) ==
    /\ s \in Seq(E) /\ Chain(s, R)
    /\ \A x : x \in Listed(s) <=> \E j \in 1 .. k : x \in Listed(seqs[j])

LEMMA Flattened ==
  ASSUME NEW E, NEW R, NEW seqs \in Seq(Seq(E)),
         \A i \in 1 .. Len(seqs) : Chain(seqs[i], R),
         \A i, j \in 1 .. Len(seqs) : i < j => Across(seqs[i], seqs[j], R)
  PROVE  Joined(seqs, Len(seqs), FlattenSeq(seqs), E, R)
  <1> DEFINE m == Len(seqs)
  <1>1. m \in Nat /\ DOMAIN seqs = 1 .. m /\ \A i \in 1 .. m : seqs[i] \in Seq(E)
    BY LenProperties
  <1>2. CASE m = 0
    <2>1. FlattenSeq(seqs) = seqs
      BY <1>2 DEF FlattenSeq
    <2>2. seqs = <<>>
      BY <1>2, EmptySeq
    <2>3. <<>> \in Seq(E) /\ Listed(<<>>) = {} /\ Chain(<<>>, R)
      BY DEF Listed, Chain
    <2>4. 1 .. 0 = {}
      OBVIOUS
    <2> QED
      BY <1>2, <2>1, <2>2, <2>3, <2>4 DEF Joined
  <1>3. CASE m # 0
    <2> DEFINE At(f, i) == IF i = 1 THEN seqs[i] ELSE f[i - 1] \o seqs[i]
               Eq(f, k) == f = [i \in 1 .. k |-> At(f, i)]
               S == {k \in Nat : \E f : Eq(f, k)}
    <2>1. 0 \in S
      <3>1. Eq([i \in 1 .. 0 |-> <<>>], 0)
        OBVIOUS
      <3> QED
        BY <3>1
    <2>2. ASSUME NEW k \in Nat, k \in S PROVE k + 1 \in S
      <3>1. PICK f : Eq(f, k)
        BY <2>2
      <3> DEFINE g == [i \in 1 .. k + 1 |-> At(f, i)]
      <3>2. ASSUME NEW i \in 1 .. k + 1, i # 1 PROVE g[i - 1] = f[i - 1]
        <4>1. i - 1 \in 1 .. k /\ i - 1 \in 1 .. k + 1
          BY <3>2
        <4> HIDE DEF At
        <4>2. f[i - 1] = At(f, i - 1)
          BY <3>1, <4>1
        <4> QED
          BY <4>1, <4>2
      <3> HIDE DEF g
      <3>3. \A i \in 1 .. k + 1 : At(f, i) = At(g, i)
        BY <3>2
      <3>4. Eq(g, k + 1)
        BY <3>3 DEF g
      <3>5. \E h : Eq(h, k + 1)
        <4> HIDE DEF Eq
        <4> QED
          BY <3>4
      <3> HIDE DEF Eq
      <3> QED
        BY <3>5
    <2>3. m \in S
      <3> HIDE DEF S
      <3> QED
        BY <1>1, <2>1, <2>2, Induction
    <2> DEFINE h == CHOOSE f : Eq(f, m)
    <2>4. FlattenSeq(seqs) = h[m]
      BY <1>3 DEF FlattenSeq
    <2>5. Eq(h, m)
      <3> HIDE DEF Eq
      <3> QED
        BY <2>3
    <2>6. \A i \in 1 .. m : h[i] = At(h, i)
      <3> HIDE DEF h, At
      <3> QED
        BY <2>5
    <2> HIDE DEF h
    <2> DEFINE T == {i \in Nat : i + 1 <= m => Joined(seqs, i + 1, h[i + 1], E, R)}
    <2>7. 0 \in T
      <3>1. h[1] = seqs[1] /\ 1 \in 1 .. m
        BY <1>1, <1>3, <2>6
      <3>2. 1 .. 0 + 1 = {1} /\ 0 + 1 = 1
        OBVIOUS
      <3> QED
        BY <1>1, <3>1, <3>2 DEF Joined
    <2>8. ASSUME NEW i \in Nat, i \in T PROVE i + 1 \in T
      <3> SUFFICES ASSUME i + 1 + 1 <= m PROVE Joined(seqs, i + 1 + 1, h[i + 1 + 1], E, R)
        OBVIOUS
      <3> DEFINE k == i + 1
      <3>1. k \in 1 .. m /\ k + 1 \in 1 .. m /\ k + 1 # 1 /\ k + 1 - 1 = k /\ k + 1 = i + 1 + 1
        BY <1>1
      <3>2. Joined(seqs, k, h[k], E, R)
        BY <2>8, <3>1
      <3> HIDE DEF k
      <3>3. h[k + 1] = h[k] \o seqs[k + 1]
        <4>1. PICK n : n = k + 1
          OBVIOUS
        <4>2. n \in 1 .. m /\ n # 1 /\ n - 1 = k
          BY <3>1, <4>1
        <4>3. h[n] = IF n = 1 THEN seqs[n] ELSE h[n - 1] \o seqs[n]
          BY <2>6, <4>2, Zenon
        <4>4. h[n] = h[k] \o seqs[n]
          BY <4>2, <4>3, Zenon
        <4> QED
          BY <4>1, <4>4, Zenon
      <3>4. h[k] \in Seq(E) /\ seqs[k + 1] \in Seq(E) /\ Chain(h[k], R) /\ Chain(seqs[k + 1], R)
        BY <1>1, <3>1, <3>2 DEF Joined
      <3>5. Across(h[k], seqs[k + 1], R)
        <4> SUFFICES ASSUME NEW x \in Listed(h[k]), NEW y \in Listed(seqs[k + 1]) PROVE <<x, y>> \in R
          BY DEF Across
        <4>1. PICK j \in 1 .. k : x \in Listed(seqs[j])
          BY <3>2 DEF Joined
        <4>2. j \in 1 .. m /\ j < k + 1
          BY <1>1, <3>1
        <4> QED
          BY <3>1, <4>1, <4>2 DEF Across
      <3>6. /\ h[k + 1] \in Seq(E) /\ Listed(h[k + 1]) = Listed(h[k]) \cup Listed(seqs[k + 1])
            /\ Chain(h[k + 1], R)
        BY <3>3, <3>4, <3>5, JoinTwo
      <3>7. 1 .. k + 1 = 1 .. k \cup {k + 1}
        BY <3>1
      <3>8. \A x : x \in Listed(h[k + 1]) <=> \E j \in 1 .. k + 1 : x \in Listed(seqs[j])
        BY <3>2, <3>6, <3>7 DEF Joined
      <3>9. Joined(seqs, k + 1, h[k + 1], E, R)
        BY <3>6, <3>8 DEF Joined
      <3> QED
        BY <3>1, <3>9
    <2>9. m - 1 \in Nat /\ m - 1 + 1 = m /\ m <= m
      BY <1>1, <1>3
    <2>10. m - 1 \in T
      <3> HIDE DEF T
      <3> QED
        BY <2>7, <2>8, <2>9, Induction
    <2> QED
      BY <2>4, <2>9, <2>10
  <1> QED
    BY <1>2, <1>3

-----------------------------------------------------------------------------
(* walk_inner.                                                              *)

WalkNow(f, t, prefix) ==
    LET names == InOrder(t)
        under(n) == IF IsDir(t, n) THEN f[t[n].sub][Append(prefix, n)]
                    ELSE <<[path |-> Append(prefix, n), hash |-> t[n].hash]>>
    IN  FlattenSeq([i \in DOMAIN names |-> under(names[i])])

LEMMA WalkIs ==
  \A t \in TreeObjects, r \in Seq(Names) : WalkInner[t][r] = WalkNow(WalkInner, t, r)
  <1> DEFINE D(k) == IF k = 0 THEN {} ELSE TreesOf[k - 1]
             Eq(f, P) == f = [t \in P |-> [prefix \in Seq(Names) |-> WalkNow(f, t, prefix)]]
             S == {k \in Nat : k <= Depth + 1 => \E f : Eq(f, D(k))}
  <1>1. 0 \in S
    <2>1. Eq([t \in {} |-> None], {})
      OBVIOUS
    <2> QED
      BY <2>1
  <1>2. ASSUME NEW k \in Nat, k \in S PROVE k + 1 \in S
    <2> SUFFICES ASSUME k + 1 <= Depth + 1 PROVE \E f : Eq(f, D(k + 1))
      OBVIOUS
    <2>0. k \in 0 .. Depth /\ D(k + 1) = TreesOf[k]
      <3>1. k \in 0 .. Depth /\ k + 1 # 0 /\ k + 1 - 1 = k
        BY DepthNat
      <3> QED
        BY <3>1
    <2>1. PICK f : Eq(f, D(k))
      <3> HIDE DEF Eq, D
      <3> QED
        BY <1>2, <2>0, DepthNat
    <2> DEFINE g == [t \in TreesOf[k] |-> [prefix \in Seq(Names) |-> WalkNow(f, t, prefix)]]
    <2>2. ASSUME NEW t \in TreesOf[k], NEW n, IsDir(t, n)
          PROVE  g[t[n].sub] = f[t[n].sub]
      <3>1. k > 0 /\ t[n].sub \in TreesOf[k - 1]
        BY <2>0, <2>2, EntryIs DEF IsDir, Leaf
      <3>2. k - 1 \in 0 .. k
        BY <2>0, <3>1
      <3>3. t[n].sub \in TreesOf[k] /\ t[n].sub \in D(k)
        BY <2>0, <3>1, <3>2, TreesGrow
      <3> DEFINE u == t[n].sub
      <3>4. f[u] = [prefix \in Seq(Names) |-> WalkNow(f, u, prefix)]
        <4> HIDE DEF D, u
        <4> QED
          BY <2>1, <3>3 DEF u
      <3>5. g[u] = [prefix \in Seq(Names) |-> WalkNow(f, u, prefix)]
        <4> HIDE DEF D, u
        <4> QED
          BY <3>3 DEF u
      <3> QED
        BY <3>4, <3>5
    <2> HIDE DEF g
    <2>3. ASSUME NEW t \in TreesOf[k], NEW prefix \in Seq(Names)
          PROVE  WalkNow(f, t, prefix) = WalkNow(g, t, prefix)
      BY <2>2 DEF WalkNow
    <2>4. Eq(g, TreesOf[k])
      BY <2>3 DEF g
    <2>5. \E h : Eq(h, TreesOf[k])
      <3> HIDE DEF Eq, D
      <3> QED
        BY <2>4
    <2> HIDE DEF Eq, D
    <2> QED
      BY <2>0, <2>5
  <1>3. Depth + 1 \in S
    <2> HIDE DEF S
    <2> QED
      BY <1>1, <1>2, Induction, DepthNat
  <1>4. D(Depth + 1) = TreeObjects
    <2>1. PICK k : k = Depth + 1
      OBVIOUS
    <2>2. k # 0 /\ k - 1 = Depth
      BY <2>1, DepthNat
    <2>3. D(k) = TreesOf[Depth]
      BY <2>2, Zenon
    <2> QED
      BY <2>1, <2>3, Zenon DEF TreeObjects
  <1>5. PICK f : Eq(f, TreeObjects)
    <2>1. Depth + 1 <= Depth + 1
      BY DepthNat
    <2> HIDE DEF Eq, D
    <2> QED
      BY <1>3, <1>4, <2>1
  <1>6. WalkInner = CHOOSE fcn : Eq(fcn, TreeObjects)
    BY DEF WalkInner, WalkNow
  <1>7. Eq(WalkInner, TreeObjects)
    <2> HIDE DEF Eq
    <2> QED
      BY <1>5, <1>6
  <1> HIDE DEF D, S
  <1> QED
    BY <1>7

FileAt(tr, q) == [path |-> q, hash |-> tr[q]]
Files         == [path : Paths, hash : Values]
Sooner        == {pair \in Files \X Files : Before(pair[1].path, pair[2].path)}

(* s lists the files below r, once each, in path order.                     *)
WalkOK(tr, r, s) ==
    /\ s \in Seq(Files) /\ Chain(s, Sooner)
    /\ \A x : x \in Listed(s) <=>
              \E q \in Paths : Heads(r, q) /\ Len(r) < Len(q) /\ tr[q] # NoFile /\ x = FileAt(tr, q)

LEMMA FileIs ==
  ASSUME NEW tr \in Tree
  PROVE  \A q \in Paths : tr[q] # NoFile => FileAt(tr, q) \in Files /\ FileAt(tr, q).path = q
  BY DEF Tree, Files, FileAt

LEMMA WalkStep ==
  ASSUME NEW tr \in Tree, WellFormed(tr), NEW r \in Stems,
         \A n \in Names : IsDir(Nest(tr)[r], n) =>
             WalkOK(tr, Append(r, n), WalkInner[Nest(tr)[Append(r, n)]][Append(r, n)])
  PROVE  WalkOK(tr, r, WalkInner[Nest(tr)[r]][r])
  <1> DEFINE t == Nest(tr)[r]
             names == InOrder(t)
             m == Len(names)
             at(n) == Append(r, n)
             under(n) == IF IsDir(t, n) THEN WalkInner[t[n].sub][at(n)]
                         ELSE <<[path |-> at(n), hash |-> t[n].hash]>>
             seqs == [i \in DOMAIN names |-> under(names[i])]
             Here(n, q) == Heads(at(n), q) /\ tr[q] # NoFile
  <1>1. t \in TreeObjects /\ r \in Seq(Names) /\ DOMAIN t \subseteq Names
    BY NestTyped, PrefixIs, NestFcn
  <1>2. WalkInner[t][r] = FlattenSeq(seqs)
    BY <1>1, WalkIs DEF WalkNow
  <1>3. /\ DOMAIN names = 1 .. m /\ m \in Nat /\ Listed(names) = DOMAIN t
        /\ \A i, j \in 1 .. m : i < j => names[i] < names[j]
    BY <1>1, InOrderIs
  <1> HIDE DEF names
  <1>4. \A i \in 1 .. m : names[i] \in DOMAIN t
    BY <1>3 DEF Listed
  <1>5. \A n \in DOMAIN t : \E i \in 1 .. m : names[i] = n
    BY <1>3 DEF Listed
  <1>6. ASSUME NEW n \in DOMAIN t
        PROVE  /\ under(n) \in Seq(Files) /\ Chain(under(n), Sooner)
               /\ \A x : x \in Listed(under(n)) <=> \E q \in Paths : Here(n, q) /\ x = FileAt(tr, q)
    <2> DEFINE a == at(n)
    <2>1. n \in Names /\ a \in Paths
      BY <1>1, NestFcn
    <2>2. /\ tr[a] # NoFile => t[n] = Leaf(tr[a])
          /\ tr[a] = NoFile => t[n] = Dir(Nest(tr)[a])
      BY <2>1, NestEntry
    <2> HIDE DEF a, t
    <2>3. CASE tr[a] # NoFile
      <3> DEFINE e == FileAt(tr, a)  s == <<e>>
      <3>1. ~IsDir(t, n) /\ t[n].hash = tr[a]
        BY <2>2, <2>3 DEF IsDir, Leaf
      <3>2. under(n) = s
        BY <3>1 DEF FileAt, a
      <3>3. e \in Files
        BY <2>1, <2>3, FileIs
      <3> HIDE DEF e
      <3>4. s \in Seq(Files) /\ Len(s) = 1 /\ s[1] = e
        BY <3>3
      <3>5. Chain(s, Sooner) /\ Listed(s) = {e}
        BY <3>4 DEF Chain, Listed
      <3>6. ASSUME NEW q \in Paths, Here(n, q) PROVE q = a
        <4>1. a \in Seq(Names) /\ q \in Seq(Names) /\ Len(a) \in Nat /\ Len(q) \in Nat
          BY <2>1, PathIs
        <4>2. ~Below(a, q)
          BY <2>1, <2>3, <3>6 DEF WellFormed
        <4>3. Heads(a, q) /\ Len(a) = Len(q)
          <5>1. Heads(a, q)
            BY <3>6 DEF a
          <5>2. ~(Len(a) < Len(q))
            BY <2>1, <4>2, <5>1, BelowIs
          <5> QED
            BY <4>1, <5>1, <5>2 DEF Heads
        <4> QED
          BY <4>1, <4>3, SeqEqual DEF Heads
      <3>7. Here(n, a)
        <4>1. Heads(a, a)
          BY <2>1, PathIs, HeadsTrans
        <4> QED
          BY <2>3, <4>1 DEF a
      <3>8. \A x : x \in Listed(s) <=> \E q \in Paths : Here(n, q) /\ x = FileAt(tr, q)
        BY <2>1, <3>5, <3>6, <3>7 DEF e
      <3> QED
        BY <3>2, <3>4, <3>5, <3>8
    <2>4. CASE tr[a] = NoFile
      <3>1. IsDir(t, n) /\ t[n].sub = Nest(tr)[a]
        BY <2>2, <2>4 DEF IsDir, Dir
      <3>2. WalkOK(tr, a, WalkInner[Nest(tr)[a]][a])
        BY <2>1, <3>1 DEF a, t
      <3>3. under(n) = WalkInner[Nest(tr)[a]][a]
        BY <3>1 DEF a
      <3>4. WalkOK(tr, a, under(n))
        BY <3>2, <3>3
      <3>5. ASSUME NEW q \in Paths, tr[q] # NoFile
            PROVE  Here(n, q) <=> Heads(a, q) /\ Len(a) < Len(q)
        <4>1. a \in Seq(Names) /\ q \in Seq(Names) /\ Len(a) \in Nat /\ Len(q) \in Nat
          BY <2>1, PathIs
        <4>2. Heads(a, q) /\ Len(a) = Len(q) => a = q
          BY <4>1, SeqEqual DEF Heads
        <4>3. Heads(a, q) => Len(a) < Len(q)
          BY <2>4, <3>5, <4>1, <4>2 DEF Heads
        <4> QED
          BY <3>5, <4>3 DEF a
      <3> HIDE DEF under
      <3>6. \A x : x \in Listed(under(n)) <=> \E q \in Paths : Here(n, q) /\ x = FileAt(tr, q)
        <4> HIDE DEF Here
        <4>1. \A q \in Paths : Here(n, q) => tr[q] # NoFile
          BY DEF Here
        <4> QED
          BY <3>4, <3>5, <4>1 DEF WalkOK
      <3> QED
        BY <3>4, <3>6 DEF WalkOK
    <2> QED
      BY <2>3, <2>4
  <1>7. ASSUME NEW n \in DOMAIN t, NEW l \in DOMAIN t, n < l
        PROVE  Across(under(n), under(l), Sooner)
    <2> SUFFICES ASSUME NEW x \in Listed(under(n)), NEW y \in Listed(under(l)) PROVE <<x, y>> \in Sooner
      BY DEF Across
    <2>1. PICK p \in Paths : Here(n, p) /\ x = FileAt(tr, p)
      <3> HIDE DEF under, Here
      <3> QED
        BY <1>6
    <2>2. PICK q \in Paths : Here(l, q) /\ y = FileAt(tr, q)
      <3> HIDE DEF under, Here
      <3> QED
        BY <1>6
    <2>3. p \in Seq(Names) /\ q \in Seq(Names) /\ n \in Names /\ l \in Names
      BY <1>1, PathIs
    <2> DEFINE k == Len(r) + 1
    <2>4. /\ Heads(r, p) /\ Len(r) < Len(p) /\ p[k] = n
          /\ Heads(r, q) /\ Len(r) < Len(q) /\ q[k] = l
      BY <1>1, <2>1, <2>2, <2>3, OneFurther
    <2>5. Len(r) \in Nat /\ k \in DOMAIN p /\ k \in DOMAIN q /\ k - 1 = Len(r)
      BY <1>1, <2>3, <2>4
    <2>6. \A j \in 1 .. k - 1 : p[j] = q[j]
      BY <2>4, <2>5 DEF Heads
    <2>7. Before(p, q)
      <3> HIDE DEF k
      <3> QED
        BY <1>7, <2>4, <2>5, <2>6 DEF Before
    <2>8. x \in Files /\ y \in Files /\ x.path = p /\ y.path = q
      BY <2>1, <2>2, FileIs
    <2> QED
      BY <2>7, <2>8 DEF Sooner
  <1> HIDE DEF under, t
  <1>8. /\ seqs \in Seq(Seq(Files)) /\ Len(seqs) = m
        /\ \A i \in 1 .. m : seqs[i] = under(names[i])
    BY <1>3, <1>4, <1>6
  <1> HIDE DEF seqs, m
  <1>9. \A i \in 1 .. Len(seqs) : Chain(seqs[i], Sooner)
    BY <1>4, <1>6, <1>8
  <1>10. \A i, j \in 1 .. Len(seqs) : i < j => Across(seqs[i], seqs[j], Sooner)
    BY <1>3, <1>4, <1>7, <1>8
  <1>11. Joined(seqs, m, FlattenSeq(seqs), Files, Sooner)
    BY <1>8, <1>9, <1>10, Flattened
  <1> DEFINE w == FlattenSeq(seqs)
  <1>12. ASSUME NEW x
         PROVE  x \in Listed(w) <=> \E n \in DOMAIN t, q \in Paths : Here(n, q) /\ x = FileAt(tr, q)
    <2>1. x \in Listed(w) <=> \E j \in 1 .. m : x \in Listed(seqs[j])
      BY <1>11 DEF Joined
    <2>2. x \in Listed(w) <=> \E n \in DOMAIN t : x \in Listed(under(n))
      <3>1. \A j \in 1 .. m : seqs[j] = under(names[j]) /\ names[j] \in DOMAIN t
        BY <1>4, <1>8
      <3>2. \A n \in DOMAIN t : \E j \in 1 .. m : n = names[j]
        BY <1>4, <1>5
      <3>3. ASSUME NEW n \in DOMAIN t, x \in Listed(under(n)) PROVE x \in Listed(w)
        <4>1. PICK j \in 1 .. m : n = names[j]
          BY <3>2
        <4>2. x \in Listed(seqs[j])
          BY <3>1, <3>3, <4>1
        <4> QED
          BY <2>1, <4>2
      <3>4. ASSUME x \in Listed(w) PROVE \E n \in DOMAIN t : x \in Listed(under(n))
        <4>1. PICK j \in 1 .. m : x \in Listed(seqs[j])
          BY <2>1, <3>4
        <4> QED
          BY <3>1, <4>1
      <3> QED
        BY <3>3, <3>4
    <2> HIDE DEF Here
    <2> QED
      BY <1>6, <2>2
  <1>13. ASSUME NEW q \in Paths, tr[q] # NoFile
         PROVE  (\E n \in DOMAIN t : Here(n, q)) <=> Heads(r, q) /\ Len(r) < Len(q)
    <2>1. q \in Seq(Names) /\ Len(r) \in Nat /\ Len(q) \in Nat
      BY <1>1, PathIs
    <2>2. ASSUME NEW n \in DOMAIN t, Here(n, q) PROVE Heads(r, q) /\ Len(r) < Len(q)
      BY <1>1, <2>1, <2>2, OneFurther
    <2>3. ASSUME Heads(r, q), Len(r) < Len(q) PROVE \E n \in DOMAIN t : Here(n, q)
      <3> DEFINE n == q[Len(r) + 1]
      <3>1. n \in Names
        <4>1. Len(r) + 1 \in 1 .. Len(q)
          BY <2>1, <2>3
        <4> QED
          BY <2>1, <4>1
      <3>2. Here(n, q)
        BY <1>1, <1>13, <2>1, <2>3, <3>1, OneFurther
      <3>3. n \in Used(tr, r)
        BY <3>1, <3>2, UsedWhen
      <3>4. DOMAIN t = Used(tr, r)
        <4>1. t = NestAt(tr, Nest(tr), r)
          BY NestIs DEF t
        <4> QED
          BY <4>1 DEF NestAt
      <3> HIDE DEF n
      <3> QED
        BY <3>2, <3>3, <3>4
    <2> QED
      BY <2>2, <2>3
  <1>14. ASSUME NEW x
         PROVE  x \in Listed(w) <=>
                  \E q \in Paths : Heads(r, q) /\ Len(r) < Len(q) /\ tr[q] # NoFile /\ x = FileAt(tr, q)
    <2>1. \A n, q : Here(n, q) => tr[q] # NoFile
      OBVIOUS
    <2> HIDE DEF Here
    <2> QED
      BY <1>12, <1>13, <2>1
  <1>15. w \in Seq(Files) /\ Chain(w, Sooner)
    BY <1>11 DEF Joined
  <1> QED
    BY <1>2, <1>14, <1>15 DEF WalkOK, t

(* walk of the nested form lists the files.                                 *)
LEMMA WalkNested ==
  ASSUME NEW tr \in Tree, WellFormed(tr)
  PROVE  WalkOK(tr, <<>>, WalkInner[Nest(tr)[<<>>]][<<>>])
  <1> DEFINE Holds(k) == \A r \in Stems : Len(r) + k = Depth => WalkOK(tr, r, WalkInner[Nest(tr)[r]][r])
             S == {k \in Nat : Holds(k)}
  <1>1. ASSUME NEW k \in Nat, NEW r \in Stems, Len(r) + k = Depth, k > 0 => Holds(k - 1)
        PROVE  WalkOK(tr, r, WalkInner[Nest(tr)[r]][r])
    <2>1. ASSUME NEW n \in Names, IsDir(Nest(tr)[r], n)
          PROVE  WalkOK(tr, Append(r, n), WalkInner[Nest(tr)[Append(r, n)]][Append(r, n)])
      <3> DEFINE a == Append(r, n)
      <3>1. a \in Paths /\ a \in Stems
        BY <2>1, NestFcn DEF IsDir, Stems
      <3>2. r \in Seq(Names) /\ Len(r) \in Nat /\ Len(a) = Len(r) + 1 /\ Len(a) <= Depth
        BY <3>1, PrefixIs, PathIs, OneFurther
      <3> HIDE DEF a
      <3>3. k > 0 /\ Len(a) + (k - 1) = Depth
        BY <1>1, <3>2, DepthNat
      <3> QED
        BY <1>1, <3>1, <3>3 DEF a
    <2> QED
      BY <2>1, WalkStep
  <1>2. 0 \in S
    BY <1>1
  <1>3. ASSUME NEW k \in Nat, k \in S PROVE k + 1 \in S
    <2>1. k + 1 \in Nat /\ k + 1 - 1 = k /\ Holds(k)
      BY <1>3
    <2>2. Holds(k + 1)
      <3> SUFFICES ASSUME NEW r \in Stems, Len(r) + (k + 1) = Depth
                   PROVE  WalkOK(tr, r, WalkInner[Nest(tr)[r]][r])
        OBVIOUS
      <3> HIDE DEF Holds
      <3>1. PICK j : j = k + 1
        OBVIOUS
      <3>2. j \in Nat /\ j - 1 = k /\ Len(r) + j = Depth
        BY <3>1
      <3>3. Holds(j - 1)
        BY <2>1, <3>2, Zenon
      <3> QED
        BY <1>1, <3>2, <3>3, Zenon
    <2> QED
      BY <2>1, <2>2
  <1>4. Nat \subseteq S
    <2> HIDE DEF S
    <2> QED
      BY <1>2, <1>3, Induction
  <1>5. Holds(Depth)
    <2> HIDE DEF Holds
    <2> QED
      BY <1>4, DepthNat
  <1>6. <<>> \in Stems /\ Len(<<>>) + Depth = Depth
    BY PrefixIs, DepthNat
  <1> QED
    BY <1>5, <1>6

-----------------------------------------------------------------------------
(* put_at and delete_at leave no file below a file.                         *)
LEMMA ApplyWellFormed ==
  ASSUME NEW tr \in Tree, WellFormed(tr), NEW p \in Paths, NEW x \in Values \cup {Deleted},
         x # Deleted => ~PutBlocked(tr, p)
  PROVE  WellFormed(ApplyChange(tr, p, x))
  <1>1. CASE x = Deleted
    BY <1>1 DEF ApplyChange, DeleteAt, WellFormed, Tree
  <1>2. CASE x # Deleted
    <2> DEFINE t == PutAt(tr, p, x)
    <2> SUFFICES ASSUME NEW a \in Paths, NEW b \in Paths, Below(a, b)
                 PROVE  t[a] = NoFile \/ t[b] = NoFile
      BY <1>2 DEF ApplyChange, WellFormed
    <2>1. CASE a = p
      BY <2>1, PathAssumption DEF PutAt, Below
    <2>2. CASE b = p
      BY <1>2, <2>2, PathAssumption DEF PutAt, PutBlocked, Below
    <2>3. CASE a # p /\ b # p
      BY <2>3 DEF PutAt, WellFormed
    <2> QED
      BY <2>1, <2>2, <2>3
  <1> QED
    BY <1>1, <1>2

(* The tree that the code has made is the nested form of the files.         *)
TreeInv == flat \in Tree /\ WellFormed(flat) /\ nested = Nest(flat)[<<>>]

LEMMA EmptyIs == EmptyTree \in Tree /\ WellFormed(EmptyTree) /\ Nest(EmptyTree)[<<>>] = None
  <1>1. EmptyTree \in Tree /\ WellFormed(EmptyTree)
    BY DEF EmptyTree, Tree, WellFormed
  <1>2. ~Filled(EmptyTree, <<>>) /\ <<>> \in Stems
    BY PrefixIs DEF EmptyTree, Filled
  <1> QED
    BY <1>1, <1>2, NestNone

LEMMA PutKeeps ==
  ASSUME TreeInv, NEW p \in Paths, NEW v \in Values, Put(p, v)
  PROVE  TreeInv'
  <1> DEFINE made == PutInner(Leaf(v))[p][nested]
  <1>1. made = IF PutBlocked(flat, p) THEN Err ELSE Ok(Nest(PutAt(flat, p, v))[<<>>])
    BY PutNested DEF TreeInv
  <1> HIDE DEF made
  <1>2. CASE made = Err
    BY <1>2 DEF Put, TreeInv, treeVars, made
  <1>3. CASE made # Err
    <2>1. nested' = made[1] /\ flat' = PutAt(flat, p, v)
      BY <1>3 DEF Put, made
    <2>2. ~PutBlocked(flat, p)
      BY <1>1, <1>3
    <2>3. made = Ok(Nest(PutAt(flat, p, v))[<<>>])
      BY <1>1, <2>2
    <2>4. made[1] = Nest(PutAt(flat, p, v))[<<>>]
      BY <2>3 DEF Ok
    <2>5. v \in Values \cup {Deleted} /\ v # Deleted
      BY ValueAssumption
    <2>6. WellFormed(PutAt(flat, p, v))
      BY <2>2, <2>5, ApplyWellFormed DEF TreeInv, ApplyChange
    <2>7. PutAt(flat, p, v) \in Tree
      BY OpsLocal DEF TreeInv
    <2> QED
      BY <2>1, <2>4, <2>6, <2>7 DEF TreeInv
  <1> QED
    BY <1>2, <1>3

LEMMA DeleteKeeps ==
  ASSUME TreeInv, NEW p \in Paths, Delete(p)
  PROVE  TreeInv'
  <1>1. nested' = DeleteInner[p][nested] /\ flat' = DeleteAt(flat, p)
    BY DEF Delete
  <1>2. DeleteInner[p][nested] = Nest(DeleteAt(flat, p))[<<>>]
    BY DeleteNested DEF TreeInv
  <1>3. WellFormed(DeleteAt(flat, p))
    BY ApplyWellFormed DEF TreeInv, ApplyChange
  <1>4. DeleteAt(flat, p) \in Tree
    BY OpsLocal DEF TreeInv
  <1> QED
    BY <1>1, <1>2, <1>3, <1>4 DEF TreeInv

LEMMA TreeInit_Inv == TreeInit => TreeInv
  BY EmptyIs DEF TreeInit, TreeInv

LEMMA TreeStep == TreeInv /\ [TreeNext]_treeVars => TreeInv'
  <1> SUFFICES ASSUME TreeInv, [TreeNext]_treeVars PROVE TreeInv'
    OBVIOUS
  <1>1. CASE UNCHANGED treeVars
    BY <1>1 DEF treeVars, TreeInv
  <1>2. ASSUME NEW p \in Paths, Delete(p) PROVE TreeInv'
    BY <1>2, DeleteKeeps
  <1>3. ASSUME NEW p \in Paths, NEW v \in Values, Put(p, v) PROVE TreeInv'
    BY <1>3, PutKeeps
  <1> QED
    BY <1>1, <1>2, <1>3 DEF TreeNext

LEMMA ExactTree == TreeInv => TreeCodeExact
  <1> SUFFICES ASSUME TreeInv PROVE TreeCodeExact
    OBVIOUS
  <1>0. flat \in Tree /\ WellFormed(flat) /\ nested = Nest(flat)[<<>>]
    BY DEF TreeInv
  <1>1. RootCanonical
    BY <1>0 DEF RootCanonical
  <1>2. PutConflicts
    <2> SUFFICES ASSUME NEW p \in Paths, NEW v \in Values
                 PROVE  (PutInner(Leaf(v))[p][nested] = Err) <=> PutBlocked(flat, p)
      BY DEF PutConflicts, PutBlocked
    <2>1. Ok(Nest(PutAt(flat, p, v))[<<>>]) # Err
      BY DEF Ok, Err
    <2> QED
      BY <1>0, <2>1, PutNested
  <1>3. GetAgrees
    <2> SUFFICES ASSUME NEW p \in Paths
                 PROVE  IF flat[p] # NoFile THEN GetAt(nested, p) = Ok(Leaf(flat[p]))
                        ELSE (GetAt(nested, p) # Err) <=> \E q \in Paths : Below(p, q) /\ flat[q] # NoFile
      BY DEF GetAgrees
    <2>1. GetAt(nested, p) = Found(flat, p)
      BY <1>0, GetNested
    <2>2. Len(p) # 0
      BY PathIs
    <2>3. Filled(flat, p) <=> \E q \in Paths : Below(p, q) /\ flat[q] # NoFile
      BY BelowIs DEF Filled
    <2>4. Ok(Dir(Nest(flat)[p])) # Err
      BY DEF Ok, Err
    <2> QED
      BY <2>1, <2>2, <2>3, <2>4 DEF Found
  <1>4. WalkInOrder
    <2> DEFINE w == WalkInner[nested][<<>>]
    <2>1. WalkOK(flat, <<>>, w)
      BY <1>0, WalkNested
    <2> HIDE DEF w
    <2>2. w \in Seq(Files) /\ DOMAIN w = 1 .. Len(w) /\ Len(w) \in Nat
      BY <2>1, LenProperties DEF WalkOK
    <2>3. \A q \in Paths : Heads(<<>>, q) /\ Len(<<>>) < Len(q)
      BY PathIs, PrefixIs DEF Heads
    <2>4. {w[i] : i \in DOMAIN w} = {[path |-> p, hash |-> flat[p]] : p \in {q \in Paths : flat[q] # NoFile}}
      <3>1. \A x : x \in Listed(w) <=> \E q \in Paths : flat[q] # NoFile /\ x = FileAt(flat, q)
        BY <2>1, <2>3 DEF WalkOK
      <3> QED
        BY <2>2, <3>1 DEF Listed, FileAt
    <2>5. ASSUME NEW i \in 1 .. Len(w) - 1 PROVE Before(w[i].path, w[i + 1].path)
      <3>1. i \in 1 .. Len(w) /\ i + 1 \in 1 .. Len(w) /\ i < i + 1
        BY <2>2
      <3>2. <<w[i], w[i + 1]>> \in Sooner
        BY <2>1, <3>1 DEF WalkOK, Chain
      <3> QED
        BY <3>2 DEF Sooner
    <2> QED
      BY <2>4, <2>5 DEF WalkInOrder, w
  <1> QED
    BY <1>1, <1>2, <1>3, <1>4 DEF TreeCodeExact

(* Whatever is put and deleted, in whatever order, the tree objects are     *)
(* those of the files, no more and no less; put_at refuses exactly the      *)
(* puts below a file, get_at finds what is there, and walk lists each file  *)
(* once and in path order (paths.rs).                                       *)
THEOREM TreesExact == TreeSpec => []TreeCodeExact
  <1>1. TreeSpec => []TreeInv
    BY TreeInit_Inv, TreeStep, PTL DEF TreeSpec
  <1> QED
    BY <1>1, ExactTree, PTL

-----------------------------------------------------------------------------
(* diff.                                                                    *)

(* A walk collected into a map is the files.                                *)
LEMMA EntriesAre ==
  ASSUME NEW tr \in Tree, WellFormed(tr)
  PROVE  Entries(Nest(tr)[<<>>]) = FilesOf(tr)
  <1> DEFINE w == WalkInner[Nest(tr)[<<>>]][<<>>]
             T == {q \in Paths : tr[q] # NoFile}
             IsLast(p, i) == w[i].path = p /\ \A j \in DOMAIN w : w[j].path = p => j <= i
             last(p) == CHOOSE i \in DOMAIN w : IsLast(p, i)
  <1>1. WalkOK(tr, <<>>, w)
    BY WalkNested
  <1> HIDE DEF w
  <1>2. w \in Seq(Files) /\ DOMAIN w = 1 .. Len(w) /\ Len(w) \in Nat
    BY <1>1, LenProperties DEF WalkOK
  <1>3. \A q \in Paths : Heads(<<>>, q) /\ Len(<<>>) < Len(q)
    BY PathIs, PrefixIs DEF Heads
  <1>4. \A x : x \in Listed(w) <=> \E q \in T : x = FileAt(tr, q)
    BY <1>1, <1>3 DEF WalkOK
  <1>5. \A i \in DOMAIN w : w[i].path \in T /\ w[i].hash = tr[w[i].path]
    BY <1>2, <1>4 DEF Listed, FileAt
  <1>6. ASSUME NEW q \in T PROVE \E i \in DOMAIN w : w[i].path = q
    <2>1. FileAt(tr, q) \in Listed(w)
      BY <1>4
    <2>2. PICK i \in DOMAIN w : w[i] = FileAt(tr, q)
      BY <1>2, <2>1 DEF Listed
    <2>3. FileAt(tr, q).path = q
      BY DEF FileAt
    <2> QED
      BY <2>2, <2>3
  <1>7. ASSUME NEW i \in DOMAIN w, NEW j \in DOMAIN w, i < j PROVE w[i].path # w[j].path
    <2>1. Before(w[i].path, w[j].path)
      <3>1. <<w[i], w[j]>> \in Sooner
        BY <1>1, <1>2, <1>7 DEF WalkOK, Chain
      <3> QED
        BY <3>1 DEF Sooner
    <2>2. w[i].path \in Paths
      BY <1>5
    <2>3. ~Before(w[i].path, w[i].path)
      <3> DEFINE p == w[i].path
      <3>0. p \in Paths
        BY <2>2
      <3> HIDE DEF p
      <3>1. \A k \in DOMAIN p : p[k] \in Nat
        <4>1. p \in Seq(Names)
          BY <3>0, PathIs
        <4>2. \A k \in DOMAIN p : p[k] \in Names
          BY <4>1
        <4> QED
          BY <4>2, NestedAssumption
      <3>2. ~Before(p, p)
        BY <3>1 DEF Before
      <3> QED
        BY <3>2 DEF p
    <2> QED
      BY <2>1, <2>3
  <1>8. ASSUME NEW p \in T PROVE last(p) \in DOMAIN w /\ w[last(p)].path = p
    <2>1. PICK i \in DOMAIN w : w[i].path = p
      BY <1>6
    <2>2. \A j \in DOMAIN w : w[j].path = p => j = i
      <3> SUFFICES ASSUME NEW j \in DOMAIN w, w[j].path = p PROVE j = i
        OBVIOUS
      <3>1. ~(i < j) /\ ~(j < i)
        BY <1>7, <2>1
      <3> QED
        BY <1>2, <3>1
    <2>3. IsLast(p, i)
      BY <1>2, <2>1, <2>2
    <2> HIDE DEF IsLast
    <2>4. last(p) \in DOMAIN w /\ IsLast(p, last(p))
      BY <2>3
    <2> QED
      BY <2>4 DEF IsLast
  <1>9. {w[i].path : i \in DOMAIN w} = T
    BY <1>5, <1>6
  <1>10. \A p \in T : w[last(p)].hash = tr[p]
    <2> HIDE DEF last
    <2> QED
      BY <1>5, <1>8
  <1>11. Entries(Nest(tr)[<<>>]) = [p \in {w[i].path : i \in DOMAIN w} |-> w[last(p)].hash]
    BY DEF Entries, w
  <1> HIDE DEF last
  <1> QED
    BY <1>9, <1>10, <1>11 DEF FilesOf

(* Between any two maps of files.                                           *)
LEMMA DiffFollows ==
  ASSUME NEW tr, NEW ts
  PROVE  Follows(FilesOf(tr), Diff(FilesOf(tr), FilesOf(ts), Paths), FilesOf(ts))
  <1> DEFINE old == FilesOf(tr)
             new == FilesOf(ts)
             St(p) == DiffStatus(old, new, p)
             changed == {p \in DOMAIN old \cup DOMAIN new : St(p) # "unchanged"}
             d == [p \in changed |-> [status |-> St(p), after |-> IF p \in DOMAIN new THEN <<new[p]>> ELSE <<>>]]
  <1>1. DOMAIN old \subseteq Paths /\ DOMAIN new \subseteq Paths
    BY DEF FilesOf
  <1>2. new = [p \in DOMAIN new |-> new[p]]
    BY DEF FilesOf
  <1> HIDE DEF old, new
  <1>3. Diff(old, new, Paths) = d
    <2>1. {p \in PathsOfBoth(old, new) : p \in Paths /\ St(p) # "unchanged"} = changed
      BY <1>1 DEF PathsOfBoth
    <2> HIDE DEF changed
    <2> QED
      BY <2>1 DEF Diff
  <1>4. \A p \in DOMAIN old \cup DOMAIN new :
           /\ St(p) = "unchanged" <=> p \in DOMAIN old /\ p \in DOMAIN new /\ old[p] = new[p]
           /\ St(p) = "removed" <=> p \notin DOMAIN new
    BY DEF DiffStatus
  <1> HIDE DEF St
  <1> DEFINE put == {p \in DOMAIN d : d[p].status # "removed"}
  <1>5. put = {p \in changed : p \in DOMAIN new}
    BY <1>4
  <1>6. \A p \in put : d[p].after[1] = new[p]
    BY <1>5
  <1>7. (DOMAIN old \ DOMAIN d) \cup put = DOMAIN new
    BY <1>4, <1>5
  <1>8. \A p \in DOMAIN new : (IF p \in put THEN d[p].after[1] ELSE old[p]) = new[p]
    BY <1>4, <1>5, <1>6
  <1> HIDE DEF put, d
  <1>9. [p \in (DOMAIN old \ DOMAIN d) \cup put |-> IF p \in put THEN d[p].after[1] ELSE old[p]]
          = [p \in DOMAIN new |-> new[p]]
    BY <1>7, <1>8
  <1>10. Follows(old, d, new)
    BY <1>2, <1>9, Zenon DEF Follows, put
  <1> QED
    BY <1>3, <1>10 DEF old, new

LEMMA ExactDiff == TreeInv => DiffExact
  <1> SUFFICES ASSUME TreeInv, NEW tr \in Others
               PROVE  LET here == Entries(nested)
                          there == Entries(Nest(tr)[<<>>])
                      IN  /\ Follows(FilesOf(flat), Diff(here, there, Paths), FilesOf(tr))
                          /\ Follows(FilesOf(tr), Diff(there, here, Paths), FilesOf(flat))
    BY DEF DiffExact
  <1>1. Entries(nested) = FilesOf(flat)
    BY EntriesAre DEF TreeInv
  <1>2. Entries(Nest(tr)[<<>>]) = FilesOf(tr)
    BY EntriesAre, PagesAssumption
  <1> QED
    BY <1>1, <1>2, DiffFollows

-----------------------------------------------------------------------------
(* One page.                                                                *)

LEMMA OnlyIs ==
  ASSUME NEW E, NEW R, NEW seq \in Seq(E), Chain(seq, R), NEW S
  PROVE  LET o == Only(seq, S)
         IN  o \in Seq(E) /\ Chain(o, R) /\ \A x : x \in Listed(o) <=> x \in Listed(seq) /\ x \in S
  <1> DEFINE m == Len(seq)
             one(i) == IF seq[i] \in S THEN <<seq[i]>> ELSE <<>>
             seqs == [i \in DOMAIN seq |-> one(i)]
  <1>1. m \in Nat /\ DOMAIN seq = 1 .. m /\ \A i \in 1 .. m : seq[i] \in E
    BY LenProperties
  <1>2. ASSUME NEW i \in 1 .. m
        PROVE  /\ one(i) \in Seq(E) /\ Chain(one(i), R)
               /\ \A x : x \in Listed(one(i)) <=> x = seq[i] /\ x \in S
    <2> DEFINE e == seq[i]
    <2>0. e \in E
      BY <1>1
    <2> HIDE DEF e
    <2>1. CASE e \in S
      <3>1. <<e>> \in Seq(E) /\ Len(<<e>>) = 1 /\ <<e>>[1] = e
        BY <2>0
      <3>2. Chain(<<e>>, R) /\ Listed(<<e>>) = {e}
        BY <3>1 DEF Chain, Listed
      <3> QED
        BY <2>1, <3>1, <3>2 DEF e
    <2>2. CASE e \notin S
      <3>1. <<>> \in Seq(E) /\ Chain(<<>>, R) /\ Listed(<<>>) = {}
        BY DEF Chain, Listed
      <3> QED
        BY <2>2, <3>1 DEF e
    <2> QED
      BY <2>1, <2>2
  <1> HIDE DEF one
  <1>3. seqs \in Seq(Seq(E)) /\ Len(seqs) = m /\ \A i \in 1 .. m : seqs[i] = one(i)
    BY <1>1, <1>2
  <1>4. Only(seq, S) = FlattenSeq(seqs)
    BY DEF Only, one
  <1> HIDE DEF seqs, m
  <1>5. \A i \in 1 .. Len(seqs) : Chain(seqs[i], R)
    BY <1>2, <1>3
  <1>6. \A i, j \in 1 .. Len(seqs) : i < j => Across(seqs[i], seqs[j], R)
    BY <1>2, <1>3 DEF Across, Chain, m
  <1>7. Joined(seqs, m, FlattenSeq(seqs), E, R)
    BY <1>3, <1>5, <1>6, Flattened
  <1>8. ASSUME NEW x PROVE x \in Listed(FlattenSeq(seqs)) <=> x \in Listed(seq) /\ x \in S
    <2>1. x \in Listed(FlattenSeq(seqs)) <=> \E i \in 1 .. m : x \in Listed(seqs[i])
      BY <1>7 DEF Joined
    <2>2. x \in Listed(FlattenSeq(seqs)) <=> \E i \in 1 .. m : x = seq[i] /\ x \in S
      BY <1>2, <1>3, <2>1
    <2> QED
      BY <2>2 DEF Listed, m
  <1> QED
    BY <1>4, <1>7, <1>8 DEF Joined

LEMMA SliceIs ==
  ASSUME NEW E, NEW R, NEW seq \in Seq(E), Chain(seq, R), NEW a \in Nat, NEW b \in Nat, b <= Len(seq)
  PROVE  LET s == SubSeq(seq, a + 1, b)
         IN  s \in Seq(E) /\ Chain(s, R) /\ \A x : x \in Listed(s) <=> \E i \in a + 1 .. b : x = seq[i]
  <1> DEFINE s == SubSeq(seq, a + 1, b)
             n == IF a < b THEN b - a ELSE 0
  <1>1. /\ Len(seq) \in Nat /\ n \in Nat /\ s \in Seq(E) /\ Len(s) = n
        /\ \A i \in 1 .. n : s[i] = seq[a + i]
    BY LenProperties
  <1>2. \A i \in 1 .. n : a + i \in a + 1 .. b /\ a + i \in 1 .. Len(seq)
    BY <1>1
  <1>3. \A i \in a + 1 .. b : i - a \in 1 .. n /\ a + (i - a) = i
    BY <1>1
  <1> HIDE DEF s, n
  <1>4. Chain(s, R)
    <2> SUFFICES ASSUME NEW i \in 1 .. n, NEW j \in 1 .. n, i < j PROVE <<s[i], s[j]>> \in R
      BY <1>1 DEF Chain
    <2>1. a + i < a + j /\ a + i \in 1 .. Len(seq) /\ a + j \in 1 .. Len(seq)
      BY <1>1, <1>2
    <2>2. <<seq[a + i], seq[a + j]>> \in R
      BY <2>1 DEF Chain
    <2> QED
      BY <1>1, <2>2
  <1>5. ASSUME NEW x PROVE x \in Listed(s) <=> \E i \in a + 1 .. b : x = seq[i]
    <2>1. x \in Listed(s) => \E i \in a + 1 .. b : x = seq[i]
      BY <1>1, <1>2 DEF Listed
    <2>2. ASSUME NEW i \in a + 1 .. b, x = seq[i] PROVE x \in Listed(s)
      <3>1. i - a \in 1 .. n /\ s[i - a] = seq[i]
        BY <1>1, <1>3
      <3> QED
        BY <1>1, <2>2, <3>1 DEF Listed
    <2> QED
      BY <2>1, <2>2
  <1> QED
    BY <1>1, <1>4, <1>5 DEF s

(* The entry that fills a page.                                             *)
FilledBy(hits, c) == \E i \in hits : Cardinality({j \in hits : j <= i}) = c

LEMMA Fills ==
  ASSUME NEW m \in Nat, NEW n \in Nat, NEW hits, hits \subseteq m + 1 .. n,
         NEW c \in Nat, c >= 1, Cardinality(hits) >= c
  PROVE  FilledBy(hits, c)
  <1> DEFINE U(i) == {j \in hits : j <= i}
             C(i) == Cardinality(U(i))
             T == {i \in Nat : C(i) >= c}
  <1>1. IsFiniteSet(hits) /\ \A j \in hits : j \in Nat /\ j >= 1 /\ j <= n
    <2>1. m + 1 \in Int /\ n \in Int
      OBVIOUS
    <2>2. IsFiniteSet(m + 1 .. n)
      BY <2>1, FS_Interval
    <2>3. IsFiniteSet(hits)
      BY <2>2, FS_Subset
    <2>4. \A j \in m + 1 .. n : j \in Nat /\ j >= 1 /\ j <= n
      OBVIOUS
    <2> QED
      BY <2>3, <2>4
  <1>2. \A i : IsFiniteSet(U(i)) /\ C(i) \in Nat
    BY <1>1, FS_Subset, FS_CardinalityType
  <1>3. T # {} /\ T \subseteq Nat
    <2>1. U(n) = hits
      BY <1>1
    <2> QED
      BY <2>1
  <1>4. PICK i \in T : \A k \in T : i <= k
    BY <1>3, Least
  <1>5. i # 0
    <2>1. U(0) = {}
      <3>1. \A j \in hits : ~(j <= 0)
        BY <1>1
      <3> QED
        BY <3>1
    <2>2. C(0) = 0
      BY <2>1, FS_EmptySet
    <2> QED
      BY <2>2
  <1>6. i - 1 \in Nat /\ C(i - 1) < c
    <2>1. i - 1 \in Nat /\ ~(i <= i - 1)
      BY <1>4, <1>5
    <2>2. i - 1 \notin T
      BY <1>4, <2>1
    <2>3. C(i - 1) \in Nat
      BY <1>2
    <2> QED
      BY <2>1, <2>2, <2>3
  <1>7. i \in hits
    <2> SUFFICES ASSUME i \notin hits PROVE FALSE
      OBVIOUS
    <2>1. U(i) = U(i - 1)
      <3>1. \A j \in hits : j <= i <=> j <= i - 1
        BY <1>1, <1>4, <1>6
      <3> QED
        BY <3>1
    <2> QED
      BY <1>2, <1>4, <1>6, <2>1
  <1>8. U(i) = U(i - 1) \cup {i} /\ i \notin U(i - 1)
    <2>1. \A j \in hits : j <= i <=> j <= i - 1 \/ j = i
      BY <1>1, <1>4, <1>6
    <2>2. i <= i /\ ~(i <= i - 1)
      BY <1>4
    <2> QED
      BY <1>7, <2>1, <2>2
  <1> HIDE DEF U
  <1>9. C(i) = C(i - 1) + 1
    BY <1>2, <1>8, FS_AddElement
  <1>10. C(i) = c
    <2>1. C(i) >= c /\ C(i - 1) \in Nat
      BY <1>2, <1>4
    <2> QED
      BY <1>6, <1>9, <2>1
  <1> QED
    BY <1>7, <1>10 DEF U, FilledBy

(* A finite set in which of any two elements one comes first has a sequence *)
(* that lists it in that order: the place of an element is one more than    *)
(* how many come before it.                                                 *)
LEMMA Arranged ==
  ASSUME NEW S, IsFiniteSet(S), NEW R,
         \A x \in S : <<x, x>> \notin R,
         \A x, y \in S : x # y => <<x, y>> \in R \/ <<y, x>> \in R,
         \A x, y, z \in S : <<x, y>> \in R /\ <<y, z>> \in R => <<x, z>> \in R
  PROVE  \E s \in [1 .. Cardinality(S) -> S] : \A i, j \in DOMAIN s : i < j => <<s[i], s[j]>> \in R
  <1> DEFINE n == Cardinality(S)
             D(x) == {y \in S : <<y, x>> \in R}
             C(x) == Cardinality(D(x))
             rank == [x \in S |-> C(x) + 1]
  <1>1. n \in Nat
    BY FS_CardinalityType
  <1>2. ASSUME NEW x PROVE IsFiniteSet(D(x)) /\ C(x) \in Nat
    <2>1. IsFiniteSet(D(x))
      BY FS_Subset
    <2> QED
      BY <2>1, FS_CardinalityType
  <1>3. ASSUME NEW x \in S PROVE C(x) + 1 \in 1 .. n
    <2>1. D(x) \subseteq S \ {x}
      OBVIOUS
    <2> HIDE DEF D
    <2>2. IsFiniteSet(S \ {x}) /\ Cardinality(S \ {x}) = n - 1
      BY FS_RemoveElement
    <2>3. C(x) <= n - 1
      BY <2>1, <2>2, FS_Subset
    <2> QED
      BY <1>1, <1>2, <2>3
  <1>4. ASSUME NEW x \in S, NEW y \in S, <<x, y>> \in R PROVE C(x) < C(y)
    <2>1. x \in D(y) /\ D(x) \subseteq D(y) \ {x}
      BY <1>4
    <2> HIDE DEF D
    <2>2. IsFiniteSet(D(y) \ {x}) /\ Cardinality(D(y) \ {x}) = C(y) - 1
      BY <1>2, <2>1, FS_RemoveElement
    <2>3. C(x) <= C(y) - 1
      BY <2>1, <2>2, FS_Subset
    <2> QED
      BY <1>2, <2>3
  <1> HIDE DEF C
  <1>5. rank \in Injection(S, 1 .. n)
    <2>1. rank \in [S -> 1 .. n]
      BY <1>3
    <2>2. ASSUME NEW x \in S, NEW y \in S, rank[x] = rank[y] PROVE x = y
      <3>1. C(x) + 1 = C(y) + 1 /\ C(x) \in Nat /\ C(y) \in Nat
        BY <1>2, <2>2
      <3>2. ~(C(x) < C(y)) /\ ~(C(y) < C(x))
        BY <3>1
      <3>3. <<x, y>> \notin R /\ <<y, x>> \notin R
        BY <1>4, <3>2
      <3> QED
        BY <3>3
    <2> QED
      BY <2>1, <2>2 DEF Injection, IsInjective
  <1>6. rank \in Surjection(S, 1 .. n)
    <2>1. IsFiniteSet(1 .. n) /\ Cardinality(1 .. n) = n
      BY <1>1, FS_Interval
    <2> HIDE DEF rank
    <2> QED
      BY <1>5, <2>1, FS_Injection
  <1> DEFINE s == [i \in 1 .. n |-> CHOOSE x \in S : rank[x] = i]
  <1>7. ASSUME NEW i \in 1 .. n PROVE s[i] \in S /\ C(s[i]) + 1 = i
    <2>1. \E x \in S : rank[x] = i
      BY <1>6 DEF Surjection
    <2>2. s[i] = CHOOSE x \in S : rank[x] = i
      OBVIOUS
    <2> HIDE DEF s, rank
    <2>3. s[i] \in S /\ rank[s[i]] = i
      BY <2>1, <2>2
    <2> QED
      BY <2>3 DEF rank
  <1>8. s \in [1 .. n -> S] /\ DOMAIN s = 1 .. n
    BY <1>7
  <1> HIDE DEF s
  <1>9. ASSUME NEW i \in 1 .. n, NEW j \in 1 .. n, i < j PROVE <<s[i], s[j]>> \in R
    <2>1. C(s[i]) < C(s[j]) /\ C(s[i]) \in Nat /\ C(s[j]) \in Nat
      <3>1. C(s[i]) \in Nat /\ C(s[j]) \in Nat
        BY <1>2
      <3>2. C(s[i]) + 1 = i /\ C(s[j]) + 1 = j
        BY <1>7
      <3> QED
        BY <1>9, <3>1, <3>2
    <2>2. s[i] # s[j] /\ ~(C(s[j]) < C(s[i]))
      BY <2>1
    <2> QED
      BY <1>4, <1>7, <2>2
  <1> QED
    BY <1>8, <1>9

Ahead == {pair \in Files \X Files : <<pair[1].path, pair[2].path>> \in TextBefore}

(* The manifests a query looks through.                                     *)
LEMMA SortedIs ==
  ASSUME NEW tr \in Tree, WellFormed(tr), NEW prefix
  PROVE  LET E == Sorted(Nest(tr)[<<>>], prefix)
         IN  /\ E \in Seq(Files) /\ Len(E) \in Nat /\ Chain(E, Ahead)
             /\ \A x : x \in Listed(E) <=>
                   \E q \in ManifestPaths : q \in prefix /\ tr[q] # NoFile /\ x = FileAt(tr, q)
  <1> DEFINE w == WalkInner[Nest(tr)[<<>>]][<<>>]
             kept == {e \in Range(w) : e.path \in ManifestPaths \cap prefix}
             n == Cardinality(kept)
             InText(s) == \A i, j \in DOMAIN s : i < j => <<s[i].path, s[j].path>> \in TextBefore
             E == CHOOSE s \in [1 .. n -> kept] : InText(s)
  <1>1. WalkOK(tr, <<>>, w)
    BY WalkNested
  <1>2. Sorted(Nest(tr)[<<>>], prefix) = E
    BY DEF Sorted
  <1> HIDE DEF w
  <1>3. w \in Seq(Files) /\ DOMAIN w = 1 .. Len(w) /\ Len(w) \in Nat
    BY <1>1, LenProperties DEF WalkOK
  <1>4. \A q \in Paths : Heads(<<>>, q) /\ Len(<<>>) < Len(q)
    BY PathIs, PrefixIs DEF Heads
  <1>5. \A x : x \in Range(w) <=> \E q \in Paths : tr[q] # NoFile /\ x = FileAt(tr, q)
    <2>1. Range(w) = Listed(w)
      BY <1>3 DEF Range, Listed
    <2> QED
      BY <1>1, <1>4, <2>1 DEF WalkOK
  <1>6. ManifestPaths \subseteq Paths
    BY PagesAssumption
  <1>7. \A x : x \in kept <=> \E q \in ManifestPaths : q \in prefix /\ tr[q] # NoFile /\ x = FileAt(tr, q)
    BY <1>5, <1>6 DEF FileAt
  <1>8. kept \subseteq Files /\ IsFiniteSet(kept) /\ n \in Nat
    <2>1. IsFiniteSet(1 .. Len(w))
      BY <1>3, FS_Interval
    <2>2. w \in Surjection(1 .. Len(w), Range(w))
      BY <1>3 DEF Surjection, Range
    <2>3. IsFiniteSet(Range(w)) /\ Range(w) \subseteq Files
      <3>1. IsFiniteSet(Range(w))
        BY <2>1, <2>2, FS_Surjection
      <3> QED
        BY <1>3, <3>1 DEF Range
    <2>4. kept \subseteq Range(w)
      OBVIOUS
    <2> HIDE DEF kept
    <2> QED
      BY <2>3, <2>4, FS_Subset, FS_CardinalityType
  <1>9. \A x, y \in kept : x.path = y.path => x = y
    BY <1>7 DEF FileAt
  <1> HIDE DEF kept
  <1>10. \E s \in [1 .. n -> kept] : InText(s)
    <2>1. \A x \in kept : x.path \in Paths
      BY <1>8 DEF Files
    <2> DEFINE R == {pair \in kept \X kept : <<pair[1].path, pair[2].path>> \in TextBefore}
    <2>2. \A x, y \in kept : <<x, y>> \in R <=> <<x.path, y.path>> \in TextBefore
      OBVIOUS
    <2> HIDE DEF R
    <2>3. \A x \in kept : <<x, x>> \notin R
      BY <2>1, <2>2, PagesAssumption
    <2>4. \A x, y \in kept : x # y => <<x, y>> \in R \/ <<y, x>> \in R
      BY <1>9, <2>1, <2>2, PagesAssumption
    <2>5. \A x, y, z \in kept : <<x, y>> \in R /\ <<y, z>> \in R => <<x, z>> \in R
      BY <2>1, <2>2, PagesAssumption
    <2>6. PICK s \in [1 .. n -> kept] : \A i, j \in DOMAIN s : i < j => <<s[i], s[j]>> \in R
      BY <1>8, <2>3, <2>4, <2>5, Arranged
    <2> QED
      BY <2>2, <2>6
  <1> HIDE DEF n
  <1>11. E \in [1 .. n -> kept] /\ InText(E)
    <2> HIDE DEF InText
    <2> QED
      BY <1>10
  <1> HIDE DEF E
  <1>12. Len(E) = n /\ E \in Seq(Files) /\ DOMAIN E = 1 .. n /\ \A i \in 1 .. n : E[i] \in kept /\ E[i] \in Files
    BY <1>8, <1>11
  <1>13. Chain(E, Ahead)
    BY <1>11, <1>12 DEF Chain, Ahead
  <1>14. ASSUME NEW i \in 1 .. n, NEW j \in 1 .. n, E[i] = E[j] PROVE i = j
    <2>1. E[i].path \in Paths
      BY <1>12 DEF Files
    <2>2. ~(i < j) /\ ~(j < i)
      BY <1>11, <1>12, <1>14, <2>1, PagesAssumption
    <2> QED
      BY <1>8, <2>2
  <1>15. \A x \in kept : \E i \in 1 .. n : E[i] = x
    BY <1>8, <1>11, <1>14, ListsAll DEF n
  <1>16. Listed(E) = kept
    BY <1>12, <1>15 DEF Listed
  <1> QED
    BY <1>2, <1>7, <1>8, <1>12, <1>13, <1>16

(* What one call answers: the matches between its offset and the one in the *)
(* cursor it gives, or the end.                                             *)
PageOK(tr, eff, prefix, where, start, page) ==
    LET E == Sorted(Nest(tr)[<<>>], prefix)
    IN  \E stop \in start .. Len(E) :
           /\ page.matches \in Seq(Files) /\ Chain(page.matches, Ahead)
           /\ \A x : x \in Listed(page.matches) <=>
                        \E i \in start + 1 .. stop : Passes(where, E[i]) /\ x = E[i]
           /\ page.cursor = IF stop < Len(E) THEN <<EncodeCursor(eff, stop)>> ELSE <<>>

LEMMA PageIs ==
  ASSUME NEW tr \in Tree, WellFormed(tr), NEW at, NEW prefix, NEW where, NEW cursor, NEW limit \in Limits,
         NEW eff, eff = IF cursor # <<>> /\ cursor[1].commit # <<>> THEN cursor[1].commit ELSE ResolveAt(at),
         RootTree(eff) = Nest(tr)[<<>>],
         NEW start \in 0 .. Len(Sorted(Nest(tr)[<<>>], prefix)),
         start = IF cursor = <<>> THEN 0 ELSE cursor[1].offset
  PROVE  PageOK(tr, eff, prefix, where, start, Page(at, prefix, where, cursor, limit))
  <1> DEFINE E == Sorted(Nest(tr)[<<>>], prefix)
             hits == {i \in start + 1 .. Len(E) : Passes(where, E[i])}
             c == Clamp(limit)
             Up(i) == Cardinality({j \in hits : j <= i}) = c
             stop == IF Cardinality(hits) >= c THEN CHOOSE i \in hits : Up(i) ELSE Len(E)
             matches == Only(SubSeq(E, start + 1, stop), {E[i] : i \in hits})
             next == NextOffset(E, stop)
             cur == IF next = <<>> THEN <<>> ELSE <<EncodeCursor(eff, next[1])>>
             page == Page(at, prefix, where, cursor, limit)
  <1>1. E \in Seq(Files) /\ Len(E) \in Nat /\ Chain(E, Ahead)
    BY SortedIs
  <1>2. page = [matches |-> matches, cursor |-> cur]
    <2>1. (IF cursor # <<>> /\ cursor[1].commit # <<>> THEN cursor[1].commit ELSE ResolveAt(at)) = eff
      OBVIOUS
    <2>2. (IF cursor = <<>> THEN 0 ELSE cursor[1].offset) = start
      OBVIOUS
    <2>3. RootTree(eff) = Nest(tr)[<<>>]
      OBVIOUS
    <2> DEFINE Answer(e, entries, from) ==
                 LET hit == {i \in from + 1 .. Len(entries) : Passes(where, entries[i])}
                     last == IF Cardinality(hit) >= c
                             THEN CHOOSE i \in hit : Cardinality({j \in hit : j <= i}) = c
                             ELSE Len(entries)
                     left == NextOffset(entries, last)
                 IN  [matches |-> Only(SubSeq(entries, from + 1, last), {entries[i] : i \in hit}),
                      cursor |-> IF left = <<>> THEN <<>> ELSE <<EncodeCursor(e, left[1])>>]
               e1 == IF cursor # <<>> /\ cursor[1].commit # <<>> THEN cursor[1].commit ELSE ResolveAt(at)
               s1 == IF cursor = <<>> THEN 0 ELSE cursor[1].offset
    <2>4. page = Answer(e1, Sorted(RootTree(e1), prefix), s1)
      BY Zenon DEF Page
    <2>5. Answer(eff, E, start) = [matches |-> matches, cursor |-> cur]
      OBVIOUS
    <2> HIDE DEF Answer, e1, s1, page, matches, cur
    <2>6. e1 = eff /\ s1 = start
      BY <2>1, <2>2 DEF e1, s1
    <2>7. Answer(e1, Sorted(RootTree(e1), prefix), s1) = Answer(eff, E, start)
      BY <2>3, <2>6, Zenon
    <2> QED
      BY <2>4, <2>5, <2>7
  <1> HIDE DEF E
  <1>3. c \in Nat /\ c >= 1
    BY PagesAssumption DEF Clamp
  <1> HIDE DEF c
  <1>4. start \in Nat
    BY <1>1 DEF E
  <1>5. stop \in start .. Len(E) /\ \A i \in hits : TRUE
    <2>1. CASE Cardinality(hits) >= c
      <3>1. hits \subseteq start + 1 .. Len(E)
        OBVIOUS
      <3> HIDE DEF hits
      <3>2. \E i \in hits : Up(i)
        <4>1. FilledBy(hits, c)
          <5>1. /\ start \in Nat /\ Len(E) \in Nat /\ c \in Nat /\ c >= 1
                /\ hits \subseteq start + 1 .. Len(E) /\ Cardinality(hits) >= c
            BY <1>1, <1>3, <1>4, <2>1, <3>1
          <5> QED
            BY ONLY <5>1, Fills
        <4> QED
          BY <4>1 DEF FilledBy
      <3> HIDE DEF Up
      <3>3. stop \in hits
        BY <2>1, <3>2
      <3> HIDE DEF stop
      <3> QED
        BY <1>1, <1>4, <3>1, <3>3
    <2>2. CASE ~(Cardinality(hits) >= c)
      <3>1. stop = Len(E)
        BY <2>2
      <3>2. start <= Len(E)
        BY <1>1 DEF E
      <3> HIDE DEF stop
      <3> QED
        BY <1>1, <1>4, <3>1, <3>2
    <2> QED
      BY <2>1, <2>2
  <1> HIDE DEF stop
  <1>6. stop \in Nat /\ stop <= Len(E) /\ start <= stop
    BY <1>1, <1>4, <1>5
  <1> DEFINE s == SubSeq(E, start + 1, stop)
  <1>7. s \in Seq(Files) /\ Chain(s, Ahead) /\ \A x : x \in Listed(s) <=> \E i \in start + 1 .. stop : x = E[i]
    <2>1. E \in Seq(Files) /\ Chain(E, Ahead) /\ start \in Nat /\ stop \in Nat /\ stop <= Len(E)
      BY <1>1, <1>4, <1>6
    <2> QED
      BY ONLY <2>1, SliceIs
  <1> HIDE DEF s
  <1> DEFINE H == {E[i] : i \in hits}
  <1>8. /\ Only(s, H) \in Seq(Files) /\ Chain(Only(s, H), Ahead)
        /\ \A x : x \in Listed(Only(s, H)) <=> x \in Listed(s) /\ x \in H
    <2> HIDE DEF H
    <2> QED
      BY <1>7, OnlyIs
  <1>9. matches = Only(s, H)
    BY DEF s
  <1>10. \A x : x \in Listed(matches) <=> \E i \in start + 1 .. stop : Passes(where, E[i]) /\ x = E[i]
    <2>1. \A i \in start + 1 .. stop : i \in start + 1 .. Len(E)
      BY <1>1, <1>4, <1>6
    <2>2. \A x : x \in H => Passes(where, x)
      OBVIOUS
    <2>3. \A i \in start + 1 .. stop : Passes(where, E[i]) => E[i] \in H
      BY <2>1
    <2> HIDE DEF H, matches
    <2> QED
      BY <1>7, <1>8, <1>9, <2>2, <2>3
  <1>11. cur = IF stop < Len(E) THEN <<EncodeCursor(eff, stop)>> ELSE <<>>
    <2>1. <<stop>> # <<>> /\ <<stop>>[1] = stop
      OBVIOUS
    <2> QED
      BY <2>1 DEF NextOffset
  <1> HIDE DEF matches, cur
  <1>12. page.matches = matches /\ page.cursor = cur
    BY <1>2
  <1>13. page.matches \in Seq(Files) /\ Chain(page.matches, Ahead)
    BY <1>8, <1>9, <1>12
  <1> HIDE DEF page
  <1> QED
    BY <1>5, <1>10, <1>11, <1>12, <1>13 DEF page, E, PageOK

-----------------------------------------------------------------------------
(* A client and its pages.                                                  *)

IsSession(s) ==
    \E st, at, prefix, where, cursor, got, pinned :
        s = [st |-> st, at |-> at, prefix |-> prefix, where |-> where,
             cursor |-> cursor, got |-> got, pinned |-> pinned]

LEMMA ReceivedIs ==
  ASSUME NEW s, IsSession(s), NEW page
  PROVE  LET r == Received(s, page)
         IN  /\ IsSession(r)
             /\ r.at = s.at /\ r.prefix = s.prefix /\ r.where = s.where /\ r.pinned = s.pinned
             /\ r.got = s.got \o page.matches /\ r.cursor = page.cursor
             /\ r.st = IF page.cursor = <<>> THEN "done" ELSE "paging"
  <1>1. PICK st, at, prefix, where, cursor, got, pinned :
            s = [st |-> st, at |-> at, prefix |-> prefix, where |-> where,
                 cursor |-> cursor, got |-> got, pinned |-> pinned]
    BY DEF IsSession
  <1> DEFINE r == [st |-> IF page.cursor = <<>> THEN "done" ELSE "paging", at |-> at, prefix |-> prefix,
                   where |-> where, cursor |-> page.cursor, got |-> got \o page.matches, pinned |-> pinned]
  <1>2. Received(s, page) = r
    <2>1. s.got = got
      BY <1>1
    <2>2. Received(s, page) = [s EXCEPT !.got = got \o page.matches, !.cursor = page.cursor,
                                        !.st = IF page.cursor = <<>> THEN "done" ELSE "paging"]
      BY <2>1 DEF Received
    <2> DEFINE g == got \o page.matches
               c == page.cursor
               e == IF page.cursor = <<>> THEN "done" ELSE "paging"
               s1 == [st |-> st, at |-> at, prefix |-> prefix, where |-> where,
                      cursor |-> cursor, got |-> g, pinned |-> pinned]
               s2 == [st |-> st, at |-> at, prefix |-> prefix, where |-> where,
                      cursor |-> c, got |-> g, pinned |-> pinned]
    <2> HIDE DEF g, c, e
    <2>3. [s EXCEPT !.got = g] = s1
      BY <1>1
    <2>4. [s1 EXCEPT !.cursor = c] = s2
      OBVIOUS
    <2>5. [s2 EXCEPT !.st = e] = [st |-> e, at |-> at, prefix |-> prefix, where |-> where,
                      cursor |-> c, got |-> g, pinned |-> pinned]
      OBVIOUS
    <2> HIDE DEF s1, s2
    <2> QED
      BY <2>2, <2>3, <2>4, <2>5, Zenon DEF g, c, e
  <1>3. IsSession(r)
    BY Zenon DEF IsSession
  <1> QED
    BY <1>1, <1>2, <1>3

(* What has been looked at of the manifests of a commit, and all that the   *)
(* matches got so far say of it.                                            *)
Reached(s, tr, stop) ==
    LET E == Sorted(Nest(tr)[<<>>], s.prefix)
    IN  /\ stop \in 0 .. Len(E)
        /\ s.got \in Seq(Files) /\ Chain(s.got, Ahead)
        /\ \A x : x \in Listed(s.got) <=> \E i \in 1 .. stop : Passes(s.where, E[i]) /\ x = E[i]

CursorAt(s, tr, stop) ==
    IF stop < Len(Sorted(Nest(tr)[<<>>], s.prefix))
    THEN s.st = "paging" /\ s.cursor = <<EncodeCursor(s.pinned, stop)>>
    ELSE s.st = "done" /\ s.cursor = <<>>

Progress(s, tr) == \E stop : Reached(s, tr, stop) /\ CursorAt(s, tr, stop)

(* A page takes up where the one before it stopped.                         *)
LEMMA Advance ==
  ASSUME NEW tr \in Tree, WellFormed(tr), NEW s, IsSession(s), NEW limit \in Limits,
         NEW start, Reached(s, tr, start),
         start = IF s.cursor = <<>> THEN 0 ELSE s.cursor[1].offset,
         s.pinned = IF s.cursor # <<>> /\ s.cursor[1].commit # <<>> THEN s.cursor[1].commit
                    ELSE ResolveAt(s.at),
         RootTree(s.pinned) = Nest(tr)[<<>>]
  PROVE  Progress(Received(s, Page(s.at, s.prefix, s.where, s.cursor, limit)), tr)
  <1> DEFINE E == Sorted(Nest(tr)[<<>>], s.prefix)
             page == Page(s.at, s.prefix, s.where, s.cursor, limit)
             r == Received(s, page)
             P(i) == Passes(s.where, E[i])
  <1>1. E \in Seq(Files) /\ Len(E) \in Nat /\ Chain(E, Ahead)
    BY SortedIs
  <1>2. /\ start \in 0 .. Len(E) /\ s.got \in Seq(Files) /\ Chain(s.got, Ahead)
        /\ \A x : x \in Listed(s.got) <=> \E i \in 1 .. start : P(i) /\ x = E[i]
    BY DEF Reached
  <1>3. PICK stop \in start .. Len(E) :
            /\ page.matches \in Seq(Files) /\ Chain(page.matches, Ahead)
            /\ \A x : x \in Listed(page.matches) <=> \E i \in start + 1 .. stop : P(i) /\ x = E[i]
            /\ page.cursor = IF stop < Len(E) THEN <<EncodeCursor(s.pinned, stop)>> ELSE <<>>
    <2>1. start \in 0 .. Len(Sorted(Nest(tr)[<<>>], s.prefix))
      BY <1>2
    <2>2. PageOK(tr, s.pinned, s.prefix, s.where, start, page)
      BY <2>1, PageIs, Zenon
    <2> HIDE DEF page
    <2> QED
      BY <2>2 DEF PageOK
  <1>4. /\ r.prefix = s.prefix /\ r.where = s.where /\ r.pinned = s.pinned
        /\ r.got = s.got \o page.matches /\ r.cursor = page.cursor
        /\ r.st = IF page.cursor = <<>> THEN "done" ELSE "paging"
    BY ReceivedIs
  <1> HIDE DEF E, P, page
  <1>5. start \in Nat /\ stop \in Nat /\ start <= stop /\ stop <= Len(E)
    BY <1>1, <1>2, <1>3
  <1>6. Across(s.got, page.matches, Ahead)
    <2> SUFFICES ASSUME NEW x \in Listed(s.got), NEW y \in Listed(page.matches) PROVE <<x, y>> \in Ahead
      BY DEF Across
    <2>1. PICK i \in 1 .. start : x = E[i]
      BY <1>2
    <2>2. PICK j \in start + 1 .. stop : y = E[j]
      BY <1>3
    <2>3. i \in 1 .. Len(E) /\ j \in 1 .. Len(E) /\ i < j
      BY <1>1, <1>5
    <2> QED
      BY <1>1, <2>1, <2>2, <2>3 DEF Chain
  <1>7. /\ r.got \in Seq(Files) /\ Chain(r.got, Ahead)
        /\ Listed(r.got) = Listed(s.got) \cup Listed(page.matches)
    BY <1>2, <1>3, <1>4, <1>6, JoinTwo
  <1>8. ASSUME NEW x PROVE x \in Listed(r.got) <=> \E i \in 1 .. stop : P(i) /\ x = E[i]
    <2>1. x \in Listed(r.got) <=>
             (\E i \in 1 .. start : P(i) /\ x = E[i]) \/ (\E i \in start + 1 .. stop : P(i) /\ x = E[i])
      BY <1>2, <1>3, <1>7
    <2>2. \A i : i \in 1 .. stop <=> i \in 1 .. start \/ i \in start + 1 .. stop
      BY <1>5
    <2> QED
      BY <2>1, <2>2
  <1>9. E = Sorted(Nest(tr)[<<>>], r.prefix) /\ \A i : P(i) <=> Passes(r.where, E[i])
    BY <1>4 DEF E, P
  <1>10. Reached(r, tr, stop)
    BY <1>5, <1>7, <1>8, <1>9 DEF Reached
  <1>11. CursorAt(r, tr, stop)
    <2>1. <<EncodeCursor(s.pinned, stop)>> # <<>>
      OBVIOUS
    <2> QED
      BY <1>3, <1>4, <1>9, <2>1 DEF CursorAt
  <1> QED
    BY <1>10, <1>11 DEF Progress, page

-----------------------------------------------------------------------------
(* All that a query should find, and what has been found.                   *)
LEMMA AllIs ==
  ASSUME NEW tr \in Tree, WellFormed(tr), NEW prefix,
         NEW where \in Wheres, where = <<>> \/ Predicate[where].ok
  PROVE  \A x : x \in AllMatches(Nest(tr)[<<>>], prefix, where) <=>
                  x \in Listed(Sorted(Nest(tr)[<<>>], prefix)) /\ Passes(where, x)
  <1> DEFINE t == Nest(tr)[<<>>]
             found(p) == GetAt(t, p)
             leaves == {p \in ManifestPaths : found(p) # Err /\ found(p)[1].mode = "leaf"}
             under == {[path |-> p, hash |-> found(p)[1].hash] : p \in leaves \cap prefix}
             Is(x) == \E q \in ManifestPaths : q \in prefix /\ tr[q] # NoFile /\ x = FileAt(tr, q)
  <1>1. ManifestPaths \subseteq Paths
    BY PagesAssumption
  <1>2. ASSUME NEW p \in ManifestPaths
        PROVE  /\ p \in leaves <=> tr[p] # NoFile
               /\ tr[p] # NoFile => found(p)[1].hash = tr[p]
    <2>1. found(p) = Found(tr, p)
      BY <1>1, GetNested
    <2>2. Len(p) # 0
      BY <1>1, PathIs
    <2>3. CASE tr[p] # NoFile
      <3>1. found(p) = <<Leaf(tr[p])>> /\ <<Leaf(tr[p])>> # <<>> /\ <<Leaf(tr[p])>>[1] = Leaf(tr[p])
        BY <2>1, <2>2, <2>3 DEF Found, Ok
      <3> HIDE DEF found
      <3> QED
        BY <2>3, <3>1 DEF Leaf, Err
    <2>4. CASE tr[p] = NoFile
      <3>1. found(p) = Err \/ found(p) = <<Dir(Nest(tr)[p])>>
        BY <2>1, <2>2, <2>4 DEF Found, Ok
      <3>2. <<Dir(Nest(tr)[p])>>[1].mode = "tree"
        BY DEF Dir
      <3> HIDE DEF found
      <3> QED
        BY <2>4, <3>1, <3>2
    <2> QED
      BY <2>3, <2>4
  <1> HIDE DEF found
  <1>3. \A x : x \in under <=> Is(x)
    <2>1. \A x : x \in under <=>
             \E p \in ManifestPaths : p \in leaves /\ p \in prefix
                                      /\ x = [path |-> p, hash |-> found(p)[1].hash]
      OBVIOUS
    <2> HIDE DEF under, leaves
    <2> QED
      BY <1>2, <2>1 DEF FileAt
  <1>4. AllMatches(t, prefix, where) = {e \in under : where = <<>> \/ Denotes(where, ManifestOf[e.hash])}
    BY DEF AllMatches, found
  <1> HIDE DEF under, t
  <1>5. \A x : x \in Listed(Sorted(t, prefix)) <=> Is(x)
    BY SortedIs DEF t
  <1>6. ASSUME NEW x, Is(x)
        PROVE  Passes(where, x) <=> where = <<>> \/ Denotes(where, ManifestOf[x.hash])
    <2>1. x.hash \in Values
      BY <1>1, <1>6 DEF Tree, FileAt
    <2>2. Passes(where, x) <=> where = <<>> \/ EvaluatePredicate(ParsePredicate(where).x, ManifestOf[x.hash])
      BY <2>1 DEF Passes, Selected, Predicate
    <2>3. CASE where = <<>>
      BY <2>2, <2>3
    <2>4. CASE where # <<>>
      <3>1. ParsePredicate(where).ok
        BY <2>4 DEF Predicate
      <3> QED
        BY <2>1, <2>2, <2>4, <3>1, PredicateAssumption
    <2> QED
      BY <2>3, <2>4
  <1> HIDE DEF Is
  <1>7. \A x : x \in AllMatches(t, prefix, where) <=> x \in Listed(Sorted(t, prefix)) /\ Passes(where, x)
    BY <1>3, <1>4, <1>5, <1>6
  <1> QED
    BY <1>7 DEF t

(* A root tree that is None has no manifests.                               *)
LEMMA NoneSorted ==
  ASSUME NEW prefix
  PROVE  Len(Sorted(None, prefix)) = 0
  <1> DEFINE E == Sorted(None, prefix)
  <1>1. E \in Seq(Files) /\ Len(E) \in Nat
        /\ \A x : x \in Listed(E) <=>
              \E q \in ManifestPaths : q \in prefix /\ EmptyTree[q] # NoFile /\ x = FileAt(EmptyTree, q)
    <2> DEFINE Fine(e) == /\ e \in Seq(Files) /\ Len(e) \in Nat
                          /\ \A x : x \in Listed(e) <=>
                                \E q \in ManifestPaths : /\ q \in prefix /\ EmptyTree[q] # NoFile
                                                        /\ x = FileAt(EmptyTree, q)
    <2>1. Fine(Sorted(Nest(EmptyTree)[<<>>], prefix))
      BY EmptyIs, SortedIs
    <2> HIDE DEF Fine
    <2>2. Fine(E)
      BY <2>1, EmptyIs, Zenon
    <2> QED
      BY <2>2 DEF Fine
  <1>2. Listed(E) = {}
    BY <1>1, PagesAssumption DEF EmptyTree
  <1> HIDE DEF E
  <1>3. \A i \in 1 .. Len(E) : E[i] \in Listed(E)
    BY DEF Listed
  <1>4. 1 \notin 1 .. Len(E)
    BY <1>2, <1>3
  <1> QED
    BY <1>1, <1>4 DEF E

Asked(where) == where \in Wheres /\ (where = <<>> \/ Predicate[where].ok)

LEMMA WholeNow ==
  ASSUME NEW s, NEW tr \in Tree, WellFormed(tr), Progress(s, tr), Asked(s.where),
         RootTree(s.pinned) = Nest(tr)[<<>>]
  PROVE  Whole(s)
  <1> DEFINE E == Sorted(Nest(tr)[<<>>], s.prefix)
             all == IF s.pinned = <<>> THEN {} ELSE AllMatches(RootTree(s.pinned), s.prefix, s.where)
  <1>1. PICK stop : Reached(s, tr, stop) /\ CursorAt(s, tr, stop)
    BY DEF Progress
  <1>2. E \in Seq(Files) /\ Len(E) \in Nat /\ Chain(E, Ahead)
    BY SortedIs
  <1>3. /\ stop \in 0 .. Len(E) /\ s.got \in Seq(Files) /\ Chain(s.got, Ahead)
        /\ \A x : x \in Listed(s.got) <=> \E i \in 1 .. stop : Passes(s.where, E[i]) /\ x = E[i]
        /\ stop < Len(E) => s.st = "paging"
    BY <1>1 DEF Reached, CursorAt
  <1>4. \A x : x \in all <=> x \in Listed(E) /\ Passes(s.where, x)
    <2>1. CASE s.pinned = <<>>
      <3>1. Nest(tr)[<<>>] = None
        BY <2>1 DEF RootTree, Branch
      <3>2. Len(E) = 0
        BY <3>1, NoneSorted
      <3>3. Listed(E) = {}
        BY <3>2 DEF Listed
      <3> QED
        BY <2>1, <3>3
    <2>2. CASE s.pinned # <<>>
      <3>1. all = AllMatches(Nest(tr)[<<>>], s.prefix, s.where)
        BY <2>2
      <3> QED
        BY <3>1, AllIs DEF Asked
    <2> QED
      BY <2>1, <2>2
  <1> HIDE DEF E, all
  <1>5. DOMAIN s.got = 1 .. Len(s.got) /\ Range(s.got) = Listed(s.got)
    <2>1. DOMAIN s.got = 1 .. Len(s.got)
      BY <1>3
    <2> QED
      BY <2>1 DEF Range, Listed
  <1>6. ASSUME NEW i \in DOMAIN s.got, NEW j \in DOMAIN s.got, i < j
        PROVE  <<s.got[i].path, s.got[j].path>> \in TextBefore
    <2>1. <<s.got[i], s.got[j]>> \in Ahead
      BY <1>3, <1>5, <1>6 DEF Chain
    <2> QED
      BY <2>1 DEF Ahead
  <1>7. Range(s.got) \subseteq all
    <2> SUFFICES ASSUME NEW x \in Listed(s.got) PROVE x \in all
      BY <1>5
    <2>1. PICK i \in 1 .. stop : Passes(s.where, E[i]) /\ x = E[i]
      BY <1>3
    <2>2. i \in 1 .. Len(E)
      BY <1>2, <1>3
    <2>3. x \in Listed(E)
      BY <2>1, <2>2 DEF Listed
    <2> QED
      BY <1>4, <2>1, <2>3
  <1>8. ASSUME NEW e \in all, e \notin Range(s.got)
        PROVE  s.st = "paging" /\ \A i \in DOMAIN s.got : <<s.got[i].path, e.path>> \in TextBefore
    <2>1. PICK k \in 1 .. Len(E) : e = E[k]
      BY <1>4 DEF Listed
    <2>2. k \notin 1 .. stop
      BY <1>3, <1>4, <1>5, <1>8, <2>1
    <2>3. stop < k /\ stop < Len(E)
      BY <1>2, <1>3, <2>1, <2>2
    <2>4. ASSUME NEW i \in DOMAIN s.got PROVE <<s.got[i].path, e.path>> \in TextBefore
      <3>1. s.got[i] \in Listed(s.got)
        BY <1>5 DEF Listed
      <3>2. PICK j \in 1 .. stop : s.got[i] = E[j]
        BY <1>3, <3>1
      <3>3. j \in 1 .. Len(E) /\ j < k
        BY <1>2, <1>3, <2>3
      <3>4. <<E[j], E[k]>> \in Ahead
        BY <1>2, <3>3 DEF Chain
      <3> QED
        BY <2>1, <3>2, <3>4 DEF Ahead
    <2> QED
      BY <1>3, <2>3, <2>4
  <1> QED
    BY <1>6, <1>7, <1>8 DEF Whole, all
-----------------------------------------------------------------------------
(* The repository that is committed to, and what the client knows of it.    *)

Roots == {Nest(tr)[<<>>] : tr \in {x \in Tree : WellFormed(x)}}

CommitsInv == commits \in Seq(Roots)

KnownIn(at) == at = <<>> \/ \E n \in 1 .. Len(commits) : at = CommitAt(n)

(* The matches of a client that does not follow the branch are those of one *)
(* commit, up to where its cursor points.                                   *)
SessionInv ==
    session.st \in {"paging", "done"} =>
        /\ IsSession(session)
        /\ session.at # Branch =>
              /\ Asked(session.where) /\ KnownIn(session.pinned)
              /\ \E tr \in Tree : /\ WellFormed(tr) /\ RootTree(session.pinned) = Nest(tr)[<<>>]
                                  /\ Progress(session, tr)

PagesInv == TreeInv /\ CommitsInv /\ SessionInv

LEMMA KnownRoot ==
  ASSUME CommitsInv, NEW at, KnownIn(at)
  PROVE  /\ at # Branch
         /\ \E tr \in Tree : WellFormed(tr) /\ RootTree(at) = Nest(tr)[<<>>]
  <1>1. CASE at = <<>>
    <2>1. at # Branch /\ RootTree(at) = None
      BY <1>1 DEF Branch, RootTree
    <2> QED
      BY <2>1, EmptyIs
  <1>2. ASSUME NEW n \in 1 .. Len(commits), at = CommitAt(n)
        PROVE  /\ at # Branch
               /\ \E tr \in Tree : WellFormed(tr) /\ RootTree(at) = Nest(tr)[<<>>]
    <2>1. CommitAt(n) # <<>> /\ CommitAt(n) # Branch /\ CommitAt(n)[2] = n
      BY DEF CommitAt, Branch
    <2>2. RootTree(at) = commits[n]
      BY <1>2, <2>1 DEF RootTree
    <2>3. commits[n] \in Roots
      BY DEF CommitsInv
    <2> QED
      BY <1>2, <2>1, <2>2, <2>3 DEF Roots
  <1> QED
    BY <1>1, <1>2 DEF KnownIn

(* A commit changes nothing of an earlier one.                              *)
LEMMA CommitsGrow ==
  ASSUME CommitsInv, SessionInv, UNCHANGED session,
         NEW t \in Roots, commits' = Append(commits, t)
  PROVE  CommitsInv' /\ SessionInv'
  <1> DEFINE L == Len(commits)
  <1>1. /\ L \in Nat /\ Len(commits') = L + 1 /\ commits' \in Seq(Roots)
        /\ \A n \in 1 .. L : commits'[n] = commits[n]
    BY LenProperties DEF CommitsInv
  <1>2. ASSUME NEW at, KnownIn(at) PROVE KnownIn(at)' /\ RootTree(at)' = RootTree(at)
    <2>1. CASE at = <<>>
      BY <2>1 DEF KnownIn, RootTree, Branch
    <2>2. ASSUME NEW n \in 1 .. L, at = CommitAt(n) PROVE KnownIn(at)' /\ RootTree(at)' = RootTree(at)
      <3>1. CommitAt(n) # <<>> /\ CommitAt(n) # Branch /\ CommitAt(n)[2] = n
        BY DEF CommitAt, Branch
      <3>2. n \in 1 .. L + 1
        BY <1>1
      <3> QED
        BY <1>1, <2>2, <3>1, <3>2 DEF KnownIn, RootTree
    <2> QED
      BY <1>2, <2>1, <2>2 DEF KnownIn
  <1>3. SessionInv'
    <2> DEFINE s == session
    <2> SUFFICES ASSUME s.st \in {"paging", "done"}
                 PROVE  /\ IsSession(s)
                        /\ s.at # Branch =>
                              /\ Asked(s.where) /\ KnownIn(s.pinned)'
                              /\ \E tr \in Tree : /\ WellFormed(tr) /\ RootTree(s.pinned)' = Nest(tr)[<<>>]
                                                  /\ Progress(s, tr)
      BY DEF SessionInv
    <2> QED
      BY <1>2 DEF SessionInv
  <1> QED
    BY <1>1, <1>3 DEF CommitsInv

LEMMA FirstKeeps ==
  ASSUME PagesInv, NEW at, at = Branch \/ KnownIn(at), NEW prefix, NEW where \in Wheres,
         NEW limit \in Limits, FirstPage(at, prefix, where, limit)
  PROVE  SessionInv'
  <1> DEFINE pin == IF at = Branch THEN CommitAt(Len(commits)) ELSE ResolveAt(at)
             s == [st |-> "paging", at |-> at, prefix |-> prefix, where |-> where,
                   cursor |-> <<>>, got |-> <<>>, pinned |-> pin]
             page == Page(at, prefix, where, <<>>, limit)
             r == Received(s, page)
  <1>0. UNCHANGED commits
    BY DEF FirstPage
  <1>1. CASE session'.st \notin {"paging", "done"}
    BY <1>1 DEF SessionInv
  <1>2. CASE session' = r /\ (where = <<>> \/ Predicate[where].ok)
    <2>1. IsSession(s)
      BY Zenon DEF IsSession
    <2>2. s.at = at /\ s.prefix = prefix /\ s.where = where /\ s.pinned = pin /\ s.cursor = <<>> /\ s.got = <<>>
      OBVIOUS
    <2> HIDE DEF s, page, pin
    <2>3. IsSession(r) /\ r.at = at /\ r.where = where /\ r.pinned = pin
      <3>1. IsSession(r) /\ r.at = s.at /\ r.where = s.where /\ r.pinned = s.pinned
        BY <2>1, ReceivedIs
      <3> HIDE DEF r
      <3> QED
        BY <2>2, <3>1
    <2>4. ASSUME at # Branch
          PROVE  /\ KnownIn(pin)
                 /\ \E tr \in Tree : WellFormed(tr) /\ RootTree(pin) = Nest(tr)[<<>>] /\ Progress(r, tr)
      <3>1. pin = ResolveAt(at) /\ KnownIn(at)
        BY <2>4 DEF pin
      <3>2. KnownIn(pin)
        <4>1. Len(commits) \in Nat /\ (commits = <<>> <=> Len(commits) = 0)
          BY LenProperties, EmptySeq DEF PagesInv, CommitsInv
        <4>2. commits # <<>> => Len(commits) \in 1 .. Len(commits)
          BY <4>1
        <4> QED
          BY <3>1, <4>2 DEF ResolveAt, KnownIn
      <3> HIDE DEF pin
      <3>3. PICK tr \in Tree : WellFormed(tr) /\ RootTree(pin) = Nest(tr)[<<>>]
        BY <3>2, KnownRoot DEF PagesInv
      <3>4. Reached(s, tr, 0)
        <4>1. <<>> \in Seq(Files) /\ Chain(<<>>, Ahead) /\ Listed(<<>>) = {}
          BY DEF Chain, Listed
        <4>2. Len(Sorted(Nest(tr)[<<>>], prefix)) \in Nat
          BY <3>3, SortedIs
        <4>3. 0 \in 0 .. Len(Sorted(Nest(tr)[<<>>], prefix)) /\ 1 .. 0 = {}
          BY <4>2
        <4> QED
          BY <2>2, <4>1, <4>3 DEF Reached
      <3>5. Progress(Received(s, Page(s.at, s.prefix, s.where, s.cursor, limit)), tr)
        <4>1. 0 = IF s.cursor = <<>> THEN 0 ELSE s.cursor[1].offset
          BY <2>2
        <4>2. s.pinned = IF s.cursor # <<>> /\ s.cursor[1].commit # <<>> THEN s.cursor[1].commit
                         ELSE ResolveAt(s.at)
          BY <2>2, <3>1
        <4>3. RootTree(s.pinned) = Nest(tr)[<<>>]
          BY <2>2, <3>3
        <4> HIDE DEF page, r
        <4> QED
          BY <2>1, <3>3, <3>4, <4>1, <4>2, <4>3, Advance
      <3>6. Progress(r, tr)
        BY <2>2, <3>5 DEF page
      <3> QED
        BY <3>2, <3>3, <3>6
    <2>5. session' = r
      BY <1>2 DEF s, page, pin
    <2> HIDE DEF r
    <2>6. ASSUME NEW a PROVE (KnownIn(a)' <=> KnownIn(a)) /\ RootTree(a)' = RootTree(a)
      BY <1>0 DEF KnownIn, RootTree
    <2> QED
      BY <1>2, <2>3, <2>4, <2>5, <2>6 DEF SessionInv, Asked
  <1> HIDE DEF r
  <1>3. session' = [st |-> "bad_query"] \/ session' = [st |-> "not_found"]
        \/ (session' = r /\ (where = <<>> \/ Predicate[where].ok))
    <2>1. session' = IF where # <<>> /\ ~Predicate[where].ok THEN [st |-> "bad_query"]
                     ELSE IF at = Branch /\ commits = <<>> THEN [st |-> "not_found"]
                     ELSE r
      BY ONLY FirstPage(at, prefix, where, limit) DEF FirstPage, r
    <2> QED
      BY <2>1
  <1>4. ASSUME NEW a, session' = [st |-> a], a \notin {"paging", "done"} PROVE SessionInv'
    BY <1>1, <1>4
  <1> QED
    BY <1>2, <1>3, <1>4

LEMMA NextKeeps ==
  ASSUME PagesInv, NEW limit \in Limits, NextPage(limit)
  PROVE  SessionInv'
  <1> DEFINE s == session
             page == Page(s.at, s.prefix, s.where, s.cursor, limit)
             r == Received(s, page)
  <1>1. s.st = "paging" /\ session' = r /\ UNCHANGED commits
    BY DEF NextPage
  <1>2. IsSession(s)
    BY <1>1 DEF PagesInv, SessionInv
  <1>3. IsSession(r) /\ r.at = s.at /\ r.where = s.where /\ r.pinned = s.pinned
    BY <1>2, ReceivedIs
  <1>4. ASSUME s.at # Branch
        PROVE  /\ Asked(s.where) /\ KnownIn(s.pinned)
               /\ \E tr \in Tree : /\ WellFormed(tr) /\ RootTree(s.pinned) = Nest(tr)[<<>>]
                                   /\ Progress(r, tr)
    <2>1. Asked(s.where) /\ KnownIn(s.pinned)
      BY <1>1, <1>4 DEF PagesInv, SessionInv
    <2>2. PICK tr \in Tree : WellFormed(tr) /\ RootTree(s.pinned) = Nest(tr)[<<>>] /\ Progress(s, tr)
      BY <1>1, <1>4 DEF PagesInv, SessionInv
    <2>3. PICK stop : Reached(s, tr, stop) /\ CursorAt(s, tr, stop)
      BY <2>2 DEF Progress
    <2> DEFINE E == Sorted(Nest(tr)[<<>>], s.prefix)
    <2>4. Len(E) \in Nat /\ stop \in 0 .. Len(E)
      BY <2>2, <2>3, SortedIs DEF Reached
    <2>5. stop < Len(E) /\ s.cursor = <<EncodeCursor(s.pinned, stop)>>
      BY <1>1, <2>3 DEF CursorAt
    <2>6. s.pinned # <<>>
      <3> SUFFICES ASSUME s.pinned = <<>> PROVE FALSE
        OBVIOUS
      <3>1. Nest(tr)[<<>>] = None
        BY <2>2 DEF RootTree, Branch
      <3>2. Len(E) = 0
        BY <3>1, NoneSorted
      <3> QED
        BY <2>4, <2>5, <3>2
    <2> HIDE DEF E
    <2>7. s.cursor # <<>> /\ s.cursor[1].commit = s.pinned /\ s.cursor[1].offset = stop
      BY <2>5 DEF EncodeCursor
    <2>8. stop = IF s.cursor = <<>> THEN 0 ELSE s.cursor[1].offset
      BY <2>7
    <2>9. s.pinned = IF s.cursor # <<>> /\ s.cursor[1].commit # <<>> THEN s.cursor[1].commit
                     ELSE ResolveAt(s.at)
      BY <2>6, <2>7
    <2> HIDE DEF s
    <2>10. Progress(r, tr)
      BY <1>2, <2>2, <2>3, <2>8, <2>9, Advance
    <2> QED
      BY <2>1, <2>2, <2>10
  <1> HIDE DEF r
  <1>5. ASSUME NEW a PROVE KnownIn(a)' <=> KnownIn(a)
    BY <1>1 DEF KnownIn
  <1>6. ASSUME NEW a PROVE RootTree(a)' = RootTree(a)
    BY <1>1 DEF RootTree
  <1> HIDE DEF s
  <1>7. session' = r
    BY <1>1
  <1> QED
    BY <1>3, <1>4, <1>5, <1>6, <1>7 DEF SessionInv, Asked

LEMMA PagesInit_Inv == PagesInit => PagesInv
  <1> SUFFICES ASSUME PagesInit PROVE PagesInv
    OBVIOUS
  <1>1. TreeInv
    BY TreeInit_Inv DEF PagesInit
  <1>2. commits \in Seq(Roots) /\ session.st = "idle"
    BY DEF PagesInit, Idle
  <1> QED
    BY <1>1, <1>2 DEF PagesInv, CommitsInv, SessionInv

LEMMA PagesStep == PagesInv /\ [PagesNext]_pagesVars => PagesInv'
  <1> SUFFICES ASSUME PagesInv, [PagesNext]_pagesVars PROVE PagesInv'
    OBVIOUS
  <1>0. TreeInv /\ CommitsInv /\ SessionInv
    BY DEF PagesInv
  <1>1. ASSUME UNCHANGED <<commits, session>> PROVE CommitsInv' /\ SessionInv'
    BY <1>0, <1>1 DEF CommitsInv, SessionInv, KnownIn, RootTree
  <1>2. ASSUME UNCHANGED <<nested, flat>> PROVE TreeInv'
    BY <1>0, <1>2 DEF TreeInv
  <1>3. CASE UNCHANGED pagesVars
    BY <1>1, <1>2, <1>3 DEF pagesVars, PagesInv
  <1>4. CASE Edit
    BY <1>0, <1>1, <1>4, TreeStep DEF Edit, PagesInv
  <1>5. CASE Commit
    <2>1. commits' = <<nested>> /\ commits = <<>> /\ UNCHANGED <<nested, flat, session>>
      BY <1>5 DEF Commit
    <2>2. commits' = Append(commits, nested)
      BY <2>1
    <2>3. nested \in Roots
      BY <1>0 DEF TreeInv, Roots
    <2> QED
      BY <1>0, <1>2, <2>1, <2>2, <2>3, CommitsGrow DEF PagesInv
  <1>6. CASE CommitEdit
    <2>1. \E p \in TrackedPaths : Delete(p) \/ \E v \in Values : Put(p, v)
      BY <1>6 DEF CommitEdit
    <2>2. TreeInv'
      BY <1>0, <2>1, PutKeeps, DeleteKeeps, PagesAssumption
    <2>3. nested' \in Roots
      BY <2>2 DEF TreeInv, Roots
    <2>4. commits' = Append(commits, nested') /\ UNCHANGED session
      BY <1>6 DEF CommitEdit
    <2> QED
      BY <1>0, <2>2, <2>3, <2>4, CommitsGrow DEF PagesInv
  <1>7. CASE Ask
    <2>1. PICK at \in {<<>>, Branch} \cup {CommitAt(n) : n \in DOMAIN commits} :
              \E prefix \in PathPrefixes, where \in Wheres, limit \in Limits :
                  FirstPage(at, prefix, where, limit)
      BY <1>7 DEF Ask
    <2>2. PICK prefix \in PathPrefixes, where \in Wheres, limit \in Limits :
              FirstPage(at, prefix, where, limit)
      BY <2>1
    <2>3. DOMAIN commits = 1 .. Len(commits)
      BY <1>0, LenProperties DEF CommitsInv
    <2>4. at = Branch \/ KnownIn(at)
      BY <2>3 DEF KnownIn
    <2>5. SessionInv'
      BY <2>2, <2>4, FirstKeeps
    <2>6. UNCHANGED <<nested, flat, commits>>
      BY <2>2 DEF FirstPage
    <2> QED
      BY <1>0, <1>2, <2>5, <2>6 DEF PagesInv, CommitsInv
  <1>8. CASE Follow
    <2>1. PICK limit \in Limits : NextPage(limit)
      BY <1>8 DEF Follow
    <2>2. UNCHANGED <<nested, flat, commits>>
      BY <2>1 DEF NextPage
    <2>3. SessionInv'
      BY <2>1, NextKeeps
    <2> QED
      BY <1>0, <1>2, <2>2, <2>3 DEF PagesInv, CommitsInv
  <1> QED
    BY <1>3, <1>4, <1>5, <1>6, <1>7, <1>8 DEF PagesNext

LEMMA ExactPages == PagesInv => PagesOfOneCommit
  <1> SUFFICES ASSUME PagesInv, session.st \in {"paging", "done"}, session.at # Branch
               PROVE  Whole(session)
    BY DEF PagesOfOneCommit
  <1>1. Asked(session.where)
    BY DEF PagesInv, SessionInv
  <1>2. PICK tr \in Tree : /\ WellFormed(tr) /\ RootTree(session.pinned) = Nest(tr)[<<>>]
                           /\ Progress(session, tr)
    BY DEF PagesInv, SessionInv
  <1> QED
    BY <1>1, <1>2, WholeNow

(* The same of the trees that queries and diffs are asked of.               *)
THEOREM PagesTreesExact == PagesSpec => []TreeCodeExact
  <1>1. PagesSpec => []PagesInv
    BY PagesInit_Inv, PagesStep, PTL DEF PagesSpec
  <1>2. PagesInv => TreeCodeExact
    BY ExactTree DEF PagesInv
  <1> QED
    BY <1>1, <1>2, PTL

(* Repo::query, page by page: the client of a query at HEAD or at a commit  *)
(* gets every match of the commit of its first page, once and in path       *)
(* order, whatever is committed while it pages and whatever limits it asks. *)
THEOREM QueryPages == PagesSpec => []PagesOfOneCommit
  <1>1. PagesSpec => []PagesInv
    BY PagesInit_Inv, PagesStep, PTL DEF PagesSpec
  <1> QED
    BY <1>1, ExactPages, PTL

(* Repo::diff: the files of one tree and a diff from it to another make the *)
(* files of the other, in both directions.                                  *)
THEOREM DiffsExact == PagesSpec => []DiffExact
  <1>1. PagesSpec => []PagesInv
    BY PagesInit_Inv, PagesStep, PTL DEF PagesSpec
  <1>2. PagesInv => DiffExact
    BY ExactDiff DEF PagesInv
  <1> QED
    BY <1>1, <1>2, PTL
=============================================================================
