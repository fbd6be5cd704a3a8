----------------------------- MODULE JobProofs -----------------------------
(***************************************************************************)
(* Proofs about the jobs of json-processing, for inputs of any length:     *)
(*   - a compaction accounts for every file, finishes every output and     *)
(*     gives every digest the earliest capture;                            *)
(*   - a stream of lines is judged as its lines are, in whichever order    *)
(*     tasks parse them, and as check judges the file;                     *)
(*   - an enrichment writes a line for every run of lines of one digest;   *)
(*   - a session of queries that reports no failure asks for all there is, *)
(*     once, and its rows can be extracted whole.                          *)
(* Each part ends with its theorems; what the parts share comes first.     *)
(* MergeProofs has those about the merges.                                 *)
(***************************************************************************)
EXTENDS LineStream, Compaction, Enhance, QueryDriver,
        FiniteSetTheorems, WellFoundedInduction, TLAPS

-----------------------------------------------------------------------------
(* Sequences, numbers and sets *)

LEMMA SeqWidens ==
    ASSUME NEW A, NEW B, A \subseteq B, NEW s \in Seq(A)
    PROVE  s \in Seq(B)
OBVIOUS

LEMMA SeqNarrows ==
    ASSUME NEW A, NEW B, NEW s \in Seq(A), \A k \in 1 .. Len(s) : s[k] \in B
    PROVE  s \in Seq(B)
<1>1. Len(s) \in Nat /\ s = [k \in 1 .. Len(s) |-> s[k]]
    OBVIOUS
<1> QED BY <1>1

LEMMA NatHasLeast ==
    ASSUME NEW S \in SUBSET Nat, S # {}
    PROVE  \E k \in S : \A j \in S : k <= j
<1>1. PICK k \in S : \A j \in S : ~ (<<j, k>> \in OpToRel(<, Nat))
    BY NatLessThanWellFounded, WFMin
<1>2. \A j \in S : ~ (j < k)
    BY <1>1 DEF OpToRel
<1> QED BY <1>2

\* A set that has 0 and with every number the next is all numbers.
LEMMA NatFromZero ==
    ASSUME NEW S, 0 \in S, \A n \in Nat : n \in S => n + 1 \in S
    PROVE  Nat \subseteq S
<1> SUFFICES ASSUME Nat \ S # {} PROVE FALSE
    OBVIOUS
<1>1. PICK k \in Nat \ S : \A j \in Nat \ S : k <= j
    BY NatHasLeast
<1>2. k - 1 \in Nat /\ k - 1 \in S
    BY <1>1
<1>3. (k - 1) + 1 = k
    BY <1>1
<1> QED BY <1>2, <1>3

\* A value for each step up to N, each found from the one before it, exists.
Steps(f, G, N) == \A n \in 1 .. N : f[n] = G[<<n, f[n - 1]>>]
LEMMA StepsExist ==
    ASSUME NEW N \in Nat, NEW S, NEW a \in S, NEW G \in [Nat \X S -> S]
    PROVE  \E f \in [0 .. N -> S] : f[0] = a /\ Steps(f, G, N)
<1> DEFINE T == {m \in Nat : \E f \in [0 .. m -> S] :
                   f[0] = a /\ \A n \in 1 .. m : f[n] = G[<<n, f[n - 1]>>]}
<1>1. 0 \in T
  <2> DEFINE g == [n \in 0 .. 0 |-> a]
  <2>1. g \in [0 .. 0 -> S] /\ g[0] = a /\ 1 .. 0 = {}
      OBVIOUS
  <2> HIDE DEF g
  <2> QED BY <2>1
<1>2. ASSUME NEW m \in Nat, m \in T
      PROVE  m + 1 \in T
  <2>1. PICK f \in [0 .. m -> S] : f[0] = a /\ \A n \in 1 .. m : f[n] = G[<<n, f[n - 1]>>]
      BY <1>2
  <2> DEFINE g == [n \in 0 .. m + 1 |-> IF n <= m THEN f[n] ELSE G[<<m + 1, f[m]>>]]
  <2>2. G[<<m + 1, f[m]>>] \in S
      OBVIOUS
  <2>3. g \in [0 .. m + 1 -> S]
      BY <2>2
  <2>4. g[0] = a
      BY <2>1
  <2>5. ASSUME NEW n \in 1 .. m + 1 PROVE g[n] = G[<<n, g[n - 1]>>]
    <3>1. g[n - 1] = f[n - 1]
        OBVIOUS
    <3>2. CASE n <= m
        BY <3>1, <3>2, <2>1
    <3>3. CASE n = m + 1
        BY <3>1, <3>3
    <3> QED BY <3>2, <3>3
  <2>6. m + 1 \in Nat
      OBVIOUS
  <2> HIDE DEF g
  <2> QED BY <2>3, <2>4, <2>5, <2>6
<1>3. N \in T
  <2> HIDE DEF T
  <2> QED BY <1>1, <1>2, NatFromZero
<1> QED BY <1>3 DEF Steps

\* A finite set of integers has a least and a greatest.
LEMMA FiniteHasEnds ==
    ASSUME NEW S \in SUBSET Int, IsFiniteSet(S), S # {}
    PROVE  /\ \E x \in S : \A y \in S : x <= y
           /\ \E x \in S : \A y \in S : y <= x
<1>1. PICK f \in [1 .. Cardinality(S) -> S] :
          \A x \in S : \E i \in 1 .. Cardinality(S) : f[i] = x
    BY FS_CardinalityType DEF ExistsBijection, Bijection, Surjection
<1> DEFINE N == Cardinality(S)
           T == {m \in Nat : m + 1 <= N =>
                  /\ \E i \in 1 .. m + 1 : \A j \in 1 .. m + 1 : f[i] <= f[j]
                  /\ \E i \in 1 .. m + 1 : \A j \in 1 .. m + 1 : f[j] <= f[i]}
<1>2. N \in Nat /\ N # 0
    BY FS_CardinalityType, FS_EmptySet
<1> HIDE DEF N
<1>3. \A i \in 1 .. N : f[i] \in Int
    BY <1>1 DEF N
<1>4. 0 \in T
    BY <1>2, <1>3
<1>5. ASSUME NEW m \in Nat, m \in T
      PROVE  m + 1 \in T
  <2> SUFFICES ASSUME m + 2 <= N
               PROVE  /\ \E i \in 1 .. m + 2 : \A j \in 1 .. m + 2 : f[i] <= f[j]
                      /\ \E i \in 1 .. m + 2 : \A j \in 1 .. m + 2 : f[j] <= f[i]
      OBVIOUS
  <2>1. PICK a \in 1 .. m + 1 : \A j \in 1 .. m + 1 : f[a] <= f[j]
      BY <1>5, <1>2, SMTT(30)
  <2>2. PICK b \in 1 .. m + 1 : \A j \in 1 .. m + 1 : f[j] <= f[b]
      BY <1>5, <1>2
  <2>3. \A j \in 1 .. m + 2 : f[j] \in Int
      BY <1>2, <1>3
  <2> DEFINE I == 1 .. m + 2
  <2>0. m + 2 \in I /\ a \in I /\ b \in I /\ \A j \in I : j = m + 2 \/ j \in 1 .. m + 1
      OBVIOUS
  <2>7. \A j \in I : f[j] \in Int
      BY <2>3
  <2>8. /\ f[m + 2] <= f[a] \/ f[a] <= f[m + 2]
        /\ f[m + 2] <= f[b] \/ f[b] <= f[m + 2]
    <3>1. f[m + 2] \in Int /\ f[a] \in Int /\ f[b] \in Int
        BY <2>0, <2>7
    <3> QED BY <3>1
  <2> HIDE DEF I
  <2>4. \E i \in I : \A j \in I : f[i] <= f[j]
    <3>1. CASE f[m + 2] <= f[a]
      <4>1. \A j \in I : f[m + 2] <= f[j]
          BY <3>1, <2>0, <2>1, <2>7
      <4> QED BY <4>1, <2>0
    <3>2. CASE f[a] <= f[m + 2]
      <4>1. \A j \in I : f[a] <= f[j]
          BY <3>2, <2>0, <2>1, <2>7
      <4> QED BY <4>1, <2>0
    <3> QED BY <3>1, <3>2, <2>8
  <2>5. \E i \in I : \A j \in I : f[j] <= f[i]
    <3>1. CASE f[m + 2] <= f[b]
      <4>1. \A j \in I : f[j] <= f[b]
          BY <3>1, <2>0, <2>2, <2>7
      <4> QED BY <4>1, <2>0
    <3>2. CASE f[b] <= f[m + 2]
      <4>1. \A j \in I : f[j] <= f[m + 2]
          BY <3>2, <2>0, <2>2, <2>7
      <4> QED BY <4>1, <2>0
    <3> QED BY <3>1, <3>2, <2>8
  <2> QED BY <2>4, <2>5 DEF I
<1>6. N - 1 \in T
  <2> HIDE DEF T
  <2> QED BY <1>2, <1>4, <1>5, NatFromZero
<1>0. (N - 1) + 1 = N
    BY <1>2
<1>11. /\ \E i \in 1 .. N : \A j \in 1 .. N : f[i] <= f[j]
       /\ \E i \in 1 .. N : \A j \in 1 .. N : f[j] <= f[i]
  <2>1. PICK n : n = N - 1
      OBVIOUS
  <2>2. n \in T /\ n + 1 = N
      BY <2>1, <1>6, <1>0
  <2>3. /\ \E i \in 1 .. n + 1 : \A j \in 1 .. n + 1 : f[i] <= f[j]
        /\ \E i \in 1 .. n + 1 : \A j \in 1 .. n + 1 : f[j] <= f[i]
      BY <2>2, <1>2
  <2> QED BY <2>2, <2>3
<1>7. PICK a \in 1 .. N : \A j \in 1 .. N : f[a] <= f[j]
    BY <1>11
<1>10. PICK b \in 1 .. N : \A j \in 1 .. N : f[j] <= f[b]
    BY <1>11
<1>8. f[a] \in S /\ f[b] \in S
    BY <1>1 DEF N
<1>9. \A y \in S : f[a] <= y /\ y <= f[b]
    BY <1>1, <1>7, <1>10 DEF N
<1> QED BY <1>8, <1>9

\* A finite set of numbers can be listed in order.
NumbersAscend(s) == \A i, j \in DOMAIN s : i < j => s[i] < s[j]
LEMMA FiniteIsListed ==
    ASSUME NEW S \in SUBSET Nat, IsFiniteSet(S)
    PROVE  \E s \in [1 .. Cardinality(S) -> S] :
             NumbersAscend(s) /\ \A x \in S : \E i \in 1 .. Cardinality(S) : s[i] = x
<1> DEFINE Listed(R) == \E s \in [1 .. Cardinality(R) -> R] :
             NumbersAscend(s) /\ \A x \in R : \E i \in 1 .. Cardinality(R) : s[i] = x
           T == {m \in Nat : \A R \in SUBSET Nat :
                   IsFiniteSet(R) /\ Cardinality(R) = m => Listed(R)}
<1>1. 0 \in T
  <2> SUFFICES ASSUME NEW R \in SUBSET Nat, IsFiniteSet(R), Cardinality(R) = 0
               PROVE  Listed(R)
      OBVIOUS
  <2>1. R = {}
      BY FS_EmptySet
  <2>2. <<>> \in [1 .. 0 -> R] /\ NumbersAscend(<<>>)
      BY DEF NumbersAscend
  <2> QED BY <2>1, <2>2
<1>2. ASSUME NEW m \in Nat, m \in T
      PROVE  m + 1 \in T
  <2> SUFFICES ASSUME NEW R \in SUBSET Nat, IsFiniteSet(R), Cardinality(R) = m + 1
               PROVE  Listed(R)
      OBVIOUS
  <2>1. PICK x \in R : \A y \in R : y <= x
    <3>1. R # {}
        BY FS_EmptySet
    <3>2. R \in SUBSET Int
        OBVIOUS
    <3> QED BY <3>1, <3>2, FiniteHasEnds
  <2> DEFINE Q == R \ {x}
  <2>2. IsFiniteSet(Q) /\ Cardinality(Q) = m /\ Q \in SUBSET Nat
      BY FS_RemoveElement
  <2>3. PICK s \in [1 .. m -> Q] :
            NumbersAscend(s) /\ \A y \in Q : \E i \in 1 .. m : s[i] = y
    <3>1. Listed(Q)
      <4> HIDE DEF Listed
      <4> QED BY <1>2, <2>2
    <3> QED BY <3>1, <2>2
  <2> DEFINE t == [i \in 1 .. m + 1 |-> IF i <= m THEN s[i] ELSE x]
  <2>4. t \in [1 .. m + 1 -> R]
      OBVIOUS
  <2>5. \A i \in 1 .. m : s[i] \in Nat /\ s[i] < x
    <3> TAKE i \in 1 .. m
    <3>1. s[i] \in R /\ s[i] # x
        OBVIOUS
    <3>2. s[i] <= x /\ s[i] \in Nat /\ x \in Nat
        BY <3>1, <2>1
    <3> QED BY <3>1, <3>2
  <2>6. NumbersAscend(t)
    <3> SUFFICES ASSUME NEW i \in 1 .. m + 1, NEW j \in 1 .. m + 1, i < j
                 PROVE  t[i] < t[j]
        BY DEF NumbersAscend
    <3>1. i \in 1 .. m
        OBVIOUS
    <3>2. CASE j <= m
        BY <3>1, <3>2, <2>3 DEF NumbersAscend
    <3>3. CASE j = m + 1
        BY <3>1, <3>3, <2>5
    <3> QED BY <3>2, <3>3
  <2>7. ASSUME NEW y \in R PROVE \E i \in 1 .. m + 1 : t[i] = y
    <3>1. CASE y = x
        BY <3>1
    <3>2. CASE y # x
      <4>1. PICK i \in 1 .. m : s[i] = y
          BY <3>2, <2>3
      <4> QED BY <4>1
    <3> QED BY <3>1, <3>2
  <2> QED BY <2>4, <2>6, <2>7
<1>3. Cardinality(S) \in T
  <2>1. Cardinality(S) \in Nat
      BY FS_CardinalityType
  <2> HIDE DEF T
  <2> QED BY <1>1, <1>2, <2>1, NatFromZero
<1> QED BY <1>3

LEMMA Appended ==
    ASSUME NEW S, NEW q \in Seq(S), NEW x \in S
    PROVE  /\ Append(q, x) \in Seq(S)
           /\ Len(q) + 1 \in DOMAIN Append(q, x) /\ Append(q, x)[Len(q) + 1] = x
           /\ Append(q, x) # <<>> /\ Len(Append(q, x)) = Len(q) + 1
           /\ \A i \in DOMAIN q : i \in DOMAIN Append(q, x) /\ Append(q, x)[i] = q[i]
           /\ \A i \in DOMAIN Append(q, x) : i \in DOMAIN q \/ i = Len(q) + 1
OBVIOUS

LEMMA Tails ==
    ASSUME NEW S, NEW q \in Seq(S), q # <<>>
    PROVE  /\ Tail(q) \in Seq(S) /\ Len(q) \in Nat \ {0} /\ Len(Tail(q)) = Len(q) - 1
           /\ Head(q) = q[1] /\ Head(q) \in S /\ 1 \in DOMAIN q
           /\ \A k \in DOMAIN Tail(q) : k + 1 \in DOMAIN q /\ Tail(q)[k] = q[k + 1] /\ k \in Nat \ {0}
OBVIOUS

\* The digests of some lines.
Digests(lines) == {lines[i].digest : i \in DOMAIN lines}

-----------------------------------------------------------------------------
(* The resolver: what is known of a digest after some of the items *)

SetType == [primary : Nat, other : SUBSET Nat, by_invalid : SUBSET (Int \X Nat)]
OwnOf(I, d) == {i.metadata : i \in {x \in I : x.digest = d}}
OtherOf(I, pairs, d) ==
    {<<i.digest, i.metadata>> :
       i \in {x \in I : \E e \in pairs : e.actual = d /\ e.expected = x.digest}}

\* The earliest of the captures is the primary one, and the others are kept.
Chosen(set, captures) ==
    IF captures = {} THEN set.primary = NoCapture /\ set.other = {}
    ELSE /\ set.primary \in captures
         /\ \A m \in captures : set.primary <= m
         /\ set.other = captures \ {set.primary}

\* What done holds when the items of V were matched as valid and those of W as expected ones.
Matches(done, todo, pairs, V, W) ==
    /\ done \in [DOMAIN done -> SetType]
    /\ DOMAIN done = {d \in todo : OwnOf(V, d) # {} \/ OtherOf(W, pairs, d) # {}}
    /\ \A d \in DOMAIN done : /\ Chosen(done[d], OwnOf(V, d))
                              /\ done[d].by_invalid = OtherOf(W, pairs, d)

LEMMA CaptureIsAdded ==
    ASSUME NEW set \in SetType, NEW captures \in SUBSET (Nat \ {0}), NEW m \in Nat \ {0},
           Chosen(set, captures)
    PROVE  /\ AddValid(set, m) \in SetType
           /\ AddValid(set, m).by_invalid = set.by_invalid
           /\ Chosen(AddValid(set, m), captures \cup {m})
<1>1. CASE set.primary = NoCapture
  <2>1. captures = {}
      BY <1>1 DEF Chosen, NoCapture
  <2>2. AddValid(set, m) = [set EXCEPT !.primary = m]
    <3>1. set.primary # m
        BY <1>1 DEF NoCapture
    <3> QED BY <1>1, <3>1 DEF AddValid
  <2> QED BY <2>1, <2>2, <1>1 DEF Chosen, SetType
<1>2. CASE set.primary # NoCapture /\ set.primary = m
  <2>1. captures # {} /\ m \in captures
      BY <1>2 DEF Chosen
  <2>2. AddValid(set, m) = set
      BY <1>2 DEF AddValid
  <2>3. captures \cup {m} = captures
      BY <2>1
  <2> QED BY <2>2, <2>3
<1>3. CASE set.primary # NoCapture /\ set.primary < m
  <2>1. captures # {} /\ set.primary \in Nat
      BY <1>3 DEF Chosen, SetType
  <2>2. AddValid(set, m) = [set EXCEPT !.other = @ \cup {m}]
      BY <1>3, <2>1 DEF AddValid
  <2>3. (captures \ {set.primary}) \cup {m} = (captures \cup {m}) \ {set.primary}
      BY <1>3, <2>1
  <2> QED BY <2>1, <2>2, <2>3, <1>3 DEF Chosen, SetType
<1>4. CASE set.primary # NoCapture /\ m < set.primary
  <2>1. captures # {} /\ set.primary \in Nat /\ set.primary \in captures
      BY <1>4 DEF Chosen, SetType
  <2>2. AddValid(set, m) = [set EXCEPT !.primary = m, !.other = @ \cup {set.primary}]
      BY <1>4, <2>1 DEF AddValid
  <2>3. \A x \in captures : m < x
      BY <1>4, <2>1 DEF Chosen
  <2>4. (captures \ {set.primary}) \cup {set.primary} = (captures \cup {m}) \ {m}
      BY <2>1, <2>3
  <2>5. /\ AddValid(set, m).primary = m
        /\ AddValid(set, m).other = (captures \ {set.primary}) \cup {set.primary}
        /\ AddValid(set, m).by_invalid = set.by_invalid
        /\ AddValid(set, m) \in SetType
      BY <2>1, <2>2, ZenonT(30) DEF Chosen, SetType
  <2> QED BY <2>3, <2>4, <2>5 DEF Chosen
<1> QED BY <1>1, <1>2, <1>3, <1>4 DEF SetType

LEMMA OwnGrows ==
    ASSUME NEW V \in SUBSET CdxItem, NEW item \in CdxItem, NEW d
    PROVE  /\ OwnOf(V \cup {item}, d)
                = IF item.digest = d THEN OwnOf(V, d) \cup {item.metadata} ELSE OwnOf(V, d)
           /\ OwnOf(V, d) \in SUBSET (Nat \ {0})
BY DEF OwnOf, CdxItem, NoCapture

LEMMA ItemIsApplied ==
    ASSUME NEW done, NEW todo \in SUBSET (Nat \ {0}), NEW pairs, NEW V \in SUBSET CdxItem, NEW W,
           NEW item \in CdxItem, Matches(done, todo, pairs, V, W)
    PROVE  Matches(IF Valid(item.digest) /\ item.digest \in todo
                   THEN Put(done, item.digest, AddValid(Of(done, item.digest), item.metadata))
                   ELSE done, todo, pairs, V \cup {item}, W)
<1> DEFINE d == item.digest
           m == item.metadata
<1>1. m \in Nat \ {0}
    BY DEF CdxItem, NoCapture
<1>2. CASE ~ (Valid(d) /\ d \in todo)
  <2>1. d \notin todo
    <3>1. d \in todo => d \in Nat \ {0}
        OBVIOUS
    <3>2. d \in Nat \ {0} => d > 0
        OBVIOUS
    <3> QED BY <1>2, <3>1, <3>2 DEF Valid
  <2>2. \A x \in todo : OwnOf(V \cup {item}, x) = OwnOf(V, x)
      BY <2>1, OwnGrows
  <2> QED BY <1>2, <2>2 DEF Matches
<1>3. CASE Valid(d) /\ d \in todo
  <2> DEFINE set == AddValid(Of(done, d), m)
             new == Put(done, d, set)
  <2>1. /\ Of(done, d) \in SetType
        /\ Chosen(Of(done, d), OwnOf(V, d))
        /\ Of(done, d).by_invalid = OtherOf(W, pairs, d)
    <3>1. CASE d \in DOMAIN done
        BY <3>1 DEF Of, Matches
    <3>2. CASE d \notin DOMAIN done
      <4>1. OwnOf(V, d) = {} /\ OtherOf(W, pairs, d) = {}
          BY <1>3, <3>2 DEF Matches
      <4>2. Of(done, d) = [primary |-> 0, other |-> {}, by_invalid |-> {}]
          BY <3>2 DEF Of, NothingFound, NoCapture
      <4> QED BY <4>1, <4>2 DEF SetType, Chosen, NoCapture
    <3> QED BY <3>1, <3>2
  <2>2. /\ set \in SetType
        /\ set.by_invalid = OtherOf(W, pairs, d)
        /\ Chosen(set, OwnOf(V, d) \cup {m})
      BY <1>1, <2>1, CaptureIsAdded, OwnGrows
  <2> HIDE DEF set
  <2>3. /\ DOMAIN new = DOMAIN done \cup {d}
        /\ \A x \in DOMAIN new : new[x] = IF x = d THEN set ELSE done[x]
        /\ new = [x \in DOMAIN done \cup {d} |-> IF x = d THEN set ELSE done[x]]
      BY DEF Put
  <2>4. OwnOf(V \cup {item}, d) = OwnOf(V, d) \cup {m}
      BY OwnGrows
  <2>5. \A x \in todo : x # d => OwnOf(V \cup {item}, x) = OwnOf(V, x)
      BY OwnGrows
  <2>6. DOMAIN new = {x \in todo : OwnOf(V \cup {item}, x) # {} \/ OtherOf(W, pairs, x) # {}}
      BY <1>3, <2>3, <2>4, <2>5 DEF Matches
  <2>7. new \in [DOMAIN new -> SetType]
      BY <2>2, <2>3 DEF Matches
  <2> HIDE DEF new
  <2>8. \A x \in DOMAIN new : /\ Chosen(new[x], OwnOf(V \cup {item}, x))
                              /\ new[x].by_invalid = OtherOf(W, pairs, x)
    <3> TAKE x \in DOMAIN new
    <3>1. CASE x = d
        BY <3>1, <2>2, <2>3, <2>4
    <3>2. CASE x # d
      <4>1. x \in DOMAIN done /\ x \in todo
          BY <3>2, <2>3 DEF Matches
      <4> QED BY <3>2, <4>1, <2>3, <2>5 DEF Matches
    <3> QED BY <3>1, <3>2
  <2>9. Matches(new, todo, pairs, V \cup {item}, W)
      BY <2>6, <2>7, <2>8 DEF Matches
  <2> QED BY <1>3, <2>9 DEF new, set
<1> QED BY <1>2, <1>3

Tables == UNION {[D -> SetType] : D \in SUBSET Nat}
ResolverType ==
    [todo : SUBSET (Nat \ {0}), invalid : SUBSET [actual : Int, expected : Int \ {0}], done : Tables]

LEMMA TablesAreFunctions ==
    ASSUME NEW done
    PROVE  done \in Tables <=> DOMAIN done \in SUBSET Nat /\ done \in [DOMAIN done -> SetType]
BY DEF Tables

LEMMA AnyCaptureIsAdded ==
    ASSUME NEW done \in Tables, NEW d \in Nat, NEW m \in Nat
    PROVE  Put(done, d, AddValid(Of(done, d), m)) \in Tables
<1>1. Of(done, d) \in SetType
  <2>1. CASE d \in DOMAIN done
      BY <2>1, TablesAreFunctions DEF Of
  <2>2. CASE d \notin DOMAIN done
      BY <2>2 DEF Of, NothingFound, SetType, NoCapture
  <2> QED BY <2>1, <2>2
<1>2. PICK set : set = Of(done, d)
    OBVIOUS
<1>3. AddValid(set, m) \in SetType
  <2>1. CASE set.primary = NoCapture
      BY <2>1, <1>1, <1>2 DEF AddValid, SetType
  <2>2. CASE set.primary # NoCapture /\ set.primary = m
      BY <2>2, <1>1, <1>2 DEF AddValid, SetType
  <2>3. CASE set.primary # NoCapture /\ set.primary < m
      BY <2>3, <1>1, <1>2 DEF AddValid, SetType
  <2>4. CASE set.primary # NoCapture /\ m < set.primary
    <3>1. AddValid(set, m) = [set EXCEPT !.primary = m, !.other = @ \cup {set.primary}]
        BY <2>4, <1>1, <1>2 DEF AddValid, SetType
    <3>2. set.primary \in Nat /\ set.other \in SUBSET Nat /\ set.by_invalid \in SUBSET (Int \X Nat)
        BY <1>1, <1>2 DEF SetType
    <3>3. AddValid(set, m) = [primary |-> m, other |-> set.other \cup {set.primary},
                              by_invalid |-> set.by_invalid]
        BY <3>1, <1>1, <1>2 DEF SetType
    <3>4. set.other \cup {set.primary} \in SUBSET Nat
        BY <3>2
    <3> QED BY <3>2, <3>3, <3>4 DEF SetType
  <2> QED BY <2>1, <2>2, <2>3, <2>4, <1>1, <1>2 DEF SetType
<1> DEFINE new == Put(done, d, AddValid(Of(done, d), m))
<1>4. DOMAIN new = DOMAIN done \cup {d} /\ new \in [DOMAIN done \cup {d} -> SetType]
    BY <1>2, <1>3, TablesAreFunctions DEF Put
<1> HIDE DEF new
<1>5. DOMAIN new \in SUBSET Nat
    BY <1>4, TablesAreFunctions
<1>6. new \in Tables
    BY <1>4, <1>5, TablesAreFunctions
<1> QED BY <1>6 DEF new

LEMMA ValidSteps ==
    ASSUME NEW r \in ResolverType, NEW items \in Seq(CdxItem)
    PROVE  \E upTo \in [0 .. Len(items) -> Tables] :
             /\ ApplyValid(r, items) = [r EXCEPT !.done = upTo[Len(items)]]
             /\ upTo[0] = r.done
             /\ \A n \in 1 .. Len(items) : upTo[n] =
                  IF Valid(items[n].digest) /\ items[n].digest \in r.todo
                  THEN Put(upTo[n - 1], items[n].digest,
                           AddValid(Of(upTo[n - 1], items[n].digest), items[n].metadata))
                  ELSE upTo[n - 1]
<1> DEFINE N == Len(items)
           Body(done, n) == IF Valid(items[n].digest) /\ items[n].digest \in r.todo
                            THEN Put(done, items[n].digest,
                                     AddValid(Of(done, items[n].digest), items[n].metadata))
                            ELSE done
           G == [p \in Nat \X Tables |-> IF p[1] \in 1 .. N THEN Body(p[2], p[1]) ELSE p[2]]
<1>1. \A n \in 1 .. N, done \in Tables : Body(done, n) \in Tables
  <2> TAKE n \in 1 .. N, done \in Tables
  <2>1. items[n] \in CdxItem
      OBVIOUS
  <2>2. items[n].metadata \in Nat
      BY <2>1 DEF CdxItem
  <2>3. items[n].digest \in r.todo => items[n].digest \in Nat
      BY DEF ResolverType
  <2> QED BY <2>2, <2>3, AnyCaptureIsAdded
<1> HIDE DEF Body
<1>2. G \in [Nat \X Tables -> Tables]
    BY <1>1
<1>3. N \in Nat /\ r.done \in Tables
    BY DEF ResolverType
<1>4. \A n \in 1 .. N, done \in Tables : G[<<n, done>>] = Body(done, n)
    OBVIOUS
<1> HIDE DEF G, N
<1>5. PICK f \in [0 .. N -> Tables] : f[0] = r.done /\ Steps(f, G, N)
    BY <1>2, <1>3, StepsExist
<1>6. f = [n \in 0 .. N |-> IF n = 0 THEN r.done ELSE Body(f[n - 1], n)]
  <2>1. ASSUME NEW n \in 0 .. N
        PROVE  f[n] = IF n = 0 THEN r.done ELSE Body(f[n - 1], n)
    <3>1. CASE n = 0
        BY <3>1, <1>5
    <3>2. CASE n # 0
      <4>1. n \in 1 .. N /\ n - 1 \in 0 .. N
          BY <1>3, <3>2
      <4> QED BY <4>1, <3>2, <1>4, <1>5 DEF Steps
    <3> QED BY <3>1, <3>2
  <2> QED BY <2>1
<1> DEFINE upTo == CHOOSE g : g = [n \in 0 .. N |-> IF n = 0 THEN r.done ELSE Body(g[n - 1], n)]
<1>7. upTo = [n \in 0 .. N |-> IF n = 0 THEN r.done ELSE Body(upTo[n - 1], n)]
    BY <1>6
<1>8. ApplyValid(r, items) = [r EXCEPT !.done = upTo[N]]
    BY DEF ApplyValid, Body, N
<1> HIDE DEF upTo
<1>9. upTo[0] = r.done /\ \A n \in 1 .. N : upTo[n] = Body(upTo[n - 1], n)
    BY <1>3, <1>7
<1>10. \A n \in 0 .. N : upTo[n] \in Tables
  <2> DEFINE T == {n \in Nat : n <= N => upTo[n] \in Tables}
  <2>1. 0 \in T
      BY <1>3, <1>9
  <2>2. ASSUME NEW n \in Nat, n \in T PROVE n + 1 \in T
    <3> SUFFICES ASSUME n + 1 <= N PROVE upTo[n + 1] \in Tables
        OBVIOUS
    <3>1. upTo[n] \in Tables
        BY <2>2, <1>3
    <3>2. n + 1 \in 1 .. N /\ (n + 1) - 1 = n
        BY <1>3
    <3> QED BY <3>1, <3>2, <1>1, <1>9
  <2> HIDE DEF T
  <2>3. Nat \subseteq T
      BY <2>1, <2>2, NatFromZero
  <2> QED BY <2>3, <1>3 DEF T
<1>11. upTo \in [0 .. N -> Tables]
    BY <1>7, <1>10
<1> QED BY <1>8, <1>9, <1>11 DEF Body, N

\* The items of a file up to the n-th.
UpTo(items, n) == {items[k] : k \in 1 .. n}

LEMMA ValidIsApplied ==
    ASSUME NEW r \in ResolverType, NEW items \in Seq(CdxItem), NEW V \in SUBSET CdxItem, NEW W,
           Matches(r.done, r.todo, r.invalid, V, W)
    PROVE  /\ ApplyValid(r, items) \in ResolverType
           /\ ApplyValid(r, items).todo = r.todo
           /\ ApplyValid(r, items).invalid = r.invalid
           /\ Matches(ApplyValid(r, items).done, r.todo, r.invalid,
                      V \cup UpTo(items, Len(items)), W)
<1> DEFINE N == Len(items)
<1>1. PICK upTo \in [0 .. N -> Tables] :
             /\ ApplyValid(r, items) = [r EXCEPT !.done = upTo[N]]
             /\ upTo[0] = r.done
             /\ \A n \in 1 .. N : upTo[n] =
                  IF Valid(items[n].digest) /\ items[n].digest \in r.todo
                  THEN Put(upTo[n - 1], items[n].digest,
                           AddValid(Of(upTo[n - 1], items[n].digest), items[n].metadata))
                  ELSE upTo[n - 1]
    BY ValidSteps
<1>2. N \in Nat /\ \A n \in 1 .. N : items[n] \in CdxItem
    OBVIOUS
<1> HIDE DEF N
<1> DEFINE T == {n \in Nat : n <= N =>
                   Matches(upTo[n], r.todo, r.invalid, V \cup UpTo(items, n), W)}
<1>3. 0 \in T
  <2>1. UpTo(items, 0) = {}
      BY DEF UpTo
  <2>2. V \cup UpTo(items, 0) = V
      BY <2>1
  <2> QED BY <1>1, <2>2
<1>4. ASSUME NEW n \in Nat, n \in T PROVE n + 1 \in T
  <2> SUFFICES ASSUME n + 1 <= N
               PROVE  Matches(upTo[n + 1], r.todo, r.invalid, V \cup UpTo(items, n + 1), W)
      OBVIOUS
  <2>1. n + 1 \in 1 .. N /\ (n + 1) - 1 = n
      BY <1>2
  <2>2. Matches(upTo[n], r.todo, r.invalid, V \cup UpTo(items, n), W)
      BY <1>2, <1>4
  <2>3. V \cup UpTo(items, n) \in SUBSET CdxItem
      BY <1>2, <2>1 DEF UpTo
  <2>4. PICK k : k = n + 1
      OBVIOUS
  <2>5. items[k] \in CdxItem
      BY <1>2, <2>1, <2>4
  <2>6. (V \cup UpTo(items, n)) \cup {items[k]} = V \cup UpTo(items, n + 1)
    <3>1. 1 .. n + 1 = (1 .. n) \cup {n + 1}
        OBVIOUS
    <3>2. UpTo(items, n + 1) = UpTo(items, n) \cup {items[k]}
        BY <3>1, <2>4 DEF UpTo
    <3> QED BY <3>2
  <2>7. r.todo \in SUBSET (Nat \ {0})
      BY DEF ResolverType
  <2>8. upTo[k] = IF Valid(items[k].digest) /\ items[k].digest \in r.todo
                  THEN Put(upTo[n], items[k].digest,
                           AddValid(Of(upTo[n], items[k].digest), items[k].metadata))
                  ELSE upTo[n]
      BY <1>1, <2>1, <2>4
  <2>9. Matches(upTo[k], r.todo, r.invalid, (V \cup UpTo(items, n)) \cup {items[k]}, W)
    <3>1. Matches(IF Valid(items[k].digest) /\ items[k].digest \in r.todo
                  THEN Put(upTo[n], items[k].digest,
                           AddValid(Of(upTo[n], items[k].digest), items[k].metadata))
                  ELSE upTo[n], r.todo, r.invalid, (V \cup UpTo(items, n)) \cup {items[k]}, W)
        BY <2>2, <2>3, <2>5, <2>7, ItemIsApplied
    <3> QED BY <2>8, <3>1
  <2> QED BY <2>4, <2>6, <2>9
<1>5. Matches(upTo[N], r.todo, r.invalid, V \cup UpTo(items, N), W)
  <2> HIDE DEF T
  <2>1. Nat \subseteq T
      BY <1>3, <1>4, NatFromZero
  <2>2. N \in T /\ N <= N
      BY <1>2, <2>1
  <2> QED BY <2>2 DEF T
<1>6. upTo[N] \in Tables
    BY <1>1, <1>2
<1> QED BY <1>1, <1>5, <1>6 DEF ResolverType, N

LEMMA InvalidIsApplied ==
    ASSUME NEW r \in ResolverType, NEW items \in Seq(CdxItem), NEW V, NEW W \in SUBSET CdxItem,
           Matches(r.done, r.todo, r.invalid, V, W), \A e \in r.invalid : e.actual \in r.todo
    PROVE  /\ ApplyInvalid(r, items) \in ResolverType
           /\ ApplyInvalid(r, items).todo = r.todo
           /\ ApplyInvalid(r, items).invalid = r.invalid
           /\ Matches(ApplyInvalid(r, items).done, r.todo, r.invalid,
                      V, W \cup UpTo(items, Len(items)))
<1> DEFINE I == UpTo(items, Len(items))
           Found(d) == {<<items[n].digest, items[n].metadata>> :
                          n \in {k \in DOMAIN items : \E e \in r.invalid :
                                  e.actual = d /\ e.expected = items[k].digest}}
           reached == {d \in {e.actual : e \in r.invalid} : Found(d) # {}}
           new == [d \in DOMAIN r.done \cup reached |-> AddInvalid(Of(r.done, d), Found(d))]
<1>1. ApplyInvalid(r, items) = [r EXCEPT !.done = new]
    BY DEF ApplyInvalid
<1>2. \A d : Found(d) = OtherOf(I, r.invalid, d)
    BY DEF OtherOf, UpTo
<1>3. \A d : OtherOf(W \cup I, r.invalid, d) = OtherOf(W, r.invalid, d) \cup Found(d)
  <2>1. \A d : OtherOf(W \cup I, r.invalid, d)
                 = OtherOf(W, r.invalid, d) \cup OtherOf(I, r.invalid, d)
      BY DEF OtherOf
  <2> QED BY <1>2, <2>1
<1>4. \A d : Found(d) # {} => d \in reached /\ d \in r.todo
    OBVIOUS
<1>5. \A d : Found(d) \in SUBSET (Int \X Nat)
  <2>1. \A n \in DOMAIN items : items[n].digest \in Int /\ items[n].metadata \in Nat
    <3>1. \A n \in DOMAIN items : items[n] \in CdxItem
        OBVIOUS
    <3> QED BY <3>1 DEF CdxItem
  <2> QED BY <2>1
<1>6. reached \in SUBSET r.todo /\ r.todo \in SUBSET (Nat \ {0})
    BY DEF ResolverType
<1>7. \A d \in reached : Found(d) # {}
    OBVIOUS
<1> HIDE DEF Found, reached
<1>8. \A d \in DOMAIN r.done \cup reached :
        /\ Of(r.done, d) \in SetType
        /\ Chosen(Of(r.done, d), OwnOf(V, d))
        /\ Of(r.done, d).by_invalid = OtherOf(W, r.invalid, d)
  <2> TAKE d \in DOMAIN r.done \cup reached
  <2>1. CASE d \in DOMAIN r.done
      BY <2>1 DEF Of, Matches
  <2>2. CASE d \notin DOMAIN r.done
    <3>1. OwnOf(V, d) = {} /\ OtherOf(W, r.invalid, d) = {}
        BY <2>2, <1>6 DEF Matches
    <3>2. Of(r.done, d) = [primary |-> 0, other |-> {}, by_invalid |-> {}]
        BY <2>2 DEF Of, NothingFound, NoCapture
    <3> QED BY <3>1, <3>2 DEF SetType, Chosen, NoCapture
  <2> QED BY <2>1, <2>2
<1>9. \A d \in DOMAIN new :
        /\ new[d] \in SetType
        /\ Chosen(new[d], OwnOf(V, d))
        /\ new[d].by_invalid = OtherOf(W \cup I, r.invalid, d)
  <2> TAKE d \in DOMAIN new
  <2>1. PICK set : set = Of(r.done, d)
      OBVIOUS
  <2>2. new[d] = [set EXCEPT !.by_invalid = @ \cup Found(d)]
      BY <2>1 DEF AddInvalid
  <2>3. set \in SetType /\ Chosen(set, OwnOf(V, d)) /\ set.by_invalid = OtherOf(W, r.invalid, d)
      BY <1>8, <2>1
  <2>4. /\ new[d] \in SetType
        /\ new[d].by_invalid = set.by_invalid \cup Found(d)
        /\ new[d].primary = set.primary /\ new[d].other = set.other
      BY <2>2, <2>3, <1>5 DEF SetType
  <2> HIDE DEF new
  <2> QED BY <2>3, <2>4, <1>3 DEF Chosen
<1>10. DOMAIN new = {d \in r.todo : OwnOf(V, d) # {} \/ OtherOf(W \cup I, r.invalid, d) # {}}
  <2>1. DOMAIN new = DOMAIN r.done \cup reached
      OBVIOUS
  <2>2. DOMAIN r.done = {d \in r.todo : OwnOf(V, d) # {} \/ OtherOf(W, r.invalid, d) # {}}
      BY DEF Matches
  <2> HIDE DEF new
  <2>3. \A d \in DOMAIN new : d \in r.todo /\ (OwnOf(V, d) # {} \/ OtherOf(W \cup I, r.invalid, d) # {})
    <3> TAKE d \in DOMAIN new
    <3>1. CASE d \in DOMAIN r.done
        BY <3>1, <2>2, <1>3
    <3>2. CASE d \in reached
        BY <3>2, <1>3, <1>6, <1>7
    <3> QED BY <3>1, <3>2, <2>1
  <2>4. ASSUME NEW d \in r.todo, OwnOf(V, d) # {} \/ OtherOf(W \cup I, r.invalid, d) # {}
        PROVE  d \in DOMAIN new
    <3>1. CASE OwnOf(V, d) # {} \/ OtherOf(W, r.invalid, d) # {}
        BY <3>1, <2>1, <2>2
    <3>2. CASE Found(d) # {}
        BY <3>2, <1>4, <2>1
    <3> QED BY <3>1, <3>2, <2>4, <1>3
  <2> QED BY <2>3, <2>4
<1>11. new = [d \in DOMAIN new |-> new[d]]
    OBVIOUS
<1> HIDE DEF new, I
<1>12. new \in [DOMAIN new -> SetType]
    BY <1>9, <1>11
<1>13. Matches(new, r.todo, r.invalid, V, W \cup I)
    BY <1>9, <1>10, <1>12 DEF Matches
<1>14. new \in Tables
    BY <1>6, <1>10, <1>12, TablesAreFunctions
<1> QED BY <1>1, <1>13, <1>14 DEF ResolverType, I

LEMMA FileIsApplied ==
    ASSUME NEW r \in ResolverType, NEW items \in Seq(CdxItem), NEW V \in SUBSET CdxItem,
           Matches(r.done, r.todo, r.invalid, V, V), \A e \in r.invalid : e.actual \in r.todo
    PROVE  /\ ApplyFile(r, items) \in ResolverType
           /\ ApplyFile(r, items).todo = r.todo
           /\ ApplyFile(r, items).invalid = r.invalid
           /\ Matches(ApplyFile(r, items).done, r.todo, r.invalid,
                      V \cup UpTo(items, Len(items)), V \cup UpTo(items, Len(items)))
<1>1. PICK s : s = ApplyValid(r, items)
    OBVIOUS
<1>2. /\ s \in ResolverType /\ s.todo = r.todo /\ s.invalid = r.invalid
      /\ Matches(s.done, s.todo, s.invalid, V \cup UpTo(items, Len(items)), V)
    BY <1>1, ValidIsApplied
<1>3. /\ ApplyInvalid(s, items) \in ResolverType
      /\ ApplyInvalid(s, items).todo = s.todo
      /\ ApplyInvalid(s, items).invalid = s.invalid
      /\ Matches(ApplyInvalid(s, items).done, s.todo, s.invalid,
                 V \cup UpTo(items, Len(items)), V \cup UpTo(items, Len(items)))
    BY <1>2, InvalidIsApplied
<1> QED BY <1>1, <1>2, <1>3 DEF ApplyFile

\* The items of the files up to the n-th.
ItemsUpTo(files, n) == UNION {UpTo(files[i], Len(files[i])) : i \in 1 .. n}

LEMMA ChunkIsApplied ==
    ASSUME NEW r \in ResolverType, NEW files \in Seq(Seq(CdxItem)), NEW V \in SUBSET CdxItem,
           Matches(r.done, r.todo, r.invalid, V, V), \A e \in r.invalid : e.actual \in r.todo
    PROVE  /\ ApplyChunk(r, files) \in ResolverType
           /\ ApplyChunk(r, files).todo = r.todo
           /\ ApplyChunk(r, files).invalid = r.invalid
           /\ Matches(ApplyChunk(r, files).done, r.todo, r.invalid,
                      V \cup ItemsUpTo(files, Len(files)), V \cup ItemsUpTo(files, Len(files)))
<1> DEFINE N == Len(files)
           S == {x \in ResolverType : /\ x.todo = r.todo /\ x.invalid = r.invalid
                                      /\ \E I \in SUBSET CdxItem :
                                           Matches(x.done, x.todo, x.invalid, I, I)}
           G == [p \in Nat \X S |-> IF p[1] \in 1 .. N THEN ApplyFile(p[2], files[p[1]]) ELSE p[2]]
<1>1. N \in Nat /\ \A n \in 1 .. N : files[n] \in Seq(CdxItem)
    OBVIOUS
<1>2. UpToFirstUnread(files) = files
  <2>1. ASSUME NEW i \in DOMAIN files, files[i] = Unread PROVE FALSE
    <3>4. files[i] \in Seq(CdxItem)
        OBVIOUS
    <3>1. files[i] \in Seq(CdxItem) /\ files[i] = <<NoItems>>
        BY <2>1, <3>4 DEF Unread
    <3>2. Len(files[i]) = 1 /\ files[i][1] = NoItems
        BY <3>1
    <3>3. NoItems \in CdxItem
        BY <3>1, <3>2
    <3> QED BY <3>3 DEF NoItems, CdxItem
  <2> QED BY <2>1 DEF UpToFirstUnread
<1> HIDE DEF N
<1>3. ASSUME NEW x \in S, NEW n \in 1 .. N, NEW I \in SUBSET CdxItem,
             Matches(x.done, r.todo, r.invalid, I, I)
      PROVE  /\ ApplyFile(x, files[n]) \in S
             /\ I \cup UpTo(files[n], Len(files[n])) \in SUBSET CdxItem
             /\ Matches(ApplyFile(x, files[n]).done, r.todo, r.invalid,
                        I \cup UpTo(files[n], Len(files[n])), I \cup UpTo(files[n], Len(files[n])))
  <2>1. PICK items \in Seq(CdxItem) : items = files[n]
      BY <1>1
  <2>2. x \in ResolverType /\ x.todo = r.todo /\ x.invalid = r.invalid
      OBVIOUS
  <2>3. /\ ApplyFile(x, items) \in ResolverType
        /\ ApplyFile(x, items).todo = x.todo
        /\ ApplyFile(x, items).invalid = x.invalid
        /\ Matches(ApplyFile(x, items).done, x.todo, x.invalid,
                   I \cup UpTo(items, Len(items)), I \cup UpTo(items, Len(items)))
      BY <1>3, <2>2, FileIsApplied
  <2>4. I \cup UpTo(items, Len(items)) \in SUBSET CdxItem
      BY DEF UpTo
  <2> QED BY <2>1, <2>2, <2>3, <2>4
<1>4. G \in [Nat \X S -> S]
  <2>1. \A n \in 1 .. N, x \in S : ApplyFile(x, files[n]) \in S
    <3> TAKE n \in 1 .. N, x \in S
    <3>1. PICK I \in SUBSET CdxItem : Matches(x.done, r.todo, r.invalid, I, I)
        OBVIOUS
    <3> QED BY <3>1, <1>3
  <2> HIDE DEF S
  <2> QED BY <2>1
<1>5. r \in S
    OBVIOUS
<1>6. \A n \in 1 .. N, x \in S : G[<<n, x>>] = ApplyFile(x, files[n])
    BY <1>1
<1> HIDE DEF G, S
<1>7. PICK f \in [0 .. N -> S] : f[0] = r /\ Steps(f, G, N)
    BY <1>1, <1>4, <1>5, StepsExist
<1>8. f = [n \in 0 .. N |-> IF n = 0 THEN r ELSE ApplyFile(f[n - 1], files[n])]
  <2>1. ASSUME NEW n \in 0 .. N
        PROVE  f[n] = IF n = 0 THEN r ELSE ApplyFile(f[n - 1], files[n])
    <3>1. CASE n = 0
        BY <3>1, <1>7
    <3>2. CASE n # 0
      <4>1. n \in 1 .. N /\ n - 1 \in 0 .. N
          BY <1>1, <3>2
      <4> QED BY <4>1, <3>2, <1>6, <1>7 DEF Steps
    <3> QED BY <3>1, <3>2
  <2> QED BY <2>1
<1> DEFINE upTo == CHOOSE g : g = [n \in 0 .. N |-> IF n = 0 THEN r ELSE ApplyFile(g[n - 1], files[n])]
<1>9. upTo = [n \in 0 .. N |-> IF n = 0 THEN r ELSE ApplyFile(upTo[n - 1], files[n])]
    BY <1>8
<1>10. ApplyChunk(r, files) = upTo[N]
    BY <1>2 DEF ApplyChunk, N
<1> HIDE DEF upTo
<1> DEFINE T == {n \in Nat : n <= N => /\ upTo[n] \in S
                                       /\ V \cup ItemsUpTo(files, n) \in SUBSET CdxItem
                                       /\ Matches(upTo[n].done, r.todo, r.invalid,
                                            V \cup ItemsUpTo(files, n), V \cup ItemsUpTo(files, n))}
<1>11. 0 \in T
  <2>1. ItemsUpTo(files, 0) = {}
      BY DEF ItemsUpTo
  <2>2. V \cup ItemsUpTo(files, 0) = V /\ upTo[0] = r
      BY <1>1, <1>9, <2>1
  <2> QED BY <1>5, <2>2
<1>12. ASSUME NEW n \in Nat, n \in T PROVE n + 1 \in T
  <2>1. PICK k : k = n + 1
      OBVIOUS
  <2> SUFFICES ASSUME k <= N
               PROVE  /\ upTo[k] \in S
                      /\ V \cup ItemsUpTo(files, k) \in SUBSET CdxItem
                      /\ Matches(upTo[k].done, r.todo, r.invalid,
                                 V \cup ItemsUpTo(files, k), V \cup ItemsUpTo(files, k))
      BY <2>1
  <2>2. k \in 1 .. N /\ k - 1 = n /\ k # 0
      BY <1>1, <2>1
  <2>7. n <= N /\ V \cup ItemsUpTo(files, n) \in SUBSET CdxItem
      BY <1>12, <2>2, <1>1, <2>1
  <2>3. PICK I \in SUBSET CdxItem : I = V \cup ItemsUpTo(files, n)
    <3> HIDE DEF T
    <3> QED BY <2>7
  <2>4. upTo[n] \in S /\ Matches(upTo[n].done, r.todo, r.invalid, I, I)
      BY <1>12, <2>2, <1>1, <2>1, <2>3
  <2>5. upTo[k] = ApplyFile(upTo[n], files[k])
      BY <1>1, <1>9, <2>2
  <2>6. I \cup UpTo(files[k], Len(files[k])) = V \cup ItemsUpTo(files, k)
    <3>1. 1 .. k = (1 .. n) \cup {k}
        BY <2>1
    <3>2. ItemsUpTo(files, k) = ItemsUpTo(files, n) \cup UpTo(files[k], Len(files[k]))
        BY <3>1 DEF ItemsUpTo
    <3> QED BY <2>3, <3>2
  <2> QED BY <1>3, <2>2, <2>4, <2>5, <2>6
<1>13. N \in T
  <2> HIDE DEF T
  <2> QED BY <1>1, <1>11, <1>12, NatFromZero
<1>14. /\ upTo[N] \in ResolverType /\ upTo[N].todo = r.todo /\ upTo[N].invalid = r.invalid
       /\ Matches(upTo[N].done, r.todo, r.invalid,
                  V \cup ItemsUpTo(files, N), V \cup ItemsUpTo(files, N))
    BY <1>1, <1>13 DEF S
<1> QED BY <1>10, <1>14 DEF N

-----------------------------------------------------------------------------
(* The inductive invariant of a compaction *)

CompactLine == [digest : Nat \ {0}, metadata : Nat, expected : Int]
Tally == [resolved_count : Nat, unresolved : Seq(Nat), expected_digest_count : Nat,
          skipped : [SkipReasons -> Seq(Nat)], warnings : Seq(Nat)]
InLoop == at \in {"prepare", "write"}
BeforeLoop == at \in {"create", "load", "log", "resolve"}

CompactTypes ==
    /\ CompactTypeOK
    /\ position # 0
    /\ skipUnresolved \in BOOLEAN
    /\ directories \in DataDirectories
    /\ cdxFiles \in CdxFileLists
    /\ invalidLog \in InvalidLogs
    /\ writers \in Seq(WriterType(CompactLine))
    /\ tally \in Tally
    /\ prepared \in Seq(Nat)

\* The resolver has matched the files that were read, for the files that are there.
WantedPairs == {e \in invalidLog : e.actual \in Held}
FilesRead == IF at = "resolve" /\ position <= Len(cdxFiles) THEN position - 1 ELSE Len(cdxFiles)
ResolverIsComplete ==
    /\ at \in {"create", "load"} \/ job = "pack" => resolver = NewResolver
    /\ job = "compact" /\ at = "log" => resolver = LoadDigests(NewResolver, Held)
    /\ job = "compact" /\ (at \in {"resolve", "finish"} \/ InLoop) =>
         /\ resolver \in ResolverType
         /\ resolver.todo = Held
         /\ resolver.invalid = WantedPairs
         /\ \A i \in 1 .. FilesRead : cdxFiles[i] \in Seq(CdxItem)
         /\ Matches(resolver.done, Held, WantedPairs,
                    ItemsUpTo(cdxFiles, FilesRead), ItemsUpTo(cdxFiles, FilesRead))

\* The writers are opened one after another and finished one after another.
WritersAreInStep ==
    /\ at = "create" => Len(writers) = position - 1 /\ position <= Outputs
    /\ at = "load" \/ InLoop \/ at = "finish" => Len(writers) = Outputs
    /\ BeforeLoop => \A w \in DOMAIN writers : writers[w] = NewWriter
    /\ BeforeLoop \/ InLoop => /\ jobError = NoError /\ jobResult = NoError
                               /\ \A w \in DOMAIN writers : writers[w].output = "open"
    /\ job = "compact" /\ at \in {"log", "resolve"} => Len(writers) = Outputs
    /\ job = "pack" => at # "resolve" /\ (at = "log" => writers = <<>>)
    /\ at = "finish" =>
         /\ jobResult = NoError
         /\ position <= Outputs
         /\ \A w \in DOMAIN writers : writers[w].output = "open" <=> w >= position
    /\ OutputsAreFinished

\* What the loop has gone past, in the order of the files, is what the writers were given.
Past(d) ==
    \/ InLoop /\ \E i \in DOMAIN Files : i < position /\ Files[i] = d
    \/ at = "finish" /\ jobError = NoError /\ d \in Held
    \/ at = "done" /\ jobResult = NoError /\ d \in Held
Accounted(d) ==
    LET skip == Skipped(d)
    IN  IF skip # Unskipped
        THEN /\ \E i \in DOMAIN tally.skipped[skip] : tally.skipped[skip][i] = d
             /\ \A w \in DOMAIN writers : d \notin LinesOf(w)
        ELSE /\ IsWanted(d) => d \in LinesOf(Index(d))
             /\ ~ IsWanted(d) => \E i \in DOMAIN tally.unresolved : tally.unresolved[i] = d
             /\ \A w \in DOMAIN writers \ {Index(d)} : d \notin LinesOf(w)
LinesAscend ==
    \A w \in DOMAIN writers : \A i, j \in DOMAIN writers[w].lines :
      i < j => writers[w].lines[i].digest < writers[w].lines[j].digest
ChunkIsNext ==
    /\ at = "prepare" => prepared = <<>> /\ position <= Len(Files) + 1
    /\ at = "write" =>
         /\ position + Len(prepared) <= Len(Files) + 1
         /\ \A k \in DOMAIN prepared : prepared[k] = Files[position + k - 1]
    /\ InLoop => \A w \in DOMAIN writers :
         /\ \A d \in LinesOf(w) : Past(d)
         /\ writers[w].last_written =
              LET lines == writers[w].lines
              IN  IF lines = <<>> THEN NoDigest ELSE lines[Len(lines)].digest

CompactInv ==
    /\ CompactTypes
    /\ ResolverIsComplete
    /\ WritersAreInStep
    /\ \A d \in Held : Past(d) => Accounted(d)
    /\ LinesAscend
    /\ ChunkIsNext
    /\ BeforeLoop => prepared = <<>>

-----------------------------------------------------------------------------
(* The files *)

HeldIsFinite == IsFiniteSet(Held) /\ Held \in SUBSET (Nat \ {0})
FilesAreListed ==
    /\ Files \in Seq(Held)
    /\ NumbersAscend(Files)
    /\ \A d \in Held : \E i \in DOMAIN Files : Files[i] = d

LEMMA HeldFacts == CompactTypes => HeldIsFinite
<1> SUFFICES ASSUME CompactTypes PROVE HeldIsFinite
    OBVIOUS
<1>1. /\ directories \in Seq({directories[i] : i \in DOMAIN directories})
      /\ \A i \in DOMAIN directories : Named(directories[i])
    BY CompactionAssumption DEF CompactTypes
<1>2. Held \in SUBSET (Nat \ {0})
    BY <1>1 DEF Held, Named
<1> DEFINE D == DOMAIN directories
           f == [i \in D |-> DOMAIN directories[i]]
           R == {DOMAIN directories[i] : i \in D}
<1>3. IsFiniteSet(D)
  <2>1. D = 1 .. Len(directories) /\ Len(directories) \in Nat
      BY <1>1
  <2> QED BY <2>1, FS_Interval
<1>4. f \in Surjection(D, R)
    BY DEF Surjection
<1>5. IsFiniteSet(R)
  <2> HIDE DEF f, R, D
  <2> QED BY <1>3, <1>4, FS_Surjection
<1>6. IsFiniteSet(UNION R)
    BY <1>1, <1>5, FS_UNION DEF Named
<1> QED BY <1>2, <1>6 DEF HeldIsFinite, Held

LEMMA FilesFacts == CompactTypes => FilesAreListed
<1> SUFFICES ASSUME CompactTypes PROVE FilesAreListed
    OBVIOUS
<1>1. IsFiniteSet(Held) /\ Held \in SUBSET Nat
    BY HeldFacts DEF HeldIsFinite
<1> DEFINE N == Cardinality(Held)
<1>2. N \in Nat
    BY <1>1, FS_CardinalityType
<1>3. \E s \in [1 .. N -> Held] : NumbersAscend(s)
    BY <1>1, FiniteIsListed
<1>4. Files \in [1 .. N -> Held] /\ NumbersAscend(Files)
  <2>1. Files = CHOOSE s \in [1 .. N -> Held] : NumbersAscend(s)
      BY DEF Files, NumbersAscend
  <2> HIDE DEF N
  <2> QED BY <1>3, <2>1
<1> HIDE DEF N
<1>5. Files \in Seq(Held) /\ DOMAIN Files = 1 .. N
    BY <1>2, <1>4
<1>6. Files \in Injection(1 .. N, Held)
  <2>1. \A i, j \in 1 .. N : Files[i] = Files[j] => i = j
    <3> TAKE i \in 1 .. N, j \in 1 .. N
    <3>1. Files[i] \in Nat /\ Files[j] \in Nat
        BY <1>1, <1>4
    <3>2. i < j => Files[i] < Files[j]
        BY <1>4, <1>5 DEF NumbersAscend
    <3>3. j < i => Files[j] < Files[i]
        BY <1>4, <1>5 DEF NumbersAscend
    <3> QED BY <1>2, <3>1, <3>2, <3>3
  <2> QED BY <1>4, <2>1 DEF Injection, IsInjective
<1>7. Files \in Surjection(1 .. N, Held)
  <2>1. IsFiniteSet(1 .. N) /\ Cardinality(1 .. N) = N
      BY <1>2, FS_Interval
  <2> QED BY <1>1, <1>6, <2>1, FS_Injection DEF N
<1> QED BY <1>4, <1>5, <1>7 DEF FilesAreListed, Surjection

FilesAreSorted ==
    \A d \in Held :
      /\ Skipped(d) \in SkipReasons \cup {Unskipped}
      /\ Skipped(d) = Unskipped => Index(d) \in 1 .. Outputs
LEMMA SortingFacts == CompactTypes => FilesAreSorted
<1> SUFFICES ASSUME CompactTypes, NEW d \in Held
             PROVE  /\ Skipped(d) \in SkipReasons \cup {Unskipped}
                    /\ Skipped(d) = Unskipped => Index(d) \in 1 .. Outputs
    BY DEF FilesAreSorted
<1>1. Skipped(d) \in SkipReasons \cup {Unskipped}
    BY DEF Skipped, SkipReasons
<1>2. PartitionKeys \in Seq({PartitionKeys[i] : i \in DOMAIN PartitionKeys})
    BY CompactionAssumption
<1>3. ASSUME Skipped(d) = Unskipped PROVE Index(d) \in 1 .. Outputs
  <2>1. CASE job = "pack"
      BY <2>1 DEF Index, Outputs
  <2>2. CASE job # "pack"
    <3>1. job = "compact"
        BY <2>2 DEF CompactTypes, CompactTypeOK
    <3>2. Content(d) \notin SkipReasons
        BY <1>3 DEF Skipped, Unskipped, SkipReasons
    <3>3. \E i \in DOMAIN PartitionKeys : PartitionKeys[i] = Content(d)
        BY <1>3, <3>1, <3>2 DEF Skipped, Unskipped
    <3>4. Index(d) \in DOMAIN PartitionKeys
        BY <3>1, <3>3 DEF Index
    <3> QED BY <1>2, <3>1, <3>4 DEF Outputs
  <2> QED BY <2>1, <2>2
<1> QED BY <1>1, <1>3

\* Nothing that the inputs decide changes.
LEMMA InputsDecide ==
    ASSUME UNCHANGED inputs
    PROVE  /\ job' = job /\ skipUnresolved' = skipUnresolved /\ directories' = directories
           /\ cdxFiles' = cdxFiles /\ invalidLog' = invalidLog
           /\ Held' = Held /\ Files' = Files /\ Outputs' = Outputs /\ WantedPairs' = WantedPairs
           /\ \A d : Skipped(d)' = Skipped(d) /\ Index(d)' = Index(d)
<1>1. /\ job' = job /\ skipUnresolved' = skipUnresolved /\ directories' = directories
      /\ cdxFiles' = cdxFiles /\ invalidLog' = invalidLog
    BY DEF inputs
<1>2. Held' = Held
    BY <1>1 DEF Held
<1>3. Files' = Files
    BY <1>2 DEF Files
<1>4. Outputs' = Outputs
    BY <1>1 DEF Outputs
<1>5. WantedPairs' = WantedPairs
    BY <1>1, <1>2 DEF WantedPairs
<1>6. \A d : Content(d)' = Content(d)
    BY <1>1 DEF Content, PathOf
<1>7. \A d : Skipped(d)' = Skipped(d) /\ Index(d)' = Index(d)
  <2> TAKE d
  <2>1. Content(d)' = Content(d)
      BY <1>6
  <2>2. Skipped(d)' = Skipped(d)
      BY <1>1, <2>1 DEF Skipped
  <2>3. Index(d)' = Index(d)
      BY <1>1, <2>1 DEF Index
  <2> QED BY <2>2, <2>3
<1> QED BY <1>1, <1>2, <1>3, <1>4, <1>5, <1>7

-----------------------------------------------------------------------------
(* What a lookup finds *)

LEMMA ResolutionFacts ==
    ASSUME NEW set \in SetType, NEW own \in SUBSET (Nat \ {0}), NEW under, Chosen(set, own),
           set.by_invalid = under, own # {} \/ under # {}, IsFiniteSet({p[1] : p \in under}),
           NEW r, r = ToResolution(set)
    PROVE  /\ r.metadata \in Nat /\ r.expected \in Int
           /\ own # {} => /\ r.metadata \in own /\ \A m \in own : r.metadata <= m
                          /\ r.expected = 0
                          /\ r.extra_valid = own \ {r.metadata}
                          /\ r.extra_invalid = under
           /\ own = {} => /\ <<r.expected, r.metadata>> \in under
                          /\ \A p \in under : r.metadata <= p[2]
                          /\ r.extra_invalid = under \ {<<r.expected, r.metadata>>}
<1>0. under \in SUBSET (Int \X Nat)
    BY DEF SetType
<1>1. CASE own # {}
  <2>1. set.primary \in own /\ set.primary # NoCapture
      BY <1>1 DEF Chosen, NoCapture
  <2>2. r = [metadata |-> set.primary, expected |-> 0,
             extra_valid |-> set.other, extra_invalid |-> set.by_invalid]
      BY <2>1 DEF ToResolution
  <2>3. /\ r.metadata = set.primary /\ r.expected = 0
        /\ r.extra_valid = set.other /\ r.extra_invalid = set.by_invalid
      BY ONLY <2>2
  <2>4. set.other = own \ {set.primary} /\ \A m \in own : set.primary <= m
      BY <1>1 DEF Chosen
  <2>5. r.metadata \in Nat /\ r.expected \in Int
    <3>1. \A m \in own : m \in Nat
        OBVIOUS
    <3>2. set.primary \in Nat
        BY <2>1, <3>1, Zenon
    <3> QED BY <2>3, <3>2
  <2> QED BY <1>1, <2>1, <2>3, <2>4, <2>5
<1>2. CASE own = {}
  <2>1. set.primary = NoCapture
      BY <1>2 DEF Chosen
  <2> DEFINE Times == {p[2] : p \in under}
             m == Least(Times)
             Firsts == {p[1] : p \in {q \in under : q[2] = m}}
             e == Least(Firsts)
  <2>2. r = [metadata |-> m, expected |-> e,
             extra_valid |-> {}, extra_invalid |-> under \ {<<e, m>>}]
      BY <2>1 DEF ToResolution
  <2>3. Times \in SUBSET Nat /\ Times # {}
      BY <1>0, <1>2
  <2>4. m \in Times /\ \A x \in Times : m <= x
    <3> HIDE DEF Times
    <3>1. \E k \in Times : \A x \in Times : k <= x
        BY <2>3, NatHasLeast
    <3> QED BY <3>1 DEF Least
  <2> HIDE DEF m
  <2>5. Firsts \in SUBSET Int /\ Firsts # {}
      BY <1>0, <2>4
  <2>6. Firsts \in SUBSET {p[1] : p \in under}
      OBVIOUS
  <2>7. IsFiniteSet(Firsts)
    <3> HIDE DEF Firsts
    <3> QED BY <2>6, FS_Subset
  <2>8. e \in Firsts
    <3> HIDE DEF Firsts
    <3>1. \E k \in Firsts : \A x \in Firsts : k <= x
        BY <2>5, <2>7, FiniteHasEnds
    <3> QED BY <3>1 DEF Least
  <2> HIDE DEF e
  <2>9. PICK p \in under : p[2] = m /\ p[1] = e
      BY <2>8
  <2>10. p = <<e, m>>
      BY <1>0, <2>9
  <2>11. m \in Nat /\ e \in Int /\ <<e, m>> \in under
      BY <1>0, <2>9, <2>10
  <2>12. \A q \in under : m <= q[2]
      BY <2>4
  <2> QED BY <1>2, <2>2, <2>11, <2>12
<1> QED BY <1>1, <1>2

\* Everything that the files recorded.
AllItems == ItemsUpTo(cdxFiles, Len(cdxFiles))
Searched == job = "compact" /\ (InLoop \/ at = "finish")

LEMMA FilesAreRead ==
    ASSUME CompactTypes, ResolverIsComplete, Searched
    PROVE  /\ FilesRead = Len(cdxFiles)
           /\ AllItems \in SUBSET CdxItem
           /\ cdxFiles \in Seq(Seq(CdxItem))
           /\ Matches(resolver.done, Held, WantedPairs, AllItems, AllItems)
<1>1. cdxFiles \in Seq(Seq(CdxItem) \cup {Unread})
    BY CompactionAssumption DEF CompactTypes
<1>2. FilesRead = Len(cdxFiles)
    BY DEF FilesRead, Searched, InLoop
<1>3. \A i \in 1 .. Len(cdxFiles) : cdxFiles[i] \in Seq(CdxItem)
    BY <1>2 DEF ResolverIsComplete, Searched
<1>4. cdxFiles \in Seq(Seq(CdxItem))
    BY <1>1, <1>3
<1>5. AllItems \in SUBSET CdxItem
    BY <1>3 DEF AllItems, ItemsUpTo, UpTo
<1> QED BY <1>2, <1>4, <1>5 DEF ResolverIsComplete, Searched, AllItems

LEMMA LookupFacts ==
    ASSUME CompactTypes, ResolverIsComplete, Searched, NEW d \in Resolved(resolver),
           NEW r, r = Lookup(resolver, d)
    PROVE  LET own == OwnOf(AllItems, d)
               under == OtherOf(AllItems, WantedPairs, d)
           IN  /\ r.metadata \in Nat /\ r.expected \in Int
               /\ own # {} => /\ r.metadata \in own /\ \A m \in own : r.metadata <= m
                              /\ r.expected = 0
                              /\ r.extra_valid = own \ {r.metadata}
                              /\ r.extra_invalid = under
               /\ own = {} => /\ <<r.expected, r.metadata>> \in under
                              /\ \A p \in under : r.metadata <= p[2]
                              /\ r.extra_invalid = under \ {<<r.expected, r.metadata>>}
<1>1. AllItems \in SUBSET CdxItem /\ Matches(resolver.done, Held, WantedPairs, AllItems, AllItems)
    BY FilesAreRead
<1>2. PICK set : set = resolver.done[d]
    OBVIOUS
<1>3. PICK own : own = OwnOf(AllItems, d)
    OBVIOUS
<1>4. PICK under : under = OtherOf(AllItems, WantedPairs, d)
    OBVIOUS
<1>5. /\ set \in SetType /\ Chosen(set, own) /\ set.by_invalid = under
      /\ own # {} \/ under # {}
    BY <1>1, <1>2, <1>3, <1>4 DEF Resolved, Matches
<1>6. own \in SUBSET (Nat \ {0})
    BY <1>1, <1>3 DEF OwnOf, CdxItem, NoCapture
<1>7. r = ToResolution(set)
    BY <1>2 DEF Lookup
<1> DEFINE f == [e \in WantedPairs |-> e.expected]
           R == {e.expected : e \in WantedPairs}
<1>8. IsFiniteSet(WantedPairs)
  <2>1. IsFiniteSet(invalidLog) /\ WantedPairs \in SUBSET invalidLog
      BY CompactionAssumption DEF CompactTypes, WantedPairs
  <2> QED BY <2>1, FS_Subset
<1>9. IsFiniteSet(R)
  <2>1. f \in Surjection(WantedPairs, R)
      BY DEF Surjection
  <2> HIDE DEF f, R
  <2> QED BY <1>8, <2>1, FS_Surjection
<1>10. {p[1] : p \in under} \in SUBSET R
  <2>1. \A p \in under : \E i \in AllItems, e \in WantedPairs :
          p = <<i.digest, i.metadata>> /\ e.expected = i.digest
      BY <1>4 DEF OtherOf
  <2> QED BY <2>1
<1>11. IsFiniteSet({p[1] : p \in under})
  <2> HIDE DEF R
  <2> QED BY <1>9, <1>10, FS_Subset
<1>12. /\ r.metadata \in Nat /\ r.expected \in Int
       /\ own # {} => /\ r.metadata \in own /\ \A m \in own : r.metadata <= m
                      /\ r.expected = 0
                      /\ r.extra_valid = own \ {r.metadata}
                      /\ r.extra_invalid = under
       /\ own = {} => /\ <<r.expected, r.metadata>> \in under
                      /\ \A p \in under : r.metadata <= p[2]
                      /\ r.extra_invalid = under \ {<<r.expected, r.metadata>>}
    BY <1>5, <1>6, <1>7, <1>11, ResolutionFacts
<1> QED BY <1>3, <1>4, <1>12

\* What is written for a file is a line with its digest.
LEMMA SnapshotFacts ==
    ASSUME CompactTypes, ResolverIsComplete, InLoop, NEW d \in Held
    PROVE  \A s \in Snapshots(d) : s \in CompactLine /\ s.digest = d
<1>1. d \in Nat \ {0}
    BY HeldFacts DEF HeldIsFinite
<1>2. CASE job = "pack"
  <2>1. invalidLog \subseteq [actual : Int, expected : Int \ {0}]
      BY CompactionAssumption DEF CompactTypes
  <2>2. ExpectedOf(d) \in SUBSET Int
      BY <2>1 DEF ExpectedOf
  <2>3. Snapshots(d) = {[digest |-> d, metadata |-> NoCapture, expected |-> e] : e \in ExpectedOf(d)}
      BY <1>2 DEF Snapshots
  <2> QED BY <1>1, <2>2, <2>3 DEF CompactLine, NoCapture
<1>3. CASE job # "pack" /\ d \in Resolved(resolver)
  <2>1. Searched
      BY <1>3 DEF Searched, CompactTypes, CompactTypeOK
  <2>2. PICK r : r = Lookup(resolver, d)
      OBVIOUS
  <2>3. r.metadata \in Nat /\ r.expected \in Int
      BY <1>3, <2>1, <2>2, LookupFacts
  <2>4. Snapshots(d) = {[digest |-> d, metadata |-> r.metadata, expected |-> r.expected]}
      BY <1>3, <2>2 DEF Snapshots
  <2> QED BY <1>1, <2>3, <2>4 DEF CompactLine
<1>4. CASE job # "pack" /\ d \notin Resolved(resolver)
  <2>1. Snapshots(d) = {[digest |-> d, metadata |-> NoCapture, expected |-> 0]}
      BY <1>4 DEF Snapshots
  <2> QED BY <1>1, <2>1 DEF CompactLine, NoCapture
<1> QED BY <1>2, <1>3, <1>4

LEMMA EarliestFromSearch ==
    ASSUME CompactTypes, ResolverIsComplete
    PROVE  EarliestCapture
<1> DEFINE items == UNION {{cdxFiles[i][k] : k \in DOMAIN cdxFiles[i]} : i \in DOMAIN cdxFiles}
           Own(d) == {i.metadata : i \in {x \in items : x.digest = d}}
           Expected(d) == {e.expected : e \in {x \in invalidLog : x.actual = d}}
           Other(d) == {<<i.digest, i.metadata>> : i \in {x \in items : x.digest \in Expected(d)}}
<1> SUFFICES ASSUME Searched, NEW d \in Held
             PROVE  /\ d \in Resolved(resolver) <=> Own(d) # {} \/ Other(d) # {}
                    /\ d \in Resolved(resolver) =>
                         LET r == Lookup(resolver, d)
                         IN  IF Own(d) # {}
                             THEN /\ r.metadata \in Own(d) /\ \A m \in Own(d) : r.metadata <= m
                                  /\ r.expected = 0
                                  /\ r.extra_valid = Own(d) \ {r.metadata}
                                  /\ r.extra_invalid = Other(d)
                             ELSE /\ <<r.expected, r.metadata>> \in Other(d)
                                  /\ \A p \in Other(d) : r.metadata <= p[2]
                                  /\ r.extra_invalid = Other(d) \ {<<r.expected, r.metadata>>}
    BY DEF EarliestCapture, Searched, InLoop
<1>1. /\ AllItems \in SUBSET CdxItem /\ cdxFiles \in Seq(Seq(CdxItem))
      /\ Matches(resolver.done, Held, WantedPairs, AllItems, AllItems)
    BY FilesAreRead
<1>2. items = AllItems
  <2>1. DOMAIN cdxFiles = 1 .. Len(cdxFiles)
      BY <1>1
  <2>2. \A i \in 1 .. Len(cdxFiles) : DOMAIN cdxFiles[i] = 1 .. Len(cdxFiles[i])
      BY <1>1
  <2> QED BY <2>1, <2>2 DEF AllItems, ItemsUpTo, UpTo
<1>3. Own(d) = OwnOf(AllItems, d)
    BY <1>2 DEF OwnOf
<1>4. Other(d) = OtherOf(AllItems, WantedPairs, d)
  <2>1. \A x : x \in Expected(d) <=> \E e \in WantedPairs : e.actual = d /\ e.expected = x
      BY DEF WantedPairs
  <2>2. \A x : x.digest \in Expected(d) <=> \E e \in WantedPairs : e.actual = d /\ e.expected = x.digest
      BY <2>1
  <2> HIDE DEF Expected, items
  <2> QED BY <1>2, <2>2 DEF OtherOf
<1>5. d \in Resolved(resolver) <=> Own(d) # {} \/ Other(d) # {}
  <2> HIDE DEF Own, Other
  <2> QED BY <1>1, <1>3, <1>4 DEF Matches, Resolved
<1> HIDE DEF Own, Other
<1>6. ASSUME d \in Resolved(resolver), NEW r, r = Lookup(resolver, d)
      PROVE  IF Own(d) # {}
             THEN /\ r.metadata \in Own(d) /\ \A m \in Own(d) : r.metadata <= m
                  /\ r.expected = 0
                  /\ r.extra_valid = Own(d) \ {r.metadata}
                  /\ r.extra_invalid = Other(d)
             ELSE /\ <<r.expected, r.metadata>> \in Other(d)
                  /\ \A p \in Other(d) : r.metadata <= p[2]
                  /\ r.extra_invalid = Other(d) \ {<<r.expected, r.metadata>>}
    BY <1>3, <1>4, <1>6, LookupFacts
<1> QED BY <1>5, <1>6

-----------------------------------------------------------------------------
(* Each step keeps the invariant *)

\* The actions of the model, for one outcome of what each asks of the outside.
LEMMA CompactSteps ==
    ASSUME CompactNext
    PROVE  \/ \E ok \in BOOLEAN : CreateWriter(ok)
           \/ \E ok \in BOOLEAN : LoadData(ok)
           \/ \E ok \in BOOLEAN : ReadLog(ok)
           \/ ResolveChunk \/ AllResolved \/ PrepareChunk \/ SkipNext \/ ChunkDone \/ FilesDone
           \/ \E ok \in BOOLEAN : WriteNext(ok)
           \/ \E outcome \in Outcomes : FinishNext(outcome)
BY DEF CompactNext

LEMMA InputsAreKept ==
    ASSUME [CompactNext]_compactVars
    PROVE  UNCHANGED inputs
<1>1. CASE UNCHANGED compactVars
    BY <1>1 DEF compactVars, inputs
<1>2. CASE CompactNext
    BY <1>2, CompactSteps DEF CreateWriter, LoadData, ReadLog, ResolveChunk, AllResolved, PrepareChunk,
       SkipNext, ChunkDone, FilesDone, WriteNext, FinishNext, Return
<1> QED BY <1>1, <1>2

LEMMA ResolverInitially == CompactInit => ResolverIsComplete
BY DEF CompactInit, ResolverIsComplete, InLoop

LEMMA ChunkOfFiles ==
    ASSUME NEW X, NEW s \in Seq(X), NEW p \in Nat \ {0}, p <= Len(s), NEW e,
           e = IF p + FileChunk - 1 < Len(s) THEN p + FileChunk - 1 ELSE Len(s)
    PROVE  /\ SubSeq(s, p, e) \in Seq(X)
           /\ e \in Nat /\ p <= e /\ e <= Len(s) /\ Len(SubSeq(s, p, e)) = e - p + 1
           /\ \A k \in 1 .. e - p + 1 : SubSeq(s, p, e)[k] = s[p + k - 1]
<1>1. FileChunk \in Nat \ {0}
    BY CompactionAssumption
<1>2. e \in Nat /\ p <= e /\ e <= Len(s)
    BY <1>1
<1>3. SubSeq(s, p, e) \in Seq(X) /\ Len(SubSeq(s, p, e)) = e - p + 1
    BY <1>2
<1>4. \A k \in 1 .. e - p + 1 : SubSeq(s, p, e)[k] = s[p + k - 1]
    BY <1>2
<1> QED BY <1>2, <1>3, <1>4

LEMMA NothingIsMatched ==
    ASSUME NEW todo, NEW pairs
    PROVE  Matches(<<>>, todo, pairs, {}, {})
BY DEF Matches, OwnOf, OtherOf

LEMMA SearchIsOver ==
    ASSUME CompactInv, UNCHANGED inputs, UNCHANGED resolver, at \in {"prepare", "write", "finish"},
           at' \in {"prepare", "write", "finish", "done"}
    PROVE  ResolverIsComplete'
<1>1. /\ Held' = Held /\ WantedPairs' = WantedPairs /\ cdxFiles' = cdxFiles /\ job' = job
    BY InputsDecide
<1>2. FilesRead = Len(cdxFiles) /\ (at' # "done" => FilesRead' = Len(cdxFiles))
    BY <1>1 DEF FilesRead
<1>3. job = "pack" => resolver = NewResolver
    BY DEF CompactInv, ResolverIsComplete
<1>4. job = "compact" =>
         /\ resolver \in ResolverType /\ resolver.todo = Held /\ resolver.invalid = WantedPairs
         /\ \A i \in 1 .. Len(cdxFiles) : cdxFiles[i] \in Seq(CdxItem)
         /\ Matches(resolver.done, Held, WantedPairs,
                    ItemsUpTo(cdxFiles, Len(cdxFiles)), ItemsUpTo(cdxFiles, Len(cdxFiles)))
    BY <1>2 DEF CompactInv, ResolverIsComplete, InLoop
<1> QED BY <1>1, <1>2, <1>3, <1>4 DEF ResolverIsComplete, InLoop

LEMMA ResolveChunkKeepsResolver ==
    ASSUME CompactInv, UNCHANGED inputs, ResolveChunk
    PROVE  ResolverIsComplete'
<1>1. /\ Held' = Held /\ WantedPairs' = WantedPairs /\ cdxFiles' = cdxFiles /\ job' = job
    BY InputsDecide
<1>2. at = "resolve" /\ position <= Len(cdxFiles) /\ job = "compact"
    BY DEF ResolveChunk, CompactInv, WritersAreInStep, CompactTypes, CompactTypeOK
<1>3. PICK c : c = ChunkOf(cdxFiles)
    OBVIOUS
<1>4. CASE \E i \in DOMAIN c : c[i] = Unread
    BY <1>1, <1>2, <1>3, <1>4 DEF ResolveChunk, Return, Go, ResolverIsComplete, InLoop
<1>5. CASE ~ \E i \in DOMAIN c : c[i] = Unread
  <2>1. resolver' = ApplyChunk(resolver, c) /\ position' = position + FileChunk /\ at' = "resolve"
      BY <1>2, <1>3, <1>5 DEF ResolveChunk
  <2>2. PICK e : e = IF position + FileChunk - 1 < Len(cdxFiles)
                     THEN position + FileChunk - 1 ELSE Len(cdxFiles)
      OBVIOUS
  <2>3. c = SubSeq(cdxFiles, position, e)
      BY <1>3, <2>2 DEF ChunkOf
  <2>4. cdxFiles \in Seq(Seq(CdxItem) \cup {Unread}) /\ position \in Nat \ {0} /\ FileChunk \in Nat \ {0}
      BY CompactionAssumption DEF CompactInv, CompactTypes, CompactTypeOK
  <2>5. /\ c \in Seq(Seq(CdxItem) \cup {Unread})
        /\ e \in Nat /\ position <= e /\ e <= Len(cdxFiles) /\ Len(c) = e - position + 1
        /\ \A k \in 1 .. e - position + 1 : c[k] = cdxFiles[position + k - 1]
      BY <1>2, <2>2, <2>3, <2>4, ChunkOfFiles
  <2>6. c \in Seq(Seq(CdxItem)) /\ \A k \in 1 .. Len(c) : c[k] \in Seq(CdxItem)
    <3>1. \A k \in 1 .. Len(c) : c[k] \in Seq(CdxItem)
      <4> TAKE k \in 1 .. Len(c)
      <4>1. k \in DOMAIN c /\ c[k] \in Seq(CdxItem) \cup {Unread}
          BY <2>5
      <4> QED BY <4>1, <1>5
    <3> QED BY <3>1, <2>5, SeqNarrows
  <2> DEFINE b == position - 1
             V == ItemsUpTo(cdxFiles, b)
  <2>7. FilesRead = b /\ b \in Nat
      BY <1>2, <2>4 DEF FilesRead
  <2>8. /\ resolver \in ResolverType /\ resolver.todo = Held /\ resolver.invalid = WantedPairs
        /\ \A i \in 1 .. b : cdxFiles[i] \in Seq(CdxItem)
        /\ Matches(resolver.done, resolver.todo, resolver.invalid, V, V)
      BY <1>2, <2>7 DEF CompactInv, ResolverIsComplete
  <2>9. V \in SUBSET CdxItem
      BY <2>8 DEF ItemsUpTo, UpTo
  <2>10. \A x \in resolver.invalid : x.actual \in resolver.todo
      BY <2>8 DEF WantedPairs
  <2> HIDE DEF V
  <2>11. /\ resolver' \in ResolverType
         /\ resolver'.todo = Held
         /\ resolver'.invalid = WantedPairs
         /\ Matches(resolver'.done, Held, WantedPairs,
                    V \cup ItemsUpTo(c, Len(c)), V \cup ItemsUpTo(c, Len(c)))
    <3>1. /\ ApplyChunk(resolver, c) \in ResolverType
          /\ ApplyChunk(resolver, c).todo = resolver.todo
          /\ ApplyChunk(resolver, c).invalid = resolver.invalid
          /\ Matches(ApplyChunk(resolver, c).done, resolver.todo, resolver.invalid,
                     V \cup ItemsUpTo(c, Len(c)), V \cup ItemsUpTo(c, Len(c)))
        BY <2>6, <2>8, <2>9, <2>10, ChunkIsApplied
    <3> QED BY <2>1, <2>8, <3>1
  <2>12. \A i \in 1 .. e : cdxFiles[i] \in Seq(CdxItem)
    <3> TAKE i \in 1 .. e
    <3>1. CASE i <= b
        BY <3>1, <2>5, <2>7, <2>8
    <3>2. CASE b < i
      <4>1. i - b \in 1 .. Len(c) /\ position + (i - b) - 1 = i
          BY <3>2, <2>4, <2>5
      <4> QED BY <4>1, <2>5, <2>6
    <3> QED BY <3>1, <3>2, <2>4
  <2>13. V \cup ItemsUpTo(c, Len(c)) = ItemsUpTo(cdxFiles, e)
    <3> DEFINE Of1(i) == UpTo(cdxFiles[i], Len(cdxFiles[i]))
    <3>1. \A k \in 1 .. Len(c) : UpTo(c[k], Len(c[k])) = Of1(b + k)
      <4> TAKE k \in 1 .. Len(c)
      <4>1. c[k] = cdxFiles[b + k]
          BY <2>4, <2>5
      <4> QED BY <4>1
    <3>2. ItemsUpTo(c, Len(c)) = UNION {Of1(b + k) : k \in 1 .. Len(c)}
        BY <3>1 DEF ItemsUpTo
    <3>3. V = UNION {Of1(i) : i \in 1 .. b} /\ ItemsUpTo(cdxFiles, e) = UNION {Of1(i) : i \in 1 .. e}
        BY DEF V, ItemsUpTo
    <3> HIDE DEF Of1
    <3>4. \A i \in 1 .. e : i \in 1 .. b \/ \E k \in 1 .. Len(c) : i = b + k
      <4> TAKE i \in 1 .. e
      <4>1. CASE i <= b
          BY <4>1, <2>7
      <4>2. CASE b < i
        <5>1. i - b \in 1 .. Len(c) /\ i = b + (i - b)
            BY <4>2, <2>4, <2>5
        <5> QED BY <5>1
      <4> QED BY <4>1, <4>2, <2>4
    <3>5. \A i \in 1 .. b : i \in 1 .. e
        BY <2>4, <2>5
    <3>6. \A k \in 1 .. Len(c) : b + k \in 1 .. e
        BY <2>4, <2>5
    <3> HIDE DEF b, V
    <3>7. UNION {Of1(b + k) : k \in 1 .. Len(c)} \subseteq UNION {Of1(i) : i \in 1 .. e}
        BY <3>6
    <3>8. UNION {Of1(i) : i \in 1 .. b} \subseteq UNION {Of1(i) : i \in 1 .. e}
        BY <3>5
    <3>9. UNION {Of1(i) : i \in 1 .. e}
            \subseteq (UNION {Of1(i) : i \in 1 .. b}) \cup (UNION {Of1(b + k) : k \in 1 .. Len(c)})
        BY <3>4
    <3> QED BY <3>2, <3>3, <3>7, <3>8, <3>9
  <2>14. FilesRead' = e
    <3>1. CASE position + FileChunk - 1 < Len(cdxFiles)
      <4>1. e = position + FileChunk - 1 /\ position' <= Len(cdxFiles)
          BY <3>1, <2>1, <2>2, <2>4
      <4> QED BY <4>1, <1>1, <2>1, <2>4 DEF FilesRead
    <3>2. CASE ~ (position + FileChunk - 1 < Len(cdxFiles))
      <4>1. e = Len(cdxFiles) /\ (position' <= Len(cdxFiles) => position' - 1 = Len(cdxFiles))
          BY <3>2, <2>1, <2>2, <2>4
      <4> QED BY <4>1, <1>1, <2>1 DEF FilesRead
    <3> QED BY <3>1, <3>2
  <2> QED BY <1>1, <1>2, <2>1, <2>11, <2>12, <2>13, <2>14 DEF ResolverIsComplete, InLoop
<1> QED BY <1>4, <1>5

LEMMA ResolverKept ==
    ASSUME CompactInv, [CompactNext]_compactVars
    PROVE  ResolverIsComplete'
<1>1. UNCHANGED inputs
    BY InputsAreKept
<1>2. /\ Held' = Held /\ WantedPairs' = WantedPairs /\ cdxFiles' = cdxFiles /\ job' = job
      /\ invalidLog' = invalidLog
    BY <1>1, InputsDecide
<1>3. job \in {"compact", "pack"} /\ ResolverIsComplete
    BY DEF CompactInv, CompactTypes, CompactTypeOK
<1>4. CASE UNCHANGED compactVars
  <2>1. UNCHANGED <<at, position, resolver>>
      BY <1>4 DEF compactVars
  <2>2. FilesRead' = FilesRead
      BY <1>2, <2>1 DEF FilesRead
  <2> QED BY <1>2, <1>3, <2>1, <2>2 DEF ResolverIsComplete, InLoop
<1>5. ASSUME NEW ok \in BOOLEAN, CreateWriter(ok) PROVE ResolverIsComplete'
    BY <1>2, <1>3, <1>5 DEF CreateWriter, Return, Go, ResolverIsComplete, InLoop
<1>6. ASSUME NEW ok \in BOOLEAN, LoadData(ok) PROVE ResolverIsComplete'
    BY <1>2, <1>3, <1>6 DEF LoadData, Return, Go, ResolverIsComplete, InLoop
<1>7. ASSUME NEW ok \in BOOLEAN, ReadLog(ok) PROVE ResolverIsComplete'
  <2>1. CASE ~ ok \/ job = "pack"
      BY <1>2, <1>3, <1>7, <2>1 DEF ReadLog, Return, Go, ResolverIsComplete, InLoop
  <2>2. CASE ok /\ job = "compact"
    <3>1. /\ at = "log" /\ resolver' = ReadInvalid(resolver, invalidLog)
          /\ at' = "resolve" /\ position' = 1
        BY <1>7, <2>2 DEF ReadLog, Go
    <3>2. resolver = [todo |-> Held, invalid |-> {}, done |-> <<>>]
        BY <1>3, <2>2, <3>1 DEF ResolverIsComplete, LoadDigests, NewResolver
    <3>3. resolver' = [todo |-> Held, invalid |-> WantedPairs, done |-> <<>>]
        BY <3>1, <3>2 DEF ReadInvalid, WantedPairs
    <3>4. Len(cdxFiles) \in Nat
      <4>1. cdxFiles \in Seq(Seq(CdxItem) \cup {Unread})
          BY CompactionAssumption DEF CompactInv, CompactTypes
      <4> QED BY <4>1
    <3>5. FilesRead' = 0
      <4>1. FilesRead' = IF 1 <= Len(cdxFiles) THEN 1 - 1 ELSE Len(cdxFiles)
          BY <1>2, <3>1 DEF FilesRead
      <4>2. PICK n \in Nat : n = Len(cdxFiles)
          BY <3>4
      <4>3. (IF 1 <= n THEN 1 - 1 ELSE n) = 0
          OBVIOUS
      <4> QED BY <4>1, <4>2, <4>3
    <3>6. ItemsUpTo(cdxFiles, 0) = {}
        BY DEF ItemsUpTo
    <3>7. resolver' \in ResolverType
      <4>1. Held \in SUBSET (Nat \ {0})
          BY HeldFacts DEF CompactInv, HeldIsFinite
      <4>2. WantedPairs \in SUBSET [actual : Int, expected : Int \ {0}]
          BY CompactionAssumption DEF CompactInv, CompactTypes, WantedPairs
      <4>3. <<>> \in Tables
        <5>1. PICK z : z = <<>>
            OBVIOUS
        <5>2. Matches(z, {}, {}, {}, {})
            BY <5>1, NothingIsMatched
        <5>3. z \in [DOMAIN z -> SetType] /\ DOMAIN z \in SUBSET Nat
            BY <5>2 DEF Matches
        <5>4. z \in Tables
            BY <5>3 DEF Tables
        <5> QED BY <5>1, <5>4
      <4> QED BY <3>3, <4>1, <4>2, <4>3 DEF ResolverType
    <3>8. Matches(resolver'.done, Held, WantedPairs, {}, {})
        BY <3>3, NothingIsMatched
    <3>9. Matches(resolver'.done, Held', WantedPairs',
                  ItemsUpTo(cdxFiles', FilesRead'), ItemsUpTo(cdxFiles', FilesRead'))
        BY <1>2, <3>5, <3>6, <3>8
    <3>10. /\ resolver'.todo = Held' /\ resolver'.invalid = WantedPairs'
           /\ \A i \in 1 .. FilesRead' : cdxFiles'[i] \in Seq(CdxItem)
        BY <1>2, <3>3, <3>5
    <3>11. job' # "pack" /\ at' = "resolve"
        BY <1>2, <2>2, <3>1
    <3> QED BY <3>7, <3>9, <3>10, <3>11 DEF ResolverIsComplete
  <2> QED BY <1>3, <2>1, <2>2
<1>8. CASE ResolveChunk
    BY <1>1, <1>8, ResolveChunkKeepsResolver
<1>9. CASE AllResolved
  <2>1. /\ at = "resolve" /\ at' = "prepare" /\ position > Len(cdxFiles) /\ UNCHANGED resolver
      BY <1>9 DEF AllResolved, Go
  <2>2. job = "compact"
      BY <1>3, <2>1 DEF CompactInv, WritersAreInStep
  <2>3. position \in Nat /\ Len(cdxFiles) \in Nat
      BY CompactionAssumption DEF CompactInv, CompactTypes, CompactTypeOK
  <2>4. FilesRead = Len(cdxFiles) /\ FilesRead' = Len(cdxFiles)
      BY <1>2, <2>1, <2>3 DEF FilesRead
  <2> QED BY <1>2, <1>3, <2>1, <2>2, <2>4 DEF ResolverIsComplete, InLoop
<1>10. CASE PrepareChunk \/ SkipNext \/ ChunkDone \/ FilesDone
            \/ (\E ok \in BOOLEAN : WriteNext(ok)) \/ (\E outcome \in Outcomes : FinishNext(outcome))
  <2>1. /\ UNCHANGED resolver /\ at \in {"prepare", "write", "finish"}
        /\ at' \in {"prepare", "write", "finish", "done"}
      BY <1>10 DEF PrepareChunk, SkipNext, ChunkDone, FilesDone, WriteNext, FinishNext, Go
  <2> QED BY <1>1, <2>1, SearchIsOver
<1> QED BY <1>4, <1>5, <1>6, <1>7, <1>8, <1>9, <1>10, CompactSteps

WriterSet == WriterType(CompactLine)

LEMMA WriterFacts ==
    /\ NewWriter \in WriterSet
    /\ \A w \in WriterSet, s \in CompactLine :
         /\ Written(w, s) \in WriterSet
         /\ Written(w, s).lines = Append(w.lines, s)
         /\ Written(w, s).last_written = s.digest
         /\ Written(w, s).output = w.output
    /\ \A w \in WriterSet, outcome \in Outcomes :
         /\ Finished(w, outcome) \in WriterSet
         /\ Finished(w, outcome).lines = w.lines
         /\ Finished(w, outcome).output = outcome
<1>1. NewWriter \in WriterSet
    BY DEF NewWriter, WriterSet, WriterType, NoDigest
<1>2. ASSUME NEW w \in WriterSet, NEW s \in CompactLine
      PROVE  /\ Written(w, s) \in WriterSet
             /\ Written(w, s).lines = Append(w.lines, s)
             /\ Written(w, s).last_written = s.digest
             /\ Written(w, s).output = w.output
  <2>1. s.digest \in Nat
      BY DEF CompactLine
  <2>2. w.lines \in Seq(CompactLine) /\ Append(w.lines, s) \in Seq(CompactLine)
      BY DEF WriterSet, WriterType
  <2>3. [w EXCEPT !.lines = Append(w.lines, s)] \in WriterSet
      BY <2>2 DEF WriterSet, WriterType
  <2> QED BY <2>1, <2>2, <2>3 DEF WriterSet, WriterType, Written
<1>3. ASSUME NEW w \in WriterSet, NEW outcome \in Outcomes
      PROVE  /\ Finished(w, outcome) \in WriterSet
             /\ Finished(w, outcome).lines = w.lines
             /\ Finished(w, outcome).output = outcome
    BY DEF Finished, WriterSet, WriterType
<1> QED BY <1>1, <1>2, <1>3

LEMMA WritersStayWriters ==
    ASSUME NEW ws \in Seq(WriterSet), NEW w \in WriterSet, NEW i
    PROVE  /\ Append(ws, w) \in Seq(WriterSet)
           /\ [ws EXCEPT ![i] = w] \in Seq(WriterSet)
           /\ Len([ws EXCEPT ![i] = w]) = Len(ws)
           /\ DOMAIN [ws EXCEPT ![i] = w] = DOMAIN ws
           /\ \A j \in DOMAIN ws : [ws EXCEPT ![i] = w][j] = IF j = i THEN w ELSE ws[j]
<1> DEFINE vs == [ws EXCEPT ![i] = w]
<1>1. Append(ws, w) \in Seq(WriterSet)
    OBVIOUS
<1>2. DOMAIN vs = 1 .. Len(ws) /\ \A j \in 1 .. Len(ws) : vs[j] \in WriterSet
    OBVIOUS
<1>3. Len(ws) \in Nat /\ vs = [j \in 1 .. Len(ws) |-> vs[j]]
  <2>1. Len(ws) \in Nat /\ vs = [j \in DOMAIN ws |-> IF j = i THEN w ELSE ws[j]]
      OBVIOUS
  <2> QED BY <1>2, <2>1
<1> HIDE DEF vs
<1>4. vs \in Seq(WriterSet) /\ Len(vs) = Len(ws)
    BY <1>2, <1>3
<1> QED BY <1>1, <1>2, <1>4 DEF vs

LEMMA OutputsIsNat == CompactTypes => Outputs \in Nat \ {0}
<1> SUFFICES ASSUME CompactTypes PROVE Outputs \in Nat \ {0}
    OBVIOUS
<1>1. PartitionKeys \in Seq({PartitionKeys[i] : i \in DOMAIN PartitionKeys}) /\ Len(PartitionKeys) > 0
    BY CompactionAssumption
<1> QED BY <1>1 DEF Outputs

LEMMA TypesOfTypes ==
    ASSUME CompactTypes
    PROVE  /\ writers \in Seq(WriterSet)
           /\ position \in Nat \ {0}
           /\ job \in {"compact", "pack"}
           /\ Len(writers) <= Outputs
BY DEF CompactTypes, CompactTypeOK, WriterSet

\* The types that the writers have no part in are kept with them.
LEMMA TypesFromParts ==
    ASSUME CompactTypes, UNCHANGED inputs, writers' \in Seq(WriterSet), Len(writers') <= Outputs,
           at' \in {"create", "load", "log", "resolve", "prepare", "write", "finish", "done"},
           position' \in Nat \ {0}, jobError' \in {NoError, "Io"},
           jobResult' \in {NoError, "Io", "Sqlite", "Resolver"}, tally' \in Tally, prepared' \in Seq(Nat)
    PROVE  CompactTypes'
<1>1. /\ job' = job /\ skipUnresolved' = skipUnresolved /\ directories' = directories
      /\ cdxFiles' = cdxFiles /\ invalidLog' = invalidLog /\ Outputs' = Outputs
    BY InputsDecide
<1>2. \A i \in DOMAIN writers' :
        writers'[i] \in WriterType([digest : Nat, metadata : Nat, expected : Int])
  <2> TAKE i \in DOMAIN writers'
  <2>1. writers'[i] \in WriterType(CompactLine)
      BY DEF WriterSet
  <2>2. CompactLine \subseteq [digest : Nat, metadata : Nat, expected : Int]
      BY DEF CompactLine
  <2>3. writers'[i].lines \in Seq([digest : Nat, metadata : Nat, expected : Int])
    <3>1. writers'[i].lines \in Seq(CompactLine)
        BY <2>1 DEF WriterType
    <3>2. PICK q : q = writers'[i].lines
        OBVIOUS
    <3>3. PICK B : B = [digest : Nat, metadata : Nat, expected : Int]
        OBVIOUS
    <3>4. CompactLine \subseteq B /\ q \in Seq(CompactLine)
        BY <2>2, <3>1, <3>2, <3>3
    <3>5. q \in Seq(B)
        BY <3>4, SeqWidens
    <3> QED BY <3>2, <3>3, <3>5
  <2> QED BY <2>1, <2>3 DEF WriterType
<1>3. CompactTypeOK'
    BY <1>1, <1>2 DEF CompactTypes, CompactTypeOK
<1> QED BY <1>1, <1>3 DEF CompactTypes, WriterSet

\* The invariant without what is known of the resolver.
CompactRest ==
    /\ CompactTypes
    /\ WritersAreInStep
    /\ \A d \in Held : Past(d) => Accounted(d)
    /\ LinesAscend
    /\ ChunkIsNext
    /\ BeforeLoop => prepared = <<>>

LEMMA ReturnKeeps ==
    ASSUME CompactInv, UNCHANGED inputs, BeforeLoop, NEW error \in {"Io", "Sqlite", "Resolver"},
           Return(error)
    PROVE  CompactRest'
<1>1. /\ at' = "done" /\ position' = 1 /\ jobResult' = error
      /\ UNCHANGED <<inputs, resolver, writers, prepared, tally, jobError>>
    BY DEF Return, Go
<1>2. \A w \in DOMAIN writers : writers[w] = NewWriter
    BY DEF CompactInv, WritersAreInStep
<1>3. CompactTypes'
  <2>1. writers' \in Seq(WriterSet) /\ Len(writers') <= Outputs
      BY <1>1, TypesOfTypes DEF CompactInv
  <2>2. jobError' \in {NoError, "Io"} /\ tally' \in Tally /\ prepared' \in Seq(Nat)
      BY <1>1 DEF CompactInv, CompactTypes, CompactTypeOK
  <2> QED BY <1>1, <2>1, <2>2, TypesFromParts DEF CompactInv
<1>4. OutputsAreFinished'
  <2>1. jobResult' # NoError
      BY <1>1 DEF NoError
  <2>2. \A w \in DOMAIN writers' : writers'[w].output = "open"
      BY <1>1, <1>2 DEF NewWriter
  <2>3. writers' # <<>> => \E w \in DOMAIN writers' : TRUE
    <3>1. writers \in Seq(WriterSet)
        BY TypesOfTypes DEF CompactInv
    <3>2. writers # <<>> => Len(writers) # 0
        BY <3>1
    <3>3. Len(writers) # 0 => 1 \in DOMAIN writers
        BY <3>1
    <3> QED BY <1>1, <3>2, <3>3
  <2> QED BY <2>1, <2>2, <2>3 DEF OutputsAreFinished, Visible
<1>5. WritersAreInStep'
    BY <1>1, <1>4 DEF WritersAreInStep, BeforeLoop, InLoop
<1>6. \A d : ~ Past(d)'
    BY <1>1 DEF Past, InLoop, NoError
<1>7. LinesAscend'
    BY <1>1 DEF CompactInv, LinesAscend
<1>8. ChunkIsNext'
    BY <1>1 DEF ChunkIsNext, InLoop
<1> QED BY <1>1, <1>3, <1>5, <1>6, <1>7, <1>8 DEF CompactRest, BeforeLoop

LEMMA BeforeLoopKeeps ==
    ASSUME CompactInv, UNCHANGED inputs, BeforeLoop, UNCHANGED <<prepared, tally, jobError, jobResult>>,
           BeforeLoop' \/ (at' = "prepare" /\ position' = 1), position' \in Nat \ {0},
           writers' \in Seq(WriterSet), \A w \in DOMAIN writers' : writers'[w] = NewWriter,
           at' = "create" => Len(writers') = position' - 1 /\ position' <= Outputs,
           Len(writers') <= Outputs,
           at' = "load" \/ at' = "prepare" \/ (job = "compact" /\ at' \in {"log", "resolve"})
             => Len(writers') = Outputs,
           job = "pack" => at' \notin {"log", "resolve"}
    PROVE  CompactRest'
<1>1. /\ job' = job /\ Files' = Files /\ Held' = Held /\ Outputs' = Outputs
    BY InputsDecide
<1>2. prepared = <<>> /\ jobError = NoError /\ jobResult = NoError
    BY DEF CompactInv, WritersAreInStep
<1>3. CompactTypes'
  <2>1. jobError' \in {NoError, "Io"} /\ tally' \in Tally /\ prepared' \in Seq(Nat)
        /\ jobResult' \in {NoError, "Io", "Sqlite", "Resolver"}
      BY DEF CompactInv, CompactTypes, CompactTypeOK
  <2>2. at' \in {"create", "load", "log", "resolve", "prepare", "write", "finish", "done"}
      BY DEF BeforeLoop
  <2> QED BY <2>1, <2>2, TypesFromParts DEF CompactInv
<1>4. at' \notin {"write", "finish", "done"}
    BY DEF BeforeLoop
<1>5. \A w \in DOMAIN writers' : writers'[w].output = "open" /\ writers'[w].lines = <<>>
                                 /\ writers'[w].last_written = NoDigest
    BY DEF NewWriter
<1>6. WritersAreInStep'
    BY <1>1, <1>2, <1>4, <1>5 DEF WritersAreInStep, BeforeLoop, InLoop, OutputsAreFinished
<1>7. Files \in Seq(Held)
    BY FilesFacts DEF CompactInv, FilesAreListed
<1>8. \A d : ~ Past(d)'
  <2> TAKE d
  <2>1. at' = "prepare" => ~ \E i \in DOMAIN Files' : i < position' /\ Files'[i] = d
      BY <1>1, <1>7, <1>4 DEF BeforeLoop
  <2> QED BY <1>4, <2>1 DEF Past, InLoop
<1>9. LinesAscend'
    BY <1>5 DEF LinesAscend
<1>10. ChunkIsNext'
  <2>1. \A w \in DOMAIN writers' : LinesOf(w)' = {}
      BY <1>5 DEF LinesOf
  <2>2. at' = "prepare" => position' <= Len(Files') + 1
      BY <1>1, <1>7, <1>4 DEF BeforeLoop
  <2> QED BY <1>2, <1>4, <1>5, <2>1, <2>2 DEF ChunkIsNext, InLoop
<1> QED BY <1>2, <1>3, <1>6, <1>8, <1>9, <1>10 DEF CompactRest

LEMMA OpeningKeeps ==
    ASSUME CompactInv, UNCHANGED inputs,
           \/ \E ok \in BOOLEAN : CreateWriter(ok) \/ LoadData(ok) \/ ReadLog(ok)
           \/ ResolveChunk \/ AllResolved
    PROVE  CompactRest'
<1>1. /\ writers \in Seq(WriterSet) /\ position \in Nat \ {0} /\ job \in {"compact", "pack"}
      /\ Len(writers) <= Outputs /\ Outputs \in Nat \ {0}
    BY TypesOfTypes, OutputsIsNat DEF CompactInv
<1>2. BeforeLoop
    BY DEF CreateWriter, LoadData, ReadLog, ResolveChunk, AllResolved, BeforeLoop
<1>3. /\ \A w \in DOMAIN writers : writers[w] = NewWriter
      /\ at = "create" => Len(writers) = position - 1 /\ position <= Outputs
      /\ at = "load" => Len(writers) = Outputs
      /\ job = "compact" /\ at \in {"log", "resolve"} => Len(writers) = Outputs
      /\ job = "pack" => at # "resolve" /\ (at = "log" => writers = <<>>)
    BY <1>2 DEF CompactInv, WritersAreInStep
<1>4. CASE \E error \in {"Io", "Sqlite", "Resolver"} : Return(error)
    BY <1>2, <1>4, ReturnKeeps
<1>5. CASE ~ \E error \in {"Io", "Sqlite", "Resolver"} : Return(error)
  <2>1. ASSUME NEW ok \in BOOLEAN, CreateWriter(ok) PROVE CompactRest'
    <3>1. /\ at = "create" /\ writers' = Append(writers, NewWriter)
          /\ IF position = Outputs THEN at' = "load" /\ position' = 1
             ELSE at' = at /\ position' = position + 1
          /\ UNCHANGED <<prepared, tally, jobError, jobResult>>
        BY <1>5, <2>1 DEF CreateWriter, Go
    <3>2. writers' \in Seq(WriterSet) /\ Len(writers') = Len(writers) + 1
        BY <1>1, <3>1, WriterFacts
    <3>3. \A w \in DOMAIN writers' : writers'[w] = NewWriter
        BY <1>1, <1>3, <3>1
    <3>4. Len(writers') = position
        BY <1>1, <1>3, <3>1, <3>2
    <3>5. BeforeLoop' /\ position' \in Nat \ {0}
        BY <1>1, <3>1 DEF BeforeLoop
    <3>6. at' = "create" => Len(writers') = position' - 1 /\ position' <= Outputs
        BY <1>1, <1>3, <3>1, <3>4
    <3>7. at' = "load" => Len(writers') = Outputs
        BY <3>1, <3>4
    <3>8. at' \in {"create", "load"} /\ Len(writers') <= Outputs
        BY <1>1, <1>3, <3>1, <3>4
    <3> QED BY <1>2, <3>1, <3>2, <3>3, <3>5, <3>6, <3>7, <3>8, BeforeLoopKeeps
  <2>2. ASSUME NEW ok \in BOOLEAN, LoadData(ok) PROVE CompactRest'
    <3>1. /\ at = "load" /\ at' = (IF job = "compact" THEN "log" ELSE "prepare") /\ position' = 1
          /\ UNCHANGED <<writers, prepared, tally, jobError, jobResult>>
        BY <1>5, <2>2 DEF LoadData, Go
    <3> QED BY <1>1, <1>2, <1>3, <3>1, BeforeLoopKeeps DEF BeforeLoop
  <2>3. ASSUME NEW ok \in BOOLEAN, ReadLog(ok) PROVE CompactRest'
    <3>1. /\ at = "log" /\ at' = (IF job = "compact" THEN "resolve" ELSE "create") /\ position' = 1
          /\ UNCHANGED <<writers, prepared, tally, jobError, jobResult>>
        BY <1>5, <2>3 DEF ReadLog, Go
    <3>2. job = "pack" => Len(writers) = 0
        BY <1>3, <3>1
    <3> QED BY <1>1, <1>2, <1>3, <3>1, <3>2, BeforeLoopKeeps DEF BeforeLoop
  <2>4. ASSUME ResolveChunk PROVE CompactRest'
    <3>1. /\ at = "resolve" /\ at' = at /\ position' = position + FileChunk
          /\ UNCHANGED <<writers, prepared, tally, jobError, jobResult>>
        BY <1>5, <2>4 DEF ResolveChunk
    <3>2. position' \in Nat \ {0}
        BY <1>1, <3>1, CompactionAssumption
    <3> QED BY <1>1, <1>2, <1>3, <3>1, <3>2, BeforeLoopKeeps DEF BeforeLoop
  <2>5. ASSUME AllResolved PROVE CompactRest'
    <3>1. /\ at = "resolve" /\ at' = "prepare" /\ position' = 1
          /\ UNCHANGED <<writers, prepared, tally, jobError, jobResult>>
        BY <2>5 DEF AllResolved, Go
    <3> QED BY <1>1, <1>2, <1>3, <3>1, BeforeLoopKeeps DEF BeforeLoop
  <2> QED BY <2>1, <2>2, <2>3, <2>4, <2>5
<1> QED BY <1>4, <1>5

\* What the loop is at: the next file of the chunk, which none of the lines has yet.
LEMMA NextFile ==
    ASSUME CompactInv, at = "write", prepared # <<>>, NEW d, d = Head(prepared)
    PROVE  /\ d \in Held /\ position \in DOMAIN Files /\ Files[position] = d
           /\ \A w \in DOMAIN writers : d \notin LinesOf(w)
           /\ \A w \in DOMAIN writers : \A i \in DOMAIN writers[w].lines : writers[w].lines[i].digest < d
           /\ \A w \in DOMAIN writers : writers[w].last_written # d
           /\ \A x : Past(x) => x # d /\ x \in Held
           /\ Tail(prepared) \in Seq(Nat) /\ Len(Tail(prepared)) = Len(prepared) - 1
           /\ \A k \in DOMAIN Tail(prepared) : Tail(prepared)[k] = Files[position + k]
           /\ position + Len(prepared) <= Len(Files) + 1
           /\ DOMAIN writers = 1 .. Outputs
<1>1. /\ Files \in Seq(Held) /\ NumbersAscend(Files) /\ Held \in SUBSET (Nat \ {0})
    BY FilesFacts, HeldFacts DEF CompactInv, FilesAreListed, HeldIsFinite
<1>2. /\ writers \in Seq(WriterSet) /\ position \in Nat \ {0} /\ prepared \in Seq(Nat)
    BY TypesOfTypes DEF CompactInv, CompactTypes
<1>3. /\ position + Len(prepared) <= Len(Files) + 1
      /\ \A k \in DOMAIN prepared : prepared[k] = Files[position + k - 1]
      /\ \A w \in DOMAIN writers :
         /\ \A x \in LinesOf(w) : Past(x)
         /\ writers[w].last_written =
              LET lines == writers[w].lines
              IN  IF lines = <<>> THEN NoDigest ELSE lines[Len(lines)].digest
    BY DEF CompactInv, ChunkIsNext, InLoop
<1>4. Len(prepared) \in Nat \ {0} /\ 1 \in DOMAIN prepared /\ d = prepared[1]
    BY <1>2
<1>5. d = Files[position + 1 - 1] /\ position + 1 - 1 = position
    BY <1>2, <1>3, <1>4
<1>6. Len(Files) \in Nat /\ DOMAIN Files = 1 .. Len(Files)
    BY <1>1
<1>7. position \in DOMAIN Files
    BY <1>2, <1>3, <1>4, <1>6
<1>8. d \in Held /\ Files[position] = d
    BY <1>1, <1>5, <1>7
<1>9. \A x : Past(x) => x < d /\ x \in Held
  <2> SUFFICES ASSUME NEW x, Past(x) PROVE x < d /\ x \in Held
      OBVIOUS
  <2>1. PICK i \in DOMAIN Files : i < position /\ Files[i] = x
      BY DEF Past
  <2> QED BY <1>1, <1>7, <1>8, <2>1 DEF NumbersAscend
<1>10. \A w \in DOMAIN writers : \A i \in DOMAIN writers[w].lines : writers[w].lines[i].digest < d
    BY <1>3, <1>9 DEF LinesOf
<1>11. \A x : x < d /\ x \in Held => x # d
    BY <1>1, <1>8
<1>12. \A w \in DOMAIN writers : d \notin LinesOf(w)
    BY <1>3, <1>9, <1>11
<1>13. \A w \in DOMAIN writers : writers[w].last_written # d
  <2> TAKE w \in DOMAIN writers
  <2>1. CASE writers[w].lines = <<>>
      BY <2>1, <1>1, <1>3, <1>8 DEF NoDigest
  <2>2. CASE writers[w].lines # <<>>
    <3>1. writers[w] \in WriterSet
        BY <1>2
    <3>2. PICK q : q = writers[w].lines
        OBVIOUS
    <3>3. q \in Seq(CompactLine) /\ q # <<>>
        BY <2>2, <3>1, <3>2 DEF WriterSet, WriterType
    <3>4. Len(q) \in DOMAIN q
        BY <3>3
    <3>5. q[Len(q)].digest \in LinesOf(w)
        BY <3>2, <3>4 DEF LinesOf
    <3> QED BY <2>2, <3>2, <3>5, <1>3, <1>12
  <2> QED BY <2>1, <2>2
<1>14. /\ Tail(prepared) \in Seq(Nat) /\ Len(Tail(prepared)) = Len(prepared) - 1
       /\ \A k \in DOMAIN Tail(prepared) : Tail(prepared)[k] = prepared[k + 1] /\ k + 1 \in DOMAIN prepared
    BY <1>2, <1>4
<1>15. \A k \in DOMAIN Tail(prepared) : Tail(prepared)[k] = Files[position + k]
  <2> TAKE k \in DOMAIN Tail(prepared)
  <2>1. k \in Nat
      BY <1>14
  <2>2. position + (k + 1) - 1 = position + k
      BY <2>1, <1>2
  <2> QED BY <2>2, <1>3, <1>14
<1>16. DOMAIN writers = 1 .. Outputs
    BY <1>2 DEF CompactInv, WritersAreInStep, InLoop
<1> QED BY <1>3, <1>7, <1>8, <1>9, <1>10, <1>11, <1>12, <1>13, <1>14, <1>15, <1>16

\* A file that was accounted for is, when the lists only grow and no line with its digest is added.
LEMMA OthersStayAccounted ==
    ASSUME CompactTypes, UNCHANGED inputs, UNCHANGED resolver, NEW e \in Held, Accounted(e),
           DOMAIN writers' = DOMAIN writers, DOMAIN writers = 1 .. Outputs,
           \A w \in DOMAIN writers : e \in LinesOf(w)' <=> e \in LinesOf(w),
           \A r \in SkipReasons : \A i \in DOMAIN tally.skipped[r] :
             \E j \in DOMAIN tally'.skipped[r] : tally'.skipped[r][j] = tally.skipped[r][i],
           \A i \in DOMAIN tally.unresolved :
             \E j \in DOMAIN tally'.unresolved : tally'.unresolved[j] = tally.unresolved[i]
    PROVE  Accounted(e)'
<1>1. /\ Skipped(e)' = Skipped(e) /\ Index(e)' = Index(e) /\ job' = job
      /\ skipUnresolved' = skipUnresolved
    BY InputsDecide
<1>2. IsWanted(e)' = IsWanted(e)
    BY <1>1 DEF IsWanted
<1>3. PICK skip : skip = Skipped(e)
    OBVIOUS
<1>4. PICK x : x = Index(e)
    OBVIOUS
<1>5. skip \in SkipReasons \cup {Unskipped} /\ (skip = Unskipped => x \in DOMAIN writers)
    BY <1>3, <1>4, SortingFacts DEF FilesAreSorted
<1>6. CASE skip # Unskipped
    BY <1>1, <1>3, <1>5, <1>6 DEF Accounted
<1>7. CASE skip = Unskipped
    BY <1>1, <1>2, <1>3, <1>4, <1>5, <1>7 DEF Accounted, LinesOf
<1> QED BY <1>6, <1>7

LEMMA AdvanceKeeps ==
    ASSUME CompactInv, UNCHANGED inputs, UNCHANGED resolver, at = "write", at' = "write",
           prepared # <<>>, NEW d, d = Head(prepared), prepared' = Tail(prepared),
           position' = position + 1, UNCHANGED <<jobError, jobResult>>,
           writers' \in Seq(WriterSet), Len(writers') = Len(writers), tally' \in Tally,
           \A r \in SkipReasons : \A i \in DOMAIN tally.skipped[r] :
             \E j \in DOMAIN tally'.skipped[r] : tally'.skipped[r][j] = tally.skipped[r][i],
           \A i \in DOMAIN tally.unresolved :
             \E j \in DOMAIN tally'.unresolved : tally'.unresolved[j] = tally.unresolved[i],
           \A w \in DOMAIN writers :
             \/ writers'[w] = writers[w]
             \/ \E s \in CompactLine : s.digest = d /\ writers'[w] = Written(writers[w], s),
           Accounted(d)'
    PROVE  CompactRest'
<1>1. /\ Held' = Held /\ Files' = Files /\ Outputs' = Outputs /\ job' = job
    BY InputsDecide
<1>2. /\ writers \in Seq(WriterSet) /\ position \in Nat \ {0} /\ prepared \in Seq(Nat)
      /\ Len(writers) <= Outputs
    BY TypesOfTypes DEF CompactInv, CompactTypes
<1>3. /\ d \in Held /\ position \in DOMAIN Files /\ Files[position] = d
      /\ \A w \in DOMAIN writers : \A i \in DOMAIN writers[w].lines : writers[w].lines[i].digest < d
      /\ \A x : Past(x) => x # d /\ x \in Held
      /\ Tail(prepared) \in Seq(Nat) /\ Len(Tail(prepared)) = Len(prepared) - 1
      /\ \A k \in DOMAIN Tail(prepared) : Tail(prepared)[k] = Files[position + k]
      /\ position + Len(prepared) <= Len(Files) + 1
      /\ DOMAIN writers = 1 .. Outputs
    BY NextFile
<1>4. DOMAIN writers' = DOMAIN writers
    BY <1>2
<1>5. Files \in Seq(Held) /\ NumbersAscend(Files) /\ Held \in SUBSET (Nat \ {0})
    BY FilesFacts, HeldFacts DEF CompactInv, FilesAreListed, HeldIsFinite
<1>6. jobError = NoError /\ jobResult = NoError /\ \A w \in DOMAIN writers : writers[w].output = "open"
    BY DEF CompactInv, WritersAreInStep, InLoop
<1>7. CompactTypes'
  <2>1. position' \in Nat \ {0} /\ Len(writers') <= Outputs
      BY <1>2
  <2> QED BY <1>3, <1>6, <2>1, TypesFromParts DEF CompactInv
<1>8. \A w \in DOMAIN writers :
        /\ writers'[w].output = "open"
        /\ \/ writers'[w] = writers[w]
           \/ \E s \in CompactLine : /\ s.digest = d /\ writers'[w].last_written = d
                                     /\ writers'[w].lines = Append(writers[w].lines, s)
  <2> TAKE w \in DOMAIN writers
  <2>1. CASE writers'[w] = writers[w]
      BY <2>1, <1>6
  <2>2. CASE writers'[w] # writers[w]
    <3>1. PICK s \in CompactLine : s.digest = d /\ writers'[w] = Written(writers[w], s)
        BY <2>2
    <3>2. writers[w] \in WriterSet
        BY <1>2
    <3>3. /\ Written(writers[w], s).lines = Append(writers[w].lines, s)
          /\ Written(writers[w], s).last_written = s.digest
          /\ Written(writers[w], s).output = writers[w].output
        BY <3>2, WriterFacts
    <3> QED BY <1>6, <3>1, <3>3
  <2> QED BY <2>1, <2>2
<1>9. WritersAreInStep'
  <2>1. Len(writers') = Outputs'
      BY <1>1 DEF CompactInv, WritersAreInStep, InLoop
  <2> QED BY <1>4, <1>6, <1>8, <2>1 DEF WritersAreInStep, BeforeLoop, InLoop, OutputsAreFinished
<1>10. \A x : Past(x)' <=> Past(x) \/ x = d
  <2> TAKE x
  <2>1. Past(x) <=> \E i \in DOMAIN Files : i < position /\ Files[i] = x
      BY DEF Past, InLoop
  <2>2. Past(x)' <=> \E i \in DOMAIN Files : i < position + 1 /\ Files[i] = x
      BY <1>1 DEF Past, InLoop
  <2>3. \A i \in DOMAIN Files : i < position + 1 <=> i < position \/ i = position
      BY <1>2, <1>5
  <2> QED BY <1>3, <2>1, <2>2, <2>3
<1>11. \A w \in DOMAIN writers : writers[w].lines \in Seq(CompactLine)
  <2>1. \A w \in DOMAIN writers : writers[w] \in WriterSet
      BY <1>2
  <2> QED BY <2>1 DEF WriterSet, WriterType
<1>12. \A w \in DOMAIN writers : \A x :
         /\ x \in LinesOf(w) => x \in LinesOf(w)'
         /\ x \in LinesOf(w)' => x \in LinesOf(w) \/ x = d
  <2> TAKE w \in DOMAIN writers
  <2> TAKE x
  <2>1. CASE writers'[w] = writers[w]
      BY <2>1 DEF LinesOf
  <2>2. CASE writers'[w] # writers[w]
    <3>1. PICK s \in CompactLine : s.digest = d /\ writers'[w].lines = Append(writers[w].lines, s)
        BY <1>8, <2>2
    <3>2. PICK q \in Seq(CompactLine) : q = writers[w].lines
        BY <1>11
    <3>3. /\ \A i \in DOMAIN q : i \in DOMAIN Append(q, s) /\ Append(q, s)[i] = q[i]
          /\ \A i \in DOMAIN Append(q, s) : i \in DOMAIN q \/ i = Len(q) + 1
          /\ Append(q, s)[Len(q) + 1] = s
        BY Appended
    <3> QED BY <3>1, <3>2, <3>3 DEF LinesOf
  <2> QED BY <2>1, <2>2
<1>13. \A x \in Held' : Past(x)' => Accounted(x)'
  <2> SUFFICES ASSUME NEW x \in Held, Past(x)' PROVE Accounted(x)'
      BY <1>1
  <2>1. CASE x = d
      BY <2>1
  <2>2. CASE x # d
    <3>1. Past(x) /\ Accounted(x)
        BY <1>10, <2>2 DEF CompactInv
    <3>2. \A w \in DOMAIN writers : x \in LinesOf(w)' <=> x \in LinesOf(w)
        BY <1>12, <2>2
    <3> QED BY <1>3, <1>4, <3>1, <3>2, OthersStayAccounted DEF CompactInv
  <2> QED BY <2>1, <2>2
<1>14. LinesAscend'
  <2> SUFFICES ASSUME NEW w \in DOMAIN writers, NEW i \in DOMAIN writers'[w].lines,
                      NEW j \in DOMAIN writers'[w].lines, i < j
               PROVE  writers'[w].lines[i].digest < writers'[w].lines[j].digest
      BY <1>4 DEF LinesAscend
  <2>1. CASE writers'[w] = writers[w]
      BY <2>1 DEF CompactInv, LinesAscend
  <2>2. CASE writers'[w] # writers[w]
    <3>1. PICK s \in CompactLine : s.digest = d /\ writers'[w].lines = Append(writers[w].lines, s)
        BY <1>8, <2>2
    <3>2. PICK q \in Seq(CompactLine) : q = writers[w].lines
        BY <1>11
    <3>3. /\ \A k \in DOMAIN q : Append(q, s)[k] = q[k]
          /\ \A k \in DOMAIN Append(q, s) : k \in DOMAIN q \/ k = Len(q) + 1
          /\ Append(q, s)[Len(q) + 1] = s
        BY Appended
    <3>4. i \in DOMAIN q /\ Len(q) \in Nat
      <4>1. j <= Len(q) + 1 /\ i \in 1 .. Len(q) + 1
          BY <3>1, <3>2
      <4> QED BY <4>1, <3>1, <3>2
    <3>5. CASE j \in DOMAIN q
        BY <3>1, <3>2, <3>3, <3>4, <3>5 DEF CompactInv, LinesAscend
    <3>6. CASE j = Len(q) + 1
      <4>1. writers[w].lines[i].digest < d
          BY <3>2, <3>4, <1>3
      <4>2. /\ writers'[w].lines[i] = q[i] /\ q[i] = writers[w].lines[i]
            /\ writers'[w].lines[j] = s /\ s.digest = d
          BY <3>1, <3>2, <3>3, <3>4, <3>6
      <4> QED BY <4>1, <4>2
    <3>7. j \in DOMAIN q \/ j = Len(q) + 1
        BY <3>1, <3>2, <3>3
    <3> QED BY <3>5, <3>6, <3>7
  <2> QED BY <2>1, <2>2
<1>15. ChunkIsNext'
  <2>1. position' + Len(prepared') <= Len(Files') + 1
      BY <1>1, <1>2, <1>3, <1>5
  <2>2. \A k \in DOMAIN prepared' : prepared'[k] = Files'[position' + k - 1]
    <3> SUFFICES ASSUME NEW k \in DOMAIN prepared' PROVE prepared'[k] = Files[position + 1 + k - 1]
        BY <1>1
    <3>1. k \in DOMAIN Tail(prepared)
        OBVIOUS
    <3>2. k \in Nat
        BY <1>3, <3>1
    <3>3. position + 1 + k - 1 = position + k
        BY <1>2, <3>2
    <3> QED BY <1>3, <3>1, <3>3
  <2>3. ASSUME NEW w \in DOMAIN writers
        PROVE  /\ \A x \in LinesOf(w)' : Past(x)'
               /\ writers'[w].last_written =
                    LET lines == writers'[w].lines
                    IN  IF lines = <<>> THEN NoDigest ELSE lines[Len(lines)].digest
    <3>1. \A x \in LinesOf(w)' : Past(x)'
        BY <1>10, <1>12 DEF CompactInv, ChunkIsNext, InLoop
    <3>2. CASE writers'[w] = writers[w]
        BY <3>1, <3>2 DEF CompactInv, ChunkIsNext, InLoop
    <3>3. CASE writers'[w] # writers[w]
      <4>1. PICK s \in CompactLine : /\ s.digest = d /\ writers'[w].last_written = d
                                     /\ writers'[w].lines = Append(writers[w].lines, s)
          BY <1>8, <3>3
      <4>2. PICK q \in Seq(CompactLine) : q = writers[w].lines
          BY <1>11
      <4>3. Append(q, s) # <<>> /\ Append(q, s)[Len(Append(q, s))] = s
          BY Appended
      <4> QED BY <3>1, <4>1, <4>2, <4>3
    <3> QED BY <3>2, <3>3
  <2> QED BY <1>4, <2>1, <2>2, <2>3 DEF ChunkIsNext, InLoop
<1> QED BY <1>7, <1>9, <1>13, <1>14, <1>15 DEF CompactRest, BeforeLoop

LEMMA SkipKeeps ==
    ASSUME CompactInv, UNCHANGED inputs, SkipNext
    PROVE  CompactRest'
<1>1. PICK d : d = Head(prepared)
    OBVIOUS
<1>2. PICK skip : skip = Skipped(d)
    OBVIOUS
<1>3. /\ at = "write" /\ at' = "write" /\ prepared # <<>> /\ skip # Unskipped
      /\ prepared' = Tail(prepared) /\ position' = position + 1
      /\ UNCHANGED <<resolver, writers, jobError, jobResult>>
      /\ tally' = [tally EXCEPT !.skipped[skip] = Append(@, d)]
    BY <1>1, <1>2 DEF SkipNext
<1>4. /\ d \in Held /\ \A w \in DOMAIN writers : d \notin LinesOf(w)
    BY <1>1, <1>3, NextFile
<1>5. skip \in SkipReasons
    BY <1>2, <1>3, <1>4, SortingFacts DEF CompactInv, FilesAreSorted
<1>6. d \in Nat
    BY <1>4, HeldFacts DEF CompactInv, HeldIsFinite
<1>7. PICK q \in Seq(Nat) : q = tally.skipped[skip]
    BY <1>5 DEF CompactInv, CompactTypes, Tally
<1>8. /\ tally' \in Tally
      /\ tally'.unresolved = tally.unresolved
      /\ tally'.skipped[skip] = Append(q, d)
      /\ \A r \in SkipReasons : r # skip => tally'.skipped[r] = tally.skipped[r]
  <2>1. tally.skipped \in [SkipReasons -> Seq(Nat)]
      BY DEF CompactInv, CompactTypes, Tally
  <2>2. PICK sk : sk = [tally.skipped EXCEPT ![skip] = Append(q, d)]
      OBVIOUS
  <2>3. Append(q, d) \in Seq(Nat)
      BY <1>6
  <2>4. /\ sk \in [SkipReasons -> Seq(Nat)] /\ sk[skip] = Append(q, d)
        /\ \A r \in SkipReasons : r # skip => sk[r] = tally.skipped[r]
      BY <1>5, <2>1, <2>2, <2>3
  <2>5. tally' = [tally EXCEPT !.skipped = sk]
      BY <1>3, <1>7, <2>2
  <2> QED BY <2>4, <2>5 DEF CompactInv, CompactTypes, Tally
<1>9. \A r \in SkipReasons : \A i \in DOMAIN tally.skipped[r] :
        \E j \in DOMAIN tally'.skipped[r] : tally'.skipped[r][j] = tally.skipped[r][i]
  <2> TAKE r \in SkipReasons
  <2>1. CASE r = skip
    <3>1. \A i \in DOMAIN q : i \in DOMAIN Append(q, d) /\ Append(q, d)[i] = q[i]
        BY <1>6, Appended
    <3> QED BY <2>1, <3>1, <1>7, <1>8
  <2>2. CASE r # skip
      BY <2>2, <1>8
  <2> QED BY <2>1, <2>2
<1>10. Accounted(d)'
  <2>1. Skipped(d)' = skip
      BY <1>2, InputsDecide
  <2>2. Len(q) + 1 \in DOMAIN Append(q, d) /\ Append(q, d)[Len(q) + 1] = d
      BY <1>6, Appended
  <2>3. \E i \in DOMAIN tally'.skipped[skip] : tally'.skipped[skip][i] = d
      BY <1>8, <2>2
  <2>4. \A w \in DOMAIN writers' : d \notin LinesOf(w)'
      BY <1>3, <1>4 DEF LinesOf
  <2> QED BY <1>3, <2>1, <2>3, <2>4 DEF Accounted
<1>11. writers' \in Seq(WriterSet) /\ Len(writers') = Len(writers)
    BY <1>3, TypesOfTypes DEF CompactInv
<1>12. \A i \in DOMAIN tally.unresolved :
         \E j \in DOMAIN tally'.unresolved : tally'.unresolved[j] = tally.unresolved[i]
    BY <1>8
<1> QED BY <1>1, <1>3, <1>8, <1>9, <1>10, <1>11, <1>12, AdvanceKeeps

\* The counts, with one of them replaced.
WithExpected(t, n) == [t EXCEPT !.expected_digest_count = n]
WithResolved(t, n) == [t EXCEPT !.resolved_count = n]
WithWarnings(t, q) == [t EXCEPT !.warnings = q]
Recounted(t0, t) == t \in Tally /\ t.skipped = t0.skipped /\ t.unresolved = t0.unresolved
LEMMA TallyParts ==
    ASSUME NEW t0 \in Tally
    PROVE  /\ \A n \in Nat : Recounted(t0, WithExpected(t0, n)) /\ Recounted(t0, WithResolved(t0, n))
           /\ \A q \in Seq(Nat) : Recounted(t0, WithWarnings(t0, q))
BY DEF Tally, Recounted, WithExpected, WithResolved, WithWarnings

\* The counts of a file that is not skipped.
LEMMA CountedFacts ==
    ASSUME CompactInv, NEW d \in Nat, NEW t, t = Counted(d)
    PROVE  /\ t \in Tally /\ t.skipped = tally.skipped
           /\ \A i \in DOMAIN tally.unresolved :
                \E j \in DOMAIN t.unresolved : t.unresolved[j] = tally.unresolved[i]
           /\ job # "pack" /\ d \notin Resolved(resolver)
                => \E j \in DOMAIN t.unresolved : t.unresolved[j] = d
<1>1. PICK t0 \in Tally : t0 = tally
    BY DEF CompactInv, CompactTypes
<1>2. t0.resolved_count \in Nat /\ t0.expected_digest_count \in Nat /\ t0.warnings \in Seq(Nat)
      /\ t0.unresolved \in Seq(Nat)
    BY DEF Tally
<1>3. CASE job = "pack"
  <2>1. \E n \in {0, 1} : t = WithExpected(t0, t0.expected_digest_count + n)
      BY <1>1, <1>3 DEF Counted, WithExpected
  <2>2. PICK n \in Nat : t = WithExpected(t0, n)
      BY <1>2, <2>1
  <2>3. Recounted(t0, t)
      BY <2>2, TallyParts
  <2> QED BY <1>1, <1>3, <2>3 DEF Recounted
<1>4. CASE job # "pack" /\ d \notin Resolved(resolver)
  <2>1. t = [t0 EXCEPT !.unresolved = Append(@, d)]
      BY <1>1, <1>4 DEF Counted
  <2>2. PICK q \in Seq(Nat) : q = t0.unresolved
      BY <1>2
  <2>3. /\ Append(q, d) \in Seq(Nat)
        /\ Len(q) + 1 \in DOMAIN Append(q, d) /\ Append(q, d)[Len(q) + 1] = d
        /\ \A i \in DOMAIN q : i \in DOMAIN Append(q, d) /\ Append(q, d)[i] = q[i]
      BY Appended
  <2>4. t \in Tally /\ t.skipped = t0.skipped /\ t.unresolved = Append(q, d)
      BY <2>1, <2>2, <2>3 DEF Tally
  <2> QED BY <1>1, <2>2, <2>3, <2>4
<1>5. CASE job # "pack" /\ d \in Resolved(resolver)
  <2>1. PICK n \in Nat : n = t0.resolved_count + 1
      BY <1>2
  <2>2. PICK ws \in {t0.warnings, Append(t0.warnings, d)} :
           t = [t0 EXCEPT !.resolved_count = t0.resolved_count + 1, !.warnings = ws]
      BY <1>1, <1>5 DEF Counted
  <2>3. ws \in Seq(Nat)
    <3>1. Append(t0.warnings, d) \in Seq(Nat)
        BY <1>2
    <3> QED BY <1>2, <2>2, <3>1
  <2>4. PICK t1 : t1 = WithResolved(t0, n)
      OBVIOUS
  <2>5. t = WithWarnings(t1, ws)
      BY <2>1, <2>2, <2>4 DEF Tally, WithResolved, WithWarnings
  <2>6. Recounted(t0, t1)
      BY <2>4, TallyParts
  <2>7. t1 \in Tally
      BY <2>6 DEF Recounted
  <2>8. Recounted(t1, t)
      BY <2>3, <2>5, <2>7, TallyParts
  <2> QED BY <1>1, <1>5, <2>6, <2>8 DEF Recounted
<1> QED BY <1>3, <1>4, <1>5

LEMMA WriteKeeps ==
    ASSUME CompactInv, UNCHANGED inputs, NEW ok \in BOOLEAN, WriteNext(ok)
    PROVE  CompactRest'
<1>1. PICK d : d = Head(prepared)
    OBVIOUS
<1>2. /\ at = "write" /\ prepared # <<>> /\ Skipped(d) = Unskipped /\ tally' = Counted(d)
      /\ UNCHANGED <<resolver, jobResult>>
    BY <1>1 DEF WriteNext
<1>3. /\ d \in Held /\ DOMAIN writers = 1 .. Outputs
      /\ \A w \in DOMAIN writers : d \notin LinesOf(w) /\ writers[w].last_written # d
    BY <1>1, <1>2, NextFile
<1>4. d \in Nat
    BY <1>3, HeldFacts DEF CompactInv, HeldIsFinite
<1>5. /\ tally' \in Tally /\ tally'.skipped = tally.skipped
      /\ \A i \in DOMAIN tally.unresolved :
           \E j \in DOMAIN tally'.unresolved : tally'.unresolved[j] = tally.unresolved[i]
      /\ job # "pack" /\ d \notin Resolved(resolver)
           => \E j \in DOMAIN tally'.unresolved : tally'.unresolved[j] = d
    BY <1>2, <1>4, CountedFacts
<1>6. PICK x : x = Index(d)
    OBVIOUS
<1>7. x \in DOMAIN writers
    BY <1>2, <1>3, <1>6, SortingFacts DEF CompactInv, FilesAreSorted
<1>8. writers \in Seq(WriterSet) /\ position \in Nat \ {0}
    BY TypesOfTypes DEF CompactInv
<1>9. CASE ok
  <2>1. PICK s \in Snapshots(d) :
            writers' = [writers EXCEPT ![x] = IF IsWanted(d) /\ ~ Repeats(@, d) THEN Written(@, s) ELSE @]
      BY <1>1, <1>6, <1>9 DEF WriteNext
  <2>2. s \in CompactLine /\ s.digest = d
      BY <1>2, <1>3, SnapshotFacts DEF CompactInv, InLoop
  <2>3. prepared' = Tail(prepared) /\ position' = position + 1 /\ UNCHANGED <<at, jobError>>
      BY <1>1, <1>9 DEF WriteNext
  <2>4. PICK v : v = IF IsWanted(d) THEN Written(writers[x], s) ELSE writers[x]
      OBVIOUS
  <2>5. ~ Repeats(writers[x], d)
      BY <1>3, <1>7 DEF Repeats
  <2>6. writers' = [writers EXCEPT ![x] = v]
      BY <2>1, <2>4, <2>5
  <2>7. writers[x] \in WriterSet /\ v \in WriterSet
      BY <1>7, <1>8, <2>2, <2>4, WriterFacts
  <2>8. /\ writers' \in Seq(WriterSet) /\ Len(writers') = Len(writers)
        /\ DOMAIN writers' = DOMAIN writers
        /\ \A j \in DOMAIN writers : writers'[j] = IF j = x THEN v ELSE writers[j]
      BY <1>8, <2>6, <2>7, WritersStayWriters
  <2>9. \A w \in DOMAIN writers :
          \/ writers'[w] = writers[w]
          \/ \E q \in CompactLine : q.digest = d /\ writers'[w] = Written(writers[w], q)
      BY <2>2, <2>4, <2>8
  <2>10. Accounted(d)'
    <3>1. Skipped(d)' = Unskipped /\ Index(d)' = x /\ job' = job /\ skipUnresolved' = skipUnresolved
        BY <1>2, <1>6, InputsDecide
    <3>2. IsWanted(d)' = IsWanted(d)
        BY <1>2, <3>1 DEF IsWanted
    <3>3. IsWanted(d) => \E i \in DOMAIN writers'[x].lines : writers'[x].lines[i].digest = d
      <4> SUFFICES ASSUME IsWanted(d) PROVE \E i \in DOMAIN writers'[x].lines : writers'[x].lines[i].digest = d
          OBVIOUS
      <4>1. writers'[x].lines = Append(writers[x].lines, s)
          BY <1>7, <2>2, <2>4, <2>7, <2>8, WriterFacts, SMTT(30)
      <4>2. PICK q \in Seq(CompactLine) : q = writers[x].lines
          BY <2>7 DEF WriterSet, WriterType
      <4>3. Len(q) + 1 \in DOMAIN Append(q, s) /\ Append(q, s)[Len(q) + 1] = s
          BY <2>2, Appended
      <4> QED BY <2>2, <4>1, <4>2, <4>3
    <3>4. ~ IsWanted(d) => \E i \in DOMAIN tally'.unresolved : tally'.unresolved[i] = d
        BY <1>5 DEF IsWanted
    <3>5. \A w \in DOMAIN writers' \ {x} : d \notin LinesOf(w)'
        BY <1>3, <2>8 DEF LinesOf
    <3> QED BY <3>1, <3>2, <3>3, <3>4, <3>5 DEF Accounted, LinesOf
  <2>11. \A r \in SkipReasons : \A i \in DOMAIN tally.skipped[r] :
           \E j \in DOMAIN tally'.skipped[r] : tally'.skipped[r][j] = tally.skipped[r][i]
      BY <1>5
  <2>12. at' = "write"
      BY <1>2, <2>3
  <2> QED BY <1>1, <1>2, <1>5, <2>3, <2>8, <2>9, <2>10, <2>11, <2>12, AdvanceKeeps
<1>10. CASE ~ ok
  <2>1. /\ jobError' = "Io" /\ at' = "finish" /\ position' = 1 /\ UNCHANGED <<writers, prepared>>
      BY <1>1, <1>10 DEF WriteNext, Go
  <2>2. Outputs' = Outputs /\ Outputs \in Nat \ {0}
      BY InputsDecide, OutputsIsNat DEF CompactInv
  <2>3. CompactTypes'
    <3>1. Len(writers) <= Outputs /\ prepared \in Seq(Nat)
          /\ jobResult \in {NoError, "Io", "Sqlite", "Resolver"}
        BY DEF CompactInv, CompactTypes, CompactTypeOK
    <3> QED BY <1>2, <1>5, <1>8, <2>1, <3>1, TypesFromParts DEF CompactInv
  <2>4. WritersAreInStep'
    <3>1. /\ Len(writers) = Outputs /\ jobResult = NoError
          /\ \A w \in DOMAIN writers : writers[w].output = "open"
        BY <1>2 DEF CompactInv, WritersAreInStep, InLoop
    <3>2. \A w \in DOMAIN writers : w >= 1
        BY <1>3, <2>2
    <3> QED BY <1>2, <2>1, <2>2, <3>1, <3>2 DEF WritersAreInStep, BeforeLoop, InLoop, OutputsAreFinished
  <2>5. \A e : ~ Past(e)'
      BY <2>1 DEF Past, InLoop, NoError
  <2>6. LinesAscend'
      BY <2>1 DEF CompactInv, LinesAscend
  <2>7. ChunkIsNext'
      BY <2>1 DEF ChunkIsNext, InLoop
  <2> QED BY <2>1, <2>3, <2>4, <2>5, <2>6, <2>7 DEF CompactRest, BeforeLoop
<1> QED BY <1>9, <1>10

\* What stays accounted for when neither the lists nor the lines change.
LEMMA NothingIsWritten ==
    ASSUME CompactTypes, UNCHANGED inputs, UNCHANGED <<resolver, writers, tally>>
    PROVE  /\ \A e : LinesOf(e)' = LinesOf(e)
           /\ \A e \in Held : Accounted(e) => Accounted(e)'
<1>1. \A e : /\ Skipped(e)' = Skipped(e) /\ Index(e)' = Index(e) /\ job' = job
             /\ skipUnresolved' = skipUnresolved
    BY InputsDecide
<1>2. \A e : IsWanted(e)' = IsWanted(e)
    BY <1>1 DEF IsWanted
<1>3. \A e : LinesOf(e)' = LinesOf(e)
    BY DEF LinesOf
<1>4. ASSUME NEW e \in Held, Accounted(e) PROVE Accounted(e)'
  <2>1. CASE Skipped(e) # Unskipped
      BY <1>1, <1>3, <1>4, <2>1 DEF Accounted
  <2>2. CASE Skipped(e) = Unskipped
    <3>1. PICK x : x = Index(e)
        OBVIOUS
    <3> QED BY <1>1, <1>2, <1>3, <1>4, <2>2, <3>1 DEF Accounted
  <2> QED BY <2>1, <2>2
<1> QED BY <1>3, <1>4

LEMMA ChunksKeep ==
    ASSUME CompactInv, UNCHANGED inputs, PrepareChunk \/ ChunkDone
    PROVE  CompactRest'
<1>1. /\ Held' = Held /\ Files' = Files /\ Outputs' = Outputs
    BY InputsDecide
<1>2. /\ InLoop /\ InLoop' /\ UNCHANGED <<position, resolver, writers, tally, jobError, jobResult>>
    BY DEF PrepareChunk, ChunkDone, InLoop
<1>3. /\ writers \in Seq(WriterSet) /\ position \in Nat \ {0} /\ prepared \in Seq(Nat)
      /\ Len(writers) <= Outputs
    BY TypesOfTypes DEF CompactInv, CompactTypes
<1>4. Files \in Seq(Held) /\ Held \in SUBSET (Nat \ {0})
    BY FilesFacts, HeldFacts DEF CompactInv, FilesAreListed, HeldIsFinite
<1>5. /\ prepared' \in Seq(Nat)
      /\ at' = "prepare" => prepared' = <<>> /\ position <= Len(Files) + 1
      /\ at' = "write" =>
           /\ position + Len(prepared') <= Len(Files) + 1
           /\ \A k \in DOMAIN prepared' : prepared'[k] = Files[position + k - 1]
  <2>1. CASE PrepareChunk
    <3>1. at' = "write" /\ position <= Len(Files) /\ prepared' = ChunkOf(Files)
        BY <2>1 DEF PrepareChunk
    <3>2. PICK e : e = IF position + FileChunk - 1 < Len(Files) THEN position + FileChunk - 1
                       ELSE Len(Files)
        OBVIOUS
    <3>3. prepared' = SubSeq(Files, position, e)
        BY <3>1, <3>2 DEF ChunkOf
    <3>4. PICK s : s = SubSeq(Files, position, e)
        OBVIOUS
    <3>5. /\ s \in Seq(Held) /\ e \in Nat /\ position <= e /\ e <= Len(Files)
          /\ Len(s) = e - position + 1
          /\ \A k \in 1 .. e - position + 1 : s[k] = Files[position + k - 1]
        BY <1>3, <1>4, <3>1, <3>2, <3>4, ChunkOfFiles
    <3>6. Held \subseteq Nat
        BY <1>4
    <3>7. s \in Seq(Nat)
        BY <3>5, <3>6, SeqWidens
    <3>8. position + Len(s) <= Len(Files) + 1
        BY <1>3, <1>4, <3>5
    <3>9. \A k \in DOMAIN s : s[k] = Files[position + k - 1]
        BY <3>5
    <3> QED BY <3>1, <3>3, <3>4, <3>7, <3>8, <3>9
  <2>2. CASE ChunkDone
    <3>1. at = "write" /\ at' = "prepare" /\ prepared = <<>> /\ prepared' = prepared
        BY <2>2 DEF ChunkDone
    <3>2. position + 0 <= Len(Files) + 1
        BY <3>1 DEF CompactInv, ChunkIsNext
    <3>3. position <= Len(Files) + 1
        BY <1>3, <3>2
    <3> QED BY <1>3, <3>1, <3>3
  <2> QED BY <2>1, <2>2
<1>6. jobError = NoError /\ jobResult = NoError /\ \A w \in DOMAIN writers : writers[w].output = "open"
    BY <1>2 DEF CompactInv, WritersAreInStep
<1>7. CompactTypes'
  <2>1. tally \in Tally
      BY DEF CompactInv, CompactTypes
  <2> QED BY <1>2, <1>3, <1>5, <1>6, <2>1, TypesFromParts DEF CompactInv, InLoop
<1>8. WritersAreInStep'
  <2>1. Len(writers) = Outputs
      BY <1>2 DEF CompactInv, WritersAreInStep
  <2>2. at' \in {"prepare", "write"}
      BY <1>2 DEF InLoop
  <2> QED BY <1>1, <1>2, <1>6, <2>1, <2>2 DEF WritersAreInStep, BeforeLoop, InLoop, OutputsAreFinished
<1>9. \A x : Past(x)' <=> Past(x)
    BY <1>1, <1>2 DEF Past, InLoop
<1>10. \A e : LinesOf(e)' = LinesOf(e)
    BY <1>2, NothingIsWritten DEF CompactInv
<1>11. \A d \in Held' : Past(d)' => Accounted(d)'
    BY <1>1, <1>2, <1>9, NothingIsWritten DEF CompactInv
<1>12. LinesAscend'
    BY <1>2 DEF CompactInv, LinesAscend
<1>13. ChunkIsNext'
  <2>1. \A w \in DOMAIN writers : \A d \in LinesOf(w) : Past(d)
      BY <1>2 DEF CompactInv, ChunkIsNext
  <2>2. \A w \in DOMAIN writers' : \A d \in LinesOf(w)' : Past(d)'
      BY <1>2, <1>9, <1>10, <2>1
  <2>3. \A w \in DOMAIN writers' :
          writers'[w].last_written =
              LET lines == writers'[w].lines
              IN  IF lines = <<>> THEN NoDigest ELSE lines[Len(lines)].digest
      BY <1>2 DEF CompactInv, ChunkIsNext
  <2>4. /\ at' = "prepare" => prepared' = <<>> /\ position' <= Len(Files') + 1
        /\ at' = "write" =>
             /\ position' + Len(prepared') <= Len(Files') + 1
             /\ \A k \in DOMAIN prepared' : prepared'[k] = Files'[position' + k - 1]
      BY <1>1, <1>2, <1>5
  <2> QED BY <2>2, <2>3, <2>4 DEF ChunkIsNext
<1>14. ~ BeforeLoop'
    BY <1>2 DEF BeforeLoop, InLoop
<1> QED BY <1>7, <1>8, <1>11, <1>12, <1>13, <1>14 DEF CompactRest

LEMMA FilesDoneKeeps ==
    ASSUME CompactInv, UNCHANGED inputs, FilesDone
    PROVE  CompactRest'
<1>1. /\ Held' = Held /\ Files' = Files /\ Outputs' = Outputs
    BY InputsDecide
<1>2. /\ at = "prepare" /\ at' = "finish" /\ position' = 1 /\ position > Len(Files)
      /\ UNCHANGED <<resolver, writers, prepared, tally, jobError, jobResult>>
    BY DEF FilesDone, Go
<1>3. /\ writers \in Seq(WriterSet) /\ position \in Nat \ {0} /\ prepared \in Seq(Nat)
      /\ Len(writers) <= Outputs /\ Outputs \in Nat \ {0}
    BY TypesOfTypes, OutputsIsNat DEF CompactInv, CompactTypes
<1>4. jobError = NoError /\ jobResult = NoError /\ \A w \in DOMAIN writers : writers[w].output = "open"
    BY <1>2 DEF CompactInv, WritersAreInStep, InLoop
<1>5. CompactTypes'
  <2>1. tally \in Tally
      BY DEF CompactInv, CompactTypes
  <2> QED BY <1>2, <1>3, <1>4, <2>1, TypesFromParts DEF CompactInv
<1>6. WritersAreInStep'
  <2>1. Len(writers) = Outputs
      BY <1>2 DEF CompactInv, WritersAreInStep, InLoop
  <2>2. \A w \in DOMAIN writers : w >= 1
      BY <1>3
  <2> QED BY <1>1, <1>2, <1>3, <1>4, <2>1, <2>2 DEF WritersAreInStep, BeforeLoop, InLoop, OutputsAreFinished
<1>7. \A d \in Held : Past(d)
  <2> TAKE d \in Held
  <2>1. Files \in Seq(Held) /\ \E i \in DOMAIN Files : Files[i] = d
      BY FilesFacts DEF CompactInv, FilesAreListed
  <2>2. \A i \in DOMAIN Files : i < position
      BY <1>2, <1>3, <2>1
  <2> QED BY <1>2, <2>1, <2>2 DEF Past, InLoop
<1>8. \A d \in Held' : Past(d)' => Accounted(d)'
    BY <1>1, <1>2, <1>7, NothingIsWritten DEF CompactInv
<1>9. LinesAscend'
    BY <1>2 DEF CompactInv, LinesAscend
<1>10. ChunkIsNext'
    BY <1>2 DEF ChunkIsNext, InLoop
<1> QED BY <1>2, <1>5, <1>6, <1>8, <1>9, <1>10 DEF CompactRest, BeforeLoop

LEMMA FinishKeeps ==
    ASSUME CompactInv, UNCHANGED inputs, NEW outcome \in Outcomes, FinishNext(outcome)
    PROVE  CompactRest'
<1>1. /\ Held' = Held /\ Files' = Files /\ Outputs' = Outputs
    BY InputsDecide
<1>2. /\ at = "finish" /\ UNCHANGED <<resolver, prepared, tally, jobError>>
      /\ writers' = [writers EXCEPT ![position] = Finished(writers[position], outcome)]
    BY DEF FinishNext
<1>3. /\ writers \in Seq(WriterSet) /\ position \in Nat \ {0} /\ prepared \in Seq(Nat)
      /\ Len(writers) <= Outputs /\ Outputs \in Nat \ {0}
    BY TypesOfTypes, OutputsIsNat DEF CompactInv, CompactTypes
<1>4. /\ Len(writers) = Outputs /\ jobResult = NoError /\ position <= Outputs
      /\ \A w \in DOMAIN writers : writers[w].output = "open" <=> w >= position
    BY <1>2 DEF CompactInv, WritersAreInStep
<1>5. position \in DOMAIN writers
    BY <1>3, <1>4
<1>6. PICK f : f = Finished(writers[position], outcome)
    OBVIOUS
<1>7. writers[position] \in WriterSet
    BY <1>3, <1>5
<1>8. /\ f \in WriterSet /\ f.lines = writers[position].lines
      /\ f.output = outcome /\ outcome # "open"
    BY <1>6, <1>7, WriterFacts DEF Outcomes
<1>9. /\ writers' \in Seq(WriterSet) /\ Len(writers') = Len(writers)
      /\ DOMAIN writers' = DOMAIN writers
      /\ \A j \in DOMAIN writers : writers'[j] = IF j = position THEN f ELSE writers[j]
    BY <1>2, <1>3, <1>6, <1>8, WritersStayWriters
<1>10. \A w \in DOMAIN writers : writers'[w].lines = writers[w].lines
    BY <1>8, <1>9
<1>11. \A w \in DOMAIN writers : LinesOf(w)' = LinesOf(w)
    BY <1>10 DEF LinesOf
<1>12. \A w \in DOMAIN writers : writers'[w].output = "open" <=> w >= position + 1
  <2> TAKE w \in DOMAIN writers
  <2>1. w \in Nat
      BY <1>3
  <2>2. CASE w = position
      BY <1>8, <1>9, <2>1, <2>2
  <2>3. CASE w # position
      BY <1>3, <1>4, <1>9, <2>1, <2>3
  <2> QED BY <2>2, <2>3
<1>13. jobError \in {NoError, "Io"} /\ tally \in Tally
    BY DEF CompactInv, CompactTypes, CompactTypeOK
<1>14. LinesAscend'
  <2>1. \A w \in DOMAIN writers' : \A i, j \in DOMAIN writers'[w].lines :
          i < j => writers'[w].lines[i].digest < writers'[w].lines[j].digest
      BY <1>9, <1>10 DEF CompactInv, LinesAscend
  <2> QED BY <2>1 DEF LinesAscend
<1>15. \A d \in Held : jobError = NoError => Accounted(d)'
  <2> SUFFICES ASSUME NEW d \in Held, jobError = NoError PROVE Accounted(d)'
      OBVIOUS
  <2>1. Accounted(d)
      BY <1>2 DEF CompactInv, Past
  <2>2. DOMAIN writers = 1 .. Outputs
      BY <1>3, <1>4
  <2>3. \A w \in DOMAIN writers : d \in LinesOf(w)' <=> d \in LinesOf(w)
      BY <1>11
  <2> QED BY <1>2, <1>9, <2>1, <2>2, <2>3, OthersStayAccounted DEF CompactInv
<1>16. CASE position < Len(writers)
  <2>1. at' = "finish" /\ position' = position + 1 /\ UNCHANGED jobResult
      BY <1>2, <1>16 DEF FinishNext
  <2>2. position' \in Nat \ {0} /\ position' <= Outputs
      BY <1>3, <1>4, <1>16, <2>1
  <2>3. CompactTypes'
      BY <1>2, <1>3, <1>4, <1>9, <1>13, <2>1, <2>2, TypesFromParts DEF CompactInv
  <2>4. WritersAreInStep'
      BY <1>1, <1>4, <1>9, <1>12, <2>1, <2>2 DEF WritersAreInStep, BeforeLoop, InLoop, OutputsAreFinished
  <2>5. \A d \in Held' : Past(d)' => Accounted(d)'
      BY <1>1, <1>2, <1>15, <2>1 DEF Past, InLoop
  <2>6. ChunkIsNext'
      BY <2>1 DEF ChunkIsNext, InLoop
  <2> QED BY <1>14, <2>1, <2>3, <2>4, <2>5, <2>6 DEF CompactRest, BeforeLoop
<1>17. CASE ~ (position < Len(writers))
  <2>1. PICK failed \in BOOLEAN : failed = (\E i \in DOMAIN writers : writers'[i].output # "published")
      OBVIOUS
  <2>2. /\ at' = "done" /\ position' = 1
        /\ jobResult' = PreferLoopError(jobError, IF failed THEN "Io" ELSE NoError)
      BY <1>2, <1>17, <2>1 DEF FinishNext, Go
  <2>3. /\ jobResult' \in {NoError, "Io"}
        /\ jobResult' = NoError <=> jobError = NoError /\ ~ failed
      BY <1>13, <2>1, <2>2 DEF PreferLoopError, NoError
  <2>4. CompactTypes'
      BY <1>2, <1>3, <1>4, <1>9, <1>13, <2>2, <2>3, TypesFromParts DEF CompactInv
  <2>5. \A w \in DOMAIN writers : writers'[w].output # "open"
      BY <1>3, <1>4, <1>12, <1>17
  <2>7. writers' # <<>>
      BY <1>5, <1>9
  <2>8. OutputsAreFinished'
      BY <1>2, <1>9, <2>1, <2>3, <2>5, <2>7 DEF OutputsAreFinished, NoError
  <2>9. WritersAreInStep'
      BY <2>2, <2>8 DEF WritersAreInStep, BeforeLoop, InLoop
  <2>10. \A d \in Held' : Past(d)' => Accounted(d)'
      BY <1>1, <1>15, <2>2, <2>3 DEF Past, InLoop
  <2>11. ChunkIsNext'
      BY <2>2 DEF ChunkIsNext, InLoop
  <2> QED BY <1>14, <2>2, <2>4, <2>9, <2>10, <2>11 DEF CompactRest, BeforeLoop
<1> QED BY <1>16, <1>17

\* A step that changes nothing.
LEMMA StutterKeeps ==
    ASSUME CompactInv, UNCHANGED compactVars
    PROVE  CompactInv'
<1>1. /\ UNCHANGED inputs
      /\ UNCHANGED <<at, position, resolver, writers, prepared, tally, jobError, jobResult>>
    BY DEF compactVars, inputs
<1>2. /\ Held' = Held /\ Files' = Files /\ Outputs' = Outputs /\ job' = job /\ cdxFiles' = cdxFiles
      /\ WantedPairs' = WantedPairs
    BY <1>1, InputsDecide
<1>3. CompactTypes'
    BY <1>1, TypesFromParts, TypesOfTypes DEF CompactInv, CompactTypes, CompactTypeOK, WriterSet
<1>4. ResolverIsComplete'
    BY <1>1, <1>2 DEF CompactInv, ResolverIsComplete, FilesRead, InLoop
<1>5. WritersAreInStep'
    BY <1>1, <1>2 DEF CompactInv, WritersAreInStep, BeforeLoop, InLoop, OutputsAreFinished
<1>6. \A x : Past(x)' <=> Past(x)
    BY <1>1, <1>2 DEF Past, InLoop
<1>7. \A e : LinesOf(e)' = LinesOf(e)
    BY <1>1 DEF LinesOf
<1>8. \A d \in Held' : Past(d)' => Accounted(d)'
    BY <1>1, <1>2, <1>6, NothingIsWritten DEF CompactInv
<1>9. LinesAscend'
    BY <1>1 DEF CompactInv, LinesAscend
<1>10. ChunkIsNext'
  <2>1. InLoop => \A w \in DOMAIN writers : \A d \in LinesOf(w) : Past(d)
      BY DEF CompactInv, ChunkIsNext
  <2>2. InLoop' => \A w \in DOMAIN writers' : \A d \in LinesOf(w)' : Past(d)'
      BY <1>1, <1>6, <1>7, <2>1 DEF InLoop
  <2>3. InLoop' => \A w \in DOMAIN writers' :
          writers'[w].last_written =
              LET lines == writers'[w].lines
              IN  IF lines = <<>> THEN NoDigest ELSE lines[Len(lines)].digest
      BY <1>1 DEF CompactInv, ChunkIsNext, InLoop
  <2>4. /\ at' = "prepare" => prepared' = <<>> /\ position' <= Len(Files') + 1
        /\ at' = "write" =>
             /\ position' + Len(prepared') <= Len(Files') + 1
             /\ \A k \in DOMAIN prepared' : prepared'[k] = Files'[position' + k - 1]
      BY <1>1, <1>2 DEF CompactInv, ChunkIsNext
  <2> QED BY <2>2, <2>3, <2>4 DEF ChunkIsNext
<1>11. BeforeLoop' => prepared' = <<>>
    BY <1>1 DEF CompactInv, BeforeLoop
<1> QED BY <1>3, <1>4, <1>5, <1>8, <1>9, <1>10, <1>11 DEF CompactInv

LEMMA CompactInitially == CompactInit => CompactInv
<1> SUFFICES ASSUME CompactInit PROVE CompactInv
    OBVIOUS
<1>1. /\ at \in {"create", "log"} /\ at = (IF job = "compact" THEN "create" ELSE "log")
      /\ job \in {"compact", "pack"} /\ skipUnresolved \in BOOLEAN
      /\ directories \in DataDirectories /\ cdxFiles \in CdxFileLists /\ invalidLog \in InvalidLogs
      /\ position = 1 /\ writers = <<>> /\ prepared = <<>> /\ jobError = NoError /\ jobResult = NoError
    BY DEF CompactInit
<1>2. tally \in Tally
    BY DEF CompactInit, Tally
<1>3. Outputs \in Nat \ {0}
  <2>1. PartitionKeys \in Seq({PartitionKeys[i] : i \in DOMAIN PartitionKeys}) /\ Len(PartitionKeys) > 0
      BY CompactionAssumption
  <2> QED BY <2>1 DEF Outputs
<1>4. CompactTypes
    BY <1>1, <1>2, <1>3 DEF CompactTypes, CompactTypeOK, NoError
<1>5. WritersAreInStep
    BY <1>1, <1>3 DEF WritersAreInStep, BeforeLoop, InLoop, OutputsAreFinished
<1>6. \A d : ~ Past(d)
    BY <1>1 DEF Past, InLoop
<1>7. LinesAscend /\ ChunkIsNext
    BY <1>1 DEF LinesAscend, ChunkIsNext, InLoop
<1> QED BY <1>1, <1>4, <1>5, <1>6, <1>7, ResolverInitially DEF CompactInv

LEMMA CompactKept == CompactInv /\ [CompactNext]_compactVars => CompactInv'
<1> SUFFICES ASSUME CompactInv, [CompactNext]_compactVars PROVE CompactInv'
    OBVIOUS
<1>1. CASE UNCHANGED compactVars
    BY <1>1, StutterKeeps
<1>2. CASE CompactNext
  <2>1. UNCHANGED inputs
      BY InputsAreKept
  <2>2. ResolverIsComplete'
      BY <1>2, ResolverKept
  <2>3. CompactRest'
    <3>1. CASE \/ \E ok \in BOOLEAN : CreateWriter(ok) \/ LoadData(ok) \/ ReadLog(ok)
               \/ ResolveChunk \/ AllResolved
        BY <2>1, <3>1, OpeningKeeps
    <3>2. CASE PrepareChunk \/ ChunkDone
        BY <2>1, <3>2, ChunksKeep
    <3>3. CASE SkipNext
        BY <2>1, <3>3, SkipKeeps
    <3>4. CASE FilesDone
        BY <2>1, <3>4, FilesDoneKeeps
    <3>5. CASE \E ok \in BOOLEAN : WriteNext(ok)
        BY <2>1, <3>5, WriteKeeps
    <3>6. CASE \E outcome \in Outcomes : FinishNext(outcome)
        BY <2>1, <3>6, FinishKeeps
    <3> QED BY <1>2, <3>1, <3>2, <3>3, <3>4, <3>5, <3>6, CompactSteps
  <2> QED BY <2>2, <2>3 DEF CompactInv, CompactRest
<1> QED BY <1>1, <1>2

LEMMA CompactInvariant == CompactSpec => []CompactInv
<1> QED BY CompactInitially, CompactKept, PTL DEF CompactSpec

-----------------------------------------------------------------------------
(* What the invariant says *)

LEMMA AccountedFromInv == CompactInv => FilesAreAccounted
<1> SUFFICES ASSUME CompactInv PROVE FilesAreAccounted
    OBVIOUS
<1> DEFINE past == IF at = "done" /\ jobResult = NoError THEN Held
                   ELSE IF at \in {"prepare", "write"}
                   THEN {Files[i] : i \in {j \in DOMAIN Files : j < position}}
                   ELSE {}
<1>1. \A d \in past : d \in Held /\ Past(d)
  <2>1. Files \in Seq(Held)
      BY FilesFacts DEF CompactInv, FilesAreListed
  <2> QED BY <2>1 DEF Past, InLoop
<1>2. \A d \in past : Accounted(d)
    BY <1>1 DEF CompactInv
<1>3. CompactTypeOK /\ LinesAscend
    BY DEF CompactInv, CompactTypes
<1> QED BY <1>2, <1>3 DEF FilesAreAccounted, Accounted, LinesAscend

LEMMA FinishedFromInv == CompactInv => OutputsAreFinished
BY DEF CompactInv, WritersAreInStep

LEMMA EarliestFromInv == CompactInv => EarliestCapture
BY EarliestFromSearch DEF CompactInv

\* Compacting and packing lose no file and write none twice: every file the loop has gone past is a
\* line of the output of its partition, an entry of the list of the reason it was skipped for, or an
\* unresolved digest that was not wanted, after a success every file of the directories is, and the
\* digests of an output ascend, for every number of directories, files, CDX files, partitions and
\* every size of a chunk (compact_into, pack_into, Data::files).
THEOREM CompactionAccounts == CompactSpec => []FilesAreAccounted
<1>1. CompactInv => FilesAreAccounted
    BY AccountedFromInv
<1> QED BY <1>1, CompactInvariant, PTL

\* However a compaction ends, its outputs are all left open, and it has failed, or the finish of each
\* was tried; it succeeds exactly when there was no error and every one is published and its
\* directory synced, so that after an error some or all may be visible, but none if the log or a CDX
\* file could not be read (prefer_loop_error over the finishes of all the writers, write.rs:204-209).
THEOREM CompactionFinishesOutputs == CompactSpec => []OutputsAreFinished
<1>1. CompactInv => OutputsAreFinished
    BY FinishedFromInv
<1> QED BY <1>1, CompactInvariant, PTL

\* Whatever order the CDX files and their items come in and however they are cut into chunks, a
\* digest is given the earliest capture recorded for it, only when there is none the earliest under
\* a digest the log expected for it, and every other capture is a warning (resolve, to_resolution).
THEOREM CompactionFindsEarliest == CompactSpec => []EarliestCapture
<1>1. CompactInv => EarliestCapture
    BY EarliestFromInv
<1> QED BY <1>1, CompactInvariant, PTL

-----------------------------------------------------------------------------
(* The inductive invariant of a stream *)

StreamLine == SnapshotLine \cup {Failure}
TaskSet == [lines : Seq(Int), state : {"running", "parsed", "lost"}]
ValidationType ==
    [valid_count : Nat, invalid_lines : Seq(Nat), unexpected_digests : Seq(Nat),
     unsupported_formats : Seq(Nat), out_of_order : Seq(Nat), duplicates : Seq(Nat), last : Nat]

\* What a validation says of the first lines of a file.
SaidOf(s, n, verdicts) == {i \in 1 .. n : s[i].verdict \in verdicts}
PriorTo(s, i) == {s[j].digest : j \in {k \in 1 .. i - 1 : s[k].verdict = "valid"}}
AcceptedOf(s, n) == {i \in SaidOf(s, n, {"valid"}) : \A d \in PriorTo(s, i) : d < s[i].digest}
BehindOf(s, n) == {i \in SaidOf(s, n, {"valid"}) : \E d \in PriorTo(s, i) : d > s[i].digest}
IsGreatestOf(d, digests) == IF digests = {} THEN d = 0 ELSE d \in digests /\ \A e \in digests : e <= d
JudgedTo(v, s, n) ==
    /\ v \in ValidationType
    /\ v.valid_count = Cardinality(AcceptedOf(s, n))
    /\ IsListed(v.out_of_order, BehindOf(s, n))
    /\ IsListed(v.duplicates, SaidOf(s, n, {"valid"}) \ (AcceptedOf(s, n) \cup BehindOf(s, n)))
    /\ IsListed(v.invalid_lines, SaidOf(s, n, {"blank", "unparsed"}))
    /\ IsListed(v.unexpected_digests, SaidOf(s, n, {"mismatch"}))
    /\ IsListed(v.unsupported_formats, SaidOf(s, n, {"unsupported"}))
    /\ IsGreatestOf(v.last, PriorTo(s, n + 1))

\* What is on the way from the file to the consumer are consecutive lines, however they are cut into
\* chunks: the tasks begin where the one before them ends, and the last line is read again for ever
\* if it fails.  A file that cannot be opened gives one item.
ItemAt(bad, size, k) == IF bad THEN OpenError ELSE IF k <= size THEN k ELSE size
InOrder(bad, starts, total) ==
    /\ starts \in [1 .. Len(tasks) + 1 -> Nat]
    /\ starts[1] = seen + Len(ready)
    /\ \A i \in 1 .. Len(tasks) + 1 : starts[i] <= total
    /\ \A i \in DOMAIN tasks : starts[i + 1] = starts[i] + Len(tasks[i].lines)
    /\ \A k \in DOMAIN ready : ready[k] = ItemAt(bad, Len(source), seen + k)
    /\ \A i \in DOMAIN tasks : \A k \in DOMAIN tasks[i].lines :
         tasks[i].lines[k] = ItemAt(bad, Len(source), starts[i] + k)
    /\ \A k \in DOMAIN chunk : chunk[k] = ItemAt(bad, Len(source), starts[Len(tasks) + 1] + k)
    /\ \A k \in DOMAIN channel :
         channel[k] = ItemAt(bad, Len(source), starts[Len(tasks) + 1] + Len(chunk) + k)
    /\ total = starts[Len(tasks) + 1] + Len(chunk) + Len(channel)
Originates(bad, total) ==
    IF bad THEN reader = "ended" /\ seen = 0 /\ total = 1
    ELSE /\ total >= nextLine
         /\ total > nextLine => nextLine + 1 = Len(source) /\ source[Len(source)] = Failure
         /\ reader = "ended" => nextLine = Len(source)

StreamTypes ==
    /\ StreamTypeOK
    /\ chunk \in Seq(Int)
    /\ tasks \in Seq(TaskSet)
    /\ ready \in Seq(Int)
    /\ parallel = 1 => tasks = <<>> /\ chunk = <<>>
    /\ reader = "opening" =>
         /\ nextLine = 0 /\ seen = 0
         /\ channel = <<>> /\ chunk = <<>> /\ tasks = <<>> /\ ready = <<>>
    /\ receiving <=> answer = "none"
    /\ answer # "none" => ready = <<>> /\ channel = <<>> /\ chunk = <<>> /\ tasks = <<>>
    /\ answer = "error" => seen > 0
NothingIsSkipped ==
    answer = "none" /\ ready # <<Lost>> =>
      \E bad \in BOOLEAN, starts \in [1 .. Len(tasks) + 1 -> Nat], total \in Nat :
        InOrder(bad, starts, total) /\ Originates(bad, total)
SeenIsJudged ==
    /\ \A i \in LinesJudged : i \in DOMAIN source /\ source[i] # Failure
    /\ use = "validate" => JudgedTo(found, source, IF answer = "error" THEN seen - 1 ELSE seen)
    /\ answer = "ok" => seen = Len(source)

StreamInv == StreamTypes /\ NothingIsSkipped /\ SeenIsJudged

-----------------------------------------------------------------------------
(* What a line adds to a validation *)

LEMMA ListGrows ==
    ASSUME NEW list, NEW S, IsListed(list, S), NEW n \in Nat, \A i \in S : i <= n
    PROVE  IsListed(Append(list, n + 1), S \cup {n + 1})
<1>1. list \in Seq(Nat) /\ {list[i] : i \in DOMAIN list} = S
      /\ \A i, j \in DOMAIN list : i < j => list[i] < list[j]
    BY DEF IsListed
<1>2. PICK more : more = Append(list, n + 1)
    OBVIOUS
<1>3. /\ more \in Seq(Nat) /\ DOMAIN more = 1 .. Len(list) + 1 /\ DOMAIN list = 1 .. Len(list)
      /\ Len(list) \in Nat
      /\ more[Len(list) + 1] = n + 1
      /\ \A i \in DOMAIN list : more[i] = list[i]
    BY <1>1, <1>2
<1>4. {more[i] : i \in DOMAIN more} = S \cup {n + 1}
    BY <1>1, <1>3, SMTT(30)
<1>5. \A i, j \in DOMAIN more : i < j => more[i] < more[j]
  <2> SUFFICES ASSUME NEW i \in DOMAIN more, NEW j \in DOMAIN more, i < j PROVE more[i] < more[j]
      OBVIOUS
  <2>1. i \in DOMAIN list /\ list[i] \in S
      BY <1>1, <1>3
  <2>2. CASE j \in DOMAIN list
      BY <1>1, <1>3, <2>1, <2>2
  <2>3. CASE j = Len(list) + 1
    <3>1. list[i] <= n /\ list[i] \in Nat
        BY <1>1, <2>1
    <3> QED BY <1>3, <2>1, <2>3, <3>1
  <2> QED BY <1>3, <2>2, <2>3
<1> QED BY <1>2, <1>3, <1>4, <1>5 DEF IsListed

\* The sets that a line joins or leaves as they are.
LEMMA SetsGrow ==
    ASSUME NEW s, NEW n \in Nat, NEW verdicts
    PROVE  /\ SaidOf(s, n + 1, verdicts) =
                IF s[n + 1].verdict \in verdicts THEN SaidOf(s, n, verdicts) \cup {n + 1}
                ELSE SaidOf(s, n, verdicts)
           /\ \A i \in SaidOf(s, n, verdicts) : i \in Nat /\ i <= n
           /\ PriorTo(s, n + 2) =
                IF s[n + 1].verdict = "valid" THEN PriorTo(s, n + 1) \cup {s[n + 1].digest}
                ELSE PriorTo(s, n + 1)
<1>1. 1 .. n + 1 = (1 .. n) \cup {n + 1}
    OBVIOUS
<1>2. PriorTo(s, n + 2) = {s[j].digest : j \in {k \in 1 .. n + 1 : s[k].verdict = "valid"}}
  <2>1. n + 2 - 1 = n + 1
      OBVIOUS
  <2> QED BY <2>1 DEF PriorTo
<1>3. PriorTo(s, n + 1) = {s[j].digest : j \in {k \in 1 .. n : s[k].verdict = "valid"}}
  <2>1. n + 1 - 1 = n
      OBVIOUS
  <2> QED BY <2>1 DEF PriorTo
<1>4. SaidOf(s, n + 1, verdicts) =
        IF s[n + 1].verdict \in verdicts THEN SaidOf(s, n, verdicts) \cup {n + 1}
        ELSE SaidOf(s, n, verdicts)
    BY <1>1 DEF SaidOf
<1>5. \A i \in SaidOf(s, n, verdicts) : i \in Nat /\ i <= n
    BY DEF SaidOf
<1>6. CASE s[n + 1].verdict = "valid"
  <2>1. {k \in 1 .. n + 1 : s[k].verdict = "valid"} = {k \in 1 .. n : s[k].verdict = "valid"} \cup {n + 1}
      BY <1>1, <1>6
  <2>2. PriorTo(s, n + 2) = PriorTo(s, n + 1) \cup {s[n + 1].digest}
      BY <1>2, <1>3, <2>1
  <2> QED BY <1>4, <1>5, <1>6, <2>2
<1>7. CASE s[n + 1].verdict # "valid"
  <2>1. {k \in 1 .. n + 1 : s[k].verdict = "valid"} = {k \in 1 .. n : s[k].verdict = "valid"}
      BY <1>1, <1>7
  <2>2. PriorTo(s, n + 2) = PriorTo(s, n + 1)
      BY <1>2, <1>3, <2>1
  <2> QED BY <1>4, <1>5, <1>7, <2>2
<1> QED BY <1>6, <1>7

LEMMA AcceptedGrow ==
    ASSUME NEW s, NEW n \in Nat
    PROVE  /\ AcceptedOf(s, n + 1) =
                IF s[n + 1].verdict = "valid" /\ \A d \in PriorTo(s, n + 1) : d < s[n + 1].digest
                THEN AcceptedOf(s, n) \cup {n + 1} ELSE AcceptedOf(s, n)
           /\ BehindOf(s, n + 1) =
                IF s[n + 1].verdict = "valid" /\ \E d \in PriorTo(s, n + 1) : d > s[n + 1].digest
                THEN BehindOf(s, n) \cup {n + 1} ELSE BehindOf(s, n)
           /\ AcceptedOf(s, n) \subseteq 1 .. n /\ BehindOf(s, n) \subseteq 1 .. n
<1>1. SaidOf(s, n + 1, {"valid"}) =
        IF s[n + 1].verdict \in {"valid"} THEN SaidOf(s, n, {"valid"}) \cup {n + 1}
        ELSE SaidOf(s, n, {"valid"})
    BY SetsGrow
<1>2. SaidOf(s, n, {"valid"}) \subseteq 1 .. n
    BY DEF SaidOf
<1> QED BY <1>1, <1>2 DEF AcceptedOf, BehindOf

LEMMA JudgeKeeps ==
    ASSUME NEW s, NEW n \in Nat, s[n + 1] \in SnapshotLine, NEW v, JudgedTo(v, s, n),
           \A d \in PriorTo(s, n + 1) : d \in Nat \ {0}
    PROVE  JudgedTo(Judge(v, n + 1, s[n + 1]), s, n + 1)
<1>1. PICK l \in SnapshotLine : l = s[n + 1]
    OBVIOUS
<1>2. PICK after : after = Judge(v, n + 1, l)
    OBVIOUS
<1>3. /\ l.digest \in Nat \ {0} /\ l.verdict \in {"blank", "unparsed", "valid", "mismatch", "unsupported"}
    BY DEF SnapshotLine, Verdict
<1>4. /\ v \in ValidationType
      /\ v.valid_count = Cardinality(AcceptedOf(s, n))
      /\ IsListed(v.out_of_order, BehindOf(s, n))
      /\ IsListed(v.duplicates, SaidOf(s, n, {"valid"}) \ (AcceptedOf(s, n) \cup BehindOf(s, n)))
      /\ IsListed(v.invalid_lines, SaidOf(s, n, {"blank", "unparsed"}))
      /\ IsListed(v.unexpected_digests, SaidOf(s, n, {"mismatch"}))
      /\ IsListed(v.unsupported_formats, SaidOf(s, n, {"unsupported"}))
      /\ IsGreatestOf(v.last, PriorTo(s, n + 1))
    BY DEF JudgedTo
<1>5. \A list, S : IsListed(list, S) => list \in Seq(Nat) /\ Append(list, n + 1) \in Seq(Nat)
    BY DEF IsListed
<1>6. /\ v.valid_count \in Nat /\ v.last \in Nat /\ v.duplicates \in Seq(Nat) /\ v.out_of_order \in Seq(Nat)
    BY <1>4 DEF ValidationType
<1>7. PICK prior : prior = PriorTo(s, n + 1)
    OBVIOUS
<1>8. n + 1 + 1 = n + 2
    OBVIOUS
<1>9. /\ AcceptedOf(s, n) \subseteq 1 .. n /\ BehindOf(s, n) \subseteq 1 .. n
      /\ SaidOf(s, n, {"valid"}) \subseteq 1 .. n
    BY AcceptedGrow DEF SaidOf
<1>10. CASE l.verdict \in {"blank", "unparsed"}
  <2>1. after = [v EXCEPT !.invalid_lines = Append(@, n + 1)]
      BY <1>2, <1>10 DEF Judge
  <2>2. /\ AcceptedOf(s, n + 1) = AcceptedOf(s, n) /\ BehindOf(s, n + 1) = BehindOf(s, n)
        /\ PriorTo(s, n + 2) = prior
        /\ SaidOf(s, n + 1, {"valid"}) = SaidOf(s, n, {"valid"})
        /\ SaidOf(s, n + 1, {"mismatch"}) = SaidOf(s, n, {"mismatch"})
        /\ SaidOf(s, n + 1, {"unsupported"}) = SaidOf(s, n, {"unsupported"})
        /\ SaidOf(s, n + 1, {"blank", "unparsed"}) = SaidOf(s, n, {"blank", "unparsed"}) \cup {n + 1}
      BY <1>1, <1>7, <1>10, AcceptedGrow, SetsGrow
  <2>3. IsListed(Append(v.invalid_lines, n + 1), SaidOf(s, n + 1, {"blank", "unparsed"}))
    <3>1. \A i \in SaidOf(s, n, {"blank", "unparsed"}) : i <= n
        BY DEF SaidOf
    <3> QED BY <1>4, <2>2, <3>1, ListGrows
  <2>4. Append(v.invalid_lines, n + 1) \in Seq(Nat)
      BY <1>4, <1>5
  <2>5. /\ after \in ValidationType /\ after.invalid_lines = Append(v.invalid_lines, n + 1)
        /\ after.valid_count = v.valid_count /\ after.out_of_order = v.out_of_order
        /\ after.duplicates = v.duplicates /\ after.unexpected_digests = v.unexpected_digests
        /\ after.unsupported_formats = v.unsupported_formats /\ after.last = v.last
      BY <1>4, <2>1, <2>4 DEF ValidationType
  <2> QED BY <1>1, <1>2, <1>4, <1>7, <1>8, <2>2, <2>3, <2>5 DEF JudgedTo
<1>11. CASE l.verdict = "mismatch"
  <2>1. after = [v EXCEPT !.unexpected_digests = Append(@, n + 1)]
      BY <1>2, <1>11 DEF Judge
  <2>2. /\ AcceptedOf(s, n + 1) = AcceptedOf(s, n) /\ BehindOf(s, n + 1) = BehindOf(s, n)
        /\ PriorTo(s, n + 2) = prior
        /\ SaidOf(s, n + 1, {"valid"}) = SaidOf(s, n, {"valid"})
        /\ SaidOf(s, n + 1, {"mismatch"}) = SaidOf(s, n, {"mismatch"}) \cup {n + 1}
        /\ SaidOf(s, n + 1, {"unsupported"}) = SaidOf(s, n, {"unsupported"})
        /\ SaidOf(s, n + 1, {"blank", "unparsed"}) = SaidOf(s, n, {"blank", "unparsed"})
      BY <1>1, <1>7, <1>11, AcceptedGrow, SetsGrow, ZenonT(30)
  <2>3. IsListed(Append(v.unexpected_digests, n + 1), SaidOf(s, n + 1, {"mismatch"}))
    <3>1. \A i \in SaidOf(s, n, {"mismatch"}) : i <= n
        BY DEF SaidOf
    <3> QED BY <1>4, <2>2, <3>1, ListGrows
  <2>4. Append(v.unexpected_digests, n + 1) \in Seq(Nat)
      BY <1>4, <1>5
  <2>5. /\ after \in ValidationType /\ after.unexpected_digests = Append(v.unexpected_digests, n + 1)
        /\ after.valid_count = v.valid_count /\ after.out_of_order = v.out_of_order
        /\ after.duplicates = v.duplicates /\ after.invalid_lines = v.invalid_lines
        /\ after.unsupported_formats = v.unsupported_formats /\ after.last = v.last
      BY <1>4, <2>1, <2>4 DEF ValidationType
  <2> QED BY <1>1, <1>2, <1>4, <1>7, <1>8, <2>2, <2>3, <2>5 DEF JudgedTo
<1>12. CASE l.verdict = "unsupported"
  <2>1. after = [v EXCEPT !.unsupported_formats = Append(@, n + 1)]
      BY <1>2, <1>12 DEF Judge
  <2>2. /\ AcceptedOf(s, n + 1) = AcceptedOf(s, n) /\ BehindOf(s, n + 1) = BehindOf(s, n)
        /\ PriorTo(s, n + 2) = prior
        /\ SaidOf(s, n + 1, {"valid"}) = SaidOf(s, n, {"valid"})
        /\ SaidOf(s, n + 1, {"mismatch"}) = SaidOf(s, n, {"mismatch"})
        /\ SaidOf(s, n + 1, {"unsupported"}) = SaidOf(s, n, {"unsupported"}) \cup {n + 1}
        /\ SaidOf(s, n + 1, {"blank", "unparsed"}) = SaidOf(s, n, {"blank", "unparsed"})
      BY <1>1, <1>7, <1>12, AcceptedGrow, SetsGrow, ZenonT(30)
  <2>3. IsListed(Append(v.unsupported_formats, n + 1), SaidOf(s, n + 1, {"unsupported"}))
    <3>1. \A i \in SaidOf(s, n, {"unsupported"}) : i <= n
        BY DEF SaidOf
    <3> QED BY <1>4, <2>2, <3>1, ListGrows
  <2>4. Append(v.unsupported_formats, n + 1) \in Seq(Nat)
      BY <1>4, <1>5
  <2>5. /\ after \in ValidationType /\ after.unsupported_formats = Append(v.unsupported_formats, n + 1)
        /\ after.valid_count = v.valid_count /\ after.out_of_order = v.out_of_order
        /\ after.duplicates = v.duplicates /\ after.invalid_lines = v.invalid_lines
        /\ after.unexpected_digests = v.unexpected_digests /\ after.last = v.last
      BY <1>4, <2>1, <2>4 DEF ValidationType
  <2> QED BY <1>1, <1>2, <1>4, <1>7, <1>8, <2>2, <2>3, <2>5 DEF JudgedTo
<1>13. CASE l.verdict = "valid"
  <2>1. after = [v EXCEPT !.valid_count = v.valid_count + One(l.digest > v.last),
                          !.duplicates = When(l.digest = v.last, v.duplicates, n + 1),
                          !.out_of_order = When(l.digest < v.last, v.out_of_order, n + 1),
                          !.last = IF l.digest > v.last THEN l.digest ELSE v.last]
      BY <1>2, <1>13 DEF Judge
  <2>2. /\ PriorTo(s, n + 2) = prior \cup {l.digest}
        /\ SaidOf(s, n + 1, {"valid"}) = SaidOf(s, n, {"valid"}) \cup {n + 1}
        /\ SaidOf(s, n + 1, {"mismatch"}) = SaidOf(s, n, {"mismatch"})
        /\ SaidOf(s, n + 1, {"unsupported"}) = SaidOf(s, n, {"unsupported"})
        /\ SaidOf(s, n + 1, {"blank", "unparsed"}) = SaidOf(s, n, {"blank", "unparsed"})
      BY <1>1, <1>7, <1>13, SetsGrow
  <2>3. /\ AcceptedOf(s, n + 1) = IF \A d \in prior : d < l.digest THEN AcceptedOf(s, n) \cup {n + 1}
                                  ELSE AcceptedOf(s, n)
        /\ BehindOf(s, n + 1) = IF \E d \in prior : d > l.digest THEN BehindOf(s, n) \cup {n + 1}
                                ELSE BehindOf(s, n)
      BY <1>1, <1>7, <1>13, AcceptedGrow
  <2>4. /\ (\A d \in prior : d < l.digest) <=> l.digest > v.last
        /\ (\E d \in prior : d > l.digest) <=> l.digest < v.last
      BY <1>3, <1>4, <1>6, <1>7 DEF IsGreatestOf
  <2>5. Cardinality(AcceptedOf(s, n + 1)) = v.valid_count + One(l.digest > v.last)
    <3>1. IsFiniteSet(AcceptedOf(s, n)) /\ n + 1 \notin AcceptedOf(s, n)
      <4>1. IsFiniteSet(1 .. n)
          BY FS_Interval
      <4>2. IsFiniteSet(AcceptedOf(s, n))
          BY <1>9, <4>1, FS_Subset
      <4> QED BY <1>9, <4>2
    <3>2. Cardinality(AcceptedOf(s, n) \cup {n + 1}) = Cardinality(AcceptedOf(s, n)) + 1
        BY <3>1, FS_AddElement
    <3> QED BY <1>4, <1>6, <2>3, <2>4, <3>2 DEF One
  <2>6. IsListed(When(l.digest < v.last, v.out_of_order, n + 1), BehindOf(s, n + 1))
    <3>1. IsListed(Append(v.out_of_order, n + 1), BehindOf(s, n) \cup {n + 1})
        BY <1>4, <1>9, ListGrows
    <3> QED BY <1>4, <2>3, <2>4, <3>1 DEF When
  <2>7. IsListed(When(l.digest = v.last, v.duplicates, n + 1),
                 SaidOf(s, n + 1, {"valid"}) \ (AcceptedOf(s, n + 1) \cup BehindOf(s, n + 1)))
    <3>1. PICK same : same = SaidOf(s, n, {"valid"}) \ (AcceptedOf(s, n) \cup BehindOf(s, n))
        OBVIOUS
    <3>2. IsListed(v.duplicates, same) /\ \A i \in same : i <= n
        BY <1>4, <1>9, <3>1
    <3>3. IsListed(Append(v.duplicates, n + 1), same \cup {n + 1})
        BY <3>2, ListGrows
    <3>4. SaidOf(s, n + 1, {"valid"}) \ (AcceptedOf(s, n + 1) \cup BehindOf(s, n + 1)) =
            IF l.digest = v.last THEN same \cup {n + 1} ELSE same
      <4>1. n + 1 \notin 1 .. n
          OBVIOUS
      <4>2. l.digest = v.last <=> ~ (l.digest > v.last) /\ ~ (l.digest < v.last)
          BY <1>3, <1>6
      <4> QED BY <1>9, <2>2, <2>3, <2>4, <3>1, <4>1, <4>2
    <3> QED BY <3>2, <3>3, <3>4 DEF When
  <2>8. IsGreatestOf(IF l.digest > v.last THEN l.digest ELSE v.last, PriorTo(s, n + 2))
    <3>1. \A d \in prior : d \in Nat
        BY <1>7
    <3>2. PICK g : g = IF l.digest > v.last THEN l.digest ELSE v.last
        OBVIOUS
    <3>3. PICK more : more = PriorTo(s, n + 2)
        OBVIOUS
    <3>4. /\ prior = {} => v.last = 0
          /\ prior # {} => v.last \in prior /\ \A e \in prior : e <= v.last
        BY <1>4, <1>7 DEF IsGreatestOf
    <3>5. more = prior \cup {l.digest} /\ l.digest \in Nat /\ v.last \in Nat
        BY <1>3, <1>6, <2>2, <3>3
    <3>6. g \in more /\ \A e \in more : e <= g
        BY <3>1, <3>2, <3>4, <3>5
    <3>7. IsGreatestOf(g, more)
        BY <3>6 DEF IsGreatestOf
    <3> QED BY <3>2, <3>3, <3>7
  <2>9. PICK c \in Nat, q \in Seq(Nat), p \in Seq(Nat), g \in Nat :
          /\ c = v.valid_count + One(l.digest > v.last)
          /\ q = When(l.digest = v.last, v.duplicates, n + 1)
          /\ p = When(l.digest < v.last, v.out_of_order, n + 1)
          /\ g = IF l.digest > v.last THEN l.digest ELSE v.last
    <3>1. v.valid_count + One(l.digest > v.last) \in Nat
        BY <1>6 DEF One
    <3>2. When(l.digest = v.last, v.duplicates, n + 1) \in Seq(Nat)
        BY <2>7, <1>5
    <3>3. When(l.digest < v.last, v.out_of_order, n + 1) \in Seq(Nat)
        BY <2>6, <1>5
    <3>4. (IF l.digest > v.last THEN l.digest ELSE v.last) \in Nat
        BY <1>3, <1>6
    <3> QED BY <3>1, <3>2, <3>3, <3>4
  <2>10. after = [v EXCEPT !.valid_count = c, !.duplicates = q, !.out_of_order = p, !.last = g]
      BY <2>1, <2>9
  <2>11. /\ after \in ValidationType /\ after.invalid_lines = v.invalid_lines
         /\ after.valid_count = c /\ after.out_of_order = p
         /\ after.duplicates = q /\ after.unexpected_digests = v.unexpected_digests
         /\ after.unsupported_formats = v.unsupported_formats /\ after.last = g
    <3>1. PICK v1 : v1 = [v EXCEPT !.valid_count = c, !.duplicates = q]
        OBVIOUS
    <3>2. v1 \in ValidationType /\ v1.invalid_lines = v.invalid_lines
          /\ v1.valid_count = c /\ v1.duplicates = q /\ v1.unexpected_digests = v.unexpected_digests
          /\ v1.unsupported_formats = v.unsupported_formats
        BY <1>4, <3>1 DEF ValidationType
    <3>3. after = [v1 EXCEPT !.out_of_order = p, !.last = g]
        BY <1>4, <2>10, <3>1 DEF ValidationType
    <3> QED BY <3>2, <3>3 DEF ValidationType
  <2> QED BY <1>1, <1>2, <1>4, <1>8, <2>2, <2>5, <2>6, <2>7, <2>8, <2>9, <2>11 DEF JudgedTo
<1> QED BY <1>3, <1>10, <1>11, <1>12, <1>13

-----------------------------------------------------------------------------
(* What a line adds to a check *)

CheckType ==
    [line_count : Nat, valid_digest_count : Nat, schema_errors : Seq(Nat), digest_mismatches : Seq(Nat),
     unsupported_formats : Seq(Nat), missing_timestamp_count : Nat, url_without_timestamp : Seq(Nat),
     redundant_expected_digest : Seq(Nat), redundant_url : Seq(Nat), out_of_order : Seq(Nat),
     duplicates : Seq(Nat), last : Nat]
CheckOf(c, x1, x2, x4, x5, x6, x7, x8, x9, x10, x11, x12) ==
    [c EXCEPT !.line_count = x1, !.valid_digest_count = x2, !.digest_mismatches = x4,
              !.unsupported_formats = x5, !.missing_timestamp_count = x6,
              !.url_without_timestamp = x7, !.redundant_expected_digest = x8,
              !.redundant_url = x9, !.out_of_order = x10, !.duplicates = x11, !.last = x12]
CheckFacts(t, c, x1, x4, x5, x10, x11, x12) ==
    /\ t \in CheckType
    /\ t.line_count = x1 /\ t.schema_errors = c.schema_errors /\ t.digest_mismatches = x4
    /\ t.unsupported_formats = x5 /\ t.out_of_order = x10 /\ t.duplicates = x11 /\ t.last = x12
LEMMA CheckRecord ==
    ASSUME NEW c \in CheckType, NEW x1 \in Nat, NEW x2 \in Nat, NEW x4 \in Seq(Nat), NEW x5 \in Seq(Nat),
           NEW x6 \in Nat, NEW x7 \in Seq(Nat), NEW x8 \in Seq(Nat), NEW x9 \in Seq(Nat),
           NEW x10 \in Seq(Nat), NEW x11 \in Seq(Nat), NEW x12 \in Nat
    PROVE  CheckFacts(CheckOf(c, x1, x2, x4, x5, x6, x7, x8, x9, x10, x11, x12),
                      c, x1, x4, x5, x10, x11, x12)
<1>1. PICK t : t = CheckOf(c, x1, x2, x4, x5, x6, x7, x8, x9, x10, x11, x12)
    OBVIOUS
<1>2. /\ t \in CheckType
      /\ t.line_count = x1 /\ t.schema_errors = c.schema_errors /\ t.digest_mismatches = x4
      /\ t.unsupported_formats = x5 /\ t.out_of_order = x10 /\ t.duplicates = x11 /\ t.last = x12
    BY <1>1 DEF CheckType, CheckOf
<1> QED BY <1>1, <1>2 DEF CheckFacts

\* A number at the end of a list.
LEMMA NumberAdded ==
    ASSUME NEW list \in Seq(Nat), NEW n \in Nat
    PROVE  Append(list, n) \in Seq(Nat) /\ Append(list, n) # <<>>
BY Appended

\* What a check finds in the first lines of a file, as far as the validation looks for it as well.
AllAscend(s, n) ==
    \A i \in 1 .. n : s[i].verdict = "valid" /\ (i > 1 => s[i - 1].digest < s[i].digest)
NoneWrong(c) ==
    /\ c.schema_errors = <<>> /\ c.digest_mismatches = <<>> /\ c.unsupported_formats = <<>>
    /\ c.out_of_order = <<>> /\ c.duplicates = <<>>
CheckedTo(c, s, n) ==
    /\ c \in CheckType
    /\ c.line_count <= n
    /\ c.line_count = n /\ NoneWrong(c) <=> AllAscend(s, n)
    /\ AllAscend(s, n) => c.last = IF n = 0 THEN 0 ELSE s[n].digest

LEMMA CheckLineType ==
    ASSUME NEW c \in CheckType, NEW n \in Nat, NEW l \in SnapshotLine, NEW t, t = CheckLine(c, n, l)
    PROVE  /\ t \in CheckType
           /\ t.line_count = IF l.verdict = "blank" THEN c.line_count ELSE c.line_count + 1
           /\ NoneWrong(t) <=>
                /\ NoneWrong(c)
                /\ l.verdict \in {"blank", "valid"}
                /\ l.verdict = "valid" => l.digest > c.last
           /\ l.verdict = "valid" => t.last = l.digest
<1>1. /\ l.digest \in Nat \ {0} /\ l.timestamp \in BOOLEAN
      /\ l.verdict \in {"blank", "unparsed", "valid", "mismatch", "unsupported"}
    BY DEF SnapshotLine, Verdict
<1>2. /\ c.line_count \in Nat /\ c.valid_digest_count \in Nat /\ c.missing_timestamp_count \in Nat
      /\ c.last \in Nat /\ c.schema_errors \in Seq(Nat) /\ c.digest_mismatches \in Seq(Nat)
      /\ c.unsupported_formats \in Seq(Nat) /\ c.url_without_timestamp \in Seq(Nat)
      /\ c.redundant_expected_digest \in Seq(Nat) /\ c.redundant_url \in Seq(Nat)
      /\ c.out_of_order \in Seq(Nat) /\ c.duplicates \in Seq(Nat)
    BY DEF CheckType
<1>3. CASE l.verdict = "blank"
  <2>1. t = c
      BY <1>3 DEF CheckLine
  <2> QED BY <1>3, <2>1
<1>4. CASE l.verdict = "unparsed"
  <2>1. PICK x \in Nat, e \in Seq(Nat) : x = c.line_count + 1 /\ e = Append(c.schema_errors, n) /\ e # <<>>
    <3>1. Append(c.schema_errors, n) \in Seq(Nat) /\ Append(c.schema_errors, n) # <<>>
        BY <1>2, NumberAdded
    <3>2. PICK e : e = Append(c.schema_errors, n)
        OBVIOUS
    <3>3. PICK x \in Nat : x = c.line_count + 1
        BY <1>2
    <3> QED BY <3>1, <3>2, <3>3
  <2>2. t = [c EXCEPT !.line_count = x, !.schema_errors = e]
      BY <1>4, <2>1 DEF CheckLine
  <2>3. t \in CheckType /\ t.line_count = x /\ t.schema_errors = e
      BY <2>2 DEF CheckType
  <2> QED BY <1>4, <2>1, <2>3 DEF NoneWrong
<1>5. CASE l.verdict \in {"valid", "mismatch", "unsupported"}
  <2>1. PICK x1 \in Nat : x1 = c.line_count + 1
      BY <1>2
  <2>2. One(l.verdict = "valid") \in Nat /\ One(~ l.timestamp) \in Nat
      BY Zenon DEF One
  <2>3. PICK x2 \in Nat : x2 = c.valid_digest_count + One(l.verdict = "valid")
      BY <1>2, <2>2
  <2>4. PICK x6 \in Nat : x6 = c.missing_timestamp_count + One(~ l.timestamp)
      BY <1>2, <2>2
  <2>5. PICK x4 \in Seq(Nat) : x4 = IF l.verdict = "mismatch" THEN Append(c.digest_mismatches, n) ELSE c.digest_mismatches
      BY <1>2, NumberAdded
  <2>6. PICK x5 \in Seq(Nat) : x5 = IF l.verdict = "unsupported" THEN Append(c.unsupported_formats, n) ELSE c.unsupported_formats
      BY <1>2, NumberAdded
  <2>7. PICK x7 \in Seq(Nat) : x7 = IF ~ l.timestamp /\ l.url # "none" THEN Append(c.url_without_timestamp, n) ELSE c.url_without_timestamp
      BY <1>2, NumberAdded
  <2>8. PICK x8 \in Seq(Nat) : x8 = IF l.expected = "own" THEN Append(c.redundant_expected_digest, n) ELSE c.redundant_expected_digest
      BY <1>2, NumberAdded
  <2>9. PICK x9 \in Seq(Nat) : x9 = IF l.url = "inferred" THEN Append(c.redundant_url, n) ELSE c.redundant_url
      BY <1>2, NumberAdded
  <2>10. PICK x10 \in Seq(Nat) : x10 = IF c.last > l.digest THEN Append(c.out_of_order, n) ELSE c.out_of_order
      BY <1>2, NumberAdded
  <2>11. PICK x11 \in Seq(Nat) : x11 = IF c.last = l.digest THEN Append(c.duplicates, n) ELSE c.duplicates
      BY <1>2, NumberAdded
  <2>12. PICK x12 \in Nat : x12 = l.digest
      BY <1>1
  <2>13. x4 \in Seq(Nat) /\ (x4 = <<>> <=> c.digest_mismatches = <<>> /\ l.verdict # "mismatch")
      BY <1>2, <2>5, NumberAdded
  <2>14. x5 \in Seq(Nat) /\ (x5 = <<>> <=> c.unsupported_formats = <<>> /\ l.verdict # "unsupported")
      BY <1>2, <2>6, NumberAdded
  <2>15. x7 \in Seq(Nat) /\ x8 \in Seq(Nat) /\ x9 \in Seq(Nat)
      BY <1>2, <2>7, <2>8, <2>9, NumberAdded
  <2>16. x10 \in Seq(Nat) /\ (x10 = <<>> <=> c.out_of_order = <<>> /\ ~ (c.last > l.digest))
      BY <1>2, <2>10, NumberAdded
  <2>17. x11 \in Seq(Nat) /\ (x11 = <<>> <=> c.duplicates = <<>> /\ c.last # l.digest)
      BY <1>2, <2>11, NumberAdded
  <2>18. t = CheckOf(c, x1, x2, x4, x5, x6, x7, x8, x9, x10, x11, x12)
    <3>1. /\ c.line_count + 1 = x1 /\ c.valid_digest_count + One(l.verdict = "valid") = x2
          /\ c.missing_timestamp_count + One(~ l.timestamp) = x6 /\ l.digest = x12
        BY <2>1, <2>3, <2>4, <2>12, Zenon
    <3>2. /\ When(l.verdict = "mismatch", c.digest_mismatches, n) = x4
          /\ When(l.verdict = "unsupported", c.unsupported_formats, n) = x5
        BY <2>5, <2>6, Zenon DEF When
    <3>3. /\ When(~ l.timestamp /\ l.url # "none", c.url_without_timestamp, n) = x7
          /\ When(l.expected = "own", c.redundant_expected_digest, n) = x8
          /\ When(l.url = "inferred", c.redundant_url, n) = x9
        BY <2>7, <2>8, <2>9, Zenon DEF When
    <3>4. /\ When(c.last > l.digest, c.out_of_order, n) = x10
          /\ When(c.last = l.digest, c.duplicates, n) = x11
        BY <2>10, <2>11, Zenon DEF When
    <3>5. t = CheckOf(c, c.line_count + 1, c.valid_digest_count + One(l.verdict = "valid"),
                      When(l.verdict = "mismatch", c.digest_mismatches, n),
                      When(l.verdict = "unsupported", c.unsupported_formats, n),
                      c.missing_timestamp_count + One(~ l.timestamp),
                      When(~ l.timestamp /\ l.url # "none", c.url_without_timestamp, n),
                      When(l.expected = "own", c.redundant_expected_digest, n),
                      When(l.url = "inferred", c.redundant_url, n),
                      When(c.last > l.digest, c.out_of_order, n),
                      When(c.last = l.digest, c.duplicates, n), l.digest)
      <4>1. l.verdict # "blank" /\ l.verdict # "unparsed"
          BY <1>5
      <4> QED BY <4>1 DEF CheckLine, CheckOf
    <3> QED BY <3>1, <3>2, <3>3, <3>4, <3>5, ZenonT(30)
  <2>19. /\ t \in CheckType
         /\ t.line_count = x1 /\ t.schema_errors = c.schema_errors /\ t.digest_mismatches = x4
         /\ t.unsupported_formats = x5 /\ t.out_of_order = x10 /\ t.duplicates = x11 /\ t.last = x12
    <3>1. \A y2 \in Nat, y6 \in Nat, y7, y8, y9 \in Seq(Nat), y1 \in Nat, y4, y5, y10, y11 \in Seq(Nat), y12 \in Nat :
            CheckFacts(CheckOf(c, y1, y2, y4, y5, y6, y7, y8, y9, y10, y11, y12), c, y1, y4, y5, y10, y11, y12)
        BY CheckRecord
    <3>2. \A y1 \in Nat, y4, y5, y10, y11 \in Seq(Nat), y12 \in Nat :
            CheckFacts(CheckOf(c, y1, x2, y4, y5, x6, x7, x8, x9, y10, y11, y12), c, y1, y4, y5, y10, y11, y12)
        BY <3>1
    <3>3. CheckFacts(CheckOf(c, x1, x2, x4, x5, x6, x7, x8, x9, x10, x11, x12), c, x1, x4, x5, x10, x11, x12)
        BY <3>2
    <3>4. CheckFacts(t, c, x1, x4, x5, x10, x11, x12)
        BY <2>18, <3>3, Zenon
    <3> QED BY <3>4, Zenon DEF CheckFacts
  <2>20. ~ (c.last > l.digest) /\ c.last # l.digest <=> l.digest > c.last
    <3>1. PICK e \in Nat : e = c.last
        BY <1>2
    <3>2. ~ (e > x12) /\ e # x12 <=> x12 > e
        OBVIOUS
    <3> QED BY <2>12, <3>1, <3>2
  <2>21. NoneWrong(t) <=> NoneWrong(c) /\ l.verdict = "valid" /\ l.digest > c.last
      BY <1>5, <2>13, <2>14, <2>16, <2>17, <2>19, <2>20 DEF NoneWrong
  <2> QED BY <1>5, <2>1, <2>12, <2>19, <2>21
<1> QED BY <1>1, <1>3, <1>4, <1>5

LEMMA CheckLineKeeps ==
    ASSUME NEW s, NEW n \in Nat, s[n + 1] \in SnapshotLine, NEW c, CheckedTo(c, s, n), NEW t,
           t = CheckLine(c, n + 1, s[n + 1]), n = 0 \/ s[n].digest \in Nat
    PROVE  CheckedTo(t, s, n + 1)
<1>1. PICK l \in SnapshotLine : l = s[n + 1]
    OBVIOUS
<1>2. l.digest \in Nat \ {0}
    BY DEF SnapshotLine
<1>3. /\ c \in CheckType
      /\ c.line_count <= n
      /\ c.line_count = n /\ NoneWrong(c) <=> AllAscend(s, n)
      /\ AllAscend(s, n) => c.last = IF n = 0 THEN 0 ELSE s[n].digest
    BY DEF CheckedTo
<1>4. c.line_count \in Nat
    BY <1>3 DEF CheckType
<1>5. /\ t \in CheckType
      /\ t.line_count = IF l.verdict = "blank" THEN c.line_count ELSE c.line_count + 1
      /\ NoneWrong(t) <=>
           /\ NoneWrong(c)
           /\ l.verdict \in {"blank", "valid"}
           /\ l.verdict = "valid" => l.digest > c.last
      /\ l.verdict = "valid" => t.last = l.digest
    BY <1>1, <1>3, CheckLineType
<1>6. AllAscend(s, n + 1) <=> AllAscend(s, n) /\ l.verdict = "valid" /\ (n > 0 => s[n].digest < l.digest)
  <2>1. (n + 1) - 1 = n /\ (n + 1 > 1 <=> n > 0) /\ 1 .. n + 1 = (1 .. n) \cup {n + 1}
      OBVIOUS
  <2> QED BY <1>1, <2>1 DEF AllAscend
<1>7. t.line_count <= n + 1 /\ (t.line_count = n + 1 <=> c.line_count = n /\ l.verdict # "blank")
    BY <1>3, <1>4, <1>5
<1>8. AllAscend(s, n) => (l.digest > c.last <=> (n > 0 => s[n].digest < l.digest))
    BY <1>2, <1>3
<1>9. t.line_count = n + 1 /\ NoneWrong(t) <=> AllAscend(s, n + 1)
    BY <1>3, <1>5, <1>6, <1>7, <1>8
<1>10. AllAscend(s, n + 1) => t.last = l.digest
    BY <1>5, <1>6
<1> QED BY <1>1, <1>5, <1>7, <1>9, <1>10 DEF CheckedTo

LEMMA CheckedSteps ==
    ASSUME NEW s \in Seq(SnapshotLine)
    PROVE  CheckedTo(Checked(s), s, Len(s))
<1> DEFINE N == Len(s)
           G == [p \in Nat \X CheckType |-> IF p[1] \in 1 .. N THEN CheckLine(p[2], p[1], s[p[1]]) ELSE p[2]]
<1>1. \A n \in 1 .. N, c \in CheckType : CheckLine(c, n, s[n]) \in CheckType
  <2> TAKE n \in 1 .. N, c \in CheckType
  <2>1. n \in Nat /\ s[n] \in SnapshotLine
      OBVIOUS
  <2> QED BY <2>1, CheckLineType
<1>2. G \in [Nat \X CheckType -> CheckType]
    BY <1>1
<1>3. N \in Nat /\ EmptyCheck \in CheckType
    BY DEF EmptyCheck, CheckType
<1>4. \A n \in 1 .. N, c \in CheckType : G[<<n, c>>] = CheckLine(c, n, s[n])
    OBVIOUS
<1> HIDE DEF G, N
<1>5. PICK f \in [0 .. N -> CheckType] : f[0] = EmptyCheck /\ Steps(f, G, N)
    BY <1>2, <1>3, StepsExist
<1>6. f = [n \in 0 .. N |-> IF n = 0 THEN EmptyCheck ELSE CheckLine(f[n - 1], n, s[n])]
  <2>1. ASSUME NEW n \in 0 .. N
        PROVE  f[n] = IF n = 0 THEN EmptyCheck ELSE CheckLine(f[n - 1], n, s[n])
    <3>1. CASE n = 0
        BY <3>1, <1>5
    <3>2. CASE n # 0
      <4>1. n \in 1 .. N /\ n - 1 \in 0 .. N
          BY <1>3, <3>2
      <4> QED BY <4>1, <3>2, <1>4, <1>5 DEF Steps
    <3> QED BY <3>1, <3>2
  <2> QED BY <2>1
<1> DEFINE upTo == CHOOSE g : g = [n \in 0 .. N |-> IF n = 0 THEN EmptyCheck ELSE CheckLine(g[n - 1], n, s[n])]
<1>7. upTo = [n \in 0 .. N |-> IF n = 0 THEN EmptyCheck ELSE CheckLine(upTo[n - 1], n, s[n])]
    BY <1>6
<1>8. Checked(s) = upTo[N]
    BY DEF Checked, N
<1> HIDE DEF upTo
<1>9. upTo[0] = EmptyCheck /\ \A n \in 1 .. N : upTo[n] = CheckLine(upTo[n - 1], n, s[n])
    BY <1>3, <1>7
<1>10. \A n \in 1 .. N : s[n] \in SnapshotLine /\ s[n].digest \in Nat
  <2> TAKE n \in 1 .. N
  <2>1. s[n] \in SnapshotLine
      BY DEF N
  <2> QED BY <2>1 DEF SnapshotLine
<1> DEFINE T == {n \in Nat : n <= N => CheckedTo(upTo[n], s, n)}
<1>11. 0 \in T
  <2>1. EmptyCheck.line_count = 0 /\ NoneWrong(EmptyCheck) /\ EmptyCheck.last = 0
      BY DEF EmptyCheck, NoneWrong
  <2>2. AllAscend(s, 0)
      BY DEF AllAscend
  <2> QED BY <1>3, <1>9, <2>1, <2>2 DEF CheckedTo
<1>12. ASSUME NEW n \in Nat, n \in T PROVE n + 1 \in T
  <2> SUFFICES ASSUME n + 1 <= N PROVE CheckedTo(upTo[n + 1], s, n + 1)
      OBVIOUS
  <2>1. CheckedTo(upTo[n], s, n) /\ (n = 0 \/ s[n].digest \in Nat)
      BY <1>3, <1>10, <1>12
  <2>2. n + 1 \in 1 .. N /\ (n + 1) - 1 = n
      BY <1>3
  <2>3. upTo[n + 1] = CheckLine(upTo[n], n + 1, s[n + 1])
      BY <1>9, <2>2
  <2> QED BY <1>10, <2>1, <2>2, <2>3, CheckLineKeeps
<1> HIDE DEF T
<1>13. Nat \subseteq T
    BY <1>11, <1>12, NatFromZero
<1> QED BY <1>3, <1>8, <1>13 DEF T, N

-----------------------------------------------------------------------------
(* The steps of a stream *)

LEMMA SourceTyped == StreamTypes => source \in Seq(StreamLine) /\ Len(source) \in Nat
<1> SUFFICES ASSUME StreamTypes PROVE source \in Seq(StreamLine)
    OBVIOUS
<1> QED BY StreamAssumption DEF StreamTypes, StreamTypeOK, StreamLine

\* The parts of the type invariant, for an action to keep one by one.
LEMMA ReaderKeepsTypes ==
    ASSUME StreamTypes, ReaderThread
    PROVE  StreamTypes'
<1>1. UNCHANGED <<source, use, parallel, receiving, chunk, tasks, ready, found, seen, answer>>
    BY DEF ReaderThread, Opens, Sends, ReaderEnds, consumerVars
<1>2. /\ reader' \in {"reading", "ended"}
      /\ nextLine' \in 0 .. Len(source)
      /\ channel' \in Seq(Nat) /\ Len(channel') <= ChannelBuffer
      /\ answer # "none" => channel' = <<>>
  <2>1. /\ nextLine \in 0 .. Len(source) /\ channel \in Seq(Nat) /\ Len(channel) <= ChannelBuffer
        /\ answer # "none" => channel = <<>>
        /\ receiving <=> answer = "none"
        /\ Len(source) \in Nat /\ ChannelBuffer \in Nat \ {0}
      BY StreamAssumption, SourceTyped DEF StreamTypes, StreamTypeOK
  <2>2. ASSUME NEW ok \in BOOLEAN, Opens(ok)
        PROVE  /\ reader' \in {"reading", "ended"} /\ nextLine' = nextLine
               /\ channel' = channel \/ (channel' = Append(channel, OpenError) /\ channel = <<>> /\ receiving)
      BY <2>2 DEF Opens, StreamTypes
  <2>3. ASSUME channel' = Append(channel, OpenError), channel = <<>>
        PROVE  channel' \in Seq(Nat) /\ Len(channel') = 1
      BY <2>3 DEF OpenError
  <2>4. CASE \E ok \in BOOLEAN : Opens(ok)
      BY <2>1, <2>2, <2>3, <2>4
  <2>5. CASE Sends
    <3>1. /\ nextLine < Len(source) /\ Len(channel) < ChannelBuffer /\ receiving /\ reader' = "reading"
          /\ channel' = Append(channel, nextLine + 1)
          /\ nextLine' = nextLine \/ nextLine' = nextLine + 1
        BY <2>5 DEF Sends
    <3>2. nextLine + 1 \in Nat
        BY <2>1
    <3>3. channel' \in Seq(Nat) /\ Len(channel') = Len(channel) + 1 /\ Len(channel) \in Nat
        BY <2>1, <3>1, <3>2
    <3> QED BY <2>1, <3>1, <3>3
  <2>6. CASE ReaderEnds
      BY <2>1, <2>6 DEF ReaderEnds
  <2> QED BY <2>4, <2>5, <2>6 DEF ReaderThread
<1> QED BY <1>1, <1>2 DEF StreamTypes, StreamTypeOK

\* The stream is closed.
LEMMA ClosedTypes ==
    ASSUME StreamTypes, NEW a \in {"ok", "error", "dropped"}, Close(a),
           seen' = seen \/ seen' = seen + 1, a = "error" => seen' = seen + 1,
           a = "ok" => reader # "opening",
           reader = "opening" => seen' = 0,
           UNCHANGED <<source, use, parallel, reader, nextLine>>
    PROVE  StreamTypes'
<1>1. /\ answer' = a /\ receiving' = FALSE /\ channel' = <<>> /\ chunk' = <<>> /\ tasks' = <<>> /\ ready' = <<>>
    BY DEF Close
<1>2. seen \in Nat /\ ChannelBuffer \in Nat /\ ChunkSize \in Nat /\ parallel \in Nat
    BY StreamAssumption DEF StreamTypes, StreamTypeOK
<1>3. Len(<<>>) = 0 /\ (<<>> \in Seq(Nat)) /\ (<<>> \in Seq(Int)) /\ (<<>> \in Seq(TaskSet))
    OBVIOUS
<1>4. seen' \in Nat /\ (answer' = "error" => seen' > 0)
    BY <1>1, <1>2
<1>5. StreamTypeOK'
  <2>1. (receiving \in BOOLEAN)'
      BY <1>1
  <2>2. (answer \in {"none", "ok", "error", "dropped"})'
      BY <1>1
  <2>3. /\ (channel \in Seq(Nat))' /\ (Len(channel) <= ChannelBuffer)'
        /\ (Len(chunk) <= ChunkSize)' /\ (Len(tasks) <= parallel)'
      BY <1>1, <1>2, <1>3
  <2>4. /\ (source \in StreamFiles)' /\ (use \in {"validate", "open"})' /\ (parallel \in Parallelisms)'
        /\ (reader \in {"opening", "reading", "ended"})' /\ (nextLine \in 0 .. Len(source))'
      BY DEF StreamTypes, StreamTypeOK
  <2> QED BY <1>4, <2>1, <2>2, <2>3, <2>4 DEF StreamTypeOK
<1>6. (receiving <=> answer = "none")'
    BY <1>1
<1>7. (reader = "opening" => nextLine = 0)'
    BY DEF StreamTypes
<1> QED BY <1>1, <1>3, <1>4, <1>5, <1>6, <1>7 DEF StreamTypes

LEMMA PollKeepsTypes ==
    ASSUME StreamTypes, Collect \/ Receive
    PROVE  StreamTypes'
<1>1. /\ channel \in Seq(Nat) /\ Len(channel) <= ChannelBuffer /\ chunk \in Seq(Int) /\ Len(chunk) <= ChunkSize
      /\ ChannelBuffer \in Nat /\ ChunkSize \in Nat /\ channel # <<>>
    BY StreamAssumption DEF StreamTypes, StreamTypeOK, Collect, Receive
<1>2. /\ channel' = Tail(channel) /\ answer = "none" /\ reader # "opening"
      /\ UNCHANGED <<source, use, parallel, reader, nextLine, receiving, tasks, found, seen, answer>>
    BY <1>1 DEF Collect, Receive, Wanted, StreamTypes
<1>3. Head(channel) \in Nat /\ Tail(channel) \in Seq(Nat) /\ Len(Tail(channel)) <= ChannelBuffer
    BY <1>1, Tails
<1>4. (channel \in Seq(Nat))' /\ (Len(channel) <= ChannelBuffer)'
    BY <1>2, <1>3
<1>5. CASE Collect
  <2>1. chunk' = Append(chunk, Head(channel)) /\ Len(chunk) < ChunkSize /\ parallel > 1 /\ ready' = ready
      BY <1>5 DEF Collect
  <2>2. chunk' \in Seq(Int) /\ Len(chunk') <= ChunkSize
    <3>1. Head(channel) \in Int
        BY <1>3
    <3>2. chunk' \in Seq(Int) /\ Len(chunk') = Len(chunk) + 1 /\ Len(chunk) \in Nat
        BY <1>1, <2>1, <3>1
    <3> QED BY <1>1, <2>1, <3>2
  <2>3. parallel # 1
      BY <2>1
  <2> QED BY <1>2, <1>4, <2>1, <2>2, <2>3 DEF StreamTypes, StreamTypeOK
<1>6. CASE Receive
  <2>1. ready' = <<Head(channel)>> /\ chunk' = chunk
      BY <1>6 DEF Receive
  <2>2. ready' \in Seq(Int)
    <3>1. Head(channel) \in Int
        BY <1>3
    <3> QED BY <2>1, <3>1
  <2> QED BY <1>2, <1>4, <2>1, <2>2 DEF StreamTypes, StreamTypeOK
<1> QED BY <1>5, <1>6

LEMMA DispatchKeepsTypes ==
    ASSUME StreamTypes, Dispatch
    PROVE  StreamTypes'
<1>1. /\ chunk \in Seq(Int) /\ tasks \in Seq(TaskSet) /\ ChunkSize \in Nat \ {0} /\ parallel \in Nat \ {0}
      /\ Len(tasks) <= parallel
    BY StreamAssumption DEF StreamTypes, StreamTypeOK
<1>2. chunk # <<>>
  <2>1. chunk = <<>> => Len(chunk) = 0
      OBVIOUS
  <2> QED BY <1>1, <2>1 DEF Dispatch
<1>3. /\ parallel # 1 /\ reader # "opening" /\ answer = "none"
      /\ tasks' = Append(tasks, [lines |-> chunk, state |-> "running"])
      /\ chunk' = <<>>
      /\ UNCHANGED <<source, use, parallel, reader, nextLine, channel, receiving, ready, found, seen, answer>>
      /\ parallel > 1 => Len(tasks) < parallel
    BY <1>2 DEF StreamTypes, Dispatch, Wanted
<1>4. tasks' \in Seq(TaskSet) /\ Len(tasks') <= parallel
  <2>1. [lines |-> chunk, state |-> "running"] \in TaskSet
      BY <1>1 DEF TaskSet
  <2>2. Len(tasks') = Len(tasks) + 1 /\ tasks' \in Seq(TaskSet) /\ Len(tasks) \in Nat
      BY <1>1, <1>3, <2>1
  <2>3. Len(tasks) < parallel
      BY <1>1, <1>3
  <2> QED BY <1>1, <2>2, <2>3
<1>5. Len(<<>>) <= ChunkSize /\ (<<>> \in Seq(Int))
    BY <1>1
<1> QED BY <1>3, <1>4, <1>5 DEF StreamTypes, StreamTypeOK

LEMMA TaskKeepsTypes ==
    ASSUME StreamTypes, NEW i \in DOMAIN tasks, NEW state \in {"parsed", "lost"}, TaskEnds(i, state)
    PROVE  /\ StreamTypes'
           /\ Len(tasks') = Len(tasks) /\ DOMAIN tasks' = DOMAIN tasks
           /\ \A j \in DOMAIN tasks : tasks'[j].lines = tasks[j].lines
<1>1. tasks \in Seq(TaskSet) /\ tasks # <<>>
    BY DEF StreamTypes
<1>2. /\ tasks' = [tasks EXCEPT ![i] = [tasks[i] EXCEPT !.state = state]]
      /\ UNCHANGED <<source, use, parallel, reader, nextLine, channel, receiving, chunk, ready, found, seen, answer>>
    BY <1>1 DEF TaskEnds
<1>3. PICK t : t = [tasks[i] EXCEPT !.state = state]
    OBVIOUS
<1>4. t \in TaskSet /\ t.lines = tasks[i].lines
  <2>1. PICK u \in TaskSet : u = tasks[i]
      BY <1>1
  <2> QED BY <1>3, <2>1 DEF TaskSet
<1>5. tasks' = [tasks EXCEPT ![i] = t]
    BY <1>2, <1>3
<1>6. tasks' \in Seq(TaskSet) /\ Len(tasks') = Len(tasks) /\ DOMAIN tasks' = DOMAIN tasks
      /\ \A j \in DOMAIN tasks : tasks'[j].lines = tasks[j].lines
    BY <1>1, <1>4, <1>5
<1>7. answer = "none" /\ parallel # 1 /\ reader # "opening"
    BY <1>1 DEF StreamTypes
<1> QED BY <1>2, <1>6, <1>7 DEF StreamTypes, StreamTypeOK

LEMMA FlattenFacts ==
    ASSUME StreamTypes, Flatten
    PROVE  /\ StreamTypes'
           /\ Len(tasks) \in Nat \ {0} /\ Len(tasks') = Len(tasks) - 1
           /\ \A j \in 1 .. Len(tasks) - 1 : tasks'[j] = tasks[j + 1]
           /\ ready' = <<Lost>> \/ ready' = tasks[1].lines
<1>1. tasks \in Seq(TaskSet) /\ Len(tasks) <= parallel /\ parallel \in Nat
    BY StreamAssumption DEF StreamTypes, StreamTypeOK
<1>2. /\ 1 \in DOMAIN tasks /\ tasks # <<>>
      /\ ready' = <<Lost>> \/ ready' = tasks[1].lines
      /\ tasks' = [j \in 1 .. Len(tasks) - 1 |-> tasks[IF j < 1 THEN j ELSE j + 1]]
      /\ answer = "none" /\ ready = <<>>
      /\ UNCHANGED <<source, use, parallel, reader, nextLine, channel, receiving, chunk, found, seen, answer>>
    BY <1>1 DEF Flatten, Yielded, Oldest
<1>3. Len(tasks) \in Nat \ {0}
    BY <1>1, <1>2
<1>4. tasks' \in Seq(TaskSet) /\ Len(tasks') = Len(tasks) - 1
      /\ \A j \in 1 .. Len(tasks) - 1 : tasks'[j] = tasks[j + 1]
  <2>1. tasks' = [j \in 1 .. Len(tasks) - 1 |-> tasks[j + 1]]
      BY <1>2, <1>3
  <2>2. \A j \in 1 .. Len(tasks) - 1 : j + 1 \in 1 .. Len(tasks) /\ tasks[j + 1] \in TaskSet
      BY <1>1, <1>3
  <2>3. Len(tasks) - 1 \in Nat
      BY <1>3
  <2>4. PICK m \in Nat : m = Len(tasks) - 1
      BY <2>3
  <2>5. [j \in 1 .. m |-> tasks[j + 1]] \in Seq(TaskSet) /\ Len([j \in 1 .. m |-> tasks[j + 1]]) = m
      BY <2>2, <2>4
  <2>6. tasks' = [j \in 1 .. m |-> tasks[j + 1]]
      BY <2>1, <2>4
  <2> QED BY <2>4, <2>5, <2>6
<1>5. ready' \in Seq(Int)
  <2>1. tasks[1] \in TaskSet
      BY <1>1, <1>2
  <2>2. tasks[1].lines \in Seq(Int)
      BY <2>1 DEF TaskSet
  <2>3. <<Lost>> \in Seq(Int)
      BY DEF Lost
  <2> QED BY <1>2, <2>2, <2>3
<1>6. parallel # 1 /\ reader # "opening"
    BY <1>2 DEF StreamTypes
<1>7. Len(tasks') <= parallel
    BY <1>1, <1>3, <1>4
<1> QED BY <1>2, <1>3, <1>4, <1>5, <1>6, <1>7 DEF StreamTypes, StreamTypeOK

\* An item is taken and the stream goes on.
LEMMA TakenTypes ==
    ASSUME StreamTypes, ready # <<>>, ready' = Tail(ready), seen' = seen + 1,
           UNCHANGED <<source, use, parallel, reader, nextLine, receiving, channel, chunk, tasks, answer>>
    PROVE  StreamTypes'
<1>1. ready \in Seq(Int) /\ seen \in Nat
    BY DEF StreamTypes, StreamTypeOK
<1>2. ready' \in Seq(Int)
    BY <1>1, Tails
<1>3. answer = "none" /\ reader # "opening"
    BY DEF StreamTypes
<1>4. seen' \in Nat
    BY <1>1
<1> QED BY <1>2, <1>3, <1>4 DEF StreamTypes, StreamTypeOK

-----------------------------------------------------------------------------
(* The lines on their way *)

InTransit ==
    /\ seen \in Nat /\ nextLine \in Nat /\ Len(source) \in Nat /\ nextLine <= Len(source)
    /\ channel \in Seq(Nat) /\ chunk \in Seq(Int) /\ ready \in Seq(Int) /\ tasks \in Seq(TaskSet)
    /\ Len(channel) \in Nat /\ Len(chunk) \in Nat /\ Len(ready) \in Nat /\ Len(tasks) \in Nat
    /\ \A i \in DOMAIN tasks : tasks[i].lines \in Seq(Int) /\ Len(tasks[i].lines) \in Nat
LEMMA TransitTypes == StreamTypes => InTransit
<1> SUFFICES ASSUME StreamTypes PROVE InTransit
    OBVIOUS
<1>1. /\ seen \in Nat /\ nextLine \in 0 .. Len(source) /\ channel \in Seq(Nat)
      /\ chunk \in Seq(Int) /\ ready \in Seq(Int) /\ tasks \in Seq(TaskSet)
    BY DEF StreamTypes, StreamTypeOK
<1>2. Len(source) \in Nat
    BY SourceTyped
<1>3. ASSUME NEW i \in DOMAIN tasks PROVE tasks[i].lines \in Seq(Int)
  <2>1. PICK t \in TaskSet : t = tasks[i]
      BY <1>1
  <2> QED BY <2>1 DEF TaskSet
<1> QED BY <1>1, <1>2, <1>3 DEF InTransit

LEMMA ReaderSkipsNothing ==
    ASSUME StreamTypes, NothingIsSkipped, ReaderThread
    PROVE  NothingIsSkipped'
<1> SUFFICES ASSUME answer' = "none", ready' # <<Lost>>
             PROVE  \E bad \in BOOLEAN, starts \in [1 .. Len(tasks) + 1 -> Nat], total \in Nat :
                      InOrder(bad, starts, total)' /\ Originates(bad, total)'
  <2>1. tasks' = tasks
      BY DEF ReaderThread, Opens, Sends, ReaderEnds, consumerVars
  <2> QED BY <2>1 DEF NothingIsSkipped
<1>1. UNCHANGED <<source, receiving, chunk, tasks, ready, seen, answer>>
    BY DEF ReaderThread, Opens, Sends, ReaderEnds, consumerVars
<1>2. PICK bad \in BOOLEAN, starts \in [1 .. Len(tasks) + 1 -> Nat], total \in Nat :
        InOrder(bad, starts, total) /\ Originates(bad, total)
    BY <1>1 DEF NothingIsSkipped
<1>3. bad = FALSE
  <2>1. reader # "ended"
      BY DEF ReaderThread, Opens, Sends, ReaderEnds
  <2> QED BY <1>2, <2>1 DEF Originates
<1>4. /\ total >= nextLine
      /\ total > nextLine => nextLine + 1 = Len(source) /\ source[Len(source)] = Failure
    BY <1>2, <1>3 DEF Originates
<1>5. InTransit
    BY TransitTypes
<1>6. CASE Opens(TRUE)
  <2>1. channel' = channel /\ nextLine' = nextLine /\ reader' = "reading"
      BY <1>6 DEF Opens
  <2>2. InOrder(bad, starts, total)'
      BY <1>1, <1>2, <2>1 DEF InOrder, ItemAt
  <2>3. Originates(bad, total)'
      BY <1>1, <1>3, <1>4, <2>1 DEF Originates
  <2> QED BY <2>2, <2>3
<1>7. CASE Opens(FALSE)
  <2>1. receiving /\ reader = "opening" /\ reader' = "ended"
      BY <1>1, <1>7 DEF Opens, StreamTypes
  <2>2. channel' = Append(channel, OpenError)
      BY <1>7, <2>1 DEF Opens
  <2>3. seen = 0 /\ channel = <<>> /\ chunk = <<>> /\ tasks = <<>> /\ ready = <<>>
      BY <2>1 DEF StreamTypes
  <2>4. channel' = <<OpenError>>
      BY <2>2, <2>3
  <2>5. PICK from : from = [i \in 1 .. 1 |-> 0]
      OBVIOUS
  <2>6. from \in [1 .. Len(tasks) + 1 -> Nat] /\ from[1] = 0 /\ Len(tasks) = 0
      BY <2>3, <2>5
  <2>7. Len(chunk) = 0 /\ Len(ready) = 0 /\ DOMAIN tasks = {} /\ DOMAIN ready = {} /\ DOMAIN chunk = {}
      BY <2>3
  <2>8. DOMAIN channel' = {1} /\ channel'[1] = OpenError /\ Len(channel') = 1
      BY <2>4
  <2>9. InOrder(TRUE, from, 1)'
    <3>1. \A i \in 1 .. Len(tasks) + 1 : i = 1
        BY <2>6
    <3> QED BY <1>1, <2>3, <2>6, <2>7, <2>8, <3>1 DEF InOrder, ItemAt
  <2>10. Originates(TRUE, 1)'
      BY <1>1, <2>1, <2>3 DEF Originates
  <2> QED BY <2>6, <2>9, <2>10
<1>8. CASE Sends
  <2>1. /\ nextLine < Len(source) /\ reader' = "reading"
        /\ channel' = Append(channel, nextLine + 1)
        /\ nextLine' = IF nextLine + 1 = Len(source) /\ source[nextLine + 1] = Failure
                       THEN nextLine ELSE nextLine + 1
      BY <1>8 DEF Sends
  <2>2. PICK c \in Nat : c = Len(channel)
      BY <1>5 DEF InTransit
  <2>3. /\ \A k \in DOMAIN channel' : k = c + 1 \/ (k \in DOMAIN channel /\ channel'[k] = channel[k])
        /\ channel'[c + 1] = nextLine + 1 /\ Len(channel') = c + 1
    <3>1. nextLine + 1 \in Nat /\ channel \in Seq(Nat)
        BY <1>5 DEF InTransit
    <3> QED BY <2>1, <2>2, <3>1
  <2>4. PICK m \in Nat : m = Len(chunk)
      BY <1>5 DEF InTransit
  <2>5. PICK b \in Nat : b = starts[Len(tasks) + 1]
    <3>1. Len(tasks) \in Nat
        BY <1>5 DEF InTransit
    <3> QED BY <3>1
  <2>6. total = b + m + c
      BY <1>2, <2>2, <2>4, <2>5 DEF InOrder
  <2>7. ItemAt(FALSE, Len(source), b + m + (c + 1)) = nextLine + 1
    <3>1. nextLine \in Nat /\ Len(source) \in Nat
        BY <1>5 DEF InTransit
    <3> QED BY <1>4, <2>1, <2>6, <3>1 DEF ItemAt
  <2>8. InOrder(bad, starts, total + 1)'
    <3>1. \A k \in DOMAIN channel' : channel'[k] = ItemAt(FALSE, Len(source), b + m + k)
        BY <1>2, <1>3, <2>3, <2>4, <2>5, <2>7 DEF InOrder
    <3>2. \A i \in 1 .. Len(tasks) + 1 : starts[i] <= total + 1
      <4>1. \A i \in 1 .. Len(tasks) + 1 : starts[i] \in Nat /\ starts[i] <= total
          BY <1>2 DEF InOrder
      <4> QED BY <4>1
    <3>3. total + 1 = b + m + (c + 1)
        BY <2>6
    <3> QED BY <1>1, <1>2, <1>3, <2>3, <2>4, <2>5, <3>1, <3>2, <3>3 DEF InOrder
  <2>9. Originates(bad, total + 1)'
    <3>1. nextLine \in Nat /\ Len(source) \in Nat
        BY <1>5 DEF InTransit
    <3>2. CASE nextLine + 1 = Len(source) /\ source[nextLine + 1] = Failure
        BY <1>1, <1>3, <1>4, <2>1, <3>1, <3>2 DEF Originates
    <3>3. CASE ~ (nextLine + 1 = Len(source) /\ source[nextLine + 1] = Failure)
        BY <1>1, <1>3, <1>4, <2>1, <3>1, <3>3 DEF Originates
    <3> QED BY <3>2, <3>3
  <2> QED BY <2>8, <2>9
<1>9. CASE ReaderEnds
  <2>1. receiving
      BY <1>1 DEF StreamTypes
  <2>2. channel' = channel /\ nextLine' = nextLine /\ reader' = "ended" /\ nextLine = Len(source)
      BY <1>9, <2>1 DEF ReaderEnds
  <2>3. InOrder(bad, starts, total)'
      BY <1>1, <1>2, <2>2 DEF InOrder, ItemAt
  <2>4. Originates(bad, total)'
      BY <1>1, <1>3, <1>4, <2>2 DEF Originates
  <2> QED BY <2>3, <2>4
<1> QED BY <1>6, <1>7, <1>8, <1>9 DEF ReaderThread

LEMMA PollSkipsNothing ==
    ASSUME StreamTypes, NothingIsSkipped, Collect \/ Receive
    PROVE  NothingIsSkipped'
<1>1. /\ UNCHANGED <<source, reader, nextLine, tasks, seen, answer>>
      /\ channel' = Tail(channel) /\ channel # <<>> /\ answer = "none"
    BY DEF Collect, Receive, Wanted
<1> SUFFICES ASSUME ready' # <<Lost>>
             PROVE  \E bad \in BOOLEAN, starts \in [1 .. Len(tasks) + 1 -> Nat], total \in Nat :
                      InOrder(bad, starts, total)' /\ Originates(bad, total)'
    BY <1>1 DEF NothingIsSkipped
<1>2. /\ channel \in Seq(Nat) /\ chunk \in Seq(Int) /\ seen \in Nat /\ Len(chunk) \in Nat
      /\ ready \in Seq(Int) /\ tasks \in Seq(TaskSet) /\ Len(tasks) \in Nat
    BY TransitTypes DEF InTransit
<1>3. ready # <<Lost>>
  <2>1. CASE Collect
      BY <2>1 DEF Collect
  <2>2. CASE Receive
    <3>1. ready = <<>>
        BY <2>2 DEF Receive
    <3> QED BY <3>1
  <2> QED BY <2>1, <2>2
<1>4. PICK bad \in BOOLEAN, starts \in [1 .. Len(tasks) + 1 -> Nat], total \in Nat :
        InOrder(bad, starts, total) /\ Originates(bad, total)
    BY <1>1, <1>3 DEF NothingIsSkipped
<1>5. Originates(bad, total)'
    BY <1>1, <1>4 DEF Originates
<1>6. source' = source
    BY <1>1
<1>7. /\ Len(channel) \in Nat \ {0} /\ Len(channel') = Len(channel) - 1
      /\ Head(channel) = channel[1] /\ 1 \in DOMAIN channel /\ Head(channel) \in Nat
      /\ \A k \in DOMAIN channel' : k + 1 \in DOMAIN channel /\ channel'[k] = channel[k + 1] /\ k \in Nat \ {0}
    BY <1>1, <1>2, Tails
<1>8. PICK b \in Nat, c \in Nat, m \in Nat :
        b = starts[Len(tasks) + 1] /\ c = Len(channel) /\ m = Len(chunk)
    BY <1>2, <1>7, SMTT(30)
<1>9. total = b + m + c /\ \A k \in DOMAIN channel : channel[k] = ItemAt(bad, Len(source), b + m + k)
    BY <1>4, <1>8 DEF InOrder
<1>10. CASE Collect
  <2>1. chunk' = Append(chunk, Head(channel)) /\ ready' = ready
      BY <1>10 DEF Collect
  <2>2. /\ Len(chunk') = m + 1 /\ chunk'[m + 1] = channel[1]
        /\ \A k \in DOMAIN chunk' : k = m + 1 \/ (k \in DOMAIN chunk /\ chunk'[k] = chunk[k])
      BY <1>2, <1>7, <1>8, <2>1
  <2>3. \A k \in DOMAIN chunk' : chunk'[k] = ItemAt(bad, Len(source), b + k)
    <3>1. channel[1] = ItemAt(bad, Len(source), b + (m + 1))
      <4>1. b + m + 1 = b + (m + 1)
          OBVIOUS
      <4> QED BY <1>7, <1>9, <4>1
    <3>2. \A k \in DOMAIN chunk : chunk[k] = ItemAt(bad, Len(source), b + k)
        BY <1>4, <1>8 DEF InOrder
    <3> QED BY <2>2, <3>1, <3>2
  <2>4. \A k \in DOMAIN channel' : channel'[k] = ItemAt(bad, Len(source), b + (m + 1) + k)
    <3> TAKE k \in DOMAIN channel'
    <3>1. k \in Nat /\ channel'[k] = channel[k + 1] /\ k + 1 \in DOMAIN channel
        BY <1>7
    <3>2. b + (m + 1) + k = b + m + (k + 1)
        BY <3>1
    <3> QED BY <1>9, <3>1, <3>2
  <2>5. total = b + (m + 1) + Len(channel')
    <3>1. Len(channel') = c - 1
        BY <1>7, <1>8
    <3>2. b + m + c = b + (m + 1) + (c - 1)
        OBVIOUS
    <3> QED BY <1>9, <3>1, <3>2
  <2>6. InOrder(bad, starts, total)'
      BY <1>1, <1>4, <1>6, <1>8, <2>1, <2>2, <2>3, <2>4, <2>5, SMTT(30) DEF InOrder
  <2> QED BY <1>5, <2>6
<1>11. CASE Receive
  <2>1. ready' = <<Head(channel)>> /\ ready = <<>> /\ chunk' = chunk /\ chunk = <<>> /\ tasks = <<>>
      BY <1>11 DEF Receive, StreamTypes
  <2>2. Len(tasks) = 0 /\ Len(ready) = 0 /\ m = 0 /\ DOMAIN tasks = {}
      BY <1>8, <2>1
  <2>3. b = seen
    <3>1. starts[1] = seen + Len(ready)
        BY <1>4 DEF InOrder
    <3> QED BY <1>2, <1>8, <2>2, <3>1
  <2>4. PICK from : from = [i \in 1 .. 1 |-> b + 1]
      OBVIOUS
  <2>5. from \in [1 .. Len(tasks) + 1 -> Nat] /\ from[1] = b + 1
      BY <2>2, <2>4
  <2>6. Len(ready') = 1 /\ DOMAIN ready' = {1} /\ ready'[1] = channel[1]
      BY <1>7, <2>1
  <2>7. channel[1] = ItemAt(bad, Len(source), b + 1)
    <3>1. b + m + 1 = b + 1
        BY <2>2
    <3> QED BY <1>7, <1>9, <3>1
  <2>8. \A k \in DOMAIN channel' : channel'[k] = ItemAt(bad, Len(source), b + 1 + 0 + k)
    <3> TAKE k \in DOMAIN channel'
    <3>1. k \in Nat /\ channel'[k] = channel[k + 1] /\ k + 1 \in DOMAIN channel
        BY <1>7
    <3>2. b + 1 + 0 + k = b + m + (k + 1)
        BY <2>2, <3>1
    <3> QED BY <1>9, <3>1, <3>2
  <2>9. total = b + 1 + 0 + Len(channel') /\ b + 1 <= total
    <3>1. Len(channel') = c - 1
        BY <1>7, <1>8
    <3>2. total = b + m + c /\ c \in Nat \ {0}
        BY <1>7, <1>8, <1>9
    <3>3. total = b + 1 + 0 + (c - 1) /\ b + 1 <= total
        BY <2>2, <3>2
    <3> QED BY <3>1, <3>3
  <2>10. Len(tasks) + 1 = 1 /\ Len(chunk) = 0 /\ DOMAIN chunk = {}
      BY <2>1, <2>2
  <2>11. InOrder(bad, from, total)'
    <3>1. \A i \in 1 .. 1 : i = 1
        OBVIOUS
    <3> QED BY <1>1, <1>6, <2>1, <2>2, <2>3, <2>5, <2>6, <2>7, <2>8, <2>9, <2>10, <3>1 DEF InOrder
  <2> QED BY <1>5, <2>5, <2>11
<1> QED BY <1>10, <1>11

LEMMA DispatchSkipsNothing ==
    ASSUME StreamTypes, NothingIsSkipped, Dispatch
    PROVE  NothingIsSkipped'
<1>1. /\ UNCHANGED <<source, reader, nextLine, channel, ready, seen, answer>> /\ answer = "none"
      /\ tasks' = Append(tasks, [lines |-> chunk, state |-> "running"]) /\ chunk' = <<>>
    BY DEF Dispatch, Wanted
<1>2. /\ channel \in Seq(Nat) /\ chunk \in Seq(Int) /\ tasks \in Seq(TaskSet)
      /\ Len(channel) \in Nat /\ Len(chunk) \in Nat /\ Len(tasks) \in Nat
    BY TransitTypes DEF InTransit
<1>3. PICK n \in Nat : n = Len(tasks)
    BY <1>2
<1>4. /\ Len(tasks') = n + 1 /\ tasks'[n + 1].lines = chunk /\ DOMAIN tasks' = 1 .. n + 1
      /\ \A i \in DOMAIN tasks : i \in 1 .. n /\ tasks'[i] = tasks[i]
  <2>1. PICK t \in TaskSet : t = [lines |-> chunk, state |-> "running"]
      BY <1>2 DEF TaskSet
  <2>2. t.lines = chunk
      BY <2>1
  <2> QED BY <1>1, <1>2, <1>3, <2>1, <2>2
<1> SUFFICES ASSUME ready # <<Lost>>
             PROVE  \E bad \in BOOLEAN, starts \in [1 .. n + 2 -> Nat], total \in Nat :
                      InOrder(bad, starts, total)' /\ Originates(bad, total)'
  <2>1. Len(tasks') + 1 = n + 2
      BY <1>4
  <2> QED BY <1>1, <2>1 DEF NothingIsSkipped
<1>5. PICK bad \in BOOLEAN, starts \in [1 .. n + 1 -> Nat], total \in Nat :
        InOrder(bad, starts, total) /\ Originates(bad, total)
    BY <1>1, <1>3 DEF NothingIsSkipped
<1>6. Originates(bad, total)'
    BY <1>1, <1>5 DEF Originates, ItemAt
<1>7. PICK m \in Nat, c \in Nat : m = Len(chunk) /\ c = Len(channel)
    BY <1>2
<1>8. PICK from : from = [i \in 1 .. n + 2 |-> IF i = n + 2 THEN starts[n + 1] + m ELSE starts[i]]
    OBVIOUS
<1>9. /\ from \in [1 .. n + 2 -> Nat]
      /\ from[n + 2] = starts[n + 1] + m
      /\ \A i \in 1 .. n + 1 : from[i] = starts[i] /\ starts[i] \in Nat
    BY <1>8
<1>10. /\ starts[1] = seen + Len(ready)
       /\ \A i \in 1 .. n + 1 : starts[i] <= total
       /\ \A i \in DOMAIN tasks : starts[i + 1] = starts[i] + Len(tasks[i].lines)
       /\ \A k \in DOMAIN ready : ready[k] = ItemAt(bad, Len(source), seen + k)
       /\ \A i \in DOMAIN tasks : \A k \in DOMAIN tasks[i].lines :
            tasks[i].lines[k] = ItemAt(bad, Len(source), starts[i] + k)
       /\ \A k \in DOMAIN chunk : chunk[k] = ItemAt(bad, Len(source), starts[n + 1] + k)
       /\ \A k \in DOMAIN channel : channel[k] = ItemAt(bad, Len(source), starts[n + 1] + m + k)
       /\ total = starts[n + 1] + m + c
    BY <1>3, <1>5, <1>7 DEF InOrder
<1>11. DOMAIN tasks = 1 .. n
    BY <1>2, <1>3
<1>12. \A i \in 1 .. n + 1 : from[i + 1] = from[i] + Len(tasks'[i].lines)
  <2> TAKE i \in 1 .. n + 1
  <2>1. CASE i = n + 1
      BY <1>4, <1>7, <1>9, <2>1
  <2>2. CASE i \in 1 .. n
    <3>1. i \in 1 .. n + 1 /\ i + 1 \in 1 .. n + 1
        BY <2>2
    <3>2. tasks'[i] = tasks[i] /\ starts[i + 1] = starts[i] + Len(tasks[i].lines)
        BY <1>4, <1>10, <1>11, <2>2
    <3> QED BY <1>9, <3>1, <3>2
  <2> QED BY <2>1, <2>2
<1>13. \A i \in 1 .. n + 1 : \A k \in DOMAIN tasks'[i].lines : tasks'[i].lines[k] = ItemAt(bad, Len(source), from[i] + k)
  <2> TAKE i \in 1 .. n + 1
  <2>1. CASE i = n + 1
      BY <1>4, <1>9, <1>10, <2>1
  <2>2. CASE i \in 1 .. n
    <3>1. i \in 1 .. n + 1 /\ tasks'[i] = tasks[i]
        BY <1>4, <1>11, <2>2
    <3>2. from[i] = starts[i]
        BY <1>9, <3>1
    <3> QED BY <1>10, <1>11, <2>2, <3>1, <3>2, SMTT(30)
  <2> QED BY <2>1, <2>2
<1>14. \A i \in 1 .. n + 2 : from[i] <= total
  <2>1. from[n + 2] <= total /\ 1 .. n + 2 = (1 .. n + 1) \cup {n + 2}
      BY <1>9, <1>10
  <2> QED BY <1>9, <1>10, <2>1
<1>15. \A k \in DOMAIN channel : channel[k] = ItemAt(bad, Len(source), from[n + 2] + 0 + k)
  <2> TAKE k \in DOMAIN channel
  <2>1. k \in Nat /\ starts[n + 1] \in Nat
      BY <1>2, <1>9
  <2>2. starts[n + 1] + m + 0 + k = starts[n + 1] + m + k
      BY <2>1
  <2> QED BY <1>9, <1>10, <2>2
<1>16. total = from[n + 2] + 0 + c /\ from[1] = starts[1]
    BY <1>9, <1>10
<1>17. Len(<<>>) = 0 /\ DOMAIN <<>> = {} /\ n + 1 + 1 = n + 2
    OBVIOUS
<1>18. InOrder(bad, from, total)'
  <2>1. Len(tasks') + 1 = n + 2
      BY <1>4, <1>17
  <2>2. from \in [1 .. Len(tasks') + 1 -> Nat] /\ from[1] = seen' + Len(ready')
      BY <1>1, <1>9, <1>10, <1>16, <2>1
  <2>3. \A i \in 1 .. Len(tasks') + 1 : from[i] <= total
      BY <1>14, <2>1
  <2>4. \A i \in DOMAIN tasks' : from[i + 1] = from[i] + Len(tasks'[i].lines)
      BY <1>4, <1>12
  <2>5. \A k \in DOMAIN ready' : ready'[k] = ItemAt(bad, Len(source), seen' + k)
      BY <1>1, <1>6, <1>10
  <2>6. \A i \in DOMAIN tasks' : \A k \in DOMAIN tasks'[i].lines : tasks'[i].lines[k] = ItemAt(bad, Len(source), from[i] + k)
      BY <1>4, <1>6, <1>13
  <2>7. \A k \in DOMAIN chunk' : chunk'[k] = ItemAt(bad, Len(source), from[Len(tasks') + 1] + k)
      BY <1>1, <1>17
  <2>8. \A k \in DOMAIN channel' : channel'[k] = ItemAt(bad, Len(source), from[Len(tasks') + 1] + Len(chunk') + k)
      BY <1>1, <1>6, <1>15, <1>17, <2>1
  <2>9. total = from[Len(tasks') + 1] + Len(chunk') + Len(channel')
      BY <1>1, <1>7, <1>16, <1>17, <2>1
  <2> QED BY <1>1, <2>2, <2>3, <2>4, <2>5, <2>6, <2>7, <2>8, <2>9 DEF InOrder
<1> QED BY <1>6, <1>9, <1>18

LEMMA TaskSkipsNothing ==
    ASSUME StreamTypes, NothingIsSkipped, NEW i \in DOMAIN tasks, NEW state \in {"parsed", "lost"},
           TaskEnds(i, state)
    PROVE  NothingIsSkipped'
<1>1. UNCHANGED <<source, reader, nextLine, channel, chunk, ready, seen, answer>>
    BY DEF TaskEnds
<1>2. /\ Len(tasks') = Len(tasks) /\ DOMAIN tasks' = DOMAIN tasks
      /\ \A j \in DOMAIN tasks : tasks'[j].lines = tasks[j].lines
    BY TaskKeepsTypes
<1> SUFFICES ASSUME answer = "none", ready # <<Lost>>
             PROVE  \E bad \in BOOLEAN, starts \in [1 .. Len(tasks) + 1 -> Nat], total \in Nat :
                      InOrder(bad, starts, total)' /\ Originates(bad, total)'
    BY <1>1, <1>2 DEF NothingIsSkipped
<1>3. PICK bad \in BOOLEAN, starts \in [1 .. Len(tasks) + 1 -> Nat], total \in Nat :
        InOrder(bad, starts, total) /\ Originates(bad, total)
    BY DEF NothingIsSkipped
<1>4. Originates(bad, total)'
    BY <1>1, <1>3 DEF Originates, ItemAt
<1>5. InOrder(bad, starts, total)'
  <2>1. \A j \in DOMAIN tasks' : starts[j + 1] = starts[j] + Len(tasks'[j].lines)
      BY <1>2, <1>3 DEF InOrder
  <2>2. \A j \in DOMAIN tasks' : \A k \in DOMAIN tasks'[j].lines : tasks'[j].lines[k] = ItemAt(bad, Len(source), starts[j] + k)
    <3> TAKE j \in DOMAIN tasks'
    <3>1. tasks'[j].lines = tasks[j].lines /\ j \in DOMAIN tasks
        BY <1>2
    <3> QED BY <1>3, <1>4, <3>1 DEF InOrder
  <2>3. /\ starts \in [1 .. Len(tasks) + 1 -> Nat]
        /\ starts[1] = seen + Len(ready)
        /\ \A j \in 1 .. Len(tasks) + 1 : starts[j] <= total
        /\ \A k \in DOMAIN ready : ready[k] = ItemAt(bad, Len(source), seen + k)
        /\ \A k \in DOMAIN chunk : chunk[k] = ItemAt(bad, Len(source), starts[Len(tasks) + 1] + k)
        /\ \A k \in DOMAIN channel : channel[k] = ItemAt(bad, Len(source), starts[Len(tasks) + 1] + Len(chunk) + k)
        /\ total = starts[Len(tasks) + 1] + Len(chunk) + Len(channel)
      BY <1>3 DEF InOrder
  <2>4. /\ starts \in [1 .. Len(tasks') + 1 -> Nat]
        /\ starts[1] = seen' + Len(ready')
        /\ \A j \in 1 .. Len(tasks') + 1 : starts[j] <= total
        /\ \A k \in DOMAIN ready' : ready'[k] = ItemAt(bad, Len(source), seen' + k)
        /\ \A k \in DOMAIN chunk' : chunk'[k] = ItemAt(bad, Len(source), starts[Len(tasks') + 1] + k)
        /\ \A k \in DOMAIN channel' : channel'[k] = ItemAt(bad, Len(source), starts[Len(tasks') + 1] + Len(chunk') + k)
        /\ total = starts[Len(tasks') + 1] + Len(chunk') + Len(channel')
      BY <1>1, <1>2, <1>4, <2>3
  <2> QED BY <1>1, <2>1, <2>2, <2>4 DEF InOrder
<1> QED BY <1>4, <1>5

LEMMA FlattenSkipsNothing ==
    ASSUME StreamTypes, NothingIsSkipped, Flatten
    PROVE  NothingIsSkipped'
<1>1. UNCHANGED <<source, reader, nextLine, channel, chunk, seen, answer>> /\ answer = "none" /\ ready = <<>>
    BY DEF Flatten
<1>2. /\ Len(tasks) \in Nat \ {0} /\ Len(tasks') = Len(tasks) - 1
      /\ \A j \in 1 .. Len(tasks) - 1 : tasks'[j] = tasks[j + 1]
      /\ ready' = <<Lost>> \/ ready' = tasks[1].lines
    BY FlattenFacts
<1>3. PICK n \in Nat : Len(tasks) = n + 1
  <2>1. Len(tasks) - 1 \in Nat /\ Len(tasks) = (Len(tasks) - 1) + 1
      BY <1>2
  <2> QED BY <2>1
<1>4. /\ Len(tasks') = n /\ DOMAIN tasks' = 1 .. n /\ DOMAIN tasks = 1 .. n + 1
      /\ \A j \in 1 .. n : tasks'[j] = tasks[j + 1]
  <2>1. tasks \in Seq(TaskSet) /\ tasks' \in Seq(TaskSet)
      BY FlattenFacts DEF StreamTypes
  <2>2. Len(tasks') = n
      BY <1>2, <1>3
  <2>3. \A j \in 1 .. n : tasks'[j] = tasks[j + 1]
      BY <1>2, <1>3
  <2> QED BY <1>3, <2>1, <2>2, <2>3
<1> SUFFICES ASSUME ready' # <<Lost>>
             PROVE  \E bad \in BOOLEAN, starts \in [1 .. n + 1 -> Nat], total \in Nat :
                      InOrder(bad, starts, total)' /\ Originates(bad, total)'
    BY <1>1, <1>4 DEF NothingIsSkipped
<1>5. ready' = tasks[1].lines
    BY <1>2
<1>6. Len(tasks) + 1 = n + 2 /\ seen \in Nat
    BY <1>3 DEF StreamTypes, StreamTypeOK
<1>7. PICK bad \in BOOLEAN, starts \in [1 .. n + 2 -> Nat], total \in Nat :
        InOrder(bad, starts, total) /\ Originates(bad, total)
  <2>1. ready # <<Lost>>
      BY <1>1
  <2> QED BY <1>1, <1>6, <2>1 DEF NothingIsSkipped
<1>8. Originates(bad, total)'
    BY <1>1, <1>7 DEF Originates, ItemAt
<1>9. PICK from : from = [i \in 1 .. n + 1 |-> starts[i + 1]]
    OBVIOUS
<1>10. from \in [1 .. n + 1 -> Nat] /\ \A i \in 1 .. n + 1 : from[i] = starts[i + 1] /\ i + 1 \in 1 .. n + 2
    BY <1>9
<1>11. /\ starts[1] = seen + Len(ready)
       /\ \A i \in 1 .. n + 2 : starts[i] <= total
       /\ \A i \in DOMAIN tasks : starts[i + 1] = starts[i] + Len(tasks[i].lines)
       /\ \A i \in DOMAIN tasks : \A k \in DOMAIN tasks[i].lines :
            tasks[i].lines[k] = ItemAt(bad, Len(source), starts[i] + k)
       /\ \A k \in DOMAIN chunk : chunk[k] = ItemAt(bad, Len(source), starts[n + 2] + k)
       /\ \A k \in DOMAIN channel : channel[k] = ItemAt(bad, Len(source), starts[n + 2] + Len(chunk) + k)
       /\ total = starts[n + 2] + Len(chunk) + Len(channel)
    BY <1>6, <1>7 DEF InOrder
<1>12. starts[1] = seen /\ from[1] = seen + Len(ready')
  <2>1. Len(ready) = 0
      BY <1>1
  <2>2. starts[1] = seen
      BY <1>6, <1>11, <2>1
  <2>3. 1 \in DOMAIN tasks /\ 1 \in 1 .. n + 1 /\ 1 + 1 = 2
      BY <1>4
  <2>4. from[1] = starts[2] /\ starts[2] = starts[1] + Len(tasks[1].lines)
      BY <1>10, <1>11, <2>3
  <2> QED BY <1>5, <2>2, <2>4
<1>13. \A k \in DOMAIN ready' : ready'[k] = ItemAt(bad, Len(source), seen + k)
  <2>1. 1 \in DOMAIN tasks
      BY <1>4
  <2> QED BY <1>5, <1>11, <1>12, <2>1
<1>14. \A i \in 1 .. n : from[i + 1] = from[i] + Len(tasks'[i].lines)
  <2> TAKE i \in 1 .. n
  <2>1. i \in 1 .. n + 1 /\ i + 1 \in 1 .. n + 1 /\ i + 1 \in DOMAIN tasks
      BY <1>4
  <2>2. from[i + 1] = starts[(i + 1) + 1] /\ from[i] = starts[i + 1] /\ tasks'[i] = tasks[i + 1]
      BY <1>4, <1>10, <2>1
  <2> QED BY <1>11, <2>1, <2>2
<1>15. \A i \in 1 .. n : \A k \in DOMAIN tasks'[i].lines : tasks'[i].lines[k] = ItemAt(bad, Len(source), from[i] + k)
  <2> TAKE i \in 1 .. n
  <2>1. i \in 1 .. n + 1 /\ i + 1 \in DOMAIN tasks
      BY <1>4
  <2>2. from[i] = starts[i + 1] /\ tasks'[i] = tasks[i + 1]
      BY <1>4, <1>10, <2>1
  <2> QED BY <1>11, <2>1, <2>2
<1>16. from[n + 1] = starts[n + 2] /\ \A i \in 1 .. n + 1 : from[i] <= total
  <2>1. n + 1 + 1 = n + 2 /\ n + 1 \in 1 .. n + 1
      OBVIOUS
  <2> QED BY <1>10, <1>11, <2>1
<1>17. InOrder(bad, from, total)'
  <2>1. from \in [1 .. Len(tasks') + 1 -> Nat] /\ from[1] = seen' + Len(ready')
        /\ \A i \in 1 .. Len(tasks') + 1 : from[i] <= total
      BY <1>1, <1>4, <1>10, <1>12, <1>16
  <2>2. \A i \in DOMAIN tasks' : from[i + 1] = from[i] + Len(tasks'[i].lines)
      BY <1>4, <1>14
  <2>3. \A k \in DOMAIN ready' : ready'[k] = ItemAt(bad, Len(source), seen' + k)
      BY <1>1, <1>8, <1>13
  <2>4. \A i \in DOMAIN tasks' : \A k \in DOMAIN tasks'[i].lines : tasks'[i].lines[k] = ItemAt(bad, Len(source), from[i] + k)
      BY <1>4, <1>8, <1>15
  <2>5. \A k \in DOMAIN chunk' : chunk'[k] = ItemAt(bad, Len(source), from[Len(tasks') + 1] + k)
      BY <1>1, <1>4, <1>8, <1>11, <1>16
  <2>6. \A k \in DOMAIN channel' : channel'[k] = ItemAt(bad, Len(source), from[Len(tasks') + 1] + Len(chunk') + k)
      BY <1>1, <1>4, <1>8, <1>11, <1>16
  <2>7. total = from[Len(tasks') + 1] + Len(chunk') + Len(channel')
      BY <1>1, <1>4, <1>11, <1>16
  <2> QED BY <1>1, <2>1, <2>2, <2>3, <2>4, <2>5, <2>6, <2>7 DEF InOrder
<1> QED BY <1>8, <1>10, <1>17

\* The item at hand is the next line, and a line that was not read before.
LEMMA NextIsNext ==
    ASSUME StreamTypes, NothingIsSkipped, SeenIsJudged, ready # <<>>, ~ IsError(Head(ready))
    PROVE  /\ Head(ready) = seen + 1 /\ seen + 1 \in DOMAIN source
           /\ source[seen + 1] \in SnapshotLine
           /\ \A i \in 1 .. seen : i \in DOMAIN source /\ source[i] # Failure
           /\ answer = "none"
           /\ \E starts \in [1 .. Len(tasks) + 1 -> Nat], total \in Nat :
                InOrder(FALSE, starts, total) /\ Originates(FALSE, total)
<1>1. /\ ready \in Seq(Int) /\ answer = "none" /\ seen \in Nat /\ nextLine \in Nat /\ nextLine <= Len(source)
      /\ source \in Seq(StreamLine) /\ Len(source) \in Nat
    BY TransitTypes, SourceTyped DEF StreamTypes, InTransit
<1>2. Head(ready) = ready[1] /\ 1 \in DOMAIN ready /\ Len(ready) \in Nat \ {0}
    BY <1>1, Tails
<1>3. Head(ready) # OpenError /\ Head(ready) # Lost /\ source[Head(ready)] # Failure
    BY DEF IsError
<1>4. ready # <<Lost>>
    BY <1>2, <1>3
<1>5. PICK bad \in BOOLEAN, starts \in [1 .. Len(tasks) + 1 -> Nat], total \in Nat :
        InOrder(bad, starts, total) /\ Originates(bad, total)
    BY <1>1, <1>4 DEF NothingIsSkipped
<1>6. ready[1] = ItemAt(bad, Len(source), seen + 1) /\ starts[1] = seen + Len(ready) /\ starts[1] <= total
  <2>1. 1 \in 1 .. Len(tasks) + 1
      BY TransitTypes DEF InTransit
  <2> QED BY <1>2, <1>5, <2>1 DEF InOrder
<1>7. bad = FALSE
    BY <1>2, <1>3, <1>6 DEF ItemAt
<1>8. total >= seen + 1
    BY <1>1, <1>2, <1>6
<1>9. /\ total >= nextLine
      /\ total > nextLine => nextLine + 1 = Len(source) /\ source[Len(source)] = Failure
    BY <1>5, <1>7 DEF Originates
<1>10. \A i \in 1 .. seen : i \in DOMAIN source /\ source[i] # Failure
    BY <1>1 DEF SeenIsJudged, LinesJudged
<1>11. seen + 1 <= Len(source)
  <2> SUFFICES ASSUME seen >= Len(source) PROVE FALSE
      BY <1>1
  <2>1. total > nextLine
      BY <1>1, <1>8
  <2>2. Len(source) \in 1 .. seen
      BY <1>1, <1>9, <2>1
  <2> QED BY <1>9, <1>10, <2>1, <2>2
<1>12. Head(ready) = seen + 1
    BY <1>2, <1>6, <1>7, <1>11 DEF ItemAt
<1>13. seen + 1 \in DOMAIN source
    BY <1>1, <1>11
<1>14. source[seen + 1] \in SnapshotLine
    BY <1>1, <1>3, <1>12, <1>13 DEF StreamLine
<1> QED BY <1>1, <1>5, <1>7, <1>10, <1>12, <1>13, <1>14

LEMMA TakenSkipsNothing ==
    ASSUME StreamTypes, NothingIsSkipped, SeenIsJudged, ready # <<>>, ~ IsError(Head(ready)),
           ready' = Tail(ready), seen' = seen + 1,
           UNCHANGED <<source, reader, nextLine, channel, chunk, tasks, answer>>
    PROVE  NothingIsSkipped'
<1>1. PICK starts \in [1 .. Len(tasks) + 1 -> Nat], total \in Nat :
        InOrder(FALSE, starts, total) /\ Originates(FALSE, total)
    BY NextIsNext
<1>2. Originates(FALSE, total)'
    BY <1>1 DEF Originates, ItemAt
<1>3. seen \in Nat /\ ready \in Seq(Int)
    BY TransitTypes DEF InTransit
<1>4. /\ Len(ready) \in Nat \ {0} /\ Len(ready') = Len(ready) - 1
      /\ \A k \in DOMAIN ready' : k + 1 \in DOMAIN ready /\ ready'[k] = ready[k + 1] /\ k \in Nat \ {0}
    BY <1>3, Tails
<1>5. \A k \in DOMAIN ready' : ready'[k] = ItemAt(FALSE, Len(source), seen' + k)
  <2> TAKE k \in DOMAIN ready'
  <2>1. ready'[k] = ItemAt(FALSE, Len(source), seen + (k + 1))
      BY <1>1, <1>4 DEF InOrder
  <2>2. seen + (k + 1) = seen' + k
      BY <1>3, <1>4
  <2> QED BY <2>1, <2>2
<1>6. seen + Len(ready) = seen' + Len(ready')
    BY <1>3, <1>4
<1>7. InOrder(FALSE, starts, total)'
    BY <1>1, <1>2, <1>5, <1>6 DEF InOrder
<1> QED BY <1>2, <1>7 DEF NothingIsSkipped

-----------------------------------------------------------------------------
(* What was judged *)

LEMMA JudgedInitially == StreamInit => SeenIsJudged
<1> SUFFICES ASSUME StreamInit PROVE SeenIsJudged
    OBVIOUS
<1>1. seen = 0 /\ answer = "none" /\ found = EmptyValidation
    BY DEF StreamInit
<1>2. LinesJudged = {}
    BY <1>1 DEF LinesJudged
<1>3. /\ \A verdicts : SaidOf(source, 0, verdicts) = {}
      /\ PriorTo(source, 0 + 1) = {}
    BY DEF SaidOf, PriorTo
<1>4. AcceptedOf(source, 0) = {} /\ BehindOf(source, 0) = {}
    BY <1>3 DEF AcceptedOf, BehindOf
<1>5. IsListed(<<>>, {})
    BY DEF IsListed
<1>6. Cardinality({}) = 0
    BY FS_EmptySet
<1>7. /\ found \in ValidationType /\ found.valid_count = 0 /\ found.out_of_order = <<>>
      /\ found.duplicates = <<>> /\ found.invalid_lines = <<>> /\ found.unexpected_digests = <<>>
      /\ found.unsupported_formats = <<>> /\ found.last = 0
    BY <1>1 DEF EmptyValidation, ValidationType
<1>8. {} \ ({} \cup {}) = {}
    OBVIOUS
<1>9. JudgedTo(found, source, 0)
    BY <1>3, <1>4, <1>5, <1>6, <1>7, <1>8 DEF JudgedTo, IsGreatestOf
<1> QED BY <1>1, <1>2, <1>9 DEF SeenIsJudged

LEMMA LinesAreRead ==
    ASSUME StreamTypes, SeenIsJudged, NEW n, n = IF answer = "error" THEN seen - 1 ELSE seen
    PROVE  /\ n \in Nat
           /\ \A i \in 1 .. n : i \in DOMAIN source /\ source[i] \in SnapshotLine
<1>1. n \in Nat
    BY DEF StreamTypes, StreamTypeOK
<1>2. source \in Seq(StreamLine)
    BY SourceTyped
<1>3. ASSUME NEW i \in 1 .. n PROVE i \in DOMAIN source /\ source[i] \in SnapshotLine
  <2>1. i \in DOMAIN source /\ source[i] # Failure
      BY DEF SeenIsJudged, LinesJudged
  <2> QED BY <1>2, <2>1 DEF StreamLine
<1> QED BY <1>1, <1>3

\* Of the item at hand: it is judged, or was seen only.
LEMMA ItemIsJudged ==
    ASSUME StreamTypes, NothingIsSkipped, SeenIsJudged, ready # <<>>, ~ IsError(Head(ready)),
           seen' = seen + 1, answer' # "error", answer' # "ok", UNCHANGED <<source, use>>,
           use = "validate" => found' = Judge(found, Head(ready), source[Head(ready)])
    PROVE  SeenIsJudged'
<1>1. /\ Head(ready) = seen + 1 /\ seen + 1 \in DOMAIN source /\ source[seen + 1] \in SnapshotLine
      /\ \A i \in 1 .. seen : i \in DOMAIN source /\ source[i] # Failure
      /\ answer = "none"
    BY NextIsNext
<1>2. seen \in Nat /\ \A i \in 1 .. seen : source[i] \in SnapshotLine
    BY <1>1, LinesAreRead
<1>3. source[seen + 1] # Failure
    BY <1>1, StreamAssumption
<1>4. (\A i \in LinesJudged : i \in DOMAIN source /\ source[i] # Failure)'
  <2>1. \A i \in 1 .. seen + 1 : i \in 1 .. seen \/ i = seen + 1
      BY <1>2
  <2>2. LinesJudged' = 1 .. seen + 1
      BY DEF LinesJudged
  <2> QED BY <1>1, <1>3, <2>1, <2>2
<1>5. ASSUME use = "validate" PROVE JudgedTo(found', source, seen + 1)
  <2>1. JudgedTo(found, source, seen)
      BY <1>1, <1>5 DEF SeenIsJudged
  <2>2. \A d \in PriorTo(source, seen + 1) : d \in Nat \ {0}
    <3>1. \A i \in 1 .. seen : source[i].digest \in Nat \ {0}
        BY <1>2 DEF SnapshotLine
    <3>2. (seen + 1) - 1 = seen
        BY <1>2
    <3> QED BY <3>1, <3>2 DEF PriorTo
  <2>3. JudgedTo(Judge(found, seen + 1, source[seen + 1]), source, seen + 1)
      BY <1>1, <1>2, <2>1, <2>2, JudgeKeeps
  <2> QED BY <1>1, <1>5, <2>3
<1>6. (IF answer = "error" THEN seen - 1 ELSE seen)' = seen + 1
    OBVIOUS
<1>7. (use = "validate" => JudgedTo(found, source, IF answer = "error" THEN seen - 1 ELSE seen))'
    BY <1>5, <1>6
<1> QED BY <1>4, <1>7 DEF SeenIsJudged

\* An item that is an error, a caller who goes away.
LEMMA NothingIsJudged ==
    ASSUME StreamTypes, SeenIsJudged, answer = "none",
           answer' = "error" => seen' = seen + 1, answer' # "error" => seen' = seen,
           answer' = "ok" => seen = Len(source), UNCHANGED <<source, use, found>>
    PROVE  SeenIsJudged'
<1>1. seen \in Nat
    BY DEF StreamTypes, StreamTypeOK
<1>2. (IF answer = "error" THEN seen - 1 ELSE seen)' = IF answer = "error" THEN seen - 1 ELSE seen
    BY <1>1
<1>3. LinesJudged' = LinesJudged
    BY <1>2 DEF LinesJudged
<1> QED BY <1>2, <1>3 DEF SeenIsJudged

LEMMA StreamIsOverAtEnd ==
    ASSUME StreamTypes, NothingIsSkipped, StreamIsOver
    PROVE  seen = Len(source)
<1>1. /\ answer = "none" /\ reader = "ended" /\ channel = <<>> /\ chunk = <<>> /\ tasks = <<>> /\ ready = <<>>
    BY DEF StreamIsOver, Drained
<1>2. seen \in Nat /\ nextLine \in Nat /\ Len(source) \in Nat
    BY TransitTypes DEF InTransit
<1>3. PICK bad \in BOOLEAN, starts \in [1 .. Len(tasks) + 1 -> Nat], total \in Nat :
        InOrder(bad, starts, total) /\ Originates(bad, total)
  <2>1. ready # <<Lost>>
      BY <1>1
  <2> QED BY <1>1, <2>1 DEF NothingIsSkipped
<1>4. Len(tasks) = 0 /\ Len(chunk) = 0 /\ Len(channel) = 0 /\ Len(ready) = 0 /\ Len(tasks) + 1 = 1
    BY <1>1
<1>5. starts[1] = seen /\ total = starts[1]
  <2>1. starts[1] = seen + Len(ready) /\ total = starts[Len(tasks) + 1] + Len(chunk) + Len(channel)
      BY <1>3 DEF InOrder
  <2>2. starts[1] = seen
      BY <1>2, <1>4, <2>1
  <2> QED BY <1>2, <1>4, <2>1, <2>2
<1>6. bad = FALSE
    BY <1>3, <1>5 DEF Originates
<1> QED BY <1>1, <1>2, <1>3, <1>5, <1>6 DEF Originates

-----------------------------------------------------------------------------
(* The invariant *)

LEMMA StreamInitially == StreamInit => StreamInv
<1> SUFFICES ASSUME StreamInit PROVE StreamInv
    OBVIOUS
<1>1. /\ source \in StreamFiles /\ use \in {"validate", "open"} /\ parallel \in Parallelisms
      /\ reader = "opening" /\ nextLine = 0 /\ channel = <<>> /\ receiving = TRUE /\ chunk = <<>>
      /\ tasks = <<>> /\ ready = <<>> /\ seen = 0 /\ answer = "none"
    BY DEF StreamInit
<1>2. Len(source) \in Nat /\ parallel \in Nat /\ ChannelBuffer \in Nat /\ ChunkSize \in Nat
    BY <1>1, StreamAssumption
<1>3. Len(<<>>) = 0 /\ (<<>> \in Seq(Nat)) /\ (<<>> \in Seq(Int)) /\ (<<>> \in Seq(TaskSet))
    OBVIOUS
<1>4. receiving \in BOOLEAN /\ (receiving <=> answer = "none")
    BY <1>1
<1>5. StreamTypeOK
    BY <1>1, <1>2, <1>3, <1>4 DEF StreamTypeOK
<1>6. StreamTypes
    BY <1>1, <1>3, <1>4, <1>5 DEF StreamTypes
<1>7. NothingIsSkipped
  <2>1. PICK from : from = [i \in 1 .. 1 |-> 0]
      OBVIOUS
  <2>2. from \in [1 .. Len(tasks) + 1 -> Nat] /\ from[1] = 0 /\ Len(tasks) = 0
      BY <1>1, <2>1
  <2>3. Len(channel) = 0 /\ Len(chunk) = 0 /\ Len(ready) = 0
        /\ DOMAIN tasks = {} /\ DOMAIN ready = {} /\ DOMAIN chunk = {} /\ DOMAIN channel = {}
      BY <1>1
  <2>4. InOrder(FALSE, from, 0)
    <3>1. \A i \in 1 .. Len(tasks) + 1 : i = 1
        BY <2>2
    <3> QED BY <1>1, <2>2, <2>3, <3>1 DEF InOrder
  <2>5. Originates(FALSE, 0)
      BY <1>1 DEF Originates
  <2>6. FALSE \in BOOLEAN /\ 0 \in Nat
      OBVIOUS
  <2>7. \E starts \in [1 .. Len(tasks) + 1 -> Nat] : InOrder(FALSE, starts, 0)
      BY <2>2, <2>4, Zenon
  <2>8. \E bad \in BOOLEAN, starts \in [1 .. Len(tasks) + 1 -> Nat], total \in Nat :
          InOrder(bad, starts, total) /\ Originates(bad, total)
      BY <2>5, <2>6, <2>7, Zenon
  <2> QED BY <2>8, Zenon DEF NothingIsSkipped
<1> QED BY <1>6, <1>7, JudgedInitially DEF StreamInv

\* The consumer takes an item.
LEMMA ItemKeeps ==
    ASSUME StreamInv, Validate \/ TakeItem
    PROVE  StreamInv'
<1>1. StreamTypes /\ NothingIsSkipped /\ SeenIsJudged
    BY DEF StreamInv
<1>2. /\ ready # <<>> /\ seen' = seen + 1 /\ UNCHANGED <<source, use, parallel, reader, nextLine>>
    BY DEF Validate, TakeItem
<1>3. answer = "none" /\ reader # "opening"
    BY <1>1, <1>2 DEF StreamTypes
<1>4. CASE answer' = "error"
  <2>1. Close("error") /\ UNCHANGED found
    <3>1. CASE Validate
        BY <1>3, <1>4, <3>1 DEF Validate
    <3>2. CASE TakeItem
        BY <1>3, <1>4, <3>2 DEF TakeItem
    <3> QED BY <3>1, <3>2
  <2>2. StreamTypes'
      BY <1>1, <1>2, <1>3, <2>1, ClosedTypes
  <2>3. NothingIsSkipped'
      BY <1>4 DEF NothingIsSkipped
  <2>4. SeenIsJudged'
      BY <1>1, <1>2, <1>3, <1>4, <2>1, NothingIsJudged
  <2> QED BY <2>2, <2>3, <2>4 DEF StreamInv
<1>5. CASE answer' # "error"
  <2>1. /\ ~ IsError(Head(ready)) /\ ready' = Tail(ready)
        /\ UNCHANGED <<receiving, channel, chunk, tasks, answer>>
        /\ use = "validate" => found' = Judge(found, Head(ready), source[Head(ready)])
    <3>1. CASE Validate
        BY <1>5, <3>1 DEF Validate, Close
    <3>2. CASE TakeItem
        BY <1>5, <3>2 DEF TakeItem, Close
    <3> QED BY <3>1, <3>2
  <2>2. StreamTypes'
      BY <1>1, <1>2, <2>1, TakenTypes
  <2>3. NothingIsSkipped'
      BY <1>1, <1>2, <2>1, TakenSkipsNothing
  <2>4. SeenIsJudged'
      BY <1>1, <1>2, <1>3, <2>1, ItemIsJudged
  <2> QED BY <2>2, <2>3, <2>4 DEF StreamInv
<1> QED BY <1>4, <1>5

LEMMA ClosingKeeps ==
    ASSUME StreamInv, DropStream \/ StreamIsOver
    PROVE  StreamInv'
<1>1. StreamTypes /\ NothingIsSkipped /\ SeenIsJudged
    BY DEF StreamInv
<1>2. PICK a \in {"ok", "dropped"} : Close(a) /\ (a = "ok" => StreamIsOver)
    BY DEF DropStream, StreamIsOver
<1>3. UNCHANGED <<source, use, parallel, reader, nextLine, found, seen>> /\ answer = "none"
    BY DEF DropStream, StreamIsOver
<1>4. answer' = a
    BY <1>2 DEF Close
<1>5. a = "ok" => reader = "ended" /\ seen = Len(source)
    BY <1>1, <1>2, StreamIsOverAtEnd DEF StreamIsOver, Drained
<1>6. StreamTypes'
  <2>1. reader = "opening" => seen' = 0
      BY <1>1, <1>3 DEF StreamTypes
  <2> QED BY <1>1, <1>2, <1>3, <1>5, <2>1, ClosedTypes
<1>7. NothingIsSkipped'
    BY <1>4 DEF NothingIsSkipped
<1>8. SeenIsJudged'
    BY <1>1, <1>3, <1>4, <1>5, NothingIsJudged
<1> QED BY <1>6, <1>7, <1>8 DEF StreamInv

\* A step that judges nothing keeps what was judged.
LEMMA JudgedStays ==
    ASSUME SeenIsJudged, UNCHANGED <<source, use, found, seen, answer>>
    PROVE  SeenIsJudged'
BY DEF SeenIsJudged, LinesJudged

LEMMA StreamKept == StreamInv /\ [StreamNext]_streamVars => StreamInv'
<1> SUFFICES ASSUME StreamInv, [StreamNext]_streamVars PROVE StreamInv'
    OBVIOUS
<1>1. StreamTypes /\ NothingIsSkipped /\ SeenIsJudged
    BY DEF StreamInv
<1>2. CASE ReaderThread
  <2>1. UNCHANGED <<source, use, found, seen, answer>>
      BY <1>2 DEF ReaderThread, Opens, Sends, ReaderEnds, consumerVars
  <2> QED BY <1>1, <1>2, <2>1, ReaderKeepsTypes, ReaderSkipsNothing, JudgedStays DEF StreamInv
<1>3. CASE Collect \/ Receive
  <2>1. UNCHANGED <<source, use, found, seen, answer>>
      BY <1>3 DEF Collect, Receive
  <2> QED BY <1>1, <1>3, <2>1, PollKeepsTypes, PollSkipsNothing, JudgedStays DEF StreamInv
<1>4. CASE Dispatch
  <2>1. UNCHANGED <<source, use, found, seen, answer>>
      BY <1>4 DEF Dispatch
  <2> QED BY <1>1, <1>4, <2>1, DispatchKeepsTypes, DispatchSkipsNothing, JudgedStays DEF StreamInv
<1>5. CASE Flatten
  <2>1. UNCHANGED <<source, use, found, seen, answer>>
      BY <1>5 DEF Flatten
  <2> QED BY <1>1, <1>5, <2>1, FlattenFacts, FlattenSkipsNothing, JudgedStays DEF StreamInv
<1>6. CASE \E i \in DOMAIN tasks : Task(i)
  <2>1. PICK i \in DOMAIN tasks, state \in {"parsed", "lost"} : TaskEnds(i, state)
      BY <1>6 DEF Task
  <2>2. UNCHANGED <<source, use, found, seen, answer>>
      BY <2>1 DEF TaskEnds
  <2> QED BY <1>1, <2>1, <2>2, TaskKeepsTypes, TaskSkipsNothing, JudgedStays DEF StreamInv
<1>7. CASE Validate \/ TakeItem
    BY <1>7, ItemKeeps
<1>8. CASE DropStream \/ StreamIsOver
    BY <1>8, ClosingKeeps
<1>9. CASE UNCHANGED streamVars
  <2>1. StreamTypes'
      BY <1>1, <1>9 DEF StreamTypes, StreamTypeOK, streamVars
  <2>2. NothingIsSkipped'
      BY <1>1, <1>9 DEF NothingIsSkipped, InOrder, Originates, streamVars
  <2>3. SeenIsJudged'
      BY <1>1, <1>9, JudgedStays DEF streamVars
  <2> QED BY <2>1, <2>2, <2>3 DEF StreamInv
<1> QED BY <1>2, <1>3, <1>4, <1>5, <1>6, <1>7, <1>8, <1>9 DEF StreamNext, Consumer

LEMMA StreamInvariant == StreamSpec => []StreamInv
BY StreamInitially, StreamKept, PTL DEF StreamSpec

-----------------------------------------------------------------------------
(* What the invariant says of the two judgements *)

LEMMA SerialFromInv == StreamInv => SameAsSerial
<1> SUFFICES ASSUME StreamInv, use = "validate" PROVE SameAsSerial
    BY DEF SameAsSerial
<1>1. PICK n : n = IF answer = "error" THEN seen - 1 ELSE seen
    OBVIOUS
<1>2. JudgedTo(found, source, n) /\ (answer = "ok" => seen = Len(source))
    BY <1>1 DEF StreamInv, SeenIsJudged
<1>3. \A verdicts : OfVerdict(verdicts) = SaidOf(source, n, verdicts)
    BY <1>1 DEF OfVerdict, SaidOf, LinesJudged
<1>4. \A i : Before(i) = PriorTo(source, i)
    BY DEF Before, PriorTo
<1>5. /\ AcceptedOf(source, n) = {i \in OfVerdict({"valid"}) : \A d \in Before(i) : d < source[i].digest}
      /\ BehindOf(source, n) = {i \in OfVerdict({"valid"}) : \E d \in Before(i) : d > source[i].digest}
    BY <1>3, <1>4 DEF AcceptedOf, BehindOf
<1> QED BY <1>2, <1>3, <1>5 DEF SameAsSerial, JudgedTo

\* Digests that ascend line by line ascend throughout.
LEMMA AscendingThroughout ==
    ASSUME NEW s, NEW n \in Nat, AllAscend(s, n), \A i \in 1 .. n : s[i].digest \in Nat
    PROVE  \A i \in 1 .. n, j \in 1 .. n : j < i => s[j].digest < s[i].digest
<1> DEFINE T == {m \in Nat : m <= n => \A j \in 1 .. m - 1 : s[j].digest < s[m].digest}
<1>1. 0 \in T
    OBVIOUS
<1>2. ASSUME NEW m \in Nat, m \in T PROVE m + 1 \in T
  <2> SUFFICES ASSUME m + 1 <= n, NEW j \in 1 .. (m + 1) - 1 PROVE s[j].digest < s[m + 1].digest
      OBVIOUS
  <2>1. j \in 1 .. m /\ m \in 1 .. n /\ m + 1 \in 1 .. n /\ j \in 1 .. n /\ (m + 1) - 1 = m
      OBVIOUS
  <2>2. s[m].digest < s[m + 1].digest
      BY <2>1 DEF AllAscend
  <2>3. j = m \/ s[j].digest < s[m].digest
      BY <1>2, <2>1
  <2>4. PICK a \in Nat, b \in Nat, c \in Nat : a = s[j].digest /\ b = s[m].digest /\ c = s[m + 1].digest
      BY <2>1
  <2> QED BY <2>2, <2>3, <2>4
<1> HIDE DEF T
<1>3. Nat \subseteq T
    BY <1>1, <1>2, NatFromZero
<1> QED BY <1>3 DEF T

LEMMA SucceedsIfAscending ==
    ASSUME NEW s, NEW n \in Nat, NEW v, JudgedTo(v, s, n), \A i \in 1 .. n : s[i] \in SnapshotLine
    PROVE  ValidationSucceeds(v) <=> AllAscend(s, n)
<1>1. \A list, S : IsListed(list, S) => (list = <<>> <=> S = {})
  <2> TAKE list, S
  <2> SUFFICES ASSUME IsListed(list, S) PROVE list = <<>> <=> S = {}
      OBVIOUS
  <2>1. list \in Seq(Nat) /\ {list[i] : i \in DOMAIN list} = S
      BY DEF IsListed
  <2>2. list # <<>> => 1 \in DOMAIN list
      BY <2>1
  <2>3. list # <<>> => list[1] \in S
      BY <2>1, <2>2
  <2>4. list = <<>> => DOMAIN list = {}
      OBVIOUS
  <2>5. list = <<>> => S = {}
      BY <2>1, <2>4
  <2> QED BY <2>3, <2>5
<1>2. PICK valid, accepted, behind :
        valid = SaidOf(s, n, {"valid"}) /\ accepted = AcceptedOf(s, n) /\ behind = BehindOf(s, n)
    OBVIOUS
<1>3. ValidationSucceeds(v) <=>
        /\ behind = {} /\ valid \ (accepted \cup behind) = {}
        /\ SaidOf(s, n, {"blank", "unparsed"}) = {} /\ SaidOf(s, n, {"mismatch"}) = {}
        /\ SaidOf(s, n, {"unsupported"}) = {}
  <2>1. /\ v.out_of_order = <<>> <=> behind = {}
        /\ v.duplicates = <<>> <=> valid \ (accepted \cup behind) = {}
        /\ v.invalid_lines = <<>> <=> SaidOf(s, n, {"blank", "unparsed"}) = {}
        /\ v.unexpected_digests = <<>> <=> SaidOf(s, n, {"mismatch"}) = {}
        /\ v.unsupported_formats = <<>> <=> SaidOf(s, n, {"unsupported"}) = {}
      BY <1>1, <1>2 DEF JudgedTo
  <2> QED BY <2>1 DEF ValidationSucceeds
<1>4. \A i \in 1 .. n : s[i].verdict \in Verdict /\ s[i].digest \in Nat
    BY DEF SnapshotLine
<1>5. /\ accepted = {i \in valid : \A d \in PriorTo(s, i) : d < s[i].digest}
      /\ behind = {i \in valid : \E d \in PriorTo(s, i) : d > s[i].digest}
      /\ valid = {i \in 1 .. n : s[i].verdict = "valid"}
    BY <1>2 DEF AcceptedOf, BehindOf, SaidOf
<1>6. ASSUME ValidationSucceeds(v) PROVE AllAscend(s, n)
  <2>1. \A i \in 1 .. n : s[i].verdict = "valid"
      BY <1>3, <1>4, <1>6 DEF SaidOf, Verdict
  <2>2. \A i \in 1 .. n : i \in accepted
      BY <1>3, <1>5, <1>6, <2>1
  <2>3. ASSUME NEW i \in 1 .. n, i > 1 PROVE s[i - 1].digest < s[i].digest
    <3>1. i - 1 \in 1 .. i - 1 /\ i - 1 \in 1 .. n
        BY <2>3
    <3>2. s[i - 1].digest \in PriorTo(s, i)
        BY <2>1, <3>1 DEF PriorTo
    <3> QED BY <1>5, <2>2, <3>2
  <2> QED BY <2>1, <2>3 DEF AllAscend
<1>7. ASSUME AllAscend(s, n) PROVE ValidationSucceeds(v)
  <2>1. \A i \in 1 .. n : s[i].verdict = "valid"
      BY <1>7 DEF AllAscend
  <2>2. \A i \in 1 .. n : \A d \in PriorTo(s, i) : d < s[i].digest /\ d \in Nat
    <3> TAKE i \in 1 .. n
    <3> TAKE d \in PriorTo(s, i)
    <3>1. PICK j \in 1 .. i - 1 : d = s[j].digest
        BY DEF PriorTo
    <3>2. j \in 1 .. n /\ j < i
        OBVIOUS
    <3> QED BY <1>4, <1>7, <3>1, <3>2, AscendingThroughout
  <2>3. accepted = valid
      BY <1>5, <2>2
  <2>4. behind = {}
    <3>1. \A i \in 1 .. n : \A d \in PriorTo(s, i) : ~ (d > s[i].digest)
        BY <1>4, <2>2
    <3> QED BY <1>5, <3>1
  <2>5. /\ SaidOf(s, n, {"blank", "unparsed"}) = {} /\ SaidOf(s, n, {"mismatch"}) = {}
        /\ SaidOf(s, n, {"unsupported"}) = {}
      BY <2>1 DEF SaidOf
  <2> QED BY <1>3, <2>3, <2>4, <2>5
<1> QED BY <1>6, <1>7

\* With the three fields emptied, which a validation knows nothing of, a check succeeds if nothing
\* else is wrong.
LEMMA CheckSucceedsIf ==
    ASSUME NEW c \in CheckType
    PROVE  CheckSucceeds([c EXCEPT !.url_without_timestamp = <<>>, !.redundant_expected_digest = <<>>,
                                   !.redundant_url = <<>>]) <=> NoneWrong(c)
<1>1. PICK t : t = [c EXCEPT !.url_without_timestamp = <<>>, !.redundant_expected_digest = <<>>,
                             !.redundant_url = <<>>]
    OBVIOUS
<1>2. /\ t.schema_errors = c.schema_errors /\ t.digest_mismatches = c.digest_mismatches
      /\ t.unsupported_formats = c.unsupported_formats /\ t.out_of_order = c.out_of_order
      /\ t.duplicates = c.duplicates /\ t.url_without_timestamp = <<>>
      /\ t.redundant_expected_digest = <<>> /\ t.redundant_url = <<>>
    BY <1>1 DEF CheckType
<1>3. CheckSucceeds(t) <=> NoneWrong(c)
    BY <1>2 DEF CheckSucceeds, NoneWrong
<1> QED BY <1>1, <1>3

LEMMA AgreementFromInv == StreamInv => ChecksAgree
<1> SUFFICES ASSUME StreamInv, use = "validate", answer = "ok" PROVE ChecksAgree
    BY DEF ChecksAgree
<1>1. StreamTypes /\ SeenIsJudged
    BY DEF StreamInv
<1>2. seen = Len(source) /\ JudgedTo(found, source, seen)
    BY <1>1 DEF SeenIsJudged
<1>3. seen \in Nat /\ \A i \in 1 .. seen : source[i] \in SnapshotLine
    BY LinesAreRead, <1>1
<1>4. source \in Seq(SnapshotLine)
    BY <1>1, <1>2, <1>3, SourceTyped, SeqNarrows
<1>5. PICK c : c = Checked(source)
    OBVIOUS
<1>6. CheckedTo(c, source, Len(source))
    BY <1>4, <1>5, CheckedSteps
<1>7. /\ c \in CheckType /\ (c.line_count = Len(source) /\ NoneWrong(c) <=> AllAscend(source, Len(source)))
    BY <1>6 DEF CheckedTo
<1>8. ValidationSucceeds(found) <=> AllAscend(source, Len(source))
    BY <1>2, <1>3, SucceedsIfAscending
<1>9. CheckSucceeds([c EXCEPT !.url_without_timestamp = <<>>, !.redundant_expected_digest = <<>>,
                              !.redundant_url = <<>>]) <=> NoneWrong(c)
    BY <1>7, CheckSucceedsIf
<1> QED BY <1>5, <1>7, <1>8, <1>9, Zenon DEF ChecksAgree

\* validate_with and check_source judge every file alike, however many tasks parse it and in
\* whichever order they end: a validation says what the lines say up to the one it stopped at, and
\* succeeds exactly if the check does.
THEOREM JudgementIsIndependent == StreamSpec => []JudgementIsOne
<1>1. StreamInv => JudgementIsOne
    BY SerialFromInv, AgreementFromInv DEF StreamInv, StreamTypes, JudgementIsOne
<1> QED BY <1>1, StreamInvariant, PTL

-----------------------------------------------------------------------------
(* The inductive invariant of an enrichment *)

CountsType ==
    [read : Nat, written : Nat, skipped_duplicate : Nat, enhanced : Nat, already_enhanced : Nat,
     unmatched : Seq(Nat)]

\* What MayBecome and RunStarts say, of given captures, expected digests, lines and numbers.
CapturesIn(k, d) == IF d \in DOMAIN k THEN k[d] ELSE {}
FallbackOf(g, s) ==
    IF s.expected > 0 THEN s.expected
    ELSE IF s.digest \in DOMAIN g /\ g[s.digest] > 0 THEN g[s.digest]
    ELSE 0
Becomes(k, g, s, o) ==
    \/ o = s
    \/ /\ o.digest = s.digest /\ s.time = 0
       /\ \/ /\ CapturesIn(k, s.digest) # {}
             /\ o.time = Earliest(CapturesIn(k, s.digest))
             /\ o.expected = 0
          \/ /\ CapturesIn(k, FallbackOf(g, s)) # {}
             /\ o.time = Earliest(CapturesIn(k, FallbackOf(g, s)))
             /\ o.expected = s.expected
StartsTo(s, n) == {i \in 1 .. n : i = 1 \/ s[i - 1].digest # s[i].digest}

\* What a writer holds after the first n lines.
OutputOf(w, s, k, g, n) ==
    /\ Len(w.lines) = Cardinality(StartsTo(s, n))
    /\ \A i \in StartsTo(s, n) : Becomes(k, g, s[i], w.lines[Rank(StartsTo(s, n), i)])
    /\ w.last_written = IF n = 0 THEN NoDigest ELSE s[n].digest

EnhanceTypes ==
    /\ EnhanceTypeOK
    /\ unreadLines \in Seq(SnapshotRecord \cup {BadSnapshot})
    /\ batch \in Seq(SnapshotRecord)
    /\ counts \in CountsType
    /\ Len(batch) <= counts.read /\ counts.read <= Len(whole)

\* Where the loop is in the input, and what its end says.
InputIsNext ==
    phase \in {"open", "read", "flush", "write"} =>
      /\ enhanceError = NoError /\ enhanceResult = NoError
      /\ Len(unreadLines) = Len(whole) - counts.read
      /\ \A k \in DOMAIN unreadLines : unreadLines[k] = whole[counts.read + k]
Stages ==
    /\ phase = "finish" => enhanceResult = NoError
    /\ phase # "done" => enhanced.output = "open"
    /\ phase = "open" => counts.read = 0
    /\ phase \in {"open", "read"} => Len(batch) < BatchSize /\ finalFlush = FALSE
    /\ phase \in {"open", "read", "flush"} => written = 0
    /\ finalFlush => counts.read = Len(whole)
    /\ phase \in {"finish", "done"} /\ enhanceError = NoError /\ enhanceResult = NoError =>
         finalFlush /\ batch = <<>> /\ written = 0
    /\ phase = "done" => (enhanceResult = NoError <=> enhanced.output = "published" /\ enhanceError = NoError)
    /\ phase = "done" /\ enhanced.output = "open" => counts.read = 0

\* Every line read has one count for what became of its time, and one for its way to the output.
Classified == counts.enhanced + counts.already_enhanced + Len(counts.unmatched)
CountsAddUp ==
    /\ phase \in {"open", "read", "flush"} => Classified + Len(batch) = counts.read
    /\ phase = "write" \/ (phase \in {"finish", "done"} /\ enhanceError = NoError /\ enhanceResult = NoError) =>
         Classified = counts.read
    /\ counts.read = counts.written + counts.skipped_duplicate + (Len(batch) - written)

BatchIsNext ==
    /\ \A i \in DOMAIN batch : Becomes(known, log, whole[counts.read - Len(batch) + i], batch[i])
    /\ phase \in {"open", "read", "flush"} =>
         \A i \in DOMAIN batch : batch[i] = whole[counts.read - Len(batch) + i]
OutputIsSound == OutputOf(enhanced, whole, known, log, counts.read - (Len(batch) - written))

EnhanceInv == EnhanceTypes /\ InputIsNext /\ Stages /\ CountsAddUp /\ BatchIsNext /\ OutputIsSound

-----------------------------------------------------------------------------
(* What is written for the lines *)

\* A number at the end of a set of numbers comes last in it.
LEMMA LastIsRanked ==
    ASSUME NEW S \in SUBSET Nat, IsFiniteSet(S), NEW n \in Nat, \A i \in S : i <= n
    PROVE  /\ Cardinality(S \cup {n + 1}) = Cardinality(S) + 1 /\ Cardinality(S) \in Nat
           /\ Rank(S \cup {n + 1}, n + 1) = Cardinality(S) + 1
           /\ \A i \in S : Rank(S \cup {n + 1}, i) = Rank(S, i)
           /\ \A i \in S : Rank(S, i) \in 1 .. Cardinality(S)
<1>1. n + 1 \notin S
    BY DEF Rank
<1>2. Cardinality(S \cup {n + 1}) = Cardinality(S) + 1 /\ Cardinality(S) \in Nat
    BY <1>1, FS_AddElement, FS_CardinalityType
<1>3. {j \in S \cup {n + 1} : j <= n + 1} = S \cup {n + 1}
  <2>1. \A i \in S : i \in Nat /\ i <= n + 1
      OBVIOUS
  <2>2. PICK U : U = S \cup {n + 1}
      OBVIOUS
  <2>3. \A j \in U : j <= n + 1
      BY <2>1, <2>2
  <2>4. {j \in U : j <= n + 1} = U
      BY <2>3, Zenon
  <2> QED BY <2>2, <2>4
<1>4. ASSUME NEW i \in S
      PROVE  Rank(S \cup {n + 1}, i) = Rank(S, i)
  <2>1. i \in Nat /\ ~ (n + 1 <= i)
      OBVIOUS
  <2>2. {j \in S \cup {n + 1} : j <= i} = {j \in S : j <= i}
      BY <2>1
  <2> QED BY <2>2 DEF Rank
<1>5. ASSUME NEW i \in S
      PROVE  Rank(S, i) \in 1 .. Cardinality(S)
  <2>1. PICK T : T = {j \in S : j <= i}
      OBVIOUS
  <2>2. T \subseteq S /\ i \in T
      BY <2>1
  <2>3. IsFiniteSet(T) /\ Cardinality(T) <= Cardinality(S) /\ Cardinality(T) \in Nat
      BY <2>2, FS_Subset, FS_CardinalityType
  <2>4. Cardinality(T) # 0
      BY <2>2, <2>3, FS_EmptySet
  <2> QED BY <1>2, <2>1, <2>3, <2>4 DEF Rank
<1> QED BY <1>2, <1>3, <1>4, <1>5 DEF Rank

LEMMA StartsGrow ==
    ASSUME NEW s, NEW n \in Nat
    PROVE  /\ StartsTo(s, n) \in SUBSET Nat /\ IsFiniteSet(StartsTo(s, n))
           /\ \A i \in StartsTo(s, n) : i <= n
           /\ StartsTo(s, n + 1) = IF n = 0 \/ s[n].digest # s[n + 1].digest
                                   THEN StartsTo(s, n) \cup {n + 1} ELSE StartsTo(s, n)
<1>1. StartsTo(s, n) \subseteq 1 .. n
    BY DEF StartsTo
<1>2. IsFiniteSet(StartsTo(s, n))
    BY <1>1, FS_Interval, FS_Subset
<1>3. 1 .. n + 1 = (1 .. n) \cup {n + 1} /\ (n + 1) - 1 = n /\ (n + 1 = 1 <=> n = 0)
    OBVIOUS
<1>4. n + 1 \in StartsTo(s, n + 1) <=> n = 0 \/ s[n].digest # s[n + 1].digest
    BY <1>3 DEF StartsTo
<1>5. \A i \in 1 .. n : i \in StartsTo(s, n + 1) <=> i \in StartsTo(s, n)
    BY <1>3 DEF StartsTo
<1>6. StartsTo(s, n + 1) \subseteq (1 .. n) \cup {n + 1}
    BY <1>3 DEF StartsTo
<1> QED BY <1>1, <1>2, <1>4, <1>5, <1>6

\* The next line is written, or it repeats the digest of the one before it.
LEMMA WriteExtends ==
    ASSUME NEW w \in WriterType(SnapshotRecord), NEW s, NEW k, NEW g, NEW n \in Nat,
           OutputOf(w, s, k, g, n), NEW o \in SnapshotRecord, Becomes(k, g, s[n + 1], o)
    PROVE  /\ Repeats(w, o.digest) => OutputOf(w, s, k, g, n + 1)
           /\ ~ Repeats(w, o.digest) =>
                /\ Written(w, o) \in WriterType(SnapshotRecord)
                /\ Written(w, o).output = w.output
                /\ OutputOf(Written(w, o), s, k, g, n + 1)
<1>1. s[n + 1].digest = o.digest /\ o.digest \in Nat \ {0}
    BY DEF Becomes, SnapshotRecord
<1>2. PICK S, T : S = StartsTo(s, n) /\ T = StartsTo(s, n + 1)
    OBVIOUS
<1>3. /\ S \in SUBSET Nat /\ IsFiniteSet(S) /\ (\A i \in S : i <= n)
      /\ T = IF n = 0 \/ s[n].digest # s[n + 1].digest THEN S \cup {n + 1} ELSE S
    BY <1>2, StartsGrow
<1>4. /\ Len(w.lines) = Cardinality(S)
      /\ \A i \in S : Becomes(k, g, s[i], w.lines[Rank(S, i)])
      /\ w.last_written = IF n = 0 THEN NoDigest ELSE s[n].digest
    BY <1>2 DEF OutputOf
<1>5. n + 1 # 0
    OBVIOUS
<1>6. Repeats(w, o.digest) <=> n # 0 /\ s[n].digest = s[n + 1].digest
    BY <1>1, <1>4 DEF Repeats, NoDigest
<1>7. ASSUME Repeats(w, o.digest) PROVE OutputOf(w, s, k, g, n + 1)
  <2>1. T = S /\ w.last_written = s[n + 1].digest
      BY <1>3, <1>4, <1>6, <1>7
  <2> QED BY <1>2, <1>4, <1>5, <2>1 DEF OutputOf
<1>8. ASSUME ~ Repeats(w, o.digest)
      PROVE  /\ Written(w, o) \in WriterType(SnapshotRecord)
             /\ Written(w, o).output = w.output
             /\ OutputOf(Written(w, o), s, k, g, n + 1)
  <2>1. PICK q : q = Append(w.lines, o)
      OBVIOUS
  <2>2. PICK v : v = Written(w, o)
      OBVIOUS
  <2>3. /\ w.lines \in Seq(SnapshotRecord) /\ w.last_written \in Nat
        /\ w.output \in {"open"} \cup Outcomes
      BY DEF WriterType
  <2>4. /\ q \in Seq(SnapshotRecord) /\ Len(q) = Len(w.lines) + 1 /\ q[Len(w.lines) + 1] = o
        /\ \A i \in 1 .. Len(w.lines) : q[i] = w.lines[i]
      BY <2>1, <2>3
  <2>5. v = [w EXCEPT !.lines = q, !.last_written = o.digest]
      BY <2>1, <2>2 DEF Written
  <2>6. v \in WriterType(SnapshotRecord) /\ v.lines = q /\ v.last_written = o.digest /\ v.output = w.output
      BY <1>1, <2>3, <2>4, <2>5 DEF WriterType
  <2>7. T = S \cup {n + 1}
      BY <1>3, <1>6, <1>8
  <2>8. /\ Cardinality(T) = Cardinality(S) + 1 /\ Rank(T, n + 1) = Cardinality(S) + 1
        /\ \A i \in S : Rank(T, i) = Rank(S, i) /\ Rank(S, i) \in 1 .. Cardinality(S)
    <3>1. /\ Cardinality(S \cup {n + 1}) = Cardinality(S) + 1
          /\ Rank(S \cup {n + 1}, n + 1) = Cardinality(S) + 1
          /\ \A i \in S : Rank(S \cup {n + 1}, i) = Rank(S, i)
          /\ \A i \in S : Rank(S, i) \in 1 .. Cardinality(S)
        BY <1>3, LastIsRanked
    <3> QED BY <2>7, <3>1, Zenon
  <2>9. ASSUME NEW i \in T PROVE Becomes(k, g, s[i], q[Rank(T, i)])
    <3>1. CASE i = n + 1
        BY <1>4, <2>4, <2>8, <3>1
    <3>2. CASE i \in S
        BY <1>4, <2>4, <2>8, <3>2
    <3> QED BY <2>7, <3>1, <3>2
  <2>10. OutputOf(v, s, k, g, n + 1)
      BY <1>1, <1>2, <1>4, <1>5, <2>4, <2>6, <2>8, <2>9 DEF OutputOf
  <2> QED BY <2>2, <2>6, <2>10
<1> QED BY <1>7, <1>8

-----------------------------------------------------------------------------
(* The steps of an enrichment *)

NumbersTyped ==
    /\ counts.read \in Nat /\ counts.written \in Nat /\ counts.skipped_duplicate \in Nat
    /\ counts.enhanced \in Nat /\ counts.already_enhanced \in Nat /\ counts.unmatched \in Seq(Nat)
    /\ Len(counts.unmatched) \in Nat
    /\ written \in Nat /\ Len(batch) \in Nat /\ written <= Len(batch) /\ Len(whole) \in Nat
    /\ BatchSize \in Nat \ {0} /\ Len(batch) <= counts.read /\ counts.read <= Len(whole)
    /\ Len(batch) <= BatchSize
LEMMA NumbersFacts == EnhanceTypes => NumbersTyped
<1> SUFFICES ASSUME EnhanceTypes PROVE NumbersTyped
    OBVIOUS
<1>1. /\ counts \in CountsType /\ batch \in Seq(SnapshotRecord) /\ written \in 0 .. Len(batch)
      /\ whole \in Seq(SnapshotRecord \cup {BadSnapshot}) /\ BatchSize \in Nat \ {0}
      /\ Len(batch) <= counts.read /\ counts.read <= Len(whole) /\ Len(batch) <= BatchSize
    BY EnhanceAssumption DEF EnhanceTypes, EnhanceTypeOK
<1>2. /\ counts.read \in Nat /\ counts.written \in Nat /\ counts.skipped_duplicate \in Nat
      /\ counts.enhanced \in Nat /\ counts.already_enhanced \in Nat /\ counts.unmatched \in Seq(Nat)
    BY <1>1 DEF CountsType
<1>3. Len(batch) \in Nat /\ Len(whole) \in Nat /\ Len(counts.unmatched) \in Nat
    BY <1>1, <1>2
<1> QED BY <1>1, <1>2, <1>3 DEF NumbersTyped

\* What a lookup knows are times.
LEMMA TimesAreKnown ==
    ASSUME EnhanceTypes, NEW d
    PROVE  /\ CapturesIn(known, d) \subseteq Nat \ {0}
           /\ CapturesIn(known, d) # {} => Earliest(CapturesIn(known, d)) \in Nat
<1>1. known \in CaptureIndexes
    BY DEF EnhanceTypes, EnhanceTypeOK
<1>2. CapturesIn(known, d) \subseteq Nat \ {0}
    BY <1>1, EnhanceAssumption DEF CapturesIn
<1>3. PICK T : T = CapturesIn(known, d)
    OBVIOUS
<1>4. T # {} => \E t \in T : \A u \in T : t <= u
    BY <1>2, <1>3, NatHasLeast
<1>5. T # {} => Earliest(T) \in T
    BY <1>4 DEF Earliest
<1> QED BY <1>2, <1>3, <1>5

LEMMA EnhanceInitially == EnhanceInit => EnhanceInv
<1> SUFFICES ASSUME EnhanceInit PROVE EnhanceInv
    OBVIOUS
<1>1. /\ whole \in SnapshotFiles /\ unreadLines = whole /\ known \in CaptureIndexes /\ log \in ExpectedLogs
      /\ batch = <<>> /\ written = 0 /\ enhanced = NewWriter
      /\ counts = [read |-> 0, written |-> 0, skipped_duplicate |-> 0, enhanced |-> 0,
                   already_enhanced |-> 0, unmatched |-> <<>>]
      /\ phase = "open" /\ finalFlush = FALSE /\ enhanceError = NoError /\ enhanceResult = NoError
    BY DEF EnhanceInit
<1>2. whole \in Seq(SnapshotRecord \cup {BadSnapshot}) /\ BatchSize \in Nat \ {0} /\ Len(whole) \in Nat
    BY <1>1, EnhanceAssumption
<1>3. /\ counts \in CountsType /\ counts.read = 0 /\ counts.written = 0 /\ counts.skipped_duplicate = 0
      /\ counts.enhanced = 0 /\ counts.already_enhanced = 0 /\ counts.unmatched = <<>>
    BY <1>1 DEF CountsType
<1>4. /\ enhanced \in WriterType(SnapshotRecord) /\ enhanced.lines = <<>> /\ enhanced.last_written = NoDigest
      /\ enhanced.output = "open"
    BY <1>1 DEF NewWriter, WriterType, NoDigest
<1>5. Len(batch) = 0 /\ Len(<<>>) = 0 /\ DOMAIN batch = {} /\ batch \in Seq(SnapshotRecord)
    BY <1>1
<1>6. EnhanceTypes
  <2>1. finalFlush \in BOOLEAN /\ written \in 0 .. Len(batch) /\ Len(batch) <= BatchSize
    <3>1. finalFlush \in BOOLEAN
        BY <1>1
    <3>2. written = 0 /\ Len(batch) = 0
        BY <1>1, <1>5
    <3>3. 0 \in 0 .. 0 /\ 0 <= BatchSize
        BY <1>2
    <3> QED BY <3>1, <3>2, <3>3
  <2>2. phase \in {"open", "read", "flush", "write", "finish", "done"}
        /\ enhanceError \in {NoError, "Read", "Lookup", "Io"}
        /\ enhanceResult \in {NoError, "InvalidDigestDb", "Read", "Lookup", "Io"}
      BY <1>1
  <2>3. EnhanceTypeOK
      BY <1>1, <1>4, <2>1, <2>2 DEF EnhanceTypeOK
  <2>4. unreadLines \in Seq(SnapshotRecord \cup {BadSnapshot}) /\ Len(batch) <= counts.read
        /\ counts.read <= Len(whole)
      BY <1>1, <1>2, <1>3, <1>5
  <2> QED BY <1>3, <1>5, <2>3, <2>4 DEF EnhanceTypes
<1>7. InputIsNext
    BY <1>1, <1>2, <1>3 DEF InputIsNext
<1>8. Stages
    BY <1>1, <1>2, <1>3, <1>4, <1>5 DEF Stages
<1>9. CountsAddUp
    BY <1>1, <1>3, <1>5 DEF CountsAddUp, Classified
<1>10. BatchIsNext
    BY <1>5 DEF BatchIsNext
<1>11. OutputIsSound
  <2>1. StartsTo(whole, 0) = {} /\ Cardinality({}) = 0
      BY FS_EmptySet DEF StartsTo
  <2>2. counts.read - (Len(batch) - written) = 0
      BY <1>1, <1>3, <1>5
  <2> QED BY <1>4, <1>5, <2>1, <2>2 DEF OutputIsSound, OutputOf
<1> QED BY <1>6, <1>7, <1>8, <1>9, <1>10, <1>11 DEF EnhanceInv

LEMMA OpenKeeps ==
    ASSUME EnhanceInv, OpenEnhance
    PROVE  EnhanceInv'
<1>1. EnhanceTypes /\ InputIsNext /\ Stages /\ CountsAddUp /\ BatchIsNext /\ OutputIsSound
    BY DEF EnhanceInv
<1>2. /\ phase = "open"
      /\ \/ phase' = "read" /\ enhanceResult' = enhanceResult
         \/ phase' = "done" /\ enhanceResult' \in {"InvalidDigestDb", "Io"}
      /\ UNCHANGED <<unreadLines, batch, written, known, log, enhanced, counts, finalFlush, enhanceError, whole>>
    BY DEF OpenEnhance
<1>3. EnhanceTypes'
    BY <1>1, <1>2 DEF EnhanceTypes, EnhanceTypeOK
<1>4. InputIsNext'
    BY <1>1, <1>2 DEF InputIsNext
<1>5. Stages'
    BY <1>1, <1>2 DEF Stages, NoError, InputIsNext
<1>6. CountsAddUp'
    BY <1>1, <1>2 DEF CountsAddUp, Classified, NoError
<1>7. BatchIsNext'
    BY <1>1, <1>2 DEF BatchIsNext
<1>8. OutputIsSound'
    BY <1>1, <1>2 DEF OutputIsSound
<1> QED BY <1>3, <1>4, <1>5, <1>6, <1>7, <1>8 DEF EnhanceInv

LEMMA ReadKeeps ==
    ASSUME EnhanceInv, ReadSnapshot
    PROVE  EnhanceInv'
<1>1. EnhanceTypes /\ InputIsNext /\ Stages /\ CountsAddUp /\ BatchIsNext /\ OutputIsSound
    BY DEF EnhanceInv
<1>2. /\ phase = "read" /\ unreadLines # <<>> /\ unreadLines' = Tail(unreadLines)
      /\ UNCHANGED <<written, known, log, enhanced, finalFlush, enhanceResult, whole>>
    BY DEF ReadSnapshot
<1>3. NumbersTyped /\ unreadLines \in Seq(SnapshotRecord \cup {BadSnapshot}) /\ batch \in Seq(SnapshotRecord)
    BY <1>1, NumbersFacts DEF EnhanceTypes
<1>4. /\ Head(unreadLines) = unreadLines[1] /\ Len(unreadLines) \in Nat \ {0}
      /\ unreadLines' \in Seq(SnapshotRecord \cup {BadSnapshot}) /\ Len(unreadLines') = Len(unreadLines) - 1
      /\ 1 \in DOMAIN unreadLines /\ Head(unreadLines) \in SnapshotRecord \cup {BadSnapshot}
      /\ \A k \in DOMAIN unreadLines' :
           k + 1 \in DOMAIN unreadLines /\ unreadLines'[k] = unreadLines[k + 1] /\ k \in Nat \ {0}
    BY <1>2, <1>3, Tails
<1>5. /\ enhanceError = NoError /\ enhanceResult = NoError
      /\ Len(unreadLines) = Len(whole) - counts.read
      /\ \A k \in DOMAIN unreadLines : unreadLines[k] = whole[counts.read + k]
      /\ Len(batch) < BatchSize /\ finalFlush = FALSE /\ written = 0 /\ enhanced.output = "open"
    BY <1>1, <1>2 DEF InputIsNext, Stages
<1>6. CASE Head(unreadLines) = BadSnapshot
  <2>1. enhanceError' = "Read" /\ phase' = "finish" /\ UNCHANGED <<batch, counts>>
      BY <1>6 DEF ReadSnapshot, Leave
  <2>2. EnhanceTypes'
      BY <1>1, <1>2, <1>4, <2>1 DEF EnhanceTypes, EnhanceTypeOK
  <2>3. InputIsNext'
      BY <2>1 DEF InputIsNext
  <2>4. Stages'
      BY <1>2, <1>5, <2>1 DEF Stages, NoError
  <2>5. CountsAddUp'
      BY <1>1, <1>2, <2>1 DEF CountsAddUp, NoError
  <2>6. BatchIsNext'
      BY <1>1, <1>2, <2>1 DEF BatchIsNext
  <2>7. OutputIsSound'
      BY <1>1, <1>2, <2>1 DEF OutputIsSound
  <2> QED BY <2>2, <2>3, <2>4, <2>5, <2>6, <2>7 DEF EnhanceInv
<1>7. CASE Head(unreadLines) # BadSnapshot
  <2>1. /\ batch' = Append(batch, Head(unreadLines))
        /\ counts' = [counts EXCEPT !.read = counts.read + 1]
        /\ phase' = IF Len(batch) + 1 = BatchSize THEN "flush" ELSE "read"
        /\ enhanceError' = enhanceError
      BY <1>7 DEF ReadSnapshot
  <2>2. PICK r \in Nat, m \in Nat, o \in SnapshotRecord :
          r = counts.read /\ m = Len(batch) /\ o = Head(unreadLines)
      BY <1>3, <1>4, <1>7 DEF NumbersTyped
  <2>3. /\ counts' \in CountsType /\ counts'.read = r + 1 /\ counts'.written = counts.written
        /\ counts'.skipped_duplicate = counts.skipped_duplicate /\ counts'.enhanced = counts.enhanced
        /\ counts'.already_enhanced = counts.already_enhanced /\ counts'.unmatched = counts.unmatched
    <3>1. PICK x \in Nat : x = counts.read + 1
        BY <2>2
    <3>2. counts' = [counts EXCEPT !.read = x]
        BY <2>1, <3>1
    <3>3. counts \in CountsType
        BY <1>1 DEF EnhanceTypes
    <3> QED BY <2>2, <3>1, <3>2, <3>3 DEF CountsType
  <2>4. /\ batch' \in Seq(SnapshotRecord) /\ Len(batch') = m + 1 /\ batch'[m + 1] = o
        /\ \A i \in DOMAIN batch' : i = m + 1 \/ (i \in DOMAIN batch /\ batch'[i] = batch[i])
      BY <1>3, <2>1, <2>2
  <2>5. r + 1 <= Len(whole) /\ o = whole[r + 1]
    <3>1. r <= Len(whole) - 1
        BY <1>3, <1>4, <1>5, <2>2 DEF NumbersTyped
    <3>2. r + 1 <= Len(whole)
        BY <1>3, <3>1 DEF NumbersTyped
    <3> QED BY <1>4, <1>5, <2>2, <3>2
  <2>6. phase' \in {"read", "flush"} /\ (phase' = "read" => m + 1 < BatchSize) /\ m + 1 <= BatchSize
    <3>1. BatchSize \in Nat /\ m < BatchSize
        BY <1>3, <1>5, <2>2 DEF NumbersTyped
    <3> QED BY <2>1, <2>2, <3>1
  <2>7. EnhanceTypes'
    <3>1. m + 1 <= r + 1 /\ written \in 0 .. m + 1
        BY <1>3, <1>5, <2>2 DEF NumbersTyped
    <3> QED BY <1>1, <1>2, <1>4, <2>1, <2>3, <2>4, <2>5, <2>6, <3>1 DEF EnhanceTypes, EnhanceTypeOK
  <2>8. InputIsNext'
    <3>1. Len(unreadLines') = Len(whole) - (r + 1)
        BY <1>3, <1>4, <1>5, <2>2 DEF NumbersTyped
    <3>2. \A k \in DOMAIN unreadLines' : unreadLines'[k] = whole[(r + 1) + k]
      <4> TAKE k \in DOMAIN unreadLines'
      <4>1. k \in Nat /\ k + 1 \in DOMAIN unreadLines /\ unreadLines'[k] = unreadLines[k + 1]
          BY <1>4
      <4>2. r + (k + 1) = (r + 1) + k
          BY <4>1
      <4> QED BY <1>5, <2>2, <4>1, <4>2
    <3> QED BY <1>2, <1>5, <2>1, <2>3, <3>1, <3>2 DEF InputIsNext
  <2>9. Stages'
      BY <1>2, <1>5, <2>1, <2>4, <2>6 DEF Stages
  <2>10. CountsAddUp'
    <3>1. Classified' = Classified
        BY <2>3 DEF Classified
    <3>2. Classified + m = r /\ r = counts.written + counts.skipped_duplicate + (m - written)
        BY <1>1, <1>2, <2>2 DEF CountsAddUp
    <3>3. Classified \in Nat /\ counts.written \in Nat /\ counts.skipped_duplicate \in Nat /\ written = 0
        BY <1>3, <1>5, SMTT(30) DEF NumbersTyped, Classified
    <3>4. Classified + (m + 1) = r + 1 /\ r + 1 = counts.written + counts.skipped_duplicate + ((m + 1) - written)
        BY <3>2, <3>3
    <3> QED BY <1>2, <2>3, <2>4, <2>6, <3>1, <3>4 DEF CountsAddUp
  <2>11. BatchIsNext'
    <3>1. \A i \in DOMAIN batch' : batch'[i] = whole[(r + 1) - (m + 1) + i]
      <4> TAKE i \in DOMAIN batch'
      <4>1. i \in Nat
          BY <2>4
      <4>2. (r + 1) - (m + 1) + i = r - m + i /\ r - m + (m + 1) = r + 1
          BY <4>1
      <4>3. CASE i = m + 1
          BY <2>4, <2>5, <4>2, <4>3
      <4>4. CASE i \in DOMAIN batch /\ batch'[i] = batch[i]
          BY <1>1, <1>2, <2>2, <4>2, <4>4 DEF BatchIsNext
      <4> QED BY <2>4, <4>3, <4>4
    <3>2. \A i \in DOMAIN batch' : Becomes(known, log, whole[(r + 1) - (m + 1) + i], batch'[i])
        BY <3>1 DEF Becomes
    <3> QED BY <1>2, <2>3, <2>4, <3>1, <3>2 DEF BatchIsNext
  <2>12. OutputIsSound'
    <3>1. counts'.read - (Len(batch') - written') = counts.read - (Len(batch) - written)
      <4>1. (r + 1) - ((m + 1) - 0) = r - (m - 0)
          OBVIOUS
      <4>2. counts'.read = r + 1 /\ Len(batch') = m + 1 /\ written' = 0
            /\ counts.read = r /\ Len(batch) = m /\ written = 0
          BY <1>2, <1>5, <2>2, <2>3, <2>4
      <4> QED BY <4>1, <4>2
    <3> QED BY <1>1, <1>2, <3>1 DEF OutputIsSound
  <2> QED BY <2>7, <2>8, <2>9, <2>10, <2>11, <2>12 DEF EnhanceInv
<1> QED BY <1>6, <1>7

LEMMA FinalFlushKeeps ==
    ASSUME EnhanceInv, FinalFlush
    PROVE  EnhanceInv'
<1>1. EnhanceTypes /\ InputIsNext /\ Stages /\ CountsAddUp /\ BatchIsNext /\ OutputIsSound
    BY DEF EnhanceInv
<1>2. /\ phase = "read" /\ unreadLines = <<>> /\ phase' = "flush" /\ finalFlush' = TRUE
      /\ UNCHANGED <<unreadLines, batch, written, known, log, enhanced, counts, enhanceError, enhanceResult, whole>>
    BY DEF FinalFlush
<1>3. counts.read = Len(whole)
  <2>1. Len(unreadLines) = 0 /\ Len(unreadLines) = Len(whole) - counts.read
      BY <1>1, <1>2 DEF InputIsNext
  <2>2. counts.read \in Nat /\ Len(whole) \in Nat
      BY <1>1, NumbersFacts DEF NumbersTyped
  <2>3. PICK n \in Nat, c \in Nat : n = Len(whole) /\ c = counts.read
      BY <2>2
  <2>4. 0 = n - c
      BY <2>1, <2>3
  <2> QED BY <2>3, <2>4
<1>4. EnhanceTypes'
    BY <1>1, <1>2 DEF EnhanceTypes, EnhanceTypeOK
<1>5. InputIsNext'
    BY <1>1, <1>2 DEF InputIsNext
<1>6. Stages'
    BY <1>1, <1>2, <1>3 DEF Stages
<1>7. CountsAddUp'
    BY <1>1, <1>2 DEF CountsAddUp, Classified
<1>8. BatchIsNext'
    BY <1>1, <1>2 DEF BatchIsNext
<1>9. OutputIsSound'
    BY <1>1, <1>2 DEF OutputIsSound
<1> QED BY <1>4, <1>5, <1>6, <1>7, <1>8, <1>9 DEF EnhanceInv

\* The snapshots without a time, in the order of their lines.
LEMMA EnumeratedFacts ==
    ASSUME NEW S \in SUBSET Nat, IsFiniteSet(S)
    PROVE  Enumerated(S) \in [1 .. Cardinality(S) -> S] /\ Cardinality(S) \in Nat
<1>1. \E q \in [1 .. Cardinality(S) -> S] : \A i, j \in DOMAIN q : i < j => q[i] < q[j]
    BY FiniteIsListed DEF NumbersAscend
<1> QED BY <1>1, FS_CardinalityType DEF Enumerated

\* Two sets that make up a third between them.
LEMMA PartsAddUp ==
    ASSUME NEW S, IsFiniteSet(S), NEW T \in SUBSET S
    PROVE  Cardinality(S) = Cardinality(T) + Cardinality(S \ T) /\ Cardinality(T) \in Nat
           /\ Cardinality(S \ T) \in Nat /\ IsFiniteSet(T) /\ IsFiniteSet(S \ T)
<1>1. IsFiniteSet(T) /\ IsFiniteSet(S \ T)
    BY FS_Subset
<1>2. T \cup (S \ T) = S /\ T \cap (S \ T) = {}
    OBVIOUS
<1>3. Cardinality(T \cup (S \ T)) = Cardinality(T) + Cardinality(S \ T) - Cardinality(T \cap (S \ T))
    BY <1>1, FS_Union
<1>4. PICK m \in Nat, n \in Nat, z \in Nat :
        m = Cardinality(T) /\ n = Cardinality(S \ T) /\ z = Cardinality({}) /\ z = 0
    BY <1>1, FS_CardinalityType, FS_EmptySet
<1>5. Cardinality(S) = m + n - z
    BY <1>2, <1>3, <1>4, Zenon
<1>6. m + n - z = m + n
    BY <1>4
<1>7. Cardinality(S) = m + n
    BY <1>5, <1>6, Zenon
<1> QED BY <1>1, <1>4, <1>7, Zenon

LEMMA ConcatTyped ==
    ASSUME NEW v \in Seq(Nat), NEW d \in Seq(Nat)
    PROVE  v \o d \in Seq(Nat) /\ Len(v \o d) = Len(v) + Len(d)
OBVIOUS

LEMMA PartsOfSum ==
    ASSUME NEW x \in Nat, NEW y \in Nat, NEW m \in Nat, NEW n \in Nat, NEW r \in Nat, NEW p \in Nat,
           NEW b \in Nat, NEW lv \in Nat, NEW lu \in Nat, b = p + r, p = m + n, lu = lv + n
    PROVE  (x + r) + (y + m) + lu = (y + x + lv) + b
OBVIOUS

\* What a lookup and its retry make of a batch.
LEMMA LookUpFacts ==
    ASSUME EnhanceTypes, NEW few, NEW fewer, LookUp(few, fewer)
    PROVE  /\ DOMAIN batch' = DOMAIN batch /\ batch' \in Seq(SnapshotRecord) /\ Len(batch') = Len(batch)
           /\ \A i \in DOMAIN batch : Becomes(known, log, batch[i], batch'[i])
           /\ counts' \in CountsType
           /\ counts'.read = counts.read /\ counts'.written = counts.written
           /\ counts'.skipped_duplicate = counts.skipped_duplicate
           /\ Classified' = Classified + Len(batch)
<1> DEFINE Own(i) == Answers(Pending, few, i, batch[i].digest)
           resolved == {i \in Pending : Own(i) # {}}
           retried == {i \in Pending \ resolved : Fallback(batch[i]) # 0}
           Found(i) == IF i \in retried
                       THEN Answers(retried, fewer, i, Fallback(batch[i]))
                       ELSE Own(i)
           matched == {i \in Pending : Found(i) # {}}
           none == Enumerated(Pending \ matched)
<1>1. /\ batch' = [i \in DOMAIN batch |->
                IF i \notin matched THEN batch[i]
                ELSE [digest |-> batch[i].digest,
                      time |-> Earliest(Found(i)),
                      expected |-> IF i \in resolved THEN 0 ELSE batch[i].expected]]
      /\ counts' = [counts EXCEPT
                !.already_enhanced = @ + Cardinality(DOMAIN batch \ Pending),
                !.enhanced = @ + Cardinality(matched),
                !.unmatched = @ \o [k \in DOMAIN none |-> batch[none[k]].digest]]
    BY DEF LookUp
<1>2. batch \in Seq(SnapshotRecord) /\ NumbersTyped /\ counts \in CountsType
    BY NumbersFacts DEF EnhanceTypes
<1>3. DOMAIN batch = 1 .. Len(batch) /\ Len(batch) \in Nat /\ IsFiniteSet(DOMAIN batch)
      /\ Cardinality(DOMAIN batch) = Len(batch)
  <2>1. PICK n \in Nat : n = Len(batch) /\ DOMAIN batch = 1 .. n
      BY <1>2
  <2>2. IsFiniteSet(1 .. n) /\ Cardinality(1 .. n) = IF 1 > n THEN 0 ELSE n - 1 + 1
      BY FS_Interval
  <2>3. Cardinality(1 .. n) = n
      BY <2>2
  <2> QED BY <2>1, <2>2, <2>3, Zenon
<1>4. \A i \in DOMAIN batch : batch[i] \in SnapshotRecord
    BY <1>2
<1>5. ASSUME NEW i \in matched
      PROVE  /\ i \in DOMAIN batch /\ batch[i].time = 0
             /\ \E d : /\ Found(i) = CapturesIn(known, d) /\ CapturesIn(known, d) # {}
                       /\ IF i \in resolved THEN d = batch[i].digest ELSE d = FallbackOf(log, batch[i])
  <2>1. i \in Pending /\ Found(i) # {} /\ i \in DOMAIN batch /\ batch[i].time = 0
      BY DEF Pending
  <2>2. CASE i \in retried
    <3>1. Found(i) = Answers(retried, fewer, i, Fallback(batch[i])) /\ i \notin resolved
        BY <2>2
    <3>2. Found(i) = CapturesOf(Fallback(batch[i]))
        BY <2>1, <3>1 DEF Answers
    <3>3. Fallback(batch[i]) = FallbackOf(log, batch[i])
        BY DEF Fallback, FallbackOf
    <3>4. Found(i) = CapturesIn(known, FallbackOf(log, batch[i]))
        BY <3>2, <3>3 DEF CapturesOf, CapturesIn
    <3> QED BY <2>1, <3>1, <3>4
  <2>3. CASE i \notin retried
    <3>1. Found(i) = Own(i) /\ i \in resolved
        BY <2>1, <2>3
    <3>2. Found(i) = CapturesOf(batch[i].digest)
        BY <2>1, <3>1 DEF Answers
    <3>3. Found(i) = CapturesIn(known, batch[i].digest)
        BY <3>2 DEF CapturesOf, CapturesIn
    <3> QED BY <2>1, <3>1, <3>3
  <2> QED BY <2>2, <2>3
<1>6. ASSUME NEW i \in DOMAIN batch
      PROVE  batch'[i] \in SnapshotRecord /\ Becomes(known, log, batch[i], batch'[i])
  <2>1. PICK s \in SnapshotRecord : s = batch[i]
      BY <1>4
  <2>2. CASE i \notin matched
    <3>1. batch'[i] = s
        BY <1>1, <2>1, <2>2
    <3> QED BY <2>1, <3>1 DEF Becomes
  <2>3. CASE i \in matched
    <3>1. PICK d : /\ Found(i) = CapturesIn(known, d) /\ CapturesIn(known, d) # {}
                   /\ IF i \in resolved THEN d = s.digest ELSE d = FallbackOf(log, s)
        BY <1>5, <2>1, <2>3
    <3>2. s.time = 0
        BY <1>5, <2>1, <2>3
    <3>3. PICK t \in Nat : t = Earliest(CapturesIn(known, d))
        BY <3>1, TimesAreKnown
    <3>4. PICK e \in Int : e = IF i \in resolved THEN 0 ELSE s.expected
        BY DEF SnapshotRecord
    <3>5. batch'[i] = [digest |-> s.digest, time |-> t, expected |-> e]
        BY <1>1, <2>1, <2>3, <3>1, <3>3, <3>4
    <3>6. batch'[i] \in SnapshotRecord
        BY <3>5 DEF SnapshotRecord
    <3>7. PICK o \in SnapshotRecord : o = batch'[i] /\ o.digest = s.digest /\ o.time = t /\ o.expected = e
        BY <3>5, <3>6
    <3>8. Becomes(known, log, s, o)
      <4>1. CASE i \in resolved
        <5>1. d = s.digest /\ e = 0
            BY <3>1, <3>4, <4>1
        <5>2. CapturesIn(known, s.digest) # {} /\ o.time = Earliest(CapturesIn(known, s.digest)) /\ o.expected = 0
            BY <3>1, <3>3, <3>7, <5>1
        <5> QED BY <3>2, <3>7, <5>2, Zenon DEF Becomes
      <4>2. CASE i \notin resolved
        <5>1. d = FallbackOf(log, s) /\ e = s.expected
            BY <3>1, <3>4, <4>2
        <5>2. /\ CapturesIn(known, FallbackOf(log, s)) # {}
              /\ o.time = Earliest(CapturesIn(known, FallbackOf(log, s))) /\ o.expected = s.expected
            BY <3>1, <3>3, <3>7, <5>1, Zenon
        <5> QED BY <3>2, <3>7, <5>2, Zenon DEF Becomes
      <4> QED BY <4>1, <4>2
    <3>9. Becomes(known, log, batch[i], batch'[i])
        BY <2>1, <3>7, <3>8, Zenon
    <3> QED BY <3>6, <3>9
  <2> QED BY <2>2, <2>3
<1>7. DOMAIN batch' = DOMAIN batch /\ batch' \in Seq(SnapshotRecord) /\ Len(batch') = Len(batch)
  <2>1. PICK q : q = batch'
      OBVIOUS
  <2>2. q = [i \in 1 .. Len(batch) |-> q[i]]
      BY <1>1, <1>3, <2>1
  <2>3. \A i \in 1 .. Len(batch) : q[i] \in SnapshotRecord
      BY <1>3, <1>6, <2>1
  <2>4. q \in Seq(SnapshotRecord) /\ Len(q) = Len(batch) /\ DOMAIN q = 1 .. Len(batch)
      BY <1>3, <2>2, <2>3
  <2> QED BY <1>3, <2>1, <2>4
<1>8. PICK a \in Nat, e \in Nat, u \in Seq(Nat) :
        /\ a = counts.already_enhanced + Cardinality(DOMAIN batch \ Pending)
        /\ e = counts.enhanced + Cardinality(matched)
        /\ u = counts.unmatched \o [k \in DOMAIN none |-> batch[none[k]].digest]
        /\ a + e + Len(u) = Classified + Len(batch)
  <2>1. PICK P, M : P = Pending /\ M = matched
      OBVIOUS
  <2>2. P \in SUBSET DOMAIN batch /\ M \in SUBSET P
      BY <2>1 DEF Pending
  <2>3. /\ Cardinality(DOMAIN batch) = Cardinality(P) + Cardinality(DOMAIN batch \ P)
        /\ Cardinality(P) \in Nat /\ Cardinality(DOMAIN batch \ P) \in Nat /\ IsFiniteSet(P)
      BY <1>3, <2>2, PartsAddUp
  <2>4. /\ Cardinality(P) = Cardinality(M) + Cardinality(P \ M)
        /\ Cardinality(M) \in Nat /\ Cardinality(P \ M) \in Nat /\ IsFiniteSet(P \ M)
      BY <2>2, <2>3, PartsAddUp
  <2>5. PICK q : q = none
      OBVIOUS
  <2>6. q \in [1 .. Cardinality(P \ M) -> P \ M]
    <3>1. P \ M \in SUBSET Nat
        BY <1>3, <2>2
    <3>2. Enumerated(P \ M) \in [1 .. Cardinality(P \ M) -> P \ M]
        BY <2>4, <3>1, EnumeratedFacts
    <3> QED BY <2>1, <2>5, <3>2
  <2>7. PICK d : d = [k \in DOMAIN q |-> batch[q[k]].digest]
      OBVIOUS
  <2>8. \A k \in 1 .. Cardinality(P \ M) : batch[q[k]].digest \in Nat
    <3> TAKE k \in 1 .. Cardinality(P \ M)
    <3>1. q[k] \in DOMAIN batch
        BY <2>2, <2>6
    <3>2. batch[q[k]] \in SnapshotRecord
        BY <1>4, <3>1
    <3> QED BY <3>2 DEF SnapshotRecord
  <2>9. PICK d2 \in Seq(Nat) : d2 = d /\ Len(d2) = Cardinality(P \ M)
    <3>1. PICK c \in Nat : c = Cardinality(P \ M)
        BY <2>4
    <3>2. DOMAIN q = 1 .. c
        BY <2>6, <3>1
    <3>3. d = [k \in 1 .. c |-> batch[q[k]].digest]
        BY <2>7, <3>2, Zenon
    <3>4. \A k \in 1 .. c : batch[q[k]].digest \in Nat
        BY <2>8, <3>1, Zenon
    <3>5. d \in [1 .. c -> Nat]
        BY <3>3, <3>4, Zenon
    <3>6. d \in Seq(Nat) /\ Len(d) = c
        BY <3>5
    <3> QED BY <3>1, <3>6
  <2>10. PICK v \in Seq(Nat), x \in Nat, y \in Nat :
           v = counts.unmatched /\ x = counts.already_enhanced /\ y = counts.enhanced
      BY <1>2 DEF NumbersTyped, CountsType
  <2>11. PICK u \in Seq(Nat) : u = v \o d2 /\ Len(u) = Len(v) + Len(d2)
      BY ConcatTyped
  <2>12. PICK b \in Nat, p \in Nat, r \in Nat, m \in Nat, n \in Nat :
           /\ b = Len(batch) /\ p = Cardinality(P) /\ r = Cardinality(DOMAIN batch \ P)
           /\ m = Cardinality(M) /\ n = Cardinality(P \ M)
           /\ b = p + r /\ p = m + n
      BY <1>3, <2>3, <2>4
  <2>13. PICK lu \in Nat, lv \in Nat : lu = Len(u) /\ lv = Len(v) /\ lu = lv + n
    <3>1. Len(u) \in Nat /\ Len(v) \in Nat
        OBVIOUS
    <3>2. Len(u) = Len(v) + n
        BY <2>9, <2>11, <2>12, Zenon
    <3> QED BY <3>1, <3>2, Zenon
  <2>14. (x + r) + (y + m) + lu = (y + x + lv) + b
    <3>1. b = p + r /\ p = m + n /\ lu = lv + n
        BY <2>12, <2>13
    <3> HIDE DEF Own, resolved, retried, Found, matched, none
    <3> QED BY ONLY <3>1, PartsOfSum, x \in Nat, y \in Nat, m \in Nat, n \in Nat, r \in Nat,
                    p \in Nat, b \in Nat, lv \in Nat, lu \in Nat
  <2>15. Classified = y + x + lv
      BY <2>10, <2>13 DEF Classified
  <2>16. PICK a \in Nat, e \in Nat : a = x + r /\ e = y + m
      OBVIOUS
  <2>17. a + e + Len(u) = Classified + Len(batch)
      BY <2>12, <2>13, <2>14, <2>15, <2>16, Zenon
  <2>18. a = counts.already_enhanced + Cardinality(DOMAIN batch \ Pending) /\ e = counts.enhanced + Cardinality(matched)
      BY <2>1, <2>10, <2>12, <2>16, Zenon
  <2>19. u = counts.unmatched \o [k \in DOMAIN none |-> batch[none[k]].digest]
      BY <2>5, <2>7, <2>9, <2>10, <2>11, Zenon
  <2> QED BY <2>17, <2>18, <2>19, Zenon
<1>9. counts' = [counts EXCEPT !.already_enhanced = a, !.enhanced = e, !.unmatched = u]
    BY <1>1, <1>8
<1>10. /\ counts' \in CountsType
       /\ counts'.read = counts.read /\ counts'.written = counts.written
       /\ counts'.skipped_duplicate = counts.skipped_duplicate
       /\ counts'.already_enhanced = a /\ counts'.enhanced = e /\ counts'.unmatched = u
    BY <1>2, <1>9 DEF CountsType
<1>11. Classified' = Classified + Len(batch)
  <2>1. Classified' = e + a + Len(u)
      BY <1>10 DEF Classified
  <2>2. Len(u) \in Nat
      OBVIOUS
  <2>3. e + a + Len(u) = a + e + Len(u)
      BY <2>2
  <2> QED BY <1>8, <2>1, <2>3
<1> QED BY <1>6, <1>7, <1>10, <1>11

LEMMA LookUpKeeps ==
    ASSUME EnhanceInv, NEW few, NEW fewer, LookUp(few, fewer)
    PROVE  EnhanceInv'
<1>1. EnhanceTypes /\ InputIsNext /\ Stages /\ CountsAddUp /\ BatchIsNext /\ OutputIsSound
    BY DEF EnhanceInv
<1>2. /\ phase = "flush" /\ phase' = "write"
      /\ UNCHANGED <<unreadLines, written, known, log, enhanced, finalFlush, enhanceError, enhanceResult, whole>>
    BY DEF LookUp
<1>3. /\ DOMAIN batch' = DOMAIN batch /\ batch' \in Seq(SnapshotRecord) /\ Len(batch') = Len(batch)
      /\ \A i \in DOMAIN batch : Becomes(known, log, batch[i], batch'[i])
      /\ counts' \in CountsType
      /\ counts'.read = counts.read /\ counts'.written = counts.written
      /\ counts'.skipped_duplicate = counts.skipped_duplicate
      /\ Classified' = Classified + Len(batch)
    BY <1>1, LookUpFacts
<1>4. EnhanceTypes'
    BY <1>1, <1>2, <1>3 DEF EnhanceTypes, EnhanceTypeOK
<1>5. InputIsNext'
    BY <1>1, <1>2, <1>3 DEF InputIsNext
<1>6. Stages'
    BY <1>1, <1>2, <1>3 DEF Stages
<1>7. CountsAddUp'
    BY <1>1, <1>2, <1>3 DEF CountsAddUp
<1>8. BatchIsNext'
  <2>1. \A i \in DOMAIN batch : batch[i] = whole[counts.read - Len(batch) + i]
      BY <1>1, <1>2 DEF BatchIsNext
  <2>2. \A i \in DOMAIN batch' : Becomes(known, log, whole[counts.read - Len(batch) + i], batch'[i])
      BY <1>3, <2>1
  <2> QED BY <1>2, <1>3, <2>2 DEF BatchIsNext
<1>9. OutputIsSound'
    BY <1>1, <1>2, <1>3 DEF OutputIsSound
<1> QED BY <1>4, <1>5, <1>6, <1>7, <1>8, <1>9 DEF EnhanceInv

LEMMA LookupFailsKeeps ==
    ASSUME EnhanceInv, LookupFails
    PROVE  EnhanceInv'
<1>1. EnhanceTypes /\ InputIsNext /\ Stages /\ CountsAddUp /\ BatchIsNext /\ OutputIsSound
    BY DEF EnhanceInv
<1>2. /\ phase = "flush" /\ phase' = "finish" /\ enhanceError' = "Lookup"
      /\ counts' = [counts EXCEPT !.already_enhanced = @ + Cardinality(DOMAIN batch \ Pending)]
      /\ UNCHANGED <<unreadLines, batch, written, known, log, enhanced, finalFlush, enhanceResult, whole>>
    BY DEF LookupFails, Leave
<1>3. /\ counts' \in CountsType
      /\ counts'.read = counts.read /\ counts'.written = counts.written
      /\ counts'.skipped_duplicate = counts.skipped_duplicate
  <2>1. NumbersTyped /\ batch \in Seq(SnapshotRecord) /\ counts \in CountsType
      BY <1>1, NumbersFacts DEF EnhanceTypes
  <2>2. IsFiniteSet(DOMAIN batch)
    <3>1. DOMAIN batch = 1 .. Len(batch) /\ Len(batch) \in Nat
        BY <2>1
    <3> QED BY <3>1, FS_Interval
  <2>3. Cardinality(DOMAIN batch \ Pending) \in Nat
      BY <2>2, FS_Subset, FS_CardinalityType
  <2>4. PICK a \in Nat : a = counts.already_enhanced + Cardinality(DOMAIN batch \ Pending)
      BY <2>1, <2>3 DEF NumbersTyped
  <2>5. counts' = [counts EXCEPT !.already_enhanced = a]
      BY <1>2, <2>4
  <2> QED BY <2>1, <2>5 DEF CountsType
<1>4. EnhanceTypes'
    BY <1>1, <1>2, <1>3 DEF EnhanceTypes, EnhanceTypeOK
<1>5. InputIsNext'
    BY <1>2 DEF InputIsNext
<1>6. Stages'
    BY <1>1, <1>2, <1>3 DEF Stages, InputIsNext, NoError
<1>7. CountsAddUp'
    BY <1>1, <1>2, <1>3 DEF CountsAddUp, NoError
<1>8. BatchIsNext'
    BY <1>1, <1>2, <1>3 DEF BatchIsNext
<1>9. OutputIsSound'
    BY <1>1, <1>2, <1>3 DEF OutputIsSound
<1> QED BY <1>4, <1>5, <1>6, <1>7, <1>8, <1>9 DEF EnhanceInv

LEMMA WriteSnapshotKeeps ==
    ASSUME EnhanceInv, NEW ok \in BOOLEAN, WriteSnapshot(ok)
    PROVE  EnhanceInv'
<1>1. EnhanceTypes /\ InputIsNext /\ Stages /\ CountsAddUp /\ BatchIsNext /\ OutputIsSound
    BY DEF EnhanceInv
<1>2. /\ phase = "write" /\ written < Len(batch)
      /\ UNCHANGED <<unreadLines, batch, known, log, finalFlush, enhanceResult, whole>>
    BY DEF WriteSnapshot
<1>3. /\ NumbersTyped /\ batch \in Seq(SnapshotRecord) /\ counts \in CountsType
      /\ enhanced \in WriterType(SnapshotRecord)
      /\ enhanceError = NoError /\ enhanceResult = NoError /\ enhanced.output = "open"
    BY <1>1, <1>2, NumbersFacts DEF EnhanceTypes, EnhanceTypeOK, InputIsNext, Stages
<1>4. PICK m \in Nat, w \in Nat, r \in Nat : m = Len(batch) /\ w = written /\ r = counts.read
    BY <1>3 DEF NumbersTyped
<1>5. w < m /\ m <= r
    BY <1>2, <1>3, <1>4 DEF NumbersTyped
<1>6. PICK o \in SnapshotRecord : o = batch[w + 1]
  <2>1. w + 1 \in DOMAIN batch
      BY <1>3, <1>4, <1>5
  <2> QED BY <1>3, <2>1
<1>7. CASE ok = FALSE
  <2>1. /\ counts' = counts /\ enhanced' = enhanced /\ written' = written
        /\ enhanceError' = "Io" /\ phase' = "finish"
      BY <1>7 DEF WriteSnapshot, Leave
  <2>2. EnhanceTypes'
      BY <1>1, <1>2, <2>1 DEF EnhanceTypes, EnhanceTypeOK
  <2>3. InputIsNext'
      BY <2>1 DEF InputIsNext
  <2>4. Stages'
      BY <1>1, <1>2, <1>3, <2>1 DEF Stages, NoError
  <2>5. CountsAddUp'
      BY <1>1, <1>2, <2>1 DEF CountsAddUp, NoError
  <2>6. BatchIsNext'
      BY <1>1, <1>2, <2>1 DEF BatchIsNext
  <2>7. OutputIsSound'
      BY <1>1, <1>2, <2>1 DEF OutputIsSound
  <2> QED BY <2>2, <2>3, <2>4, <2>5, <2>6, <2>7 DEF EnhanceInv
<1>8. CASE ok = TRUE
  <2>1. PICK n \in Nat : n = r - (m - w)
      BY <1>5
  <2>2. r - m + (w + 1) = n + 1 /\ r - (m - (w + 1)) = n + 1
      BY <2>1
  <2>3. OutputOf(enhanced, whole, known, log, n)
      BY <1>1, <1>4, <2>1 DEF OutputIsSound
  <2>4. Becomes(known, log, whole[n + 1], o)
    <3>1. w + 1 \in DOMAIN batch
        BY <1>3, <1>4, <1>5
    <3>2. Becomes(known, log, whole[counts.read - Len(batch) + (w + 1)], batch[w + 1])
        BY <1>1, <3>1 DEF BatchIsNext
    <3> QED BY <1>4, <1>6, <2>2, <3>2
  <2>5. /\ Repeats(enhanced, o.digest) => OutputOf(enhanced, whole, known, log, n + 1)
        /\ ~ Repeats(enhanced, o.digest) =>
             /\ Written(enhanced, o) \in WriterType(SnapshotRecord)
             /\ Written(enhanced, o).output = enhanced.output
             /\ OutputOf(Written(enhanced, o), whole, known, log, n + 1)
      BY <1>3, <2>3, <2>4, WriteExtends
  <2>6. written' = w + 1 /\ UNCHANGED <<enhanceError, phase>>
      BY <1>4, <1>8 DEF WriteSnapshot
  <2>7. /\ enhanced' \in WriterType(SnapshotRecord) /\ enhanced'.output = "open"
        /\ OutputOf(enhanced', whole, known, log, n + 1)
        /\ \/ counts' = [counts EXCEPT !.skipped_duplicate = @ + 1]
           \/ counts' = [counts EXCEPT !.written = @ + 1]
    <3>1. CASE Repeats(enhanced, o.digest)
      <4>1. enhanced' = enhanced /\ counts' = [counts EXCEPT !.skipped_duplicate = @ + 1]
          BY <1>4, <1>6, <1>8, <3>1 DEF WriteSnapshot
      <4> QED BY <1>3, <2>5, <3>1, <4>1
    <3>2. CASE ~ Repeats(enhanced, o.digest)
      <4>1. enhanced' = Written(enhanced, o) /\ counts' = [counts EXCEPT !.written = @ + 1]
          BY <1>4, <1>6, <1>8, <3>2 DEF WriteSnapshot
      <4> QED BY <1>3, <2>5, <3>2, <4>1
    <3> QED BY <3>1, <3>2
  <2>8. /\ counts' \in CountsType /\ counts'.read = r /\ Classified' = Classified
        /\ counts'.written + counts'.skipped_duplicate = counts.written + counts.skipped_duplicate + 1
    <3>1. PICK x \in Nat, y \in Nat : x = counts.written /\ y = counts.skipped_duplicate
        BY <1>3 DEF NumbersTyped
    <3>2. CASE counts' = [counts EXCEPT !.skipped_duplicate = y + 1]
      <4>1. PICK z \in Nat : z = y + 1
          OBVIOUS
      <4>2. /\ counts' \in CountsType /\ counts'.read = counts.read /\ counts'.written = x /\ counts'.skipped_duplicate = z
            /\ counts'.enhanced = counts.enhanced /\ counts'.already_enhanced = counts.already_enhanced
            /\ counts'.unmatched = counts.unmatched
          BY <1>3, <3>1, <3>2, <4>1 DEF CountsType
      <4> QED BY <1>4, <3>1, <4>1, <4>2 DEF Classified
    <3>3. CASE counts' = [counts EXCEPT !.written = x + 1]
      <4>1. PICK z \in Nat : z = x + 1
          OBVIOUS
      <4>2. /\ counts' \in CountsType /\ counts'.read = counts.read /\ counts'.written = z /\ counts'.skipped_duplicate = y
            /\ counts'.enhanced = counts.enhanced /\ counts'.already_enhanced = counts.already_enhanced
            /\ counts'.unmatched = counts.unmatched
          BY <1>3, <3>1, <3>3, <4>1 DEF CountsType
      <4> QED BY <1>4, <3>1, <4>1, <4>2 DEF Classified
    <3> QED BY <2>7, <3>1, <3>2, <3>3
  <2>9. EnhanceTypes'
    <3>1. w + 1 \in 0 .. m
        BY <1>5
    <3> QED BY <1>1, <1>2, <1>4, <2>6, <2>7, <2>8, <3>1 DEF EnhanceTypes, EnhanceTypeOK
  <2>10. InputIsNext'
      BY <1>1, <1>2, <1>4, <2>6, <2>8 DEF InputIsNext
  <2>11. Stages'
      BY <1>1, <1>2, <1>4, <2>6, <2>7, <2>8 DEF Stages
  <2>12. CountsAddUp'
    <3>1. Classified = r /\ r = counts.written + counts.skipped_duplicate + (m - w)
        BY <1>1, <1>2, <1>4 DEF CountsAddUp
    <3>2. PICK x \in Nat, y \in Nat : x = counts.written /\ y = counts.skipped_duplicate
        BY <1>3 DEF NumbersTyped
    <3>3. r = (x + y + 1) + (m - (w + 1))
        BY <3>1, <3>2
    <3>4. r = counts'.written + counts'.skipped_duplicate + (m - (w + 1))
        BY <2>8, <3>2, <3>3
    <3> QED BY <1>2, <1>4, <2>6, <2>8, <3>1, <3>4 DEF CountsAddUp
  <2>13. BatchIsNext'
      BY <1>1, <1>2, <1>4, <2>6, <2>8 DEF BatchIsNext
  <2>14. OutputIsSound'
    <3>1. counts'.read - (Len(batch') - written') = n + 1
        BY <1>2, <1>4, <2>2, <2>6, <2>8
    <3> QED BY <1>2, <2>7, <3>1 DEF OutputIsSound
  <2> QED BY <2>9, <2>10, <2>11, <2>12, <2>13, <2>14 DEF EnhanceInv
<1> QED BY <1>7, <1>8

LEMMA BatchWrittenKeeps ==
    ASSUME EnhanceInv, BatchWritten
    PROVE  EnhanceInv'
<1>1. EnhanceTypes /\ InputIsNext /\ Stages /\ CountsAddUp /\ BatchIsNext /\ OutputIsSound
    BY DEF EnhanceInv
<1>2. /\ phase = "write" /\ written = Len(batch) /\ batch' = <<>> /\ written' = 0
      /\ phase' = IF finalFlush THEN "finish" ELSE "read"
      /\ UNCHANGED <<unreadLines, known, log, enhanced, counts, finalFlush, enhanceError, enhanceResult, whole>>
    BY DEF BatchWritten
<1>3. /\ NumbersTyped /\ enhanceError = NoError /\ enhanceResult = NoError
      /\ finalFlush \in BOOLEAN
    BY <1>1, <1>2, NumbersFacts DEF InputIsNext, EnhanceTypes, EnhanceTypeOK
<1>4. /\ batch' \in Seq(SnapshotRecord) /\ Len(batch') = 0 /\ DOMAIN batch' = {}
      /\ 0 \in 0 .. 0 /\ 0 < BatchSize /\ 0 <= counts.read /\ 0 <= BatchSize
    BY <1>2, <1>3 DEF NumbersTyped
<1>5. PICK r \in Nat, m \in Nat : r = counts.read /\ m = Len(batch)
    BY <1>3 DEF NumbersTyped
<1>6. r - (m - m) = r - (0 - 0) /\ m - m = 0 - 0 /\ r + 0 = r
    OBVIOUS
<1>7. EnhanceTypes'
    BY <1>1, <1>2, <1>4 DEF EnhanceTypes, EnhanceTypeOK
<1>8. InputIsNext'
    BY <1>1, <1>2 DEF InputIsNext
<1>9. Stages'
    BY <1>1, <1>2, <1>3, <1>4 DEF Stages
<1>10. CountsAddUp'
  <2>1. Classified = r /\ r = counts.written + counts.skipped_duplicate + (m - m)
      BY <1>1, <1>2, <1>5 DEF CountsAddUp
  <2>2. Classified' = Classified
      BY <1>2 DEF Classified
  <2>3. Classified + 0 = r
      BY <1>6, <2>1
  <2> QED BY <1>2, <1>4, <1>5, <1>6, <2>1, <2>2, <2>3 DEF CountsAddUp
<1>11. BatchIsNext'
    BY <1>4 DEF BatchIsNext
<1>12. OutputIsSound'
  <2>1. counts'.read - (Len(batch') - written') = counts.read - (Len(batch) - written)
      BY <1>2, <1>4, <1>5, <1>6
  <2> QED BY <1>1, <1>2, <2>1 DEF OutputIsSound
<1> QED BY <1>7, <1>8, <1>9, <1>10, <1>11, <1>12 DEF EnhanceInv

LEMMA FinishEnhancedKeeps ==
    ASSUME EnhanceInv, NEW outcome \in Outcomes, FinishEnhanced(outcome)
    PROVE  EnhanceInv'
<1>1. EnhanceTypes /\ InputIsNext /\ Stages /\ CountsAddUp /\ BatchIsNext /\ OutputIsSound
    BY DEF EnhanceInv
<1>2. /\ phase = "finish" /\ phase' = "done"
      /\ enhanced' = [enhanced EXCEPT !.output = outcome]
      /\ enhanceResult' = IF enhanceError # NoError THEN enhanceError
                           ELSE IF outcome = "published" THEN NoError ELSE "Io"
      /\ UNCHANGED <<unreadLines, batch, written, known, log, counts, finalFlush, enhanceError, whole>>
    BY DEF FinishEnhanced, Finished, FinishError, PreferLoopError
<1>3. /\ enhanced \in WriterType(SnapshotRecord) /\ enhanceResult = NoError
      /\ enhanceError \in {NoError, "Read", "Lookup", "Io"}
    BY <1>1, <1>2 DEF EnhanceTypes, EnhanceTypeOK, Stages
<1>4. outcome \in {"published", "unsynced", "failed"}
    BY DEF Outcomes
<1>5. /\ enhanced' \in WriterType(SnapshotRecord) /\ enhanced'.output = outcome
      /\ enhanced'.lines = enhanced.lines /\ enhanced'.last_written = enhanced.last_written
  <2> QED BY <1>2, <1>3 DEF WriterType, Outcomes
<1>6. /\ enhanceResult' \in {NoError, "Read", "Lookup", "Io"}
      /\ enhanceResult' = NoError <=> outcome = "published" /\ enhanceError = NoError
    BY <1>2, <1>3, <1>4 DEF NoError
<1>7. EnhanceTypes'
    BY <1>1, <1>2, <1>5, <1>6 DEF EnhanceTypes, EnhanceTypeOK
<1>8. InputIsNext'
    BY <1>2 DEF InputIsNext
<1>9. Stages'
    BY <1>1, <1>2, <1>3, <1>4, <1>5, <1>6 DEF Stages
<1>10. CountsAddUp'
    BY <1>1, <1>2, <1>3, <1>6 DEF CountsAddUp, Classified
<1>11. BatchIsNext'
    BY <1>1, <1>2 DEF BatchIsNext
<1>12. OutputIsSound'
    BY <1>1, <1>2, <1>5 DEF OutputIsSound, OutputOf
<1> QED BY <1>7, <1>8, <1>9, <1>10, <1>11, <1>12 DEF EnhanceInv

LEMMA EnhanceKept == EnhanceInv /\ [EnhanceNext]_enhanceVars => EnhanceInv'
<1> SUFFICES ASSUME EnhanceInv, [EnhanceNext]_enhanceVars PROVE EnhanceInv'
    OBVIOUS
<1>1. CASE OpenEnhance \/ ReadSnapshot \/ FinalFlush
    BY <1>1, OpenKeeps, ReadKeeps, FinalFlushKeeps
<1>2. CASE \E few, fewer \in 0 .. BatchSize : LookUp(few, fewer)
    BY <1>2, LookUpKeeps
<1>3. CASE LookupFails \/ BatchWritten
    BY <1>3, LookupFailsKeeps, BatchWrittenKeeps
<1>4. CASE \E ok \in BOOLEAN : WriteSnapshot(ok)
    BY <1>4, WriteSnapshotKeeps
<1>6. CASE \E outcome \in Outcomes : FinishEnhanced(outcome)
    BY <1>6, FinishEnhancedKeeps
<1>5. CASE UNCHANGED enhanceVars
  <2>1. EnhanceTypes /\ InputIsNext /\ Stages /\ CountsAddUp /\ BatchIsNext /\ OutputIsSound
      BY DEF EnhanceInv
  <2>2. EnhanceTypes' /\ InputIsNext'
      BY <1>5, <2>1 DEF EnhanceTypes, EnhanceTypeOK, InputIsNext, enhanceVars
  <2>3. Stages' /\ CountsAddUp'
      BY <1>5, <2>1 DEF Stages, CountsAddUp, Classified, enhanceVars
  <2>4. BatchIsNext' /\ OutputIsSound'
      BY <1>5, <2>1 DEF BatchIsNext, OutputIsSound, enhanceVars
  <2> QED BY <2>2, <2>3, <2>4 DEF EnhanceInv
<1> QED BY <1>1, <1>2, <1>3, <1>4, <1>5, <1>6 DEF EnhanceNext

LEMMA EnhanceInvariant == EnhanceSpec => []EnhanceInv
BY EnhanceInitially, EnhanceKept, PTL DEF EnhanceSpec

LEMMA NothingLostFromInv == EnhanceInv => EnhanceLosesNothing
<1> SUFFICES ASSUME EnhanceInv PROVE EnhanceLosesNothing
    OBVIOUS
<1>1. EnhanceTypes /\ InputIsNext /\ Stages /\ CountsAddUp /\ BatchIsNext /\ OutputIsSound
    BY DEF EnhanceInv
<1>2. RunStarts = StartsTo(whole, counts.read - (Len(batch) - written))
    BY DEF RunStarts, Processed, StartsTo
<1>3. Len(enhanced.lines) = Cardinality(RunStarts)
    BY <1>1, <1>2 DEF OutputIsSound, OutputOf
<1>4. ASSUME NEW i \in RunStarts
      PROVE  MayBecome(whole[i], enhanced.lines[Rank(RunStarts, i)])
  <2>1. PICK s, o : s = whole[i] /\ o = enhanced.lines[Rank(RunStarts, i)]
      OBVIOUS
  <2>2. Becomes(known, log, s, o)
      BY <1>1, <1>2, <2>1 DEF OutputIsSound, OutputOf
  <2>3. \A d : CapturesOf(d) = CapturesIn(known, d)
      BY DEF CapturesOf, CapturesIn
  <2>4. Fallback(s) = FallbackOf(log, s)
      BY DEF Fallback, FallbackOf
  <2>5. MayBecome(s, o)
      BY <2>2, <2>3, <2>4 DEF MayBecome, Becomes
  <2> QED BY <2>1, <2>5
<1>5. counts.read = counts.written + counts.skipped_duplicate + (Len(batch) - written)
    BY <1>1 DEF CountsAddUp
<1>6. phase = "done" /\ enhanceResult = NoError =>
        /\ counts.read = Len(whole) /\ batch = <<>>
        /\ counts.read = counts.enhanced + counts.already_enhanced + Len(counts.unmatched)
    BY <1>1 DEF Stages, CountsAddUp, Classified
<1> QED BY <1>1, <1>3, <1>4, <1>5, <1>6 DEF EnhanceLosesNothing, EnhanceTypes, Stages

\* enhance writes the lines of its input in their order, each as it was or with the time of a
\* capture the lookup knows, leaves out only repetitions of the digest before, counts every line,
\* and succeeds only if it published all of them (enhance_into, flush_batch).
THEOREM EnhanceLosesNoLine == EnhanceSpec => []EnhanceLosesNothing
BY NothingLostFromInv, EnhanceInvariant, PTL

-----------------------------------------------------------------------------
(* The inductive invariant of a session of queries *)

Asked == [query : 1 .. QueryCount, key : ResumeKeys \cup {NoKey}, via : Nat]
Response == [request : Nat, answer : Payloads \cup {Pause}]
Started == QueryCount - Len(pending)

\* The answers to a request that are successes.
AnswersIn(w, i) == {w[k].answer : k \in {n \in DOMAIN w : w[n].request = i}} \ {Pause}

\* The last request has no answer yet.
Asking == current # NoQuery /\ current.next = NoKey

QueryTypes ==
    /\ QueryTypeOK
    /\ asked \in Seq(Asked)
    /\ warc \in Seq(Response)

QueriesInTurn ==
    /\ Len(pending) <= QueryCount
    /\ \A k \in DOMAIN pending : pending[k] = Started + k
    /\ IF asked = <<>> THEN Started = 0
       ELSE asked[Len(asked)].query = Started /\ asked[1].query = 1 /\ asked[1].key = NoKey

CurrentIsLast ==
    /\ current # NoQuery => asked # <<>> /\ current.query = Started /\ Started # 0
    /\ session = "request" => Asking /\ attempt < Attempts
    /\ session = "next" => ~ Asking
    /\ current.next # NoKey =>
         /\ follow
         /\ current.via = Len(asked)
         /\ current.next \in current.seen
         /\ \E p \in AnswersIn(warc, Len(asked)) : p # Binary /\ ResumeKey(p) = current.next
    /\ \A i \in DOMAIN asked :
         asked[i].query = current.query => asked[i].key \in (current.seen \ {current.next}) \cup {NoKey}

KeyIsFollowed(following, a, w, i) ==
    IF a[i].key = NoKey THEN a[i].query = 1 \/ a[i].query = a[i - 1].query + 1
    ELSE /\ following
         /\ a[i].via = i - 1
         /\ a[i - 1].query = a[i].query
         /\ \E p \in AnswersIn(w, i - 1) : p # Binary /\ ResumeKey(p) = a[i].key

\* KeysAreFollowedOnce, said of the archive.
KeysAreFollowed ==
    /\ \A i, j \in DOMAIN asked :
         i < j => asked[i].query <= asked[j].query /\ <<asked[i].query, asked[i].key>> #
                                                      <<asked[j].query, asked[j].key>>
    /\ \A i \in DOMAIN asked : KeyIsFollowed(follow, asked, warc, i)

AnsweredOnce ==
    /\ \A k \in DOMAIN warc : warc[k].request \in 1 .. Len(asked)
    /\ \A k, l \in DOMAIN warc : k < l => warc[k].request <= warc[l].request
    /\ \A k, l \in DOMAIN warc :
         warc[k].request = warc[l].request /\ Pause \notin {warc[k].answer, warc[l].answer} => k = l
    /\ Asking => AnswersIn(warc, Len(asked)) = {}

AnsweredOrFailed ==
    \A i \in DOMAIN asked : i \in failures \/ AnswersIn(warc, i) # {} \/ (i = Len(asked) /\ Asking)

EveryQueryEnds ==
    \A q \in 1 .. Started :
      \/ q = Started /\ current # NoQuery
      \/ \E i \in DOMAIN asked :
           /\ asked[i].query = q
           /\ \/ i \in failures
              \/ AnswersIn(warc, i) # {} /\ (follow => \A p \in AnswersIn(warc, i) : ResumeKey(p) = NoKey)

RowsAreExtracted ==
    session = "extracted" /\ extraction = "ok" => rows = RowsUpTo(warc, Len(warc))

QueryInv ==
    /\ QueryTypes
    /\ QueriesInTurn
    /\ CurrentIsLast
    /\ KeysAreFollowed
    /\ AnsweredOnce
    /\ AnsweredOrFailed
    /\ EveryQueryEnds
    /\ RowsAreExtracted

-----------------------------------------------------------------------------
(* The lines of pages *)

\* A sequence joined from pieces, for each number of them.
JoinOf(J, F, N) == J[0] = <<>> /\ \A k \in 1 .. N : J[k] = J[k - 1] \o F[k]

LEMMA JoinExists ==
    ASSUME NEW N \in Nat, NEW S, NEW F \in [1 .. N -> Seq(S)]
    PROVE  \E J \in [0 .. N -> Seq(S)] : JoinOf(J, F, N)
<1> DEFINE G == [p \in Nat \X Seq(S) |-> IF p[1] \in 1 .. N THEN p[2] \o F[p[1]] ELSE p[2]]
<1>1. G \in [Nat \X Seq(S) -> Seq(S)]
  <2>1. ASSUME NEW n \in Nat, NEW s \in Seq(S)
        PROVE  (IF n \in 1 .. N THEN s \o F[n] ELSE s) \in Seq(S)
    <3>1. CASE n \in 1 .. N
      <4>1. F[n] \in Seq(S)
          BY <3>1
      <4> QED BY <3>1, <4>1
    <3>2. CASE n \notin 1 .. N
        BY <3>2
    <3> QED BY <3>1, <3>2
  <2> QED BY <2>1
<1>2. \A n \in 1 .. N, s \in Seq(S) : G[<<n, s>>] = s \o F[n]
  <2> TAKE n \in 1 .. N, s \in Seq(S)
  <2>1. <<n, s>> \in Nat \X Seq(S)
      OBVIOUS
  <2>2. G[<<n, s>>] = IF <<n, s>>[1] \in 1 .. N THEN <<n, s>>[2] \o F[<<n, s>>[1]] ELSE <<n, s>>[2]
      BY <2>1
  <2> QED BY <2>2
<1> HIDE DEF G
<1>3. <<>> \in Seq(S)
    OBVIOUS
<1>4. PICK J \in [0 .. N -> Seq(S)] : J[0] = <<>> /\ Steps(J, G, N)
    BY <1>1, <1>3, StepsExist
<1>5. ASSUME NEW k \in 1 .. N PROVE J[k] = J[k - 1] \o F[k]
  <2>1. k - 1 \in 0 .. N
      OBVIOUS
  <2>2. J[k - 1] \in Seq(S)
      BY <2>1
  <2> QED BY <2>2, <1>2, <1>4 DEF Steps
<1> QED BY <1>4, <1>5 DEF JoinOf

\* Two joins of the same pieces are the same.
LEMMA JoinsAreOne ==
    ASSUME NEW N \in Nat, NEW F, NEW J, NEW K, JoinOf(J, F, N), JoinOf(K, F, N)
    PROVE  J[N] = K[N]
<1> DEFINE T == {n \in Nat : n <= N => J[n] = K[n]}
<1>1. 0 \in T
    BY DEF JoinOf
<1>2. ASSUME NEW n \in Nat, n \in T PROVE n + 1 \in T
  <2> SUFFICES ASSUME n + 1 <= N PROVE J[n + 1] = K[n + 1]
      OBVIOUS
  <2>1. J[n] = K[n] /\ n + 1 \in 1 .. N /\ (n + 1) - 1 = n
      BY <1>2
  <2> QED BY <2>1 DEF JoinOf
<1>3. N \in T
  <2> HIDE DEF T
  <2> QED BY <1>1, <1>2, NatFromZero
<1> QED BY <1>3

\* Pieces that come in the order of the parts, each part once, join to what the parts join to.
InTurn(r, G, M, N) ==
    /\ \A k, l \in 1 .. M : k < l => r[k] <= r[l]
    /\ \A k, l \in G : r[k] = r[l] => k = l
    /\ \A i \in 1 .. N : \E k \in G : r[k] = i
PiecesOf(W, P, r, G, M) ==
    \A k \in 1 .. M : IF k \in G THEN W[k] = P[r[k]] ELSE W[k] = <<>>

TwoJoins(M, N, S, W, P, r, G, J, K) ==
    /\ M \in Nat /\ N \in Nat
    /\ W \in [1 .. M -> Seq(S)] /\ P \in [1 .. N -> Seq(S)]
    /\ r \in [1 .. M -> 1 .. N] /\ G \in SUBSET (1 .. M) /\ InTurn(r, G, M, N)
    /\ PiecesOf(W, P, r, G, M)
    /\ J \in [0 .. M -> Seq(S)] /\ JoinOf(J, W, M)
    /\ K \in [0 .. N -> Seq(S)] /\ JoinOf(K, P, N)

SameEnd(M, N, J, K) == J[M] = K[N]

LEMMA NextOrLess ==
    ASSUME NEW x \in Int, NEW y \in Int
    PROVE  x <= y + 1 <=> x <= y \/ x = y + 1
OBVIOUS

LEMMA JoinsAgree ==
    ASSUME NEW M, NEW N, NEW S, NEW W, NEW P, NEW r, NEW G, NEW J, NEW K,
           TwoJoins(M, N, S, W, P, r, G, J, K)
    PROVE  SameEnd(M, N, J, K)
<1> SUFFICES J[M] = K[N]
    BY DEF SameEnd
<1> M \in Nat /\ N \in Nat
    BY DEF TwoJoins
<1> W \in [1 .. M -> Seq(S)] /\ P \in [1 .. N -> Seq(S)]
    BY DEF TwoJoins
<1> r \in [1 .. M -> 1 .. N] /\ G \in SUBSET (1 .. M) /\ InTurn(r, G, M, N)
    BY DEF TwoJoins
<1> PiecesOf(W, P, r, G, M)
    BY DEF TwoJoins
<1> J \in [0 .. M -> Seq(S)] /\ JoinOf(J, W, M) /\ K \in [0 .. N -> Seq(S)] /\ JoinOf(K, P, N)
    BY DEF TwoJoins
<1> DEFINE T == {m \in Nat : m <= M => \E c \in 0 .. N :
                   J[m] = K[c] /\ \A k \in G : k <= m <=> r[k] <= c}
<1>1. 0 \in T
  <2>1. J[0] = K[0] /\ 0 \in 0 .. N
      BY DEF JoinOf
  <2>2. \A k \in G : ~ (k <= 0) /\ ~ (r[k] <= 0)
    <3> TAKE k \in G
    <3>1. k \in 1 .. M /\ r[k] \in 1 .. N
        OBVIOUS
    <3> QED BY <3>1
  <2> QED BY <2>1, <2>2
<1>2. ASSUME NEW m \in Nat, m \in T PROVE m + 1 \in T
  <2> SUFFICES ASSUME m + 1 <= M
               PROVE  \E c \in 0 .. N : J[m + 1] = K[c] /\ \A k \in G : k <= m + 1 <=> r[k] <= c
      OBVIOUS
  <2>1. PICK c \in 0 .. N : J[m] = K[c] /\ \A k \in G : k <= m <=> r[k] <= c
      BY <1>2
  <2>2. /\ m + 1 \in 1 .. M /\ (m + 1) - 1 = m /\ r[m + 1] \in 1 .. N
        /\ \A k \in G : k \in 1 .. M /\ r[k] \in 1 .. N
      OBVIOUS
  <2>3. J[m + 1] = K[c] \o W[m + 1] /\ K[c] \in Seq(S)
      BY <2>1, <2>2 DEF JoinOf
  <2>4. CASE m + 1 \notin G
    <3>1. W[m + 1] = <<>>
        BY <2>2, <2>4 DEF PiecesOf
    <3>2. J[m + 1] = K[c]
      <4>1. PICK q \in Seq(S) : q = K[c]
          BY <2>3
      <4>2. q \o <<>> = q
          OBVIOUS
      <4> QED BY <2>3, <3>1, <4>1, <4>2
    <3>3. ASSUME NEW k \in G PROVE k <= m + 1 <=> k <= m
      <4>1. k \in 1 .. M /\ k # m + 1
          BY <2>2, <2>4
      <4> QED BY <4>1
    <3> QED BY <2>1, <3>2, <3>3
  <2>5. CASE m + 1 \in G
    <3>1. W[m + 1] = P[r[m + 1]]
        BY <2>2, <2>5 DEF PiecesOf
    <3>2. ~ (r[m + 1] <= c)
        BY <2>1, <2>5
    <3>3. c + 1 \in 1 .. N
        BY <2>2, <3>2
    <3>4. PICK k \in G : r[k] = c + 1
        BY <3>3 DEF InTurn
    <3>5. ~ (k <= m)
        BY <2>1, <3>4
    <3>6. r[m + 1] <= c + 1
      <4>1. CASE k = m + 1
          BY <4>1, <3>4, <3>3
      <4>2. CASE k # m + 1
        <5>1. m + 1 < k
            BY <4>2, <3>5, <2>2
        <5> QED BY <5>1, <2>2, <3>4 DEF InTurn
      <4> QED BY <4>1, <4>2
    <3>7. r[m + 1] = c + 1
      <4>1. PICK x \in Int, d \in Int : x = r[m + 1] /\ d = c
          BY <2>2
      <4>2. ~ (x <= d) /\ x <= d + 1
          BY <4>1, <3>2, <3>6
      <4>3. x = d + 1
          BY ONLY <4>2, x \in Int, d \in Int
      <4> QED BY <4>1, <4>3
    <3>8. K[c + 1] = K[c] \o P[c + 1]
      <4>1. (c + 1) - 1 = c
          BY <2>1
      <4> QED BY <3>3, <4>1 DEF JoinOf
    <3>9. J[m + 1] = K[c + 1]
        BY <2>3, <3>1, <3>7, <3>8
    <3>10. ASSUME NEW j \in G PROVE j <= m + 1 <=> r[j] <= c + 1
      <4>1. j \in 1 .. M /\ r[j] \in 1 .. N /\ (j <= m <=> r[j] <= c)
          BY <2>1, <2>2
      <4>2. j = m + 1 <=> r[j] = c + 1
          BY <2>5, <3>7 DEF InTurn
      <4>3. PICK x \in Int, y \in Int, z \in Int, d \in Int : x = j /\ y = r[j] /\ z = m /\ d = c
          BY <4>1
      <4>4. (x <= z <=> y <= d) /\ (x = z + 1 <=> y = d + 1)
          BY <4>1, <4>2, <4>3
      <4>5. x <= z + 1 <=> x <= z \/ x = z + 1
          BY NextOrLess
      <4>6. y <= d + 1 <=> y <= d \/ y = d + 1
          BY NextOrLess
      <4> QED BY <4>3, <4>4, <4>5, <4>6
    <3>11. c + 1 \in 0 .. N
        BY <3>3
    <3> QED BY <3>9, <3>10, <3>11
  <2> QED BY <2>4, <2>5
<1>3. M \in T
  <2> HIDE DEF T
  <2> QED BY <1>1, <1>2, NatFromZero
<1>4. PICK c \in 0 .. N : J[M] = K[c] /\ \A k \in G : k <= M <=> r[k] <= c
    BY <1>3
<1>5. c = N
  <2> SUFFICES ASSUME c # N PROVE FALSE
      OBVIOUS
  <2>1. N \in 1 .. N
      BY <1>4
  <2>2. PICK k \in G : r[k] = N
      BY <2>1 DEF InTurn
  <2>3. k \in 1 .. M
      BY <2>2
  <2> QED BY <1>4, <2>2, <2>3
<1> QED BY <1>4, <1>5


\* Where the rows of a page end.
RowsEnd(p, n) ==
    /\ n \in 0 .. Len(p)
    /\ \A i \in 1 .. n : p[i] \notin ResumeKeys \cup {Empty}
    /\ \A i \in n + 1 .. Len(p) : p[i] \in ResumeKeys \cup {Empty}
    /\ n < Len(p) => p[n + 1] = Empty

LEMMA PageTyped ==
    ASSUME NEW p \in Payloads
    PROVE  p \in Seq(PageLine) /\ Len(p) \in Nat /\ \E n \in 0 .. Len(p) : RowsEnd(p, n)
<1>1. p \in Seq(PageLine) /\ IsPage(p)
    BY QueryAssumption
<1> QED BY <1>1 DEF IsPage, RowsEnd

\* What a page gives as its key is one.
LEMMA KeyTyped ==
    ASSUME NEW p \in Payloads
    PROVE  ResumeKey(p) \in ResumeKeys \cup {NoKey}
<1>1. PICK n \in 0 .. Len(p) : RowsEnd(p, n)
    BY PageTyped
<1>2. p \in Seq(PageLine) /\ Len(p) \in Nat
    BY PageTyped
<1> DEFINE m == Len(p)
<1>3. CASE m > 1 /\ p[m] # Empty /\ p[m - 1] = Empty
  <2>1. m - 1 \in n + 1 .. m
    <3>1. ~ (m - 1 \in 1 .. n)
        BY <1>1, <1>3 DEF RowsEnd
    <3> QED BY <1>2, <1>3, <3>1
  <2>2. m \in n + 1 .. m
      BY <1>2, <2>1
  <2>3. p[m] \in ResumeKeys
      BY <1>1, <1>3, <2>2 DEF RowsEnd
  <2> QED BY <1>3, <2>3 DEF ResumeKey
<1>4. CASE ~ (m > 1 /\ p[m] # Empty /\ p[m - 1] = Empty)
    BY <1>4 DEF ResumeKey
<1> QED BY <1>3, <1>4

\* The rows of a page are the lines before its end.
LEMMA RowsOfPage ==
    ASSUME NEW p \in Payloads
    PROVE  \E n \in 0 .. Len(p) : RowsEnd(p, n) /\ RowsOf(p) = SubSeq(p, 1, n)
<1>1. PICK n \in 0 .. Len(p) : RowsEnd(p, n)
    BY PageTyped
<1>2. p \in Seq(PageLine) /\ Len(p) \in Nat /\ n \in Nat /\ DOMAIN p = 1 .. Len(p)
    BY PageTyped
<1> DEFINE upTo == {i \in DOMAIN p : \A j \in 1 .. i : p[j] # Empty}
<1>3. upTo = 1 .. n
  <2>1. ASSUME NEW i \in 1 .. n PROVE i \in upTo
    <3>1. i \in DOMAIN p /\ \A j \in 1 .. i : j \in 1 .. n
        BY <1>2
    <3> QED BY <3>1, <1>1 DEF RowsEnd
  <2>2. ASSUME NEW i \in upTo PROVE i \in 1 .. n
    <3>1. CASE i <= n
        BY <3>1, <1>2
    <3>2. CASE n < i
      <4>1. n < Len(p) /\ n + 1 \in 1 .. i
          BY <3>2, <1>2
      <4> QED BY <4>1, <1>1 DEF RowsEnd
    <3> QED BY <3>1, <3>2, <1>2
  <2> QED BY <2>1, <2>2
<1> DEFINE end == IF upTo = {} THEN 0 ELSE CHOOSE m \in upTo : \A i \in upTo : i <= m
<1>4. end = n
  <2>1. CASE n = 0
      BY <2>1, <1>3
  <2>2. CASE n # 0
    <3>1. n \in 1 .. n /\ \A i \in 1 .. n : i <= n
        BY <2>2, <1>2
    <3>2. PICK S : S = 1 .. n
        OBVIOUS
    <3>3. n \in S /\ \A i \in S : i <= n
        BY <3>1, <3>2
    <3>4. (CHOOSE m \in S : \A i \in S : i <= m) \in S
          /\ \A i \in S : i <= (CHOOSE m \in S : \A j \in S : j <= m)
        BY <3>3
    <3>5. n <= (CHOOSE m \in S : \A i \in S : i <= m) /\ (CHOOSE m \in S : \A i \in S : i <= m) <= n
        BY <3>3, <3>4
    <3>6. (CHOOSE m \in S : \A i \in S : i <= m) = n
      <4>1. (CHOOSE m \in S : \A i \in S : i <= m) \in Nat
          BY <3>2, <3>4
      <4> QED BY <1>2, <3>5, <4>1
    <3> QED BY <1>3, <2>2, <3>2, <3>3, <3>6
  <2> QED BY <2>1, <2>2
<1>5. RowsOf(p) = SubSeq(p, 1, end)
    BY DEF RowsOf
<1> QED BY <1>1, <1>4, <1>5


LEMMA CutGrows ==
    ASSUME NEW S, NEW p \in Seq(S), NEW k \in 1 .. Len(p)
    PROVE  SubSeq(p, 1, k) = Append(SubSeq(p, 1, k - 1), p[k])
OBVIOUS

\* The lines of a page that are rows are those before its end.
LEMMA RowsAreThose ==
    ASSUME NEW p \in Payloads
    PROVE  RowsOf(p) = RowsIn(p) /\ RowsOf(p) \in Seq(PageLine)
<1>1. PICK n \in 0 .. Len(p) : RowsEnd(p, n) /\ RowsOf(p) = SubSeq(p, 1, n)
    BY RowsOfPage
<1> DEFINE N == Len(p)
           f == [k \in 0 .. N |-> SubSeq(p, 1, IF k <= n THEN k ELSE n)]
           Next(s, k) == IF p[k] \in ResumeKeys \cup {Empty} THEN s ELSE Append(s, p[k])
<1>2. p \in Seq(PageLine) /\ N \in Nat /\ n \in Nat /\ n <= N
    BY PageTyped
<1>3. f[0] = <<>>
    BY <1>2
<1>4. ASSUME NEW k \in 1 .. N PROVE f[k] = Next(f[k - 1], k)
  <2>1. k - 1 \in 0 .. N /\ k \in 0 .. N
      BY <1>2
  <2>2. CASE k <= n
    <3>1. p[k] \notin ResumeKeys \cup {Empty} /\ k - 1 <= n
        BY <1>1, <1>2, <2>2 DEF RowsEnd
    <3>2. f[k] = SubSeq(p, 1, k) /\ f[k - 1] = SubSeq(p, 1, k - 1)
        BY <2>1, <2>2, <3>1
    <3> QED BY <1>2, <3>1, <3>2, CutGrows
  <2>3. CASE ~ (k <= n)
    <3>1. p[k] \in ResumeKeys \cup {Empty}
        BY <1>1, <1>2, <2>3 DEF RowsEnd
    <3>2. f[k] = SubSeq(p, 1, n)
        BY <2>1, <2>3
    <3>3. f[k - 1] = SubSeq(p, 1, n)
      <4>1. CASE k - 1 <= n
        <5>1. k - 1 = n
            BY <4>1, <2>3, <1>2
        <5> QED BY <2>1, <5>1
      <4>2. CASE ~ (k - 1 <= n)
          BY <4>2, <2>1
      <4> QED BY <4>1, <4>2
    <3> QED BY <3>1, <3>2, <3>3
  <2> QED BY <2>2, <2>3
<1>5. f = [k \in 0 .. N |-> IF k = 0 THEN <<>> ELSE Next(f[k - 1], k)]
  <2>1. ASSUME NEW k \in 0 .. N PROVE f[k] = IF k = 0 THEN <<>> ELSE Next(f[k - 1], k)
    <3>1. CASE k = 0
        BY <3>1, <1>3
    <3>2. CASE k # 0
      <4>1. k \in 1 .. N
          BY <3>2, <1>2
      <4> HIDE DEF Next, f
      <4> QED BY <4>1, <3>2, <1>4
    <3> QED BY <3>1, <3>2
  <2>2. f = [k \in 0 .. N |-> f[k]]
      OBVIOUS
  <2> HIDE DEF f, Next
  <2> QED BY <2>1, <2>2
<1> DEFINE upTo == CHOOSE g : g = [k \in 0 .. N |-> IF k = 0 THEN <<>> ELSE Next(g[k - 1], k)]
<1>6. RowsIn(p) = upTo[N]
    BY DEF RowsIn
<1>7. f[N] = SubSeq(p, 1, n)
  <2>1. N \in 0 .. N /\ (N <= n => N = n)
      BY <1>2
  <2> QED BY <2>1
<1> HIDE DEF f, Next
<1>8. upTo = [k \in 0 .. N |-> IF k = 0 THEN <<>> ELSE Next(upTo[k - 1], k)]
    BY <1>5
<1> HIDE DEF upTo, N
<1> DEFINE T == {k \in Nat : k <= N => upTo[k] = f[k]}
<1>9. 0 \in T
    BY <1>2, <1>3, <1>8
<1>10. ASSUME NEW k \in Nat, k \in T PROVE k + 1 \in T
  <2> SUFFICES ASSUME k + 1 <= N PROVE upTo[k + 1] = f[k + 1]
      OBVIOUS
  <2>1. k + 1 \in 1 .. N /\ k + 1 \in 0 .. N /\ (k + 1) - 1 = k /\ k + 1 # 0 /\ upTo[k] = f[k]
      BY <1>2, <1>10
  <2>2. upTo[k + 1] = Next(upTo[k], k + 1)
      BY <1>8, <2>1
  <2>3. f[k + 1] = Next(f[k], k + 1)
      BY <1>4, <2>1
  <2> QED BY <2>1, <2>2, <2>3
<1>11. N \in T
  <2> HIDE DEF T
  <2> QED BY <1>2, <1>9, <1>10, NatFromZero
<1>12. upTo[N] = f[N]
    BY <1>2, <1>11
<1>13. SubSeq(p, 1, n) \in Seq(PageLine)
    BY <1>2
<1> QED BY <1>1, <1>6, <1>7, <1>12, <1>13


\* What the extraction writes, and what the pages hold, as joins.
RowsOfAnswer(a) == IF a = Pause THEN <<>> ELSE RowsOf(a)

LEMMA WhatIsExtracted ==
    ASSUME NEW w \in Seq(Response), NEW N, N = Len(w), NEW J \in [0 .. N -> Seq(PageLine)],
           JoinOf(J, [k \in 1 .. N |-> RowsOfAnswer(w[k].answer)], N)
    PROVE  RowsUpTo(w, N) = J[N]
<1> DEFINE Next(s, k) == IF w[k].answer = Pause THEN s ELSE s \o RowsOf(w[k].answer)
<1>1. N \in Nat
    OBVIOUS
<1>2. J[0] = <<>>
    BY DEF JoinOf
<1>3. ASSUME NEW k \in 1 .. N PROVE J[k] = Next(J[k - 1], k)
  <2>1. J[k] = J[k - 1] \o RowsOfAnswer(w[k].answer)
      BY DEF JoinOf
  <2>2. PICK q \in Seq(PageLine) : q = J[k - 1]
    <3>1. k - 1 \in 0 .. N
        OBVIOUS
    <3> QED BY <3>1
  <2>3. q \o <<>> = q
      OBVIOUS
  <2> QED BY <2>1, <2>2, <2>3 DEF RowsOfAnswer
<1> HIDE DEF Next
<1>4. J = [k \in 0 .. N |-> IF k = 0 THEN <<>> ELSE Next(J[k - 1], k)]
  <2>1. ASSUME NEW k \in 0 .. N PROVE J[k] = IF k = 0 THEN <<>> ELSE Next(J[k - 1], k)
    <3>1. CASE k = 0
        BY <3>1, <1>2
    <3>2. CASE k # 0
      <4>1. k \in 1 .. N
          BY <3>2, <1>1
      <4> QED BY <4>1, <3>2, <1>3
    <3> QED BY <3>1, <3>2
  <2>2. J = [k \in 0 .. N |-> J[k]]
      OBVIOUS
  <2> QED BY <2>1, <2>2
<1> DEFINE upTo == CHOOSE g : g = [k \in 0 .. N |-> IF k = 0 THEN <<>> ELSE Next(g[k - 1], k)]
<1>5. RowsUpTo(w, N) = upTo[N]
    BY DEF RowsUpTo, Next
<1>6. upTo = [k \in 0 .. N |-> IF k = 0 THEN <<>> ELSE Next(upTo[k - 1], k)]
    BY <1>4
<1> HIDE DEF upTo
<1> DEFINE T == {k \in Nat : k <= N => upTo[k] = J[k]}
<1>7. 0 \in T
    BY <1>1, <1>2, <1>6
<1>8. ASSUME NEW k \in Nat, k \in T PROVE k + 1 \in T
  <2> SUFFICES ASSUME k + 1 <= N PROVE upTo[k + 1] = J[k + 1]
      OBVIOUS
  <2>1. k + 1 \in 1 .. N /\ k + 1 \in 0 .. N /\ (k + 1) - 1 = k /\ k + 1 # 0 /\ upTo[k] = J[k]
      BY <1>1, <1>8
  <2>2. upTo[k + 1] = Next(upTo[k], k + 1)
      BY <1>6, <2>1
  <2>3. J[k + 1] = Next(J[k], k + 1)
      BY <1>3, <2>1
  <2> QED BY <2>1, <2>2, <2>3
<1>9. N \in T
  <2> HIDE DEF T
  <2> QED BY <1>1, <1>7, <1>8, NatFromZero
<1> QED BY <1>1, <1>5, <1>9

LEMMA WhatPagesHold ==
    ASSUME NEW N \in Nat, N = Len(asked), NEW K \in [0 .. N -> Seq(PageLine)],
           JoinOf(K, [n \in 1 .. N |-> RowsIn(PageOf(n))], N)
    PROVE  RowsOfPages = K[N]
<1> DEFINE Next(s, n) == s \o RowsIn(PageOf(n))
<1>2. K[0] = <<>>
    BY DEF JoinOf
<1>3. \A k \in 1 .. N : K[k] = Next(K[k - 1], k)
    BY DEF JoinOf
<1> HIDE DEF Next
<1>4. K = [k \in 0 .. N |-> IF k = 0 THEN <<>> ELSE Next(K[k - 1], k)]
  <2>1. ASSUME NEW k \in 0 .. N PROVE K[k] = IF k = 0 THEN <<>> ELSE Next(K[k - 1], k)
    <3>1. CASE k = 0
        BY <3>1, <1>2
    <3>2. CASE k # 0
      <4>1. k \in 1 .. N
          BY <3>2
      <4> QED BY <4>1, <3>2, <1>3
    <3> QED BY <3>1, <3>2
  <2>2. K = [k \in 0 .. N |-> K[k]]
      OBVIOUS
  <2> QED BY <2>1, <2>2
<1> DEFINE upTo == CHOOSE g : g = [k \in 0 .. N |-> IF k = 0 THEN <<>> ELSE Next(g[k - 1], k)]
<1>5. RowsOfPages = upTo[N]
    BY DEF RowsOfPages, Next
<1>6. upTo = [k \in 0 .. N |-> IF k = 0 THEN <<>> ELSE Next(upTo[k - 1], k)]
    BY <1>4
<1> HIDE DEF upTo
<1> DEFINE T == {k \in Nat : k <= N => upTo[k] = K[k]}
<1>7. 0 \in T
    BY <1>2, <1>6
<1>8. ASSUME NEW k \in Nat, k \in T PROVE k + 1 \in T
  <2> SUFFICES ASSUME k + 1 <= N PROVE upTo[k + 1] = K[k + 1]
      OBVIOUS
  <2>1. k + 1 \in 1 .. N /\ k + 1 \in 0 .. N /\ (k + 1) - 1 = k /\ k + 1 # 0 /\ upTo[k] = K[k]
      BY <1>8
  <2>2. upTo[k + 1] = Next(upTo[k], k + 1)
      BY <1>6, <2>1
  <2>3. K[k + 1] = Next(K[k], k + 1)
      BY <1>3, <2>1
  <2> QED BY <2>1, <2>2, <2>3
<1>9. N \in T
  <2> HIDE DEF T
  <2> QED BY <1>7, <1>8, NatFromZero
<1> QED BY <1>5, <1>9

-----------------------------------------------------------------------------
(* What a session without failures has *)

LEMMA AnswersAre ==
    ASSUME NEW w, NEW i, NEW x
    PROVE  x \in AnswersIn(w, i) <=> \E k \in DOMAIN w : w[k].request = i /\ w[k].answer = x /\ x # Pause
BY DEF AnswersIn

LEMMA SameAnswers == \A i : AnswersTo(i) = AnswersIn(warc, i)
BY DEF AnswersTo, AnswersIn

LEMMA AnswersTyped == QueryTypes => \A i : \A x \in AnswersIn(warc, i) : x \in Payloads
<1> SUFFICES ASSUME QueryTypes, NEW i, NEW x \in AnswersIn(warc, i) PROVE x \in Payloads
    OBVIOUS
<1>1. PICK k \in DOMAIN warc : warc[k].answer = x /\ x # Pause
    BY AnswersAre
<1>2. warc[k] \in Response
    BY DEF QueryTypes
<1> QED BY <1>1, <1>2 DEF Response

LEMMA ExtractedIsAll ==
    ASSUME QueryTypes, AnsweredOnce, \A i \in DOMAIN asked : AnswersIn(warc, i) # {}
    PROVE  RowsUpTo(warc, Len(warc)) = RowsOfPages
<1>1. warc \in Seq(Response) /\ asked \in Seq(Asked)
    BY DEF QueryTypes
<1>2. PICK w \in Seq(Response), M \in Nat, N \in Nat : w = warc /\ M = Len(w) /\ N = Len(asked)
  <2>1. Len(warc) \in Nat /\ Len(asked) \in Nat
      BY <1>1
  <2> QED BY <1>1, <2>1
<1>3. DOMAIN asked = 1 .. N /\ DOMAIN warc = 1 .. M
    BY <1>1, <1>2
<1>4. \A k \in 1 .. M : w[k].request \in 1 .. N /\ w[k].answer \in Payloads \cup {Pause}
  <2> TAKE k \in 1 .. M
  <2>1. w[k] \in Response
      BY <1>2
  <2> QED BY <2>1, <1>2, <1>3 DEF Response, AnsweredOnce
<1> DEFINE r == [k \in 1 .. M |-> w[k].request]
           G == {k \in 1 .. M : w[k].answer # Pause}
           W == [k \in 1 .. M |-> RowsOfAnswer(w[k].answer)]
           P == [n \in 1 .. N |-> RowsIn(PageOf(n))]
<1>5. r \in [1 .. M -> 1 .. N] /\ G \in SUBSET (1 .. M)
    BY <1>4
<1>6. \A n \in 1 .. N : PageOf(n) \in AnswersIn(warc, n) /\ PageOf(n) \in Payloads
    BY <1>3, SameAnswers, AnswersTyped DEF PageOf
<1>7. P \in [1 .. N -> Seq(PageLine)]
  <2>1. ASSUME NEW n \in 1 .. N PROVE RowsIn(PageOf(n)) \in Seq(PageLine)
    <3>1. PICK p \in Payloads : p = PageOf(n)
        BY <1>6
    <3> QED BY <3>1, RowsAreThose
  <2> QED BY <2>1
<1>8. W \in [1 .. M -> Seq(PageLine)]
  <2>1. ASSUME NEW k \in 1 .. M PROVE RowsOfAnswer(w[k].answer) \in Seq(PageLine)
    <3>1. CASE w[k].answer = Pause
      <4>1. <<>> \in Seq(PageLine)
          OBVIOUS
      <4> QED BY <3>1, <4>1 DEF RowsOfAnswer
    <3>2. CASE w[k].answer # Pause
      <4>1. PICK p \in Payloads : p = w[k].answer
          BY <1>4, <3>2
      <4> QED BY <4>1, <3>2, RowsAreThose DEF RowsOfAnswer
    <3> QED BY <3>1, <3>2
  <2> QED BY <2>1
<1>9. InTurn(r, G, M, N)
  <2>1. \A k, l \in 1 .. M : k < l => r[k] <= r[l]
      BY <1>2, <1>3 DEF AnsweredOnce
  <2>2. ASSUME NEW k \in G, NEW l \in G, r[k] = r[l] PROVE k = l
    <3>1. w[k].request = w[l].request /\ Pause \notin {w[k].answer, w[l].answer}
        BY <2>2
    <3> QED BY <1>2, <1>3, <3>1 DEF AnsweredOnce
  <2>3. ASSUME NEW i \in 1 .. N PROVE \E k \in G : r[k] = i
    <3>1. PICK k \in DOMAIN warc : warc[k].request = i /\ warc[k].answer = PageOf(i) /\ PageOf(i) # Pause
        BY <1>6, AnswersAre
    <3>2. k \in 1 .. M /\ w[k].answer # Pause /\ w[k].request = i
        BY <1>2, <1>3, <3>1
    <3> QED BY <3>2
  <2> HIDE DEF G, r
  <2> QED BY <2>1, <2>2, <2>3 DEF InTurn
<1>10. PiecesOf(W, P, r, G, M)
  <2> SUFFICES ASSUME NEW k \in 1 .. M PROVE IF k \in G THEN W[k] = P[r[k]] ELSE W[k] = <<>>
      BY DEF PiecesOf
  <2>1. CASE k \in G
    <3>1. PICK p \in Payloads, i \in 1 .. N : p = w[k].answer /\ i = w[k].request /\ p # Pause
        BY <1>4, <2>1
    <3>2. PICK l \in DOMAIN warc : warc[l].request = i /\ warc[l].answer = PageOf(i) /\ PageOf(i) # Pause
        BY <1>6, AnswersAre
    <3>3. k = l
      <4>1. warc[k].request = warc[l].request /\ Pause \notin {warc[k].answer, warc[l].answer}
          BY <3>1, <3>2, <1>2
      <4> QED BY <4>1, <1>3 DEF AnsweredOnce
    <3>4. p = PageOf(i)
        BY <3>1, <3>2, <3>3, <1>2
    <3>5. W[k] = RowsOf(p)
        BY <3>1 DEF RowsOfAnswer
    <3>6. P[r[k]] = RowsIn(p)
        BY <3>1, <3>4
    <3> QED BY <2>1, <3>5, <3>6, RowsAreThose
  <2>2. CASE k \notin G
    <3>1. w[k].answer = Pause
        BY <2>2
    <3> QED BY <2>2, <3>1 DEF RowsOfAnswer
  <2> QED BY <2>1, <2>2
<1> HIDE DEF r, G, W, P
<1>11. PICK J \in [0 .. M -> Seq(PageLine)] : JoinOf(J, W, M)
    BY <1>8, JoinExists
<1>12. PICK K \in [0 .. N -> Seq(PageLine)] : JoinOf(K, P, N)
    BY <1>7, JoinExists
<1>13. J[M] = K[N]
  <2>1. TwoJoins(M, N, PageLine, W, P, r, G, J, K)
      BY <1>5, <1>7, <1>8, <1>9, <1>10, <1>11, <1>12 DEF TwoJoins
  <2>2. SameEnd(M, N, J, K)
      BY ONLY <2>1, JoinsAgree
  <2> QED BY <2>2, Zenon DEF SameEnd
<1>14. RowsUpTo(w, M) = J[M]
    BY <1>2, <1>11, WhatIsExtracted DEF W
<1>15. RowsOfPages = K[N]
    BY <1>2, <1>12, WhatPagesHold DEF P
<1> QED BY <1>2, <1>13, <1>14, <1>15

LEMMA SessionFromInv == QueryInv => SessionIsComplete
<1> SUFFICES ASSUME QueryInv PROVE CompleteMeansExhausted
  <2>1. QueryInv => KeysAreFollowedOnce
      BY SameAnswers DEF QueryInv, KeysAreFollowed, KeysAreFollowedOnce, KeyIsFollowed
  <2> QED BY <2>1 DEF QueryInv, QueryTypes, SessionIsComplete
<1> SUFFICES ASSUME session = "extracted", failures = {}, pending = <<>>, current = NoQuery
             PROVE  /\ \A q \in 1 .. QueryCount : \E i \in DOMAIN asked :
                         /\ asked[i].query = q
                         /\ AnswersTo(i) # {}
                         /\ follow => \A p \in AnswersTo(i) : ResumeKey(p) = NoKey
                    /\ extraction = "ok" => rows = RowsOfPages
    BY DEF CompleteMeansExhausted
<1>1. Started = QueryCount
    BY QueryAssumption DEF Started
<1>2. ASSUME NEW q \in 1 .. QueryCount
      PROVE  \E i \in DOMAIN asked :
               /\ asked[i].query = q
               /\ AnswersTo(i) # {}
               /\ follow => \A p \in AnswersTo(i) : ResumeKey(p) = NoKey
    BY <1>1, SameAnswers DEF QueryInv, EveryQueryEnds
<1>3. \A i \in DOMAIN asked : AnswersIn(warc, i) # {}
    BY DEF QueryInv, AnsweredOrFailed, Asking
<1>4. RowsUpTo(warc, Len(warc)) = RowsOfPages
    BY <1>3, ExtractedIsAll DEF QueryInv
<1> QED BY <1>2, <1>4 DEF QueryInv, RowsAreExtracted

-----------------------------------------------------------------------------
(* The steps of a session *)

LEMMA QueryInitially == QueryInit => QueryInv
<1> SUFFICES ASSUME QueryInit PROVE QueryInv
    OBVIOUS
<1>1. /\ follow \in BOOLEAN /\ pending = [i \in 1 .. QueryCount |-> i] /\ current = NoQuery
      /\ asked = <<>> /\ attempt = 0 /\ warc = <<>> /\ failures = {} /\ session = "next"
      /\ extraction = "none"
    BY DEF QueryInit
<1>2. QueryCount \in Nat /\ Attempts \in Nat \ {0}
    BY QueryAssumption
<1>3. QueryTypes
  <2>1. pending \in Seq(1 .. QueryCount)
    <3>1. \A i \in 1 .. QueryCount : i \in 1 .. QueryCount
        OBVIOUS
    <3> QED BY <1>1, <1>2, <3>1
  <2>2. current \in [query : 0 .. QueryCount, next : ResumeKeys \cup {NoKey}, via : Nat, seen : SUBSET ResumeKeys]
      BY <1>1, <1>2 DEF NoQuery
  <2>3. asked \in Seq(Asked) /\ warc \in Seq(Response)
      BY <1>1
  <2>4. failures \subseteq 1 .. Len(asked) /\ attempt \in 0 .. Attempts
      BY <1>1, <1>2
  <2> QED BY <1>1, <2>1, <2>2, <2>3, <2>4 DEF QueryTypes, QueryTypeOK
<1>4. Len(pending) = QueryCount /\ \A k \in DOMAIN pending : pending[k] = k /\ k \in Nat
    BY <1>1, <1>2
<1>5. QueriesInTurn
    BY <1>1, <1>2, <1>4 DEF QueriesInTurn, Started
<1>6. ~ Asking /\ current.next = NoKey /\ DOMAIN asked = {} /\ DOMAIN warc = {}
    BY <1>1 DEF Asking, NoQuery
<1>7. CurrentIsLast
    BY <1>1, <1>6 DEF CurrentIsLast
<1>8. KeysAreFollowed /\ AnsweredOrFailed
    BY <1>6 DEF KeysAreFollowed, AnsweredOrFailed
<1>9. AnsweredOnce
    BY <1>6 DEF AnsweredOnce
<1>10. EveryQueryEnds /\ RowsAreExtracted
  <2>1. Started = 0
      BY <1>2, <1>4 DEF Started
  <2> QED BY <1>1, <2>1 DEF EveryQueryEnds, RowsAreExtracted
<1> QED BY <1>3, <1>5, <1>7, <1>8, <1>9, <1>10 DEF QueryInv

\* A step that neither asks nor answers.
LEMMA QuietKeeps ==
    ASSUME QueryInv, UNCHANGED <<follow, pending, current, asked, warc, failures>>,
           attempt' \in 0 .. Attempts,
           session' \in {"next", "request", "published", "stopped", "extracted"},
           extraction' \in {"none", "ok", "error"},
           session' = "request" => session = "request" /\ attempt' < Attempts,
           session' = "next" => session = "next",
           session' = "extracted" /\ extraction' = "ok" => rows' = RowsUpTo(warc, Len(warc))
    PROVE  QueryInv'
<1>1. /\ QueryTypes /\ QueriesInTurn /\ CurrentIsLast /\ KeysAreFollowed /\ AnsweredOnce
      /\ AnsweredOrFailed /\ EveryQueryEnds
    BY DEF QueryInv
<1>2. QueryTypes'
    BY <1>1 DEF QueryTypes, QueryTypeOK
<1>3. Asking' <=> Asking
    BY DEF Asking
<1>4. Started' = Started
    BY DEF Started
<1>5. QueriesInTurn'
    BY <1>1, <1>4 DEF QueriesInTurn
<1>6. CurrentIsLast'
    BY <1>1, <1>3, <1>4 DEF CurrentIsLast
<1>7. KeysAreFollowed'
    BY <1>1 DEF KeysAreFollowed
<1>8. AnsweredOnce'
    BY <1>1, <1>3 DEF AnsweredOnce
<1>9. AnsweredOrFailed'
    BY <1>1, <1>3 DEF AnsweredOrFailed
<1>10. EveryQueryEnds'
    BY <1>1, <1>4 DEF EveryQueryEnds
<1>11. RowsAreExtracted'
    BY DEF RowsAreExtracted
<1> QED BY <1>2, <1>5, <1>6, <1>7, <1>8, <1>9, <1>10, <1>11 DEF QueryInv

LEMMA EndKeeps ==
    ASSUME QueryInv, Publish \/ StopEarly
    PROVE  QueryInv'
<1>1. /\ UNCHANGED <<follow, pending, current, asked, attempt, warc, failures, extraction>>
      /\ session' \in {"published", "stopped"}
    BY DEF Publish, StopEarly
<1>2. attempt' \in 0 .. Attempts /\ extraction' \in {"none", "ok", "error"}
    BY <1>1 DEF QueryInv, QueryTypes, QueryTypeOK
<1> QED BY <1>1, <1>2, QuietKeeps

LEMMA ExtractKeeps ==
    ASSUME QueryInv, Extract
    PROVE  QueryInv'
<1>1. /\ UNCHANGED <<follow, pending, current, asked, attempt, warc, failures>>
      /\ session' = "extracted" /\ extraction' \in {"none", "ok", "error"}
      /\ extraction' = "ok" => rows' = RowsUpTo(warc, Len(warc))
    BY DEF Extract
<1>2. attempt' \in 0 .. Attempts
    BY <1>1 DEF QueryInv, QueryTypes, QueryTypeOK
<1> QED BY <1>1, <1>2, QuietKeeps

LEMMA QueryStutters ==
    ASSUME QueryInv, UNCHANGED queryVars
    PROVE  QueryInv'
<1>1. UNCHANGED <<follow, pending, current, asked, attempt, warc, failures, session, rows, extraction>>
    BY DEF queryVars
<1>2. /\ attempt' \in 0 .. Attempts /\ extraction' \in {"none", "ok", "error"}
      /\ session' \in {"next", "request", "published", "stopped", "extracted"}
    BY <1>1 DEF QueryInv, QueryTypes, QueryTypeOK
<1>3. session = "request" => attempt < Attempts
    BY DEF QueryInv, CurrentIsLast
<1>4. session = "extracted" /\ extraction = "ok" => rows = RowsUpTo(warc, Len(warc))
    BY DEF QueryInv, RowsAreExtracted
<1> QED BY <1>1, <1>2, <1>3, <1>4, QuietKeeps


LEMMA AskedBefore ==
    QueryTypes /\ QueriesInTurn /\ KeysAreFollowed =>
      /\ Started \in Int /\ \A i \in DOMAIN asked : asked[i].query \in Nat /\ asked[i].query <= Started
<1> SUFFICES ASSUME QueryTypes, QueriesInTurn, KeysAreFollowed
             PROVE  /\ Started \in Int
                    /\ \A i \in DOMAIN asked : asked[i].query \in Nat /\ asked[i].query <= Started
    OBVIOUS
<1>1. PICK a \in Seq(Asked) : a = asked
    BY DEF QueryTypes
<1>2. Started \in Int
  <2>1. Len(pending) \in Nat
      BY DEF QueryTypes, QueryTypeOK
  <2> QED BY <2>1, QueryAssumption DEF Started
<1>3. ASSUME NEW i \in DOMAIN a PROVE a[i].query \in Nat /\ a[i].query <= Started
  <2>1. i \in 1 .. Len(a) /\ Len(a) \in DOMAIN a /\ a # <<>> /\ Len(a) \in Nat
      OBVIOUS
  <2>2. a[i] \in Asked /\ a[Len(a)] \in Asked
      BY <2>1
  <2>3. a[i].query \in Nat /\ a[Len(a)].query \in Nat
      BY <2>2 DEF Asked
  <2>4. a[Len(a)].query = Started
      BY <1>1, <2>1 DEF QueriesInTurn
  <2>5. CASE i = Len(a)
      BY <2>3, <2>4, <2>5
  <2>6. CASE i < Len(a)
    <3>1. a[i].query <= a[Len(a)].query
        BY <1>1, <2>1, <2>6 DEF KeysAreFollowed
    <3> QED BY <2>3, <2>4, <3>1
  <2> QED BY <2>1, <2>5, <2>6
<1> QED BY <1>1, <1>2, <1>3

\* A request is asked: the next of the current query, or the first of the next query.
Asks(q, key, origin, keysSeen) ==
    /\ session = "next" /\ session' = "request" /\ attempt' = 0
    /\ UNCHANGED <<follow, warc, failures, rows, extraction>>
    /\ asked' = Append(asked, [query |-> q, key |-> key, via |-> origin])
    /\ current' = [query |-> q, next |-> NoKey, via |-> 0, seen |-> keysSeen]
    /\ pending' \in Seq(1 .. QueryCount) /\ Len(pending') <= QueryCount
    /\ \A k \in DOMAIN pending' : pending'[k] = Started' + k
    /\ q = Started'
    /\ IF key = NoKey THEN q = Started + 1 /\ current = NoQuery
       ELSE /\ q = Started /\ follow /\ origin = Len(asked) /\ asked # <<>> /\ key \in keysSeen
            /\ \E p \in AnswersIn(warc, Len(asked)) : p # Binary /\ ResumeKey(p) = key
    /\ \A i \in DOMAIN asked :
         asked[i].query = q => asked[i].key # key /\ asked[i].key \in keysSeen \cup {NoKey}

LEMMA AskKeeps ==
    ASSUME QueryInv,
           NEW q \in 1 .. QueryCount, NEW key \in ResumeKeys \cup {NoKey}, NEW origin \in Nat,
           NEW keysSeen \in SUBSET ResumeKeys, Asks(q, key, origin, keysSeen)
    PROVE  QueryInv'
<1>0. /\ session = "next" /\ session' = "request" /\ attempt' = 0
      /\ UNCHANGED <<follow, warc, failures, rows, extraction>>
      /\ asked' = Append(asked, [query |-> q, key |-> key, via |-> origin])
      /\ current' = [query |-> q, next |-> NoKey, via |-> 0, seen |-> keysSeen]
      /\ pending' \in Seq(1 .. QueryCount) /\ Len(pending') <= QueryCount
      /\ \A k \in DOMAIN pending' : pending'[k] = Started' + k
      /\ q = Started'
      /\ IF key = NoKey THEN q = Started + 1 /\ current = NoQuery
         ELSE /\ q = Started /\ follow /\ origin = Len(asked) /\ asked # <<>> /\ key \in keysSeen
              /\ \E p \in AnswersIn(warc, Len(asked)) : p # Binary /\ ResumeKey(p) = key
      /\ \A i \in DOMAIN asked :
           asked[i].query = q => asked[i].key # key /\ asked[i].key \in keysSeen \cup {NoKey}
    BY DEF Asks
<1> USE <1>0
<1>1. /\ QueryTypes /\ QueriesInTurn /\ CurrentIsLast /\ KeysAreFollowed /\ AnsweredOnce
      /\ AnsweredOrFailed /\ EveryQueryEnds /\ QueryTypeOK
    BY DEF QueryInv, QueryTypes
<1>2. PICK x \in Asked : x = [query |-> q, key |-> key, via |-> origin]
    BY DEF Asked
<1>3. PICK a \in Seq(Asked), N \in Nat : a = asked /\ N = Len(a)
  <2>1. Len(asked) \in Nat
      BY <1>1 DEF QueryTypes
  <2> QED BY <1>1, <2>1 DEF QueryTypes
<1>4. PICK b \in Seq(Asked) : b = Append(a, x)
    BY Appended
<1>5. /\ Len(b) = N + 1 /\ b[N + 1] = x /\ b # <<>> /\ N + 1 \in DOMAIN b /\ DOMAIN a = 1 .. N /\ DOMAIN b = 1 .. N + 1
      /\ \A i \in 1 .. N : b[i] = a[i] /\ i \in DOMAIN b
    BY <1>3, <1>4
<1>6. asked' = b /\ x.query = q /\ x.key = key /\ x.via = origin
    BY <1>2, <1>3, <1>4
<1>7. Started \in Int /\ q \in Nat /\ \A i \in 1 .. N : a[i].query \in Nat /\ a[i].query <= Started
  <2>1. Started \in Int /\ \A i \in DOMAIN asked : asked[i].query \in Nat /\ asked[i].query <= Started
      BY <1>1, AskedBefore
  <2>2. q \in Nat
      BY QueryAssumption
  <2> QED BY <1>3, <1>5, <2>1, <2>2
<1>8. Started <= q /\ Asking' /\ ~ Asking
  <2>1. current' # NoQuery /\ current'.next = NoKey
    <3>1. current'.query = q /\ NoQuery.query = 0 /\ q # 0
        BY DEF NoQuery
    <3> QED BY <3>1
  <2>2. Asking'
      BY <2>1 DEF Asking
  <2>3. ~ Asking
      BY <1>1 DEF CurrentIsLast
  <2> QED BY <1>7, <2>2, <2>3
<1>9. QueryTypes'
  <2>1. current' \in [query : 0 .. QueryCount, next : ResumeKeys \cup {NoKey}, via : Nat, seen : SUBSET ResumeKeys]
      BY QueryAssumption
  <2>2. failures' \subseteq 1 .. Len(asked')
    <3>1. failures \subseteq 1 .. N
        BY <1>1, <1>3 DEF QueryTypeOK
    <3> QED BY <3>1, <1>5, <1>6
  <2>3. attempt' \in 0 .. Attempts
      BY QueryAssumption
  <2>4. follow' \in BOOLEAN /\ extraction' \in {"none", "ok", "error"} /\ warc' \in Seq(Response)
      BY <1>1 DEF QueryTypes, QueryTypeOK
  <2>5. QueryTypeOK'
      BY <2>1, <2>2, <2>3, <2>4 DEF QueryTypeOK
  <2> QED BY <2>4, <2>5, <1>6 DEF QueryTypes
<1>10. QueriesInTurn'
  <2>1. b[1].query = 1 /\ b[1].key = NoKey
    <3>1. CASE a = <<>>
      <4>1. N = 0 /\ Started = 0
          BY <1>1, <1>3, <3>1 DEF QueriesInTurn
      <4> QED BY <4>1, <1>3, <1>5, <1>6, <3>1
    <3>2. CASE a # <<>>
      <4>1. 1 \in 1 .. N
          BY <1>3, <3>2
      <4> QED BY <4>1, <1>1, <1>3, <1>5, <3>2 DEF QueriesInTurn
    <3> QED BY <3>1, <3>2
  <2> QED BY <1>5, <1>6, <2>1 DEF QueriesInTurn
<1>11. CurrentIsLast'
  <2>1. ASSUME NEW i \in DOMAIN b, b[i].query = q
        PROVE  b[i].key \in (keysSeen \ {NoKey}) \cup {NoKey}
    <3>1. CASE i = N + 1
        BY <3>1, <1>5, <1>6
    <3>2. CASE i \in 1 .. N
        BY <3>2, <1>3, <1>5, <2>1
    <3> QED BY <1>5, <3>1, <3>2
  <2>2. 0 < Attempts /\ q # 0
      BY QueryAssumption
  <2> QED BY <1>5, <1>6, <1>8, <2>1, <2>2 DEF CurrentIsLast
<1>12. KeysAreFollowed'
  <2>1. ASSUME NEW i \in DOMAIN b, NEW j \in DOMAIN b, i < j
        PROVE  b[i].query <= b[j].query /\ <<b[i].query, b[i].key>> # <<b[j].query, b[j].key>>
    <3>1. i \in 1 .. N
        BY <1>5, <2>1
    <3>2. CASE j \in 1 .. N
        BY <3>1, <3>2, <2>1, <1>1, <1>3, <1>5 DEF KeysAreFollowed
    <3>3. CASE j = N + 1
      <4>1. b[j].query = q /\ b[j].key = key /\ b[i] = a[i]
          BY <1>5, <1>6, <3>1, <3>3
      <4>2. a[i].query <= q
        <5>1. PICK y \in Nat, s \in Int : y = a[i].query /\ s = Started
            BY <1>7, <3>1
        <5>2. y <= s /\ s <= q
            BY <5>1, <1>7, <1>8, <3>1
        <5>3. y <= q
            BY <5>2
        <5> QED BY <5>1, <5>3
      <4>3. a[i].query = q => a[i].key # key
          BY <1>3, <1>5, <3>1
      <4> QED BY <4>1, <4>2, <4>3
    <3> QED BY <1>5, <3>2, <3>3
  <2>2. ASSUME NEW i \in DOMAIN b
        PROVE  KeyIsFollowed(follow, b, warc, i)
    <3>1. CASE i = 1
      <4>1. b[1].query = 1 /\ b[1].key = NoKey
          BY <1>6, <1>10, <1>5 DEF QueriesInTurn
      <4> QED BY <3>1, <4>1 DEF KeyIsFollowed
    <3>2. CASE i # 1 /\ i \in 1 .. N
      <4>1. i - 1 \in 1 .. N /\ i \in DOMAIN asked /\ b[i] = asked[i] /\ b[i - 1] = asked[i - 1]
          BY <3>2, <1>3, <1>5
      <4> QED BY <4>1, <1>1 DEF KeysAreFollowed, KeyIsFollowed
    <3>3. CASE i # 1 /\ i = N + 1
      <4>1. i - 1 = N /\ N \in 1 .. N /\ b[i] = x /\ b[N] = a[N] /\ a # <<>>
          BY <3>3, <1>3, <1>5
      <4>2. a[N].query = Started
          BY <4>1, <1>1, <1>3 DEF QueriesInTurn
      <4> QED BY <4>1, <4>2, <1>3, <1>6 DEF KeyIsFollowed
    <3> QED BY <1>5, <3>1, <3>2, <3>3
  <2>3. \A i, j \in DOMAIN asked' :
          i < j => asked'[i].query <= asked'[j].query /\ <<asked'[i].query, asked'[i].key>> #
                                                        <<asked'[j].query, asked'[j].key>>
      BY <1>6, <2>1
  <2>4. \A i \in DOMAIN asked' : KeyIsFollowed(follow', asked', warc', i)
    <3>1. follow' = follow /\ warc' = warc
        OBVIOUS
    <3> QED BY <1>6, <2>2, <3>1
  <2> QED BY ONLY <2>3, <2>4 DEF KeysAreFollowed
<1>13. AnsweredOnce'
  <2>1. \A k \in DOMAIN warc : warc[k].request \in 1 .. N /\ warc[k].request \in 1 .. N + 1 /\ warc[k].request # N + 1
      BY <1>1, <1>3 DEF AnsweredOnce
  <2>2. AnswersIn(warc, N + 1) = {}
      BY <2>1, AnswersAre, SMTT(30)
  <2> QED BY <1>1, <1>5, <1>6, <2>1, <2>2 DEF AnsweredOnce
<1>14. AnsweredOrFailed'
    BY <1>1, <1>3, <1>5, <1>6, <1>8 DEF AnsweredOrFailed
<1>15. EveryQueryEnds'
  <2>1. ASSUME NEW r \in 1 .. q, r # q
        PROVE  \E i \in DOMAIN b :
                 /\ b[i].query = r
                 /\ \/ i \in failures
                    \/ AnswersIn(warc, i) # {} /\ (follow => \A p \in AnswersIn(warc, i) : ResumeKey(p) = NoKey)
    <3>1. r \in 1 .. Started /\ ~ (r = Started /\ current # NoQuery)
        BY <1>7, <2>1
    <3>2. PICK i \in DOMAIN a :
             /\ a[i].query = r
             /\ \/ i \in failures
                \/ AnswersIn(warc, i) # {} /\ (follow => \A p \in AnswersIn(warc, i) : ResumeKey(p) = NoKey)
        BY <3>1, <1>1, <1>3 DEF EveryQueryEnds
    <3> QED BY <3>2, <1>5
  <2>2. current' # NoQuery
      BY <1>8 DEF Asking
  <2> QED BY <2>1, <2>2, <1>6, ZenonT(30) DEF EveryQueryEnds
<1>16. RowsAreExtracted'
    BY DEF RowsAreExtracted
<1> QED BY <1>9, <1>10, <1>11, <1>12, <1>13, <1>14, <1>15, <1>16 DEF QueryInv


LEMMA ContinueKeeps ==
    ASSUME QueryInv, Continue
    PROVE  QueryInv'
<1>1. /\ QueryTypes /\ QueriesInTurn /\ CurrentIsLast /\ QueryTypeOK
    BY DEF QueryInv, QueryTypes
<1>2. /\ session = "next" /\ current.next # NoKey
      /\ asked' = Append(asked, [query |-> current.query, key |-> current.next, via |-> current.via])
      /\ current' = [current EXCEPT !.next = NoKey, !.via = 0]
      /\ attempt' = 0 /\ session' = "request" /\ UNCHANGED <<follow, pending, warc, failures, rows, extraction>>
    BY DEF Continue, Continues
<1>3. current # NoQuery
    BY <1>2 DEF NoQuery
<1>4. /\ current.query = Started /\ Started # 0 /\ asked # <<>> /\ follow /\ current.via = Len(asked)
      /\ current.next \in current.seen
      /\ \E p \in AnswersIn(warc, Len(asked)) : p # Binary /\ ResumeKey(p) = current.next
    BY <1>1, <1>2, <1>3 DEF CurrentIsLast
<1>5. current \in [query : 0 .. QueryCount, next : ResumeKeys \cup {NoKey}, via : Nat, seen : SUBSET ResumeKeys]
    BY <1>1 DEF QueryTypeOK
<1>6. PICK q \in 1 .. QueryCount, key \in ResumeKeys, origin \in Nat, keysSeen \in SUBSET ResumeKeys :
          q = current.query /\ key = current.next /\ origin = current.via /\ keysSeen = current.seen
    BY <1>2, <1>4, <1>5, QueryAssumption
<1>7. current' = [query |-> q, next |-> NoKey, via |-> 0, seen |-> keysSeen]
    BY <1>2, <1>5, <1>6
<1>8. pending' \in Seq(1 .. QueryCount) /\ Len(pending') <= QueryCount /\ Started' = Started
      /\ \A k \in DOMAIN pending' : pending'[k] = Started' + k
    BY <1>1, <1>2 DEF QueryTypeOK, QueriesInTurn, Started
<1>9. \A i \in DOMAIN asked :
          asked[i].query = q => asked[i].key # key /\ asked[i].key \in keysSeen \cup {NoKey}
    BY <1>1, <1>2, <1>6 DEF CurrentIsLast
<1>10. key # NoKey /\ key \in ResumeKeys \cup {NoKey}
    BY <1>2, <1>6
<1>11. asked' = Append(asked, [query |-> q, key |-> key, via |-> origin])
    BY <1>2, <1>6
<1>12. Asks(q, key, origin, keysSeen)
    BY <1>2, <1>4, <1>6, <1>7, <1>8, <1>9, <1>10, <1>11 DEF Asks
<1> QED BY <1>10, <1>12, AskKeeps

LEMMA StartKeeps ==
    ASSUME QueryInv, StartQuery
    PROVE  QueryInv'
<1>1. /\ QueryTypes /\ QueriesInTurn /\ CurrentIsLast /\ KeysAreFollowed /\ QueryTypeOK
    BY DEF QueryInv, QueryTypes
<1>2. /\ session = "next" /\ current.next = NoKey /\ pending # <<>>
      /\ asked' = Append(asked, [query |-> Head(pending), key |-> NoKey, via |-> 0])
      /\ current' = [NoQuery EXCEPT !.query = Head(pending)]
      /\ pending' = Tail(pending)
      /\ attempt' = 0 /\ session' = "request" /\ UNCHANGED <<follow, warc, failures, rows, extraction>>
    BY DEF StartQuery, Continues
<1>3. current = NoQuery
    BY <1>1, <1>2 DEF CurrentIsLast, Asking
<1>4. PICK q \in 1 .. QueryCount : q = Head(pending)
    BY <1>1, <1>2, Tails DEF QueryTypeOK
<1>5. current' = [query |-> q, next |-> NoKey, via |-> 0, seen |-> {}]
    BY <1>2, <1>4 DEF NoQuery
<1>6. /\ pending' \in Seq(1 .. QueryCount) /\ Len(pending) \in Nat /\ Len(pending') = Len(pending) - 1
      /\ Head(pending) = pending[1] /\ 1 \in DOMAIN pending
      /\ \A k \in DOMAIN Tail(pending) : k + 1 \in DOMAIN pending /\ Tail(pending)[k] = pending[k + 1] /\ k \in Nat
    BY <1>1, <1>2, Tails DEF QueryTypeOK
<1>7. Started' = Started + 1 /\ Started \in Int
    BY <1>6, QueryAssumption DEF Started
<1>8. q = Started + 1 /\ Len(pending') <= QueryCount
  <2>1. pending[1] = Started + 1 /\ Len(pending) <= QueryCount
      BY <1>1, <1>6 DEF QueriesInTurn
  <2> QED BY <1>4, <1>6, <2>1, QueryAssumption
<1>9. ASSUME NEW k \in DOMAIN pending' PROVE pending'[k] = Started' + k
  <2>1. pending'[k] = pending[k + 1] /\ k + 1 \in DOMAIN pending /\ k \in Nat
      BY <1>2, <1>6
  <2>2. pending[k + 1] = Started + (k + 1)
      BY <1>1, <2>1 DEF QueriesInTurn
  <2> QED BY <1>7, <2>1, <2>2
<1>10. \A i \in DOMAIN asked : asked[i].query # q
  <2> TAKE i \in DOMAIN asked
  <2>1. PICK x \in Nat, s \in Int : x = asked[i].query /\ s = Started /\ x <= s
      BY <1>1, AskedBefore
  <2>2. x # s + 1
      BY <2>1
  <2> QED BY <1>8, <2>1, <2>2
<1>11. asked' = Append(asked, [query |-> q, key |-> NoKey, via |-> 0])
    BY <1>2, <1>4
<1>12. q = Started'
    BY <1>7, <1>8
<1>13. Asks(q, NoKey, 0, {})
    BY <1>2, <1>3, <1>5, <1>6, <1>8, <1>9, <1>10, <1>11, <1>12 DEF Asks
<1>14. NoKey \in ResumeKeys \cup {NoKey} /\ 0 \in Nat /\ {} \in SUBSET ResumeKeys
    OBVIOUS
<1> QED BY <1>13, <1>14, AskKeeps

-----------------------------------------------------------------------------
(* The answers of a session *)

IsRecorded(v, w, n, a) == v = Append(w, [request |-> n, answer |-> a])
LEMMA AnswersGrow ==
    ASSUME NEW w \in Seq(Response), NEW n \in Nat, NEW a \in Payloads \cup {Pause}, NEW v,
           IsRecorded(v, w, n, a)
    PROVE  /\ v \in Seq(Response)
           /\ \A i : i # n \/ a = Pause => AnswersIn(v, i) = AnswersIn(w, i)
           /\ a # Pause => AnswersIn(v, n) = AnswersIn(w, n) \cup {a}
<1>1. PICK x \in Response : x = [request |-> n, answer |-> a]
    BY DEF Response
<1>2. PICK M \in Nat : M = Len(w)
    OBVIOUS
<1>3. v = Append(w, x) /\ v \in Seq(Response)
    BY <1>1, Appended DEF IsRecorded
<1>4. /\ DOMAIN w = 1 .. M /\ DOMAIN v = 1 .. M + 1 /\ v[M + 1] = x /\ M + 1 \in DOMAIN v
      /\ \A k \in 1 .. M : v[k] = w[k] /\ k \in DOMAIN v
    BY <1>2, <1>3
<1>5. x.request = n /\ x.answer = a
    BY <1>1
<1>6. ASSUME NEW i, NEW y
      PROVE  y \in AnswersIn(v, i) <=> y \in AnswersIn(w, i) \/ (i = n /\ y = a /\ a # Pause)
  <2>1. ASSUME y \in AnswersIn(v, i)
        PROVE  y \in AnswersIn(w, i) \/ (i = n /\ y = a /\ a # Pause)
    <3>1. PICK k \in DOMAIN v : v[k].request = i /\ v[k].answer = y /\ y # Pause
        BY <2>1 DEF AnswersIn
    <3>2. CASE k = M + 1
        BY <3>1, <3>2, <1>4, <1>5
    <3>3. CASE k \in 1 .. M
        BY <3>1, <3>3, <1>4, AnswersAre
    <3> QED BY <1>4, <3>2, <3>3
  <2>2. ASSUME y \in AnswersIn(w, i)
        PROVE  y \in AnswersIn(v, i)
    <3>1. PICK k \in DOMAIN w : w[k].request = i /\ w[k].answer = y /\ y # Pause
        BY <2>2, AnswersAre
    <3> QED BY <3>1, <1>4, AnswersAre
  <2>3. ASSUME i = n, y = a, a # Pause
        PROVE  y \in AnswersIn(v, i)
      BY <2>3, <1>4, <1>5 DEF AnswersIn
  <2> QED BY <2>1, <2>2, <2>3
<1>7. ASSUME NEW i, i # n \/ a = Pause PROVE AnswersIn(v, i) = AnswersIn(w, i)
  <2>1. \A y : y \in AnswersIn(v, i) <=> y \in AnswersIn(w, i)
      BY <1>6, <1>7
  <2> QED BY <2>1
<1>8. a # Pause => AnswersIn(v, n) = AnswersIn(w, n) \cup {a}
    BY <1>6
<1> QED BY <1>3, <1>7, <1>8


\* The last request gets an answer a; the query goes on (with what it knows and a key), or is asked
\* again, or ends, which is a failure or not.
LEMMA RecordKeeps ==
    ASSUME QueryInv, session = "request", NEW a \in Payloads \cup {Pause},
           Record(a), UNCHANGED <<asked, follow>>,
           a = Pause \/ ~ Asking', Asking' => Asking
    PROVE  /\ warc' \in Seq(Response) /\ KeysAreFollowed' /\ AnsweredOnce'
           /\ \A i : i # Len(asked) \/ a = Pause => AnswersIn(warc', i) = AnswersIn(warc, i)
           /\ a # Pause => AnswersIn(warc', Len(asked)) = {a}
<1>1. QueryTypes /\ CurrentIsLast /\ KeysAreFollowed /\ AnsweredOnce
    BY DEF QueryInv
<1>2. PICK w \in Seq(Response), M \in Nat, n \in Nat : w = warc /\ M = Len(w) /\ n = Len(asked)
  <2>1. warc \in Seq(Response) /\ Len(warc) \in Nat /\ Len(asked) \in Nat
      BY <1>1 DEF QueryTypes
  <2> QED BY <2>1
<1> PICK v : v = warc'
    OBVIOUS
<1>3. v = Append(w, [request |-> n, answer |-> a])
    BY <1>2 DEF Record
<1>4. /\ v \in Seq(Response)
      /\ \A i : i # n \/ a = Pause => AnswersIn(v, i) = AnswersIn(w, i)
      /\ a # Pause => AnswersIn(v, n) = AnswersIn(w, n) \cup {a}
  <2>1. /\ w \in Seq(Response) /\ n \in Nat /\ a \in Payloads \cup {Pause}
        /\ IsRecorded(v, w, n, a)
      BY <1>2, <1>3 DEF IsRecorded
  <2> QED BY ONLY <2>1, AnswersGrow
<1>5. Asking /\ asked # <<>> /\ AnswersIn(w, n) = {}
    BY <1>1, <1>2 DEF CurrentIsLast, AnsweredOnce, Asking
<1>6. PICK x \in Response : x = [request |-> n, answer |-> a]
    BY <1>2 DEF Response
<1>7. /\ DOMAIN w = 1 .. M /\ DOMAIN v = 1 .. M + 1 /\ v[M + 1] = x
      /\ \A k \in 1 .. M : v[k] = w[k]
      /\ x.request = n /\ x.answer = a
    BY <1>2, <1>3, <1>6
<1>8. n \in 1 .. n /\ \A k \in 1 .. M : w[k].request \in 1 .. n
  <2>1. n # 0
      BY <1>1, <1>2, <1>5 DEF QueryTypes
  <2>2. \A k \in DOMAIN warc : warc[k].request \in 1 .. n
      BY <1>1, <1>2 DEF AnsweredOnce
  <2> QED BY <1>2, <1>7, <2>1, <2>2
<1>9. AnsweredOnce'
  <2>1. \A k \in 1 .. M + 1 : v[k].request \in 1 .. n
      BY <1>7, <1>8
  <2>2. ASSUME NEW k \in 1 .. M + 1, NEW l \in 1 .. M + 1, k < l
        PROVE  v[k].request <= v[l].request
    <3>1. k \in 1 .. M
        BY <1>2, <2>2
    <3>2. CASE l = M + 1
        BY <3>1, <3>2, <1>7, <1>8
    <3>3. CASE l \in 1 .. M
        BY <3>1, <3>3, <2>2, <1>1, <1>2, <1>7 DEF AnsweredOnce
    <3> QED BY <3>2, <3>3
  <2>3. ASSUME NEW k \in 1 .. M, v[M + 1].request = v[k].request, Pause \notin {v[k].answer, a}
        PROVE  FALSE
    <3>1. w[k].request = n /\ w[k].answer # Pause /\ k \in DOMAIN w
        BY <1>7, <2>3
    <3> QED BY <3>1, <1>5 DEF AnswersIn
  <2>4. ASSUME NEW k \in 1 .. M + 1, NEW l \in 1 .. M + 1,
               v[k].request = v[l].request, Pause \notin {v[k].answer, v[l].answer}
        PROVE  k = l
    <3>1. CASE k \in 1 .. M /\ l \in 1 .. M
        BY <3>1, <2>4, <1>1, <1>2, <1>7 DEF AnsweredOnce
    <3>2. CASE k = M + 1 /\ l \in 1 .. M
        BY <3>2, <2>3, <2>4, <1>7
    <3>3. CASE l = M + 1 /\ k \in 1 .. M
        BY <3>3, <2>3, <2>4, <1>7
    <3>4. CASE k = M + 1 /\ l = M + 1
        BY <3>4
    <3> QED BY <3>1, <3>2, <3>3, <3>4
  <2>5. Asking' => AnswersIn(v, n) = {}
      BY <1>4, <1>5
  <2> QED BY <1>2, <1>7, <2>1, <2>2, <2>4, <2>5 DEF AnsweredOnce
<1>10. KeysAreFollowed'
  <2>1. ASSUME NEW i \in DOMAIN asked
        PROVE  KeyIsFollowed(follow, asked, v, i)
    <3>1. KeyIsFollowed(follow, asked, w, i)
        BY <1>1, <1>2 DEF KeysAreFollowed
    <3>2. AnswersIn(w, i - 1) \subseteq AnswersIn(v, i - 1)
        BY <1>4
    <3> QED BY <3>1, <3>2 DEF KeyIsFollowed
  <2> QED BY <1>1, <1>2, <2>1 DEF KeysAreFollowed
<1>11. a # Pause => AnswersIn(v, n) = {a}
    BY <1>4, <1>5
<1> QED BY <1>2, <1>4, <1>9, <1>10, <1>11


LEMMA CapturedKeeps ==
    ASSUME QueryInv, NEW a \in Payloads, Captured(a)
    PROVE  QueryInv'
<1>1. /\ QueryTypes /\ QueriesInTurn /\ CurrentIsLast /\ KeysAreFollowed /\ AnsweredOnce
      /\ AnsweredOrFailed /\ EveryQueryEnds /\ QueryTypeOK
    BY DEF QueryInv, QueryTypes
<1>2. /\ session = "request" /\ session' = "next" /\ Record(a) /\ Inspect(a)
      /\ UNCHANGED <<follow, pending, asked, attempt, rows, extraction>>
    BY DEF Captured
<1>3. PICK n \in Nat, q \in Nat : n = Len(asked) /\ q = Started
  <2>1. Len(asked) \in Nat
      BY <1>1 DEF QueryTypes
  <2>2. asked # <<>> /\ current # NoQuery /\ current.query = Started
      BY <1>1, <1>2 DEF CurrentIsLast, Asking
  <2>3. current.query \in Nat
      BY <1>1, QueryAssumption DEF QueryTypeOK
  <2> QED BY <2>1, <2>2, <2>3
<1>4. /\ Asking /\ current # NoQuery /\ current.next = NoKey /\ asked # <<>> /\ current.query = q /\ q # 0
      /\ attempt < Attempts /\ asked[n].query = q
    BY <1>1, <1>2, <1>3 DEF CurrentIsLast, Asking, QueriesInTurn
<1>5. n \in DOMAIN asked /\ DOMAIN asked = 1 .. n
    BY <1>1, <1>3, <1>4 DEF QueryTypes
<1>6. a # Pause /\ NoKey \notin ResumeKeys
    BY QueryAssumption
<1>7. PICK key \in ResumeKeys \cup {NoKey} : key = ResumeKey(a)
    BY KeyTyped
<1>8. PICK c \in [query : 0 .. QueryCount, next : ResumeKeys \cup {NoKey}, via : Nat, seen : SUBSET ResumeKeys] :
          c = current
    BY <1>1 DEF QueryTypeOK
<1> DEFINE ends == /\ current' = NoQuery /\ (follow => key = NoKey \/ n \in failures')
                   /\ failures' \in {failures, failures \cup {n}}
           goesOn == /\ follow /\ a # Binary /\ key # NoKey /\ key \notin c.seen /\ failures' = failures
                     /\ current' = [query |-> q, next |-> key, via |-> n, seen |-> c.seen \cup {key}]
<1>9. ends \/ goesOn
  <2>1. CASE ~ follow
      BY <1>2, <2>1 DEF Inspect
  <2>2. CASE follow /\ a = Binary
      BY <1>2, <1>3, <2>2 DEF Inspect, Failed
  <2>3. CASE follow /\ a # Binary
    <3>1. CASE key = NoKey
      <4>1. current' = NoQuery /\ failures' = failures
        <5>1. NoKey \notin current.seen
            BY <1>6, <1>8
        <5> QED BY <1>2, <1>7, <2>3, <3>1, <5>1 DEF Inspect
      <4> QED BY <4>1, <3>1
    <3>2. CASE key # NoKey /\ key \in c.seen
      <4>1. current' = NoQuery /\ failures' = failures \cup {n}
          BY <1>2, <1>3, <1>7, <1>8, <2>3, <3>2 DEF Inspect, Failed
      <4> QED BY <4>1
    <3>3. CASE key # NoKey /\ key \notin c.seen
      <4>1. failures' = failures
            /\ current' = [current EXCEPT !.seen = @ \cup {key}, !.next = key, !.via = Len(asked)]
          BY <1>2, <1>7, <1>8, <2>3, <3>3 DEF Inspect
      <4>2. c.query = q
          BY <1>4, <1>8
      <4>3. current' = [query |-> q, next |-> key, via |-> n, seen |-> c.seen \cup {key}]
          BY <4>1, <4>2, <1>3, <1>8
      <4> QED BY <2>3, <3>3, <4>1, <4>3
    <3> QED BY <3>1, <3>2, <3>3
  <2> QED BY <2>1, <2>2, <2>3
<1>10. NoQuery.query = 0 /\ NoQuery.next = NoKey /\ NoQuery.via = 0 /\ NoQuery.seen = {}
    BY DEF NoQuery
<1>11. ~ Asking' /\ (goesOn => current' # NoQuery)
  <2>1. CASE ends
      BY <2>1, <1>4, <1>10 DEF Asking
  <2>2. CASE goesOn
    <3>1. current'.next = key /\ key # NoKey
        BY <2>2
    <3> QED BY <3>1, <1>10 DEF Asking
  <2> QED BY <1>9, <2>1, <2>2
<1>12. /\ warc' \in Seq(Response) /\ KeysAreFollowed' /\ AnsweredOnce'
       /\ \A i : i # n => AnswersIn(warc', i) = AnswersIn(warc, i)
       /\ AnswersIn(warc', n) = {a}
  <2>1. UNCHANGED <<asked, follow>> /\ a \in Payloads \cup {Pause}
      BY <1>2
  <2>2. /\ warc' \in Seq(Response) /\ KeysAreFollowed' /\ AnsweredOnce'
        /\ \A i : i # Len(asked) \/ a = Pause => AnswersIn(warc', i) = AnswersIn(warc, i)
        /\ a # Pause => AnswersIn(warc', Len(asked)) = {a}
      BY <1>2, <1>11, <2>1, RecordKeeps
  <2> QED BY <2>2, <1>3, <1>6
<1>13. failures \subseteq failures' /\ failures' \subseteq 1 .. n
  <2>1. failures \subseteq 1 .. n /\ n \in 1 .. n
      BY <1>1, <1>3, <1>5 DEF QueryTypeOK
  <2> QED BY <1>9, <2>1
<1>14. QueryTypes'
  <2>1. current' \in [query : 0 .. QueryCount, next : ResumeKeys \cup {NoKey}, via : Nat, seen : SUBSET ResumeKeys]
    <3>1. CASE ends
        BY <3>1, QueryAssumption DEF NoQuery
    <3>2. CASE goesOn
      <4>1. q \in 0 .. QueryCount /\ key \in ResumeKeys /\ c.seen \cup {key} \in SUBSET ResumeKeys
          BY <1>4, <1>8, <3>2
      <4> QED BY <3>2, <4>1
    <3> QED BY <1>9, <3>1, <3>2
  <2>2. QueryTypeOK'
      BY <1>1, <1>2, <1>3, <1>13, <2>1 DEF QueryTypeOK
  <2> QED BY <1>1, <1>2, <1>12, <2>2 DEF QueryTypes
<1>15. Started' = Started
    BY <1>2 DEF Started
<1>16. QueriesInTurn'
    BY <1>1, <1>2, <1>15 DEF QueriesInTurn
<1>17. CurrentIsLast'
  <2>1. current' # NoQuery => asked' # <<>> /\ current'.query = Started' /\ Started' # 0
      BY <1>2, <1>3, <1>4, <1>9, <1>15
  <2>2. current'.next # NoKey =>
          /\ follow' /\ current'.via = Len(asked') /\ current'.next \in current'.seen
          /\ \E p \in AnswersIn(warc', Len(asked')) : p # Binary /\ ResumeKey(p) = current'.next
      BY <1>2, <1>3, <1>7, <1>9, <1>10, <1>12
  <2>3. ASSUME NEW i \in DOMAIN asked', asked'[i].query = current'.query
        PROVE  asked'[i].key \in (current'.seen \ {current'.next}) \cup {NoKey}
    <3>1. i \in DOMAIN asked /\ asked'[i] = asked[i]
        BY <1>2
    <3>2. CASE ends
      <4>1. asked[i].query = 0
          BY <2>3, <3>1, <3>2, <1>10
      <4>2. asked[i] \in Asked
          BY <1>1, <3>1 DEF QueryTypes
      <4> QED BY <4>1, <4>2 DEF Asked
    <3>3. CASE goesOn
      <4>1. asked[i].query = current.query
          BY <2>3, <3>1, <3>3, <1>4
      <4>2. asked[i].key \in (c.seen \ {NoKey}) \cup {NoKey}
          BY <4>1, <3>1, <1>1, <1>4, <1>8 DEF CurrentIsLast
      <4>3. current'.seen = c.seen \cup {key} /\ current'.next = key
          BY <3>3
      <4> QED BY <3>1, <3>3, <4>2, <4>3
    <3> QED BY <1>9, <3>2, <3>3
  <2> QED BY <1>2, <1>11, <2>1, <2>2, <2>3 DEF CurrentIsLast
<1>18. AnsweredOrFailed'
  <2>1. ASSUME NEW i \in DOMAIN asked PROVE i \in failures' \/ AnswersIn(warc', i) # {}
    <3>1. CASE i = n
        BY <3>1, <1>12
    <3>2. CASE i # n
        BY <3>2, <1>1, <1>3, <1>12, <1>13 DEF AnsweredOrFailed
    <3> QED BY <3>1, <3>2
  <2> QED BY <1>2, <2>1 DEF AnsweredOrFailed
<1>19. EveryQueryEnds'
  <2>1. ASSUME NEW r \in 1 .. q
        PROVE  \/ r = q /\ current' # NoQuery
               \/ \E i \in DOMAIN asked :
                    /\ asked[i].query = r
                    /\ \/ i \in failures'
                       \/ AnswersIn(warc', i) # {} /\ (follow => \A p \in AnswersIn(warc', i) : ResumeKey(p) = NoKey)
    <3>1. CASE r = q /\ goesOn
        BY <3>1, <1>11
    <3>2. CASE r = q /\ ends
      <4>1. n \in failures' \/ (follow => \A p \in AnswersIn(warc', n) : ResumeKey(p) = NoKey)
          BY <3>2, <1>7, <1>12
      <4> QED BY <3>2, <4>1, <1>4, <1>5, <1>12
    <3>3. CASE r # q
      <4>1. PICK i \in DOMAIN asked :
               /\ asked[i].query = r
               /\ \/ i \in failures
                  \/ AnswersIn(warc, i) # {} /\ (follow => \A p \in AnswersIn(warc, i) : ResumeKey(p) = NoKey)
          BY <3>3, <1>1, <1>3 DEF EveryQueryEnds
      <4>2. i # n
          BY <3>3, <4>1, <1>4
      <4> QED BY <4>1, <4>2, <1>12, <1>13
    <3> QED BY <1>9, <3>1, <3>2, <3>3
  <2> QED BY <1>2, <1>3, <1>15, <2>1 DEF EveryQueryEnds
<1>20. RowsAreExtracted'
    BY <1>2 DEF RowsAreExtracted
<1> QED BY <1>12, <1>14, <1>16, <1>17, <1>18, <1>19, <1>20 DEF QueryInv


LEMMA FailsKeeps ==
    ASSUME QueryInv, NEW answered \in BOOLEAN, AttemptFails(answered)
    PROVE  QueryInv'
<1>1. /\ QueryTypes /\ QueriesInTurn /\ CurrentIsLast /\ KeysAreFollowed /\ AnsweredOnce
      /\ AnsweredOrFailed /\ EveryQueryEnds /\ QueryTypeOK
    BY DEF QueryInv, QueryTypes
<1>2. /\ session = "request" /\ attempt' = attempt + 1
      /\ IF answered THEN Record(Pause) ELSE warc' = warc
      /\ IF attempt + 1 < Attempts
         THEN UNCHANGED <<session, current, failures>>
         ELSE session' = "next" /\ current' = NoQuery /\ failures' = failures \cup {Len(asked)}
      /\ UNCHANGED <<follow, pending, asked, rows, extraction>>
    BY DEF AttemptFails, Failed
<1>3. PICK n \in Nat, q \in Nat : n = Len(asked) /\ q = Started
  <2>1. Len(asked) \in Nat
      BY <1>1 DEF QueryTypes
  <2>2. asked # <<>> /\ current # NoQuery /\ current.query = Started
      BY <1>1, <1>2 DEF CurrentIsLast, Asking
  <2>3. current.query \in Nat
      BY <1>1, QueryAssumption DEF QueryTypeOK
  <2> QED BY <2>1, <2>2, <2>3
<1>4. /\ Asking /\ current # NoQuery /\ current.next = NoKey /\ asked # <<>> /\ current.query = q /\ q # 0
      /\ attempt < Attempts /\ asked[n].query = q
    BY <1>1, <1>2, <1>3 DEF CurrentIsLast, Asking, QueriesInTurn
<1>5. n \in DOMAIN asked /\ DOMAIN asked = 1 .. n
    BY <1>1, <1>3, <1>4 DEF QueryTypes
<1> DEFINE again == attempt + 1 < Attempts /\ UNCHANGED <<session, current, failures>>
           over == session' = "next" /\ current' = NoQuery /\ failures' = failures \cup {n}
<1>6. again \/ over
    BY <1>2, <1>3
<1>7. NoQuery.query = 0 /\ NoQuery.next = NoKey /\ NoQuery.via = 0 /\ NoQuery.seen = {}
    BY DEF NoQuery
<1>8. (again => Asking') /\ (over => ~ Asking')
    BY <1>4, <1>7 DEF Asking
<1>9. /\ warc' \in Seq(Response) /\ KeysAreFollowed' /\ AnsweredOnce'
      /\ \A i : AnswersIn(warc', i) = AnswersIn(warc, i)
  <2>1. CASE answered
    <3>1. UNCHANGED <<asked, follow>> /\ Pause \in Payloads \cup {Pause} /\ Record(Pause)
        BY <1>2, <2>1
    <3> QED BY <1>2, <1>4, <3>1, RecordKeeps
  <2>2. CASE ~ answered
    <3>1. warc' = warc /\ follow' = follow /\ asked' = asked
        BY <1>2, <2>2
    <3>2. AnsweredOnce'
        BY <1>1, <1>4, <3>1 DEF AnsweredOnce
    <3>3. KeysAreFollowed'
        BY <1>1, <3>1 DEF KeysAreFollowed
    <3> QED BY <1>1, <3>1, <3>2, <3>3 DEF QueryTypes
  <2> QED BY <2>1, <2>2
<1>10. failures \subseteq failures' /\ failures' \subseteq 1 .. n
  <2>1. failures \subseteq 1 .. n /\ n \in 1 .. n
      BY <1>1, <1>3, <1>5 DEF QueryTypeOK
  <2> QED BY <1>6, <2>1
<1>11. QueryTypes'
  <2>1. current' \in [query : 0 .. QueryCount, next : ResumeKeys \cup {NoKey}, via : Nat, seen : SUBSET ResumeKeys]
    <3>1. CASE over
        BY <3>1, QueryAssumption DEF NoQuery
    <3>2. CASE again
        BY <3>2, <1>1 DEF QueryTypeOK
    <3> QED BY <1>6, <3>1, <3>2
  <2>2. attempt' \in 0 .. Attempts
    <3>1. attempt \in 0 .. Attempts /\ Attempts \in Nat
        BY <1>1, QueryAssumption DEF QueryTypeOK
    <3> QED BY <1>2, <1>4, <3>1
  <2>3. session' \in {"next", "request", "published", "stopped", "extracted"}
      BY <1>2, <1>6
  <2>4. QueryTypeOK'
      BY <1>1, <1>2, <1>3, <1>10, <2>1, <2>2, <2>3 DEF QueryTypeOK
  <2> QED BY <1>1, <1>2, <1>9, <2>4 DEF QueryTypes
<1>12. Started' = Started
    BY <1>2 DEF Started
<1>13. QueriesInTurn'
    BY <1>1, <1>2, <1>12 DEF QueriesInTurn
<1>14. CurrentIsLast'
  <2>1. CASE again
    <3>1. session' = session /\ current' = current /\ attempt' < Attempts /\ asked' = asked /\ follow' = follow
        BY <1>2, <2>1
    <3>2. current'.next = NoKey /\ session' = "request" /\ Asking'
        BY <1>2, <1>4, <1>8, <2>1, <3>1
    <3> QED BY <1>1, <1>12, <3>1, <3>2 DEF CurrentIsLast
  <2>2. CASE over
    <3>1. \A i \in DOMAIN asked : asked[i].query # 0
      <4> TAKE i \in DOMAIN asked
      <4>1. asked[i] \in Asked
          BY <1>1 DEF QueryTypes
      <4> QED BY <4>1 DEF Asked
    <3> QED BY <1>2, <1>7, <1>8, <2>2, <3>1 DEF CurrentIsLast
  <2> QED BY <1>6, <2>1, <2>2
<1>15. AnsweredOrFailed'
  <2>1. ASSUME NEW i \in DOMAIN asked
        PROVE  i \in failures' \/ AnswersIn(warc', i) # {} \/ (i = n /\ Asking')
    <3>1. i \in failures \/ AnswersIn(warc, i) # {} \/ i = n
        BY <1>1, <1>3 DEF AnsweredOrFailed
    <3> QED BY <3>1, <1>6, <1>8, <1>9, <1>10
  <2> QED BY <1>2, <1>3, <2>1 DEF AnsweredOrFailed
<1>16. EveryQueryEnds'
  <2>1. ASSUME NEW r \in 1 .. q
        PROVE  \/ r = q /\ current' # NoQuery
               \/ \E i \in DOMAIN asked :
                    /\ asked[i].query = r
                    /\ \/ i \in failures'
                       \/ AnswersIn(warc', i) # {} /\ (follow => \A p \in AnswersIn(warc', i) : ResumeKey(p) = NoKey)
    <3>1. CASE r = q /\ again
        BY <3>1, <1>4
    <3>2. CASE r = q /\ over
      <4>1. n \in failures'
          BY <3>2
      <4> QED BY <3>2, <4>1, <1>4, <1>5
    <3>3. CASE r # q
      <4>1. PICK i \in DOMAIN asked :
               /\ asked[i].query = r
               /\ \/ i \in failures
                  \/ AnswersIn(warc, i) # {} /\ (follow => \A p \in AnswersIn(warc, i) : ResumeKey(p) = NoKey)
          BY <3>3, <1>1, <1>3 DEF EveryQueryEnds
      <4>2. AnswersIn(warc', i) = AnswersIn(warc, i)
          BY <1>9, Zenon
      <4>3. i \in failures => i \in failures'
          BY <1>10
      <4>4. \/ i \in failures'
            \/ AnswersIn(warc', i) # {} /\ (follow => \A p \in AnswersIn(warc', i) : ResumeKey(p) = NoKey)
          BY <4>1, <4>2, <4>3
      <4> QED BY <4>1, <4>4, Zenon
    <3> QED BY <1>6, <3>1, <3>2, <3>3
  <2> QED BY <1>2, <1>3, <1>12, <2>1 DEF EveryQueryEnds
<1>17. RowsAreExtracted'
  <2>1. session' # "extracted"
      BY <1>2, <1>6
  <2> QED BY <2>1 DEF RowsAreExtracted
<1> QED BY <1>9, <1>11, <1>13, <1>14, <1>15, <1>16, <1>17 DEF QueryInv

LEMMA QueryKept == QueryInv /\ [QueryNext]_queryVars => QueryInv'
<1> SUFFICES ASSUME QueryInv, [QueryNext]_queryVars PROVE QueryInv'
    OBVIOUS
<1>1. CASE Continue
    BY <1>1, ContinueKeeps
<1>2. CASE StartQuery
    BY <1>2, StartKeeps
<1>3. CASE Publish \/ StopEarly
    BY <1>3, EndKeeps
<1>4. ASSUME NEW payload \in Payloads, Captured(payload) PROVE QueryInv'
    BY <1>4, CapturedKeeps
<1>5. ASSUME NEW answered \in BOOLEAN, AttemptFails(answered) PROVE QueryInv'
    BY <1>5, FailsKeeps
<1>6. CASE Extract
    BY <1>6, ExtractKeeps
<1>7. CASE UNCHANGED queryVars
    BY <1>7, QueryStutters
<1> QED BY <1>1, <1>2, <1>3, <1>4, <1>5, <1>6, <1>7 DEF QueryNext

\* A session that reports no failure has asked every query to its last page, each key once, and the
\* rows extracted from its archive are all that the pages hold, in their order, for any number of
\* queries, any server and however often a request is tried (QueryDriver, extract_warc).
THEOREM QuerySessionIsComplete == QuerySpec => []SessionIsComplete
<1>1. QueryInit => QueryInv
    BY QueryInitially
<1>2. QueryInv /\ [QueryNext]_queryVars => QueryInv'
    BY QueryKept
<1>3. QueryInv => SessionIsComplete
    BY SessionFromInv
<1> QED BY <1>1, <1>2, <1>3, PTL DEF QuerySpec

=============================================================================
