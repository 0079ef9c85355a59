--------------------------- MODULE LogSearchProofs ---------------------------
(***************************************************************************)
(* Proofs about the evidence of an analysis, for any index, any limits and *)
(* any number of lines.                                                    *)
(***************************************************************************)
EXTENDS LogSearch, FiniteSetTheorems, SequenceTheorems, WellFoundedInduction, TLAPS

-----------------------------------------------------------------------------
(* Induction and folds.                                                    *)

\* A set of numbers with zero and the successor of each of its members holds
\* all of them.
LEMMA Induction ==
  ASSUME NEW S, 0 \in S, \A k \in Nat : k \in S => k + 1 \in S
  PROVE  Nat \subseteq S
<1> DEFINE R == OpToRel(<, Nat)
           T == Nat \ S
<1>1. \A x, y \in Nat : x < y => <<x, y>> \in R
  BY DEF OpToRel
<1>2. IsWellFoundedOn(R, Nat)
  BY NatLessThanWellFounded
<1> HIDE DEF R
<1> SUFFICES ASSUME T # {} PROVE FALSE
  OBVIOUS
<1>3. PICK x \in T : \A y \in T : ~ (<<y, x>> \in R)
  <2> T \subseteq Nat
    OBVIOUS
  <2> HIDE DEF T
  <2> QED
    BY <1>2, WFMin
<1>4. x \in Nat /\ x # 0
  OBVIOUS
<1>5. x - 1 \in T
  BY <1>4
<1>6. <<x - 1, x>> \in R
  BY <1>1, <1>4
<1> HIDE DEF T
<1> QED
  BY <1>3, <1>5, <1>6

\* A nonempty set of positions has a last one.
LEMMA LastOf ==
  ASSUME NEW n \in Nat, NEW S \in SUBSET (1 .. n), S # {}
  PROVE  Max(S) \in S /\ \A y \in S : y <= Max(S)
<1> DEFINE P(k) == \A T \in SUBSET (1 .. k) : T # {} => \E m \in T : \A y \in T : y <= m
           H == {k \in Nat : P(k)}
<1>1. 0 \in H
  <2>1. 1 .. 0 = {}
    OBVIOUS
  <2> QED
    BY <2>1
<1>2. ASSUME NEW k \in Nat, k \in H PROVE k + 1 \in H
  <2> SUFFICES ASSUME NEW T \in SUBSET (1 .. k + 1), T # {}
               PROVE  \E m \in T : \A y \in T : y <= m
    OBVIOUS
  <2>1. CASE k + 1 \in T
    BY <2>1
  <2>2. CASE k + 1 \notin T
    <3>1. T \in SUBSET (1 .. k)
      BY <2>2
    <3> QED
      BY <1>2, <3>1
  <2> QED
    BY <2>1, <2>2
<1>3. n \in H
  <2> HIDE DEF H
  <2> QED
    BY <1>1, <1>2, Induction
<1>4. \E m \in S : \A y \in S : m >= y
  <2>1. PICK m \in S : \A y \in S : y <= m
    BY <1>3
  <2> QED
    BY <2>1
<1> QED
  BY <1>4 DEF Max

\* The last position is the last of every set it is in.
LEMMA LastOfAll ==
  ASSUME NEW k \in Nat, NEW S \in SUBSET (1 .. k + 1), k + 1 \in S
  PROVE  Max(S) = k + 1
<1>1. Max(S) \in S /\ k + 1 <= Max(S)
  BY LastOf, k + 1 \in Nat
<1>2. Max(S) \in 1 .. k + 1
  BY <1>1
<1> QED
  BY <1>1, <1>2

\* it gives every set of positions of s the fold of the values there.
FoldsOver(it, A, base, F, n, s) ==
  /\ it \in [SUBSET (1 .. n) -> A]
  /\ it = [x \in SUBSET (1 .. n) |->
             IF x = {} THEN base ELSE F[<<it[x \ {Max(x)}], s[Max(x)]>>]]

\* There is such a function: folds are well defined.
LEMMA FoldExists ==
  ASSUME NEW A, NEW B, NEW base \in A, NEW F \in [A \X B -> A],
         NEW n \in Nat, NEW s \in [1 .. n -> B]
  PROVE  \E it : FoldsOver(it, A, base, F, n, s)
<1> DEFINE Built(it, k) ==
             /\ it \in [SUBSET (1 .. k) -> A]
             /\ \A x \in SUBSET (1 .. k) :
                  it[x] = IF x = {} THEN base ELSE F[<<it[x \ {Max(x)}], s[Max(x)]>>]
           P(k) == k <= n => \E it : Built(it, k)
           H == {k \in Nat : P(k)}
<1> HIDE DEF Built
<1>1. 0 \in H
  <2> DEFINE it == [x \in SUBSET (1 .. 0) |-> base]
  <2>1. \A x \in SUBSET (1 .. 0) : x = {}
    <3>1. 1 .. 0 = {}
      OBVIOUS
    <3> QED
      BY <3>1
  <2>2. Built(it, 0)
    BY <2>1 DEF Built
  <2>3. P(0)
    <3> HIDE DEF it
    <3> QED
      BY <2>2
  <2> QED
    BY <2>3
<1>2. ASSUME NEW k \in Nat, k \in H PROVE k + 1 \in H
  <2> SUFFICES ASSUME k + 1 <= n
               PROVE  \E it : Built(it, k + 1)
    OBVIOUS
  <2>0. P(k) /\ k <= n
    BY <1>2
  <2>1. PICK it : Built(it, k)
    BY <2>0
  <2> DEFINE new == [x \in SUBSET (1 .. k + 1) |->
                      IF k + 1 \in x THEN F[<<it[x \ {k + 1}], s[k + 1]>>] ELSE it[x]]
  <2>2. \A x \in SUBSET (1 .. k + 1) :
          /\ k + 1 \in x => x \ {k + 1} \in SUBSET (1 .. k)
          /\ k + 1 \notin x => x \in SUBSET (1 .. k)
    OBVIOUS
  <2>3. s[k + 1] \in B
    OBVIOUS
  <2>4. new \in [SUBSET (1 .. k + 1) -> A]
    BY <2>1, <2>2, <2>3 DEF Built
  <2>5. ASSUME NEW x \in SUBSET (1 .. k + 1)
        PROVE  new[x] = IF x = {} THEN base ELSE F[<<new[x \ {Max(x)}], s[Max(x)]>>]
    <3>1. CASE k + 1 \in x
      <4>1. Max(x) = k + 1
        BY <3>1, LastOfAll
      <4>2. new[x \ {k + 1}] = it[x \ {k + 1}]
        BY <2>2, <3>1
      <4> QED
        BY <3>1, <4>1, <4>2
    <3>2. CASE k + 1 \notin x /\ x # {}
      <4>1. x \in SUBSET (1 .. k) /\ Max(x) \in x
        BY <2>2, <3>2, LastOf
      <4>2. new[x \ {Max(x)}] = it[x \ {Max(x)}]
        BY <3>2, <4>1
      <4> QED
        BY <2>1, <3>2, <4>1, <4>2 DEF Built
    <3>3. CASE x = {}
      <4>1. x \in SUBSET (1 .. k) /\ k + 1 \notin x
        BY <3>3
      <4> QED
        BY <2>1, <3>3, <4>1 DEF Built
    <3> QED
      BY <3>1, <3>2, <3>3
  <2> HIDE DEF new
  <2> QED
    BY <2>4, <2>5 DEF Built
<1>3. n \in H
  <2> HIDE DEF H
  <2> QED
    BY <1>1, <1>2, Induction
<1>4. P(n)
  BY <1>3
<1>5. PICK it : Built(it, n)
  BY <1>4
<1> QED
  BY <1>5 DEF Built, FoldsOver

\* The empty sequence has no positions.
LEMMA NoPositions ==
  Len(<<>>) = 0 /\ 1 .. 0 = {}
<1>1. Len(<<>>) = 0
  OBVIOUS
<1>2. 1 .. 0 = {}
  OBVIOUS
<1> QED
  BY <1>1, <1>2

\* A sequence is one of the values it holds.
LEMMA NarrowSeq ==
  ASSUME NEW A, NEW B, NEW s \in Seq(A), \A i \in 1 .. Len(s) : s[i] \in B
  PROVE  s \in Seq(B)
<1>1. Len(s) \in Nat /\ s \in [1 .. Len(s) -> A]
  OBVIOUS
<1>2. s \in [1 .. Len(s) -> B]
  BY <1>1
<1> QED
  BY <1>1, <1>2, SeqDef

\* The positions up to a bound, without the bound.
LEMMA BelowOf ==
  ASSUME NEW n \in Nat, NEW k \in 1 .. n
  PROVE  /\ Max(1 .. k) = k /\ 1 .. k # {}
         /\ (1 .. k) \ {k} = 1 .. k - 1
         /\ 1 .. k \in SUBSET (1 .. n)
<1>1. PICK j \in Nat : k = j + 1
  <2>1. k - 1 \in Nat /\ k = (k - 1) + 1
    OBVIOUS
  <2> QED
    BY <2>1
<1>2. Max(1 .. k) = k
  <2>1. 1 .. j + 1 \in SUBSET (1 .. j + 1) /\ j + 1 \in 1 .. j + 1
    OBVIOUS
  <2> QED
    BY <1>1, <2>1, LastOfAll
<1> QED
  BY <1>2

\* There are k first positions.
LEMMA FirstPositions ==
  ASSUME NEW k \in Nat
  PROVE  IsFiniteSet(1 .. k) /\ Cardinality(1 .. k) = k
<1>1. IsFiniteSet(1 .. k) /\ Cardinality(1 .. k) = IF 1 > k THEN 0 ELSE k - 1 + 1
  BY FS_Interval
<1> QED
  BY <1>1

\* A list with a line inserted after the c-th.
LEMMA InsertedAt ==
  ASSUME NEW E, NEW s \in Seq(E), NEW a \in E, NEW c \in 0 .. Len(s)
  PROVE  /\ InsertAt(s, c + 1, a) \in Seq(E)
         /\ Len(InsertAt(s, c + 1, a)) = Len(s) + 1
         /\ \A p \in 1 .. Len(s) + 1 :
              InsertAt(s, c + 1, a)[p] =
                IF p <= c THEN s[p] ELSE IF p = c + 1 THEN a ELSE s[p - 1]
<1> DEFINE x == SubSeq(s, 1, c)
           y == SubSeq(s, c + 1, Len(s))
<1>1. /\ x \in Seq(E) /\ Len(x) = c
      /\ \A p \in 1 .. c : x[p] = s[p]
  OBVIOUS
<1>2. /\ y \in Seq(E) /\ Len(y) = Len(s) - c
      /\ \A p \in 1 .. Len(s) - c : y[p] = s[c + p]
  OBVIOUS
<1>3. InsertAt(s, c + 1, a) = x \o <<a>> \o y
  <2>1. (c + 1) - 1 = c
    OBVIOUS
  <2>2. InsertAt(s, c + 1, a) =
          SubSeq(s, 1, (c + 1) - 1) \o <<a>> \o SubSeq(s, c + 1, Len(s))
    BY DEF InsertAt
  <2> QED
    BY <2>1, <2>2
<1> HIDE DEF x, y
<1>4. /\ x \o <<a>> \in Seq(E) /\ Len(x \o <<a>>) = c + 1
      /\ \A p \in 1 .. c + 1 : (x \o <<a>>)[p] = IF p <= c THEN s[p] ELSE a
  BY <1>1
<1> DEFINE z == x \o <<a>>
<1>5. z \o y \in Seq(E) /\ Len(z \o y) = Len(s) + 1
  <2> HIDE DEF z
  <2> QED
    BY <1>2, <1>4 DEF z
<1>6. ASSUME NEW p \in 1 .. Len(s) + 1
      PROVE  (z \o y)[p] = IF p <= c THEN s[p] ELSE IF p = c + 1 THEN a ELSE s[p - 1]
  <2>1. CASE p <= c + 1
    BY <1>2, <1>4, <2>1
  <2>2. CASE p > c + 1
    <3>1. (z \o y)[p] = y[p - (c + 1)]
      BY <1>2, <1>4, <2>2
    <3>2. p - (c + 1) \in 1 .. Len(s) - c /\ c + (p - (c + 1)) = p - 1
      BY <2>2
    <3>3. y[p - (c + 1)] = s[c + (p - (c + 1))]
      BY <1>2, <3>2
    <3>4. ~(p <= c) /\ p # c + 1
      BY <2>2
    <3> QED
      BY <3>1, <3>2, <3>3, <3>4
  <2>3. p <= c + 1 \/ p > c + 1
    OBVIOUS
  <2> QED
    BY <2>1, <2>2, <2>3
<1> DEFINE w == z \o y
<1>7. InsertAt(s, c + 1, a) = w
  BY <1>3
<1>8. w \in Seq(E) /\ Len(w) = Len(s) + 1
  BY <1>5
<1>9. \A p \in 1 .. Len(s) + 1 :
        w[p] = IF p <= c THEN s[p] ELSE IF p = c + 1 THEN a ELSE s[p - 1]
  BY <1>6
<1> HIDE DEF w
<1> QED
  BY <1>7, <1>8, <1>9

\* A list of lines with their counts.
Row == [msg : Shown, n : Nat]

\* Where a line is put is within the list.
LEMMA PlaceOf ==
  ASSUME NEW s \in Seq(Row), NEW a \in Row
  PROVE  /\ Cardinality({i \in DOMAIN s : s[i].n >= a.n}) \in 0 .. Len(s)
         /\ Place(s, a) \in Seq(Row)
<1>1. IsFiniteSet(1 .. Len(s)) /\ Cardinality(1 .. Len(s)) = Len(s)
  BY FirstPositions, Len(s) \in Nat
<1>2. {i \in DOMAIN s : s[i].n >= a.n} \in SUBSET (1 .. Len(s))
  OBVIOUS
<1>3. Cardinality({i \in DOMAIN s : s[i].n >= a.n}) \in 0 .. Len(s)
  BY <1>1, <1>2, FS_Subset, FS_CardinalityType
<1> QED
  BY <1>3, InsertedAt DEF Place

\* Counting a line keeps the list one of lines with their counts.
LEMMA CountedTyped ==
  ASSUME LogSearchAssumption, NEW l \in Seq(Row), NEW d \in Docs
  PROVE  Counted(l, d) \in Seq(Row)
<1>1. Cut[d.msg] \in Shown
  BY DEF LogSearchAssumption
<1>2. ASSUME NEW i \in DOMAIN l PROVE l[i] \in Row /\ [l[i] EXCEPT !.n = @ + 1] \in Row
  <2>1. l[i] \in Row
    OBVIOUS
  <2> QED
    BY <2>1 DEF Row
<1> DEFINE m == Cut[d.msg]
<1>3. CASE \E i \in DOMAIN l : l[i].msg = m
  <2>1. Counted(l, d) = [i \in DOMAIN l |->
           IF l[i].msg = m THEN [l[i] EXCEPT !.n = @ + 1] ELSE l[i]]
    BY <1>3 DEF Counted, CountedFrom
  <2> QED
    BY <1>2, <2>1
<1>4. CASE ~ \E i \in DOMAIN l : l[i].msg = m
  <2>1. Counted(l, d) = Append(l, [msg |-> m, n |-> 1])
    BY <1>4 DEF Counted, CountedFrom
  <2>2. [msg |-> m, n |-> 1] \in Row
    BY <1>1 DEF Row
  <2> QED
    BY <2>1, <2>2
<1> QED
  BY <1>3, <1>4

\* The lines of the host are taken from the window one after another.
LEMMA NewestRuns ==
  ASSUME window \in Seq(Docs)
  PROVE  \E T : /\ T[0] = <<>>
                /\ \A k \in 1 .. Len(window) : T[k] = NewestFirst(T[k - 1], window[k])
                /\ T[Len(window)] = FoldLeft(NewestFirst, <<>>, window)
<1> DEFINE n == Len(window)
           F == [p \in Seq(Docs) \X Docs |-> NewestFirst(p[1], p[2])]
           Eqn(it) == it = [x \in SUBSET DOMAIN window |->
                              IF x = {} THEN <<>>
                              ELSE NewestFirst(it[x \ {Max(x)}], window[Max(x)])]
<1>1. F \in [Seq(Docs) \X Docs -> Seq(Docs)]
  BY DEF NewestFirst
<1>2. n \in Nat /\ window \in [1 .. n -> Docs] /\ DOMAIN window = 1 .. n /\ <<>> \in Seq(Docs)
  OBVIOUS
<1> HIDE DEF n
<1>3. PICK it : FoldsOver(it, Seq(Docs), <<>>, F, n, window)
  <2> HIDE DEF F
  <2> QED
    BY <1>1, <1>2, FoldExists
<1> HIDE DEF F
<1>4. Eqn(it)
  <2>1. ASSUME NEW x \in SUBSET (1 .. n), x # {}
        PROVE  F[<<it[x \ {Max(x)}], window[Max(x)]>>] =
                 NewestFirst(it[x \ {Max(x)}], window[Max(x)])
    <3>1. Max(x) \in 1 .. n
      BY <1>2, <2>1, LastOf
    <3>2. it[x \ {Max(x)}] \in Seq(Docs) /\ window[Max(x)] \in Docs
      BY <1>2, <1>3, <3>1 DEF FoldsOver
    <3> QED
      BY <3>2 DEF F
  <2> QED
    BY <1>2, <1>3, <2>1 DEF FoldsOver
<1>5. PICK f : Eqn(f) /\ FoldLeft(NewestFirst, <<>>, window) = f[DOMAIN window]
  BY <1>4 DEF FoldLeft, MapThenFoldSet
<1> DEFINE T == [k \in 0 .. n |-> f[1 .. k]]
<1>t. \A k \in 0 .. n : T[k] = f[1 .. k]
  OBVIOUS
<1> HIDE DEF T
<1>6. T[0] = <<>>
  <2>1. 1 .. 0 = {} /\ {} \in SUBSET (1 .. n)
    OBVIOUS
  <2>2. f[{}] = <<>> /\ 0 \in 0 .. n
    BY <1>2, <1>5, <2>1
  <2> QED
    BY <1>t, <2>1, <2>2
<1>7. ASSUME NEW k \in 1 .. n PROVE T[k] = NewestFirst(T[k - 1], window[k])
  <2>1. k \in 0 .. n /\ k - 1 \in 0 .. n
    BY <1>2
  <2>2. f[1 .. k] = NewestFirst(f[(1 .. k) \ {Max(1 .. k)}], window[Max(1 .. k)])
    BY <1>2, <1>5, BelowOf
  <2> QED
    BY <1>2, <1>t, <2>1, <2>2, BelowOf
<1>8. T[n] = FoldLeft(NewestFirst, <<>>, window)
  <2>1. n \in 0 .. n
    BY <1>2
  <2> QED
    BY <1>2, <1>5, <1>t, <2>1
<1> QED
  BY <1>6, <1>7, <1>8 DEF n

\* The hits are counted one after another.
LEMMA CountedRuns ==
  ASSUME LogSearchAssumption, hits \in Seq(Docs)
  PROVE  \E T : /\ T[0] = <<>>
                /\ \A k \in 1 .. Len(hits) : T[k] = Counted(T[k - 1], hits[k])
                /\ T[Len(hits)] = FoldLeft(Counted, <<>>, hits)
<1> DEFINE n == Len(hits)
           F == [p \in Seq(Row) \X Docs |-> Counted(p[1], p[2])]
           Eqn(it) == it = [x \in SUBSET DOMAIN hits |->
                              IF x = {} THEN <<>>
                              ELSE Counted(it[x \ {Max(x)}], hits[Max(x)])]
<1>1. F \in [Seq(Row) \X Docs -> Seq(Row)]
  BY CountedTyped
<1>2. n \in Nat /\ hits \in [1 .. n -> Docs] /\ DOMAIN hits = 1 .. n /\ <<>> \in Seq(Row)
  OBVIOUS
<1> HIDE DEF n
<1>3. PICK it : FoldsOver(it, Seq(Row), <<>>, F, n, hits)
  <2> HIDE DEF F
  <2> QED
    BY <1>1, <1>2, FoldExists
<1> HIDE DEF F
<1>4. Eqn(it)
  <2>1. ASSUME NEW x \in SUBSET (1 .. n), x # {}
        PROVE  F[<<it[x \ {Max(x)}], hits[Max(x)]>>] =
                 Counted(it[x \ {Max(x)}], hits[Max(x)])
    <3>1. Max(x) \in 1 .. n
      BY <1>2, <2>1, LastOf
    <3>2. it[x \ {Max(x)}] \in Seq(Row) /\ hits[Max(x)] \in Docs
      BY <1>2, <1>3, <3>1 DEF FoldsOver
    <3> QED
      BY <3>2 DEF F
  <2> QED
    BY <1>2, <1>3, <2>1 DEF FoldsOver
<1>5. PICK f : Eqn(f) /\ FoldLeft(Counted, <<>>, hits) = f[DOMAIN hits]
  BY <1>4 DEF FoldLeft, MapThenFoldSet
<1> DEFINE T == [k \in 0 .. n |-> f[1 .. k]]
<1>t. \A k \in 0 .. n : T[k] = f[1 .. k]
  OBVIOUS
<1> HIDE DEF T
<1>6. T[0] = <<>>
  <2>1. 1 .. 0 = {} /\ {} \in SUBSET (1 .. n)
    OBVIOUS
  <2>2. f[{}] = <<>> /\ 0 \in 0 .. n
    BY <1>2, <1>5, <2>1
  <2> QED
    BY <1>t, <2>1, <2>2
<1>7. ASSUME NEW k \in 1 .. n PROVE T[k] = Counted(T[k - 1], hits[k])
  <2>1. k \in 0 .. n /\ k - 1 \in 0 .. n
    BY <1>2
  <2>2. f[1 .. k] = Counted(f[(1 .. k) \ {Max(1 .. k)}], hits[Max(1 .. k)])
    BY <1>2, <1>5, BelowOf
  <2> QED
    BY <1>2, <1>t, <2>1, <2>2, BelowOf
<1>8. T[n] = FoldLeft(Counted, <<>>, hits)
  <2>1. n \in 0 .. n
    BY <1>2
  <2> QED
    BY <1>2, <1>5, <1>t, <2>1
<1> QED
  BY <1>6, <1>7, <1>8 DEF n

\* The counted texts are sorted in one after another.
LEMMA RankedRuns ==
  ASSUME NEW s \in Seq(Row)
  PROVE  \E T : /\ T[0] = <<>>
                /\ \A k \in 1 .. Len(s) : T[k] = Place(T[k - 1], s[k])
                /\ T[Len(s)] = FoldLeft(Place, <<>>, s)
<1> DEFINE n == Len(s)
           F == [p \in Seq(Row) \X Row |-> Place(p[1], p[2])]
           Eqn(it) == it = [x \in SUBSET DOMAIN s |->
                              IF x = {} THEN <<>>
                              ELSE Place(it[x \ {Max(x)}], s[Max(x)])]
<1>1. F \in [Seq(Row) \X Row -> Seq(Row)]
  BY PlaceOf
<1>2. n \in Nat /\ s \in [1 .. n -> Row] /\ DOMAIN s = 1 .. n /\ <<>> \in Seq(Row)
  OBVIOUS
<1> HIDE DEF n
<1>3. PICK it : FoldsOver(it, Seq(Row), <<>>, F, n, s)
  <2> HIDE DEF F
  <2> QED
    BY <1>1, <1>2, FoldExists
<1> HIDE DEF F
<1>4. Eqn(it)
  <2>1. ASSUME NEW x \in SUBSET (1 .. n), x # {}
        PROVE  F[<<it[x \ {Max(x)}], s[Max(x)]>>] =
                 Place(it[x \ {Max(x)}], s[Max(x)])
    <3>1. Max(x) \in 1 .. n
      BY <1>2, <2>1, LastOf
    <3>2. it[x \ {Max(x)}] \in Seq(Row) /\ s[Max(x)] \in Row
      BY <1>2, <1>3, <3>1 DEF FoldsOver
    <3> QED
      BY <3>2 DEF F
  <2> QED
    BY <1>2, <1>3, <2>1 DEF FoldsOver
<1>5. PICK f : Eqn(f) /\ FoldLeft(Place, <<>>, s) = f[DOMAIN s]
  BY <1>4 DEF FoldLeft, MapThenFoldSet
<1> DEFINE T == [k \in 0 .. n |-> f[1 .. k]]
<1>t. \A k \in 0 .. n : T[k] = f[1 .. k]
  OBVIOUS
<1> HIDE DEF T
<1>6. T[0] = <<>>
  <2>1. 1 .. 0 = {} /\ {} \in SUBSET (1 .. n)
    OBVIOUS
  <2>2. f[{}] = <<>> /\ 0 \in 0 .. n
    BY <1>2, <1>5, <2>1
  <2> QED
    BY <1>t, <2>1, <2>2
<1>7. ASSUME NEW k \in 1 .. n PROVE T[k] = Place(T[k - 1], s[k])
  <2>1. k \in 0 .. n /\ k - 1 \in 0 .. n
    BY <1>2
  <2>2. f[1 .. k] = Place(f[(1 .. k) \ {Max(1 .. k)}], s[Max(1 .. k)])
    BY <1>2, <1>5, BelowOf
  <2> QED
    BY <1>2, <1>t, <2>1, <2>2, BelowOf
<1>8. T[n] = FoldLeft(Place, <<>>, s)
  <2>1. n \in 0 .. n
    BY <1>2
  <2> QED
    BY <1>2, <1>5, <1>t, <2>1
<1> QED
  BY <1>6, <1>7, <1>8 DEF n

-----------------------------------------------------------------------------
(* Search: the hits are the newest lines of the host, the newest first.    *)

\* As many values as there are arguments, if no two share a value.
LEMMA CardinalityOfImage ==
  ASSUME NEW S, IsFiniteSet(S), NEW f, \A x, y \in S : f[x] = f[y] => x = y
  PROVE  /\ IsFiniteSet({f[x] : x \in S})
         /\ Cardinality({f[x] : x \in S}) = Cardinality(S)
<1> DEFINE g == [x \in S |-> f[x]]
<1>1. g \in Bijection(S, {f[x] : x \in S})
  BY DEF Bijection, Injection, Surjection, IsInjective
<1> QED
  BY <1>1, FS_Bijection DEF ExistsBijection

\* The smaller of two numbers.
LEMMA SmallerOf ==
  ASSUME NEW a \in Nat, NEW b \in Nat
  PROVE  Min({a, b}) = IF a <= b THEN a ELSE b
<1>1. Min({a, b}) \in {a, b} /\ \A y \in {a, b} : Min({a, b}) <= y
  <2>1. \E x \in {a, b} : \A y \in {a, b} : x <= y
    OBVIOUS
  <2> QED
    BY <2>1 DEF Min
<1> QED
  BY <1>1

\* The query matches the lines the alert is about.
LEMMA AboutOfHost ==
  ASSUME LogSearchAssumption, types \in Batches, NEW d
  PROVE  OfHost(d) <=> About(d)
<1>1. Keywords = {} <=> \A t \in types : TypeKeywords[t] = {}
  BY DEF Keywords
<1>2. HasKeyword(d) <=> \E t \in types : d.words \cap TypeKeywords[t] # {}
  BY DEF HasKeyword, Keywords
<1> QED
  BY <1>1, <1>2 DEF OfHost, About

\* l holds the documents at the positions S, and p gives the position of each:
\* the latest first.
Enumerates(p, l, S) ==
  /\ l \in Seq(Docs)
  /\ p \in [1 .. Len(l) -> Nat]
  /\ \A x \in 1 .. Len(l) : p[x] \in S
  /\ \A i \in S : \E x \in 1 .. Len(l) : p[x] = i
  /\ \A x, y \in 1 .. Len(l) : x < y => p[x] > p[y]
  /\ \A x \in 1 .. Len(l) : l[x] = window[p[x]]

\* The lines of the host among the first k.
UpTo(k) == {i \in 1 .. k : OfHost(window[i])}

\* A line of the host goes in front, another line changes nothing.
LEMMA EnumeratesNext ==
  ASSUME window \in Seq(Docs), NEW k \in Nat, k + 1 <= Len(window), NEW l,
         NEW p, Enumerates(p, l, UpTo(k))
  PROVE  \E q : Enumerates(q, NewestFirst(l, window[k + 1]), UpTo(k + 1))
<1> DEFINE S == UpTo(k)
           U == UpTo(k + 1)
           d == window[k + 1]
<1>1. S \subseteq 1 .. k
  BY DEF UpTo
<1>2. CASE ~OfHost(d)
  <2>1. U = S
    BY <1>2 DEF UpTo
  <2>2. NewestFirst(l, d) = l
    BY <1>2 DEF NewestFirst
  <2> QED
    BY <2>1, <2>2
<1>3. CASE OfHost(d)
  <2> DEFINE n == <<d>> \o l
             q == [x \in 1 .. Len(l) + 1 |-> IF x = 1 THEN k + 1 ELSE p[x - 1]]
  <2>1. NewestFirst(l, d) = n
    BY <1>3 DEF NewestFirst
  <2>2. U = S \cup {k + 1}
    BY <1>3 DEF UpTo
  <2>3. d \in Docs /\ l \in Seq(Docs) /\ p \in [1 .. Len(l) -> Nat]
    BY DEF Enumerates
  <2>4. /\ n \in Seq(Docs) /\ Len(n) = Len(l) + 1
        /\ \A x \in 1 .. Len(l) + 1 : n[x] = IF x = 1 THEN d ELSE l[x - 1]
    BY <2>3
  <2> HIDE DEF S, U, n, d
  <2>5. q \in [1 .. Len(n) -> Nat]
    BY <2>3, <2>4
  <2>6. ASSUME NEW x \in 1 .. Len(n)
        PROVE  /\ x = 1 => q[x] = k + 1
               /\ x # 1 => x - 1 \in 1 .. Len(l) /\ q[x] = p[x - 1] /\ p[x - 1] \in S
    BY <2>3, <2>4 DEF Enumerates, S
  <2> HIDE DEF q
  <2>7. \A x \in 1 .. Len(n) : q[x] \in U
    BY <2>2, <2>6
  <2>8. ASSUME NEW i \in U PROVE \E x \in 1 .. Len(n) : q[x] = i
    <3>1. CASE i = k + 1
      <4>1. 1 \in 1 .. Len(n)
        BY <2>3, <2>4
      <4> QED
        BY <2>6, <3>1, <4>1
    <3>2. CASE i \in S
      <4>1. PICK x \in 1 .. Len(l) : p[x] = i
        BY <3>2 DEF Enumerates, S
      <4>2. x + 1 \in 1 .. Len(n) /\ (x + 1) - 1 = x /\ x + 1 # 1
        BY <2>3, <2>4
      <4> QED
        BY <2>6, <4>1, <4>2
    <3> QED
      BY <2>2, <3>1, <3>2
  <2>9. ASSUME NEW x \in 1 .. Len(n), NEW y \in 1 .. Len(n), x < y
        PROVE  q[x] > q[y]
    <3>1. y # 1
      BY <2>9
    <3>2. q[y] = p[y - 1] /\ p[y - 1] \in S /\ y - 1 \in 1 .. Len(l)
      BY <2>6, <3>1
    <3>3. CASE x = 1
      <4>1. p[y - 1] \in 1 .. k
        BY <1>1, <3>2
      <4> QED
        BY <2>6, <3>2, <3>3, <4>1
    <3>4. CASE x # 1
      <4>1. x - 1 \in 1 .. Len(l) /\ q[x] = p[x - 1]
        BY <2>6, <3>4
      <4>2. x - 1 < y - 1
        BY <2>3, <2>4, <2>9
      <4> QED
        BY <3>2, <4>1, <4>2 DEF Enumerates
    <3> QED
      BY <3>3, <3>4
  <2>10. ASSUME NEW x \in 1 .. Len(n) PROVE n[x] = window[q[x]]
    <3>1. CASE x = 1
      BY <2>4, <2>6, <3>1 DEF d
    <3>2. CASE x # 1
      <4>1. x - 1 \in 1 .. Len(l) /\ q[x] = p[x - 1] /\ n[x] = l[x - 1]
        BY <2>4, <2>6, <3>2
      <4> QED
        BY <4>1 DEF Enumerates
    <3> QED
      BY <3>1, <3>2
  <2>11. Enumerates(q, n, U)
    BY <2>4, <2>5, <2>7, <2>8, <2>9, <2>10 DEF Enumerates
  <2> QED
    BY <2>1, <2>11 DEF U, d
<1> QED
  BY <1>2, <1>3

\* Newest are the lines the alert is about that Fetched tells, the latest first.
LEMMA NewestFetched ==
  ASSUME LogSearchAssumption, window \in Seq(Docs), types \in Batches
  PROVE  /\ \E p : Enumerates(p, Newest, Fetched)
         /\ Len(Newest) <= MaxLines /\ Len(Newest) <= Len(window)
<1> DEFINE n == Len(window)
           of == FoldLeft(NewestFirst, <<>>, window)
<1>1. PICK T : /\ T[0] = <<>>
               /\ \A k \in 1 .. n : T[k] = NewestFirst(T[k - 1], window[k])
               /\ T[n] = of
  BY NewestRuns
<1> HIDE DEF of
<1>2. \E p : Enumerates(p, T[n], UpTo(n))
  <2> DEFINE P(k) == \E p : Enumerates(p, T[k], UpTo(k))
             H == {k \in Nat : k <= n => P(k)}
  <2>1. P(0)
    <3>1. UpTo(0) = {}
      BY DEF UpTo
    <3>2. Enumerates(<<>>, T[0], {})
      BY <1>1 DEF Enumerates
    <3> QED
      BY <3>1, <3>2
  <2>2. ASSUME NEW k \in Nat, k + 1 <= n, P(k) PROVE P(k + 1)
    <3>1. k + 1 \in 1 .. n /\ (k + 1) - 1 = k
      BY <2>2
    <3>2. PICK p : Enumerates(p, T[k], UpTo(k))
      BY <2>2
    <3>3. T[k + 1] = NewestFirst(T[k], window[k + 1])
      BY <1>1, <3>1
    <3> QED
      BY <2>2, <3>2, <3>3, EnumeratesNext
  <2> HIDE DEF P
  <2>3. 0 \in H /\ \A k \in Nat : k \in H => k + 1 \in H
    BY <2>1, <2>2
  <2>4. n \in H
    <3> HIDE DEF H
    <3> QED
      BY <2>3, Induction, n \in Nat
  <2> QED
    BY <2>4 DEF P
<1>3. UpTo(n) = OfHostIn
  BY AboutOfHost DEF OfHostIn, UpTo
<1>4. PICK p : Enumerates(p, of, OfHostIn)
  BY <1>1, <1>2, <1>3
<1> DEFINE h == Min({Len(of), MaxLines})
<1>5. /\ of \in Seq(Docs) /\ Len(of) \in Nat /\ MaxLines \in Nat /\ h \in 0 .. Len(of)
      /\ h <= MaxLines
      /\ \A x \in 1 .. Len(of) : x <= h <=> x <= MaxLines
  <2>1. of \in Seq(Docs) /\ Len(of) \in Nat /\ MaxLines \in Nat
    BY <1>4 DEF Enumerates, LogSearchAssumption
  <2>2. h = IF Len(of) <= MaxLines THEN Len(of) ELSE MaxLines
    BY <2>1, SmallerOf
  <2> HIDE DEF h
  <2> QED
    BY <2>1, <2>2
<1>6. Newest = SubSeq(of, 1, h)
  BY DEF Newest, of
<1> HIDE DEF h
<1>7. ASSUME NEW x \in 1 .. Len(of)
      PROVE  Cardinality({j \in OfHostIn : j > p[x]}) = x - 1
  <2>1. {j \in OfHostIn : j > p[x]} = {p[y] : y \in 1 .. x - 1}
    <3>1. ASSUME NEW y \in 1 .. Len(of) PROVE p[y] > p[x] <=> y < x
      <4>1. p[x] \in Nat /\ p[y] \in Nat
        BY <1>4 DEF Enumerates
      <4>2. y < x \/ y = x \/ x < y
        BY <1>5
      <4> QED
        BY <1>4, <4>1, <4>2 DEF Enumerates
    <3>2. 1 .. x - 1 \subseteq 1 .. Len(of) /\ \A y \in 1 .. Len(of) : y < x <=> y \in 1 .. x - 1
      BY <1>5
    <3>3. /\ \A y \in 1 .. Len(of) : p[y] \in OfHostIn
          /\ \A i \in OfHostIn : \E y \in 1 .. Len(of) : p[y] = i
      BY <1>4 DEF Enumerates
    <3>4. ASSUME NEW j \in OfHostIn, j > p[x] PROVE j \in {p[y] : y \in 1 .. x - 1}
      <4>1. PICK y \in 1 .. Len(of) : p[y] = j
        BY <3>3
      <4>2. y \in 1 .. x - 1
        BY <3>1, <3>2, <3>4, <4>1
      <4> QED
        BY <4>1, <4>2
    <3>5. ASSUME NEW y \in 1 .. x - 1 PROVE p[y] \in OfHostIn /\ p[y] > p[x]
      BY <3>1, <3>2, <3>3
    <3> QED
      BY <3>4, <3>5
  <2>2. IsFiniteSet(1 .. x - 1) /\ Cardinality(1 .. x - 1) = x - 1
    BY <1>5, FirstPositions, x - 1 \in Nat
  <2>3. \A y, z \in 1 .. x - 1 : p[y] = p[z] => y = z
    <3>1. \A y, z \in 1 .. Len(of) : y < z => p[y] > p[z]
      BY <1>4 DEF Enumerates
    <3>2. \A y \in 1 .. Len(of) : p[y] \in Nat
      BY <1>4 DEF Enumerates
    <3>3. \A y \in 1 .. x - 1 : y \in 1 .. Len(of)
      BY <1>5
    <3> QED
      BY <3>1, <3>2, <3>3
  <2>4. Cardinality({p[y] : y \in 1 .. x - 1}) = Cardinality(1 .. x - 1)
    <3> DEFINE V == 1 .. x - 1
    <3>1. IsFiniteSet(V) /\ \A y, z \in V : p[y] = p[z] => y = z
      BY <2>2, <2>3
    <3> HIDE DEF V
    <3>2. Cardinality({p[y] : y \in V}) = Cardinality(V)
      BY <3>1, CardinalityOfImage
    <3> QED
      BY <3>2 DEF V
  <2> QED
    BY <2>1, <2>2, <2>4
<1>8. Fetched = {p[x] : x \in 1 .. h}
  <2>1. \A x \in 1 .. Len(of) : p[x] \in Fetched <=> x \in 1 .. h
    <3>1. \A x \in 1 .. Len(of) : p[x] \in OfHostIn
      BY <1>4 DEF Enumerates
    <3>2. ASSUME NEW x \in 1 .. Len(of) PROVE p[x] \in Fetched <=> x <= MaxLines
      <4>1. p[x] \in Fetched <=> Cardinality({j \in OfHostIn : j > p[x]}) < MaxLines
        BY <3>1 DEF Fetched
      <4>2. x - 1 < MaxLines <=> x <= MaxLines
        BY <1>5
      <4> QED
        BY <1>7, <4>1, <4>2
    <3> QED
      BY <1>5, <3>2
  <2>2. \A i \in Fetched : \E x \in 1 .. Len(of) : p[x] = i
    BY <1>4 DEF Enumerates, Fetched
  <2>3. 1 .. h \subseteq 1 .. Len(of)
    BY <1>5
  <2> QED
    BY <2>1, <2>2, <2>3
<1> DEFINE q == [x \in 1 .. h |-> p[x]]
<1>9. /\ Newest \in Seq(Docs) /\ Len(Newest) = h
      /\ \A x \in 1 .. h : Newest[x] = of[x] /\ x \in 1 .. Len(of) /\ q[x] = p[x]
      /\ q \in [1 .. h -> Nat]
  <2>1. \A x \in 1 .. h : x \in 1 .. Len(of)
    BY <1>5
  <2>2. \A x \in 1 .. Len(of) : p[x] \in Nat
    BY <1>4 DEF Enumerates
  <2> QED
    BY <1>5, <1>6, <2>1, <2>2
<1> HIDE DEF q
<1>10. Enumerates(q, Newest, Fetched)
  <2>1. /\ \A x \in 1 .. h : q[x] \in Fetched
        /\ \A i \in Fetched : \E x \in 1 .. h : q[x] = i
    BY <1>8, <1>9
  <2>2. \A x, y \in 1 .. h : x < y => q[x] > q[y]
    BY <1>4, <1>9 DEF Enumerates
  <2>3. \A x \in 1 .. h : Newest[x] = window[q[x]]
    BY <1>4, <1>9 DEF Enumerates
  <2> QED
    BY <1>9, <2>1, <2>2, <2>3 DEF Enumerates
<1>11. Len(of) <= n
  <2>1. \A x, y \in 1 .. Len(of) : p[x] = p[y] => x = y
    <3>1. \A x, y \in 1 .. Len(of) : x < y => p[x] > p[y]
      BY <1>4 DEF Enumerates
    <3>2. \A x \in 1 .. Len(of) : p[x] \in Nat
      BY <1>4 DEF Enumerates
    <3> QED
      BY <1>5, <3>1, <3>2
  <2>2. p \in Injection(1 .. Len(of), 1 .. n)
    <3>1. p \in [1 .. Len(of) -> 1 .. n]
      BY <1>4 DEF Enumerates, OfHostIn
    <3> QED
      BY <2>1, <3>1 DEF Injection, IsInjective
  <2>3. IsFiniteSet(1 .. n) /\ Cardinality(1 .. n) = n /\ Cardinality(1 .. Len(of)) = Len(of)
    BY <1>5, FirstPositions, n \in Nat
  <2> HIDE DEF n
  <2>4. Cardinality(1 .. Len(of)) <= Cardinality(1 .. n)
    BY <2>2, <2>3, FS_Injection
  <2> QED
    BY <2>3, <2>4
<1>12. Len(Newest) <= MaxLines /\ Len(Newest) <= n
  BY <1>5, <1>9, <1>11
<1> QED
  BY <1>10, <1>12

-----------------------------------------------------------------------------
(* Aggregate: each text of the hits once, with their number.               *)

Text(x) == Cut[hits[x].msg]

\* The first k hits that read m.
Reading(m, k) == {x \in 1 .. k : Text(x) = m}

\* l counts the texts of the first k hits, and f gives the hit in which each
\* of its texts came first.
Tallies(f, l, k) ==
  /\ l \in Seq(Row)
  /\ f \in [1 .. Len(l) -> Nat]
  /\ \A i \in 1 .. Len(l) :
       /\ f[i] \in Reading(l[i].msg, k)
       /\ \A x \in Reading(l[i].msg, k) : f[i] <= x
       /\ l[i].n = Cardinality(Reading(l[i].msg, k))
  /\ \A x \in 1 .. k : \E i \in 1 .. Len(l) : l[i].msg = Text(x)
  /\ \A i, j \in 1 .. Len(l) : i < j => f[i] < f[j]

\* One more hit is one more of its text.
LEMMA ReadingNext ==
  ASSUME NEW k \in Nat, NEW m
  PROVE  /\ IsFiniteSet(Reading(m, k)) /\ Cardinality(Reading(m, k)) \in Nat
         /\ Text(k + 1) = m => /\ Reading(m, k + 1) = Reading(m, k) \cup {k + 1}
                               /\ Cardinality(Reading(m, k + 1)) =
                                    Cardinality(Reading(m, k)) + 1
         /\ Text(k + 1) # m => Reading(m, k + 1) = Reading(m, k)
<1>1. IsFiniteSet(Reading(m, k)) /\ Cardinality(Reading(m, k)) \in Nat
  <2>1. Reading(m, k) \in SUBSET (1 .. k)
    BY DEF Reading
  <2> QED
    BY <2>1, FirstPositions, FS_Subset, FS_CardinalityType
<1>2. ASSUME Text(k + 1) = m
      PROVE  /\ Reading(m, k + 1) = Reading(m, k) \cup {k + 1}
             /\ Cardinality(Reading(m, k + 1)) = Cardinality(Reading(m, k)) + 1
  <2>1. Reading(m, k + 1) = Reading(m, k) \cup {k + 1} /\ k + 1 \notin Reading(m, k)
    BY <1>2 DEF Reading
  <2> QED
    BY <1>1, <2>1, FS_AddElement
<1>3. ASSUME Text(k + 1) # m PROVE Reading(m, k + 1) = Reading(m, k)
  BY <1>3 DEF Reading
<1> QED
  BY <1>1, <1>2, <1>3

\* A known text is counted in its place, a new one is added behind the others.
LEMMA TalliesNext ==
  ASSUME LogSearchAssumption, hits \in Seq(Docs), NEW k \in Nat, k + 1 <= Len(hits),
         NEW l, NEW f, Tallies(f, l, k)
  PROVE  \E g : Tallies(g, Counted(l, hits[k + 1]), k + 1)
<1> DEFINE m == Text(k + 1)
           d == hits[k + 1]
           c == Counted(l, d)
<1>1. /\ l \in Seq(Row) /\ Len(l) \in Nat /\ DOMAIN l = 1 .. Len(l)
      /\ d \in Docs /\ c \in Seq(Row) /\ Cut[d.msg] = m
      /\ f \in [1 .. Len(l) -> Nat]
  <2>1. l \in Seq(Row) /\ f \in [1 .. Len(l) -> Nat]
    BY DEF Tallies
  <2>2. d \in Docs /\ Cut[d.msg] = m
    BY DEF Text
  <2>3. c \in Seq(Row)
    <3> HIDE DEF d
    <3> QED
      BY <2>1, <2>2, CountedTyped
  <2> HIDE DEF c, d, m
  <2> QED
    BY <2>1, <2>2, <2>3
<1> HIDE DEF d
<1>2. ASSUME NEW i \in 1 .. Len(l) PROVE l[i] \in Row /\ l[i].n \in Nat
  <2>1. l[i] \in Row
    BY <1>1
  <2> QED
    BY <2>1 DEF Row
<1>3. \A o : /\ Reading(o, k) \subseteq Reading(o, k + 1)
             /\ Reading(o, k + 1) \subseteq Reading(o, k) \cup {k + 1}
             /\ Reading(o, k) \subseteq 1 .. k
  BY DEF Reading
<1>4. CASE \E i \in DOMAIN l : l[i].msg = m
  <2>1. c = [i \in DOMAIN l |-> IF l[i].msg = m THEN [l[i] EXCEPT !.n = @ + 1] ELSE l[i]]
    BY <1>1, <1>4 DEF Counted, CountedFrom
  <2>2. Len(c) = Len(l)
    BY <1>1, <2>1
  <2>3. ASSUME NEW i \in 1 .. Len(l)
        PROVE  /\ c[i].msg = l[i].msg
               /\ c[i].n = IF l[i].msg = m THEN l[i].n + 1 ELSE l[i].n
    BY <1>1, <1>2, <2>1 DEF Row
  <2> HIDE DEF c, m
  <2>4. ASSUME NEW i \in 1 .. Len(c)
        PROVE  /\ f[i] \in Reading(c[i].msg, k + 1)
               /\ \A x \in Reading(c[i].msg, k + 1) : f[i] <= x
               /\ c[i].n = Cardinality(Reading(c[i].msg, k + 1))
    <3>1. /\ f[i] \in Reading(l[i].msg, k)
          /\ \A x \in Reading(l[i].msg, k) : f[i] <= x
          /\ l[i].n = Cardinality(Reading(l[i].msg, k))
      BY <2>2 DEF Tallies
    <3>2. f[i] <= k + 1
      BY <1>3, <3>1
    <3>3. c[i].msg = l[i].msg /\ c[i].n = IF l[i].msg = m THEN l[i].n + 1 ELSE l[i].n
      BY <2>2, <2>3
    <3>4. f[i] \in Reading(l[i].msg, k + 1) /\ \A x \in Reading(l[i].msg, k + 1) : f[i] <= x
      BY <1>3, <3>1, <3>2
    <3>5. Cardinality(Reading(l[i].msg, k + 1)) = IF l[i].msg = m THEN l[i].n + 1 ELSE l[i].n
      BY <3>1, ReadingNext DEF m
    <3> QED
      BY <3>3, <3>4, <3>5
  <2>5. ASSUME NEW x \in 1 .. k + 1 PROVE \E i \in 1 .. Len(c) : c[i].msg = Text(x)
    <3>1. CASE x \in 1 .. k
      BY <2>2, <2>3, <3>1 DEF Tallies
    <3>2. CASE x = k + 1
      BY <1>1, <1>4, <2>2, <2>3, <3>2 DEF m
    <3> QED
      BY <3>1, <3>2
  <2>6. \A i, j \in 1 .. Len(c) : i < j => f[i] < f[j]
    BY <2>2 DEF Tallies
  <2>7. Tallies(f, c, k + 1)
    BY <1>1, <2>2, <2>4, <2>5, <2>6 DEF Tallies
  <2> QED
    BY <2>7 DEF c, d
<1>5. CASE ~ \E i \in DOMAIN l : l[i].msg = m
  <2> DEFINE g == [i \in 1 .. Len(l) + 1 |-> IF i = Len(l) + 1 THEN k + 1 ELSE f[i]]
  <2>1. c = Append(l, [msg |-> m, n |-> 1])
    BY <1>1, <1>5 DEF Counted, CountedFrom
  <2>2. /\ Len(c) = Len(l) + 1
        /\ c[Len(l) + 1] = [msg |-> m, n |-> 1]
        /\ \A i \in 1 .. Len(l) : c[i] = l[i]
    BY <1>1, <2>1
  <2>3. g \in [1 .. Len(c) -> Nat]
    BY <1>1, <2>2
  <2>4. g[Len(l) + 1] = k + 1 /\ \A i \in 1 .. Len(l) : g[i] = f[i]
    BY <1>1
  <2>5. \A i \in 1 .. Len(c) : i = Len(l) + 1 \/ i \in 1 .. Len(l)
    BY <1>1, <2>2
  <2>6. Reading(m, k) = {}
    <3>1. \A x \in 1 .. k : \E i \in 1 .. Len(l) : l[i].msg = Text(x)
      BY DEF Tallies
    <3> QED
      BY <1>1, <1>5, <3>1 DEF Reading
  <2> HIDE DEF c, m, g
  <2>7. ASSUME NEW i \in 1 .. Len(c)
        PROVE  /\ g[i] \in Reading(c[i].msg, k + 1)
               /\ \A x \in Reading(c[i].msg, k + 1) : g[i] <= x
               /\ c[i].n = Cardinality(Reading(c[i].msg, k + 1))
    <3>1. CASE i = Len(l) + 1
      <4>1. Reading(m, k + 1) = {k + 1} /\ Cardinality(Reading(m, k + 1)) = 1
        <5>1. /\ Reading(m, k + 1) = Reading(m, k) \cup {k + 1}
              /\ Cardinality(Reading(m, k + 1)) = Cardinality(Reading(m, k)) + 1
          BY ReadingNext DEF m
        <5>2. Cardinality(Reading(m, k)) = 0
          BY <2>6, FS_EmptySet
        <5> QED
          BY <2>6, <5>1, <5>2
      <4>2. g[i] = k + 1 /\ c[i].msg = m /\ c[i].n = 1
        BY <2>2, <2>4, <3>1
      <4> QED
        BY <4>1, <4>2
    <3>2. CASE i \in 1 .. Len(l)
      <4>1. /\ f[i] \in Reading(l[i].msg, k)
            /\ \A x \in Reading(l[i].msg, k) : f[i] <= x
            /\ l[i].n = Cardinality(Reading(l[i].msg, k))
        BY <3>2 DEF Tallies
      <4>2. c[i] = l[i] /\ g[i] = f[i] /\ l[i].msg # m
        BY <1>1, <1>5, <2>2, <2>4, <3>2
      <4> QED
        BY <4>1, <4>2, ReadingNext DEF m
    <3> QED
      BY <2>5, <3>1, <3>2
  <2>8. ASSUME NEW x \in 1 .. k + 1 PROVE \E i \in 1 .. Len(c) : c[i].msg = Text(x)
    <3>1. CASE x \in 1 .. k
      <4>1. PICK i \in 1 .. Len(l) : l[i].msg = Text(x)
        BY <3>1 DEF Tallies
      <4>2. i \in 1 .. Len(c)
        BY <1>1, <2>2
      <4> QED
        BY <2>2, <4>1, <4>2
    <3>2. CASE x = k + 1
      <4>1. Len(l) + 1 \in 1 .. Len(c)
        BY <1>1, <2>2
      <4> QED
        BY <2>2, <3>2, <4>1 DEF m
    <3> QED
      BY <3>1, <3>2
  <2>9. ASSUME NEW i \in 1 .. Len(c), NEW j \in 1 .. Len(c), i < j PROVE g[i] < g[j]
    <3>1. i \in 1 .. Len(l) /\ g[i] = f[i] /\ f[i] \in 1 .. k
      <4>1. i \in 1 .. Len(l)
        BY <1>1, <2>2, <2>9
      <4> QED
        BY <1>3, <2>4, <4>1 DEF Tallies
    <3>2. CASE j = Len(l) + 1
      BY <2>4, <3>1, <3>2
    <3>3. CASE j \in 1 .. Len(l)
      BY <2>4, <2>9, <3>1, <3>3 DEF Tallies
    <3> QED
      BY <2>5, <3>2, <3>3
  <2>10. Tallies(g, c, k + 1)
    BY <1>1, <2>3, <2>7, <2>8, <2>9 DEF Tallies
  <2> QED
    BY <2>10 DEF c, d
<1> QED
  BY <1>4, <1>5

\* The counted hits.
LEMMA CountedTallies ==
  ASSUME LogSearchAssumption, hits \in Seq(Docs)
  PROVE  \E f : Tallies(f, FoldLeft(Counted, <<>>, hits), Len(hits))
<1> DEFINE n == Len(hits)
<1>1. PICK T : /\ T[0] = <<>>
               /\ \A k \in 1 .. n : T[k] = Counted(T[k - 1], hits[k])
               /\ T[n] = FoldLeft(Counted, <<>>, hits)
  BY CountedRuns
<1> DEFINE P(k) == \E f : Tallies(f, T[k], k)
           H == {k \in Nat : k <= n => P(k)}
<1>2. P(0)
  <2>1. Tallies(<<>>, T[0], 0)
    BY <1>1 DEF Tallies
  <2> QED
    BY <2>1
<1>3. ASSUME NEW k \in Nat, k + 1 <= n, P(k) PROVE P(k + 1)
  <2>1. k + 1 \in 1 .. n /\ (k + 1) - 1 = k
    BY <1>3
  <2>2. PICK f : Tallies(f, T[k], k)
    BY <1>3
  <2>3. T[k + 1] = Counted(T[k], hits[k + 1])
    BY <1>1, <2>1
  <2> QED
    BY <1>3, <2>2, <2>3, TalliesNext
<1> HIDE DEF P
<1>4. 0 \in H /\ \A k \in Nat : k \in H => k + 1 \in H
  BY <1>2, <1>3
<1>5. n \in H
  <2> HIDE DEF H
  <2> QED
    BY <1>4, Induction, n \in Nat
<1> QED
  BY <1>1, <1>5 DEF P

-----------------------------------------------------------------------------
(* Aggregate: the sort.                                                    *)

\* A set of positions that holds all positions before each of its own is known
\* by its size.
LEMMA PrefixOf ==
  ASSUME NEW k \in Nat, NEW S \in SUBSET (1 .. k), \A i \in S : \A j \in 1 .. i : j \in S
  PROVE  S = 1 .. Cardinality(S)
<1>1. CASE S = {}
  BY <1>1, FS_EmptySet
<1>2. CASE S # {}
  <2>1. Max(S) \in S /\ \A y \in S : y <= Max(S)
    BY <1>2, LastOf
  <2>2. Max(S) \in Nat /\ S = 1 .. Max(S)
    <3>1. Max(S) \in 1 .. k /\ \A y \in S : y \in 1 .. k
      BY <2>1
    <3>2. \A j \in 1 .. Max(S) : j \in S
      BY <2>1
    <3>3. \A y \in S : y \in 1 .. Max(S)
      BY <2>1, <3>1
    <3>4. S = 1 .. Max(S)
      BY <3>2, <3>3
    <3>5. Max(S) \in Nat
      BY <3>1
    <3> QED
      BY <3>4, <3>5
  <2>3. Cardinality(1 .. Max(S)) = Max(S)
    BY <2>2, FirstPositions
  <2> QED
    BY <2>2, <2>3
<1> QED
  BY <1>1, <1>2

\* The i-th row of s belongs before the j-th.
Above(s, i, j) == s[i].n > s[j].n \/ (s[i].n = s[j].n /\ i < j)

\* r is the first k rows of s in order, and p gives the place of each in s.
Sorts(p, r, s, k) ==
  /\ r \in Seq(Row) /\ Len(r) = k
  /\ p \in [1 .. k -> Nat]
  /\ \A x \in 1 .. k : p[x] \in 1 .. k /\ r[x] = s[p[x]]
  /\ \A i \in 1 .. k : \E x \in 1 .. k : p[x] = i
  /\ \A x, y \in 1 .. k : x < y => Above(s, p[x], p[y])

\* A row goes behind those it does not precede.
LEMMA SortsNext ==
  ASSUME NEW s \in Seq(Row), NEW k \in Nat, k + 1 <= Len(s),
         NEW r, NEW p, Sorts(p, r, s, k)
  PROVE  \E q : Sorts(q, Place(r, s[k + 1]), s, k + 1)
<1> DEFINE a == s[k + 1]
           S == {i \in DOMAIN r : r[i].n >= a.n}
           c == Cardinality(S)
           t == Place(r, a)
           q == [x \in 1 .. k + 1 |->
                  IF x <= c THEN p[x] ELSE IF x = c + 1 THEN k + 1 ELSE p[x - 1]]
<1>1. /\ r \in Seq(Row) /\ Len(r) = k /\ DOMAIN r = 1 .. k /\ a \in Row
      /\ p \in [1 .. k -> Nat]
      /\ \A i \in 1 .. k + 1 : s[i] \in Row /\ s[i].n \in Nat
  <2>1. r \in Seq(Row) /\ Len(r) = k /\ p \in [1 .. k -> Nat]
    BY DEF Sorts
  <2>2. \A i \in 1 .. k + 1 : s[i] \in Row
    OBVIOUS
  <2>3. \A i \in 1 .. k + 1 : s[i].n \in Nat
    BY <2>2 DEF Row
  <2>4. k + 1 \in 1 .. k + 1
    OBVIOUS
  <2> QED
    BY <2>1, <2>2, <2>3, <2>4
<1>2. c \in 0 .. k
  BY <1>1, PlaceOf
<1>3. /\ t \in Seq(Row) /\ Len(t) = k + 1
      /\ \A x \in 1 .. k + 1 :
           t[x] = IF x <= c THEN r[x] ELSE IF x = c + 1 THEN a ELSE r[x - 1]
  <2>1. t = InsertAt(r, c + 1, a)
    BY DEF Place
  <2> HIDE DEF c, a, t
  <2>2. r \in Seq(Row) /\ a \in Row /\ c \in 0 .. Len(r)
    BY <1>1, <1>2
  <2>3. /\ InsertAt(r, c + 1, a) \in Seq(Row)
        /\ Len(InsertAt(r, c + 1, a)) = Len(r) + 1
        /\ \A x \in 1 .. Len(r) + 1 :
             InsertAt(r, c + 1, a)[x] =
               IF x <= c THEN r[x] ELSE IF x = c + 1 THEN a ELSE r[x - 1]
    <3>1. InsertAt(r, c + 1, a) \in Seq(Row)
      BY <2>2, InsertedAt
    <3>2. Len(InsertAt(r, c + 1, a)) = Len(r) + 1
      BY <2>2, InsertedAt
    <3>3. ASSUME NEW x \in 1 .. Len(r) + 1
          PROVE  InsertAt(r, c + 1, a)[x] =
                   IF x <= c THEN r[x] ELSE IF x = c + 1 THEN a ELSE r[x - 1]
      BY <2>2, InsertedAt
    <3> QED
      BY <3>1, <3>2, <3>3
  <2> QED
    BY <1>1, <2>1, <2>3
<1>4. S = 1 .. c
  <2>1. S \in SUBSET (1 .. k)
    BY <1>1
  <2>2. ASSUME NEW i \in S, NEW j \in 1 .. i PROVE j \in S
    <3>1. i \in 1 .. k /\ j \in 1 .. k /\ r[i].n >= a.n
      BY <1>1
    <3>2. r[i] = s[p[i]] /\ r[j] = s[p[j]] /\ p[i] \in 1 .. k /\ p[j] \in 1 .. k
      BY <3>1 DEF Sorts
    <3>3. j < i => s[p[j]].n >= s[p[i]].n
      <4>1. j < i => Above(s, p[j], p[i])
        BY <3>1 DEF Sorts
      <4>2. p[i] \in 1 .. k + 1 /\ p[j] \in 1 .. k + 1
        BY <3>2
      <4>3. s[p[j]].n \in Nat /\ s[p[i]].n \in Nat
        BY <1>1, <4>2
      <4> QED
        BY <4>1, <4>3 DEF Above
    <3>4. r[j].n >= a.n
      <4>1. j < i \/ j = i
        BY <3>1
      <4>2. s[p[j]].n \in Nat /\ s[p[i]].n \in Nat /\ a.n \in Nat
        BY <1>1, <3>2
      <4> HIDE DEF a
      <4> QED
        BY <3>1, <3>2, <3>3, <4>1, <4>2
    <3> QED
      BY <1>1, <3>1, <3>4
  <2> HIDE DEF S
  <2> QED
    BY <2>1, <2>2, PrefixOf
<1>5. \A x \in 1 .. k : /\ p[x] \in 1 .. k /\ r[x] = s[p[x]] /\ r[x].n \in Nat
                        /\ x <= c <=> r[x].n >= a.n
  <2>1. \A x \in 1 .. k : p[x] \in 1 .. k /\ r[x] = s[p[x]]
    BY DEF Sorts
  <2>2. \A x \in 1 .. k : r[x].n \in Nat
    BY <1>1, <2>1
  <2>3. \A x \in 1 .. k : x <= c <=> x \in S
    <3> HIDE DEF S
    <3> QED
      BY <1>2, <1>4
  <2> QED
    BY <1>1, <2>1, <2>2, <2>3
<1> HIDE DEF S, c, t
<1>6. ASSUME NEW x \in 1 .. k + 1
      PROVE  /\ x <= c => x \in 1 .. k /\ q[x] = p[x] /\ t[x] = r[x]
             /\ x = c + 1 => q[x] = k + 1 /\ t[x] = a
             /\ x > c + 1 => x - 1 \in 1 .. k /\ x - 1 > c /\ q[x] = p[x - 1] /\ t[x] = r[x - 1]
             /\ x <= c \/ x = c + 1 \/ x > c + 1
  BY <1>2, <1>3
<1> HIDE DEF q
<1>7. ASSUME NEW x \in 1 .. k + 1 PROVE q[x] \in 1 .. k + 1 /\ t[x] = s[q[x]]
  <2>1. CASE x <= c
    BY <1>5, <1>6, <2>1
  <2>2. CASE x = c + 1
    BY <1>6, <2>2
  <2>3. CASE x > c + 1
    BY <1>5, <1>6, <2>3
  <2> QED
    BY <1>6, <2>1, <2>2, <2>3
<1>8. ASSUME NEW i \in 1 .. k + 1 PROVE \E x \in 1 .. k + 1 : q[x] = i
  <2>1. CASE i = k + 1
    <3>1. c + 1 \in 1 .. k + 1
      BY <1>2
    <3> QED
      BY <1>6, <2>1, <3>1
  <2>2. CASE i \in 1 .. k
    <3>1. PICK x \in 1 .. k : p[x] = i
      BY <2>2 DEF Sorts
    <3>2. CASE x <= c
      <4>1. x \in 1 .. k + 1
        OBVIOUS
      <4> QED
        BY <1>6, <3>1, <3>2, <4>1
    <3>3. CASE x > c
      <4>1. x + 1 \in 1 .. k + 1 /\ x + 1 > c + 1 /\ (x + 1) - 1 = x
        BY <1>2, <3>3
      <4> QED
        BY <1>6, <3>1, <4>1
    <3> QED
      BY <1>2, <3>2, <3>3
  <2> QED
    BY <2>1, <2>2
<1>9. ASSUME NEW x \in 1 .. k + 1, NEW y \in 1 .. k + 1, x < y
      PROVE  Above(s, q[x], q[y])
  <2>0. \A u, v \in 1 .. k : u < v => Above(s, p[u], p[v])
    BY DEF Sorts
  <2>1. CASE y <= c
    <3>1. x <= c
      BY <1>2, <1>9, <2>1
    <3> QED
      BY <1>6, <1>9, <2>0, <2>1, <3>1
  <2>2. CASE y = c + 1
    <3>1. x <= c
      BY <1>2, <1>9, <2>2
    <3>2. q[x] = p[x] /\ q[y] = k + 1 /\ x \in 1 .. k
      BY <1>6, <2>2, <3>1
    <3>3. s[p[x]].n >= s[k + 1].n /\ p[x] \in 1 .. k
      BY <1>5, <3>1, <3>2
    <3>4. s[p[x]].n \in Nat /\ s[k + 1].n \in Nat
      BY <1>1, <3>3
    <3> QED
      BY <3>2, <3>3, <3>4 DEF Above
  <2>3. CASE y > c + 1 /\ x <= c
    <3>1. q[x] = p[x] /\ q[y] = p[y - 1] /\ x \in 1 .. k /\ y - 1 \in 1 .. k /\ x < y - 1
      BY <1>2, <1>6, <2>3
    <3> QED
      BY <2>0, <3>1
  <2>4. CASE y > c + 1 /\ x = c + 1
    <3>1. q[x] = k + 1 /\ q[y] = p[y - 1] /\ y - 1 \in 1 .. k /\ ~(y - 1 <= c)
      BY <1>2, <1>6, <2>4
    <3>2. ~(s[p[y - 1]].n >= s[k + 1].n) /\ p[y - 1] \in 1 .. k
      BY <1>5, <3>1
    <3>3. s[p[y - 1]].n \in Nat /\ s[k + 1].n \in Nat
      BY <1>1, <3>2
    <3> QED
      BY <3>1, <3>2, <3>3 DEF Above
  <2>5. CASE y > c + 1 /\ x > c + 1
    <3>1. /\ q[x] = p[x - 1] /\ q[y] = p[y - 1] /\ x - 1 < y - 1
          /\ x - 1 \in 1 .. k /\ y - 1 \in 1 .. k
      BY <1>6, <1>9, <2>5
    <3> QED
      BY <2>0, <3>1
  <2> QED
    BY <1>6, <2>1, <2>2, <2>3, <2>4, <2>5
<1>10. q \in [1 .. k + 1 -> Nat]
  BY <1>7 DEF q
<1>11. Sorts(q, t, s, k + 1)
  BY <1>3, <1>7, <1>8, <1>9, <1>10 DEF Sorts
<1> QED
  BY <1>11 DEF t

\* The list sorted.
LEMMA RankedSorts ==
  ASSUME NEW s \in Seq(Row)
  PROVE  \E p : Sorts(p, FoldLeft(Place, <<>>, s), s, Len(s))
<1> DEFINE n == Len(s)
<1>1. PICK T : /\ T[0] = <<>>
               /\ \A k \in 1 .. n : T[k] = Place(T[k - 1], s[k])
               /\ T[n] = FoldLeft(Place, <<>>, s)
  BY RankedRuns
<1> DEFINE P(k) == \E p : Sorts(p, T[k], s, k)
           H == {k \in Nat : k <= n => P(k)}
<1>2. P(0)
  <2>1. Sorts(<<>>, T[0], s, 0)
    BY <1>1 DEF Sorts
  <2> QED
    BY <2>1
<1>3. ASSUME NEW k \in Nat, k + 1 <= n, P(k) PROVE P(k + 1)
  <2>1. k + 1 \in 1 .. n /\ (k + 1) - 1 = k
    BY <1>3
  <2>2. PICK p : Sorts(p, T[k], s, k)
    BY <1>3
  <2>3. T[k + 1] = Place(T[k], s[k + 1])
    BY <1>1, <2>1
  <2> QED
    BY <1>3, <2>2, <2>3, SortsNext
<1> HIDE DEF P
<1>4. 0 \in H /\ \A k \in Nat : k \in H => k + 1 \in H
  BY <1>2, <1>3
<1>5. n \in H
  <2> HIDE DEF H
  <2> QED
    BY <1>4, Induction, n \in Nat
<1> QED
  BY <1>1, <1>5 DEF P

-----------------------------------------------------------------------------
(* The evidence.                                                           *)

\* The lines that read m are as many in the index as among the hits, and the
\* latest of them is the first hit that reads m.
LEMMA ReadingFetched ==
  ASSUME hits \in Seq(Docs), NEW p, Enumerates(p, hits, Fetched), NEW m
  PROVE  /\ Cardinality(With(Fetched, m)) = Cardinality(Reading(m, Len(hits)))
         /\ \A x \in Reading(m, Len(hits)) :
              (\A y \in Reading(m, Len(hits)) : x <= y) => Latest(Fetched, m) = p[x]
<1> DEFINE n == Len(hits)
           Rd == Reading(m, n)
           W == With(Fetched, m)
<1>1. /\ Rd \subseteq 1 .. n
      /\ \A x \in 1 .. n : p[x] \in Fetched /\ p[x] \in Nat /\ hits[x] = window[p[x]]
      /\ \A i \in Fetched : \E x \in 1 .. n : p[x] = i
      /\ \A x, y \in 1 .. n : x < y => p[x] > p[y]
  BY DEF Enumerates, Reading
<1>2. \A x \in 1 .. n : p[x] \in W <=> x \in Rd
  BY <1>1 DEF With, Reading, Text
<1>3. W = {p[x] : x \in Rd}
  <2>1. W \subseteq Fetched
    BY DEF With
  <2> HIDE DEF W, Rd
  <2> QED
    BY <1>1, <1>2, <2>1
<1>4. \A x, y \in Rd : p[x] = p[y] => x = y
  <2> HIDE DEF Rd
  <2> QED
    BY <1>1
<1>5. IsFiniteSet(Rd)
  BY ReadingNext, n \in Nat
<1> HIDE DEF Rd, W
<1>6. Cardinality(W) = Cardinality(Rd)
  BY <1>3, <1>4, <1>5, CardinalityOfImage
<1>7. ASSUME NEW x \in Rd, \A y \in Rd : x <= y PROVE Latest(Fetched, m) = p[x]
  <2>1. p[x] \in W /\ p[x] \in Nat
    BY <1>1, <1>2
  <2>2. ASSUME NEW j \in W PROVE j <= p[x] /\ j \in Nat
    <3>1. PICK y \in Rd : j = p[y]
      BY <1>3
    <3>2. x = y \/ x < y
      BY <1>1, <1>7
    <3> QED
      BY <1>1, <3>1, <3>2
  <2>3. Latest(Fetched, m) \in W /\ \A j \in W : j <= Latest(Fetched, m)
    BY <2>1, <2>2 DEF Latest, W
  <2> QED
    BY <2>1, <2>2, <2>3
<1> QED
  BY <1>6, <1>7 DEF W, Rd

\* What the sorted and cut list of the counted hits holds.
LEMMA RankedEvidence ==
  ASSUME LogSearchAssumption, hits \in Seq(Docs), NEW p, Enumerates(p, hits, Fetched),
         Len(hits) <= MaxLines, Len(hits) <= MaxDocs,
         list = SubSeq(Ranked, 1, Min({Len(Ranked), MaxLines}))
  PROVE  /\ list \in Seq([msg : Shown, n : 1 .. MaxDocs])
         /\ {list[i].msg : i \in DOMAIN list} = Texts(Fetched)
         /\ Len(list) = Cardinality(Texts(Fetched))
         /\ \A i \in DOMAIN list : list[i].n = Cardinality(With(Fetched, list[i].msg))
         /\ \A i, j \in DOMAIN list : i < j => Precedes(list[i].msg, list[j].msg)
<1> DEFINE n == Len(hits)
           C == FoldLeft(Counted, <<>>, hits)
           c == Len(C)
<1>1. PICK f : Tallies(f, C, n)
  BY CountedTallies
<1>2. Ranked = FoldLeft(Place, <<>>, C)
  BY DEF Ranked
<1> HIDE DEF C
<1>3. C \in Seq(Row) /\ c \in Nat /\ n \in Nat /\ MaxLines \in Nat /\ MaxDocs \in Nat
  BY <1>1 DEF Tallies, LogSearchAssumption
<1>4. PICK s : Sorts(s, Ranked, C, c)
  BY <1>2, <1>3, RankedSorts
<1>5. /\ \A i \in 1 .. c : /\ f[i] \in Reading(C[i].msg, n) /\ f[i] \in 1 .. n
                           /\ \A x \in Reading(C[i].msg, n) : f[i] <= x
                           /\ C[i].n = Cardinality(Reading(C[i].msg, n))
      /\ \A i, j \in 1 .. c : i < j => f[i] < f[j]
      /\ f \in [1 .. c -> 1 .. n]
  <2>1. \A m : Reading(m, n) \subseteq 1 .. n
    BY DEF Reading
  <2>2. \A i \in 1 .. c : f[i] \in 1 .. n
    BY <1>1, <2>1 DEF Tallies
  <2> QED
    BY <1>1, <2>2 DEF Tallies
<1> HIDE DEF c, n
<1>6. \A i, j \in 1 .. c : f[i] = f[j] => i = j
  BY <1>3, <1>5
<1>7. c <= n
  <2>1. f \in Injection(1 .. c, 1 .. n)
    BY <1>5, <1>6 DEF Injection, IsInjective
  <2>2. IsFiniteSet(1 .. n) /\ Cardinality(1 .. n) = n /\ Cardinality(1 .. c) = c
    BY <1>3, FirstPositions
  <2>3. Cardinality(1 .. c) <= Cardinality(1 .. n)
    BY <2>1, <2>2, FS_Injection
  <2> QED
    BY <2>2, <2>3
<1>8. /\ Ranked \in Seq(Row) /\ Len(Ranked) = c
      /\ \A x \in 1 .. c : s[x] \in 1 .. c /\ Ranked[x] = C[s[x]]
      /\ \A i \in 1 .. c : \E x \in 1 .. c : s[x] = i
      /\ \A x, y \in 1 .. c : x < y => Above(C, s[x], s[y])
  BY <1>4 DEF Sorts
<1>9. list = Ranked
  <2>1. c <= MaxLines
    BY <1>3, <1>7 DEF n
  <2>2. Min({c, MaxLines}) = c
    BY <1>3, <2>1, SmallerOf
  <2>3. list = SubSeq(Ranked, 1, c)
    BY <1>8, <2>2
  <2> QED
    BY <1>8, <2>3
<1>10. /\ DOMAIN list = 1 .. c /\ Len(list) = c
       /\ \A x \in 1 .. c : s[x] \in 1 .. c /\ list[x] = C[s[x]]
  <2>1. DOMAIN Ranked = 1 .. Len(Ranked)
    BY <1>8
  <2> QED
    BY <1>8, <1>9, <2>1
<1>11. \A i \in 1 .. c : /\ C[i].n = Cardinality(With(Fetched, C[i].msg))
                         /\ Latest(Fetched, C[i].msg) = p[f[i]]
  <2>1. ASSUME NEW i \in 1 .. c
        PROVE  /\ C[i].n = Cardinality(With(Fetched, C[i].msg))
               /\ Latest(Fetched, C[i].msg) = p[f[i]]
    <3>1. /\ Cardinality(With(Fetched, C[i].msg)) = Cardinality(Reading(C[i].msg, n))
          /\ \A x \in Reading(C[i].msg, n) :
               (\A y \in Reading(C[i].msg, n) : x <= y) => Latest(Fetched, C[i].msg) = p[x]
      BY ReadingFetched DEF n
    <3> QED
      BY <1>5, <3>1
  <2> QED
    BY <2>1
<1>12. Texts(Fetched) = {C[i].msg : i \in 1 .. c}
  <2>1. \A x \in 1 .. n : p[x] \in Fetched /\ Cut[window[p[x]].msg] = Text(x)
    BY DEF Enumerates, Text, n
  <2>2. \A i \in Fetched : \E x \in 1 .. n : p[x] = i
    BY DEF Enumerates, n
  <2>3. \A x \in 1 .. n : \E i \in 1 .. c : C[i].msg = Text(x)
    BY <1>1 DEF Tallies, c
  <2>4. \A i \in 1 .. c : f[i] \in 1 .. n /\ Text(f[i]) = C[i].msg
    BY <1>5 DEF Reading
  <2>5. ASSUME NEW t \in Texts(Fetched) PROVE t \in {C[i].msg : i \in 1 .. c}
    <3>1. PICK i \in Fetched : t = Cut[window[i].msg]
      BY DEF Texts
    <3>2. PICK x \in 1 .. n : p[x] = i
      BY <2>2
    <3> QED
      BY <2>1, <2>3, <3>1, <3>2
  <2>6. ASSUME NEW i \in 1 .. c PROVE C[i].msg \in Texts(Fetched)
    BY <2>1, <2>4 DEF Texts
  <2> QED
    BY <2>5, <2>6
<1>13. {list[i].msg : i \in DOMAIN list} = Texts(Fetched)
  <2>1. \A x \in 1 .. c : list[x].msg \in {C[i].msg : i \in 1 .. c}
    BY <1>10
  <2>2. ASSUME NEW i \in 1 .. c PROVE C[i].msg \in {list[x].msg : x \in 1 .. c}
    <3>1. PICK x \in 1 .. c : s[x] = i
      BY <1>8
    <3>2. list[x].msg = C[i].msg
      BY <1>10, <3>1
    <3> QED
      BY <3>2
  <2>3. {list[x].msg : x \in 1 .. c} = {C[i].msg : i \in 1 .. c}
    <3>1. ASSUME NEW t \in {list[x].msg : x \in 1 .. c} PROVE t \in {C[i].msg : i \in 1 .. c}
      BY <2>1
    <3>2. ASSUME NEW t \in {C[i].msg : i \in 1 .. c} PROVE t \in {list[x].msg : x \in 1 .. c}
      BY <2>2
    <3> QED
      BY <3>1, <3>2
  <2> QED
    BY <1>10, <1>12, <2>3
<1>14. Len(list) = Cardinality(Texts(Fetched))
  <2> DEFINE g == [i \in 1 .. c |-> C[i].msg]
  <2>1. \A i \in 1 .. c : g[i] = C[i].msg
    OBVIOUS
  <2>2. Texts(Fetched) = {g[i] : i \in 1 .. c}
    BY <1>12
  <2> HIDE DEF g
  <2>3. ASSUME NEW i \in 1 .. c, NEW j \in 1 .. c, g[i] = g[j] PROVE i = j
    <3>1. f[i] <= f[j] /\ f[j] <= f[i]
      BY <1>5, <2>1, <2>3
    <3> QED
      BY <1>5, <1>6, <3>1
  <2>4. Cardinality({g[i] : i \in 1 .. c}) = Cardinality(1 .. c)
    <3> DEFINE V == 1 .. c
    <3>1. IsFiniteSet(V) /\ \A i, j \in V : g[i] = g[j] => i = j
      BY <1>3, <2>3, FirstPositions
    <3> HIDE DEF V
    <3>2. Cardinality({g[i] : i \in V}) = Cardinality(V)
      BY <3>1, CardinalityOfImage
    <3> QED
      BY <3>2 DEF V
  <2> QED
    BY <1>3, <1>10, <2>2, <2>4, FirstPositions
<1>15. ASSUME NEW x \in DOMAIN list PROVE list[x].n = Cardinality(With(Fetched, list[x].msg))
  <2>1. s[x] \in 1 .. c /\ list[x] = C[s[x]]
    BY <1>10
  <2> QED
    BY <1>11, <2>1
<1>16. ASSUME NEW x \in DOMAIN list, NEW y \in DOMAIN list, x < y
       PROVE  Precedes(list[x].msg, list[y].msg)
  <2> DEFINE i == s[x]
             j == s[y]
  <2>1. i \in 1 .. c /\ j \in 1 .. c /\ list[x] = C[i] /\ list[y] = C[j] /\ Above(C, i, j)
    BY <1>8, <1>10, <1>16
  <2> HIDE DEF i, j
  <2>2. i < j => p[f[i]] > p[f[j]]
    <3>1. i < j => f[i] < f[j] /\ f[i] \in 1 .. n /\ f[j] \in 1 .. n
      BY <1>5, <2>1
    <3> QED
      BY <3>1 DEF Enumerates, n
  <2> QED
    BY <1>11, <2>1, <2>2 DEF Precedes, Above
<1>17. list \in Seq([msg : Shown, n : 1 .. MaxDocs])
  <2>1. ASSUME NEW i \in 1 .. c PROVE C[i] \in [msg : Shown, n : 1 .. MaxDocs]
    <3>1. C[i] \in [msg : Shown, n : Nat] /\ C[i].n \in Nat
      <4>1. C[i] \in Row
        BY <1>3 DEF c
      <4> QED
        BY <4>1 DEF Row
    <3>2. /\ Reading(C[i].msg, n) \in SUBSET (1 .. n)
          /\ Reading(C[i].msg, n) # {} /\ IsFiniteSet(Reading(C[i].msg, n))
      <4>1. Reading(C[i].msg, n) \in SUBSET (1 .. n)
        BY DEF Reading
      <4>2. Reading(C[i].msg, n) # {}
        BY <1>5
      <4> QED
        BY <1>3, <4>1, <4>2, ReadingNext
    <3>3. Cardinality(Reading(C[i].msg, n)) <= n
      BY <1>3, <3>2, FirstPositions, FS_Subset
    <3>4. Cardinality(Reading(C[i].msg, n)) # 0
      BY <3>2, FS_EmptySet
    <3>5. C[i].n \in 1 .. MaxDocs
      BY <1>3, <1>5, <3>1, <3>3, <3>4 DEF n
    <3> QED
      BY <3>1, <3>5
  <2>2. \A x \in 1 .. c : list[x] \in [msg : Shown, n : 1 .. MaxDocs]
    BY <1>10, <2>1
  <2>3. list \in Seq(Row) /\ \A x \in 1 .. Len(list) : list[x] \in [msg : Shown, n : 1 .. MaxDocs]
    BY <1>8, <1>9, <1>10, <2>2
  <2> DEFINE X == [msg : Shown, n : 1 .. MaxDocs]
  <2> HIDE DEF X
  <2>4. list \in Seq(Row) /\ \A x \in 1 .. Len(list) : list[x] \in X
    BY <2>3 DEF X
  <2>5. list \in Seq(X)
    BY <2>4, NarrowSeq
  <2> QED
    BY <2>5 DEF X
<1> QED
  BY <1>13, <1>14, <1>15, <1>16, <1>17

-----------------------------------------------------------------------------
(* The invariant: from the query on, the index no longer matters to an     *)
(* attempt, and its hits are the lines Fetched tells.                      *)

Queried == step \in {"aggregate", "done", "no hits"}

LogInv ==
  /\ types \in Batches
  /\ window \in Seq(Docs) /\ Len(window) <= MaxDocs
  /\ hits \in Seq(Docs)
  /\ inventory \in IPs \cup {NoIP} /\ ip \in IPs \cup {NoIP}
  /\ step \in Steps
  /\ Queried => /\ \E p : Enumerates(p, hits, Fetched)
                /\ Len(hits) <= MaxLines /\ Len(hits) <= MaxDocs
  /\ step = "no hits" => hits = <<>>
  /\ IF step = "done"
       THEN list = SubSeq(Ranked, 1, Min({Len(Ranked), MaxLines}))
       ELSE list = <<>>

\* While the index, the address and the types stay the same, so do the lines.
LEMMA FetchedStays ==
  ASSUME window' = window, ip' = ip, types' = types
  PROVE  /\ Fetched' = Fetched
         /\ \A p, l, S : Enumerates(p, l, S)' <=> Enumerates(p, l', S')
<1>1. Fetched' = Fetched
  BY DEF Fetched, OfHostIn, About
<1> QED
  BY <1>1 DEF Enumerates

\* The invariant holds at first.
LEMMA LogInvInit ==
  ASSUME LogSearchAssumption, LogInit
  PROVE  LogInv
<1>1. Len(<<>>) = 0 /\ <<>> \in Seq(Docs)
  OBVIOUS
<1> QED
  BY <1>1 DEF LogInit, LogInv, Queried, Steps, LogSearchAssumption

\* Every step keeps it.
LEMMA LogInvNext ==
  ASSUME LogSearchAssumption, LogInv, [LogNext]_logVars
  PROVE  LogInv'
<1>0. window \in Seq(Docs) /\ Len(window) \in Nat /\ Len(window) <= MaxDocs /\ MaxDocs \in Nat
  <2>1. window \in Seq(Docs) /\ Len(window) <= MaxDocs
    BY DEF LogInv
  <2> QED
    BY <2>1 DEF LogSearchAssumption
<1>1. CASE Ingest
  <2>1. PICK d \in Docs : window' = Append(window, d)
    BY <1>1 DEF Ingest
  <2>2. window' \in Seq(Docs) /\ Len(window') = Len(window) + 1 /\ Len(window') <= MaxDocs
    <3>1. Len(window) < MaxDocs
      BY <1>1 DEF Ingest
    <3> QED
      BY <1>0, <2>1, <3>1
  <2>3. step \in {"resolve", "search"} /\ UNCHANGED <<types, inventory, step, ip, hits, list>>
    BY <1>1 DEF Ingest
  <2> QED
    BY <2>2, <2>3 DEF LogInv, Queried
<1>2. CASE Resolve
  <2>1. UNCHANGED <<types, window, inventory, hits, list>> /\ step = "resolve"
    BY <1>2 DEF Resolve
  <2>2. ip' \in IPs \cup {NoIP} /\ step' \in {"search", "no ip"}
    <3>1. CASE inventory # NoIP /\ ip' = inventory /\ step' = "search"
      BY <3>1 DEF LogInv
    <3>2. ASSUME NEW B \in Buckets, ip' \in First(B) /\ step' = "search"
          PROVE  ip' \in IPs \cup {NoIP} /\ step' \in {"search", "no ip"}
      <4>1. B \subseteq Sources
        BY DEF Buckets
      <4>2. PICK t \in B : ip' = IPOf[t]
        BY <3>2 DEF First
      <4> QED
        BY <3>2, <4>1, <4>2 DEF LogSearchAssumption
    <3>3. ASSUME NEW B \in Buckets, step' = "no ip" /\ UNCHANGED ip
          PROVE  ip' \in IPs \cup {NoIP} /\ step' \in {"search", "no ip"}
      BY <3>3 DEF LogInv
    <3> QED
      BY <1>2, <3>1, <3>2, <3>3 DEF Resolve
  <2> QED
    BY <2>1, <2>2 DEF LogInv, Queried, Steps
<1>3. CASE Search
  <2>1. UNCHANGED <<types, window, inventory, ip, list>> /\ step = "search" /\ hits' = Newest
    BY <1>3 DEF Search
  <2>2. step' = IF hits' = <<>> THEN "no hits" ELSE "aggregate"
    BY <1>3 DEF Search
  <2>3. /\ \E p : Enumerates(p, hits', Fetched)
        /\ Len(hits') <= MaxLines /\ Len(hits') <= Len(window)
    BY <2>1, NewestFetched DEF LogInv
  <2>4. PICK p : Enumerates(p, hits', Fetched)
    BY <2>3
  <2>5. hits' \in Seq(Docs) /\ Len(hits') \in Nat
    <3>1. hits' \in Seq(Docs)
      BY <2>4 DEF Enumerates
    <3> QED
      BY <3>1
  <2>6. Len(hits') <= MaxDocs
    BY <1>0, <2>3, <2>5
  <2>7. Enumerates(p, hits, Fetched)'
    BY <2>1, <2>4, FetchedStays
  <2> QED
    BY <2>1, <2>2, <2>3, <2>5, <2>6, <2>7 DEF LogInv, Queried, Steps
<1>4. CASE Aggregate
  <2>1. /\ UNCHANGED <<types, window, inventory, ip, hits>>
        /\ step = "aggregate" /\ step' = "done"
        /\ list' = SubSeq(Ranked, 1, Min({Len(Ranked), MaxLines}))
    BY <1>4 DEF Aggregate
  <2>2. PICK p : Enumerates(p, hits, Fetched)
    BY <2>1 DEF LogInv, Queried
  <2>3. Enumerates(p, hits, Fetched)'
    BY <2>1, <2>2, FetchedStays
  <2>4. Ranked' = Ranked
    BY <2>1 DEF Ranked
  <2> QED
    BY <2>1, <2>3, <2>4 DEF LogInv, Queried, Steps
<1>5. CASE UNCHANGED logVars
  <2>1. UNCHANGED <<types, window, inventory, step, ip, hits, list>>
    BY <1>5 DEF logVars
  <2>2. Queried' => \E p : Enumerates(p, hits, Fetched)'
    <3> SUFFICES ASSUME Queried' PROVE \E p : Enumerates(p, hits, Fetched)'
      OBVIOUS
    <3>1. PICK p : Enumerates(p, hits, Fetched)
      BY <2>1 DEF LogInv, Queried
    <3> QED
      BY <2>1, <3>1, FetchedStays
  <2>3. Ranked' = Ranked
    BY <2>1 DEF Ranked
  <2> QED
    BY <2>1, <2>2, <2>3 DEF LogInv, Queried
<1> QED
  BY <1>1, <1>2, <1>3, <1>4, <1>5 DEF LogNext

(* The invariant holds in every state of an attempt.                       *)
THEOREM LogInvariance ==
  LogSpec => []LogInv
<1>1. LogInit => LogInv
  BY LogInvInit, LogSearchAssumption
<1>2. LogInv /\ [LogNext]_logVars => LogInv'
  BY LogInvNext, LogSearchAssumption
<1> QED
  BY <1>1, <1>2, PTL DEF LogSpec

\* What the invariant says of the evidence.
LEMMA LogInvEvidence ==
  ASSUME LogSearchAssumption, LogInv
  PROVE  LogTypeOK /\ EvidenceRanked
<1>1. step = "no hits" => Fetched = {}
  <2> SUFFICES ASSUME step = "no hits" PROVE Fetched = {}
    OBVIOUS
  <2>1. PICK p : Enumerates(p, hits, Fetched)
    BY DEF LogInv, Queried
  <2>2. hits = <<>>
    BY DEF LogInv
  <2>3. \A i \in Fetched : \E x \in 1 .. Len(hits) : p[x] = i
    BY <2>1 DEF Enumerates
  <2> QED
    BY <2>2, <2>3, NoPositions
<1>2. CASE step = "done"
  <2>1. PICK p : Enumerates(p, hits, Fetched)
    BY <1>2 DEF LogInv, Queried
  <2>2. /\ hits \in Seq(Docs) /\ Len(hits) <= MaxLines /\ Len(hits) <= MaxDocs
        /\ list = SubSeq(Ranked, 1, Min({Len(Ranked), MaxLines}))
    BY <1>2 DEF LogInv, Queried
  <2>3. /\ list \in Seq([msg : Shown, n : 1 .. MaxDocs])
        /\ {list[i].msg : i \in DOMAIN list} = Texts(Fetched)
        /\ Len(list) = Cardinality(Texts(Fetched))
        /\ \A i \in DOMAIN list : list[i].n = Cardinality(With(Fetched, list[i].msg))
        /\ \A i, j \in DOMAIN list : i < j => Precedes(list[i].msg, list[j].msg)
    BY <2>1, <2>2, RankedEvidence
  <2> QED
    BY <1>2, <2>3 DEF LogInv, LogTypeOK, EvidenceRanked
<1>3. CASE step # "done"
  <2>1. list = <<>>
    BY <1>3 DEF LogInv
  <2>2. list \in Seq([msg : Shown, n : 1 .. MaxDocs])
    BY <2>1
  <2> QED
    BY <1>1, <1>3, <2>2 DEF LogInv, LogTypeOK, EvidenceRanked
<1> QED
  BY <1>2, <1>3

(* Every variable keeps its type; a text shown to the model stands for one *)
(* line of the window at least (aggregate.go:40-45).                       *)
THEOREM LogTypeCorrect ==
  LogSpec => []LogTypeOK
<1>1. LogInv => LogTypeOK
  BY LogInvEvidence, LogSearchAssumption
<1> QED
  BY <1>1, LogInvariance, PTL

(* The model is shown the texts of the newest lines of the host, each once *)
(* and with its number, the most frequent first and of equally frequent    *)
(* ones the latest first, whatever the index holds and however many lines  *)
(* truncation makes equal (es.go:99-172, aggregate.go:24-59).              *)
THEOREM EvidenceAccurate ==
  LogSpec => []EvidenceRanked
<1>1. LogInv => EvidenceRanked
  BY LogInvEvidence, LogSearchAssumption
<1> QED
  BY <1>1, LogInvariance, PTL
=============================================================================
