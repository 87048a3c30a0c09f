---------------------------- MODULE Library_proofs ----------------------------
(***************************************************************************)
(* Theorems of Library: every id is what it is taken for (TypeOK), siblings *)
(* keep different names, no document drops out of the tree, and a deletion *)
(* takes exactly what was confirmed.                                       *)
(***************************************************************************)
EXTENDS Library, FiniteSetTheorems, SequenceTheorems, WellFoundedInduction, TLAPS

-----------------------------------------------------------------------------
(* Numbers *)

LEMMA LeastNatural ==
    ASSUME NEW T \in SUBSET Nat, T # {}
    PROVE  \E k \in T : \A j \in T : k <= j
<1> DEFINE R == OpToRel(<, Nat)
<1>1. \E k \in T : \A j \in T : <<j, k>> \notin R
  BY NatLessThanWellFounded, WFMin
<1>2. \A j, k \in Nat : j < k => <<j, k>> \in R
  BY DEF OpToRel
<1>3. PICK k \in T : \A j \in T : <<j, k>> \notin R
  BY <1>1
<1> HIDE DEF R
<1>4. \A j \in T : j \in Nat /\ k \in Nat /\ ~(j < k)
  BY <1>2, <1>3, Zenon
<1>5. \A j \in T : k <= j
  BY <1>4
<1> QED
  BY <1>5

-----------------------------------------------------------------------------
(* Trees *)

\* f[n] is what n rounds of F make of f[0].
Repeats(A, F, N, f) == f \in [0 .. N -> A] /\ \A n \in 1 .. N : f[n] = F[f[n - 1]]
LEMMA Iterates ==
    ASSUME NEW A, NEW a \in A, NEW F \in [A -> A], NEW N \in Nat
    PROVE  \E f : Repeats(A, F, N, f) /\ f[0] = a
<1> DEFINE Step(f, n) == IF n = 0 THEN a ELSE F[f[n - 1]]
           Built(f, m) == f \in [0 .. m -> A] /\ \A n \in 0 .. m : f[n] = Step(f, n)
           Bad == {m \in Nat : ~\E f : Built(f, m)}
<1>1. Bad = {}
  <2> SUFFICES ASSUME Bad # {} PROVE FALSE
    OBVIOUS
  <2>1. PICK m \in Bad : \A j \in Bad : m <= j
    BY LeastNatural
  <2>2. CASE m = 0
    <3> DEFINE f == [n \in 0 .. 0 |-> a]
    <3>1. Built(f, 0)
      OBVIOUS
    <3> QED BY <2>1, <2>2, <3>1
  <2>3. CASE m # 0
    <3>1. m - 1 \in Nat /\ m - 1 \notin Bad
      <4>1. m \in Nat
        OBVIOUS
      <4>2. m - 1 \in Nat /\ ~(m <= m - 1)
        BY <2>3, <4>1
      <4> HIDE DEF Bad
      <4> QED BY <2>1, <4>2
    <3>2. PICK f : Built(f, m - 1)
      BY <3>1
    <3> DEFINE g == [n \in 0 .. m |-> IF n < m THEN f[n] ELSE F[f[m - 1]]]
    <3>3. g \in [0 .. m -> A]
      BY <2>1, <3>1, <3>2
    <3>4. \A n \in 0 .. m : g[n] = Step(g, n)
      <4> TAKE n \in 0 .. m
      <4>1. CASE n < m
        <5>1. n \in 0 .. m - 1
          BY <2>1, <3>1, <4>1
        <5>2. f[n] = Step(f, n)
          BY <3>2, <5>1
        <5>3. n # 0 => g[n - 1] = f[n - 1]
          BY <2>1, <4>1
        <5> QED BY <4>1, <5>2, <5>3
      <4>2. CASE n = m
        BY <2>1, <2>3, <4>2
      <4> QED BY <2>1, <4>1, <4>2
    <3> QED BY <2>1, <3>3, <3>4
  <2> QED BY <2>2, <2>3
<1>2. PICK f : Built(f, N)
  BY <1>1
<1>3. f[0] = a /\ Repeats(A, F, N, f)
  BY <1>2 DEF Repeats
<1> QED BY <1>3

\* What links reach is one growing set per round.
LEMMA ReachUnfolds ==
    ASSUME NEW links, IsFiniteSet(links), NEW Top
    PROVE  \E upTo :
               /\ Reach(links, Top) = upTo[Cardinality(links)]
               /\ upTo[0] = Top
               /\ \A n \in 1 .. Cardinality(links) :
                     upTo[n] = upTo[n - 1] \cup Follow(links, upTo[n - 1])
<1> DEFINE N == Cardinality(links)
           A == SUBSET (Top \cup {l[2] : l \in links})
           F == [S \in A |-> S \cup Follow(links, S)]
           Built(h) == h = [n \in 0 .. N |->
                               IF n = 0 THEN Top ELSE h[n - 1] \cup Follow(links, h[n - 1])]
<1>0. N \in Nat
  BY FS_CardinalityType
<1>1. Top \in A /\ F \in [A -> A]
  BY DEF Follow
<1>a. PICK f : Repeats(A, F, N, f) /\ f[0] = Top
  <2> HIDE DEF A, F, N
  <2> QED BY <1>0, <1>1, Iterates
<1>2. f \in [0 .. N -> A] /\ f[0] = Top /\ \A n \in 1 .. N : f[n] = F[f[n - 1]]
  <2> HIDE DEF A, F, N
  <2> QED BY <1>a DEF Repeats
<1>3. Built(f)
  <2>1. \A n \in 1 .. N : f[n] = f[n - 1] \cup Follow(links, f[n - 1])
    <3> TAKE n \in 1 .. N
    <3>1. n - 1 \in 0 .. N
      BY <1>0
    <3>2. f[n - 1] \in A
      BY <1>2, <3>1
    <3> HIDE DEF A
    <3> QED BY <1>2, <3>2
  <2>2. f = [n \in 0 .. N |-> f[n]]
    BY <1>2
  <2>3. \A n \in 0 .. N : f[n] = IF n = 0 THEN Top ELSE f[n - 1] \cup Follow(links, f[n - 1])
    BY <1>0, <1>2, <2>1
  <2> QED BY <2>2, <2>3
<1> DEFINE upTo == CHOOSE h : Built(h)
<1>4. Built(upTo)
  <2> HIDE DEF Built
  <2> QED BY <1>3
<1>5. Reach(links, Top) = upTo[N]
  BY DEF Reach
<1> HIDE DEF upTo, N
<1>6. upTo[0] = Top /\ \A n \in 1 .. N : upTo[n] = upTo[n - 1] \cup Follow(links, upTo[n - 1])
  <2>1. \A n \in 0 .. N : upTo[n] = IF n = 0 THEN Top ELSE upTo[n - 1] \cup Follow(links, upTo[n - 1])
    BY <1>4
  <2>2. 0 \in 0 .. N /\ \A n \in 1 .. N : n \in 0 .. N /\ n # 0
    BY <1>0
  <2> QED BY <2>1, <2>2
<1> QED BY <1>5, <1>6 DEF N

Closed(links, S) == \A l \in links : l[1] \in S => l[2] \in S

\* Reach is the least set with Top in it that the links do not lead out of: a
\* round that adds something follows a link no earlier round could follow, so
\* there are at most as many rounds as links.
LEMMA ReachLeast ==
    ASSUME NEW links, IsFiniteSet(links), NEW Top
    PROVE  /\ Top \subseteq Reach(links, Top)
           /\ Closed(links, Reach(links, Top))
           /\ \A S : Top \subseteq S /\ Closed(links, S) => Reach(links, Top) \subseteq S
<1> DEFINE N == Cardinality(links)
<1>0. N \in Nat
  BY FS_CardinalityType
<1>1. PICK upTo :
          /\ Reach(links, Top) = upTo[N]
          /\ upTo[0] = Top
          /\ \A n \in 1 .. N :
                upTo[n] = upTo[n - 1] \cup Follow(links, upTo[n - 1])
  BY ReachUnfolds
<1> DEFINE Followed(n) == {l \in links : l[1] \in upTo[n]}
           Stops(n) == Closed(links, upTo[n])
           Slow(n) == Cardinality(Followed(n)) > n
           Fine(n) == Top \subseteq upTo[n] /\ (Stops(n) \/ Slow(n))
           Unfine == {n \in 0 .. N : ~Fine(n)}
<1>2. \A n \in 0 .. N : IsFiniteSet(Followed(n)) /\ Cardinality(Followed(n)) \in 0 .. N
  <2> TAKE n \in 0 .. N
  <2>1. Followed(n) \subseteq links
    OBVIOUS
  <2> HIDE DEF Followed
  <2>2. IsFiniteSet(Followed(n)) /\ Cardinality(Followed(n)) <= N
    BY <2>1, FS_Subset
  <2> QED BY <1>0, <2>2, FS_CardinalityType
<1>3. Unfine = {}
  <2> SUFFICES ASSUME Unfine # {} PROVE FALSE
    OBVIOUS
  <2>1. PICK n \in Unfine : \A j \in Unfine : n <= j
    <3>1. Unfine \in SUBSET Nat
      BY <1>0
    <3> HIDE DEF Unfine
    <3> QED BY <3>1, LeastNatural
  <2>2. n \in 0 .. N /\ ~Fine(n)
    BY <2>1
  <2>3. n # 0
    <3>1. ASSUME ~Stops(0) PROVE Slow(0)
      <4>1. Followed(0) # {}
        BY <3>1 DEF Closed
      <4> HIDE DEF Followed
      <4>2. Cardinality(Followed(0)) # 0
        BY <1>0, <1>2, <4>1, FS_EmptySet
      <4> QED BY <1>0, <1>2, <4>2
    <3>2. Top \subseteq upTo[0]
      BY <1>1
    <3> HIDE DEF Slow, Stops
    <3> QED BY <2>2, <3>1, <3>2
  <2>4. n \in 1 .. N /\ n - 1 \in 0 .. N /\ ~(n <= n - 1)
    BY <1>0, <2>2, <2>3
  <2>5. Fine(n - 1)
    <3> HIDE DEF Fine
    <3> QED BY <2>1, <2>4
  <2>6. upTo[n] = upTo[n - 1] \cup {l[2] : l \in Followed(n - 1)}
    BY <1>1, <2>4 DEF Follow
  <2>7. CASE Stops(n - 1)
    <3>1. upTo[n] = upTo[n - 1]
      BY <2>6, <2>7 DEF Closed
    <3> QED BY <2>2, <2>5, <2>7, <3>1
  <2>8. CASE ~Stops(n - 1)
    <3>1. Followed(n - 1) \subseteq Followed(n)
      BY <2>6
    <3>2. CASE Followed(n) = Followed(n - 1)
      <4>1. Stops(n)
        BY <2>6, <3>2 DEF Closed
      <4> HIDE DEF Stops
      <4> QED BY <2>2, <2>5, <2>6, <4>1
    <3>3. CASE Followed(n) # Followed(n - 1)
      <4> HIDE DEF Followed
      <4>1. Cardinality(Followed(n - 1)) < Cardinality(Followed(n))
        <5>1. Cardinality(Followed(n - 1)) <= Cardinality(Followed(n))
          BY <1>2, <2>4, <3>1, FS_Subset
        <5>2. Cardinality(Followed(n - 1)) # Cardinality(Followed(n))
          BY <1>2, <2>4, <3>1, <3>3, FS_Subset
        <5> QED BY <1>2, <2>4, <5>1, <5>2
      <4>2. Slow(n)
        BY <1>0, <1>2, <2>4, <2>5, <2>8, <4>1
      <4> HIDE DEF Slow
      <4> QED BY <2>2, <2>5, <2>6, <4>2
    <3> QED BY <3>2, <3>3
  <2> QED BY <2>7, <2>8
<1>4. Fine(N)
  <2> HIDE DEF Fine
  <2> QED BY <1>0, <1>3
<1>5. Top \subseteq upTo[N] /\ Stops(N)
  <2>1. ~Slow(N)
    <3> HIDE DEF Followed
    <3> QED BY <1>0, <1>2
  <2> HIDE DEF Slow, Stops
  <2> QED BY <1>4, <2>1
<1>6. ASSUME NEW S, Top \subseteq S, Closed(links, S)
      PROVE  upTo[N] \subseteq S
  <2> DEFINE Out == {n \in 0 .. N : ~(upTo[n] \subseteq S)}
  <2>1. Out = {}
    <3> SUFFICES ASSUME Out # {} PROVE FALSE
      OBVIOUS
    <3>1. PICK n \in Out : \A j \in Out : n <= j
      <4>1. Out \in SUBSET Nat
        BY <1>0
      <4> HIDE DEF Out
      <4> QED BY <4>1, LeastNatural
    <3>2. n \in 0 .. N /\ ~(upTo[n] \subseteq S)
      BY <3>1
    <3>3. n \in 1 .. N /\ n - 1 \in 0 .. N /\ ~(n <= n - 1)
      <4>1. n # 0
        BY <1>1, <1>6, <3>2
      <4> QED BY <1>0, <3>2, <4>1
    <3>4. upTo[n - 1] \subseteq S
      BY <3>1, <3>3
    <3>5. upTo[n] = upTo[n - 1] \cup Follow(links, upTo[n - 1])
      BY <1>1, <3>3
    <3> QED BY <1>6, <3>2, <3>4, <3>5 DEF Closed, Follow
  <2> QED BY <1>0, <2>1
<1> QED BY <1>1, <1>5, <1>6

\* What is in S takes what is below it along.
Whole(fs, S) == \A g \in DOMAIN fs : fs[g].parent \in S => g \in S

LEMMA LinksFinite ==
    ASSUME NEW fs, IsFiniteSet(DOMAIN fs)
    PROVE  /\ IsFiniteSet(Children(fs))
           /\ IsFiniteSet({<<g, fs[g].parent>> : g \in DOMAIN fs})
<1> DEFINE down == [g \in DOMAIN fs |-> <<fs[g].parent, g>>]
           up == [g \in DOMAIN fs |-> <<g, fs[g].parent>>]
<1>1. down \in Surjection(DOMAIN fs, Children(fs))
  BY DEF Children, Surjection
<1>2. up \in Surjection(DOMAIN fs, {<<g, fs[g].parent>> : g \in DOMAIN fs})
  BY DEF Surjection
<1> HIDE DEF down, up
<1> QED BY <1>1, <1>2, FS_Surjection

\* Walking down: the least set with Top in it that is whole.
LEMMA Down ==
    ASSUME NEW fs, IsFiniteSet(DOMAIN fs), NEW Top
    PROVE  /\ Top \subseteq Reach(Children(fs), Top)
           /\ Whole(fs, Reach(Children(fs), Top))
           /\ \A S : Top \subseteq S /\ Whole(fs, S) => Reach(Children(fs), Top) \subseteq S
<1>1. ASSUME NEW S PROVE Closed(Children(fs), S) <=> Whole(fs, S)
  <2>1. \A g \in DOMAIN fs : <<fs[g].parent, g>> \in Children(fs)
    BY DEF Children
  <2>2. ASSUME NEW l \in Children(fs)
        PROVE  l[2] \in DOMAIN fs /\ l[1] = fs[l[2]].parent
    BY DEF Children
  <2>3. Closed(Children(fs), S) => Whole(fs, S)
    BY <2>1 DEF Closed, Whole
  <2>4. Whole(fs, S) => Closed(Children(fs), S)
    BY <2>2 DEF Closed, Whole
  <2> QED BY <2>3, <2>4
<1> QED BY <1>1, LinksFinite, ReachLeast

\* Walking up.
LEMMA Up ==
    ASSUME NEW fs, IsFiniteSet(DOMAIN fs), NEW f
    PROVE  /\ f \in Above(fs, f)
           /\ \A g \in DOMAIN fs : g \in Above(fs, f) => fs[g].parent \in Above(fs, f)
           /\ \A S : (f \in S /\ \A g \in DOMAIN fs : g \in S => fs[g].parent \in S)
                        => Above(fs, f) \subseteq S
<1> DEFINE links == {<<g, fs[g].parent>> : g \in DOMAIN fs}
           Upward(S) == \A g \in DOMAIN fs : g \in S => fs[g].parent \in S
<1>1. ASSUME NEW S PROVE Closed(links, S) <=> Upward(S)
  <2>1. \A g \in DOMAIN fs : <<g, fs[g].parent>> \in links
    OBVIOUS
  <2>2. ASSUME NEW l \in links
        PROVE  l[1] \in DOMAIN fs /\ l[2] = fs[l[1]].parent
    OBVIOUS
  <2> HIDE DEF links
  <2>3. Closed(links, S) => Upward(S)
    BY <2>1 DEF Closed
  <2>4. Upward(S) => Closed(links, S)
    BY <2>2 DEF Closed
  <2> QED BY <2>3, <2>4
<1>0. IsFiniteSet(links)
  BY LinksFinite
<1>3. Above(fs, f) = Reach(links, {f})
  BY DEF Above
<1> HIDE DEF links
<1>2. /\ {f} \subseteq Reach(links, {f}) /\ Closed(links, Reach(links, {f}))
      /\ \A S : {f} \subseteq S /\ Closed(links, S) => Reach(links, {f}) \subseteq S
  BY <1>0, ReachLeast
<1> QED BY <1>1, <1>2, <1>3

LEMMA TreeWhole ==
    ASSUME NEW fs, IsFiniteSet(DOMAIN fs), NEW f
    PROVE  /\ f \in collectFolderTree(fs, f)
           /\ Whole(fs, collectFolderTree(fs, f))
           /\ \A S : f \in S /\ Whole(fs, S) => collectFolderTree(fs, f) \subseteq S
           /\ collectFolderTree(fs, f) \subseteq DOMAIN fs \cup {f}
<1>1. Whole(fs, DOMAIN fs \cup {f})
  BY DEF Whole
<1>2. \A S : {f} \subseteq S <=> f \in S
  OBVIOUS
<1> QED BY <1>1, <1>2, Down DEF collectFolderTree

LEMMA RenderedWhole ==
    ASSUME NEW fs, IsFiniteSet(DOMAIN fs)
    PROVE  /\ Root \in Rendered(fs)
           /\ Whole(fs, Rendered(fs))
           /\ \A S : Root \in S /\ Whole(fs, S) => Rendered(fs) \subseteq S
           /\ Rendered(fs) \subseteq DOMAIN fs \cup {Root}
<1>1. Whole(fs, DOMAIN fs \cup {Root})
  BY DEF Whole
<1>2. \A S : {Root} \subseteq S <=> Root \in S
  OBVIOUS
<1> QED BY <1>1, <1>2, Down DEF Rendered

\* A folder is below another if and only if that one is above it.
LEMMA BelowIsAbove ==
    ASSUME NEW fs, IsFiniteSet(DOMAIN fs), NEW f, NEW g
    PROVE  g \in collectFolderTree(fs, f) <=> f \in Above(fs, g)
<1>1. ASSUME g \in collectFolderTree(fs, f) PROVE f \in Above(fs, g)
  <2> DEFINE S == {x \in collectFolderTree(fs, f) : f \in Above(fs, x)}
  <2>1. f \in S
    BY TreeWhole, Up
  <2>2. Whole(fs, S)
    <3> SUFFICES ASSUME NEW x \in DOMAIN fs, fs[x].parent \in S PROVE x \in S
      BY DEF Whole
    <3>1. x \in collectFolderTree(fs, f)
      BY TreeWhole DEF Whole
    <3>2. fs[x].parent \in Above(fs, x)
      BY Up
    <3>3. \A y \in DOMAIN fs : y \in Above(fs, x) => fs[y].parent \in Above(fs, x)
      BY Up
    <3>4. Above(fs, fs[x].parent) \subseteq Above(fs, x)
      BY <3>2, <3>3, Up
    <3> QED BY <3>1, <3>4
  <2> HIDE DEF S
  <2>3. collectFolderTree(fs, f) \subseteq S
    BY <2>1, <2>2, TreeWhole
  <2> QED BY <1>1, <2>3 DEF S
<1>2. ASSUME f \in Above(fs, g) PROVE g \in collectFolderTree(fs, f)
  <2> DEFINE S == {x \in Above(fs, g) : g \in collectFolderTree(fs, x)}
  <2>1. g \in S
    BY TreeWhole, Up
  <2>2. ASSUME NEW x \in DOMAIN fs, x \in S PROVE fs[x].parent \in S
    <3> DEFINE p == fs[x].parent
    <3>1. p \in Above(fs, g)
      BY <2>2, Up
    <3>2. Whole(fs, collectFolderTree(fs, p)) /\ p \in collectFolderTree(fs, p)
      BY TreeWhole
    <3>3. x \in collectFolderTree(fs, p)
      BY <3>2 DEF Whole
    <3>4. collectFolderTree(fs, x) \subseteq collectFolderTree(fs, p)
      BY <3>2, <3>3, TreeWhole
    <3> QED BY <2>2, <3>1, <3>4
  <2> HIDE DEF S
  <2>3. Above(fs, g) \subseteq S
    BY <2>1, <2>2, Up
  <2> QED BY <1>2, <2>3 DEF S
<1> QED BY <1>1, <1>2

-----------------------------------------------------------------------------
(* Names *)

LEMMA ChainTyped ==
    ASSUME NEW fs, IsFiniteSet(DOMAIN fs), \A g \in DOMAIN fs : fs[g].name \in Counted, NEW f
    PROVE  Chain(fs, f) \in Seq(Counted)
<1> DEFINE N == Cardinality(DOMAIN fs)
           A == [DOMAIN fs -> Seq(Counted)]
           Higher(u) == [g \in DOMAIN fs |->
                            Append(IF fs[g].parent \in DOMAIN fs THEN u[fs[g].parent] ELSE <<>>,
                                   fs[g].name)]
           None0 == [g \in DOMAIN fs |-> <<>>]
           F == [u \in A |-> Higher(u)]
           Built(h) == h = [n \in 0 .. N |-> [g \in DOMAIN fs |->
                IF n = 0 THEN <<>>
                ELSE Append(IF fs[g].parent \in DOMAIN fs THEN h[n - 1][fs[g].parent] ELSE <<>>, fs[g].name)]]
<1>0. N \in Nat
  BY FS_CardinalityType
<1>1. None0 \in A /\ F \in [A -> A]
  <2>1. None0 \in A
    OBVIOUS
  <2>2. ASSUME NEW u \in A PROVE Higher(u) \in A
    <3> SUFFICES ASSUME NEW g \in DOMAIN fs PROVE Higher(u)[g] \in Seq(Counted)
      OBVIOUS
    <3>1. (IF fs[g].parent \in DOMAIN fs THEN u[fs[g].parent] ELSE <<>>) \in Seq(Counted)
      OBVIOUS
    <3> QED BY <3>1, AppendProperties
  <2> HIDE DEF A, Higher
  <2> QED BY <2>1, <2>2
<1>a. PICK h : Repeats(A, F, N, h) /\ h[0] = None0
  <2> HIDE DEF A, F, N, None0
  <2> QED BY <1>0, <1>1, Iterates
<1>2. h \in [0 .. N -> A] /\ h[0] = None0 /\ \A n \in 1 .. N : h[n] = F[h[n - 1]]
  <2> HIDE DEF A, F, N, None0
  <2> QED BY <1>a DEF Repeats
<1>3. Built(h)
  <2>1. \A n \in 1 .. N : h[n] = Higher(h[n - 1])
    <3> TAKE n \in 1 .. N
    <3>1. n - 1 \in 0 .. N
      BY <1>0
    <3>2. h[n - 1] \in A
      BY <1>2, <3>1
    <3> HIDE DEF A, Higher
    <3> QED BY <1>2, <3>2
  <2>2. ASSUME NEW n \in 0 .. N
        PROVE  h[n] = [g \in DOMAIN fs |->
                IF n = 0 THEN <<>>
                ELSE Append(IF fs[g].parent \in DOMAIN fs THEN h[n - 1][fs[g].parent] ELSE <<>>, fs[g].name)]
    <3>1. CASE n = 0
      BY <1>2, <3>1
    <3>2. CASE n # 0
      <4>1. h[n] = Higher(h[n - 1])
        <5>1. n \in 1 .. N
          BY <1>0, <3>2
        <5> HIDE DEF Higher, F
        <5> QED BY <2>1, <5>1
      <4> QED BY <3>2, <4>1
    <3> QED BY <3>1, <3>2
  <2>3. h = [n \in 0 .. N |-> h[n]]
    BY <1>2
  <2> QED BY <2>2, <2>3
<1> DEFINE up == CHOOSE b : Built(b)
<1>4. Built(up)
  <2> HIDE DEF Built
  <2> QED BY <1>3
<1>5. Chain(fs, f) = IF f \in DOMAIN fs THEN up[N][f] ELSE <<>>
  BY DEF Chain
<1> HIDE DEF up, N
<1> DEFINE Bad == {n \in 0 .. N : up[n] \notin A}
<1>6. Bad = {}
  <2> SUFFICES ASSUME Bad # {} PROVE FALSE
    OBVIOUS
  <2>1. PICK n \in Bad : \A j \in Bad : n <= j
    <3>1. Bad \in SUBSET Nat
      BY <1>0
    <3> HIDE DEF Bad
    <3> QED BY <3>1, LeastNatural
  <2>2. CASE n = 0
    BY <1>1, <1>4, <2>1, <2>2
  <2>3. CASE n # 0
    <3>1. n - 1 \in 0 .. N /\ ~(n <= n - 1) /\ n \in 0 .. N
      BY <1>0, <2>1, <2>3
    <3>2. up[n - 1] \in A
      BY <2>1, <3>1
    <3>3. up[n] = Higher(up[n - 1])
      BY <1>4, <2>3, <3>1
    <3>4. F[up[n - 1]] = Higher(up[n - 1])
      <4> HIDE DEF A, Higher
      <4> QED BY <3>2
    <3> HIDE DEF A, F, Higher
    <3> QED BY <1>1, <2>1, <3>2, <3>3, <3>4
  <2> QED BY <2>2, <2>3
<1>7. up[N] \in A
  BY <1>0, <1>6
<1> QED BY <1>5, <1>7

\* The path of a document is made of names.
LEMMA PathTyped ==
    ASSUME NEW fs, IsFiniteSet(DOMAIN fs), \A g \in DOMAIN fs : fs[g].name \in Counted,
           NEW d, d.title \in Counted
    PROVE  /\ pathForRecord(fs, d) \in Seq(Counted)
           /\ Len(pathForRecord(fs, d)) \in Nat \ {0}
<1> DEFINE names == Append(Chain(fs, d.folder), d.title)
<1>1. names \in Seq(Counted) /\ Len(names) = Len(Chain(fs, d.folder)) + 1
  BY ChainTyped, AppendProperties
<1>2. Len(Chain(fs, d.folder)) \in Nat
  BY ChainTyped
<1>3. \A c \in Counted : Clean(c) \in Counted
  BY NamesKnown DEF Counted, Clean
<1> HIDE DEF names
<1>4. pathForRecord(fs, d) = [k \in 1 .. Len(names) |-> Clean(names[k])]
  BY <1>1 DEF pathForRecord, names
<1>5. [k \in 1 .. Len(names) |-> Clean(names[k])] \in Seq(Counted)
  BY <1>1, <1>3
<1>6. Len([k \in 1 .. Len(names) |-> Clean(names[k])]) = Len(names)
  BY <1>1
<1> QED BY <1>1, <1>2, <1>4, <1>5, <1>6

-----------------------------------------------------------------------------
(* What the state is made of, given the ids D of documents and F of folders *)

FolderIn(F) == [name : Counted, parent : F \cup {Root}]
DocIn(F) == [title : Counted, folder : F \cup {Root}, origin : File \cup {None}, text : Text]
FolderMaps(F) == UNION {[E -> FolderIn(F)] : E \in SUBSET F}
DocMaps(D, F) == UNION {[E -> DocIn(F)] : E \in SUBSET D}
Places(D, F) == UNION {[E -> F \cup {Root}] : E \in SUBSET D}
Made(S) == [id : S, title : Counted] \cup {None}

\* The calls, by what they carry when.
Creating(F) ==
    [fn : {"createFolder"}, pc : {"resolve", "check", "write"}, name : Counted, parent : F \cup {Root}]
ToRename(F) == [fn : {"renameFolder"}, pc : {"read"}, id : F, name : Counted, found : {None}]
Renaming(F) ==
    [fn : {"renameFolder"}, pc : {"check", "write"}, id : F, name : Counted, found : FolderIn(F)]
Deleting(D, F) ==
    [fn : {"deleteFolder"}, pc : {"folders", "docs", "drop"}, id : F, doomed : SUBSET F,
     victims : SUBSET D]
ToMove(D, F) == [fn : {"move"}, pc : {"read"}, id : D, folder : F \cup {Root}, found : {None}]
Moving(D, F) ==
    [fn : {"move"}, pc : {"resolve", "write"}, id : D, folder : F \cup {Root}, found : DocIn(F)]
ToSave(D) ==
    [fn : {"save"}, pc : {"check", "open"}, id : D \cup {None}, title : Counted, text : Text,
     folder : {None}, origin : {None}, grow : {FALSE}]
Saving(D, F) ==
    [fn : {"save"}, pc : {"write"}, id : D \cup {None}, title : Counted, text : Text,
     folder : F \cup {Root}, origin : File \cup {None}, grow : {FALSE}]
Making(F) ==
    [fn : {"save"}, pc : {"resolve0", "check", "open", "resolve", "write"}, id : {None},
     title : Counted, text : Text, folder : F \cup {Root}, origin : File \cup {None}, grow : {TRUE}]
CallIn(D, F) ==
    Creating(F) \cup ToRename(F) \cup Renaming(F) \cup Deleting(D, F) \cup ToMove(D, F)
    \cup Moving(D, F) \cup ToSave(D) \cup Saving(D, F) \cup Making(F)

\* The scripts.
OfFolder(F) == [op : {"createFolder", "renameFolder"}, pc : {"lists"}, got : Made(F)]
OfDoc(D) == [op : {"moveDocument", "createDocument"}, pc : {"lists"}, got : Made(D)]
Opening(D) ==
    [op : {"switchDocument", "showProperties"}, pc : {"open", "lists"}, got : {None}, id : D]
Taking(D) == [op : {"importContent"}, pc : {"created", "lists"}, got : Made(D), text : Text]
Clearing(D, F) ==
    [op : {"deleteFolder"}, pc : {"lists"}, got : {None}, id : F,
     was : FolderMaps(F) \X DocMaps(D, F)]
Erasing(D) ==
    [op : {"deleteDocument"}, pc : {"erase", "lists"}, got : {None}, id : D, open : BOOLEAN]
Importing(D, F, steps, roots, files, made) ==
    [op : {"importFolder"}, pc : steps, got : made, was : FolderMaps(F) \X DocMaps(D, F),
     texts : [File -> Nat], left : SUBSET File, root : roots, file : files,
     parent : F \cup {Root}, rest : Seq(Base), seen : DocMaps(D, F), fl : FolderMaps(F),
     first : D \cup {None}]
Import1(D, F) == Importing(D, F, {"list", "root"}, F \cup {None}, {None}, Made(F))
Import2(D, F) == Importing(D, F, {"docs", "file", "lists"}, F, File \cup {None}, Made(F))
Import3(D, F) == Importing(D, F, {"list", "walk"}, F, File, Made(F))
Import4(D, F) == Importing(D, F, {"created", "saved"}, F, File, Made(D))
Pulling(D, F) ==
    [op : {"pull"}, pc : {"maps", "chain", "record", "lists"}, got : {None}, id : D \cup {None},
     path : Seq(Counted), parent : F \cup {Root}, k : Nat \ {0}, fl : FolderMaps(F)]
ScriptIn(D, F) ==
    OfFolder(F) \cup OfDoc(D) \cup Opening(D) \cup Taking(D) \cup Clearing(D, F) \cup Erasing(D)
    \cup Import1(D, F) \cup Import2(D, F) \cup Import3(D, F) \cup Import4(D, F) \cup Pulling(D, F)

\* Which call a script awaits at which step.
Fits(s, c) == <<s.op, s.pc, c.fn>> \in
    {<<"createFolder", "lists", "createFolder">>, <<"renameFolder", "lists", "renameFolder">>,
     <<"moveDocument", "lists", "move">>, <<"createDocument", "lists", "save">>,
     <<"importContent", "created", "save">>, <<"importContent", "lists", "save">>,
     <<"deleteFolder", "lists", "deleteFolder">>,
     <<"importFolder", "root", "createFolder">>, <<"importFolder", "walk", "createFolder">>,
     <<"importFolder", "created", "save">>, <<"importFolder", "saved", "save">>}
\* A script that made or saved a document knows which.
Ripe(s) == (s.op \in {"createDocument", "importContent"} \/ s.pc \in {"created", "saved"}) =>
               s.got # None
InPath(s) == s.op = "pull" => s.k <= Len(s.path)

Own(t, tk, cl, D, F) ==
    /\ t \in DOMAIN cl => t \in DOMAIN tk /\ cl[t] \in CallIn(D, F) /\ Fits(tk[t], cl[t])
    /\ t \in DOMAIN tk => tk[t] \in ScriptIn(D, F) /\ InPath(tk[t])
    /\ t \in DOMAIN tk \ DOMAIN cl => Ripe(tk[t])

NumbersIn(D, F) == ids \in Nat /\ D \cup F \subseteq 1 .. ids /\ D \cap F = {}
StoreIn(D, F) == folders \in FolderMaps(F) /\ docs \in DocMaps(D, F)
TasksIn(D, F) == \A t \in Tasks : Own(t, task, call, D, F)
PageIn(D, F) ==
    /\ view \in [folders : FolderMaps(F), docs : Places(D, F)]
    /\ current \in D \cup {None}
    /\ armed \in [doc : D \cup {None}, folder : F \cup {None}, props : D \cup {None}]
    /\ modal \in {None} \cup [kind : {"confirm", "confirm-folder", "properties"}, id : D \cup F]
TypedIn(D, F) == NumbersIn(D, F) /\ StoreIn(D, F) /\ TasksIn(D, F) /\ PageIn(D, F)
Counters ==
    /\ DOMAIN task \subseteq Tasks /\ DOMAIN call \subseteq Tasks
    /\ disk \in [File -> 0 .. MaxDisk] /\ manner \in Manner /\ picker \in BOOLEAN
    /\ ops \in 0 .. MaxOps[manner] /\ fails \in 0 .. MaxFails[manner]
Typed == Counters /\ \E D, F \in SUBSET Nat : TypedIn(D, F)

LEMMA FolderMapsAre ==
    ASSUME NEW F, NEW fs
    PROVE  fs \in FolderMaps(F) <=> DOMAIN fs \subseteq F /\ fs \in [DOMAIN fs -> FolderIn(F)]
BY DEF FolderMaps
LEMMA DocMapsAre ==
    ASSUME NEW D, NEW F, NEW ds
    PROVE  ds \in DocMaps(D, F) <=> DOMAIN ds \subseteq D /\ ds \in [DOMAIN ds -> DocIn(F)]
BY DEF DocMaps
LEMMA PlacesAre ==
    ASSUME NEW D, NEW F, NEW ps
    PROVE  ps \in Places(D, F) <=> DOMAIN ps \subseteq D /\ ps \in [DOMAIN ps -> F \cup {Root}]
BY DEF Places

LEMMA MapSteps ==
    ASSUME NEW D, NEW F
    PROVE  /\ \A fs \in FolderMaps(F), f \in F, r \in FolderIn(F) : With(fs, f, r) \in FolderMaps(F)
           /\ \A ds \in DocMaps(D, F), d \in D, r \in DocIn(F) : With(ds, d, r) \in DocMaps(D, F)
           /\ \A fs \in FolderMaps(F) : \A f : Without(fs, f) \in FolderMaps(F)
           /\ \A ds \in DocMaps(D, F) : \A d : Without(ds, d) \in DocMaps(D, F)
           /\ Empty \in FolderMaps(F) /\ Empty \in DocMaps(D, F)
<1>1. ASSUME NEW fs \in FolderMaps(F), NEW f \in F, NEW r \in FolderIn(F)
      PROVE  With(fs, f, r) \in FolderMaps(F)
  <2> DEFINE w == With(fs, f, r)
  <2>1. DOMAIN w = DOMAIN fs \cup {f} /\ w \in [DOMAIN w -> FolderIn(F)]
    BY FolderMapsAre DEF With
  <2>2. DOMAIN fs \subseteq F
    BY FolderMapsAre
  <2> QED BY <2>1, <2>2, FolderMapsAre
<1>2. ASSUME NEW ds \in DocMaps(D, F), NEW d \in D, NEW r \in DocIn(F)
      PROVE  With(ds, d, r) \in DocMaps(D, F)
  <2> DEFINE w == With(ds, d, r)
  <2>1. DOMAIN w = DOMAIN ds \cup {d} /\ w \in [DOMAIN w -> DocIn(F)]
    BY DocMapsAre DEF With
  <2>2. DOMAIN ds \subseteq D
    BY DocMapsAre
  <2> QED BY <2>1, <2>2, DocMapsAre
<1>3. ASSUME NEW fs \in FolderMaps(F), NEW f
      PROVE  Without(fs, f) \in FolderMaps(F)
  <2> DEFINE w == Without(fs, f)
  <2>1. DOMAIN w = DOMAIN fs \ {f} /\ w \in [DOMAIN w -> FolderIn(F)]
    BY FolderMapsAre DEF Without
  <2>2. DOMAIN fs \subseteq F
    BY FolderMapsAre
  <2> QED BY <2>1, <2>2, FolderMapsAre
<1>4. ASSUME NEW ds \in DocMaps(D, F), NEW d
      PROVE  Without(ds, d) \in DocMaps(D, F)
  <2> DEFINE w == Without(ds, d)
  <2>1. DOMAIN w = DOMAIN ds \ {d} /\ w \in [DOMAIN w -> DocIn(F)]
    BY DocMapsAre DEF Without
  <2>2. DOMAIN ds \subseteq D
    BY DocMapsAre
  <2> QED BY <2>1, <2>2, DocMapsAre
<1>5. Empty \in FolderMaps(F) /\ Empty \in DocMaps(D, F)
  <2>1. /\ DOMAIN Empty = {} /\ Empty \in [DOMAIN Empty -> FolderIn(F)]
        /\ Empty \in [DOMAIN Empty -> DocIn(F)]
    BY DEF Empty
  <2> QED BY <2>1, FolderMapsAre, DocMapsAre
<1> QED BY <1>1, <1>2, <1>3, <1>4, <1>5

LEMMA MapsGrow ==
    ASSUME NEW D, NEW F, NEW E, NEW G, D \subseteq E, F \subseteq G
    PROVE  /\ FolderIn(F) \subseteq FolderIn(G) /\ DocIn(F) \subseteq DocIn(G)
           /\ FolderMaps(F) \subseteq FolderMaps(G) /\ DocMaps(D, F) \subseteq DocMaps(E, G)
           /\ Places(D, F) \subseteq Places(E, G) /\ Made(F) \subseteq Made(G)
<1>1. FolderIn(F) \subseteq FolderIn(G) /\ DocIn(F) \subseteq DocIn(G)
  BY DEF FolderIn, DocIn
<1>2. FolderMaps(F) \subseteq FolderMaps(G)
  <2> SUFFICES ASSUME NEW fs \in FolderMaps(F) PROVE fs \in FolderMaps(G)
    OBVIOUS
  <2>1. DOMAIN fs \subseteq F /\ fs \in [DOMAIN fs -> FolderIn(F)]
    BY FolderMapsAre
  <2>2. DOMAIN fs \subseteq G /\ fs \in [DOMAIN fs -> FolderIn(G)]
    BY <1>1, <2>1
  <2> QED BY <2>2, FolderMapsAre
<1>3. DocMaps(D, F) \subseteq DocMaps(E, G)
  <2> SUFFICES ASSUME NEW ds \in DocMaps(D, F) PROVE ds \in DocMaps(E, G)
    OBVIOUS
  <2>1. DOMAIN ds \subseteq D /\ ds \in [DOMAIN ds -> DocIn(F)]
    BY DocMapsAre
  <2>2. DOMAIN ds \subseteq E /\ ds \in [DOMAIN ds -> DocIn(G)]
    BY <1>1, <2>1
  <2> QED BY <2>2, DocMapsAre
<1>4. Places(D, F) \subseteq Places(E, G)
  <2> SUFFICES ASSUME NEW ps \in Places(D, F) PROVE ps \in Places(E, G)
    OBVIOUS
  <2>1. DOMAIN ps \subseteq D /\ ps \in [DOMAIN ps -> F \cup {Root}]
    BY PlacesAre
  <2>2. DOMAIN ps \subseteq E /\ ps \in [DOMAIN ps -> G \cup {Root}]
    BY <2>1
  <2> QED BY <2>2, PlacesAre
<1>5. Made(F) \subseteq Made(G)
  BY DEF Made
<1> QED BY <1>1, <1>2, <1>3, <1>4, <1>5

\* What each kind of call carries.
LEMMA CallShapes ==
    ASSUME NEW D, NEW F, NEW c \in CallIn(D, F)
    PROVE  /\ c.fn = "createFolder" => c \in Creating(F)
           /\ c.fn = "renameFolder" => c \in IF c.pc = "read" THEN ToRename(F) ELSE Renaming(F)
           /\ c.fn = "deleteFolder" => c \in Deleting(D, F)
           /\ c.fn = "move" => c \in IF c.pc = "read" THEN ToMove(D, F) ELSE Moving(D, F)
           /\ c.fn = "save" => \/ c \in Making(F) /\ c.grow = TRUE
                               \/ c \in ToSave(D) /\ c.grow = FALSE /\ c.pc # "write"
                               \/ c \in Saving(D, F) /\ c.grow = FALSE /\ c.pc = "write"
           /\ c.fn \in {"createFolder", "renameFolder", "deleteFolder", "move", "save"}
BY DEF CallIn, Creating, ToRename, Renaming, Deleting, ToMove, Moving, ToSave, Saving, Making

\* What each operation keeps.
LEMMA ScriptShapes ==
    ASSUME NEW D, NEW F, NEW s \in ScriptIn(D, F)
    PROVE  /\ s.op \in {"createFolder", "renameFolder"} => s \in OfFolder(F)
           /\ s.op \in {"moveDocument", "createDocument"} => s \in OfDoc(D)
           /\ s.op \in {"switchDocument", "showProperties"} => s \in Opening(D)
           /\ s.op = "importContent" => s \in Taking(D)
           /\ s.op = "deleteFolder" => s \in Clearing(D, F)
           /\ s.op = "deleteDocument" => s \in Erasing(D)
           /\ s.op = "importFolder" =>
                 /\ s.pc \in {"list", "root", "docs", "file", "walk", "created", "saved", "lists"}
                 /\ s.pc = "root" => s \in Import1(D, F)
                 /\ s.pc = "list" => s \in Import1(D, F) \cup Import3(D, F)
                 /\ s.pc \in {"docs", "file", "lists"} => s \in Import2(D, F)
                 /\ s.pc = "walk" => s \in Import3(D, F)
                 /\ s.pc \in {"created", "saved"} => s \in Import4(D, F)
           /\ s.op = "pull" => s \in Pulling(D, F)
           /\ s.op \in Others
BY DEF ScriptIn, OfFolder, OfDoc, Opening, Taking, Clearing, Erasing, Importing, Import1, Import2,
       Import3, Import4, Pulling, Others, FolderMakers, Movers, Makers

LEMMA TasksGrow ==
    ASSUME NEW D, NEW F, NEW E, NEW G, D \subseteq E, F \subseteq G
    PROVE  CallIn(D, F) \subseteq CallIn(E, G) /\ ScriptIn(D, F) \subseteq ScriptIn(E, G)
<1>1. CallIn(D, F) \subseteq CallIn(E, G)
  <2>1. FolderIn(F) \subseteq FolderIn(G) /\ DocIn(F) \subseteq DocIn(G)
    BY MapsGrow
  <2>2. /\ Creating(F) \subseteq Creating(G) /\ ToRename(F) \subseteq ToRename(G)
        /\ Renaming(F) \subseteq Renaming(G) /\ Deleting(D, F) \subseteq Deleting(E, G)
        /\ ToMove(D, F) \subseteq ToMove(E, G) /\ Moving(D, F) \subseteq Moving(E, G)
        /\ ToSave(D) \subseteq ToSave(E) /\ Saving(D, F) \subseteq Saving(E, G)
        /\ Making(F) \subseteq Making(G)
    BY <2>1 DEF Creating, ToRename, Renaming, Deleting, ToMove, Moving, ToSave, Saving, Making
  <2> QED BY <2>2 DEF CallIn
<1>2. /\ Made(D) \subseteq Made(E) /\ Made(F) \subseteq Made(G)
      /\ FolderMaps(F) \subseteq FolderMaps(G) /\ DocMaps(D, F) \subseteq DocMaps(E, G)
  BY MapsGrow DEF Made
<1>3. ScriptIn(D, F) \subseteq ScriptIn(E, G)
  <2>1. /\ OfFolder(F) \subseteq OfFolder(G) /\ OfDoc(D) \subseteq OfDoc(E)
        /\ Opening(D) \subseteq Opening(E) /\ Taking(D) \subseteq Taking(E)
        /\ Clearing(D, F) \subseteq Clearing(E, G) /\ Erasing(D) \subseteq Erasing(E)
        /\ Pulling(D, F) \subseteq Pulling(E, G)
    BY <1>2 DEF OfFolder, OfDoc, Opening, Taking, Clearing, Erasing, Pulling
  <2>2. /\ Import1(D, F) \subseteq Import1(E, G) /\ Import2(D, F) \subseteq Import2(E, G)
        /\ Import3(D, F) \subseteq Import3(E, G) /\ Import4(D, F) \subseteq Import4(E, G)
    BY <1>2 DEF Importing, Import1, Import2, Import3, Import4
  <2> QED BY <2>1, <2>2 DEF ScriptIn
<1> QED BY <1>1, <1>3

\* A step of one task leaves the other tasks alone.
Frame(t) ==
    \A u \in Tasks \ {t} :
        /\ u \in DOMAIN task' <=> u \in DOMAIN task
        /\ u \in DOMAIN call' <=> u \in DOMAIN call
        /\ u \in DOMAIN task => task'[u] = task[u]
        /\ u \in DOMAIN call => call'[u] = call[u]

LEMMA OwnSuffices ==
    ASSUME NEW D, NEW F, NEW E, NEW G, D \subseteq E, F \subseteq G, TasksIn(D, F),
           NEW t, Frame(t), Own(t, task', call', E, G)
    PROVE  TasksIn(E, G)'
<1> SUFFICES ASSUME NEW u \in Tasks PROVE Own(u, task', call', E, G)
  BY DEF TasksIn
<1>1. CASE u = t
  BY <1>1
<1>2. CASE u # t
  BY <1>2, TasksGrow DEF TasksIn, Frame, Own
<1> QED BY <1>1, <1>2

LEMMA PageGrows ==
    ASSUME NEW D, NEW F, NEW E, NEW G, D \subseteq E, F \subseteq G, PageIn(D, F), UNCHANGED page
    PROVE  PageIn(E, G)'
<1>1. FolderMaps(F) \subseteq FolderMaps(G) /\ Places(D, F) \subseteq Places(E, G)
  BY MapsGrow
<1> QED BY <1>1 DEF PageIn, page

\* A call goes on.
LEMMA AwaitOwn ==
    ASSUME NEW D, NEW F, NEW t \in Tasks, Own(t, task, call, D, F), t \in DOMAIN call,
           NEW c \in CallIn(D, F), c.fn = call[t].fn, Await(t, c), UNCHANGED task
    PROVE  Frame(t) /\ Own(t, task', call', D, F)
<1>1. Frame(t)
  BY DEF Frame, Await, With
<1>2. Own(t, task', call', D, F)
  BY DEF Own, Await, With, Fits
<1> QED BY <1>1, <1>2

\* A call ends with what calls of its kind end with.
Results(fn, D, F) ==
    CASE fn \in {"createFolder", "renameFolder"} -> Made(F)
      [] fn = "move" -> Made(D)
      [] fn = "save" -> Made(D) \ {None}
      [] fn = "deleteFolder" -> {None}
LEMMA ReturnOwn ==
    ASSUME NEW D, NEW F, NEW t \in Tasks, Own(t, task, call, D, F), t \in DOMAIN call,
           NEW v, v \in Results(call[t].fn, D, F), Return(t, v)
    PROVE  Frame(t) /\ Own(t, task', call', D, F)
<1>1. Frame(t)
  BY DEF Frame, Return, Without
<1> DEFINE s == task[t]
           r == [s EXCEPT !.got = v]
<1>2. /\ t \in DOMAIN task /\ s \in ScriptIn(D, F) /\ Fits(s, call[t]) /\ InPath(s)
  BY DEF Own
<1>3. /\ t \notin DOMAIN call' /\ t \in DOMAIN task' /\ task'[t] = r
  BY <1>2 DEF Return, Without
<1> HIDE DEF s
<1>4. r \in ScriptIn(D, F) /\ InPath(r) /\ Ripe(r)
  <2>1. CASE call[t].fn = "createFolder" /\ s.op = "createFolder"
    <3>1. s \in OfFolder(F) /\ v \in Made(F)
      BY <1>2, <2>1, ScriptShapes DEF Results
    <3>2. r \in OfFolder(F)
      BY <3>1 DEF OfFolder
    <3> QED BY <3>1, <3>2, <2>1 DEF ScriptIn, OfFolder, InPath, Ripe
  <2>2. CASE call[t].fn = "createFolder" /\ s.op = "importFolder" /\ s.pc = "root"
    <3>1. s \in Import1(D, F) /\ v \in Made(F)
      BY <1>2, <2>2, ScriptShapes DEF Results
    <3>2. r \in Import1(D, F)
      BY <3>1 DEF Importing, Import1
    <3> QED BY <3>1, <3>2, <2>2 DEF ScriptIn, Importing, Import1, InPath, Ripe
  <2>3. CASE call[t].fn = "createFolder" /\ s.op = "importFolder" /\ s.pc = "walk"
    <3>1. s \in Import3(D, F) /\ v \in Made(F)
      BY <1>2, <2>3, ScriptShapes DEF Results
    <3>2. r \in Import3(D, F)
      BY <3>1 DEF Importing, Import3
    <3> QED BY <3>1, <3>2, <2>3 DEF ScriptIn, Importing, Import3, InPath, Ripe
  <2>4. CASE call[t].fn = "renameFolder" /\ s.op = "renameFolder"
    <3>1. s \in OfFolder(F) /\ v \in Made(F)
      BY <1>2, <2>4, ScriptShapes DEF Results
    <3>2. r \in OfFolder(F)
      BY <3>1 DEF OfFolder
    <3> QED BY <3>1, <3>2, <2>4 DEF ScriptIn, OfFolder, InPath, Ripe
  <2>5. CASE call[t].fn = "move" /\ s.op = "moveDocument"
    <3>1. s \in OfDoc(D) /\ v \in Made(D)
      BY <1>2, <2>5, ScriptShapes DEF Results
    <3>2. r \in OfDoc(D)
      BY <3>1 DEF OfDoc
    <3> QED BY <3>1, <3>2, <2>5 DEF ScriptIn, OfDoc, InPath, Ripe
  <2>6. CASE call[t].fn = "save" /\ s.op = "createDocument"
    <3>1. s \in OfDoc(D) /\ v \in Made(D) \ {None}
      BY <1>2, <2>6, ScriptShapes DEF Results
    <3>2. r \in OfDoc(D)
      BY <3>1 DEF OfDoc
    <3> QED BY <3>1, <3>2, <2>6 DEF ScriptIn, OfDoc, InPath, Ripe
  <2>7. CASE call[t].fn = "save" /\ s.op = "importContent"
    <3>1. s \in Taking(D) /\ v \in Made(D) \ {None}
      BY <1>2, <2>7, ScriptShapes DEF Results
    <3>2. r \in Taking(D)
      BY <3>1 DEF Taking
    <3> QED BY <3>1, <3>2, <2>7 DEF ScriptIn, Taking, InPath, Ripe
  <2>8. CASE call[t].fn = "save" /\ s.op = "importFolder" /\ s.pc \in {"created", "saved"}
    <3>1. s \in Import4(D, F) /\ v \in Made(D) \ {None}
      BY <1>2, <2>8, ScriptShapes DEF Results
    <3>2. r \in Import4(D, F)
      BY <3>1 DEF Importing, Import4
    <3> QED BY <3>1, <3>2, <2>8 DEF ScriptIn, Importing, Import4, InPath, Ripe
  <2>9. CASE call[t].fn = "deleteFolder" /\ s.op = "deleteFolder"
    <3>1. s \in Clearing(D, F) /\ v = None
      BY <1>2, <2>9, ScriptShapes DEF Results
    <3>2. r \in Clearing(D, F)
      BY <3>1 DEF Clearing
    <3> QED BY <3>1, <3>2, <2>9 DEF ScriptIn, Clearing, InPath, Ripe
  <2> QED BY <1>2, <2>1, <2>2, <2>3, <2>4, <2>5, <2>6, <2>7, <2>8, <2>9 DEF Fits
<1> QED BY <1>1, <1>3, <1>4 DEF Own

LEMMA AbortOwn ==
    ASSUME NEW D, NEW F, NEW t \in Tasks, Own(t, task, call, D, F), Abort(t)
    PROVE  Frame(t) /\ Own(t, task', call', D, F)
<1>1. Frame(t)
  BY DEF Frame, Abort, Without
<1>2. Own(t, task', call', D, F)
  BY DEF Own, Abort, Without
<1> QED BY <1>1, <1>2

LEMMA Grown ==
    ASSUME NEW D, NEW F, NEW E, NEW G, D \subseteq E, F \subseteq G, TypedIn(D, F)
    PROVE  StoreIn(E, G) /\ TasksIn(E, G)
<1>1. StoreIn(E, G)
  BY MapsGrow DEF TypedIn, StoreIn
<1>2. TasksIn(E, G)
  BY TasksGrow DEF TypedIn, TasksIn, Own
<1> QED BY <1>1, <1>2

LEMMA Numbered ==
    ASSUME NEW D, NEW F, NumbersIn(D, F), NEW n, n = ids + 1
    PROVE  /\ D \subseteq Nat /\ F \subseteq Nat /\ n \in Nat /\ n \notin D \cup F
           /\ ids' = ids => NumbersIn(D, F)'
           /\ ids' = n => NumbersIn(D \cup {n}, F)' /\ NumbersIn(D, F \cup {n})'
BY DEF NumbersIn

LEMMA Concludes ==
    ASSUME NEW D, NEW F, NEW E, NEW G, D \subseteq E, F \subseteq G, TypedIn(D, F),
           NEW t, Frame(t), Own(t, task', call', E, G),
           NumbersIn(E, G)', StoreIn(E, G)', UNCHANGED page
    PROVE  TypedIn(E, G)'
<1>1. TasksIn(E, G)'
  BY OwnSuffices DEF TypedIn
<1>2. PageIn(E, G)'
  BY PageGrows DEF TypedIn
<1> QED BY <1>1, <1>2 DEF TypedIn

LEMMA ConcludesSame ==
    ASSUME NEW D, NEW F, TypedIn(D, F), NEW t, Frame(t), Own(t, task', call', D, F),
           UNCHANGED <<store, page>>
    PROVE  TypedIn(D, F)'
<1>1. NumbersIn(D, F)' /\ StoreIn(D, F)'
  BY DEF TypedIn, NumbersIn, StoreIn, store
<1> QED BY <1>1, Concludes

LEMMA MapsFinite ==
    ASSUME NEW D, NEW F, NumbersIn(D, F)
    PROVE  /\ \A fs \in FolderMaps(F) : IsFiniteSet(DOMAIN fs) /\ DOMAIN fs \subseteq F
           /\ \A ds \in DocMaps(D, F) : IsFiniteSet(DOMAIN ds) /\ DOMAIN ds \subseteq D
<1>1. IsFiniteSet(1 .. ids)
  BY FS_Interval DEF NumbersIn
<1>2. \A S : S \subseteq 1 .. ids => IsFiniteSet(S)
  BY <1>1, FS_Subset
<1>3. \A fs \in FolderMaps(F) : DOMAIN fs \subseteq F
  BY FolderMapsAre
<1>4. \A ds \in DocMaps(D, F) : DOMAIN ds \subseteq D
  BY DocMapsAre
<1>5. D \subseteq 1 .. ids /\ F \subseteq 1 .. ids
  BY DEF NumbersIn
<1> QED BY <1>2, <1>3, <1>4, <1>5

\* The calls of the documents service.
LEMMA ServiceTyped ==
    ASSUME NEW D, NEW F, TypedIn(D, F), NEW t \in Tasks, Service(t)
    PROVE  \E E, G \in SUBSET Nat : TypedIn(E, G)'
<1> DEFINE c == call[t]
<1>1. D \in SUBSET Nat /\ F \in SUBSET Nat /\ Own(t, task, call, D, F)
  BY Numbered DEF TypedIn, TasksIn
<1>2. UNCHANGED page
  BY DEF Service, page
<1>3. DOMAIN folders \subseteq F /\ DOMAIN docs \subseteq D
  BY FolderMapsAre, DocMapsAre DEF TypedIn, StoreIn
<1>4. /\ \A f \in DOMAIN folders : folders[f] \in FolderIn(F)
      /\ \A d \in DOMAIN docs : docs[d] \in DocIn(F)
  BY FolderMapsAre, DocMapsAre DEF TypedIn, StoreIn
<1>5. t \in DOMAIN call /\ t \in DOMAIN task /\ c \in CallIn(D, F)
  BY <1>1 DEF Own, Service, CreateFolderResolve, CreateFolderCheck, CreateFolderWrite,
     RenameFolderRead, RenameFolderCheck, RenameFolderWrite, DeleteFolderFolders, DeleteFolderDocs,
     DropDoc, DropFolder, MoveRead, MoveResolve, MoveWrite, SaveResolve, SaveCheck, SaveOpen,
     SaveWrite, At
<1> DEFINE Same == Frame(t) /\ Own(t, task', call', D, F) /\ UNCHANGED store
<1>6. Same => TypedIn(D, F)'
  BY <1>2, ConcludesSame DEF store, page
<1>7. ASSUME NEW b \in CallIn(D, F), b.fn = c.fn, Await(t, b), UNCHANGED <<store, task>>
      PROVE  Same
  BY <1>1, <1>5, <1>7, AwaitOwn
<1>8. ASSUME NEW v, v \in Results(c.fn, D, F), Return(t, v), UNCHANGED store
      PROVE  Same
  BY <1>1, <1>5, <1>8, ReturnOwn
<1>9. ASSUME Abort(t), UNCHANGED store PROVE Same
  BY <1>1, <1>9, AbortOwn
<1> HIDE DEF Same
<1>10. CASE CreateFolderResolve(t)
  <2>1. c \in Creating(F)
    BY <1>5, <1>10, CallShapes DEF CreateFolderResolve, At
  <2> DEFINE b == [c EXCEPT !.pc = "check", !.parent = resolveFolderId(@)]
  <2>2. b \in Creating(F) /\ b.fn = c.fn
    BY <1>3, <2>1 DEF Creating, resolveFolderId
  <2>3. Await(t, b) /\ UNCHANGED <<store, task>>
    BY <1>10 DEF CreateFolderResolve
  <2>4. b \in CallIn(D, F)
    BY <2>2 DEF CallIn
  <2> HIDE DEF b
  <2> QED BY <1>1, <1>6, <1>7, <2>2, <2>3, <2>4
<1>11. CASE CreateFolderCheck(t)
  <2>1. c \in Creating(F)
    BY <1>5, <1>11, CallShapes DEF CreateFolderCheck, At
  <2>2. CASE isFolderNameTaken(folders, c.name, c.parent, None)
    <3> DEFINE b == [c EXCEPT !.name.n = @ + 1]
    <3>1. b \in Creating(F) /\ b.fn = c.fn
      BY <1>3, <1>4, <2>2, <2>1 DEF Creating, Counted
    <3>2. Await(t, b) /\ UNCHANGED <<store, task>>
      BY <2>2, <1>11 DEF CreateFolderCheck
    <3>3. b \in CallIn(D, F)
      BY <3>1 DEF CallIn
    <3> HIDE DEF b
    <3> QED BY <1>1, <1>6, <1>7, <3>1, <3>2, <3>3
  <2>3. CASE ~isFolderNameTaken(folders, c.name, c.parent, None)
    <3> DEFINE b == [c EXCEPT !.pc = "write"]
    <3>1. b \in Creating(F) /\ b.fn = c.fn
      BY <1>3, <1>4, <2>3, <2>1 DEF Creating
    <3>2. Await(t, b) /\ UNCHANGED <<store, task>>
      BY <2>3, <1>11 DEF CreateFolderCheck
    <3>3. b \in CallIn(D, F)
      BY <3>1 DEF CallIn
    <3> HIDE DEF b
    <3> QED BY <1>1, <1>6, <1>7, <3>1, <3>2, <3>3
  <2> QED BY <2>2, <2>3
<1>12. CASE RenameFolderRead(t)
  <2>1. c \in ToRename(F)
    BY <1>5, <1>12, CallShapes DEF RenameFolderRead, At
  <2>2. CASE c.id \in DOMAIN folders
    <3> DEFINE b == [c EXCEPT !.pc = "check", !.found = folders[c.id]]
    <3>1. b \in Renaming(F) /\ b.fn = c.fn
      BY <1>3, <1>4, <2>2, <2>1 DEF ToRename, Renaming
    <3>2. Await(t, b) /\ UNCHANGED <<store, task>>
      BY <2>2, <1>12 DEF RenameFolderRead
    <3>3. b \in CallIn(D, F)
      BY <3>1 DEF CallIn
    <3> HIDE DEF b
    <3> QED BY <1>1, <1>6, <1>7, <3>1, <3>2, <3>3
  <2>3. CASE c.id \notin DOMAIN folders
    <3>1. Return(t, None) /\ UNCHANGED store
      BY <2>3, <1>12 DEF RenameFolderRead
    <3>2. None \in Results(c.fn, D, F)
      BY <1>3, <2>1 DEF ToRename, Results, Made
    <3> QED BY <1>1, <1>6, <1>8, <3>1, <3>2
  <2> QED BY <2>2, <2>3
<1>13. CASE RenameFolderCheck(t)
  <2>1. c \in Renaming(F)
    BY <1>5, <1>13, CallShapes DEF RenameFolderCheck, At
  <2>2. CASE isFolderNameTaken(folders, c.name, c.found.parent, c.id)
    <3>1. Abort(t) /\ UNCHANGED store
      BY <2>2, <1>13 DEF RenameFolderCheck
    <3> QED BY <1>1, <1>6, <1>9, <3>1
  <2>3. CASE ~isFolderNameTaken(folders, c.name, c.found.parent, c.id)
    <3> DEFINE b == [c EXCEPT !.pc = "write"]
    <3>1. b \in Renaming(F) /\ b.fn = c.fn
      BY <1>3, <1>4, <2>3, <2>1 DEF Renaming
    <3>2. Await(t, b) /\ UNCHANGED <<store, task>>
      BY <2>3, <1>13 DEF RenameFolderCheck, Goto
    <3>3. b \in CallIn(D, F)
      BY <3>1 DEF CallIn
    <3> HIDE DEF b
    <3> QED BY <1>1, <1>6, <1>7, <3>1, <3>2, <3>3
  <2> QED BY <2>2, <2>3
<1>14. CASE DeleteFolderFolders(t)
  <2>1. c \in Deleting(D, F)
    BY <1>5, <1>14, CallShapes DEF DeleteFolderFolders, At
  <2>2. CASE c.id \in DOMAIN folders
    <3> DEFINE b == [c EXCEPT !.pc = "docs", !.doomed = collectFolderTree(folders, c.id)]
    <3>4. collectFolderTree(folders, c.id) \subseteq F
      <4>1. IsFiniteSet(DOMAIN folders)
        BY MapsFinite DEF TypedIn, StoreIn
      <4>2. collectFolderTree(folders, c.id) \subseteq DOMAIN folders \cup {c.id}
        BY <4>1, TreeWhole
      <4> QED BY <1>3, <2>2, <4>2
    <3>1. b \in Deleting(D, F) /\ b.fn = c.fn
      BY <2>1, <3>4 DEF Deleting
    <3>2. Await(t, b) /\ UNCHANGED <<store, task>>
      BY <2>2, <1>14 DEF DeleteFolderFolders
    <3>3. b \in CallIn(D, F)
      BY <3>1 DEF CallIn
    <3> HIDE DEF b
    <3> QED BY <1>1, <1>6, <1>7, <3>1, <3>2, <3>3
  <2>3. CASE c.id \notin DOMAIN folders
    <3>1. Return(t, None) /\ UNCHANGED store
      BY <2>3, <1>14 DEF DeleteFolderFolders
    <3>2. None \in Results(c.fn, D, F)
      BY <1>3, <2>1 DEF Deleting, Results, Made
    <3> QED BY <1>1, <1>6, <1>8, <3>1, <3>2
  <2> QED BY <2>2, <2>3
<1>15. CASE DeleteFolderDocs(t)
  <2>1. c \in Deleting(D, F)
    BY <1>5, <1>15, CallShapes DEF DeleteFolderDocs, At
  <2> DEFINE b == [c EXCEPT !.pc = "drop",
                        !.victims = {d \in DOMAIN docs : docs[d].folder \in c.doomed}]
  <2>2. b \in Deleting(D, F) /\ b.fn = c.fn
    BY <1>3, <1>4, <2>1 DEF Deleting
  <2>3. Await(t, b) /\ UNCHANGED <<store, task>>
    BY <1>15 DEF DeleteFolderDocs
  <2>4. b \in CallIn(D, F)
    BY <2>2 DEF CallIn
  <2> HIDE DEF b
  <2> QED BY <1>1, <1>6, <1>7, <2>2, <2>3, <2>4
<1>16. CASE MoveRead(t)
  <2>1. c \in ToMove(D, F)
    BY <1>5, <1>16, CallShapes DEF MoveRead, At
  <2>2. CASE c.id \in DOMAIN docs
    <3> DEFINE b == [c EXCEPT !.found = docs[c.id],
                          !.pc = IF c.folder = Root THEN "write" ELSE "resolve"]
    <3>1. b \in Moving(D, F) /\ b.fn = c.fn
      BY <1>3, <1>4, <2>2, <2>1 DEF ToMove, Moving
    <3>2. Await(t, b) /\ UNCHANGED <<store, task>>
      BY <2>2, <1>16 DEF MoveRead
    <3>3. b \in CallIn(D, F)
      BY <3>1 DEF CallIn
    <3> HIDE DEF b
    <3> QED BY <1>1, <1>6, <1>7, <3>1, <3>2, <3>3
  <2>3. CASE c.id \notin DOMAIN docs
    <3>1. Return(t, None) /\ UNCHANGED store
      BY <2>3, <1>16 DEF MoveRead
    <3>2. None \in Results(c.fn, D, F)
      BY <1>3, <2>1 DEF ToMove, Results, Made
    <3> QED BY <1>1, <1>6, <1>8, <3>1, <3>2
  <2> QED BY <2>2, <2>3
<1>17. CASE MoveResolve(t)
  <2>1. c \in Moving(D, F)
    BY <1>5, <1>17, CallShapes DEF MoveResolve, At
  <2>2. CASE c.folder \in DOMAIN folders
    <3> DEFINE b == [c EXCEPT !.pc = "write"]
    <3>1. b \in Moving(D, F) /\ b.fn = c.fn
      BY <1>3, <1>4, <2>2, <2>1 DEF Moving
    <3>2. Await(t, b) /\ UNCHANGED <<store, task>>
      BY <2>2, <1>17 DEF MoveResolve, Goto
    <3>3. b \in CallIn(D, F)
      BY <3>1 DEF CallIn
    <3> HIDE DEF b
    <3> QED BY <1>1, <1>6, <1>7, <3>1, <3>2, <3>3
  <2>3. CASE c.folder \notin DOMAIN folders
    <3>1. Return(t, None) /\ UNCHANGED store
      BY <2>3, <1>17 DEF MoveResolve
    <3>2. None \in Results(c.fn, D, F)
      BY <1>3, <2>1 DEF Moving, Results, Made
    <3> QED BY <1>1, <1>6, <1>8, <3>1, <3>2
  <2> QED BY <2>2, <2>3
<1>18. CASE CreateFolderWrite(t)
  <2>1. c \in Creating(F)
    BY <1>5, <1>18, CallShapes DEF CreateFolderWrite, At
  <2> DEFINE r == [name |-> c.name, parent |-> c.parent]
  <2>2. PICK n : n = ids + 1
    OBVIOUS
  <2> DEFINE G == F \cup {n}
             v == [id |-> n, title |-> c.name]
  <2>3. /\ folders' = With(folders, n, r) /\ ids' = n /\ Return(t, v) /\ UNCHANGED docs
    BY <1>18, <2>2 DEF CreateFolderWrite, writeFolder, Fresh
  <2>4. NumbersIn(D, G)' /\ n \in Nat
    BY <2>2, <2>3, Numbered DEF TypedIn
  <2>5. StoreIn(D, G) /\ TasksIn(D, G)
    BY Grown
  <2>6. r \in FolderIn(G) /\ v \in Results(c.fn, D, G)
    BY <2>1 DEF Creating, FolderIn, Results, Made
  <2>7. StoreIn(D, G)'
    BY <2>3, <2>5, <2>6, MapSteps DEF StoreIn
  <2> HIDE DEF v
  <2>8. Frame(t) /\ Own(t, task', call', D, G)
    BY <1>5, <2>3, <2>5, <2>6, ReturnOwn DEF TasksIn
  <2>9. TypedIn(D, G)'
    BY <1>2, <2>4, <2>7, <2>8, Concludes
  <2> QED BY <1>1, <2>4, <2>9
<1>19. CASE RenameFolderWrite(t)
  <2>1. c \in Renaming(F)
    BY <1>5, <1>19, CallShapes DEF RenameFolderWrite, At
  <2> DEFINE r == [c.found EXCEPT !.name = c.name]
             v == [id |-> c.id, title |-> c.name]
  <2>2. folders' = With(folders, c.id, r) /\ Return(t, v) /\ UNCHANGED <<docs, ids>>
    BY <1>19 DEF RenameFolderWrite, writeFolder
  <2>3. r \in FolderIn(F) /\ c.id \in F /\ v \in Results(c.fn, D, F)
    BY <2>1 DEF Renaming, FolderIn, Results, Made
  <2>4. StoreIn(D, F)'
    BY <2>2, <2>3, MapSteps DEF StoreIn, TypedIn
  <2> HIDE DEF v
  <2>5. Frame(t) /\ Own(t, task', call', D, F)
    BY <1>1, <1>5, <2>2, <2>3, ReturnOwn
  <2>6. NumbersIn(D, F)'
    BY <2>2, Numbered DEF TypedIn
  <2> QED BY <1>1, <1>2, <2>4, <2>5, <2>6, Concludes
<1>20. CASE DropDoc(t)
  <2>1. c \in Deleting(D, F)
    BY <1>5, <1>20, CallShapes DEF DropDoc, At
  <2>2. PICK d \in c.victims :
            docs' = Without(docs, d) /\ Await(t, [c EXCEPT !.victims = @ \ {d}])
    BY <1>20 DEF DropDoc
  <2> DEFINE b == [c EXCEPT !.victims = @ \ {d}]
  <2>3. b \in Deleting(D, F) /\ b.fn = c.fn
    BY <2>1 DEF Deleting
  <2>4. b \in CallIn(D, F)
    BY <2>3 DEF CallIn
  <2>5. UNCHANGED <<folders, ids, task>>
    BY <1>20 DEF DropDoc
  <2>6. StoreIn(D, F)'
    BY <2>2, <2>5, MapSteps DEF StoreIn, TypedIn
  <2>7. Await(t, b)
    BY <2>2
  <2> HIDE DEF b
  <2>8. Frame(t) /\ Own(t, task', call', D, F)
    BY <1>1, <1>5, <2>3, <2>4, <2>5, <2>7, AwaitOwn
  <2>9. NumbersIn(D, F)'
    BY <2>5, Numbered DEF TypedIn
  <2> QED BY <1>1, <1>2, <2>6, <2>8, <2>9, Concludes
<1>21. CASE DropFolder(t)
  <2>1. c \in Deleting(D, F)
    BY <1>5, <1>21, CallShapes DEF DropFolder, At
  <2> DEFINE b(f) == [c EXCEPT !.doomed = @ \ {f}]
  <2>2. PICK f \in c.doomed :
            /\ folders' = Without(folders, f)
            /\ \/ Return(t, None)
               \/ Await(t, b(f)) /\ UNCHANGED task
    BY <1>21 DEF DropFolder
  <2>3. b(f) \in Deleting(D, F) /\ b(f).fn = c.fn /\ None \in Results(c.fn, D, F)
    BY <2>1 DEF Deleting, Results
  <2>4. b(f) \in CallIn(D, F)
    BY <2>3 DEF CallIn
  <2>5. UNCHANGED <<docs, ids>>
    BY <1>21 DEF DropFolder
  <2>6. StoreIn(D, F)'
    BY <2>2, <2>5, MapSteps DEF StoreIn, TypedIn
  <2> HIDE DEF b
  <2>7. Frame(t) /\ Own(t, task', call', D, F)
    <3>1. CASE Return(t, None)
      BY <1>1, <1>5, <2>3, <3>1, ReturnOwn
    <3>2. CASE Await(t, b(f)) /\ UNCHANGED task
      BY <1>1, <1>5, <2>3, <2>4, <3>2, AwaitOwn
    <3> QED BY <2>2, <3>1, <3>2
  <2>8. NumbersIn(D, F)'
    BY <2>5, Numbered DEF TypedIn
  <2> QED BY <1>1, <1>2, <2>6, <2>7, <2>8, Concludes
<1>22. CASE MoveWrite(t)
  <2>1. c \in Moving(D, F)
    BY <1>5, <1>22, CallShapes DEF MoveWrite, At
  <2> DEFINE r == [c.found EXCEPT !.folder = c.folder]
             v == [id |-> c.id, title |-> c.found.title]
  <2>2. docs' = With(docs, c.id, r) /\ Return(t, v) /\ UNCHANGED <<folders, ids>>
    BY <1>22 DEF MoveWrite, writeDoc
  <2>3. r \in DocIn(F) /\ c.id \in D /\ v \in Results(c.fn, D, F)
    BY <2>1 DEF Moving, DocIn, Results, Made
  <2>4. StoreIn(D, F)'
    BY <2>2, <2>3, MapSteps DEF StoreIn, TypedIn
  <2> HIDE DEF v
  <2>5. Frame(t) /\ Own(t, task', call', D, F)
    BY <1>1, <1>5, <2>2, <2>3, ReturnOwn
  <2>6. NumbersIn(D, F)'
    BY <2>2, Numbered DEF TypedIn
  <2> QED BY <1>1, <1>2, <2>4, <2>5, <2>6, Concludes
<1>23. CASE SaveResolve(t)
  <2> DEFINE b == [c EXCEPT !.folder = resolveFolderId(c.folder),
                          !.pc = IF @ = "resolve0" THEN "check" ELSE "write"]
  <2>1. c \in Making(F)
    BY <1>5, <1>23, CallShapes DEF SaveResolve, At, ToSave, Saving
  <2>2. b \in Making(F) /\ b.fn = c.fn
    BY <1>3, <2>1 DEF Making, resolveFolderId
  <2>3. Await(t, b) /\ UNCHANGED <<store, task>>
    BY <1>23 DEF SaveResolve
  <2>4. b \in CallIn(D, F)
    BY <2>2 DEF CallIn
  <2> HIDE DEF b
  <2> QED BY <1>1, <1>6, <1>7, <2>2, <2>3, <2>4
<1>24. CASE SaveCheck(t)
  <2>1. c \in Making(F) \/ c \in ToSave(D)
    BY <1>5, <1>24, CallShapes DEF SaveCheck, At
  <2>2. c.pc = "check" /\ UNCHANGED store
    BY <1>24 DEF SaveCheck, At
  <2>3. CASE Goto(t, "open")
    <3> DEFINE b == [c EXCEPT !.pc = "open"]
    <3>1. (b \in Making(F) \/ b \in ToSave(D)) /\ b.fn = c.fn
      BY <2>1 DEF Making, ToSave
    <3>2. b \in CallIn(D, F)
      BY <3>1 DEF CallIn
    <3>3. Await(t, b) /\ UNCHANGED task
      BY <2>3 DEF Goto
    <3> HIDE DEF b
    <3> QED BY <1>1, <1>6, <1>7, <2>2, <3>1, <3>2, <3>3
  <2>4. CASE Await(t, [c EXCEPT !.title.n = @ + 1]) /\ UNCHANGED task
    <3> DEFINE b == [c EXCEPT !.title.n = @ + 1]
    <3>1. (b \in Making(F) \/ b \in ToSave(D)) /\ b.fn = c.fn
      <4>3. c.title \in Counted
        BY <2>1 DEF Making, ToSave
      <4> DEFINE w == [c.title EXCEPT !.n = @ + 1]
      <4>4. w \in Counted
        BY <4>3 DEF Counted
      <4>5. b = [c EXCEPT !.title = w]
        BY <2>1 DEF Making, ToSave
      <4> HIDE DEF w, b
      <4>1. ASSUME c \in Making(F) PROVE b \in Making(F) /\ b.fn = c.fn
        BY <4>1, <4>4, <4>5 DEF Making
      <4>2. ASSUME c \in ToSave(D) PROVE b \in ToSave(D) /\ b.fn = c.fn
        BY <4>2, <4>4, <4>5 DEF ToSave
      <4> HIDE DEF b
      <4> QED BY <2>1, <4>1, <4>2
    <3>2. b \in CallIn(D, F)
      BY <3>1 DEF CallIn
    <3>3. Await(t, b)
      BY <2>4
    <3> HIDE DEF b
    <3> QED BY <1>1, <1>6, <1>7, <2>2, <2>4, <3>1, <3>2, <3>3
  <2>5. CASE Abort(t)
    BY <1>1, <1>6, <1>9, <2>2, <2>5
  <2> QED BY <1>24, <2>3, <2>4, <2>5 DEF SaveCheck
<1>25. CASE SaveOpen(t)
  <2>1. (c \in Making(F) /\ c.grow = TRUE) \/ (c \in ToSave(D) /\ c.grow = FALSE)
    BY <1>5, <1>25, CallShapes DEF SaveOpen, At
  <2>2. CASE c \in Making(F) /\ c.grow = TRUE
    <3> DEFINE b == [c EXCEPT !.pc = IF c.folder = Root THEN "write" ELSE "resolve"]
    <3>1. b \in Making(F) /\ b.fn = c.fn
      BY <2>2 DEF Making
    <3>2. Await(t, b) /\ UNCHANGED <<store, task>>
      BY <1>25, <2>2 DEF SaveOpen
    <3>3. b \in CallIn(D, F)
      BY <3>1 DEF CallIn
    <3> HIDE DEF b
    <3> QED BY <1>1, <1>6, <1>7, <3>1, <3>2, <3>3
  <2>3. CASE c \in ToSave(D) /\ c.grow = FALSE
    <3> DEFINE known == c.id \in DOMAIN docs
               folder == IF known THEN FolderOf(c.id) ELSE Root
               origin == IF known THEN docs[c.id].origin ELSE None
               b == [c EXCEPT !.pc = "write", !.folder = folder, !.origin = origin]
    <3>1. folder \in F \cup {Root} /\ origin \in File \cup {None}
      BY <1>4 DEF FolderOf, DocIn
    <3>2. Await(t, b) /\ UNCHANGED <<store, task>>
      BY <1>25, <2>3 DEF SaveOpen
    <3> HIDE DEF folder, origin
    <3>3. b \in Saving(D, F) /\ b.fn = c.fn
      BY <2>3, <3>1 DEF ToSave, Saving
    <3>4. b \in CallIn(D, F)
      BY <3>3 DEF CallIn
    <3> HIDE DEF b
    <3> QED BY <1>1, <1>6, <1>7, <3>2, <3>3, <3>4
  <2> QED BY <2>1, <2>2, <2>3
<1>26. CASE SaveWrite(t)
  <2>1. c \in Making(F) \/ c \in Saving(D, F)
    BY <1>5, <1>26, CallShapes DEF SaveWrite, At
  <2> DEFINE r == [title |-> c.title, folder |-> c.folder, origin |-> c.origin, text |-> c.text]
             v(d) == [id |-> d, title |-> c.title]
  <2>2. r \in DocIn(F) /\ c.title \in Counted /\ c.fn = "save" /\ c.id \in D \cup {None}
    BY <2>1 DEF Making, Saving, DocIn
  <2>3. CASE c.id # None
    <3>1. docs' = With(docs, c.id, r) /\ Return(t, v(c.id)) /\ UNCHANGED <<folders, ids>>
      BY <1>26, <2>3 DEF SaveWrite, writeDoc
    <3>2. v(c.id) \in Results(c.fn, D, F)
      <4>1. v(c.id) \in [id : Nat, title : Counted]
        BY <1>1, <2>2, <2>3
      <4>2. v(c.id) # None
        BY <4>1, SentinelsDiffer
      <4> QED BY <2>2, <2>3, <4>2 DEF Results, Made
    <3>3. StoreIn(D, F)'
      BY <2>2, <2>3, <3>1, MapSteps DEF StoreIn, TypedIn
    <3> HIDE DEF v
    <3>4. Frame(t) /\ Own(t, task', call', D, F)
      BY <1>1, <1>5, <3>1, <3>2, ReturnOwn
    <3>5. NumbersIn(D, F)'
      BY <3>1, Numbered DEF TypedIn
    <3> QED BY <1>1, <1>2, <3>3, <3>4, <3>5, Concludes
  <2>4. CASE c.id = None
    <3>1. PICK n : n = ids + 1
      OBVIOUS
    <3> DEFINE E == D \cup {n}
    <3>2. docs' = With(docs, n, r) /\ ids' = n /\ Return(t, v(n)) /\ UNCHANGED folders
      BY <1>26, <2>4, <3>1 DEF SaveWrite, writeDoc, Fresh
    <3>3. NumbersIn(E, F)' /\ n \in Nat
      BY <3>1, <3>2, Numbered DEF TypedIn
    <3>4. StoreIn(E, F) /\ TasksIn(E, F)
      BY Grown
    <3>5. v(n) \in Results(c.fn, E, F)
      <4>1. v(n) \in [id : Nat, title : Counted]
        BY <2>2, <3>3
      <4>2. v(n) # None
        BY <4>1, SentinelsDiffer
      <4> QED BY <2>2, <4>2 DEF Results, Made
    <3>6. StoreIn(E, F)'
      BY <2>2, <3>2, <3>4, MapSteps DEF StoreIn
    <3> HIDE DEF v
    <3>7. Frame(t) /\ Own(t, task', call', E, F)
      BY <1>5, <3>2, <3>4, <3>5, ReturnOwn DEF TasksIn
    <3>8. TypedIn(E, F)'
      BY <1>2, <3>3, <3>6, <3>7, Concludes
    <3> QED BY <1>1, <3>3, <3>8
  <2> QED BY <2>3, <2>4
<1> QED BY <1>10, <1>11, <1>12, <1>13, <1>14, <1>15, <1>16, <1>17, <1>18, <1>19, <1>20, <1>21,
           <1>22, <1>23, <1>24, <1>25, <1>26 DEF Service

\* A script goes on without awaiting anything, or with a call.
LEMMA SetOwn ==
    ASSUME NEW D, NEW F, NEW t \in Tasks, t \in DOMAIN task, t \notin DOMAIN call,
           NEW s \in ScriptIn(D, F), InPath(s), Ripe(s), Set(t, s), UNCHANGED call
    PROVE  Frame(t) /\ Own(t, task', call', D, F)
<1>1. Frame(t)
  BY DEF Frame, Set
<1>2. Own(t, task', call', D, F)
  BY DEF Own, Set
<1> QED BY <1>1, <1>2

LEMMA SetAwaitOwn ==
    ASSUME NEW D, NEW F, NEW t \in Tasks, t \in DOMAIN task,
           NEW s \in ScriptIn(D, F), InPath(s), NEW c \in CallIn(D, F), Fits(s, c),
           Await(t, c), \/ Set(t, s)
                        \/ s = task[t] /\ UNCHANGED task
    PROVE  Frame(t) /\ Own(t, task', call', D, F)
<1>1. Frame(t)
  BY DEF Frame, Set, Await, With
<1>2. Own(t, task', call', D, F)
  BY DEF Own, Set, Await, With
<1> QED BY <1>1, <1>2

LEMMA EndOwn ==
    ASSUME NEW D, NEW F, NEW t \in Tasks, t \notin DOMAIN call,
           task' = Without(task, t), UNCHANGED call
    PROVE  Frame(t) /\ Own(t, task', call', D, F)
<1>1. Frame(t)
  BY DEF Frame, Without
<1>2. Own(t, task', call', D, F)
  BY DEF Own, Without
<1> QED BY <1>1, <1>2

\* The calls a script makes.
LEMMA CallsMade ==
    ASSUME NEW D, NEW F
    PROVE  /\ \A name \in Counted, parent \in F \cup {Root} :
                 createFolderCall(name, parent) \in CallIn(D, F)
           /\ \A f \in F, name \in Counted : renameFolderCall(f, name) \in CallIn(D, F)
           /\ \A f \in F : deleteFolderCall(f) \in CallIn(D, F)
           /\ \A d \in D, f \in F \cup {Root} : moveCall(d, f) \in CallIn(D, F)
           /\ \A d \in D \cup {None}, title \in Counted, text \in Text :
                 saveCall(d, title, text) \in CallIn(D, F)
           /\ \A title \in Counted, f \in F \cup {Root}, o \in File \cup {None} :
                 createCall(title, f, o) \in CallIn(D, F)
<1>1. \A name \in Counted, parent \in F \cup {Root} :
          createFolderCall(name, parent) \in Creating(F)
  BY DEF createFolderCall, Creating
<1>2. \A f \in F, name \in Counted : renameFolderCall(f, name) \in ToRename(F)
  BY DEF renameFolderCall, ToRename
<1>3. \A f \in F : deleteFolderCall(f) \in Deleting(D, F)
  BY DEF deleteFolderCall, Deleting
<1>4. \A d \in D, f \in F \cup {Root} : moveCall(d, f) \in ToMove(D, F)
  BY DEF moveCall, ToMove
<1>5. \A d \in D \cup {None}, title \in Counted, text \in Text :
          saveCall(d, title, text) \in ToSave(D)
  BY DEF saveCall, ToSave
<1>6. <<None, 0>> \in Text
  BY DEF Text
<1>7. \A title \in Counted, f \in F \cup {Root}, o \in File \cup {None} :
          createCall(title, f, o) \in Making(F)
  BY <1>6 DEF createCall, Making
<1> QED BY <1>1, <1>2, <1>3, <1>4, <1>5, <1>7 DEF CallIn

LEMMA OldestIn ==
    ASSUME NEW S \in SUBSET Nat, S # {}
    PROVE  Oldest(S) \in S
BY LeastNatural DEF Oldest

LEMMA PlainTyped ==
    /\ \A b \in Base : Plain(b) \in Counted
    /\ Plain(DiskRoot) \in Counted /\ Plain(NewFolder) \in Counted /\ Plain(NewTitle) \in Counted
    /\ \A f \in File : Segments(f) \in Seq(Base) /\ Plain(Name[f]) \in Counted
<1>1. \A b \in Base : Plain(b) \in Counted
  BY DEF Plain, Counted
<1>2. \A f \in File : Segments(f) \in Seq(Base)
  <2> TAKE f \in File
  <2>1. Dir[f] \in Seq(Base) /\ <<DiskRoot>> \in Seq(Base)
    BY NamesKnown
  <2> QED BY <2>1, ConcatProperties DEF Segments
<1> QED BY <1>1, <1>2, NamesKnown

\* An import advances.
LEMMA ImportTyped ==
    ASSUME NEW D, NEW F, TypedIn(D, F), Counters, NEW t \in Tasks,
           \/ ImportList(t) \/ ImportRoot(t) \/ ImportDocs(t) \/ ImportFile(t) \/ ImportWalk(t)
           \/ ImportSave(t) \/ ImportCreated(t) \/ ImportSaved(t)
    PROVE  TypedIn(D, F)'
<1> DEFINE s == task[t]
<1>1. /\ t \in DOMAIN task /\ t \notin DOMAIN call /\ UNCHANGED <<store, page>>
      /\ s.op = "importContent" => ImportCreated(t)
      /\ s.op \in {"importFolder", "importContent"}
  BY DEF ImportList, ImportRoot, ImportDocs, ImportFile, ImportWalk, ImportSave, ImportCreated,
     ImportSaved, In, Running, Quiet
<1>2. s \in ScriptIn(D, F) /\ Ripe(s)
  BY <1>1 DEF TypedIn, TasksIn, Own
<1>3. /\ FolderMaps(F) = FolderMaps(F) /\ folders \in FolderMaps(F) /\ docs \in DocMaps(D, F)
      /\ F \subseteq Nat
  BY Numbered DEF TypedIn, StoreIn
<1> DEFINE Done == Frame(t) /\ Own(t, task', call', D, F)
<1>4. Done => TypedIn(D, F)'
  BY <1>1, ConcludesSame
<1>5. ASSUME NEW r, r \in Import1(D, F) \cup Import2(D, F) \cup Import3(D, F) \cup Import4(D, F),
             r.pc \notin {"created", "saved"}, Set(t, r), UNCHANGED call
      PROVE  Done
  <2>1. r \in ScriptIn(D, F) /\ r.op = "importFolder"
    BY <1>5 DEF ScriptIn, Import1, Import2, Import3, Import4, Importing
  <2> QED BY <1>1, <1>5, <2>1, SetOwn DEF InPath, Ripe
<1>6. \A S : S \subseteq F /\ S # {} => Oldest(S) \in F
  BY <1>3, OldestIn
<1>7. \A p, n : Matches(s.fl, p, n) \subseteq DOMAIN s.fl
  BY DEF Matches
<1> HIDE DEF Done
<1>10. CASE ImportList(t)
  <2> DEFINE step == IF s.root = None THEN "root" ELSE IF s.file = None THEN "docs" ELSE "walk"
             r == [s EXCEPT !.fl = folders, !.got = None, !.pc = step]
  <2>1. /\ s \in Import1(D, F) \cup Import3(D, F) /\ Set(t, r) /\ UNCHANGED call
    BY <1>2, <1>10, ScriptShapes DEF ImportList, In
  <2>2. CASE s \in Import1(D, F) /\ s.root = None
    <3>1. r \in Import1(D, F) /\ r.pc = "root"
      BY <1>3, <2>2 DEF Import1, Importing, Made
    <3> HIDE DEF r
    <3> QED BY <1>4, <1>5, <2>1, <3>1
  <2>3. CASE s \in Import1(D, F) /\ s.root # None
    <3>1. r \in Import2(D, F) /\ r.pc = "docs"
      BY <1>3, <2>3 DEF Import1, Import2, Importing, Made
    <3> HIDE DEF r
    <3> QED BY <1>4, <1>5, <2>1, <3>1
  <2>4. CASE s \in Import3(D, F)
    <3>1. s.root # None /\ s.file # None
      BY <1>3, <2>4, SentinelsDiffer DEF Import3, Importing
    <3>2. r \in Import3(D, F) /\ r.pc = "walk"
      BY <1>3, <2>4, <3>1 DEF Import3, Importing, Made
    <3> HIDE DEF r
    <3> QED BY <1>4, <1>5, <2>1, <3>2
  <2> QED BY <2>1, <2>2, <2>3, <2>4
<1>11. CASE ImportRoot(t)
  <2>1. s \in Import1(D, F) /\ s.pc = "root"
    BY <1>2, <1>11, ScriptShapes DEF ImportRoot, In
  <2> DEFINE found == Matches(s.fl, Root, Plain(DiskRoot))
  <2>2. found \subseteq F
    <3>1. DOMAIN s.fl \subseteq F
      BY <2>1, FolderMapsAre DEF Import1, Importing
    <3> QED BY <1>7, <3>1
  <2>3. \/ found # {} /\ Set(t, [s EXCEPT !.root = Oldest(found), !.pc = "docs"]) /\ UNCHANGED call
        \/ Await(t, createFolderCall(Plain(DiskRoot), Root)) /\ UNCHANGED task
        \/ s.got # None /\ Set(t, [s EXCEPT !.root = s.got.id, !.pc = "list"]) /\ UNCHANGED call
    BY <1>11 DEF ImportRoot
  <2>4. CASE found # {} /\ Set(t, [s EXCEPT !.root = Oldest(found), !.pc = "docs"]) /\ UNCHANGED call
    <3> DEFINE x == Oldest(found)
               r == [s EXCEPT !.root = x, !.pc = "docs"]
    <3>1. x \in F
      BY <1>6, <2>2, <2>4
    <3> HIDE DEF x
    <3>2. r \in Import2(D, F) /\ r.pc = "docs"
      BY <2>1, <3>1 DEF Import1, Import2, Importing
    <3>3. Set(t, r)
      BY <2>4 DEF x
    <3> HIDE DEF r
    <3> QED BY <1>4, <1>5, <2>4, <3>2, <3>3
  <2>5. CASE Await(t, createFolderCall(Plain(DiskRoot), Root)) /\ UNCHANGED task
    <3>1. createFolderCall(Plain(DiskRoot), Root) \in CallIn(D, F)
      BY CallsMade, PlainTyped
    <3>2. Fits(s, createFolderCall(Plain(DiskRoot), Root)) /\ InPath(s)
      BY <2>1 DEF Fits, createFolderCall, Import1, Importing, InPath
    <3> HIDE DEF s
    <3>3. Done
      BY <1>1, <1>2, <2>5, <3>1, <3>2, SetAwaitOwn DEF s, Done
    <3> QED BY <1>4, <3>3
  <2>6. CASE s.got # None /\ Set(t, [s EXCEPT !.root = s.got.id, !.pc = "list"]) /\ UNCHANGED call
    <3> DEFINE r == [s EXCEPT !.root = s.got.id, !.pc = "list"]
    <3>1. r \in Import1(D, F) /\ r.pc = "list"
      BY <2>1, <2>6 DEF Import1, Importing, Made
    <3>2. Set(t, r) /\ UNCHANGED call
      BY <2>6
    <3> HIDE DEF r
    <3> QED BY <1>4, <1>5, <3>1, <3>2
  <2> QED BY <2>3, <2>4, <2>5, <2>6
<1>12. CASE ImportDocs(t)
  <2> DEFINE r == [s EXCEPT !.seen = docs, !.pc = "file"]
  <2>1. s \in Import2(D, F) /\ Set(t, r) /\ UNCHANGED call
    BY <1>2, <1>12, ScriptShapes DEF ImportDocs, In
  <2>2. r \in Import2(D, F) /\ r.pc = "file"
    BY <1>3, <2>1 DEF Import2, Importing
  <2> HIDE DEF r
  <2> QED BY <1>4, <1>5, <2>1, <2>2
<1>13. CASE ImportFile(t)
  <2>1. s \in Import2(D, F) /\ UNCHANGED call
    BY <1>2, <1>13, ScriptShapes DEF ImportFile, In
  <2>2. CASE s.left = {}
    <3> DEFINE r == [s EXCEPT !.pc = "lists"]
    <3>1. Set(t, r)
      BY <1>13, <2>2 DEF ImportFile
    <3>2. r \in Import2(D, F) /\ r.pc = "lists"
      BY <2>1 DEF Import2, Importing
    <3> HIDE DEF r
    <3> QED BY <1>4, <1>5, <2>1, <3>1, <3>2
  <2>3. CASE s.left # {}
    <3> DEFINE r(f) == [s EXCEPT !.file = f, !.left = @ \ {f}, !.got = None, !.pc = "walk",
                                 !.parent = s.root, !.rest = Segments(f)]
    <3>1. PICK f \in s.left : Set(t, r(f))
      BY <1>13, <2>3 DEF ImportFile
    <3>2. f \in File /\ Segments(f) \in Seq(Base)
      BY <2>1, PlainTyped DEF Import2, Importing
    <3>3. r(f) \in Import3(D, F) /\ r(f).pc = "walk"
      BY <2>1, <3>2 DEF Import2, Import3, Importing, Made
    <3> HIDE DEF r
    <3> QED BY <1>4, <1>5, <2>1, <3>1, <3>3
  <2> QED BY <2>2, <2>3
<1>14. CASE ImportWalk(t)
  <2>1. s \in Import3(D, F) /\ s.pc = "walk" /\ s.rest # <<>> /\ s.rest \in Seq(Base)
    BY <1>2, <1>14, ScriptShapes DEF ImportWalk, In, Import3, Importing
  <2> DEFINE h == Head(s.rest)
             q == Tail(s.rest)
             found == Matches(s.fl, s.parent, Plain(h))
  <2>2. h \in Base /\ q \in Seq(Base)
    BY <2>1, HeadTailProperties
  <2>3. found \subseteq F
    <3>1. DOMAIN s.fl \subseteq F
      BY <2>1, FolderMapsAre DEF Import3, Importing
    <3> QED BY <1>7, <3>1
  <2>4. \/ s.got # None /\ Set(t, [s EXCEPT !.parent = s.got.id, !.rest = q, !.pc = "list"])
           /\ UNCHANGED call
        \/ found # {} /\ Set(t, [s EXCEPT !.parent = Oldest(found), !.rest = q]) /\ UNCHANGED call
        \/ Await(t, createFolderCall(Plain(h), s.parent)) /\ UNCHANGED task
    BY <1>14 DEF ImportWalk
  <2> HIDE DEF h, q
  <2>5. CASE s.got # None /\ Set(t, [s EXCEPT !.parent = s.got.id, !.rest = q, !.pc = "list"])
             /\ UNCHANGED call
    <3> DEFINE r == [s EXCEPT !.parent = s.got.id, !.rest = q, !.pc = "list"]
    <3>1. r \in Import3(D, F) /\ r.pc = "list"
      BY <2>1, <2>2, <2>5 DEF Import3, Importing, Made
    <3>2. Set(t, r) /\ UNCHANGED call
      BY <2>5
    <3> HIDE DEF r
    <3> QED BY <1>4, <1>5, <3>1, <3>2
  <2>6. CASE found # {} /\ Set(t, [s EXCEPT !.parent = Oldest(found), !.rest = q]) /\ UNCHANGED call
    <3> DEFINE x == Oldest(found)
               r == [s EXCEPT !.parent = x, !.rest = q]
    <3>1. x \in F
      BY <1>6, <2>3, <2>6
    <3> HIDE DEF x
    <3>2. r \in Import3(D, F) /\ r.pc = "walk"
      BY <2>1, <2>2, <3>1 DEF Import3, Importing
    <3>3. Set(t, r)
      BY <2>6 DEF x
    <3> HIDE DEF r
    <3> QED BY <1>4, <1>5, <2>6, <3>2, <3>3
  <2>7. CASE Await(t, createFolderCall(Plain(h), s.parent)) /\ UNCHANGED task
    <3>1. s.parent \in F \cup {Root}
      BY <2>1 DEF Import3, Importing
    <3> DEFINE c == createFolderCall(Plain(h), s.parent)
    <3>2. c \in CallIn(D, F)
      BY <2>2, <3>1, CallsMade, PlainTyped
    <3>3. Fits(s, c) /\ InPath(s)
      BY <2>1 DEF Fits, createFolderCall, Import3, Importing, InPath
    <3> HIDE DEF s, c
    <3>4. Done
      BY <1>1, <1>2, <2>7, <3>2, <3>3, SetAwaitOwn DEF s, c, Done
    <3> QED BY <1>4, <3>4
  <2> QED BY <2>4, <2>5, <2>6, <2>7
<1>15. CASE ImportSave(t)
  <2>1. s \in Import3(D, F) /\ s.pc = "walk"
    BY <1>2, <1>15, ScriptShapes DEF ImportSave, In
  <2> DEFINE f == s.file
             known == Known(s.seen, s.parent, f)
             text == <<f, s.texts[f]>>
             r(step) == [s EXCEPT !.pc = step, !.got = None]
  <2>2. f \in File /\ text \in Text /\ s.parent \in F \cup {Root} /\ s.seen \in DocMaps(D, F)
    BY <2>1 DEF Import3, Importing, Text
  <2>3. r("saved") \in Import4(D, F) /\ r("created") \in Import4(D, F)
    BY <2>1 DEF Import3, Import4, Importing, Made
  <2>4. /\ r("saved") \in ScriptIn(D, F) /\ InPath(r("saved"))
        /\ r("saved").op = "importFolder" /\ r("saved").pc = "saved"
        /\ r("created") \in ScriptIn(D, F) /\ InPath(r("created"))
        /\ r("created").op = "importFolder" /\ r("created").pc = "created"
    BY <2>1, <2>3 DEF ScriptIn, InPath, Import3, Importing
  <2> HIDE DEF r
  <2>5. CASE known # {}
    <3>1. PICK d \in known : Await(t, saveCall(d, s.seen[d].title, text)) /\ Set(t, r("saved"))
      BY <1>15, <2>5 DEF ImportSave, r
    <3>2. d \in D /\ s.seen[d].title \in Counted
      <4>1. d \in DOMAIN s.seen
        BY DEF Known
      <4> QED BY <2>2, <4>1, DocMapsAre DEF DocIn
    <3> DEFINE c == saveCall(d, s.seen[d].title, text)
    <3>3. c \in CallIn(D, F)
      BY <2>2, <3>2, CallsMade
    <3>4. Fits(r("saved"), c)
      BY <2>4 DEF Fits, saveCall
    <3> HIDE DEF c
    <3>5. Done
      BY <1>1, <2>4, <3>1, <3>3, <3>4, SetAwaitOwn DEF c, Done
    <3> QED BY <1>4, <3>5
  <2>6. CASE known = {}
    <3> DEFINE c == createCall(Plain(Name[f]), s.parent, Origin(f))
    <3>1. Await(t, c) /\ Set(t, r("created"))
      BY <1>15, <2>6 DEF ImportSave, r
    <3>2. c \in CallIn(D, F)
      BY <2>2, CallsMade, PlainTyped DEF Origin
    <3>3. Fits(r("created"), c)
      BY <2>4 DEF Fits, createCall
    <3> HIDE DEF c
    <3>4. Done
      BY <1>1, <2>4, <3>1, <3>2, <3>3, SetAwaitOwn DEF Done
    <3> QED BY <1>4, <3>4
  <2> QED BY <2>5, <2>6
<1>16. CASE ImportCreated(t)
  <2> DEFINE text == IF s.op = "importContent" THEN s.text ELSE <<s.file, s.texts[s.file]>>
             step == IF s.op = "importContent" THEN "lists" ELSE "saved"
             c == saveCall(s.got.id, s.got.title, text)
             r == [s EXCEPT !.pc = step]
  <2>1. Await(t, c) /\ Set(t, r) /\ s.pc = "created" /\ s.got # None
    BY <1>2, <1>16 DEF ImportCreated, In, Ripe
  <2>2. CASE s.op = "importContent"
    <3>1. s \in Taking(D)
      BY <1>2, <2>2, ScriptShapes
    <3>2. s.got.id \in D /\ s.got.title \in Counted /\ text \in Text
      BY <2>1, <2>2, <3>1 DEF Taking, Made
    <3>3. r \in Taking(D) /\ r.pc = "lists" /\ r.op = "importContent"
      BY <2>2, <3>1 DEF Taking
    <3>4. c \in CallIn(D, F) /\ c.fn = "save"
      BY <3>2, CallsMade DEF saveCall
    <3> HIDE DEF r, c
    <3>5. r \in ScriptIn(D, F) /\ InPath(r) /\ Fits(r, c)
      BY <3>3, <3>4 DEF ScriptIn, InPath, Fits
    <3>6. Done
      BY <1>1, <2>1, <3>4, <3>5, SetAwaitOwn DEF Done
    <3> QED BY <1>4, <3>6
  <2>3. CASE s.op # "importContent"
    <3>1. s \in Import4(D, F) /\ s.op = "importFolder"
      BY <1>1, <1>2, <2>1, <2>3, ScriptShapes
    <3>2. s.got.id \in D /\ s.got.title \in Counted /\ text \in Text
      BY <2>1, <2>3, <3>1 DEF Import4, Importing, Made, Text
    <3>3. r \in Import4(D, F) /\ r.pc = "saved" /\ r.op = "importFolder"
      BY <2>3, <3>1 DEF Import4, Importing
    <3>4. c \in CallIn(D, F) /\ c.fn = "save"
      BY <3>2, CallsMade DEF saveCall
    <3> HIDE DEF r, c
    <3>5. r \in ScriptIn(D, F) /\ InPath(r) /\ Fits(r, c)
      BY <3>3, <3>4 DEF ScriptIn, InPath, Fits
    <3>6. Done
      BY <1>1, <2>1, <3>4, <3>5, SetAwaitOwn DEF Done
    <3> QED BY <1>4, <3>6
  <2> QED BY <2>2, <2>3
<1>17. CASE ImportSaved(t)
  <2>1. s \in Import4(D, F) /\ s.got # None /\ UNCHANGED call
    BY <1>2, <1>17, ScriptShapes DEF ImportSaved, In, Ripe
  <2> DEFINE x == IF s.first = None THEN s.got.id ELSE s.first
             r == [s EXCEPT !.first = x, !.got = None, !.pc = "file"]
  <2>2. Set(t, r)
    BY <1>17 DEF ImportSaved
  <2>3. x \in D \cup {None}
    BY <2>1 DEF Import4, Importing, Made
  <2> HIDE DEF x
  <2>4. r \in Import2(D, F) /\ r.pc = "file"
    BY <2>1, <2>3 DEF Import2, Import4, Importing, Made
  <2> HIDE DEF r
  <2> QED BY <1>4, <1>5, <2>1, <2>2, <2>4
<1> QED BY <1>10, <1>11, <1>12, <1>13, <1>14, <1>15, <1>16, <1>17

\* A pulled document is filed.
LEMMA PullTyped ==
    ASSUME NEW D, NEW F, TypedIn(D, F), NEW t \in Tasks,
           PullMaps(t) \/ PullChain(t) \/ PullRecord(t)
    PROVE  \E E, G \in SUBSET Nat : TypedIn(E, G)'
<1> DEFINE s == task[t]
<1>1. /\ t \in DOMAIN task /\ t \notin DOMAIN call /\ UNCHANGED <<call, page>>
      /\ s.op = "pull"
  BY DEF PullMaps, PullChain, PullRecord, In, Running, Quiet, page
<1>2. s \in Pulling(D, F) /\ s.k <= Len(s.path)
  BY <1>1, ScriptShapes DEF TypedIn, TasksIn, Own, InPath
<1>3. D \in SUBSET Nat /\ F \in SUBSET Nat /\ folders \in FolderMaps(F) /\ docs \in DocMaps(D, F)
  BY Numbered DEF TypedIn, StoreIn
<1>4. s.path \in Seq(Counted) /\ s.k \in 1 .. Len(s.path) /\ Len(s.path) \in Nat
  BY <1>2 DEF Pulling
<1>5. \A k \in 1 .. Len(s.path) : s.path[k] \in Counted
  BY <1>4
<1>6. ASSUME NEW E, NEW G, NEW r \in Pulling(E, G), InPath(r), Set(t, r)
      PROVE  Frame(t) /\ Own(t, task', call', E, G)
  <2>1. r \in ScriptIn(E, G) /\ Ripe(r)
    BY <1>6 DEF ScriptIn, Ripe, Pulling
  <2> QED BY <1>1, <1>6, <2>1, SetOwn
<1>7. CASE PullMaps(t)
  <2> DEFINE r == [s EXCEPT !.fl = folders, !.pc = "chain"]
  <2>1. r \in Pulling(D, F) /\ InPath(r)
    BY <1>2, <1>3 DEF Pulling, InPath
  <2>2. Set(t, r) /\ UNCHANGED <<store, page>>
    BY <1>7 DEF PullMaps, Quiet
  <2> HIDE DEF r
  <2>3. Frame(t) /\ Own(t, task', call', D, F)
    BY <1>6, <2>1, <2>2
  <2> QED BY <1>3, <2>2, <2>3, ConcludesSame
<1>8. CASE PullChain(t)
  <2> DEFINE found == Matches(s.fl, s.parent, s.path[s.k])
             record == [name |-> s.path[s.k], parent |-> s.parent]
  <2>1. CASE s.k = Len(s.path)
    <3> DEFINE r == [s EXCEPT !.pc = "record"]
    <3>1. r \in Pulling(D, F) /\ InPath(r)
      BY <1>2 DEF Pulling, InPath
    <3>2. Set(t, r) /\ UNCHANGED store
      BY <1>8, <2>1 DEF PullChain
    <3> HIDE DEF r
    <3>3. Frame(t) /\ Own(t, task', call', D, F)
      BY <1>6, <3>1, <3>2
    <3> QED BY <1>1, <1>3, <3>2, <3>3, ConcludesSame
  <2>2. CASE s.k # Len(s.path) /\ found # {}
    <3> DEFINE r(f) == [s EXCEPT !.parent = f, !.k = @ + 1]
    <3>1. PICK f \in found : Set(t, r(f)) /\ UNCHANGED store
      BY <1>8, <2>2 DEF PullChain
    <3>2. f \in F
      BY <1>2, FolderMapsAre DEF Matches, Pulling
    <3>3. r(f) \in Pulling(D, F) /\ InPath(r(f))
      <4>1. s.k + 1 \in Nat \ {0} /\ s.k + 1 <= Len(s.path)
        BY <1>4, <2>2
      <4>2. r(f) \in Pulling(D, F)
        BY <1>2, <3>2, <4>1 DEF Pulling
      <4>3. r(f).k = s.k + 1 /\ r(f).path = s.path
        BY <1>2 DEF Pulling
      <4> QED BY <4>1, <4>2, <4>3 DEF InPath
    <3> HIDE DEF r
    <3>4. Frame(t) /\ Own(t, task', call', D, F)
      BY <1>6, <3>1, <3>3
    <3> QED BY <1>1, <1>3, <3>1, <3>4, ConcludesSame
  <2>3. CASE s.k # Len(s.path) /\ found = {}
    <3>1. PICK n : n = ids + 1
      OBVIOUS
    <3> DEFINE G == F \cup {n}
               r == [s EXCEPT !.parent = n, !.k = @ + 1, !.fl = With(@, n, record)]
    <3>2. folders' = With(folders, n, record) /\ ids' = n /\ Set(t, r) /\ UNCHANGED docs
      BY <1>8, <2>3, <3>1 DEF PullChain, writeFolder, Fresh
    <3>3. NumbersIn(D, G)' /\ n \in Nat
      BY <3>1, <3>2, Numbered DEF TypedIn
    <3>4. StoreIn(D, G) /\ TasksIn(D, G)
      BY Grown
    <3>5. s \in Pulling(D, G) /\ record \in FolderIn(G)
      <4>1. s \in Pulling(D, G)
        BY <1>1, <3>4, ScriptShapes DEF TasksIn, Own
      <4> QED BY <1>4, <1>5, <4>1 DEF Pulling, FolderIn
    <3> HIDE DEF record
    <3>6. With(s.fl, n, record) \in FolderMaps(G) /\ With(folders, n, record) \in FolderMaps(G)
      BY <3>4, <3>5, MapSteps DEF Pulling, StoreIn
    <3>7. StoreIn(D, G)'
      BY <3>2, <3>4, <3>6 DEF StoreIn
    <3>8. r \in Pulling(D, G) /\ InPath(r)
      <4>1. s.k + 1 \in Nat \ {0} /\ s.k + 1 <= Len(s.path)
        BY <1>4, <2>3
      <4>2. r \in Pulling(D, G)
        BY <3>5, <3>6, <4>1 DEF Pulling
      <4>3. r.k = s.k + 1 /\ r.path = s.path
        BY <1>2 DEF Pulling
      <4> QED BY <4>1, <4>2, <4>3 DEF InPath
    <3> HIDE DEF r
    <3>9. Frame(t) /\ Own(t, task', call', D, G)
      BY <1>6, <3>2, <3>8
    <3>10. TypedIn(D, G)'
      BY <1>1, <3>3, <3>7, <3>9, Concludes
    <3> QED BY <1>3, <3>3, <3>10
  <2> QED BY <2>1, <2>2, <2>3
<1>9. CASE PullRecord(t)
  <2> DEFINE q == [title |-> s.path[Len(s.path)], folder |-> s.parent, origin |-> None,
                   text |-> <<None, 1>>]
             r == [s EXCEPT !.pc = "lists"]
  <2>1. q \in DocIn(F)
    BY <1>2, <1>4, <1>5 DEF Pulling, DocIn, Text
  <2>2. Set(t, r) /\ UNCHANGED folders
    BY <1>9 DEF PullRecord
  <2>3. CASE s.id # None
    <3>1. docs' = With(docs, s.id, q) /\ UNCHANGED ids
      BY <1>9, <2>3 DEF PullRecord, writeDoc
    <3>2. StoreIn(D, F)'
      BY <1>2, <1>3, <2>1, <2>2, <2>3, <3>1, MapSteps DEF StoreIn, Pulling
    <3>3. r \in Pulling(D, F) /\ InPath(r)
      BY <1>2 DEF Pulling, InPath
    <3> HIDE DEF r
    <3>4. Frame(t) /\ Own(t, task', call', D, F)
      BY <1>6, <2>2, <3>3
    <3>5. NumbersIn(D, F)'
      BY <3>1, Numbered DEF TypedIn
    <3> QED BY <1>1, <1>3, <3>2, <3>4, <3>5, Concludes
  <2>4. CASE s.id = None
    <3>1. PICK n : n = ids + 1
      OBVIOUS
    <3> DEFINE E == D \cup {n}
    <3>2. docs' = With(docs, n, q) /\ ids' = n
      BY <1>9, <2>4, <3>1 DEF PullRecord, writeDoc, Fresh
    <3>3. NumbersIn(E, F)' /\ n \in Nat
      BY <3>1, <3>2, Numbered DEF TypedIn
    <3>4. StoreIn(E, F) /\ TasksIn(E, F)
      BY Grown
    <3>5. StoreIn(E, F)'
      BY <2>1, <2>2, <3>2, <3>4, MapSteps DEF StoreIn
    <3>6. s \in Pulling(E, F)
      BY <1>1, <3>4, ScriptShapes DEF TasksIn, Own
    <3>7. r \in Pulling(E, F) /\ InPath(r)
      BY <1>2, <3>6 DEF Pulling, InPath
    <3> HIDE DEF r
    <3>8. Frame(t) /\ Own(t, task', call', E, F)
      BY <1>6, <2>2, <3>7
    <3>9. TypedIn(E, F)'
      BY <1>1, <3>3, <3>5, <3>8, Concludes
    <3> QED BY <1>3, <3>3, <3>9
  <2> QED BY <2>3, <2>4
<1> QED BY <1>7, <1>8, <1>9

\* A script ends or goes on with another page; nothing is stored.
LEMMA Settles ==
    ASSUME NEW D, NEW F, TypedIn(D, F), NEW t, Frame(t), Own(t, task', call', D, F),
           UNCHANGED store, PageIn(D, F)'
    PROVE  TypedIn(D, F)'
<1>1. NumbersIn(D, F)' /\ StoreIn(D, F)'
  BY DEF TypedIn, NumbersIn, StoreIn, store
<1>2. TasksIn(D, F)'
  BY OwnSuffices DEF TypedIn
<1> QED BY <1>1, <1>2 DEF TypedIn

ArmedIn(D, F) == [doc : D \cup {None}, folder : F \cup {None}, props : D \cup {None}]
ModalIn(D, F) == {None} \cup [kind : {"confirm", "confirm-folder", "properties"}, id : D \cup F]

LEMMA ModalTyped ==
    ASSUME NEW D, NEW F, NEW a \in ArmedIn(D, F)
    PROVE  getModal(a) \in ModalIn(D, F)
BY DEF getModal, ArmedIn, ModalIn

LEMMA ListsTyped ==
    ASSUME NEW D, NEW F, StoreIn(D, F)
    PROVE  Lists \in [folders : FolderMaps(F), docs : Places(D, F)]
<1> DEFINE ps == [d \in DOMAIN docs |-> FolderOf(d)]
<1>1. DOMAIN ps = DOMAIN docs
  OBVIOUS
<1>2. DOMAIN docs \subseteq D /\ \A d \in DOMAIN docs : docs[d] \in DocIn(F)
  BY DocMapsAre DEF StoreIn
<1>3. ps \in [DOMAIN ps -> F \cup {Root}]
  BY <1>2 DEF FolderOf, DocIn
<1>4. ps \in Places(D, F)
  BY <1>1, <1>2, <1>3, PlacesAre
<1> QED BY <1>4 DEF Lists, StoreIn

\* The last steps of a script.
LEMMA EndTyped ==
    ASSUME NEW D, NEW F, TypedIn(D, F), NEW t \in Tasks,
           Open(t) \/ Erase(t) \/ Finish(t) \/ Replace(t) \/ GiveUp(t)
    PROVE  TypedIn(D, F)'
<1> DEFINE s == task[t]
<1>1. t \in DOMAIN task /\ t \notin DOMAIN call
  BY DEF Open, Erase, Finish, Replace, GiveUp, In, Running
<1>2. s \in ScriptIn(D, F) /\ Ripe(s) /\ Own(t, task, call, D, F)
  BY <1>1 DEF TypedIn, TasksIn, Own
<1>3. /\ folders \in FolderMaps(F) /\ docs \in DocMaps(D, F) /\ DOMAIN docs \subseteq D
      /\ view \in [folders : FolderMaps(F), docs : Places(D, F)] /\ current \in D \cup {None}
      /\ armed \in ArmedIn(D, F) /\ modal \in ModalIn(D, F)
  BY DocMapsAre DEF TypedIn, StoreIn, PageIn, ArmedIn, ModalIn
<1>4. CASE Open(t)
  <2>1. s \in Opening(D) /\ UNCHANGED <<store, call, view, current>>
    BY <1>2, <1>4, ScriptShapes DEF Open, In
  <2>2. s.id \in D
    BY <2>1 DEF Opening
  <2>3. CASE task' = Without(task, t) /\ UNCHANGED <<armed, modal, answered>>
    <3>1. PageIn(D, F)'
      BY <1>3, <2>1, <2>3 DEF PageIn, ArmedIn, ModalIn
    <3> QED BY <1>1, <2>1, <2>3, <3>1, EndOwn, Settles
  <2>4. CASE /\ task' = Without(task, t) /\ armed' = [armed EXCEPT !.doc = None, !.props = s.id]
             /\ requestEditor
    <3>1. armed' \in ArmedIn(D, F)
      BY <1>3, <2>2, <2>4 DEF ArmedIn
    <3>2. modal' \in ModalIn(D, F)
      BY <2>4, <3>1, ModalTyped DEF requestEditor
    <3>3. PageIn(D, F)'
      BY <1>3, <2>1, <3>1, <3>2 DEF PageIn, ArmedIn, ModalIn
    <3> QED BY <1>1, <2>1, <2>4, <3>3, EndOwn, Settles
  <2>5. CASE Set(t, [s EXCEPT !.pc = "lists"]) /\ UNCHANGED <<armed, modal, answered>>
    <3> DEFINE r == [s EXCEPT !.pc = "lists"]
    <3>1. r \in Opening(D)
      BY <2>1 DEF Opening
    <3>2. r \in ScriptIn(D, F) /\ InPath(r) /\ Ripe(r)
      BY <3>1 DEF ScriptIn, InPath, Ripe, Opening
    <3>3. PageIn(D, F)'
      BY <1>3, <2>1, <2>5 DEF PageIn, ArmedIn, ModalIn
    <3> HIDE DEF r
    <3>4. Frame(t) /\ Own(t, task', call', D, F)
      BY <1>1, <2>1, <2>5, <3>2, SetOwn DEF r
    <3> QED BY <2>1, <3>3, <3>4, Settles
  <2> QED BY <1>4, <2>3, <2>4, <2>5 DEF Open
<1>5. CASE Erase(t)
  <2> DEFINE r == [s EXCEPT !.pc = "lists"]
  <2>1. s \in Erasing(D) /\ UNCHANGED <<folders, ids, call, page>> /\ Set(t, r)
        /\ docs' = Without(docs, s.id)
    BY <1>2, <1>5, ScriptShapes DEF Erase, In, page
  <2>2. r \in Erasing(D)
    BY <2>1 DEF Erasing
  <2>3. r \in ScriptIn(D, F) /\ InPath(r) /\ Ripe(r)
    BY <2>2 DEF ScriptIn, InPath, Ripe, Erasing
  <2> HIDE DEF r
  <2>4. Frame(t) /\ Own(t, task', call', D, F)
    BY <1>1, <2>1, <2>3, SetOwn
  <2>5. StoreIn(D, F)'
    BY <1>3, <2>1, MapSteps DEF StoreIn
  <2>6. NumbersIn(D, F)'
    BY <2>1, Numbered DEF TypedIn
  <2> QED BY <2>1, <2>4, <2>5, <2>6, Concludes
<1>6. CASE Finish(t)
  <2>1. /\ s.pc = "lists" /\ UNCHANGED <<store, call, armed>> /\ current' \in Opened(t)
        /\ task' = Without(task, t)
        /\ modal' = getModal(armed') \/ modal' = modal
        /\ view' = [view EXCEPT !.folders = folders] \/ view' = Lists
    BY <1>6 DEF Finish, requestEditor, NoRender
  <2>2. view' \in [folders : FolderMaps(F), docs : Places(D, F)]
    BY <1>3, <2>1, ListsTyped DEF TypedIn
  <2>3. current' \in D \cup {None}
    <3>1. CASE s.op = "createDocument"
      <4>1. s \in OfDoc(D) /\ s.got # None
        BY <1>2, <3>1, ScriptShapes DEF Ripe
      <4> QED BY <2>1, <3>1, <4>1 DEF Opened, Removing, OfDoc, Made
    <3>2. CASE s.op = "importContent"
      <4>1. s \in Taking(D) /\ s.got # None
        BY <1>2, <3>2, ScriptShapes DEF Ripe
      <4> QED BY <2>1, <3>2, <4>1 DEF Opened, Removing, Taking, Made
    <3>3. CASE s.op = "switchDocument"
      <4>1. s \in Opening(D)
        BY <1>2, <3>3, ScriptShapes
      <4> QED BY <2>1, <3>3, <4>1 DEF Opened, Removing, Opening
    <3>4. CASE s.op = "importFolder"
      <4>1. s \in Import2(D, F)
        BY <1>2, <2>1, <3>4, ScriptShapes
      <4>2. s.first \in D \cup {None}
        BY <4>1 DEF Import2, Importing
      <4> QED BY <1>3, <2>1, <3>4, <4>2 DEF Opened
    <3>5. CASE s.op \notin {"createDocument", "importContent", "switchDocument", "importFolder"}
      BY <1>3, <2>1, <3>5 DEF Opened
    <3> QED BY <3>1, <3>2, <3>3, <3>4, <3>5
  <2>4. armed' \in ArmedIn(D, F) /\ modal' \in ModalIn(D, F)
    BY <1>3, <2>1, ModalTyped
  <2>5. PageIn(D, F)'
    BY <2>2, <2>3, <2>4 DEF PageIn, ArmedIn, ModalIn
  <2> QED BY <1>1, <2>1, <2>5, EndOwn, Settles
<1>7. CASE Replace(t)
  <2> DEFINE r == Script("createDocument", "lists")
             c == saveCall(None, Plain(NewTitle), <<None, 0>>)
  <2>1. Set(t, r) /\ Await(t, c) /\ UNCHANGED <<store, page>>
    BY <1>7 DEF Replace, Quiet
  <2>2. r \in OfDoc(D) /\ r.op = "createDocument" /\ r.pc = "lists"
    BY DEF OfDoc, Script, Made
  <2>3. c \in CallIn(D, F) /\ c.fn = "save"
    BY CallsMade, PlainTyped DEF Text, saveCall
  <2> HIDE DEF r, c
  <2>4. r \in ScriptIn(D, F) /\ InPath(r) /\ Fits(r, c)
    BY <2>2, <2>3 DEF ScriptIn, InPath, Fits
  <2> QED BY <1>1, <2>1, <2>3, <2>4, SetAwaitOwn, ConcludesSame
<1>8. CASE GiveUp(t)
  BY <1>2, <1>8, AbortOwn, ConcludesSame DEF GiveUp, Quiet
<1> QED BY <1>4, <1>5, <1>6, <1>7, <1>8

\* A request fails, the tab is closed, the disk changes, or a dialog comes and goes.
LEMMA UpsetTyped ==
    ASSUME NEW D, NEW F, TypedIn(D, F), Counters,
           \/ \E t \in Tasks : FailResolve(t) \/ Fail(t)
           \/ Arming \/ cancelOverlays \/ Reload
           \/ \E f \in File : DiskEdit(f)
           \/ UNCHANGED vars
    PROVE  TypedIn(D, F)'
<1>1. /\ folders \in FolderMaps(F) /\ docs \in DocMaps(D, F) /\ DOMAIN docs \subseteq D
      /\ view \in [folders : FolderMaps(F), docs : Places(D, F)] /\ current \in D \cup {None}
      /\ armed \in ArmedIn(D, F) /\ modal \in ModalIn(D, F)
  BY DocMapsAre DEF TypedIn, StoreIn, PageIn, ArmedIn, ModalIn
<1>2. ASSUME NEW t \in Tasks, FailResolve(t)
      PROVE  TypedIn(D, F)'
  <2> DEFINE c == call[t]
  <2>1. Own(t, task, call, D, F) /\ UNCHANGED <<store, page, task>>
    BY <1>2 DEF TypedIn, TasksIn, FailResolve, page
  <2>2. CASE At(t, "createFolder", "resolve") /\ Await(t, [c EXCEPT !.pc = "check", !.parent = Root])
    <3> DEFINE b == [c EXCEPT !.pc = "check", !.parent = Root]
    <3>1. t \in DOMAIN call /\ c \in Creating(F)
      BY <2>1, <2>2, CallShapes DEF Own, At
    <3>2. b \in Creating(F) /\ b.fn = c.fn
      BY <3>1 DEF Creating
    <3>3. b \in CallIn(D, F)
      BY <3>2 DEF CallIn
    <3>4. Await(t, b)
      BY <2>2
    <3> HIDE DEF b
    <3> QED BY <2>1, <3>1, <3>2, <3>3, <3>4, AwaitOwn, ConcludesSame
  <2>3. CASE At(t, "save", "resolve") /\ Await(t, [c EXCEPT !.pc = "write", !.folder = Root])
    <3> DEFINE b == [c EXCEPT !.pc = "write", !.folder = Root]
    <3>1. t \in DOMAIN call /\ c \in Making(F)
      <4>1. t \in DOMAIN call /\ c \in CallIn(D, F) /\ c.fn = "save" /\ c.pc = "resolve"
        BY <2>1, <2>3 DEF Own, At
      <4> QED BY <4>1, CallShapes DEF Making, ToSave, Saving
    <3>2. b \in Making(F) /\ b.fn = c.fn
      BY <3>1 DEF Making
    <3>3. b \in CallIn(D, F)
      BY <3>2 DEF CallIn
    <3>4. Await(t, b)
      BY <2>3
    <3> HIDE DEF b
    <3> QED BY <2>1, <3>1, <3>2, <3>3, <3>4, AwaitOwn, ConcludesSame
  <2> QED BY <1>2, <2>2, <2>3 DEF FailResolve
<1>3. ASSUME NEW t \in Tasks, Fail(t)
      PROVE  TypedIn(D, F)'
  <2>1. Own(t, task, call, D, F) /\ UNCHANGED <<store, page>> /\ Abort(t)
    BY <1>3 DEF TypedIn, TasksIn, Fail, page
  <2> QED BY <2>1, AbortOwn, ConcludesSame
<1>4. ASSUME armed' \in ArmedIn(D, F), requestEditor, UNCHANGED <<store, task, call, view, current>>
      PROVE  TypedIn(D, F)'
  <2>1. modal' \in ModalIn(D, F)
    BY <1>4, ModalTyped DEF requestEditor
  <2>2. PageIn(D, F)'
    BY <1>1, <1>4, <2>1 DEF PageIn, ArmedIn, ModalIn
  <2> QED BY <1>4, <2>2 DEF TypedIn, NumbersIn, StoreIn, TasksIn, store
<1>5. CASE Arming
  <2>1. PICK a : Arm(a) /\ \/ \E d \in Offered : a = [doc |-> d, folder |-> armed.folder, props |-> None]
                           \/ \E f \in OfferedFolders : a = [doc |-> None, folder |-> f, props |-> None]
    BY <1>5 DEF Arming, armDelete, armFolderDelete
  <2>2. Offered \subseteq D /\ OfferedFolders \subseteq F
    <3>1. DOMAIN view.docs \subseteq D
      BY <1>1, PlacesAre
    <3>2. IsFiniteSet(DOMAIN view.folders) /\ DOMAIN view.folders \subseteq F
      BY <1>1, MapsFinite DEF TypedIn
    <3> QED BY <3>1, <3>2, RenderedWhole DEF Offered, OfferedFolders
  <2>3. a \in ArmedIn(D, F)
    BY <1>1, <2>1, <2>2 DEF ArmedIn
  <2> QED BY <1>4, <2>1, <2>3 DEF Arm
<1>6. CASE cancelOverlays
  <2>1. NoArmed \in ArmedIn(D, F)
    BY DEF NoArmed, ArmedIn
  <2> QED BY <1>4, <1>6, <2>1 DEF cancelOverlays
<1>7. CASE Reload
  <2>1. /\ UNCHANGED store /\ task' = Empty /\ call' = Empty /\ view' = Lists /\ current' \in DOMAIN docs
        /\ armed' = NoArmed /\ modal' = None
    BY <1>7 DEF Reload
  <2>2. TasksIn(D, F)'
    BY <2>1 DEF TasksIn, Own, Empty
  <2>3. PageIn(D, F)'
    BY <1>1, <2>1, ListsTyped DEF PageIn, NoArmed, TypedIn
  <2> QED BY <2>1, <2>2, <2>3 DEF TypedIn, NumbersIn, StoreIn, store
<1>8. ASSUME NEW f \in File, DiskEdit(f)
      PROVE  TypedIn(D, F)'
  BY <1>8 DEF DiskEdit, TypedIn, NumbersIn, StoreIn, TasksIn, PageIn, store, page
<1>9. CASE UNCHANGED vars
  BY <1>9 DEF vars, TypedIn, NumbersIn, StoreIn, TasksIn, PageIn, store, page
<1> QED BY <1>2, <1>3, <1>5, <1>6, <1>7, <1>8, <1>9

\* A gesture starts a script.
LEMMA BeginOwn ==
    ASSUME NEW D, NEW F, NEW t \in Tasks, Own(t, task, call, D, F),
           NEW s \in ScriptIn(D, F), InPath(s), Begin(t, s),
           \/ \E c \in CallIn(D, F) : Fits(s, c) /\ Await(t, c)
           \/ Ripe(s) /\ UNCHANGED call
    PROVE  Frame(t) /\ Own(t, task', call', D, F)
<1>1. t \notin DOMAIN call /\ task' = With(task, t, s)
  BY DEF Own, Begin, Running
<1>2. Frame(t)
  BY <1>1 DEF Frame, With, Await
<1>3. Own(t, task', call', D, F)
  BY <1>1 DEF Own, With, Await
<1> QED BY <1>2, <1>3

LEMMA GestureTyped ==
    ASSUME NEW D, NEW F, TypedIn(D, F), Counters, NEW t \in Tasks, UserBegins(t) \/ SyncBegins(t)
    PROVE  TypedIn(D, F)'
<1>1. /\ folders \in FolderMaps(F) /\ docs \in DocMaps(D, F) /\ DOMAIN docs \subseteq D
      /\ view \in [folders : FolderMaps(F), docs : Places(D, F)] /\ current \in D \cup {None}
      /\ armed \in ArmedIn(D, F) /\ modal \in ModalIn(D, F) /\ Own(t, task, call, D, F)
  BY DocMapsAre DEF TypedIn, StoreIn, PageIn, ArmedIn, ModalIn, TasksIn
<1>2. /\ \A d \in Offered : d \in D
      /\ \A f \in OfferedFolders : f \in F
      /\ \A f \in DOMAIN view.folders : f \in F
  <2>1. DOMAIN view.docs \subseteq D
    BY <1>1, PlacesAre
  <2>2. IsFiniteSet(DOMAIN view.folders) /\ DOMAIN view.folders \subseteq F
    BY <1>1, MapsFinite DEF TypedIn
  <2> QED BY <2>1, <2>2, RenderedWhole DEF Offered, OfferedFolders
<1>3. ASSUME NEW s, Begin(t, s), s \in ScriptIn(D, F), InPath(s),
             \/ \E c \in CallIn(D, F) : Fits(s, c) /\ Await(t, c)
             \/ Ripe(s) /\ UNCHANGED call,
             armed' \in ArmedIn(D, F), UNCHANGED modal
      PROVE  TypedIn(D, F)'
  <2>1. Frame(t) /\ Own(t, task', call', D, F)
    BY <1>1, <1>3, BeginOwn
  <2>2. UNCHANGED <<store, view, current>>
    BY <1>3 DEF Begin
  <2>3. PageIn(D, F)'
    BY <1>1, <1>3, <2>2 DEF PageIn, ArmedIn, ModalIn
  <2> QED BY <2>1, <2>2, <2>3, Settles
<1>4. \A f \in File : disk[f] \in Nat
  BY LibraryBounds DEF Counters
<1>5. ASSUME StaysArmed PROVE armed' \in ArmedIn(D, F) /\ UNCHANGED modal
  BY <1>1, <1>5 DEF StaysArmed, NoRender
<1>6. ASSUME Disarmed, NoRender PROVE armed' \in ArmedIn(D, F) /\ UNCHANGED modal
  BY <1>1, <1>6 DEF Disarmed, NoRender, ArmedIn
<1>10. CASE createFolder(t)
  <2> DEFINE s == Script("createFolder", "lists")
             c == createFolderCall(Plain(NewFolder), Root)
  <2>1. Begin(t, s) /\ Await(t, c) /\ StaysArmed
    BY <1>10 DEF createFolder
  <2>2. s \in OfFolder(F) /\ s.op = "createFolder" /\ s.pc = "lists"
    BY DEF OfFolder, Script, Made
  <2>3. c \in CallIn(D, F) /\ c.fn = "createFolder"
    BY CallsMade, PlainTyped DEF createFolderCall
  <2> HIDE DEF s, c
  <2>4. s \in ScriptIn(D, F) /\ InPath(s) /\ Fits(s, c)
    BY <2>2, <2>3 DEF ScriptIn, InPath, Fits
  <2> QED BY <1>3, <1>5, <2>1, <2>3, <2>4
<1>11. ASSUME NEW f \in OfferedFolders, NEW b \in Base, renameFolder(t, f, b)
       PROVE  TypedIn(D, F)'
  <2> DEFINE s == Script("renameFolder", "lists")
             c == renameFolderCall(f, Plain(b))
  <2>1. Begin(t, s) /\ Await(t, c) /\ StaysArmed
    BY <1>11 DEF renameFolder
  <2>2. s \in OfFolder(F) /\ s.op = "renameFolder" /\ s.pc = "lists"
    BY DEF OfFolder, Script, Made
  <2>3. c \in CallIn(D, F) /\ c.fn = "renameFolder"
    BY <1>2, CallsMade, PlainTyped DEF renameFolderCall
  <2> HIDE DEF s, c
  <2>4. s \in ScriptIn(D, F) /\ InPath(s) /\ Fits(s, c)
    BY <2>2, <2>3 DEF ScriptIn, InPath, Fits
  <2> QED BY <1>3, <1>5, <2>1, <2>3, <2>4
<1>12. ASSUME NEW d \in Offered, NEW f \in DOMAIN view.folders \cup {Root}, moveDocument(t, d, f)
       PROVE  TypedIn(D, F)'
  <2> DEFINE s == Script("moveDocument", "lists")
             c == moveCall(d, f)
  <2>1. Begin(t, s) /\ Await(t, c) /\ StaysArmed
    BY <1>12 DEF moveDocument
  <2>2. s \in OfDoc(D) /\ s.op = "moveDocument" /\ s.pc = "lists"
    BY DEF OfDoc, Script, Made
  <2>3. c \in CallIn(D, F) /\ c.fn = "move"
    BY <1>2, CallsMade DEF moveCall
  <2> HIDE DEF s, c
  <2>4. s \in ScriptIn(D, F) /\ InPath(s) /\ Fits(s, c)
    BY <2>2, <2>3 DEF ScriptIn, InPath, Fits
  <2> QED BY <1>3, <1>5, <2>1, <2>3, <2>4
<1>13. ASSUME NEW f \in OfferedFolders \cup {Root}, createDocument(t, f)
       PROVE  TypedIn(D, F)'
  <2> DEFINE s == Script("createDocument", "lists")
             c == createCall(Plain(NewTitle), f, None)
  <2>1. Begin(t, s) /\ Await(t, c) /\ Disarmed /\ NoRender
    BY <1>13 DEF createDocument
  <2>2. s \in OfDoc(D) /\ s.op = "createDocument" /\ s.pc = "lists"
    BY DEF OfDoc, Script, Made
  <2>3. c \in CallIn(D, F) /\ c.fn = "save"
    BY <1>2, CallsMade, PlainTyped DEF createCall
  <2> HIDE DEF s, c
  <2>4. s \in ScriptIn(D, F) /\ InPath(s) /\ Fits(s, c)
    BY <2>2, <2>3 DEF ScriptIn, InPath, Fits
  <2> QED BY <1>3, <1>6, <2>1, <2>3, <2>4
<1>14. ASSUME NEW d \in Offered, switchDocument(t, d) \/ showProperties(t, d)
       PROVE  TypedIn(D, F)'
  <2>1. PICK op \in {"switchDocument", "showProperties"} : Begin(t, DocScript(op, "open", d))
    BY <1>14 DEF switchDocument, showProperties
  <2> DEFINE s == DocScript(op, "open", d)
  <2>2. UNCHANGED <<call, modal>> /\ armed' \in ArmedIn(D, F)
    BY <1>5, <1>6, <1>14 DEF switchDocument, showProperties
  <2>3. s \in Opening(D)
    BY <1>2 DEF Opening, DocScript
  <2>4. s \in ScriptIn(D, F) /\ InPath(s) /\ Ripe(s)
    BY <2>3 DEF ScriptIn, InPath, Ripe, Opening
  <2> HIDE DEF s
  <2>5. Begin(t, s)
    BY <2>1 DEF s
  <2> QED BY <1>3, <2>2, <2>4, <2>5
<1>15. ASSUME NEW f \in File, importContent(t, f)
       PROVE  TypedIn(D, F)'
  <2> DEFINE text == <<f, disk[f]>>
             s == [op |-> "importContent", pc |-> "created", got |-> None, text |-> text]
             c == createCall(Plain(Name[f]), Root, None)
  <2>1. Begin(t, s) /\ Await(t, c) /\ StaysArmed
    BY <1>15 DEF importContent
  <2>2. s \in Taking(D) /\ s.op = "importContent" /\ s.pc = "created"
    BY <1>4 DEF Taking, Made, Text
  <2>3. c \in CallIn(D, F) /\ c.fn = "save"
    BY CallsMade, PlainTyped DEF createCall
  <2> HIDE DEF s, c
  <2>4. s \in ScriptIn(D, F) /\ InPath(s) /\ Fits(s, c)
    BY <2>2, <2>3 DEF ScriptIn, InPath, Fits
  <2> QED BY <1>3, <1>5, <2>1, <2>3, <2>4
<1>16. CASE importFolder(t)
  <2> DEFINE s == [op |-> "importFolder", pc |-> "list", got |-> None, was |-> <<folders, docs>>,
                   texts |-> disk, left |-> File, root |-> None, file |-> None, parent |-> Root,
                   rest |-> <<>>, seen |-> Empty, fl |-> folders, first |-> None]
  <2>1. Begin(t, s) /\ UNCHANGED call /\ StaysArmed
    BY <1>16 DEF importFolder
  <2>2. Empty \in DocMaps(D, F) /\ <<>> \in Seq(Base) /\ disk \in [File -> Nat]
    BY <1>4, MapSteps DEF Counters
  <2>3. s \in Import1(D, F)
    BY <1>1, <2>2 DEF Import1, Importing, Made
  <2>4. s \in ScriptIn(D, F) /\ InPath(s) /\ Ripe(s)
    BY <2>3 DEF ScriptIn, InPath, Ripe
  <2> HIDE DEF s
  <2> QED BY <1>3, <1>5, <2>1, <2>4
<1>17. CASE confirmDeleteAndApply(t) /\ confirmFolderDelete(t)
  <2> DEFINE s == [op |-> "deleteFolder", pc |-> "lists", got |-> None, id |-> armed.folder,
                   was |-> <<folders, docs>>]
             c == deleteFolderCall(armed.folder)
  <2>1. Begin(t, s) /\ Await(t, c) /\ armed' = [armed EXCEPT !.folder = None] /\ UNCHANGED modal
    BY <1>17 DEF confirmFolderDelete, confirmDeleteAndApply
  <2>2. armed.folder \in F
    BY <1>1, <1>17 DEF confirmFolderDelete, ArmedIn
  <2>3. s \in Clearing(D, F) /\ s.op = "deleteFolder" /\ s.pc = "lists"
    BY <1>1, <2>2 DEF Clearing
  <2>4. c \in CallIn(D, F) /\ c.fn = "deleteFolder"
    BY <2>2, CallsMade DEF deleteFolderCall
  <2>5. armed' \in ArmedIn(D, F)
    BY <1>1, <2>1 DEF ArmedIn
  <2> HIDE DEF s, c
  <2>6. s \in ScriptIn(D, F) /\ InPath(s) /\ Fits(s, c)
    BY <2>3, <2>4 DEF ScriptIn, InPath, Fits
  <2> QED BY <1>3, <2>1, <2>4, <2>5, <2>6
<1>18. CASE confirmDeleteAndApply(t) /\ confirmDelete(t)
  <2> DEFINE removed == IF armed.doc # None THEN armed.doc ELSE current
             s == [op |-> "deleteDocument", pc |-> "erase", got |-> None, id |-> removed,
                   open |-> (removed = current)]
  <2>1. Begin(t, s) /\ UNCHANGED <<call, modal>> /\ armed' = [armed EXCEPT !.doc = None]
    BY <1>18 DEF confirmDelete, confirmDeleteAndApply
  <2>2. removed \in D
    BY <1>1, <1>18 DEF confirmDelete, ArmedIn
  <2> HIDE DEF removed
  <2>3. s \in Erasing(D)
    BY <2>2 DEF Erasing
  <2>4. s \in ScriptIn(D, F) /\ InPath(s) /\ Ripe(s)
    BY <2>3 DEF ScriptIn, InPath, Ripe
  <2>5. armed' \in ArmedIn(D, F)
    BY <1>1, <2>1 DEF ArmedIn
  <2> HIDE DEF s
  <2> QED BY <1>3, <2>1, <2>4, <2>5
<1>19. ASSUME NEW d \in D \cup {None}, NEW path \in Seq(Counted), Len(path) \in Nat \ {0},
              pull(t, d, path)
       PROVE  TypedIn(D, F)'
  <2> DEFINE s == [op |-> "pull", pc |-> "maps", got |-> None, id |-> d, path |-> path,
                   parent |-> Root, k |-> 1, fl |-> folders]
  <2>1. Begin(t, s) /\ UNCHANGED call /\ StaysArmed
    BY <1>19 DEF pull
  <2>2. s \in Pulling(D, F) /\ InPath(s)
    BY <1>1, <1>19 DEF Pulling, InPath
  <2>3. s \in ScriptIn(D, F) /\ Ripe(s)
    BY <2>2 DEF ScriptIn, Ripe
  <2> HIDE DEF s
  <2> QED BY <1>3, <1>5, <2>1, <2>2, <2>3
<1>20. CASE SyncBegins(t)
  <2>1. CASE \E d \in DOMAIN docs : pull(t, d, pathForRecord(folders, docs[d]))
    <3>1. PICK d \in DOMAIN docs : pull(t, d, pathForRecord(folders, docs[d]))
      BY <2>1
    <3>2. docs[d].title \in Counted /\ \A f \in DOMAIN folders : folders[f].name \in Counted
      BY <1>1, DocMapsAre, FolderMapsAre DEF DocIn, FolderIn
    <3>3. IsFiniteSet(DOMAIN folders)
      BY <1>1, MapsFinite DEF TypedIn
    <3>4. /\ pathForRecord(folders, docs[d]) \in Seq(Counted)
          /\ Len(pathForRecord(folders, docs[d])) \in Nat \ {0}
      BY <3>2, <3>3, PathTyped
    <3> QED BY <1>1, <1>19, <3>1, <3>4
  <2>2. CASE \E p \in Foreign : pull(t, None, [k \in DOMAIN p |-> Plain(p[k])])
    <3>1. PICK p \in Foreign : pull(t, None, [k \in DOMAIN p |-> Plain(p[k])])
      BY <2>2
    <3> DEFINE path == [k \in DOMAIN p |-> Plain(p[k])]
    <3>2. p \in Seq(Base) /\ Len(p) \in Nat \ {0} /\ DOMAIN p = 1 .. Len(p)
      BY NamesKnown, EmptySeq, LenProperties
    <3>3. \A k \in 1 .. Len(p) : Plain(p[k]) \in Counted
      BY <3>2, PlainTyped
    <3>4. path \in [1 .. Len(p) -> Counted]
      BY <3>2, <3>3
    <3>5. path \in Seq(Counted) /\ Len(path) = Len(p)
      BY <3>2, <3>4
    <3> HIDE DEF path
    <3> QED BY <1>19, <3>1, <3>2, <3>5 DEF path
  <2> QED BY <1>20, <2>1, <2>2 DEF SyncBegins
<1> QED BY <1>10, <1>11, <1>12, <1>13, <1>14, <1>15, <1>16, <1>17, <1>18, <1>20
        DEF UserBegins, confirmDeleteAndApply

LEMMA InitTyped == Init => Typed
<1> SUFFICES ASSUME Init PROVE Typed
  OBVIOUS
<1> DEFINE D == DOMAIN docs
           F == DOMAIN folders
<1>1. PICK s \in Start : folders = s.folders /\ docs = s.docs
                    /\ manner = s.manner /\ picker = s.picker
  BY DEF Init
<1>2. /\ manner \in Manner /\ picker \in BOOLEAN /\ IsFiniteSet(F) /\ IsFiniteSet(D) /\ F \cap D = {}
      /\ F \cup D = 1 .. Cardinality(F) + Cardinality(D)
      /\ folders \in [F -> FolderIn(F)]
      /\ docs \in [D -> DocIn(F)]
  BY <1>1, StartsKnown DEF FolderIn, DocIn
<1>3. ids = Cardinality(F) + Cardinality(D) /\ ids \in Nat
  BY <1>2, FS_CardinalityType DEF Init
<1> HIDE DEF D, F
<1>4. NumbersIn(D, F) /\ D \in SUBSET Nat /\ F \in SUBSET Nat
  BY <1>2, <1>3 DEF NumbersIn
<1>5. StoreIn(D, F)
  BY <1>2, FolderMapsAre, DocMapsAre DEF StoreIn, D, F
<1>6. TasksIn(D, F)
  BY DEF TasksIn, Own, Init, Empty
<1>7. PageIn(D, F)
  BY <1>5, ListsTyped DEF PageIn, Init, NoArmed, D
<1>8. Counters
  BY <1>2, LibraryBounds DEF Counters, Init, Empty
<1> QED BY <1>4, <1>5, <1>6, <1>7, <1>8 DEF Typed, TypedIn

\* Who runs and who waits, step by step.
Keeps(t) == DOMAIN task' \subseteq DOMAIN task \cup {t} /\ DOMAIN call' \subseteq DOMAIN call \cup {t}
LEMMA StepsKeep ==
    ASSUME NEW t, Service(t) \/ Proceed(t) \/ FailResolve(t) \/ Fail(t)
    PROVE  Keeps(t)
<1>1. (\E c : Await(t, c)) => DOMAIN call' \subseteq DOMAIN call \cup {t}
  BY DEF Await, With
<1>2. ((\E v : Return(t, v)) \/ Abort(t)) => Keeps(t)
  BY DEF Return, Abort, Without, Keeps
<1>3. (\E s : Set(t, s)) => DOMAIN task' = DOMAIN task
  BY DEF Set
<1>4. task' = Without(task, t) => DOMAIN task' \subseteq DOMAIN task
  BY DEF Without
<1>5. Service(t) => Keeps(t)
  BY <1>1, <1>2 DEF Keeps, Service, CreateFolderResolve, CreateFolderCheck, CreateFolderWrite,
     RenameFolderRead, RenameFolderCheck, RenameFolderWrite, DeleteFolderFolders, DeleteFolderDocs,
     DropDoc, DropFolder, MoveRead, MoveResolve, MoveWrite, SaveResolve, SaveCheck, SaveOpen,
     SaveWrite, Goto
<1>6. Proceed(t) => Keeps(t)
  <2>1. (ImportList(t) \/ ImportRoot(t) \/ ImportDocs(t) \/ ImportFile(t) \/ ImportWalk(t)) => Keeps(t)
    BY <1>1, <1>3 DEF Keeps, ImportList, ImportRoot, ImportDocs, ImportFile, ImportWalk
  <2>2. (ImportSave(t) \/ ImportCreated(t) \/ ImportSaved(t)) => Keeps(t)
    BY <1>1, <1>3 DEF Keeps, ImportSave, ImportCreated, ImportSaved
  <2>3. (PullMaps(t) \/ PullChain(t) \/ PullRecord(t)) => Keeps(t)
    BY <1>1, <1>3 DEF Keeps, PullMaps, PullChain, PullRecord
  <2>4. (Open(t) \/ Erase(t) \/ Finish(t) \/ Replace(t) \/ GiveUp(t)) => Keeps(t)
    BY <1>1, <1>2, <1>3, <1>4 DEF Keeps, Open, Erase, Finish, Replace, GiveUp
  <2> QED BY <2>1, <2>2, <2>3, <2>4 DEF Proceed
<1>7. (FailResolve(t) \/ Fail(t)) => Keeps(t)
  BY <1>1, <1>2 DEF Keeps, FailResolve, Fail
<1> QED BY <1>5, <1>6, <1>7

LEMMA CountersKept ==
    ASSUME Counters, \A t \in DOMAIN call : t \in DOMAIN task, [Next]_vars
    PROVE  Counters'
<1>1. MaxOps[manner] \in Nat /\ MaxFails[manner] \in Nat /\ MaxDisk \in Nat
  BY LibraryBounds DEF Counters
<1>2. ASSUME NEW t \in Tasks, Service(t) \/ Proceed(t)
      PROVE  Counters'
  <2>1. Keeps(t)
    BY <1>2, StepsKeep
  <2>2. UNCHANGED <<disk, manner, picker, ops, fails>>
    BY <1>2 DEF Service, Proceed, ImportList, ImportRoot, ImportDocs, ImportFile, ImportWalk,
       ImportSave, ImportCreated, ImportSaved, PullMaps, PullChain, PullRecord, Open, Erase, Finish,
       Replace, GiveUp, Quiet, setting
  <2> QED BY <1>2, <2>1, <2>2 DEF Counters, Keeps
<1>3. ASSUME NEW t \in Tasks, FailResolve(t) \/ Fail(t)
      PROVE  Counters'
  <2>1. Keeps(t)
    BY <1>3, StepsKeep
  <2>2. UNCHANGED <<disk, manner, picker, ops>> /\ fails < MaxFails[manner] /\ fails' = fails + 1
    BY <1>3 DEF FailResolve, Fail, setting
  <2> QED BY <1>1, <1>3, <2>1, <2>2 DEF Counters, Keeps
<1>4. ASSUME NEW t \in Tasks, NEW s, Begin(t, s), DOMAIN call' \subseteq DOMAIN call \cup {t}
      PROVE  Counters'
  BY <1>1, <1>4 DEF Counters, Begin, With, setting
<1>5. ASSUME NEW t \in Tasks, UserBegins(t) \/ SyncBegins(t)
      PROVE  Counters'
  <2>1. \A c : Await(t, c) => DOMAIN call' \subseteq DOMAIN call \cup {t}
    BY DEF Await, With
  <2> QED BY <1>4, <1>5, <2>1 DEF UserBegins, SyncBegins, createFolder, importFolder,
          confirmDeleteAndApply, confirmFolderDelete, confirmDelete, importContent, renameFolder,
          createDocument, moveDocument, switchDocument, showProperties, pull
<1>6. CASE Arming \/ cancelOverlays
  BY <1>6 DEF Counters, Arming, armDelete, armFolderDelete, Arm, cancelOverlays, setting
<1>7. CASE Reload
  BY <1>1, <1>7 DEF Counters, Reload, Empty, setting
<1>8. ASSUME NEW f \in File, DiskEdit(f)
      PROVE  Counters'
  BY <1>1, <1>8 DEF Counters, DiskEdit, setting
<1>9. CASE UNCHANGED vars
  BY <1>9 DEF Counters, vars, setting
<1> QED BY <1>2, <1>3, <1>5, <1>6, <1>7, <1>8, <1>9 DEF Next

LEMMA NextTyped == Typed /\ [Next]_vars => Typed'
<1> SUFFICES ASSUME Typed, [Next]_vars PROVE Typed'
  OBVIOUS
<1>1. PICK D \in SUBSET Nat, F \in SUBSET Nat : TypedIn(D, F)
  BY DEF Typed
<1>2. Counters'
  <2>1. \A t \in DOMAIN call : t \in DOMAIN task
    BY <1>1 DEF Typed, Counters, TypedIn, TasksIn, Own
  <2> QED BY <2>1, CountersKept DEF Typed
<1>3. \E E, G \in SUBSET Nat : TypedIn(E, G)'
  <2>1. ASSUME NEW t \in Tasks, Service(t)
        PROVE  \E E, G \in SUBSET Nat : TypedIn(E, G)'
    BY <1>1, <2>1, ServiceTyped
  <2>2. ASSUME NEW t \in Tasks, UserBegins(t) \/ SyncBegins(t)
        PROVE  TypedIn(D, F)'
    BY <1>1, <2>2, GestureTyped DEF Typed
  <2>3. ASSUME NEW t \in Tasks, Proceed(t)
        PROVE  \E E, G \in SUBSET Nat : TypedIn(E, G)'
    <3>1. CASE PullMaps(t) \/ PullChain(t) \/ PullRecord(t)
      BY <1>1, <3>1, PullTyped
    <3>2. CASE Open(t) \/ Erase(t) \/ Finish(t) \/ Replace(t) \/ GiveUp(t)
      BY <1>1, <3>2, EndTyped
    <3>3. CASE \/ ImportList(t) \/ ImportRoot(t) \/ ImportDocs(t) \/ ImportFile(t) \/ ImportWalk(t)
               \/ ImportSave(t) \/ ImportCreated(t) \/ ImportSaved(t)
      BY <1>1, <3>3, ImportTyped DEF Typed
    <3> QED BY <2>3, <3>1, <3>2, <3>3 DEF Proceed
  <2>4. CASE \/ \E t \in Tasks : FailResolve(t) \/ Fail(t)
             \/ Arming \/ cancelOverlays \/ Reload
             \/ \E f \in File : DiskEdit(f)
             \/ UNCHANGED vars
    BY <1>1, <2>4, UpsetTyped DEF Typed
  <2> QED BY <1>1, <2>1, <2>2, <2>3, <2>4 DEF Next
<1> QED BY <1>2, <1>3 DEF Typed

LEMMA TypedIsTypeOK == Typed => TypeOK
<1> SUFFICES ASSUME Typed PROVE TypeOK
  OBVIOUS
<1>1. PICK D \in SUBSET Nat, F \in SUBSET Nat : TypedIn(D, F)
  BY DEF Typed
<1>2. D \subseteq Ids /\ F \subseteq Ids /\ D \cap F = {}
  BY <1>1 DEF TypedIn, NumbersIn, Ids
<1>3. /\ DOMAIN folders \subseteq F /\ \A f \in DOMAIN folders : folders[f] \in FolderIn(F)
      /\ DOMAIN docs \subseteq D /\ \A d \in DOMAIN docs : docs[d] \in DocIn(F)
  BY <1>1, FolderMapsAre, DocMapsAre DEF TypedIn, StoreIn
<1>4. DOMAIN folders \cup DOMAIN docs \subseteq Ids /\ DOMAIN folders \cap DOMAIN docs = {}
  BY <1>2, <1>3
<1>5. \A f \in DOMAIN folders : folders[f].name \in Counted /\ folders[f].parent \in Ids \cup {Root}
  BY <1>2, <1>3 DEF FolderIn
<1>6. \A d \in DOMAIN docs : /\ docs[d].title \in Counted /\ docs[d].text \in Text
                             /\ docs[d].folder \in Ids \cup {Root}
                             /\ docs[d].origin \in File \cup {None}
  BY <1>2, <1>3 DEF DocIn
<1>7. DOMAIN call \subseteq DOMAIN task
  BY <1>1 DEF Typed, Counters, TypedIn, TasksIn, Own
<1>8. current \in Ids \cup {None} /\ (modal # None => modal.id \in Ids)
  BY <1>1, <1>2 DEF TypedIn, PageIn
<1> QED BY <1>4, <1>5, <1>6, <1>7, <1>8 DEF Typed, Counters, TypeOK

LEMMA AlwaysTyped == Spec => []Typed
BY InitTyped, NextTyped, PTL DEF Spec

\* Whatever operations overlap, whichever requests fail and whenever the tab is
\* closed, what the service and the controller keep stays well-formed: every id
\* in use was given out, to a document or to a folder and never to both, and an
\* operation that awaits a call of the service runs.
THEOREM LibraryTyped == Spec => []TypeOK
BY AlwaysTyped, TypedIsTypeOK, PTL

-----------------------------------------------------------------------------
(* Which operations have overlapped *)

LEMMA StepsFrame ==
    ASSUME NEW t, Service(t) \/ Proceed(t) \/ FailResolve(t) \/ Fail(t)
    PROVE  Frame(t)
<1> DEFINE OneCall ==
               \A u \in Tasks \ {t} :
                   /\ u \in DOMAIN call' <=> u \in DOMAIN call
                   /\ u \in DOMAIN call => call'[u] = call[u]
           OneTask ==
               \A u \in Tasks \ {t} :
                   /\ u \in DOMAIN task' <=> u \in DOMAIN task
                   /\ u \in DOMAIN task => task'[u] = task[u]
<1>1. (\E c : Await(t, c)) => OneCall
  BY DEF Await, With
<1>2. (\E v : Return(t, v)) \/ Abort(t) => OneCall /\ OneTask
  BY DEF Return, Abort, Without
<1>3. (\E s : Set(t, s)) => OneTask
  BY DEF Set
<1>4. task' = Without(task, t) => OneTask
  BY DEF Without
<1>5. (task' = task => OneTask) /\ (call' = call => OneCall) /\ (OneTask /\ OneCall => Frame(t))
  BY DEF Frame
<1> HIDE DEF OneCall, OneTask
<1>6. Service(t) => Frame(t)
  BY <1>1, <1>2, <1>5 DEF Service, CreateFolderResolve, CreateFolderCheck, CreateFolderWrite,
     RenameFolderRead, RenameFolderCheck, RenameFolderWrite, DeleteFolderFolders, DeleteFolderDocs,
     DropDoc, DropFolder, MoveRead, MoveResolve, MoveWrite, SaveResolve, SaveCheck, SaveOpen,
     SaveWrite, Goto
<1>7. Proceed(t) => Frame(t)
  <2>1. (ImportList(t) \/ ImportRoot(t) \/ ImportDocs(t) \/ ImportFile(t) \/ ImportWalk(t)) => Frame(t)
    BY <1>1, <1>3, <1>5 DEF ImportList, ImportRoot, ImportDocs, ImportFile, ImportWalk
  <2>2. (ImportSave(t) \/ ImportCreated(t) \/ ImportSaved(t)) => Frame(t)
    BY <1>1, <1>3, <1>5 DEF ImportSave, ImportCreated, ImportSaved
  <2>3. (PullMaps(t) \/ PullChain(t) \/ PullRecord(t)) => Frame(t)
    BY <1>1, <1>3, <1>5 DEF PullMaps, PullChain, PullRecord
  <2>4. (Open(t) \/ Erase(t) \/ Finish(t) \/ Replace(t) \/ GiveUp(t)) => Frame(t)
    BY <1>1, <1>2, <1>3, <1>4, <1>5 DEF Open, Erase, Finish, Replace, GiveUp
  <2> QED BY <2>1, <2>2, <2>3, <2>4 DEF Proceed
<1>8. FailResolve(t) \/ Fail(t) => Frame(t)
  BY <1>1, <1>2, <1>5 DEF FailResolve, Fail
<1> QED BY <1>6, <1>7, <1>8

\* What a running operation may have begun as: a fresh document takes the place
\* of the last one that went away.
Was(op) ==
    IF op = "createDocument" THEN {"createDocument", "deleteDocument", "deleteFolder", "pull"}
    ELSE {op}
Recorded ==
    \A t, u \in DOMAIN task : t # u =>
        \E x \in Was(task[t].op), y \in Was(task[u].op) : {x, y} \in overlaps

\* An operation keeps its name, but for that document.
LEMMA StepsKeepOp ==
    ASSUME NEW t, Service(t) \/ Proceed(t) \/ FailResolve(t) \/ Fail(t), t \in DOMAIN task',
           t \in DOMAIN task => "op" \in DOMAIN task[t]
    PROVE  t \in DOMAIN task /\ Was(task[t].op) \subseteq Was(task'[t].op)
<1>1. t \in DOMAIN task
  <2> SUFFICES ASSUME t \notin DOMAIN task PROVE FALSE
    OBVIOUS
  <2>1. \A s, v : (Set(t, s) \/ Return(t, v) \/ Abort(t) \/ task' = Without(task, t) \/ task' = task)
                     => t \notin DOMAIN task'
    BY DEF Set, Return, Abort, Without
  <2>2. CASE Service(t)
    BY <2>1, <2>2 DEF Service, CreateFolderResolve, CreateFolderCheck, CreateFolderWrite,
     RenameFolderRead, RenameFolderCheck, RenameFolderWrite, DeleteFolderFolders, DeleteFolderDocs,
     DropDoc, DropFolder, MoveRead, MoveResolve, MoveWrite, SaveResolve, SaveCheck, SaveOpen,
     SaveWrite, Goto
  <2>3. CASE Proceed(t)
    BY <2>1, <2>3 DEF Proceed, In, Running, ImportList, ImportRoot, ImportDocs, ImportFile,
     ImportWalk, ImportSave, ImportCreated, ImportSaved, PullMaps, PullChain, PullRecord, Open, Erase,
     Finish, Replace, GiveUp
  <2>4. CASE FailResolve(t) \/ Fail(t)
    BY <2>1, <2>4 DEF FailResolve, Fail
  <2> QED BY <2>2, <2>3, <2>4
<1> DEFINE Same == task'[t].op = task[t].op
<1>2. /\ \A s : Set(t, s) => task'[t] = s
      /\ \A v : Return(t, v) => Same
      /\ task' = task => Same
      /\ ~ Abort(t) /\ task' # Without(task, t)
  <2>1. \A s : Set(t, s) => task'[t] = s
    BY <1>1 DEF Set
  <2>2. ASSUME NEW v, Return(t, v) PROVE Same
    <3>1. task'[t] = [task[t] EXCEPT !.got = v]
      BY <1>1, <2>2 DEF Return
    <3>2. task'[t].op = task[t].op
      BY <3>1
    <3> QED BY <3>2
  <2>3. ~ Abort(t) /\ task' # Without(task, t)
    BY DEF Abort, Without
  <2> QED BY <2>1, <2>2, <2>3
<1> HIDE DEF Same
<1>3. Service(t) => Same
  BY <1>2 DEF Service, CreateFolderResolve, CreateFolderCheck, CreateFolderWrite,
     RenameFolderRead, RenameFolderCheck, RenameFolderWrite, DeleteFolderFolders, DeleteFolderDocs,
     DropDoc, DropFolder, MoveRead, MoveResolve, MoveWrite, SaveResolve, SaveCheck, SaveOpen,
     SaveWrite, Goto
<1>4. FailResolve(t) \/ Fail(t) => Same
  BY <1>2 DEF FailResolve, Fail
<1>5. Proceed(t) /\ ~ Replace(t) => Same
  <2>0. \A s : Set(t, s) /\ s.op = task[t].op => Same
    BY <1>2 DEF Same
  <2>1. ImportList(t) => Same
    BY <1>1, <1>2, <2>0 DEF ImportList
  <2>2. ImportRoot(t) => Same
    BY <1>1, <1>2, <2>0 DEF ImportRoot
  <2>3. ImportDocs(t) => Same
    BY <1>1, <1>2, <2>0 DEF ImportDocs
  <2>4. ImportFile(t) => Same
    BY <1>1, <1>2, <2>0 DEF ImportFile
  <2>5. ImportWalk(t) => Same
    BY <1>1, <1>2, <2>0 DEF ImportWalk
  <2>6. ImportSave(t) => Same
    BY <1>1, <1>2, <2>0 DEF ImportSave
  <2>7. ImportCreated(t) => Same
    BY <1>1, <1>2, <2>0 DEF ImportCreated
  <2>8. ImportSaved(t) => Same
    BY <1>1, <1>2, <2>0 DEF ImportSaved
  <2>9. PullMaps(t) => Same
    BY <1>1, <1>2, <2>0 DEF PullMaps
  <2>10. PullChain(t) => Same
    BY <1>1, <1>2, <2>0 DEF PullChain
  <2>11. PullRecord(t) => Same
    BY <1>1, <1>2, <2>0 DEF PullRecord
  <2>12. Open(t) => Same
    BY <1>1, <1>2, <2>0 DEF Open
  <2>13. Erase(t) => Same
    BY <1>1, <1>2, <2>0 DEF Erase
  <2>14. Finish(t) => Same
    BY <1>1, <1>2, <2>0 DEF Finish
  <2>15. GiveUp(t) => Same
    BY <1>1, <1>2, <2>0 DEF GiveUp
  <2> QED BY <2>1, <2>2, <2>3, <2>4, <2>5, <2>6, <2>7, <2>8, <2>9, <2>10, <2>11, <2>12, <2>13, <2>14, <2>15 DEF Proceed
<1>6. Replace(t) => Was(task[t].op) \subseteq Was(task'[t].op)
  <2> SUFFICES ASSUME Replace(t) PROVE Was(task[t].op) \subseteq Was(task'[t].op)
    OBVIOUS
  <2>1. task'[t].op = "createDocument"
    BY <1>2 DEF Replace, Script
  <2>2. task[t].op \in {"createDocument", "deleteDocument", "deleteFolder", "pull"}
    BY DEF Replace, Opened, Removing
  <2> QED BY <2>1, <2>2 DEF Was
<1> QED BY <1>1, <1>3, <1>4, <1>5, <1>6 DEF Same

\* What a gesture starts with.
LEMMA GestureBegins ==
    ASSUME NEW t, UserBegins(t) \/ SyncBegins(t)
    PROVE  \E s : /\ Begin(t, s)
                  /\ s.op = "pull" => s.pc = "maps" /\ s.parent = Root
                  /\ \/ UNCHANGED call
                     \/ \E c : /\ Await(t, c)
                               /\ c.pc \in {"resolve", "resolve0", "read", "folders", "check"}
                               /\ c.fn = "renameFolder" => c.pc = "read"
                               /\ c.fn = "deleteFolder" => c.pc = "folders"
<1> DEFINE Good(s) == /\ Begin(t, s)
                      /\ s.op = "pull" => s.pc = "maps" /\ s.parent = Root
           Early == \/ UNCHANGED call
                    \/ \E c : /\ Await(t, c)
                              /\ c.pc \in {"resolve", "resolve0", "read", "folders", "check"}
                              /\ c.fn = "renameFolder" => c.pc = "read"
                              /\ c.fn = "deleteFolder" => c.pc = "folders"
<1>1. (\E s : Good(s)) /\ Early => \E s : Good(s) /\ Early
  OBVIOUS
<1>2. createFolder(t) => (\E s : Good(s)) /\ Early
  BY DEF createFolder, Script, createFolderCall
<1>3. \A f, b : renameFolder(t, f, b) => (\E s : Good(s)) /\ Early
  BY DEF renameFolder, Script, renameFolderCall
<1>4. \A d, f : moveDocument(t, d, f) => (\E s : Good(s)) /\ Early
  BY DEF moveDocument, Script, moveCall
<1>5. \A f : createDocument(t, f) => (\E s : Good(s)) /\ Early
  BY DEF createDocument, Script, createCall
<1>6. \A d : switchDocument(t, d) \/ showProperties(t, d) => (\E s : Good(s)) /\ Early
  BY DEF switchDocument, showProperties, DocScript
<1>7. \A f : importContent(t, f) => (\E s : Good(s)) /\ Early
  BY DEF importContent, createCall
<1>8. importFolder(t) => (\E s : Good(s)) /\ Early
  BY DEF importFolder
<1>9. confirmDeleteAndApply(t) => (\E s : Good(s)) /\ Early
  BY DEF confirmDeleteAndApply, confirmFolderDelete, confirmDelete, deleteFolderCall
<1>10. \A d, p : pull(t, d, p) => (\E s : Good(s)) /\ Early
  BY DEF pull
<1> HIDE DEF Good, Early
<1>11. (\E s : Good(s)) /\ Early
  BY <1>2, <1>3, <1>4, <1>5, <1>6, <1>7, <1>8, <1>9, <1>10 DEF UserBegins, SyncBegins
<1> QED BY <1>1, <1>11 DEF Good, Early

\* What is neither a step of a task nor a gesture touches no store and no script.
Bystander ==
    \/ Arming \/ cancelOverlays \/ Reload
    \/ \E f \in File : DiskEdit(f)
    \/ UNCHANGED vars
LEMMA BystanderKeeps ==
    ASSUME Bystander
    PROVE  /\ UNCHANGED <<folders, docs, ids, overlaps>>
           /\ UNCHANGED <<task, call>> \/ (task' = Empty /\ call' = Empty)
BY DEF Bystander, Arming, armDelete, armFolderDelete, Arm, cancelOverlays, Reload, DiskEdit, vars, store

LEMMA Steps ==
    ASSUME [Next]_vars
    PROVE  \/ \E t \in Tasks : Service(t) \/ Proceed(t) \/ FailResolve(t) \/ Fail(t)
           \/ \E t \in Tasks : UserBegins(t) \/ SyncBegins(t)
           \/ Bystander
BY DEF Next, Bystander

\* Every script has an operation, and runs on one of the tasks.
LEMMA Named ==
    ASSUME Typed
    PROVE  /\ DOMAIN task \subseteq Tasks /\ DOMAIN call \subseteq DOMAIN task
           /\ \A t \in DOMAIN task : "op" \in DOMAIN task[t] /\ task[t].op \in Others
           /\ \A t \in DOMAIN call : Fits(task[t], call[t])
           /\ IsFiniteSet(DOMAIN folders)
           /\ DOMAIN folders \subseteq 1 .. ids /\ DOMAIN docs \subseteq 1 .. ids /\ ids \in Nat
<1>1. PICK D \in SUBSET Nat, F \in SUBSET Nat : TypedIn(D, F)
  BY DEF Typed
<1>2. DOMAIN task \subseteq Tasks
  BY DEF Typed, Counters
<1>3. \A t \in DOMAIN task : task[t] \in ScriptIn(D, F)
  BY <1>1, <1>2 DEF TypedIn, TasksIn, Own
<1>4. \A t \in DOMAIN call : t \in DOMAIN task /\ Fits(task[t], call[t])
  BY <1>1 DEF Typed, Counters, TypedIn, TasksIn, Own
<1>5. \A s \in ScriptIn(D, F) : "op" \in DOMAIN s
  BY DEF ScriptIn, OfFolder, OfDoc, Opening, Taking, Clearing, Erasing, Importing, Import1, Import2,
     Import3, Import4, Pulling
<1>6. \A s \in ScriptIn(D, F) : s.op \in Others
  BY ScriptShapes
<1>7. IsFiniteSet(DOMAIN folders) /\ DOMAIN folders \subseteq F /\ DOMAIN docs \subseteq D
  BY <1>1, MapsFinite DEF TypedIn, StoreIn
<1>8. F \subseteq 1 .. ids /\ D \subseteq 1 .. ids /\ ids \in Nat
  BY <1>1 DEF TypedIn, NumbersIn
<1> QED BY <1>2, <1>3, <1>4, <1>5, <1>6, <1>7, <1>8

LEMMA OverlapsGrow ==
    ASSUME [Next]_vars
    PROVE  overlaps \subseteq overlaps'
<1>1. ASSUME NEW t \in Tasks, Service(t) \/ Proceed(t) \/ FailResolve(t) \/ Fail(t)
      PROVE  overlaps' = overlaps
  BY <1>1 DEF Service, Proceed, ImportList, ImportRoot, ImportDocs, ImportFile, ImportWalk,
       ImportSave, ImportCreated, ImportSaved, PullMaps, PullChain, PullRecord, Open, Erase, Finish,
       Replace, GiveUp, Quiet, FailResolve, Fail
<1>2. ASSUME NEW t \in Tasks, UserBegins(t) \/ SyncBegins(t)
      PROVE  overlaps \subseteq overlaps'
  BY <1>2, GestureBegins DEF Begin
<1> QED BY <1>1, <1>2, Steps, BystanderKeeps

LEMMA RecordedKept ==
    ASSUME Typed, Recorded, [Next]_vars
    PROVE  Recorded'
<1>1. overlaps \subseteq overlaps'
  BY OverlapsGrow
<1>2. ASSUME NEW t \in Tasks, Service(t) \/ Proceed(t) \/ FailResolve(t) \/ Fail(t)
      PROVE  Recorded'
  <2>1. Frame(t) /\ DOMAIN task' \subseteq DOMAIN task \cup {t} /\ DOMAIN task \subseteq Tasks
    BY <1>2, StepsFrame, StepsKeep, Named DEF Keeps
  <2>2. \A u \in DOMAIN task' : u \in DOMAIN task /\ Was(task[u].op) \subseteq Was(task'[u].op)
    <3> TAKE u \in DOMAIN task'
    <3>1. CASE u = t
      <4>1. t \in DOMAIN task => "op" \in DOMAIN task[t]
        BY Named
      <4> QED BY <1>2, <3>1, <4>1, StepsKeepOp
    <3>2. CASE u # t
      BY <2>1, <3>2 DEF Frame
    <3> QED BY <3>1, <3>2
  <2> QED BY <1>1, <2>2 DEF Recorded
<1>3. ASSUME NEW t \in Tasks, UserBegins(t) \/ SyncBegins(t)
      PROVE  Recorded'
  <2>1. PICK s : Begin(t, s)
    BY <1>3, GestureBegins
  <2>2. /\ t \notin DOMAIN task /\ task' = With(task, t, s)
        /\ \A u \in DOMAIN task : {s.op, task[u].op} \in overlaps'
    BY <2>1 DEF Begin, Running
  <2>3. \A op : op \in Was(op)
    BY DEF Was
  <2>4. /\ DOMAIN task' = DOMAIN task \cup {t} /\ task'[t] = s
        /\ \A u \in DOMAIN task : task'[u] = task[u]
    BY <2>2 DEF With
  <2>5. ASSUME NEW u \in DOMAIN task', NEW v \in DOMAIN task', u # v
        PROVE  \E x \in Was(task'[u].op), y \in Was(task'[v].op) : {x, y} \in overlaps'
    <3>1. CASE u = t
      <4>1. {task'[u].op, task'[v].op} \in overlaps'
        BY <2>2, <2>4, <2>5, <3>1
      <4> QED BY <2>3, <4>1
    <3>2. CASE v = t
      <4>1. {task'[v].op, task'[u].op} \in overlaps'
        BY <2>2, <2>4, <2>5, <3>2
      <4>2. {task'[u].op, task'[v].op} \in overlaps'
        <5>1. {task'[u].op, task'[v].op} = {task'[v].op, task'[u].op}
          OBVIOUS
        <5> QED BY <4>1, <5>1
      <4> QED BY <2>3, <4>2
    <3>3. CASE u # t /\ v # t
      BY <1>1, <2>4, <2>5, <3>3 DEF Recorded
    <3> QED BY <3>1, <3>2, <3>3
  <2> QED BY <2>5 DEF Recorded
<1>4. CASE Bystander
  BY <1>1, <1>4, BystanderKeeps DEF Recorded, Empty
<1> QED BY <1>2, <1>3, <1>4, Steps

\* A call stays the call it is, and a script that awaits one is no pull.
LEMMA ServiceKeepsFn ==
    ASSUME Typed, NEW t, Service(t)
    PROVE  /\ t \in DOMAIN call /\ t \in DOMAIN task
           /\ task[t].op # "pull" /\ (t \in DOMAIN task' => task'[t].op = task[t].op)
           /\ t \in DOMAIN call' => call'[t].fn = call[t].fn
<1>1. t \in DOMAIN call
  BY DEF Service, CreateFolderResolve, CreateFolderCheck, CreateFolderWrite, RenameFolderRead,
     RenameFolderCheck, RenameFolderWrite, DeleteFolderFolders, DeleteFolderDocs, DropDoc, DropFolder,
     MoveRead, MoveResolve, MoveWrite, SaveResolve, SaveCheck, SaveOpen, SaveWrite, At
<1>2. t \in DOMAIN task /\ "op" \in DOMAIN task[t] /\ task[t].op # "pull"
  BY <1>1, Named DEF Fits
<1>3. {"fn", "pc"} \subseteq DOMAIN call[t]
  <2>1. PICK D \in SUBSET Nat, F \in SUBSET Nat : TypedIn(D, F)
    BY DEF Typed
  <2>2. call[t] \in CallIn(D, F)
    BY <1>1, <2>1 DEF Typed, Counters, TypedIn, TasksIn, Own
  <2> QED BY <2>2 DEF CallIn, Creating, ToRename, Renaming, Deleting, ToMove, Moving, ToSave, Saving,
          Making
<1> DEFINE Kept == t \in DOMAIN call' => call'[t].fn = call[t].fn
<1>4. \A b : Await(t, b) /\ b.fn = call[t].fn => Kept
  BY DEF Await, With
<1>5. (\E v : Return(t, v)) \/ Abort(t) => Kept
  BY DEF Return, Abort, Without
<1>6. \A pc : Goto(t, pc) => Kept
  BY <1>3, <1>4 DEF Goto
<1> HIDE DEF Kept
<1>7. Service(t) => Kept
  <2>1. (CreateFolderResolve(t) \/ CreateFolderCheck(t) \/ CreateFolderWrite(t)) => Kept
    BY <1>3, <1>4, <1>5 DEF CreateFolderResolve, CreateFolderCheck, CreateFolderWrite
  <2>2. (RenameFolderRead(t) \/ RenameFolderCheck(t) \/ RenameFolderWrite(t)) => Kept
    BY <1>3, <1>4, <1>5, <1>6 DEF RenameFolderRead, RenameFolderCheck, RenameFolderWrite
  <2>3. DeleteFolderFolders(t) => Kept
    BY <1>3, <1>4, <1>5 DEF DeleteFolderFolders
  <2>4. DeleteFolderDocs(t) => Kept
    BY <1>3, <1>4, <1>5 DEF DeleteFolderDocs
  <2>5. DropDoc(t) => Kept
    BY <1>3, <1>4, <1>5 DEF DropDoc
  <2>6. DropFolder(t) => Kept
    BY <1>3, <1>4, <1>5 DEF DropFolder
  <2>7. (MoveRead(t) \/ MoveResolve(t) \/ MoveWrite(t)) => Kept
    BY <1>3, <1>4, <1>5, <1>6 DEF MoveRead, MoveResolve, MoveWrite
  <2>8. SaveResolve(t) => Kept
    BY <1>3, <1>4, <1>5 DEF SaveResolve
  <2>9. SaveCheck(t) => Kept
    BY <1>3, <1>4, <1>5, <1>6 DEF SaveCheck
  <2>10. SaveOpen(t) => Kept
    BY <1>3, <1>4, <1>5 DEF SaveOpen
  <2>11. SaveWrite(t) => Kept
    BY <1>5 DEF SaveWrite
  <2> QED BY <2>1, <2>2, <2>3, <2>4, <2>5, <2>6, <2>7, <2>8, <2>9, <2>10, <2>11 DEF Service
<1>8. t \in DOMAIN task' => task'[t].op = task[t].op
  <2> DEFINE Same == t \in DOMAIN task' => task'[t].op = task[t].op
  <2>1. ASSUME NEW v, Return(t, v) PROVE Same
    <3>1. task'[t] = [task[t] EXCEPT !.got = v]
      BY <1>2, <2>1 DEF Return
    <3> QED BY <1>2, <3>1
  <2>2. Abort(t) \/ task' = task => Same
    BY DEF Abort, Without
  <2> HIDE DEF Same
  <2>3. Same
    BY <2>1, <2>2 DEF Service, CreateFolderResolve, CreateFolderCheck, CreateFolderWrite,
     RenameFolderRead, RenameFolderCheck, RenameFolderWrite, DeleteFolderFolders, DeleteFolderDocs,
     DropDoc, DropFolder, MoveRead, MoveResolve, MoveWrite, SaveResolve, SaveCheck, SaveOpen,
     SaveWrite, Goto
  <2> QED BY <2>3 DEF Same
<1> QED BY <1>1, <1>2, <1>7, <1>8 DEF Kept

\* The steps between two calls begin the next one, and only pulls and the erasure
\* of a document store anything.
LEMMA ProceedCalls ==
    ASSUME NEW t, Proceed(t)
    PROVE  /\ t \in DOMAIN task /\ t \notin DOMAIN call
           /\ t \in DOMAIN call' => /\ call'[t].pc \in {"resolve", "resolve0", "check"}
                                   /\ call'[t].fn \in {"createFolder", "save"}
           /\ PullChain(t) \/ UNCHANGED folders
           /\ PullRecord(t) \/ Erase(t) \/ UNCHANGED docs
           /\ UNCHANGED overlaps
<1>1. t \in DOMAIN task /\ t \notin DOMAIN call
  BY DEF Proceed, In, Running, ImportList, ImportRoot, ImportDocs, ImportFile,
     ImportWalk, ImportSave, ImportCreated, ImportSaved, PullMaps, PullChain, PullRecord, Open, Erase,
     Finish, Replace, GiveUp
<1> DEFINE Early == t \in DOMAIN call' => /\ call'[t].pc \in {"resolve", "resolve0", "check"}
                                        /\ call'[t].fn \in {"createFolder", "save"}
<1>2. (call' = call \/ Abort(t)) => Early
  BY <1>1 DEF Abort, Without
<1>3. \A c : (/\ Await(t, c) /\ c.pc \in {"resolve", "resolve0", "check"}
             /\ c.fn \in {"createFolder", "save"}) => Early
  BY DEF Await, With
<1> HIDE DEF Early
<1>4. Early
  <2>1. (ImportList(t) \/ ImportRoot(t) \/ ImportDocs(t) \/ ImportFile(t) \/ ImportWalk(t)) => Early
    BY <1>2, <1>3 DEF ImportList, ImportRoot, ImportDocs, ImportFile, ImportWalk, createFolderCall
  <2>2. (ImportSave(t) \/ ImportCreated(t) \/ ImportSaved(t)) => Early
    BY <1>2, <1>3 DEF ImportSave, ImportCreated, ImportSaved, saveCall, createCall
  <2>3. (PullMaps(t) \/ PullChain(t) \/ PullRecord(t)) => Early
    BY <1>2 DEF PullMaps, PullChain, PullRecord
  <2>4. (Open(t) \/ Erase(t) \/ Finish(t) \/ Replace(t) \/ GiveUp(t)) => Early
    BY <1>2, <1>3 DEF Open, Erase, Finish, Replace, GiveUp, saveCall
  <2> QED BY <2>1, <2>2, <2>3, <2>4 DEF Proceed
<1>5. /\ PullChain(t) \/ UNCHANGED folders
      /\ PullRecord(t) \/ Erase(t) \/ UNCHANGED docs
      /\ UNCHANGED overlaps
  BY DEF Proceed, ImportList, ImportRoot, ImportDocs, ImportFile, ImportWalk, ImportSave,
     ImportCreated, ImportSaved, PullMaps, PullChain, PullRecord, Open, Erase, Finish, Replace, GiveUp,
     Quiet, store
<1> QED BY <1>1, <1>4, <1>5 DEF Early

\* Only the steps of a pull leave a pull behind.
LEMMA PullSteps ==
    ASSUME Typed, NEW t, Proceed(t), t \in DOMAIN task', task'[t].op = "pull"
    PROVE  task[t].op = "pull" /\ (PullMaps(t) \/ PullChain(t) \/ PullRecord(t))
<1>1. t \in DOMAIN task /\ "op" \in DOMAIN task[t]
  BY ProceedCalls, Named
<1>2. Was(task[t].op) \subseteq Was("pull")
  BY <1>1, StepsKeepOp
<1>3. task[t].op = "pull"
  BY <1>2 DEF Was
<1>4. ~ Finish(t) /\ ~ GiveUp(t) /\ ~ Replace(t)
  BY <1>1 DEF Finish, GiveUp, Abort, Without, Replace, Set, Script
<1> QED BY <1>3, <1>4 DEF Proceed, In, ImportList, ImportRoot, ImportDocs, ImportFile, ImportWalk,
        ImportSave, ImportCreated, ImportSaved, Open, Erase

-----------------------------------------------------------------------------
(* Names *)

Within(fs, gs) == \A f \in DOMAIN fs : f \in DOMAIN gs /\ gs[f] = fs[f]
DifferentNames(fs) ==
    \A f, g \in DOMAIN fs : (fs[f].parent = fs[g].parent /\ fs[f].name = fs[g].name) => f = g
\* Who is about to write a folder has seen that its name is free, and a pull
\* knows of every folder.
NamesFit(u) ==
    /\ u \in DOMAIN call /\ call[u].fn = "createFolder" /\ call[u].pc = "write" =>
           Matches(folders, call[u].parent, call[u].name) = {}
    /\ u \in DOMAIN call /\ call[u].fn = "renameFolder" /\ call[u].pc = "write" =>
           Matches(folders, call[u].found.parent, call[u].name) \subseteq {call[u].id}
    /\ u \in DOMAIN task /\ task[u].op = "pull" /\ task[u].pc = "chain" =>
           Within(folders, task[u].fl)
NamesApart ==
    Apart(FolderMakers, FolderMakers) => DifferentNames(folders) /\ \A u \in Tasks : NamesFit(u)

\* Of the operations that make or rename folders one runs.
LEMMA MakersAlone ==
    ASSUME Recorded, Apart(FolderMakers, FolderMakers), NEW t \in DOMAIN task, NEW u \in DOMAIN task,
           task[t].op \in FolderMakers, task[u].op \in FolderMakers
    PROVE  t = u
BY DEF Recorded, Apart, Was, FolderMakers

LEMMA WritersAreMakers ==
    ASSUME Typed, NEW u \in Tasks
    PROVE  /\ u \in DOMAIN call /\ call[u].fn \in {"createFolder", "renameFolder"} =>
                  u \in DOMAIN task /\ task[u].op \in FolderMakers
           /\ u \in DOMAIN task /\ task[u].op = "pull" => task[u].op \in FolderMakers
BY Named DEF Fits, FolderMakers

LEMMA FewerFolders ==
    ASSUME NEW fs, NEW gs, Within(gs, fs), NEW p, NEW n
    PROVE  /\ Matches(gs, p, n) \subseteq Matches(fs, p, n)
           /\ DifferentNames(fs) => DifferentNames(gs)
BY DEF Within, Matches, DifferentNames

\* A step that adds no folder leaves the other tasks' findings true.
LEMMA OthersFit ==
    ASSUME NEW t, Frame(t), Within(folders', folders), NEW u \in Tasks, u # t, NamesFit(u)
    PROVE  NamesFit(u)'
<1>1. /\ u \in DOMAIN task' <=> u \in DOMAIN task
      /\ u \in DOMAIN call' <=> u \in DOMAIN call
      /\ u \in DOMAIN task => task'[u] = task[u]
      /\ u \in DOMAIN call => call'[u] = call[u]
  BY DEF Frame
<1>2. \A p, n : Matches(folders', p, n) \subseteq Matches(folders, p, n)
  BY FewerFolders
<1>3. \A fs : Within(folders, fs) => Within(folders', fs)
  BY DEF Within
<1> QED BY <1>1, <1>2, <1>3 DEF NamesFit

LEMMA FoldersGone ==
    ASSUME NEW fs, NEW f
    PROVE  Within(Without(fs, f), fs) /\ Within(fs, fs)
BY DEF Within, Without

\* A folder with a name no sibling has leaves names different.
LEMMA FreeName ==
    ASSUME NEW fs, DifferentNames(fs), NEW f, NEW r,
           Matches(fs, r.parent, r.name) \subseteq {f}
    PROVE  DifferentNames(With(fs, f, r))
BY DEF DifferentNames, Matches, With

LEMMA NamesKept ==
    ASSUME Typed, Typed', Recorded, NamesApart, [Next]_vars
    PROVE  NamesApart'
<1> SUFFICES ASSUME Apart(FolderMakers, FolderMakers)'
             PROVE  DifferentNames(folders') /\ \A u \in Tasks : NamesFit(u)'
  BY DEF NamesApart
<1>1. Apart(FolderMakers, FolderMakers)
  BY OverlapsGrow DEF Apart
<1>2. DifferentNames(folders) /\ \A u \in Tasks : NamesFit(u)
  BY <1>1 DEF NamesApart
<1>3. ASSUME NEW t \in Tasks, Frame(t), Within(folders', folders), NamesFit(t)'
      PROVE  DifferentNames(folders') /\ \A u \in Tasks : NamesFit(u)'
  BY <1>2, <1>3, OthersFit, FewerFolders
\* A step that writes a folder is one of the only operation that may.
<1>4. ASSUME NEW t \in Tasks, t \in DOMAIN task, task[t].op \in FolderMakers, Frame(t),
             DifferentNames(folders'), NamesFit(t)'
      PROVE  DifferentNames(folders') /\ \A u \in Tasks : NamesFit(u)'
  <2>1. ASSUME NEW u \in Tasks, u # t PROVE NamesFit(u)'
    <3>1. u \in DOMAIN task => task[u].op \notin FolderMakers
      BY <1>1, <1>4, <2>1, MakersAlone
    <3>2. /\ u \in DOMAIN call => call[u].fn \notin {"createFolder", "renameFolder"}
          /\ u \in DOMAIN task => task[u].op # "pull"
      BY <3>1, WritersAreMakers
    <3>3. /\ u \in DOMAIN call' => call'[u].fn \notin {"createFolder", "renameFolder"}
          /\ u \in DOMAIN task' => task'[u].op # "pull"
      BY <1>4, <2>1, <3>2 DEF Frame
    <3> QED BY <3>3 DEF NamesFit
  <2> QED BY <1>4, <2>1
<1>5. PICK D \in SUBSET Nat, F \in SUBSET Nat : TypedIn(D, F)
  BY DEF Typed
<1>6. ASSUME NEW t \in Tasks, Service(t)
      PROVE  DifferentNames(folders') /\ \A u \in Tasks : NamesFit(u)'
  <2> DEFINE c == call[t]
  <2>1. /\ t \in DOMAIN call /\ t \in DOMAIN task /\ c \in CallIn(D, F)
        /\ t \in DOMAIN task' => task'[t].op # "pull"
        /\ t \in DOMAIN call' => call'[t].fn = c.fn
    BY <1>5, <1>6, ServiceKeepsFn DEF TypedIn, TasksIn, Own
  <2>2. Frame(t)
    BY <1>6, StepsFrame
  <2>3. ASSUME Within(folders', folders),
               \/ t \notin DOMAIN call'
               \/ c.fn \notin {"createFolder", "renameFolder"}
               \/ call'[t].pc # "write"
        PROVE  DifferentNames(folders') /\ \A u \in Tasks : NamesFit(u)'
    BY <1>3, <2>1, <2>2, <2>3 DEF NamesFit
  <2>4. Within(folders, folders) /\ \A f : Within(Without(folders, f), folders)
    BY FoldersGone
  <2>5. CASE CreateFolderResolve(t)
    <3>1. c \in Creating(F)
      BY <2>1, <2>5, CallShapes DEF CreateFolderResolve, At
    <3>2. call'[t].pc = "check" /\ UNCHANGED folders
      BY <2>5, <3>1 DEF CreateFolderResolve, Await, With, Creating, store
    <3> QED BY <2>3, <2>4, <3>2
  <2>6. CASE CreateFolderCheck(t)
    <3>1. c \in Creating(F) /\ c.pc = "check" /\ UNCHANGED folders
      BY <2>1, <2>6, CallShapes DEF CreateFolderCheck, At, store
    <3>2. CASE isFolderNameTaken(folders, c.name, c.parent, None)
      <4>1. Await(t, [c EXCEPT !.name.n = @ + 1])
        BY <2>6, <3>2 DEF CreateFolderCheck
      <4>2. call'[t].pc = "check"
        BY <3>1, <4>1 DEF Await, With, Creating
      <4> QED BY <2>3, <2>4, <3>1, <4>2
    <3>3. CASE ~ isFolderNameTaken(folders, c.name, c.parent, None)
      <4>1. Await(t, [c EXCEPT !.pc = "write"])
        BY <2>6, <3>3 DEF CreateFolderCheck
      <4>2. call'[t].parent = c.parent /\ call'[t].name = c.name
        BY <3>1, <4>1 DEF Await, With, Creating
      <4>3. None \notin DOMAIN folders
        BY Named, SentinelsDiffer
      <4>4. Matches(folders, c.parent, c.name) = {}
        BY <3>3, <4>3 DEF isFolderNameTaken, Matches
      <4>5. NamesFit(t)'
        BY <2>1, <3>1, <4>2, <4>4 DEF NamesFit, Creating
      <4> QED BY <1>3, <2>2, <2>4, <3>1, <4>5
    <3> QED BY <3>2, <3>3
  <2>7. CASE CreateFolderWrite(t)
    <3>1. c \in Creating(F) /\ c.pc = "write"
      BY <2>1, <2>7, CallShapes DEF CreateFolderWrite, At
    <3>2. /\ folders' = With(folders, Fresh, [name |-> c.name, parent |-> c.parent])
          /\ t \notin DOMAIN call'
      BY <2>7 DEF CreateFolderWrite, writeFolder, Return, Without
    <3>3. Matches(folders, c.parent, c.name) = {}
      BY <1>2, <2>1, <3>1 DEF NamesFit, Creating
    <3>4. DifferentNames(folders')
      BY <1>2, <3>2, <3>3, FreeName
    <3>5. task[t].op \in FolderMakers
      BY <2>1, <3>1, WritersAreMakers DEF Creating
    <3> QED BY <1>4, <2>1, <2>2, <3>2, <3>4, <3>5 DEF NamesFit
  <2>8. CASE RenameFolderRead(t)
    <3>1. c \in ToRename(F) /\ UNCHANGED folders
      BY <2>1, <2>8, CallShapes DEF RenameFolderRead, At, store
    <3>2. t \in DOMAIN call' => call'[t].pc = "check"
      BY <2>8, <3>1 DEF RenameFolderRead, Await, With, Return, Without, ToRename
    <3> QED BY <2>3, <2>4, <3>1, <3>2
  <2>9. CASE RenameFolderCheck(t)
    <3>1. c \in Renaming(F) /\ UNCHANGED folders
      BY <2>1, <2>9, CallShapes DEF RenameFolderCheck, At, store
    <3>2. CASE isFolderNameTaken(folders, c.name, c.found.parent, c.id)
      BY <2>3, <2>4, <2>9, <3>1, <3>2 DEF RenameFolderCheck, Abort, Without
    <3>3. CASE ~ isFolderNameTaken(folders, c.name, c.found.parent, c.id)
      <4>1. Await(t, [c EXCEPT !.pc = "write"])
        BY <2>9, <3>3 DEF RenameFolderCheck, Goto
      <4>2. call'[t].found = c.found /\ call'[t].name = c.name /\ call'[t].id = c.id
        BY <3>1, <4>1 DEF Await, With, Renaming
      <4>3. Matches(folders, c.found.parent, c.name) \subseteq {c.id}
        BY <3>3 DEF isFolderNameTaken
      <4>4. NamesFit(t)'
        BY <2>1, <3>1, <4>2, <4>3 DEF NamesFit, Renaming
      <4> QED BY <1>3, <2>2, <2>4, <3>1, <4>4
    <3> QED BY <3>2, <3>3
  <2>10. CASE RenameFolderWrite(t)
    <3>1. c \in Renaming(F) /\ c.pc = "write"
      BY <2>1, <2>10, CallShapes DEF RenameFolderWrite, At
    <3> DEFINE r == [c.found EXCEPT !.name = c.name]
    <3>2. folders' = With(folders, c.id, r) /\ t \notin DOMAIN call'
      BY <2>10 DEF RenameFolderWrite, writeFolder, Return, Without
    <3>3. r.parent = c.found.parent /\ r.name = c.name
      BY <3>1 DEF Renaming, FolderIn
    <3>4. Matches(folders, c.found.parent, c.name) \subseteq {c.id}
      BY <1>2, <2>1, <3>1 DEF NamesFit, Renaming
    <3> HIDE DEF r
    <3>5. DifferentNames(folders')
      BY <1>2, <3>2, <3>3, <3>4, FreeName
    <3>6. task[t].op \in FolderMakers
      BY <2>1, <3>1, WritersAreMakers DEF Renaming
    <3> QED BY <1>4, <2>1, <2>2, <3>2, <3>5, <3>6 DEF NamesFit
  <2>11. CASE DropFolder(t)
    BY <2>3, <2>4, <2>11 DEF DropFolder, At
  <2>12. CASE DeleteFolderFolders(t) \/ DeleteFolderDocs(t) \/ DropDoc(t)
    BY <2>3, <2>4, <2>12 DEF DeleteFolderFolders, DeleteFolderDocs, DropDoc, At, store
  <2>13. CASE \/ MoveRead(t) \/ MoveResolve(t) \/ MoveWrite(t)
              \/ SaveResolve(t) \/ SaveCheck(t) \/ SaveOpen(t) \/ SaveWrite(t)
    BY <2>3, <2>4, <2>13 DEF MoveRead, MoveResolve, MoveWrite, SaveResolve, SaveCheck, SaveOpen,
       SaveWrite, At, store
  <2> QED BY <1>6, <2>5, <2>6, <2>7, <2>8, <2>9, <2>10, <2>11, <2>12, <2>13 DEF Service
<1>7. ASSUME NEW t \in Tasks, Proceed(t)
      PROVE  DifferentNames(folders') /\ \A u \in Tasks : NamesFit(u)'
  <2>1. Frame(t) /\ t \in DOMAIN task /\ (t \in DOMAIN call' => call'[t].pc # "write")
    BY <1>7, StepsFrame, ProceedCalls
  <2>2. Within(folders, folders)
    BY FoldersGone
  <2>3. CASE PullChain(t)
    <3> DEFINE s == task[t]
               found == Matches(s.fl, s.parent, s.path[s.k])
               record == [name |-> s.path[s.k], parent |-> s.parent]
    <3>1. s \in Pulling(D, F) /\ s.pc = "chain" /\ s.op = "pull"
      BY <1>5, <2>1, <2>3, ScriptShapes DEF TypedIn, TasksIn, Own, PullChain, In
    <3>2. Within(folders, s.fl)
      BY <1>2, <2>1, <3>1 DEF NamesFit
    <3>3. CASE s.k = Len(s.path)
      <4>1. Set(t, [s EXCEPT !.pc = "record"]) /\ UNCHANGED store
        BY <2>3, <3>3 DEF PullChain
      <4>2. task'[t].pc = "record" /\ UNCHANGED folders
        BY <2>1, <3>1, <4>1 DEF Set, Pulling, store
      <4> QED BY <1>3, <2>1, <2>2, <4>2 DEF NamesFit
    <3>4. CASE s.k # Len(s.path) /\ found # {}
      <4>1. PICK f \in found : Set(t, [s EXCEPT !.parent = f, !.k = @ + 1]) /\ UNCHANGED store
        BY <2>3, <3>4 DEF PullChain
      <4>2. task'[t].fl = s.fl /\ UNCHANGED folders
        BY <2>1, <3>1, <4>1 DEF Set, Pulling, store
      <4> QED BY <1>3, <2>1, <2>2, <3>2, <4>2 DEF NamesFit
    <3>5. CASE s.k # Len(s.path) /\ found = {}
      <4>1. /\ folders' = With(folders, Fresh, record)
            /\ Set(t, [s EXCEPT !.parent = Fresh, !.k = @ + 1, !.fl = With(@, Fresh, record)])
        BY <2>3, <3>5 DEF PullChain, writeFolder
      <4> HIDE DEF record
      <4>2. task'[t].fl = With(s.fl, Fresh, record)
        BY <2>1, <3>1, <4>1 DEF Set, Pulling
      <4>3. Matches(folders, record.parent, record.name) = {}
        BY <3>2, <3>5 DEF Within, Matches, record
      <4>4. DifferentNames(folders')
        BY <1>2, <4>1, <4>3, FreeName
      <4>5. Within(folders', task'[t].fl)
        BY <3>2, <4>1, <4>2 DEF Within, With
      <4>6. NamesFit(t)'
        BY <2>1, <4>5 DEF NamesFit
      <4> QED BY <1>4, <2>1, <3>1, <4>4, <4>6 DEF FolderMakers
    <3> QED BY <3>3, <3>4, <3>5
  <2>4. CASE PullMaps(t)
    <3>1. task[t] \in Pulling(D, F) /\ UNCHANGED folders /\ Set(t, [task[t] EXCEPT !.fl = folders, !.pc = "chain"])
      BY <1>5, <2>1, <2>4, ScriptShapes DEF TypedIn, TasksIn, Own, PullMaps, In, Quiet, store
    <3>2. task'[t].fl = folders
      BY <2>1, <3>1 DEF Set, Pulling
    <3> QED BY <1>3, <2>1, <2>2, <3>1, <3>2 DEF NamesFit
  <2>5. CASE PullRecord(t)
    <3>1. task[t] \in Pulling(D, F) /\ UNCHANGED folders /\ Set(t, [task[t] EXCEPT !.pc = "lists"])
      BY <1>5, <2>1, <2>5, ScriptShapes DEF TypedIn, TasksIn, Own, PullRecord, In
    <3>2. task'[t].pc = "lists"
      BY <2>1, <3>1 DEF Set, Pulling
    <3> QED BY <1>3, <2>1, <2>2, <3>1, <3>2 DEF NamesFit
  <2>6. CASE ~ PullMaps(t) /\ ~ PullChain(t) /\ ~ PullRecord(t)
    <3>1. t \in DOMAIN task' => task'[t].op # "pull"
      BY <1>7, <2>6, PullSteps
    <3>2. UNCHANGED folders
      BY <1>7, <2>6, ProceedCalls
    <3> QED BY <1>3, <2>1, <2>2, <3>1, <3>2 DEF NamesFit
  <2> QED BY <2>3, <2>4, <2>5, <2>6
<1>8. ASSUME NEW t \in Tasks, FailResolve(t) \/ Fail(t)
      PROVE  DifferentNames(folders') /\ \A u \in Tasks : NamesFit(u)'
  <2>1. Frame(t) /\ UNCHANGED folders /\ Within(folders, folders)
    BY <1>8, StepsFrame, FoldersGone DEF FailResolve, Fail, store
  <2>2. CASE Fail(t)
    <3>1. t \notin DOMAIN call' /\ t \notin DOMAIN task'
      BY <2>2 DEF Fail, Abort, Without
    <3> QED BY <1>3, <2>1, <3>1 DEF NamesFit
  <2>3. CASE FailResolve(t)
    <3>1. t \in DOMAIN call /\ UNCHANGED task
      BY <2>3 DEF FailResolve, At
    <3>2. t \in DOMAIN task /\ task[t].op # "pull" /\ call[t] \in CallIn(D, F)
      BY <1>5, <3>1, Named DEF Fits, TypedIn, TasksIn, Own
    <3>3. call'[t].fn \notin {"createFolder", "renameFolder"} \/ call'[t].pc # "write"
      <4>1. CASE At(t, "createFolder", "resolve") /\ Await(t, [call[t] EXCEPT !.pc = "check", !.parent = Root])
        <5>1. call[t] \in Creating(F)
          BY <3>2, <4>1, CallShapes DEF At
        <5> QED BY <4>1, <5>1 DEF Await, With, Creating
      <4>2. CASE At(t, "save", "resolve") /\ Await(t, [call[t] EXCEPT !.pc = "write", !.folder = Root])
        <5>1. call[t] \in Making(F) \/ call[t] \in ToSave(D) \/ call[t] \in Saving(D, F)
          BY <3>2, <4>2, CallShapes DEF At
        <5> QED BY <4>2, <5>1 DEF Await, With, Making, ToSave, Saving
      <4> QED BY <2>3, <4>1, <4>2 DEF FailResolve
    <3> QED BY <1>3, <2>1, <3>1, <3>2, <3>3 DEF NamesFit
  <2> QED BY <1>8, <2>2, <2>3
<1>9. ASSUME NEW t \in Tasks, UserBegins(t) \/ SyncBegins(t)
      PROVE  DifferentNames(folders') /\ \A u \in Tasks : NamesFit(u)'
  <2>1. PICK s : /\ Begin(t, s) /\ (s.op = "pull" => s.pc = "maps")
                 /\ \/ UNCHANGED call
                    \/ \E c : /\ Await(t, c)
                              /\ c.pc \in {"resolve", "resolve0", "read", "folders", "check"}
    BY <1>9, GestureBegins
  <2>2. t \notin DOMAIN task /\ t \notin DOMAIN call /\ task' = With(task, t, s) /\ UNCHANGED folders
    BY <2>1, Named DEF Begin, Running, store
  <2>3. Frame(t) /\ (t \in DOMAIN call' => call'[t].pc # "write") /\ task'[t] = s
    BY <2>1, <2>2 DEF Frame, With, Await
  <2>4. NamesFit(t)'
    BY <2>1, <2>3 DEF NamesFit
  <2> QED BY <1>3, <2>2, <2>3, <2>4, FoldersGone
<1>10. CASE Bystander
  <2>1. UNCHANGED folders /\ (UNCHANGED <<task, call>> \/ (task' = Empty /\ call' = Empty))
    BY <1>10, BystanderKeeps
  <2> QED BY <1>2, <2>1 DEF NamesFit, Empty
<1> QED BY <1>6, <1>7, <1>8, <1>9, <1>10, Steps

\* No interleaving that keeps the makers of folders apart ends with two siblings of
\* one name, whatever else overlaps, fails or is cut short.
THEOREM SiblingsDiffer == Spec => []FolderNamesUnique
<1>1. Init => Recorded /\ NamesApart
  <2> SUFFICES ASSUME Init PROVE Recorded /\ NamesApart
    OBVIOUS
  <2>1. task = Empty /\ call = Empty /\ DOMAIN Empty = {}
    BY DEF Init, Empty
  <2>2. PICK s \in Start : folders = s.folders
    BY DEF Init
  <2>3. folders \in [DOMAIN folders -> [name : Counted, parent : DOMAIN folders \cup {Root}]]
    BY <2>2, StartsKnown
  <2>4. \A f, g \in DOMAIN folders : folders[f] = folders[g] => f = g
    BY <2>2, StartsKnown
  <2>5. DifferentNames(folders)
    BY <2>3, <2>4 DEF DifferentNames
  <2> QED BY <2>1, <2>5 DEF Recorded, NamesApart, NamesFit
<1>2. Typed /\ Typed' /\ Recorded /\ NamesApart /\ [Next]_vars => Recorded' /\ NamesApart'
  BY RecordedKept, NamesKept
<1>3. NamesApart => FolderNamesUnique
  BY DEF NamesApart, FolderNamesUnique, DifferentNames
<1> QED BY <1>1, <1>2, <1>3, AlwaysTyped, PTL DEF Spec

-----------------------------------------------------------------------------
(* Homes *)

Undisturbed == Apart({"deleteFolder"}, Others)
Standing(fs) == DOMAIN fs \cup {Root}
\* Who is about to file something has found a folder that stands, who is about
\* to rename one has it where it was, and who deletes one has all below it and
\* every document in it still to delete.
PlacedCall(fs, ds, c) ==
    /\ c.fn \in {"move", "save"} /\ c.pc = "write" => c.folder \in Standing(fs)
    /\ c.fn = "renameFolder" /\ c.pc # "read" =>
           c.id \in DOMAIN fs /\ fs[c.id].parent = c.found.parent
    /\ c.fn = "deleteFolder" /\ c.pc # "folders" => Whole(fs, c.doomed)
    /\ c.fn = "deleteFolder" /\ c.pc = "drop" =>
           \A d \in DOMAIN ds : ds[d].folder \in c.doomed => d \in c.victims
PlacedPull(fs, s) ==
    s.op = "pull" => /\ s.parent \in Standing(fs)
                     /\ s.pc = "chain" => DOMAIN s.fl \subseteq DOMAIN fs
Placed(u) == /\ u \in DOMAIN call => PlacedCall(folders, docs, call[u])
             /\ u \in DOMAIN task => PlacedPull(folders, task[u])
Housed == \A d \in DOMAIN docs : docs[d].folder \in Standing(folders)
Homes == Undisturbed => Housed /\ \A u \in Tasks : Placed(u)

\* While a folder is deleted nothing else runs.
LEMMA DeleterAlone ==
    ASSUME Typed, Recorded, Undisturbed, NEW t \in DOMAIN task, NEW u \in DOMAIN task,
           task[t].op = "deleteFolder"
    PROVE  t = u
<1> SUFFICES ASSUME t # u PROVE FALSE
  OBVIOUS
<1>1. PICK x \in Was("deleteFolder"), y \in Was(task[u].op) : {x, y} \in overlaps
  BY DEF Recorded
<1>2. x = "deleteFolder"
  BY DEF Was
<1>3. task[u].op \in Others
  BY Named
<1>4. y \in Others
  BY <1>3 DEF Was, Others, Makers, Movers, FolderMakers
<1> QED BY <1>1, <1>2, <1>4 DEF Undisturbed, Apart

\* The folders stay, each below the one it was in.
Stay(fs, gs) == \A f \in DOMAIN fs : f \in DOMAIN gs /\ gs[f].parent = fs[f].parent

LEMMA RenderedGrows ==
    ASSUME NEW fs, NEW gs, IsFiniteSet(DOMAIN fs), IsFiniteSet(DOMAIN gs), Stay(fs, gs)
    PROVE  Rendered(fs) \subseteq Rendered(gs)
<1>1. Root \in Rendered(gs) /\ Whole(gs, Rendered(gs))
  BY RenderedWhole
<1>2. Whole(fs, Rendered(gs))
  BY <1>1 DEF Whole, Stay
<1> QED BY <1>1, <1>2, RenderedWhole

LEMMA RenderedLess ==
    ASSUME NEW fs, NEW f, NEW S, IsFiniteSet(DOMAIN fs), Whole(fs, S), f \in S
    PROVE  /\ Rendered(fs) \subseteq Rendered(Without(fs, f)) \cup S
           /\ Whole(Without(fs, f), S \ {f})
<1> DEFINE gs == Without(fs, f)
           R == Rendered(gs) \cup S
<1>1. DOMAIN gs = DOMAIN fs \ {f} /\ \A g \in DOMAIN gs : gs[g] = fs[g]
  BY DEF Without
<1>2. IsFiniteSet(DOMAIN gs)
  BY <1>1, FS_Subset
<1> HIDE DEF gs
<1>3. Root \in Rendered(gs) /\ Whole(gs, Rendered(gs))
  BY <1>2, RenderedWhole
<1>4. Whole(fs, R)
  <2> SUFFICES ASSUME NEW g \in DOMAIN fs, fs[g].parent \in R PROVE g \in R
    BY DEF Whole
  <2>1. CASE fs[g].parent \in S
    BY <2>1 DEF Whole
  <2>2. CASE g = f
    BY <2>2
  <2>3. CASE g # f /\ fs[g].parent \in Rendered(gs)
    BY <1>1, <1>3, <2>3 DEF Whole
  <2> QED BY <2>1, <2>2, <2>3
<1>5. Whole(gs, S \ {f})
  BY <1>1 DEF Whole
<1> QED BY <1>3, <1>4, <1>5, RenderedWhole DEF gs

\* A step of another operation than a folder's deletion leaves the others placed.
LEMMA OthersPlaced ==
    ASSUME Typed, Recorded, Undisturbed, NEW t, t \in DOMAIN task, Frame(t), Stay(folders, folders'),
           NEW u \in Tasks, u # t, Placed(u)
    PROVE  Placed(u)'
<1>1. /\ u \in DOMAIN task' <=> u \in DOMAIN task
      /\ u \in DOMAIN call' <=> u \in DOMAIN call
      /\ u \in DOMAIN task => task'[u] = task[u]
      /\ u \in DOMAIN call => call'[u] = call[u]
  BY DEF Frame
<1>2. Standing(folders) \subseteq Standing(folders') /\ DOMAIN folders \subseteq DOMAIN folders'
  BY DEF Standing, Stay
<1>3. u \in DOMAIN call => call[u].fn # "deleteFolder"
  <2> SUFFICES ASSUME u \in DOMAIN call, call[u].fn = "deleteFolder" PROVE FALSE
    OBVIOUS
  <2>1. u \in DOMAIN task /\ task[u].op = "deleteFolder"
    BY Named DEF Fits
  <2> QED BY <2>1, DeleterAlone
<1>4. ASSUME u \in DOMAIN call PROVE PlacedCall(folders', docs', call'[u])
  <2> DEFINE c == call[u]
  <2>1. PlacedCall(folders, docs, c) /\ c.fn # "deleteFolder" /\ call'[u] = c
    BY <1>1, <1>3, <1>4 DEF Placed
  <2> HIDE DEF c
  <2>2. /\ c.fn \in {"move", "save"} /\ c.pc = "write" => c.folder \in Standing(folders')
        /\ c.fn = "renameFolder" /\ c.pc # "read" =>
              c.id \in DOMAIN folders' /\ folders'[c.id].parent = c.found.parent
    BY <1>2, <2>1 DEF PlacedCall, Stay
  <2>3. PlacedCall(folders', docs', c)
    BY <2>1, <2>2 DEF PlacedCall
  <2> QED BY <2>1, <2>3 DEF c
<1>5. ASSUME u \in DOMAIN task PROVE PlacedPull(folders', task'[u])
  <2> DEFINE s == task[u]
  <2>1. PlacedPull(folders, s) /\ s' = s
    BY <1>1, <1>5 DEF Placed
  <2> HIDE DEF s
  <2>2. PlacedPull(folders', s)
    BY <1>2, <2>1 DEF PlacedPull
  <2> QED BY <2>1, <2>2 DEF s
<1> QED BY <1>1, <1>4, <1>5 DEF Placed

HomesStep ==
    /\ Housed' /\ \A u \in Tasks : Placed(u)'
    /\ Stay(folders, folders') \/ \E t \in Tasks : DropFolder(t)

LEMMA StayStored ==
    ASSUME NEW fs, NEW f, NEW r
    PROVE  /\ Stay(fs, fs) /\ Within(fs, fs)
           /\ f \notin DOMAIN fs => Stay(fs, With(fs, f, r)) /\ Within(fs, With(fs, f, r))
           /\ f \in DOMAIN fs /\ fs[f].parent = r.parent => Stay(fs, With(fs, f, r))
           /\ DOMAIN With(fs, f, r) = DOMAIN fs \cup {f} /\ With(fs, f, r)[f] = r
           /\ \A g \in DOMAIN fs \ {f} : With(fs, f, r)[g] = fs[g]
BY DEF Stay, Within, With

\* A step that leaves folders where they are.
LEMMA HomesBy ==
    ASSUME Typed, Recorded, Undisturbed, \A u \in Tasks : Placed(u),
           NEW t \in Tasks, t \in DOMAIN task, Frame(t), Stay(folders, folders'), Housed', Placed(t)'
    PROVE  HomesStep
BY OthersPlaced DEF HomesStep

\* A step of a folder's deletion.
LEMMA HomesByDeleter ==
    ASSUME Typed, Recorded, Undisturbed, NEW t \in Tasks, t \in DOMAIN task,
           task[t].op = "deleteFolder", Frame(t), Housed', Placed(t)',
           Stay(folders, folders') \/ DropFolder(t)
    PROVE  HomesStep
<1>1. ASSUME NEW u \in Tasks, u # t PROVE Placed(u)'
  <2>1. u \notin DOMAIN task /\ u \notin DOMAIN call
    BY <1>1, DeleterAlone, Named
  <2> QED BY <1>1, <2>1 DEF Frame, Placed
<1> QED BY <1>1 DEF HomesStep

LEMMA ServiceHomes ==
    ASSUME Typed, Recorded, Undisturbed, Housed, \A u \in Tasks : Placed(u),
           NEW t \in Tasks, Service(t)
    PROVE  HomesStep
<1>1. PICK D \in SUBSET Nat, F \in SUBSET Nat : TypedIn(D, F)
  BY DEF Typed
<1> DEFINE c == call[t]
           b == call'[t]
<1>2. /\ t \in DOMAIN call /\ t \in DOMAIN task /\ c \in CallIn(D, F)
      /\ t \in DOMAIN task' => task'[t].op # "pull"
      /\ t \in DOMAIN call' => b.fn = c.fn
      /\ Frame(t) /\ PlacedCall(folders, docs, c) /\ Fits(task[t], c)
  BY <1>1, ServiceKeepsFn, StepsFrame DEF TypedIn, TasksIn, Own, Placed
<1>3. (t \in DOMAIN call' => PlacedCall(folders', docs', b)) => Placed(t)'
  BY <1>2 DEF Placed, PlacedPull
<1>4. UNCHANGED <<folders, docs>> => Stay(folders, folders') /\ Housed'
  BY StayStored DEF Housed
<1>5. ASSUME UNCHANGED <<folders, docs>>, t \in DOMAIN call' => PlacedCall(folders', docs', b)
      PROVE  HomesStep
  BY <1>2, <1>3, <1>4, <1>5, HomesBy
<1>6. ASSUME UNCHANGED <<folders, docs>>, c.fn \notin {"renameFolder", "deleteFolder"},
             \/ t \notin DOMAIN call'
             \/ b.pc # "write"
             \/ c.fn = "createFolder"
             \/ b.folder \in Standing(folders)
      PROVE  HomesStep
  <2>1. t \in DOMAIN call' => PlacedCall(folders', docs', b)
    BY <1>2, <1>6 DEF PlacedCall
  <2> QED BY <1>5, <1>6, <2>1
<1>7. \A r \in DOMAIN folders : r \in Standing(folders)
  BY DEF Standing
<1>8. Root \in Standing(folders)
  BY DEF Standing
<1>9. \A f : resolveFolderId(f) \in Standing(folders)
  BY DEF resolveFolderId, Standing
<1>10. CASE CreateFolderResolve(t) \/ CreateFolderCheck(t)
  BY <1>6, <1>10 DEF CreateFolderResolve, CreateFolderCheck, At, store
<1>11. CASE CreateFolderWrite(t)
  <2>1. /\ folders' = With(folders, Fresh, [name |-> c.name, parent |-> c.parent]) /\ docs' = docs
        /\ t \notin DOMAIN call'
    BY <1>11 DEF CreateFolderWrite, writeFolder, Return, Without
  <2>2. Fresh \notin DOMAIN folders
    BY Named DEF Fresh
  <2>3. Stay(folders, folders') /\ DOMAIN folders \subseteq DOMAIN folders'
    BY <2>1, <2>2 DEF Stay, With
  <2>4. Housed'
    BY <2>1, <2>3 DEF Housed, Standing
  <2> QED BY <1>2, <1>3, <2>1, <2>3, <2>4, HomesBy
<1>12. CASE RenameFolderRead(t)
  <2>1. c \in ToRename(F) /\ UNCHANGED <<folders, docs>>
    BY <1>2, <1>12, CallShapes DEF RenameFolderRead, At, store
  <2>2. CASE c.id \in DOMAIN folders
    <3>1. b = [c EXCEPT !.pc = "check", !.found = folders[c.id]]
      BY <1>12, <2>2 DEF RenameFolderRead, Await, With
    <3>2. b.found = folders[c.id] /\ b.id = c.id /\ b.fn = "renameFolder"
      BY <2>1, <3>1 DEF ToRename
    <3>3. PlacedCall(folders', docs', b)
      BY <2>1, <2>2, <3>2 DEF PlacedCall
    <3> QED BY <1>5, <2>1, <3>3
  <2>3. CASE c.id \notin DOMAIN folders
    BY <1>5, <1>12, <2>1, <2>3 DEF RenameFolderRead, Return, Without
  <2> QED BY <2>2, <2>3
<1>13. CASE RenameFolderCheck(t)
  <2>1. c \in Renaming(F) /\ UNCHANGED <<folders, docs>>
    BY <1>2, <1>13, CallShapes DEF RenameFolderCheck, At, store
  <2>2. CASE Abort(t)
    BY <1>5, <2>1, <2>2 DEF Abort, Without
  <2>3. CASE Goto(t, "write")
    <3>1. b = [c EXCEPT !.pc = "write"]
      BY <2>3 DEF Goto, Await, With
    <3>2. b.found = c.found /\ b.id = c.id /\ b.fn = "renameFolder"
      BY <2>1, <3>1 DEF Renaming
    <3>3. PlacedCall(folders', docs', b)
      BY <1>2, <2>1, <3>2 DEF PlacedCall, Renaming
    <3> QED BY <1>5, <2>1, <3>3
  <2> QED BY <1>13, <2>2, <2>3 DEF RenameFolderCheck
<1>14. CASE RenameFolderWrite(t)
  <2>1. c \in Renaming(F)
    BY <1>2, <1>14, CallShapes DEF RenameFolderWrite, At
  <2> DEFINE r == [c.found EXCEPT !.name = c.name]
  <2>2. folders' = With(folders, c.id, r) /\ t \notin DOMAIN call' /\ docs' = docs
    BY <1>14 DEF RenameFolderWrite, writeFolder, Return, Without
  <2>3. r.parent = c.found.parent
    BY <2>1 DEF Renaming, FolderIn
  <2> HIDE DEF r
  <2>4. c.id \in DOMAIN folders /\ folders[c.id].parent = r.parent
    BY <1>2, <2>1, <2>3 DEF PlacedCall, Renaming
  <2>5. Stay(folders, folders') /\ DOMAIN folders \subseteq DOMAIN folders'
    BY <2>2, <2>4 DEF Stay, With
  <2>6. Housed'
    BY <2>2, <2>5 DEF Housed, Standing
  <2> QED BY <1>2, <1>3, <2>2, <2>5, <2>6, HomesBy
<1>15. CASE DeleteFolderFolders(t)
  <2>1. c \in Deleting(D, F) /\ UNCHANGED <<folders, docs>>
    BY <1>2, <1>15, CallShapes DEF DeleteFolderFolders, At, store
  <2>2. CASE c.id \in DOMAIN folders
    <3>1. b = [c EXCEPT !.pc = "docs", !.doomed = collectFolderTree(folders, c.id)]
      BY <1>15, <2>2 DEF DeleteFolderFolders, Await, With
    <3>2. b.doomed = collectFolderTree(folders, c.id) /\ b.fn = "deleteFolder" /\ b.pc = "docs"
      BY <2>1, <3>1 DEF Deleting
    <3>3. Whole(folders, b.doomed)
      BY <3>2, TreeWhole, Named
    <3>4. PlacedCall(folders', docs', b)
      BY <2>1, <3>2, <3>3 DEF PlacedCall
    <3> QED BY <1>5, <2>1, <3>4
  <2>3. CASE c.id \notin DOMAIN folders
    BY <1>5, <1>15, <2>1, <2>3 DEF DeleteFolderFolders, Return, Without
  <2> QED BY <2>2, <2>3
<1>16. CASE DeleteFolderDocs(t)
  <2>1. c \in Deleting(D, F) /\ c.pc = "docs" /\ UNCHANGED <<folders, docs>>
    BY <1>2, <1>16, CallShapes DEF DeleteFolderDocs, At, store
  <2> DEFINE victims == {d \in DOMAIN docs : docs[d].folder \in c.doomed}
  <2>2. b = [c EXCEPT !.pc = "drop", !.victims = victims]
    BY <1>16 DEF DeleteFolderDocs, Await, With
  <2>3. b.victims = victims /\ b.doomed = c.doomed /\ b.fn = "deleteFolder"
    BY <2>1, <2>2 DEF Deleting
  <2>4. PlacedCall(folders', docs', b)
    BY <1>2, <2>1, <2>3 DEF PlacedCall, Deleting
  <2> QED BY <1>5, <2>1, <2>4
<1>17. CASE DropDoc(t) \/ DropFolder(t)
  <2>1. c \in Deleting(D, F) /\ c.pc = "drop" /\ c.fn = "deleteFolder"
    BY <1>2, <1>17, CallShapes DEF DropDoc, DropFolder, At
  <2>2. task[t].op = "deleteFolder"
    BY <1>2, <2>1 DEF Fits
  <2>3. /\ Whole(folders, c.doomed)
        /\ \A d \in DOMAIN docs : docs[d].folder \in c.doomed => d \in c.victims
    BY <1>2, <2>1 DEF PlacedCall
  <2>4. CASE DropDoc(t)
    <3>1. PICK d \in c.victims : docs' = Without(docs, d) /\ Await(t, [c EXCEPT !.victims = @ \ {d}])
      BY <2>4 DEF DropDoc
    <3>2. folders' = folders
      BY <2>4 DEF DropDoc
    <3>3. b = [c EXCEPT !.victims = @ \ {d}]
      BY <3>1 DEF Await, With
    <3>4. b.victims = c.victims \ {d} /\ b.doomed = c.doomed /\ b.fn = "deleteFolder" /\ b.pc = "drop"
      BY <2>1, <3>3 DEF Deleting
    <3>5. DOMAIN docs' = DOMAIN docs \ {d} /\ \A e \in DOMAIN docs' : docs'[e] = docs[e]
      BY <3>1 DEF Without
    <3>6. PlacedCall(folders', docs', b)
      BY <2>3, <3>2, <3>4, <3>5 DEF PlacedCall
    <3>7. Housed'
      BY <3>2, <3>5 DEF Housed
    <3>8. Stay(folders, folders')
      BY <3>2 DEF Stay
    <3> QED BY <1>2, <1>3, <2>2, <3>6, <3>7, <3>8, HomesByDeleter
  <2>5. CASE DropFolder(t)
    <3>1. PICK f \in c.doomed : /\ folders' = Without(folders, f)
                                /\ \/ Return(t, None)
                                   \/ Await(t, [c EXCEPT !.doomed = @ \ {f}])
      BY <2>5 DEF DropFolder
    <3>2. docs' = docs /\ c.victims = {}
      BY <2>5 DEF DropFolder
    <3>3. \A d \in DOMAIN docs : docs[d].folder \notin c.doomed
      BY <2>3, <3>2
    <3>4. Housed'
      <4>1. DOMAIN folders' = DOMAIN folders \ {f}
        BY <3>1 DEF Without
      <4> QED BY <3>1, <3>2, <3>3, <4>1 DEF Housed, Standing
    <3>5. Whole(folders', c.doomed \ {f})
      BY <2>3, <3>1, Named, RenderedLess
    <3>6. t \in DOMAIN call' => PlacedCall(folders', docs', b)
      <4>1. t \in DOMAIN call' => b = [c EXCEPT !.doomed = @ \ {f}]
        BY <3>1 DEF Return, Await, With, Without
      <4>2. ASSUME t \in DOMAIN call'
            PROVE  b.doomed = c.doomed \ {f} /\ b.fn = "deleteFolder" /\ b.pc = "drop"
        BY <2>1, <4>1, <4>2 DEF Deleting
      <4> QED BY <3>2, <3>3, <3>5, <4>2 DEF PlacedCall
    <3> QED BY <1>2, <1>3, <2>2, <2>5, <3>4, <3>6, HomesByDeleter
  <2> QED BY <1>17, <2>4, <2>5
<1>18. CASE MoveRead(t)
  <2>1. c \in ToMove(D, F) /\ UNCHANGED <<folders, docs>>
    BY <1>2, <1>18, CallShapes DEF MoveRead, At, store
  <2>2. CASE c.id \in DOMAIN docs
    <3> DEFINE step == IF c.folder = Root THEN "write" ELSE "resolve"
    <3>1. b = [c EXCEPT !.found = docs[c.id], !.pc = step]
      BY <1>18, <2>2 DEF MoveRead, Await, With
    <3>2. b.folder = c.folder /\ b.pc = step
      BY <2>1, <3>1 DEF ToMove
    <3> QED BY <1>6, <1>8, <2>1, <3>2 DEF ToMove
  <2>3. CASE c.id \notin DOMAIN docs
    BY <1>6, <1>18, <2>1, <2>3 DEF MoveRead, Return, Without, ToMove
  <2> QED BY <2>2, <2>3
<1>19. CASE MoveResolve(t)
  <2>1. c \in Moving(D, F) /\ UNCHANGED <<folders, docs>>
    BY <1>2, <1>19, CallShapes DEF MoveResolve, At, store
  <2>2. CASE c.folder \in DOMAIN folders
    <3>1. b = [c EXCEPT !.pc = "write"]
      BY <1>19, <2>2 DEF MoveResolve, Goto, Await, With
    <3>2. b.folder = c.folder
      BY <2>1, <3>1 DEF Moving
    <3> QED BY <1>6, <1>7, <2>1, <2>2, <3>2 DEF Moving
  <2>3. CASE c.folder \notin DOMAIN folders
    BY <1>6, <1>19, <2>1, <2>3 DEF MoveResolve, Return, Without, Moving
  <2> QED BY <2>2, <2>3
<1>20. CASE MoveWrite(t)
  <2>1. c \in Moving(D, F) /\ c.pc = "write"
    BY <1>2, <1>20, CallShapes DEF MoveWrite, At
  <2> DEFINE r == [c.found EXCEPT !.folder = c.folder]
  <2>2. docs' = With(docs, c.id, r) /\ folders' = folders /\ t \notin DOMAIN call'
    BY <1>20 DEF MoveWrite, writeDoc, Return, Without
  <2>3. r.folder = c.folder
    BY <2>1 DEF Moving, DocIn
  <2> HIDE DEF r
  <2>4. r.folder \in Standing(folders)
    BY <1>2, <2>1, <2>3 DEF PlacedCall, Moving
  <2>5. Housed'
    BY <2>2, <2>4 DEF Housed, With
  <2> QED BY <1>2, <1>3, <2>2, <2>5, HomesBy, StayStored
<1>21. CASE SaveResolve(t)
  <2>1. c \in Making(F) /\ UNCHANGED <<folders, docs>>
    <3>1. c.fn = "save" /\ c.pc \in {"resolve0", "resolve"} /\ UNCHANGED store
      BY <1>21 DEF SaveResolve, At
    <3> QED BY <1>2, <3>1, CallShapes DEF ToSave, store
  <2> DEFINE f == resolveFolderId(c.folder)
             step == IF c.pc = "resolve0" THEN "check" ELSE "write"
  <2>2. b = [c EXCEPT !.folder = f, !.pc = step]
    BY <1>21 DEF SaveResolve, Await, With
  <2>3. b.folder = f
    BY <2>1, <2>2 DEF Making
  <2> QED BY <1>6, <1>9, <2>1, <2>3 DEF Making
<1>22. CASE SaveCheck(t)
  <2>1. c.fn = "save" /\ c.pc = "check" /\ UNCHANGED <<folders, docs>>
    BY <1>22 DEF SaveCheck, At, store
  <2>2. c \in Making(F) \cup ToSave(D)
    BY <1>2, <2>1, CallShapes DEF Saving
  <2>3. t \in DOMAIN call' => b.pc # "write"
    <3>1. CASE Goto(t, "open")
      <4>1. b = [c EXCEPT !.pc = "open"]
        BY <3>1 DEF Goto, Await, With
      <4> QED BY <2>2, <4>1 DEF Making, ToSave
    <3>2. CASE Await(t, [c EXCEPT !.title.n = @ + 1])
      <4>1. b = [c EXCEPT !.title.n = @ + 1]
        BY <3>2 DEF Await, With
      <4>2. b.pc = c.pc
        BY <2>2, <4>1 DEF Making, ToSave
      <4> QED BY <2>1, <4>2
    <3>3. CASE Abort(t)
      BY <3>3 DEF Abort, Without
    <3> QED BY <1>22, <3>1, <3>2, <3>3 DEF SaveCheck
  <2> QED BY <1>6, <2>1, <2>3
<1>23. CASE SaveOpen(t)
  <2>1. c.fn = "save" /\ c.pc = "open" /\ UNCHANGED <<folders, docs>>
    BY <1>23 DEF SaveOpen, At, store
  <2>2. CASE c.grow
    <3>1. c \in Making(F)
      BY <1>2, <2>1, <2>2, CallShapes
    <3>2. b = [c EXCEPT !.pc = IF c.folder = Root THEN "write" ELSE "resolve"]
      BY <1>23, <2>2 DEF SaveOpen, Await, With
    <3>3. b.folder = c.folder /\ (b.pc = "write" => c.folder = Root)
      BY <3>1, <3>2 DEF Making
    <3> QED BY <1>6, <1>8, <2>1, <3>3
  <2>3. CASE ~ c.grow
    <3>1. c \in ToSave(D)
      BY <1>2, <2>1, <2>3, CallShapes DEF Saving
    <3> DEFINE known == c.id \in DOMAIN docs
               f == IF known THEN FolderOf(c.id) ELSE Root
               o == IF known THEN docs[c.id].origin ELSE None
    <3>2. b = [c EXCEPT !.pc = "write", !.folder = f, !.origin = o]
      BY <1>23, <2>3 DEF SaveOpen, Await, With
    <3>3. f \in Standing(folders)
      BY <1>8 DEF Housed, FolderOf
    <3> HIDE DEF f, o
    <3>4. b.folder = f
      BY <3>1, <3>2 DEF ToSave
    <3> QED BY <1>6, <2>1, <3>3, <3>4
  <2> QED BY <2>2, <2>3
<1>24. CASE SaveWrite(t)
  <2>1. c.fn = "save" /\ c.pc = "write" /\ folders' = folders
    BY <1>24 DEF SaveWrite, At
  <2>2. c.folder \in Standing(folders)
    BY <1>2, <2>1 DEF PlacedCall
  <2> DEFINE id == IF c.id = None THEN Fresh ELSE c.id
             r == [title |-> c.title, folder |-> c.folder, origin |-> c.origin, text |-> c.text]
  <2>3. docs' = With(docs, id, r) /\ t \notin DOMAIN call'
    BY <1>24 DEF SaveWrite, writeDoc, Return, Without
  <2>4. r.folder \in Standing(folders)
    BY <2>2
  <2> HIDE DEF id, r
  <2>5. Housed'
    BY <2>1, <2>3, <2>4 DEF Housed, With
  <2> QED BY <1>2, <1>3, <2>1, <2>3, <2>5, HomesBy, StayStored
<1> QED BY <1>10, <1>11, <1>12, <1>13, <1>14, <1>15, <1>16, <1>17, <1>18, <1>19, <1>20, <1>21,
           <1>22, <1>23, <1>24 DEF Service

LEMMA ProceedHomes ==
    ASSUME Typed, Recorded, Undisturbed, Housed, \A u \in Tasks : Placed(u),
           NEW t \in Tasks, Proceed(t)
    PROVE  HomesStep
<1>1. PICK D \in SUBSET Nat, F \in SUBSET Nat : TypedIn(D, F)
  BY DEF Typed
<1> DEFINE s == task[t]
<1>2. Frame(t) /\ t \in DOMAIN task /\ t \notin DOMAIN call /\ s \in ScriptIn(D, F)
  BY <1>1, StepsFrame, ProceedCalls DEF TypedIn, TasksIn, Own
<1>3. t \in DOMAIN call' => PlacedCall(folders', docs', call'[t])
  BY ProceedCalls DEF PlacedCall
<1>4. UNCHANGED <<folders, docs>> => Stay(folders, folders') /\ Housed'
  BY StayStored DEF Housed
<1>5. ASSUME Stay(folders, folders'), Housed', t \in DOMAIN task' => PlacedPull(folders', task'[t])
      PROVE  HomesStep
  <2>1. Placed(t)'
    BY <1>3, <1>5 DEF Placed
  <2> QED BY <1>2, <1>5, <2>1, HomesBy
<1>6. CASE PullMaps(t)
  <2>1. s \in Pulling(D, F) /\ s.op = "pull" /\ UNCHANGED <<folders, docs>>
        /\ Set(t, [s EXCEPT !.fl = folders, !.pc = "chain"])
    BY <1>2, <1>6, ScriptShapes DEF PullMaps, In, Quiet, store
  <2>2. task'[t].fl = folders /\ task'[t].parent = s.parent
    BY <1>2, <2>1 DEF Set, Pulling
  <2>3. PlacedPull(folders', task'[t])
    BY <1>2, <2>1, <2>2 DEF Placed, PlacedPull
  <2> QED BY <1>4, <1>5, <2>1, <2>3
<1>7. CASE PullChain(t)
  <2> DEFINE found == Matches(s.fl, s.parent, s.path[s.k])
             record == [name |-> s.path[s.k], parent |-> s.parent]
  <2>1. s \in Pulling(D, F) /\ s.op = "pull" /\ s.pc = "chain" /\ docs' = docs
    BY <1>2, <1>7, ScriptShapes DEF PullChain, In, store
  <2>2. s.parent \in Standing(folders) /\ DOMAIN s.fl \subseteq DOMAIN folders
    BY <1>2, <2>1 DEF Placed, PlacedPull
  <2>3. CASE s.k = Len(s.path)
    <3>1. Set(t, [s EXCEPT !.pc = "record"]) /\ UNCHANGED <<folders, docs>>
      BY <1>7, <2>3 DEF PullChain, store
    <3>2. task'[t].pc = "record" /\ task'[t].parent = s.parent
      BY <1>2, <2>1, <3>1 DEF Set, Pulling
    <3>3. PlacedPull(folders', task'[t])
      BY <2>2, <3>1, <3>2 DEF PlacedPull
    <3> QED BY <1>4, <1>5, <3>1, <3>3
  <2>4. CASE s.k # Len(s.path) /\ found # {}
    <3>1. PICK f \in found : Set(t, [s EXCEPT !.parent = f, !.k = @ + 1]) /\ UNCHANGED store
      BY <1>7, <2>4 DEF PullChain
    <3>2. task'[t].fl = s.fl /\ task'[t].parent = f /\ UNCHANGED <<folders, docs>>
      BY <1>2, <2>1, <3>1 DEF Set, Pulling, store
    <3>3. f \in DOMAIN folders
      BY <2>2 DEF Matches
    <3>4. PlacedPull(folders', task'[t])
      BY <2>2, <3>2, <3>3 DEF PlacedPull, Standing
    <3> QED BY <1>4, <1>5, <3>2, <3>4
  <2>5. CASE s.k # Len(s.path) /\ found = {}
    <3>1. /\ folders' = With(folders, Fresh, record)
          /\ Set(t, [s EXCEPT !.parent = Fresh, !.k = @ + 1, !.fl = With(@, Fresh, record)])
      BY <1>7, <2>5 DEF PullChain, writeFolder
    <3> HIDE DEF record
    <3>2. task'[t].fl = With(s.fl, Fresh, record) /\ task'[t].parent = Fresh
      BY <1>2, <2>1, <3>1 DEF Set, Pulling
    <3>3. DOMAIN folders' = DOMAIN folders \cup {Fresh} /\ DOMAIN task'[t].fl = DOMAIN s.fl \cup {Fresh}
      BY <3>1, <3>2 DEF With
    <3>4. PlacedPull(folders', task'[t])
      BY <2>2, <3>2, <3>3 DEF PlacedPull, Standing
    <3>5. Fresh \notin DOMAIN folders
      BY Named DEF Fresh
    <3>6. Stay(folders, folders')
      BY <3>1, <3>5 DEF Stay, With
    <3>7. Housed'
      BY <2>1, <3>3 DEF Housed, Standing
    <3> QED BY <1>5, <3>4, <3>6, <3>7
  <2> QED BY <2>3, <2>4, <2>5
<1>8. CASE PullRecord(t)
  <2> DEFINE id == IF s.id = None THEN Fresh ELSE s.id
             r == [title |-> s.path[Len(s.path)], folder |-> s.parent,
                   origin |-> None, text |-> <<None, 1>>]
  <2>1. s \in Pulling(D, F) /\ s.op = "pull" /\ folders' = folders
        /\ Set(t, [s EXCEPT !.pc = "lists"])
    BY <1>2, <1>8, ScriptShapes DEF PullRecord, In
  <2>2. docs' = With(docs, id, r)
    BY <1>8 DEF PullRecord, writeDoc
  <2>3. s.parent \in Standing(folders)
    BY <1>2, <2>1 DEF Placed, PlacedPull
  <2>4. r.folder \in Standing(folders)
    BY <2>3
  <2> HIDE DEF id, r
  <2>5. Housed'
    BY <2>1, <2>2, <2>4 DEF Housed, With
  <2>6. task'[t].pc = "lists" /\ task'[t].parent = s.parent
    BY <1>2, <2>1 DEF Set, Pulling
  <2>7. PlacedPull(folders', task'[t])
    BY <2>1, <2>3, <2>6 DEF PlacedPull
  <2> QED BY <1>5, <2>1, <2>5, <2>7, StayStored
<1>9. CASE ~ PullMaps(t) /\ ~ PullChain(t) /\ ~ PullRecord(t)
  <2>1. t \in DOMAIN task' => PlacedPull(folders', task'[t])
    BY <1>9, PullSteps DEF PlacedPull
  <2>2. folders' = folders
    BY <1>9, ProceedCalls
  <2>3. CASE Erase(t)
    <3>1. docs' = Without(docs, s.id)
      BY <2>3 DEF Erase
    <3>2. Housed'
      BY <2>2, <3>1 DEF Housed, Without
    <3> QED BY <1>5, <2>1, <2>2, <3>2, StayStored
  <2>4. CASE ~ Erase(t)
    <3>1. docs' = docs
      BY <1>9, <2>4, ProceedCalls
    <3> QED BY <1>4, <1>5, <2>1, <2>2, <3>1
  <2> QED BY <2>3, <2>4
<1> QED BY <1>6, <1>7, <1>8, <1>9

LEMMA UpsetHomes ==
    ASSUME Typed, Recorded, Undisturbed, Housed, \A u \in Tasks : Placed(u),
           NEW t \in Tasks, FailResolve(t) \/ Fail(t)
    PROVE  HomesStep
<1>1. PICK D \in SUBSET Nat, F \in SUBSET Nat : TypedIn(D, F)
  BY DEF Typed
<1>2. Frame(t) /\ UNCHANGED <<folders, docs>>
  BY StepsFrame DEF FailResolve, Fail, store
<1>3. Stay(folders, folders') /\ Housed'
  BY <1>2, StayStored DEF Housed
<1>4. CASE Fail(t)
  <2>1. t \notin DOMAIN call' /\ t \notin DOMAIN task' /\ t \in DOMAIN task
    BY <1>4 DEF Fail, Abort, Without, Running
  <2> QED BY <1>2, <1>3, <2>1, HomesBy DEF Placed
<1>5. CASE FailResolve(t)
  <2>1. t \in DOMAIN call /\ UNCHANGED task
    BY <1>5 DEF FailResolve, At
  <2>2. t \in DOMAIN task /\ task[t].op # "pull" /\ call[t] \in CallIn(D, F)
    BY <1>1, <2>1, Named DEF Fits, TypedIn, TasksIn, Own
  <2>3. PlacedCall(folders', docs', call'[t])
    <3>1. CASE At(t, "createFolder", "resolve") /\ Await(t, [call[t] EXCEPT !.pc = "check", !.parent = Root])
      <4>1. call[t] \in Creating(F)
        BY <2>2, <3>1, CallShapes DEF At
      <4>2. call'[t].fn = "createFolder"
        BY <3>1, <4>1 DEF Await, With, Creating
      <4> QED BY <4>2 DEF PlacedCall
    <3>2. CASE At(t, "save", "resolve") /\ Await(t, [call[t] EXCEPT !.pc = "write", !.folder = Root])
      <4>1. call[t] \in Making(F) \/ call[t] \in ToSave(D) \/ call[t] \in Saving(D, F)
        BY <2>2, <3>2, CallShapes DEF At
      <4>2. call'[t].fn = "save" /\ call'[t].folder = Root
        BY <3>2, <4>1 DEF Await, With, Making, ToSave, Saving
      <4> QED BY <4>2 DEF PlacedCall, Standing
    <3> QED BY <1>5, <3>1, <3>2 DEF FailResolve
  <2>4. Placed(t)'
    BY <2>1, <2>2, <2>3 DEF Placed, PlacedPull
  <2> QED BY <1>2, <1>3, <2>2, <2>4, HomesBy
<1> QED BY <1>4, <1>5

LEMMA GestureHomes ==
    ASSUME Typed, Recorded, Undisturbed, Housed, \A u \in Tasks : Placed(u),
           NEW t \in Tasks, UserBegins(t) \/ SyncBegins(t)
    PROVE  HomesStep
<1>1. PICK s : /\ Begin(t, s)
               /\ s.op = "pull" => s.pc = "maps" /\ s.parent = Root
               /\ \/ UNCHANGED call
                  \/ \E c : /\ Await(t, c)
                            /\ c.pc \in {"resolve", "resolve0", "read", "folders", "check"}
                            /\ c.fn = "renameFolder" => c.pc = "read"
                            /\ c.fn = "deleteFolder" => c.pc = "folders"
  BY GestureBegins
<1>2. /\ t \notin DOMAIN task /\ t \notin DOMAIN call /\ task' = With(task, t, s)
      /\ UNCHANGED <<folders, docs>>
  BY <1>1, Named DEF Begin, Running, store
<1>3. Frame(t) /\ t \in DOMAIN task' /\ task'[t] = s
  BY <1>1, <1>2 DEF Frame, With, Await
<1>4. t \in DOMAIN call' => PlacedCall(folders', docs', call'[t])
  BY <1>1, <1>2 DEF PlacedCall, Await, With
<1>5. Placed(t)'
  BY <1>1, <1>3, <1>4 DEF Placed, PlacedPull, Standing
<1>6. ASSUME NEW u \in Tasks, u # t PROVE Placed(u)'
  BY <1>2, <1>3, <1>6 DEF Frame, Placed
<1>7. Housed' /\ Stay(folders, folders')
  BY <1>2, StayStored DEF Housed
<1> QED BY <1>5, <1>6, <1>7 DEF HomesStep

LEMMA BystanderHomes ==
    ASSUME Housed, \A u \in Tasks : Placed(u), Bystander
    PROVE  HomesStep
<1>1. UNCHANGED <<folders, docs>> /\ (UNCHANGED <<task, call>> \/ (task' = Empty /\ call' = Empty))
  BY BystanderKeeps
<1>2. Housed' /\ Stay(folders, folders')
  BY <1>1, StayStored DEF Housed
<1>3. \A u \in Tasks : Placed(u)'
  BY <1>1 DEF Placed, Empty
<1> QED BY <1>2, <1>3 DEF HomesStep

\* Every step, as long as no folder's deletion has overlapped anything.
LEMMA HomesKept ==
    ASSUME Typed, Recorded, Homes, [Next]_vars
    PROVE  /\ Undisturbed => HomesStep
           /\ Homes'
<1>1. Undisturbed => HomesStep
  BY Steps, ServiceHomes, ProceedHomes, UpsetHomes, GestureHomes, BystanderHomes DEF Homes
<1>2. Undisturbed' => Undisturbed
  BY OverlapsGrow DEF Undisturbed, Apart
<1> QED BY <1>1, <1>2 DEF Homes, HomesStep

\* As long as no folder's deletion overlapped another operation, no step files a
\* document nowhere, and none cuts off a folder that still has one: who stands
\* outside the tree is in a folder that stood outside it before.
THEOREM DocumentsStay == Spec => NothingVanishes
<1>1. Init => Recorded /\ Homes
  <2> SUFFICES ASSUME Init PROVE Recorded /\ Homes
    OBVIOUS
  <2>1. task = Empty /\ call = Empty /\ DOMAIN Empty = {}
    BY DEF Init, Empty
  <2>2. PICK s \in Start : folders = s.folders /\ docs = s.docs
    BY DEF Init
  <2>3. docs \in [DOMAIN docs -> [title : Counted, folder : DOMAIN folders \cup {Root},
                                 origin : File \cup {None}, text : Text]]
    BY <2>2, StartsKnown
  <2>4. Housed
    BY <2>3 DEF Housed, Standing
  <2> QED BY <2>1, <2>4 DEF Recorded, Homes, Placed
<1>2. Typed /\ Recorded /\ Homes /\ [Next]_vars => Recorded' /\ Homes'
  BY RecordedKept, HomesKept
<1>3. ASSUME Typed, Typed', Recorded, Homes, [Next]_vars
      PROVE  [\A d \in DOMAIN docs' :
                (Hidden(folders', docs'[d].folder) /\ Apart({"deleteFolder"}, Others)) =>
                    /\ docs'[d].folder \in DOMAIN folders'
                    /\ Hidden(folders, docs'[d].folder)]_vars
  <2> SUFFICES ASSUME NEW d \in DOMAIN docs', Hidden(folders', docs'[d].folder), Undisturbed
               PROVE  docs'[d].folder \in DOMAIN folders' /\ Hidden(folders, docs'[d].folder)
    BY DEF Undisturbed
  <2> DEFINE f == docs'[d].folder
  <2>1. HomesStep
    BY <1>3, HomesKept
  <2>2. f \in Standing(folders')
    BY <2>1 DEF HomesStep, Housed
  <2>3. f # Root /\ f \notin Rendered(folders')
    BY DEF Hidden
  <2>4. f \in DOMAIN folders'
    BY <2>2, <2>3 DEF Standing
  <2>5. IsFiniteSet(DOMAIN folders) /\ IsFiniteSet(DOMAIN folders')
    <3>1. PICK D \in SUBSET Nat, F \in SUBSET Nat : TypedIn(D, F)'
      BY <1>3 DEF Typed
    <3>2. /\ F \subseteq 1 .. ids' /\ ids' \in Nat /\ folders' \in FolderMaps(F)
      BY <3>1 DEF TypedIn, NumbersIn, StoreIn
    <3>3. DOMAIN folders' \subseteq 1 .. ids'
      BY <3>2, FolderMapsAre
    <3>4. IsFiniteSet(1 .. ids')
      BY <3>2, FS_Interval
    <3> QED BY <1>3, <3>3, <3>4, FS_Subset, Named
  <2>6. CASE Stay(folders, folders')
    BY <2>3, <2>4, <2>5, <2>6, RenderedGrows DEF Hidden
  <2>7. CASE \E t \in Tasks : DropFolder(t)
    <3>1. PICK t \in Tasks : DropFolder(t)
      BY <2>7
    <3> DEFINE c == call[t]
    <3>2. t \in DOMAIN call /\ c.fn = "deleteFolder" /\ c.pc = "drop" /\ c.victims = {} /\ docs' = docs
      BY <3>1 DEF DropFolder, At
    <3>3. PICK g \in c.doomed : folders' = Without(folders, g)
      BY <3>1 DEF DropFolder
    <3>4. PlacedCall(folders, docs, c)
      BY <1>3, <3>2 DEF Homes, Placed
    <3>5. Whole(folders, c.doomed) /\ f \notin c.doomed
      BY <3>2, <3>4 DEF PlacedCall
    <3>6. Rendered(folders) \subseteq Rendered(folders') \cup c.doomed
      BY <2>5, <3>3, <3>5, RenderedLess
    <3> QED BY <2>3, <2>4, <3>5, <3>6 DEF Hidden
  <2> QED BY <2>1, <2>4, <2>6, <2>7 DEF HomesStep
<1>4. Typed /\ Typed' /\ Recorded /\ Homes /\ [Next]_vars =>
          [\A d \in DOMAIN docs' :
                (Hidden(folders', docs'[d].folder) /\ Apart({"deleteFolder"}, Others)) =>
                    /\ docs'[d].folder \in DOMAIN folders'
                    /\ Hidden(folders, docs'[d].folder)]_vars
  BY <1>3
<1> QED BY <1>1, <1>2, <1>4, AlwaysTyped, PTL DEF Spec, NothingVanishes

-----------------------------------------------------------------------------
(* Deletions *)

\* Only a Yes starts a deletion.
LEMMA DeletionBegins ==
    ASSUME NEW t, UserBegins(t) \/ SyncBegins(t), task'[t].op \in {"deleteDocument", "deleteFolder"}
    PROVE  confirmDeleteAndApply(t)
<1> DEFINE Else == \E s : Begin(t, s) /\ s.op \notin {"deleteDocument", "deleteFolder"}
<1>1. ~ Else
  BY DEF Begin, With
<1>2. createFolder(t) => Else
  BY DEF createFolder, Script
<1>3. \A f, b : renameFolder(t, f, b) => Else
  BY DEF renameFolder, Script
<1>4. \A d, f : moveDocument(t, d, f) => Else
  BY DEF moveDocument, Script
<1>5. \A f : createDocument(t, f) => Else
  BY DEF createDocument, Script
<1>6. \A d : switchDocument(t, d) \/ showProperties(t, d) => Else
  BY DEF switchDocument, showProperties, DocScript
<1>7. \A f : importContent(t, f) => Else
  BY DEF importContent
<1>8. importFolder(t) => Else
  BY DEF importFolder
<1>9. \A d, p : pull(t, d, p) => Else
  BY DEF pull
<1> HIDE DEF Else
<1> QED BY <1>1, <1>2, <1>3, <1>4, <1>5, <1>6, <1>7, <1>8, <1>9 DEF UserBegins, SyncBegins

\* What the page shows is what is armed, unless it has just been answered.
Dialog ==
    /\ answered => modal # None
    /\ answered \/ modal = getModal(armed)
    /\ armed.doc = None \/ armed.folder = None

LEMMA ArmedTyped ==
    ASSUME Typed
    PROVE  armed \in [doc : Nat \cup {None}, folder : Nat \cup {None}, props : Nat \cup {None}]
<1>1. PICK D \in SUBSET Nat, F \in SUBSET Nat : TypedIn(D, F)
  BY DEF Typed
<1> QED BY <1>1 DEF TypedIn, PageIn

\* Nothing armed, nothing shown.
LEMMA NothingShown ==
    ASSUME NEW a, a.doc \in Nat \cup {None}, a.folder \in Nat \cup {None}, a.props \in Nat \cup {None}
    PROVE  /\ a.doc # None => getModal(a).kind = "confirm" /\ getModal(a).id = a.doc
           /\ a.doc = None /\ a.folder # None =>
                 getModal(a).kind = "confirm-folder" /\ getModal(a).id = a.folder
           /\ a.doc = None /\ a.folder = None /\ a.props # None =>
                 getModal(a).kind = "properties"
           /\ getModal(a) = None <=> a.doc = None /\ a.folder = None /\ a.props = None
<1>1. \A n \in Nat : /\ [kind |-> "confirm", id |-> n] # None
                    /\ [kind |-> "confirm-folder", id |-> n] # None
                    /\ [kind |-> "properties", id |-> n] # None
  BY SentinelsDiffer
<1>2. CASE a.doc # None
  <2>1. getModal(a) = [kind |-> "confirm", id |-> a.doc]
    BY <1>2 DEF getModal
  <2> QED BY <1>1, <1>2, <2>1
<1>3. CASE a.doc = None /\ a.folder # None
  <2>1. getModal(a) = [kind |-> "confirm-folder", id |-> a.folder]
    BY <1>3 DEF getModal
  <2> QED BY <1>1, <1>3, <2>1
<1>4. CASE a.doc = None /\ a.folder = None /\ a.props # None
  <2>1. getModal(a) = [kind |-> "properties", id |-> a.props]
    BY <1>4 DEF getModal
  <2> QED BY <1>1, <1>4, <2>1
<1>5. CASE a.doc = None /\ a.folder = None /\ a.props = None
  <2>1. getModal(a) = None
    BY <1>5 DEF getModal
  <2> QED BY <1>5, <2>1
<1> QED BY <1>2, <1>3, <1>4, <1>5

LEMMA DialogKept ==
    ASSUME Typed, Dialog, [Next]_vars
    PROVE  Dialog'
<1>0. /\ armed \in [doc : Nat \cup {None}, folder : Nat \cup {None}, props : Nat \cup {None}]
      /\ getModal(armed) = None <=> armed.doc = None /\ armed.folder = None /\ armed.props = None
  BY ArmedTyped, NothingShown
<1>1. UNCHANGED <<armed, modal, answered>> => Dialog'
  BY DEF Dialog
<1>2. requestEditor /\ (armed'.doc = None \/ armed'.folder = None) => Dialog'
  BY DEF Dialog, requestEditor
<1>3. requestEditor /\ armed' = armed => Dialog'
  BY <1>2 DEF Dialog
<1>4. OnPage => /\ answered = FALSE \/ ~ answered
                /\ armed.doc = None /\ armed.folder = None /\ armed.props = None
  BY <1>0 DEF OnPage, Dialog
<1>5. ASSUME OnPage, Disarmed, NoRender PROVE Dialog'
  <2>1. armed' = armed
    BY <1>0, <1>4, <1>5 DEF Disarmed
  <2> QED BY <1>1, <1>5, <2>1 DEF NoRender
<1>6. ASSUME NEW t \in Tasks, Service(t) \/ Proceed(t) \/ FailResolve(t) \/ Fail(t)
      PROVE  Dialog'
  <2>1. CASE Open(t)
    <3>1. CASE requestEditor /\ armed' = [armed EXCEPT !.doc = None, !.props = task[t].id]
      <4>1. armed'.doc = None
        BY <1>0, <3>1
      <4> QED BY <1>2, <3>1, <4>1
    <3> QED BY <1>1, <2>1, <3>1 DEF Open
  <2>2. CASE Finish(t)
    <3>1. armed' = armed /\ (requestEditor \/ NoRender)
      BY <2>2 DEF Finish
    <3> QED BY <1>1, <1>3, <3>1 DEF NoRender
  <2>3. CASE Service(t) \/ FailResolve(t) \/ Fail(t)
    BY <1>1, <2>3 DEF Service, FailResolve, Fail, page
  <2>4. CASE Proceed(t) /\ ~ Open(t) /\ ~ Finish(t)
    BY <1>1, <2>4 DEF Proceed, ImportList, ImportRoot, ImportDocs, ImportFile, ImportWalk,
       ImportSave, ImportCreated, ImportSaved, PullMaps, PullChain, PullRecord, Erase, Replace,
       GiveUp, Quiet, page
  <2> QED BY <1>6, <2>1, <2>2, <2>3, <2>4
<1>7. ASSUME NEW t \in Tasks, UserBegins(t) \/ SyncBegins(t)
      PROVE  Dialog'
  <2>1. StaysArmed => Dialog'
    BY <1>1 DEF StaysArmed, NoRender
  <2>2. createFolder(t) \/ importFolder(t) => Dialog'
    BY <2>1 DEF createFolder, importFolder
  <2>3. \A f, b : renameFolder(t, f, b) => Dialog'
    BY <2>1 DEF renameFolder
  <2>4. \A d, f : moveDocument(t, d, f) => Dialog'
    BY <2>1 DEF moveDocument
  <2>5. \A f : createDocument(t, f) => Dialog'
    BY <1>5 DEF createDocument
  <2>6. \A d : switchDocument(t, d) => Dialog'
    BY <1>5 DEF switchDocument
  <2>7. \A d : showProperties(t, d) => Dialog'
    BY <2>1 DEF showProperties
  <2>8. \A f : importContent(t, f) => Dialog'
    BY <2>1 DEF importContent
  <2>9. \A d, p : pull(t, d, p) => Dialog'
    BY <2>1 DEF pull
  <2>10. ASSUME confirmDeleteAndApply(t) PROVE Dialog'
    <3>1. modal # None /\ answered' = TRUE /\ modal' = modal
      BY <2>10 DEF confirmDeleteAndApply
    <3>2. armed' = [armed EXCEPT !.folder = None] \/ armed' = [armed EXCEPT !.doc = None]
      BY <2>10 DEF confirmDeleteAndApply, confirmFolderDelete, confirmDelete
    <3>3. armed'.doc = None \/ armed'.folder = None
      BY <1>0, <3>2
    <3> QED BY <3>1, <3>3 DEF Dialog
  <2> HIDE DEF Dialog
  <2> QED BY <1>7, <2>2, <2>3, <2>4, <2>5, <2>6, <2>7, <2>8, <2>9, <2>10 DEF UserBegins, SyncBegins
<1>8. CASE Bystander
  <2>1. ASSUME NEW d, armDelete(d) PROVE Dialog'
    <3>1. OnPage /\ armed'.folder = armed.folder /\ requestEditor
      BY <2>1 DEF armDelete, Arm
    <3> QED BY <1>2, <1>4, <3>1
  <2>2. ASSUME NEW f, armFolderDelete(f) PROVE Dialog'
    <3>1. armed'.doc = None /\ requestEditor
      BY <2>2 DEF armFolderDelete, Arm
    <3> QED BY <1>2, <3>1
  <2>3. cancelOverlays => Dialog'
    BY <1>2 DEF cancelOverlays, NoArmed
  <2>4. ASSUME Reload PROVE Dialog'
    <3>1. armed' = NoArmed /\ modal' = None /\ answered' = FALSE
      BY <2>4 DEF Reload
    <3>2. getModal(NoArmed) = None
      BY DEF getModal, NoArmed
    <3> QED BY <3>1, <3>2 DEF Dialog, NoArmed
  <2>5. (\E f \in File : DiskEdit(f)) \/ UNCHANGED vars => Dialog'
    BY <1>1 DEF DiskEdit, vars, page
  <2> QED BY <1>8, <2>1, <2>2, <2>3, <2>4, <2>5 DEF Bystander, Arming
<1> QED BY <1>6, <1>7, <1>8, Steps

\* The first Yes is to what the dialog names.
LEMMA FirstYes ==
    ASSUME Typed, Dialog, [Next]_vars, NEW t \in Tasks
    PROVE  FirstYesNames(t)
<1> SUFFICES ASSUME Deletes(t), ~ answered PROVE Names(t)
  BY DEF FirstYesNames
<1>1. t \notin DOMAIN task /\ t \in DOMAIN task' /\ task'[t].op \in {"deleteDocument", "deleteFolder"}
  BY DEF Deletes, Running
<1>2. confirmDeleteAndApply(t)
  <2>1. UserBegins(t) \/ SyncBegins(t)
    <3>1. ASSUME NEW u \in Tasks, Service(u) \/ Proceed(u) \/ FailResolve(u) \/ Fail(u) PROVE FALSE
      <4>1. u \in DOMAIN task
        BY <3>1, ServiceKeepsFn, ProceedCalls, Named DEF FailResolve, Fail, At, Running
      <4>2. Frame(u) /\ Keeps(u)
        BY <3>1, StepsFrame, StepsKeep
      <4> QED BY <1>1, <4>1, <4>2 DEF Keeps
    <3>2. ASSUME NEW u \in Tasks, u # t, UserBegins(u) \/ SyncBegins(u) PROVE FALSE
      <4>1. PICK s : Begin(u, s)
        BY <3>2, GestureBegins
      <4> QED BY <1>1, <3>2, <4>1 DEF Begin, With
    <3>3. ~ Bystander
      BY <1>1, BystanderKeeps DEF Empty
    <3> QED BY <3>1, <3>2, <3>3, Steps
  <2> QED BY <1>1, <2>1, DeletionBegins
<1>3. /\ armed.doc \in Nat \cup {None} /\ armed.folder \in Nat \cup {None}
      /\ armed.props \in Nat \cup {None}
  BY ArmedTyped
<1>4. modal # None /\ modal = getModal(armed) /\ modal.kind # "properties"
  BY <1>2 DEF Dialog, confirmDeleteAndApply
<1>5. CASE confirmFolderDelete(t)
  <2>1. armed.folder # None /\ armed.doc = None
    BY <1>5 DEF confirmFolderDelete, Dialog
  <2>2. task'[t].op = "deleteFolder" /\ task'[t].id = armed.folder
    BY <1>5 DEF confirmFolderDelete, Begin, With
  <2>3. modal.kind = "confirm-folder" /\ modal.id = armed.folder
    BY <1>3, <1>4, <2>1, NothingShown
  <2> QED BY <1>4, <2>2, <2>3 DEF Names
<1>6. CASE confirmDelete(t)
  <2>1. armed.folder = None
    BY <1>6 DEF confirmDelete
  <2>2. armed.doc # None
    BY <1>3, <1>4, <2>1, NothingShown
  <2>3. task'[t].op = "deleteDocument" /\ task'[t].id = armed.doc
    BY <1>6, <2>2 DEF confirmDelete, Begin, With
  <2>4. modal.kind = "confirm" /\ modal.id = armed.doc
    BY <1>3, <1>4, <2>2, NothingShown
  <2> QED BY <1>4, <2>3, <2>4 DEF Names
<1> QED BY <1>2, <1>5, <1>6 DEF confirmDeleteAndApply

\* What a deletion takes: the folder with what is below it, and the documents there.
Tree(s) == collectFolderTree(s.was[1], s.id)
Inside(s) == {d \in DOMAIN s.was[2] : s.was[2][d].folder \in Tree(s)}
Left(f, g, S) == DOMAIN f = DOMAIN g \cap S /\ \A x \in DOMAIN f : f[x] = g[x]
\* Until the first record goes nothing has changed, and then what the deletion has
\* still to delete is all that is left of the tree.
Underway(fs, ds, s, c) ==
    /\ c.id = s.id
    /\ c.pc # "drop" => fs = s.was[1] /\ ds = s.was[2]
    /\ c.pc = "docs" => c.doomed = Tree(s)
    /\ c.pc = "drop" => /\ c.doomed \subseteq Tree(s) /\ c.victims \subseteq Inside(s)
                       /\ Left(fs, s.was[1], (DOMAIN s.was[1] \ Tree(s)) \cup c.doomed)
                       /\ Left(ds, s.was[2], (DOMAIN s.was[2] \ Inside(s)) \cup c.victims)
Exact(fs, ds, s) ==
    s.id \in DOMAIN s.was[1] => /\ Left(fs, s.was[1], DOMAIN s.was[1] \ Tree(s))
                                /\ Left(ds, s.was[2], DOMAIN s.was[2] \ Inside(s))
Clears(t) ==
    t \in DOMAIN task /\ task[t].op = "deleteFolder" =>
        /\ t \in DOMAIN call => Underway(folders, docs, task[t], call[t])
        /\ t \notin DOMAIN call => Exact(folders, docs, task[t])
Unmixed == Apart({"deleteFolder"}, Others \ {"switchDocument", "showProperties"})
Clearances == Unmixed => \A t \in Tasks : Clears(t)

\* Beside a folder's deletion documents are opened and nothing else.
LEMMA OnlyLookers ==
    ASSUME Typed, Recorded, Unmixed, NEW t \in DOMAIN task, NEW u \in DOMAIN task, t # u,
           task[t].op = "deleteFolder"
    PROVE  task[u].op \in {"switchDocument", "showProperties"}
<1>1. PICK x \in Was("deleteFolder"), y \in Was(task[u].op) : {x, y} \in overlaps
  BY DEF Recorded
<1>2. x = "deleteFolder"
  BY DEF Was
<1>3. task[u].op \in Others
  BY Named
<1>4. y \in Others
  BY <1>3 DEF Was, Others, Makers, Movers, FolderMakers
<1>5. y \in {"switchDocument", "showProperties"}
  BY <1>1, <1>2, <1>4 DEF Unmixed, Apart
<1> QED BY <1>5 DEF Was

LEMMA LookersKeep ==
    ASSUME Typed, NEW u \in DOMAIN task, task[u].op \in {"switchDocument", "showProperties"},
           Service(u) \/ Proceed(u) \/ FailResolve(u) \/ Fail(u)
    PROVE  UNCHANGED <<folders, docs>>
<1>1. u \notin DOMAIN call
  BY Named DEF Fits
<1>2. CASE Service(u)
  BY <1>1, <1>2, ServiceKeepsFn
<1>3. CASE Proceed(u)
  <2>1. ~ PullChain(u) /\ ~ PullRecord(u) /\ ~ Erase(u)
    BY DEF PullChain, PullRecord, Erase, In
  <2> QED BY <1>3, <2>1, ProceedCalls
<1>4. CASE FailResolve(u) \/ Fail(u)
  BY <1>4 DEF FailResolve, Fail, store
<1> QED BY <1>2, <1>3, <1>4

\* One record of what is still to delete goes.
LEMMA LeftLess ==
    ASSUME NEW f, NEW g, NEW T, NEW V, V \subseteq T, NEW x \in V,
           Left(f, g, (DOMAIN g \ T) \cup V)
    PROVE  Left(Without(f, x), g, (DOMAIN g \ T) \cup (V \ {x}))
BY DEF Left, Without

\* The deletion's own steps.
LEMMA DeleterClears ==
    ASSUME Typed, NEW t \in Tasks, t \in DOMAIN task, task[t].op = "deleteFolder", Clears(t),
           Service(t) \/ Proceed(t) \/ FailResolve(t) \/ Fail(t)
    PROVE  Clears(t)'
<1>1. PICK D \in SUBSET Nat, F \in SUBSET Nat : TypedIn(D, F)
  BY DEF Typed
<1> DEFINE s == task[t]
           c == call[t]
           b == call'[t]
<1>2. s \in Clearing(D, F) /\ s.pc = "lists"
  <2>1. s \in ScriptIn(D, F)
    BY <1>1 DEF TypedIn, TasksIn, Own
  <2> QED BY <2>1, ScriptShapes DEF Clearing
<1>3. t \in DOMAIN call => c.fn = "deleteFolder" /\ c \in Deleting(D, F)
  <2>1. t \in DOMAIN call => c \in CallIn(D, F) /\ Fits(s, c)
    BY <1>1 DEF TypedIn, TasksIn, Own
  <2>2. t \in DOMAIN call => c.fn = "deleteFolder"
    BY <2>1 DEF Fits
  <2> QED BY <2>1, <2>2, CallShapes
<1>4. ASSUME t \in DOMAIN call', task' = task, Underway(folders', docs', s, b)
      PROVE  Clears(t)'
  BY <1>4 DEF Clears
<1>5. ASSUME Return(t, None), Exact(folders', docs', s)
      PROVE  Clears(t)'
  <2>1. task'[t] = [s EXCEPT !.got = None] /\ t \notin DOMAIN call'
    BY <1>5 DEF Return, Without
  <2>2. task'[t] = s
    BY <1>2, <2>1 DEF Clearing
  <2>3. Exact(folders', docs', task'[t])
    BY <1>5, <2>2
  <2> QED BY <2>1, <2>3 DEF Clears
<1>6. ASSUME t \notin DOMAIN task' \/ task'[t].op # "deleteFolder"
      PROVE  Clears(t)'
  BY <1>6 DEF Clears
<1>7. CASE Fail(t)
  BY <1>6, <1>7 DEF Fail, Abort, Without
<1>8. ~ FailResolve(t)
  BY <1>3 DEF FailResolve, At
<1>9. CASE Proceed(t)
  <2>1. Finish(t) \/ Replace(t) \/ GiveUp(t)
    BY <1>2, <1>9 DEF Proceed, In, ImportList, ImportRoot, ImportDocs, ImportFile, ImportWalk,
       ImportSave, ImportCreated, ImportSaved, PullMaps, PullChain, PullRecord, Open, Erase
  <2>2. t \notin DOMAIN task' \/ task'[t].op # "deleteFolder"
    BY <2>1 DEF Finish, Replace, GiveUp, Abort, Without, Set, Script
  <2> QED BY <1>6, <2>2
<1>10. CASE Service(t)
  <2>1. t \in DOMAIN call
    BY <1>10, ServiceKeepsFn
  <2>2. c.fn = "deleteFolder" /\ c \in Deleting(D, F) /\ Underway(folders, docs, s, c)
    BY <1>3, <2>1 DEF Clears
  <2>3. CASE DeleteFolderFolders(t)
    <3>1. c.pc = "folders" /\ folders = s.was[1] /\ docs = s.was[2] /\ c.id = s.id
          /\ UNCHANGED <<folders, docs>>
      BY <2>2, <2>3 DEF DeleteFolderFolders, At, Underway, store
    <3>2. CASE c.id \in DOMAIN folders
      <4>1. /\ b = [c EXCEPT !.pc = "docs", !.doomed = collectFolderTree(folders, c.id)]
            /\ t \in DOMAIN call' /\ task' = task
        BY <2>3, <3>2 DEF DeleteFolderFolders, Await, With
      <4>2. b.id = s.id /\ b.pc = "docs" /\ b.doomed = Tree(s)
        BY <2>2, <3>1, <4>1 DEF Deleting, Tree
      <4>3. Underway(folders', docs', s, b)
        BY <3>1, <4>2 DEF Underway
      <4> QED BY <1>4, <4>1, <4>3
    <3>3. CASE c.id \notin DOMAIN folders
      <4>1. Return(t, None)
        BY <2>3, <3>3 DEF DeleteFolderFolders
      <4>2. Exact(folders', docs', s)
        BY <3>1, <3>3 DEF Exact
      <4> QED BY <1>5, <4>1, <4>2
    <3> QED BY <3>2, <3>3
  <2>4. CASE DeleteFolderDocs(t)
    <3>1. c.pc = "docs" /\ folders = s.was[1] /\ docs = s.was[2] /\ c.id = s.id /\ c.doomed = Tree(s)
          /\ UNCHANGED <<folders, docs>> /\ task' = task
      BY <2>2, <2>4 DEF DeleteFolderDocs, At, Underway, store
    <3> DEFINE victims == {d \in DOMAIN docs : docs[d].folder \in c.doomed}
    <3>2. b = [c EXCEPT !.pc = "drop", !.victims = victims] /\ t \in DOMAIN call'
      BY <2>4 DEF DeleteFolderDocs, Await, With
    <3>3. victims = Inside(s)
      BY <3>1 DEF Inside
    <3> HIDE DEF victims
    <3>4. b.id = s.id /\ b.pc = "drop" /\ b.doomed = Tree(s) /\ b.victims = Inside(s)
      BY <2>2, <3>1, <3>2, <3>3 DEF Deleting
    <3>5. /\ Left(folders, s.was[1], (DOMAIN s.was[1] \ Tree(s)) \cup Tree(s))
          /\ Left(docs, s.was[2], (DOMAIN s.was[2] \ Inside(s)) \cup Inside(s))
      BY <3>1 DEF Left
    <3>6. Underway(folders', docs', s, b)
      BY <3>1, <3>4, <3>5 DEF Underway
    <3> QED BY <1>4, <3>1, <3>2, <3>6
  <2>5. CASE DropDoc(t)
    <3>1. PICK d \in c.victims : docs' = Without(docs, d) /\ Await(t, [c EXCEPT !.victims = @ \ {d}])
      BY <2>5 DEF DropDoc
    <3>2. c.pc = "drop" /\ folders' = folders /\ task' = task
      BY <2>5 DEF DropDoc, At
    <3>3. b = [c EXCEPT !.victims = @ \ {d}] /\ t \in DOMAIN call'
      BY <3>1 DEF Await, With
    <3>4. b.id = c.id /\ b.pc = "drop" /\ b.doomed = c.doomed /\ b.victims = c.victims \ {d}
      BY <2>2, <3>2, <3>3 DEF Deleting
    <3>5. /\ c.id = s.id /\ c.doomed \subseteq Tree(s) /\ c.victims \subseteq Inside(s)
          /\ Left(folders, s.was[1], (DOMAIN s.was[1] \ Tree(s)) \cup c.doomed)
          /\ Left(docs, s.was[2], (DOMAIN s.was[2] \ Inside(s)) \cup c.victims)
      BY <2>2, <3>2 DEF Underway
    <3>6. Left(docs', s.was[2], (DOMAIN s.was[2] \ Inside(s)) \cup b.victims)
      BY <3>1, <3>4, <3>5, LeftLess
    <3>7. Underway(folders', docs', s, b)
      BY <3>2, <3>4, <3>5, <3>6 DEF Underway
    <3> QED BY <1>4, <3>2, <3>3, <3>7
  <2>6. CASE DropFolder(t)
    <3>1. PICK f \in c.doomed : /\ folders' = Without(folders, f)
                                /\ IF c.doomed = {f} THEN Return(t, None)
                                   ELSE Await(t, [c EXCEPT !.doomed = @ \ {f}]) /\ UNCHANGED task
      BY <2>6 DEF DropFolder
    <3>2. c.pc = "drop" /\ c.victims = {} /\ docs' = docs
      BY <2>6 DEF DropFolder, At
    <3>3. /\ c.id = s.id /\ c.doomed \subseteq Tree(s) /\ c.victims \subseteq Inside(s)
          /\ Left(folders, s.was[1], (DOMAIN s.was[1] \ Tree(s)) \cup c.doomed)
          /\ Left(docs, s.was[2], (DOMAIN s.was[2] \ Inside(s)) \cup c.victims)
      BY <2>2, <3>2 DEF Underway
    <3>4. Left(folders', s.was[1], (DOMAIN s.was[1] \ Tree(s)) \cup (c.doomed \ {f}))
      BY <3>1, <3>3, LeftLess
    <3>5. CASE c.doomed = {f}
      <4>1. Return(t, None)
        BY <3>1, <3>5
      <4>2. /\ (DOMAIN s.was[1] \ Tree(s)) \cup (c.doomed \ {f}) = DOMAIN s.was[1] \ Tree(s)
            /\ (DOMAIN s.was[2] \ Inside(s)) \cup c.victims = DOMAIN s.was[2] \ Inside(s)
        BY <3>2, <3>5
      <4>3. Exact(folders', docs', s)
        BY <3>2, <3>3, <3>4, <4>2 DEF Exact
      <4> QED BY <1>5, <4>1, <4>3
    <3>6. CASE c.doomed # {f}
      <4>1. b = [c EXCEPT !.doomed = @ \ {f}] /\ t \in DOMAIN call' /\ task' = task
        BY <3>1, <3>6 DEF Await, With
      <4>2. b.id = c.id /\ b.pc = "drop" /\ b.doomed = c.doomed \ {f} /\ b.victims = c.victims
        BY <2>2, <3>2, <4>1 DEF Deleting
      <4>3. Underway(folders', docs', s, b)
        BY <3>2, <3>3, <3>4, <4>2 DEF Underway
      <4> QED BY <1>4, <4>1, <4>3
    <3> QED BY <3>5, <3>6
  <2>7. DeleteFolderFolders(t) \/ DeleteFolderDocs(t) \/ DropDoc(t) \/ DropFolder(t)
    BY <1>10, <2>2 DEF Service, At, CreateFolderResolve, CreateFolderCheck, CreateFolderWrite,
       RenameFolderRead, RenameFolderCheck, RenameFolderWrite, MoveRead, MoveResolve, MoveWrite,
       SaveResolve, SaveCheck, SaveOpen, SaveWrite
  <2> QED BY <2>3, <2>4, <2>5, <2>6, <2>7
<1> QED BY <1>7, <1>8, <1>9, <1>10

LEMMA ClearsKept ==
    ASSUME Typed, Recorded, Clearances, [Next]_vars
    PROVE  Clearances'
<1> SUFFICES ASSUME Unmixed', NEW t \in Tasks PROVE Clears(t)'
  BY DEF Clearances
<1>1. Unmixed
  BY OverlapsGrow DEF Unmixed, Apart
<1>2. Clears(t)
  BY <1>1 DEF Clearances
<1>3. ASSUME UNCHANGED <<folders, docs>>,
             t \in DOMAIN task' => t \in DOMAIN task /\ task'[t] = task[t],
             t \in DOMAIN call' <=> t \in DOMAIN call,
             t \in DOMAIN call => call'[t] = call[t]
      PROVE  Clears(t)'
  BY <1>2, <1>3 DEF Clears
<1>4. ASSUME NEW u \in Tasks, Service(u) \/ Proceed(u) \/ FailResolve(u) \/ Fail(u)
      PROVE  Clears(t)'
  <2>1. u \in DOMAIN task /\ "op" \in DOMAIN task[u]
    BY <1>4, ServiceKeepsFn, ProceedCalls, Named DEF FailResolve, Fail, At, Running
  <2>2. Frame(u) /\ Keeps(u)
    BY <1>4, StepsFrame, StepsKeep
  <2>3. CASE t \notin DOMAIN task
    BY <2>1, <2>2, <2>3 DEF Frame, Clears
  <2>4. CASE t \in DOMAIN task /\ task[t].op # "deleteFolder"
    <3>1. CASE t = u
      <4>1. t \in DOMAIN task' => Was(task[t].op) \subseteq Was(task'[t].op)
        BY <1>4, <2>1, <3>1, StepsKeepOp
      <4>2. t \in DOMAIN task' => task'[t].op # "deleteFolder"
        BY <2>4, <4>1 DEF Was
      <4> QED BY <4>2 DEF Clears
    <3>2. CASE t # u
      BY <2>2, <2>4, <3>2 DEF Frame, Clears
    <3> QED BY <3>1, <3>2
  <2>5. CASE t \in DOMAIN task /\ task[t].op = "deleteFolder"
    <3>1. CASE t = u
      BY <1>2, <1>4, <2>5, <3>1, DeleterClears
    <3>2. CASE t # u
      <4>1. task[u].op \in {"switchDocument", "showProperties"}
        BY <1>1, <2>1, <2>5, <3>2, OnlyLookers
      <4>2. UNCHANGED <<folders, docs>>
        BY <1>4, <2>1, <4>1, LookersKeep
      <4> QED BY <1>3, <2>2, <2>5, <3>2, <4>2 DEF Frame
    <3> QED BY <3>1, <3>2
  <2> QED BY <2>3, <2>4, <2>5
<1>5. ASSUME NEW u \in Tasks, UserBegins(u) \/ SyncBegins(u)
      PROVE  Clears(t)'
  <2>1. PICK s : Begin(u, s) /\ (UNCHANGED call \/ \E c : Await(u, c))
    BY <1>5, GestureBegins
  <2>2. /\ u \notin DOMAIN task /\ task' = With(task, u, s) /\ UNCHANGED <<folders, docs>>
    BY <2>1 DEF Begin, Running, store
  <2>3. CASE t # u
    BY <1>3, <2>1, <2>2, <2>3 DEF With, Await
  <2>4. CASE t = u
    <3> SUFFICES ASSUME task'[t].op = "deleteFolder" PROVE Clears(t)'
      BY DEF Clears
    <3>1. confirmDeleteAndApply(t)
      BY <1>5, <2>4, DeletionBegins
    <3>2. confirmFolderDelete(t)
      BY <3>1 DEF confirmDeleteAndApply, confirmDelete, Begin, With
    <3>3. /\ task'[t].id = armed.folder /\ task'[t].was = <<folders, docs>>
          /\ t \in DOMAIN call' /\ call'[t] = deleteFolderCall(armed.folder)
      BY <3>2 DEF confirmFolderDelete, Begin, Await, With
    <3>4. Underway(folders', docs', task'[t], call'[t])
      BY <2>2, <3>3 DEF Underway, deleteFolderCall
    <3> QED BY <3>3, <3>4 DEF Clears
  <2> QED BY <2>3, <2>4
<1>6. CASE Bystander
  <2>1. UNCHANGED <<folders, docs>> /\ (UNCHANGED <<task, call>> \/ (task' = Empty /\ call' = Empty))
    BY <1>6, BystanderKeeps
  <2>2. CASE UNCHANGED <<task, call>>
    BY <1>3, <2>1, <2>2
  <2>3. CASE task' = Empty
    BY <2>3 DEF Clears, Empty
  <2> QED BY <2>1, <2>2, <2>3
<1> QED BY <1>4, <1>5, <1>6, Steps

\* A finished deletion took the folder, all that was below it and nothing else.
LEMMA TreeGoesWhole ==
    ASSUME Typed, Clearances, NEW t \in Tasks
    PROVE  FolderGoesWhole(t)
<1> DEFINE s == task[t]
           fs == s.was[1]
           ds == s.was[2]
<1> SUFFICES ASSUME Finish(t), s.op = "deleteFolder", Unmixed, s.id \in DOMAIN fs
             PROVE  /\ folders = [f \in {g \in DOMAIN fs : s.id \notin Above(fs, g)} |-> fs[f]]
                    /\ docs = [d \in {e \in DOMAIN ds : s.id \notin Above(fs, ds[e].folder)} |-> ds[d]]
  BY DEF FolderGoesWhole, Unmixed
<1>1. t \in DOMAIN task /\ t \notin DOMAIN call
  BY DEF Finish, Running
<1>2. Exact(folders, docs, s)
  BY <1>1 DEF Clearances, Clears
<1>3. PICK D \in SUBSET Nat, F \in SUBSET Nat : TypedIn(D, F)
  BY DEF Typed
<1>4. fs \in FolderMaps(F) /\ folders \in FolderMaps(F) /\ docs \in DocMaps(D, F)
  <2>1. s \in ScriptIn(D, F)
    BY <1>1, <1>3 DEF TypedIn, TasksIn, Own
  <2> QED BY <1>3, <2>1, ScriptShapes DEF Clearing, TypedIn, StoreIn
<1>5. IsFiniteSet(DOMAIN fs)
  BY <1>3, <1>4, MapsFinite DEF TypedIn
<1>6. folders = [f \in DOMAIN folders |-> folders[f]] /\ docs = [d \in DOMAIN docs |-> docs[d]]
  BY <1>4, FolderMapsAre, DocMapsAre
<1>7. \A g : g \in Tree(s) <=> s.id \in Above(fs, g)
  BY <1>5, BelowIsAbove DEF Tree
<1> HIDE DEF fs, ds
<1>8. Left(folders, fs, DOMAIN fs \ Tree(s)) /\ Left(docs, ds, DOMAIN ds \ Inside(s))
  BY <1>2 DEF Exact, fs, ds
<1>9. /\ DOMAIN folders = {g \in DOMAIN fs : s.id \notin Above(fs, g)}
      /\ \A f \in DOMAIN folders : folders[f] = fs[f]
  BY <1>7, <1>8 DEF Left
<1>10. /\ DOMAIN docs = {e \in DOMAIN ds : s.id \notin Above(fs, ds[e].folder)}
       /\ \A d \in DOMAIN docs : docs[d] = ds[d]
  BY <1>7, <1>8 DEF Left, Inside, ds
<1> QED BY <1>6, <1>9, <1>10

\* Whatever is armed meanwhile, whichever deletions are repeated, fail or overlap
\* documents being opened: the first Yes starts the deletion the dialog names, and
\* a folder's deletion that ends has taken exactly the folder's tree.
THEOREM DeletionsExact == Spec => DeletionIsExact
<1>1. Init => Recorded /\ Dialog /\ Clearances
  <2> SUFFICES ASSUME Init PROVE Recorded /\ Dialog /\ Clearances
    OBVIOUS
  <2>1. task = Empty /\ call = Empty /\ DOMAIN Empty = {}
    BY DEF Init, Empty
  <2>2. armed = NoArmed /\ modal = None /\ answered = FALSE
    BY DEF Init
  <2>3. getModal(NoArmed) = None
    BY DEF getModal, NoArmed
  <2> QED BY <2>1, <2>2, <2>3 DEF Recorded, Dialog, Clearances, Clears, NoArmed
<1>2. Typed /\ Recorded /\ Dialog /\ Clearances /\ [Next]_vars =>
          Recorded' /\ Dialog' /\ Clearances'
  BY RecordedKept, DialogKept, ClearsKept
<1>3. Typed /\ Dialog /\ Clearances /\ [Next]_vars =>
          [\A t \in Tasks : FolderGoesWhole(t) /\ FirstYesNames(t)]_vars
  BY TreeGoesWhole, FirstYes
<1> QED BY <1>1, <1>2, <1>3, AlwaysTyped, PTL DEF Spec, DeletionIsExact

=============================================================================
