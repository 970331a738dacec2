----------------------------- MODULE TreeProofs -----------------------------
(***************************************************************************)
(* Proofs about Tree and Ignore, for any tree, any ignore files and any    *)
(* commands: types, that shouldIgnore does what a line means, that the     *)
(* walk of scanDir is the documented one but for the last level, and what  *)
(* the commands leave of the indexes.                                      *)
(***************************************************************************)
EXTENDS Tree, SequenceTheorems, FiniteSetTheorems, WellFoundedInduction, TLAPS

-----------------------------------------------------------------------------
(* Trees                                                                   *)

\* What holds for a directory whenever it holds for the one above holds for all.
LEMMA TopDown ==
  ASSUME NEW S \in SUBSET Dirs,
         \A d \in Dirs : Above[d] = None \/ Above[d] \in S => d \in S
  PROVE  S = Dirs
<1>1. SUFFICES ASSUME S # Dirs PROVE FALSE
  OBVIOUS
<1>2. PICK d \in Dirs \ S : Above[d] \notin Dirs \ S
  BY <1>1, TreeAssumption
<1>3. Above[d] = None \/ Above[d] \in S
  BY <1>2, TreeAssumption
<1> QED
  BY <1>2, <1>3

\* What holds for a directory whenever it holds for those in it holds for all.
LEMMA BottomUp ==
  ASSUME NEW S \in SUBSET Dirs,
         \A d \in Dirs : (\A k \in Dirs : Above[k] = d => k \in S) => d \in S
  PROVE  S = Dirs
<1>1. SUFFICES ASSUME S # Dirs PROVE FALSE
  OBVIOUS
<1> DEFINE T == Dirs \ S
<1>2. T \in (SUBSET Dirs) \ {{}}
  BY <1>1
<1> HIDE DEF T
<1>3. PICK d \in T : \A k \in T : Above[k] # d
  BY <1>2, TreeAssumption
<1> USE DEF T
<1> QED
  BY <1>3

\* p is the function that has base for the top directories and step for the others
Unfolds(p, base, step) ==
  \A d \in Dirs :
    /\ Above[d] = None => p[d] = base[d]
    /\ Above[d] # None => p[d] = step[<<d, p[Above[d]]>>]

\* A function may be defined from the top of a tree downwards.
LEMMA TreeRecursion ==
  ASSUME NEW V, NEW base \in [Dirs -> V], NEW step \in [Dirs \X V -> V]
  PROVE  \E p \in [Dirs -> V] : Unfolds(p, base, step)
<1> DEFINE
  P == Dirs \X V
  Closed(R) ==
    /\ \A d \in Dirs : Above[d] = None => <<d, base[d]>> \in R
    /\ \A d \in Dirs : Above[d] # None =>
         \A v \in V : <<Above[d], v>> \in R => <<d, step[<<d, v>>]>> \in R
  I == {dv \in P : \A R \in SUBSET P : Closed(R) => dv \in R}
  Next1(d, v) == IF Above[d] = None THEN base[d] ELSE step[<<d, v>>]
  Unique(d) == \E v \in V : <<d, v>> \in I /\ \A w \in V : <<d, w>> \in I => w = v
<1>1. Closed(I)
  <2>1. \A d \in Dirs : Above[d] = None => <<d, base[d]>> \in I
    OBVIOUS
  <2>2. ASSUME NEW d \in Dirs, Above[d] # None, NEW v \in V, <<Above[d], v>> \in I
        PROVE  <<d, step[<<d, v>>]>> \in I
    BY <2>2
  <2> QED
    BY <2>1, <2>2
<1>2. \A R \in SUBSET P : Closed(R) => I \subseteq R
  OBVIOUS
<1>3. I \subseteq P
  OBVIOUS
<1> HIDE DEF I
<1>4. ASSUME NEW d \in Dirs, Above[d] = None
      PROVE  \A w \in V : <<d, w>> \in I => w = base[d]
  <2>1. SUFFICES ASSUME NEW w \in V, <<d, w>> \in I, w # base[d] PROVE FALSE
    OBVIOUS
  <2>2. Closed(I \ {<<d, w>>})
    BY <1>1, <1>4, <2>1
  <2> QED
    BY <1>2, <1>3, <2>1, <2>2
<1>5. ASSUME NEW d \in Dirs, Above[d] # None, NEW v \in V,
             \A w \in V : <<Above[d], w>> \in I => w = v
      PROVE  \A w \in V : <<d, w>> \in I => w = step[<<d, v>>]
  <2>1. SUFFICES ASSUME NEW w \in V, <<d, w>> \in I, w # step[<<d, v>>] PROVE FALSE
    OBVIOUS
  <2>2. Closed(I \ {<<d, w>>})
    BY <1>1, <1>5, <2>1
  <2> QED
    BY <1>2, <1>3, <2>1, <2>2
<1>6. \A d \in Dirs : Unique(d)
  <2> DEFINE S == {d \in Dirs : Unique(d)}
  <2>1. ASSUME NEW d \in Dirs, Above[d] = None \/ Above[d] \in S PROVE Unique(d)
    <3>1. CASE Above[d] = None
      BY <3>1, <1>1, <1>4
    <3>2. CASE Above[d] # None
      <4>1. PICK v \in V : <<Above[d], v>> \in I /\ \A w \in V : <<Above[d], w>> \in I => w = v
        BY <3>2, <2>1
      <4>2. <<d, step[<<d, v>>]>> \in I /\ step[<<d, v>>] \in V
        BY <1>1, <3>2, <4>1
      <4>3. \A w \in V : <<d, w>> \in I => w = step[<<d, v>>]
        BY <1>5, <3>2, <4>1
      <4> QED
        BY <4>2, <4>3
    <3> QED
      BY <3>1, <3>2
  <2>2. /\ S \in SUBSET Dirs
        /\ \A d \in Dirs : Above[d] = None \/ Above[d] \in S => d \in S
    BY <2>1
  <2> HIDE DEF S
  <2>3. S = Dirs
    BY <2>2, TopDown
  <2> QED
    BY <2>3 DEF S
<1> DEFINE p == [d \in Dirs |-> CHOOSE v \in V : <<d, v>> \in I]
<1>7. \A d \in Dirs : p[d] \in V /\ <<d, p[d]>> \in I
  BY <1>6
<1>8. p \in [Dirs -> V]
  BY <1>7
<1> HIDE DEF p
<1>9. ASSUME NEW d \in Dirs
      PROVE  /\ Above[d] = None => p[d] = base[d]
             /\ Above[d] # None => p[d] = step[<<d, p[Above[d]]>>]
  <2>1. CASE Above[d] = None
    BY <2>1, <1>4, <1>7
  <2>2. CASE Above[d] # None
    <3>1. Above[d] \in Dirs
      BY <2>2, TreeAssumption
    <3>2. \A w \in V : <<Above[d], w>> \in I => w = p[Above[d]]
      BY <1>6, <1>7, <3>1
    <3> QED
      BY <1>5, <1>7, <2>2, <3>1, <3>2
  <2> QED
    BY <2>1, <2>2
<1> QED
  BY <1>8, <1>9 DEF Unfolds

\* The path of a directory ends with it, after that of the one above.
LEMMA PathDef ==
  /\ Path \in [Dirs -> Seq(Dirs)]
  /\ \A d \in Dirs : Path[d] = IF Above[d] = None THEN <<d>> ELSE Append(Path[Above[d]], d)
<1> DEFINE V == Seq(Dirs)
           base == [d \in Dirs |-> <<d>>]
           step == [dv \in Dirs \X V |-> Append(dv[2], dv[1])]
           Eq(p) == p = [d \in Dirs |-> IF Above[d] = None THEN <<d>> ELSE Append(p[Above[d]], d)]
<1>1. base \in [Dirs -> V] /\ step \in [Dirs \X V -> V]
  OBVIOUS
<1>2. PICK p \in [Dirs -> V] : Unfolds(p, base, step)
  <2> HIDE DEF V, base, step
  <2> QED
    BY <1>1, TreeRecursion
<1>3. ASSUME NEW d \in Dirs
      PROVE  p[d] = IF Above[d] = None THEN <<d>> ELSE Append(p[Above[d]], d)
  <2>1. Above[d] # None => Above[d] \in Dirs
    BY TreeAssumption
  <2>2. step[<<d, p[Above[d]]>>] = Append(p[Above[d]], d) \/ Above[d] = None
    BY <1>2, <2>1
  <2>3. base[d] = <<d>>
    OBVIOUS
  <2> HIDE DEF base, step
  <2>4. /\ Above[d] = None => p[d] = base[d]
        /\ Above[d] # None => p[d] = step[<<d, p[Above[d]]>>]
    BY <1>2 DEF Unfolds
  <2> QED
    BY <2>2, <2>3, <2>4
<1>4. Eq(Path)
  <2>1. Eq(p)
    BY <1>3
  <2> QED
    BY <2>1 DEF Path
<1>5. \A d \in Dirs :
        /\ Above[d] = None => Path[d] = <<d>>
        /\ Above[d] # None => Path[d] = Append(Path[Above[d]], d)
  BY <1>4
<1> DEFINE S == {d \in Dirs : Path[d] \in Seq(Dirs)}
<1>6. ASSUME NEW d \in Dirs, Above[d] = None \/ Path[Above[d]] \in Seq(Dirs)
      PROVE  Path[d] \in Seq(Dirs)
  <2>1. CASE Above[d] = None
    <3>1. Path[d] = <<d>>
      BY <1>5, <2>1
    <3> QED
      BY <3>1
  <2>2. CASE Above[d] # None
    <3>1. Path[Above[d]] \in Seq(Dirs) /\ Path[d] = Append(Path[Above[d]], d)
      BY <1>5, <1>6, <2>2
    <3> QED
      BY <3>1, AppendProperties
  <2> QED
    BY <2>1, <2>2
<1>7. S \in SUBSET Dirs
  OBVIOUS
<1>8. \A d \in Dirs : Above[d] = None \/ Above[d] \in S => d \in S
  BY <1>6
<1> HIDE DEF S
<1>9. S = Dirs
  BY <1>7, <1>8, TopDown
<1> QED
  BY <1>4, <1>5, <1>9 DEF S

\* The i-th directory of a path has a path of length i, and lies in the one before it.
LEMMA PathFacts ==
  ASSUME NEW d \in Dirs
  PROVE  /\ Path[d] \in Seq(Dirs) /\ Len(Path[d]) \in Nat \ {0} /\ Path[d][Len(Path[d])] = d
         /\ \A i \in 1..Len(Path[d]) : Path[d][i] \in Dirs /\ Len(Path[Path[d][i]]) = i
         /\ \A i \in 1..Len(Path[d]) - 1 : Above[Path[d][i + 1]] = Path[d][i]
<1> DEFINE
  Ends(e) == Len(Path[e]) \in Nat \ {0} /\ Path[e][Len(Path[e])] = e
  Lengths(e) == \A i \in 1..Len(Path[e]) : Path[e][i] \in Dirs /\ Len(Path[Path[e][i]]) = i
  Links(e) == \A i \in 1..Len(Path[e]) - 1 : Above[Path[e][i + 1]] = Path[e][i]
  S == {e \in Dirs : Ends(e) /\ Lengths(e) /\ Links(e)}
<1>1. ASSUME NEW e \in Dirs, Above[e] = None PROVE Ends(e) /\ Lengths(e) /\ Links(e)
  <2>1. Path[e] = <<e>>
    BY <1>1, PathDef
  <2>2. Len(Path[e]) = 1 /\ Path[e][1] = e
    BY <2>1
  <2> QED
    BY <2>2
<1>2. ASSUME NEW e \in Dirs, NEW a \in Dirs, Above[e] = a, Ends(a), Lengths(a), Links(a)
      PROVE  Ends(e) /\ Lengths(e) /\ Links(e)
  <2>1. a # None
    BY TreeAssumption
  <2>2. Path[e] = Append(Path[a], e) /\ Path[a] \in Seq(Dirs)
    BY <1>2, <2>1, PathDef
  <2>3. /\ Len(Path[e]) = Len(Path[a]) + 1 /\ Path[e][Len(Path[a]) + 1] = e
        /\ \A i \in 1..Len(Path[a]) : Path[e][i] = Path[a][i]
    BY <2>2, AppendProperties
  <2>4. Len(Path[a]) \in Nat \ {0}
    BY <1>2
  <2> HIDE DEF Ends, Lengths, Links
  <2>5. Ends(e)
    BY <2>3, <2>4 DEF Ends
  <2>6. Lengths(e)
    <3>1. ASSUME NEW i \in 1..Len(Path[e]) PROVE Path[e][i] \in Dirs /\ Len(Path[Path[e][i]]) = i
      <4>1. CASE i = Len(Path[a]) + 1
        BY <2>3, <2>4, <4>1
      <4>2. CASE i # Len(Path[a]) + 1
        <5>1. i \in 1..Len(Path[a])
          BY <2>3, <2>4, <4>2
        <5> QED
          BY <1>2, <2>3, <5>1 DEF Lengths
      <4> QED
        BY <4>1, <4>2
    <3> QED
      BY <3>1 DEF Lengths
  <2>7. Links(e)
    <3>1. ASSUME NEW i \in 1..Len(Path[e]) - 1 PROVE Above[Path[e][i + 1]] = Path[e][i]
      <4>1. i \in 1..Len(Path[a]) /\ Path[e][i] = Path[a][i]
        BY <2>3, <2>4
      <4>2. CASE i = Len(Path[a])
        BY <1>2, <2>3, <4>1, <4>2 DEF Ends
      <4>3. CASE i # Len(Path[a])
        <5>1. i \in 1..Len(Path[a]) - 1 /\ i + 1 \in 1..Len(Path[a])
          BY <2>4, <4>1, <4>3
        <5> QED
          BY <1>2, <2>3, <4>1, <5>1 DEF Links
      <4> QED
        BY <4>2, <4>3
    <3> QED
      BY <3>1 DEF Links
  <2> QED
    BY <2>5, <2>6, <2>7
<1> HIDE DEF Ends, Lengths, Links
<1>3. S \in SUBSET Dirs /\ \A e \in Dirs : Above[e] = None \/ Above[e] \in S => e \in S
  <2>1. ASSUME NEW e \in Dirs, Above[e] = None \/ Above[e] \in S PROVE e \in S
    <3>1. CASE Above[e] = None
      BY <1>1, <3>1
    <3>2. CASE Above[e] \in S
      BY <1>2, <3>2
    <3> QED
      BY <2>1, <3>1, <3>2
  <2> QED
    BY <2>1
<1> HIDE DEF S
<1>4. d \in S
  BY <1>3, TopDown
<1>5. Ends(d) /\ Lengths(d) /\ Links(d)
  BY <1>4 DEF S
<1> QED
  BY <1>5, PathDef DEF Ends, Lengths, Links

\* What a trail is: each directory lies in the one before it.
IsTrail(t) ==
  t \in Seq(Dirs) /\ Len(t) # 0 /\ \A i \in 1..Len(t) - 1 : Above[t[i + 1]] = t[i]

\* Trail(x, d) is a trail from x to d, if d is below x.
LEMMA TrailFacts ==
  ASSUME NEW x \in Dirs, NEW d \in Dirs, IsBelow(x, d)
  PROVE  IsTrail(Trail(x, d)) /\ Trail(x, d)[1] = x /\ Last(Trail(x, d)) = d
<1> DEFINE n == Len(Path[d])
           m == Len(Path[x])
           t == Trail(x, d)
<1>1. PICK i \in 1..n : Path[d][i] = x
  <2>1. DOMAIN Path[d] = 1..n
    BY PathFacts, LenProperties
  <2> QED
    BY <2>1 DEF IsBelow, ToSet
<1>2. m = i /\ n \in Nat \ {0} /\ i \in 1..n
  BY <1>1, PathFacts
<1>3. Path[d] \in Seq(Dirs) /\ t = SubSeq(Path[d], m, n)
  BY PathFacts DEF Trail
<1>4. /\ t \in Seq(Dirs) /\ Len(t) = n - m + 1
      /\ \A j \in 1..n - m + 1 : t[j] = Path[d][m + j - 1]
  BY <1>2, <1>3, SubSeqProperties
<1> HIDE DEF n, m, t
<1>5. t[1] = x
  <2>1. 1 \in 1..n - m + 1 /\ m + 1 - 1 = m
    BY <1>2
  <2> QED
    BY <1>1, <1>2, <1>4, <2>1
<1>6. Last(t) = d
  <2>1. n - m + 1 \in 1..n - m + 1 /\ m + (n - m + 1) - 1 = n
    BY <1>2
  <2>2. t[n - m + 1] = Path[d][n]
    BY <1>4, <2>1
  <2> QED
    BY <1>4, <2>2, PathFacts DEF Last, n
<1>7. ASSUME NEW j \in 1..Len(t) - 1 PROVE Above[t[j + 1]] = t[j]
  <2>1. /\ j \in 1..n - m + 1 /\ j + 1 \in 1..n - m + 1 /\ m + j - 1 \in 1..n - 1
        /\ m + (j + 1) - 1 = (m + j - 1) + 1
    BY <1>2, <1>4
  <2>2. t[j] = Path[d][m + j - 1] /\ t[j + 1] = Path[d][(m + j - 1) + 1]
    BY <1>4, <2>1
  <2> QED
    BY <2>1, <2>2, PathFacts DEF n
<1>8. Len(t) # 0
  BY <1>2, <1>4
<1> QED
  BY <1>4, <1>5, <1>6, <1>7, <1>8 DEF IsTrail, t

\* A trail is the end of the path of its last directory.
LEMMA TrailEndsPath ==
  ASSUME NEW t, IsTrail(t)
  PROVE  LET p == Path[Last(t)] IN
         /\ Len(t) <= Len(p)
         /\ \A i \in 1..Len(t) : t[i] = p[Len(p) - Len(t) + i]
<1> DEFINE
  Ends(u, p) == Len(u) <= Len(p) /\ \A i \in 1..Len(u) : u[i] = p[Len(p) - Len(u) + i]
  S == {d \in Dirs : \A u \in Seq(Dirs) : IsTrail(u) /\ Last(u) = d => Ends(u, Path[d])}
<1>1. ASSUME NEW d \in Dirs, Above[d] = None \/ Above[d] \in S,
             NEW u \in Seq(Dirs), IsTrail(u), Last(u) = d
      PROVE  Ends(u, Path[d])
  <2>1. Len(u) \in Nat \ {0} /\ u[Len(u)] = d /\ Len(Path[d]) \in Nat \ {0}
    BY <1>1, PathFacts DEF IsTrail, Last
  <2> HIDE DEF S
  <2>2. CASE Len(u) = 1
    <3>1. Path[d][Len(Path[d])] = d
      BY PathFacts
    <3> QED
      BY <2>1, <2>2, <3>1
  <2>3. CASE Len(u) # 1
    <3>1. Len(u) - 1 \in 1..Len(u) - 1 /\ (Len(u) - 1) + 1 = Len(u) /\ Len(u) - 1 \in 1..Len(u)
      <4>1. \A n \in Nat \ {0} : n # 1 => n - 1 \in 1..n - 1 /\ (n - 1) + 1 = n /\ n - 1 \in 1..n
        OBVIOUS
      <4> QED
        BY <2>1, <2>3, <4>1
    <3> DEFINE f == SubSeq(u, 1, Len(u) - 1)
               a == Above[d]
    <3>2. a = u[Len(u) - 1] /\ a \in Dirs
      <4>1. u[Len(u) - 1] \in Dirs
        BY <3>1, ElementOfSeq
      <4>2. Above[u[Len(u)]] = u[Len(u) - 1]
        BY <1>1, <3>1 DEF IsTrail
      <4> QED
        BY <2>1, <4>1, <4>2
    <3>3. a \in S /\ a # None
      BY <1>1, <3>2, TreeAssumption
    <3>4. /\ f \in Seq(Dirs) /\ Len(f) = Len(u) - 1
          /\ \A i \in 1..Len(u) - 1 : f[i] = u[i]
      BY <2>1, <3>1, SubSeqProperties
    <3> HIDE DEF f, a
    <3>5. IsTrail(f) /\ Last(f) = a
      <4>1. Last(f) = a
        BY <3>1, <3>2, <3>4 DEF Last
      <4>2. ASSUME NEW i \in 1..Len(f) - 1 PROVE Above[f[i + 1]] = f[i]
        <5>1. i \in 1..Len(u) - 1 /\ i + 1 \in 1..Len(u) - 1
          BY <2>1, <3>4
        <5> QED
          BY <1>1, <3>4, <5>1 DEF IsTrail
      <4> QED
        BY <2>1, <2>3, <3>4, <4>1, <4>2 DEF IsTrail
    <3>6. Ends(f, Path[a])
      BY <3>3, <3>4, <3>5 DEF S
    <3>7. Path[d] = Append(Path[a], d) /\ Path[a] \in Seq(Dirs) /\ Len(Path[a]) \in Nat \ {0}
      BY <3>2, <3>3, PathDef, PathFacts DEF a
    <3>8. /\ Len(Path[d]) = Len(Path[a]) + 1 /\ Path[d][Len(Path[d])] = d
          /\ \A i \in 1..Len(Path[a]) : Path[d][i] = Path[a][i]
      BY <3>7, AppendProperties
    <3>9. Len(u) <= Len(Path[d])
      BY <2>1, <3>4, <3>6, <3>7, <3>8
    <3>10. ASSUME NEW i \in 1..Len(u) PROVE u[i] = Path[d][Len(Path[d]) - Len(u) + i]
      <4>1. CASE i = Len(u)
        BY <2>1, <3>8, <4>1
      <4>2. CASE i # Len(u)
        <5>1. /\ i \in 1..Len(f) /\ Len(Path[a]) - Len(f) + i \in 1..Len(Path[a])
              /\ Len(Path[d]) - Len(u) + i = Len(Path[a]) - Len(f) + i
          BY <2>1, <3>4, <3>6, <3>7, <3>8, <4>2
        <5> QED
          BY <3>4, <3>6, <3>8, <5>1
      <4> QED
        BY <4>1, <4>2
    <3> QED
      BY <3>9, <3>10
  <2> QED
    BY <2>2, <2>3
<1>2. S \in SUBSET Dirs /\ \A d \in Dirs : Above[d] = None \/ Above[d] \in S => d \in S
  BY <1>1
<1> HIDE DEF S
<1>3. Last(t) \in Dirs
  BY ElementOfSeq, LenProperties DEF IsTrail, Last
<1>4. Last(t) \in S
  BY <1>2, <1>3, TopDown
<1> QED
  BY <1>4 DEF S, IsTrail

\* A trail is Trail of its two ends.
LEMMA TrailIs ==
  ASSUME NEW t, IsTrail(t)
  PROVE  /\ t[1] \in Dirs /\ Last(t) \in Dirs
         /\ IsBelow(t[1], Last(t)) /\ Trail(t[1], Last(t)) = t
<1> DEFINE p == Path[Last(t)]
<1>1. t \in Seq(Dirs) /\ Len(t) \in Nat \ {0}
  BY LenProperties DEF IsTrail
<1>2. t[1] \in Dirs /\ Last(t) \in Dirs
  BY <1>1, ElementOfSeq DEF Last
<1>3. p \in Seq(Dirs) /\ Len(p) \in Nat \ {0}
  BY <1>2, PathFacts
<1>4. Len(t) <= Len(p) /\ \A i \in 1..Len(t) : t[i] = p[Len(p) - Len(t) + i]
  BY TrailEndsPath
<1>5. t[1] = p[Len(p) - Len(t) + 1] /\ Len(p) - Len(t) + 1 \in 1..Len(p)
  BY <1>1, <1>3, <1>4
<1>6. Len(Path[t[1]]) = Len(p) - Len(t) + 1
  <2>1. \A i \in 1..Len(p) : Len(Path[p[i]]) = i
    BY <1>2, PathFacts
  <2> QED
    BY <1>5, <2>1
<1>7. IsBelow(t[1], Last(t))
  BY <1>3, <1>5, LenProperties DEF IsBelow, ToSet
<1> DEFINE m == Len(Path[t[1]])
           u == SubSeq(p, m, Len(p))
<1> HIDE DEF p
<1>8. u \in Seq(Dirs) /\ Len(u) = Len(t) /\ \A i \in 1..Len(t) : u[i] = p[m + i - 1]
  BY <1>1, <1>3, <1>4, <1>5, <1>6, SubSeqProperties
<1>9. \A i \in 1..Len(t) : u[i] = t[i]
  <2>1. \A i \in 1..Len(t) : m + i - 1 = Len(p) - Len(t) + i
    BY <1>1, <1>3, <1>6
  <2> QED
    BY <1>4, <1>8, <2>1
<1> HIDE DEF u
<1>10. u = t
  BY <1>1, <1>8, <1>9, SeqEqual
<1> QED
  BY <1>2, <1>7, <1>10 DEF Trail, u, m, p

\* The beginning of a trail is one.
LEMMA TrailPrefix ==
  ASSUME NEW t, IsTrail(t), NEW i \in 1..Len(t)
  PROVE  LET u == SubSeq(t, 1, i) IN
         /\ IsTrail(u) /\ Len(u) = i /\ u[1] = t[1] /\ Last(u) = t[i]
         /\ \A j \in 1..i : u[j] = t[j]
<1> DEFINE u == SubSeq(t, 1, i)
<1>1. t \in Seq(Dirs) /\ Len(t) \in Nat \ {0}
  BY LenProperties DEF IsTrail
<1>2. i \in Nat \ {0} /\ i <= Len(t)
  BY <1>1
<1>3. u \in Seq(Dirs) /\ Len(u) = i /\ \A j \in 1..i : u[j] = t[j]
  BY <1>1, <1>2, SubSeqProperties
<1> HIDE DEF u
<1>4. ASSUME NEW j \in 1..Len(u) - 1 PROVE Above[u[j + 1]] = u[j]
  <2>1. j \in 1..i /\ j + 1 \in 1..i /\ j \in 1..Len(t) - 1
    BY <1>1, <1>2, <1>3
  <2> QED
    BY <1>3, <2>1 DEF IsTrail
<1>5. u[1] = t[1] /\ u[i] = t[i] /\ i # 0
  BY <1>2, <1>3
<1> QED
  BY <1>3, <1>4, <1>5 DEF IsTrail, Last, u

\* The trails are those of Trail, and those of one directory are its one name.
LEMMA TrailsAre ==
  /\ \A t \in Trails : IsTrail(t)
  /\ \A t : IsTrail(t) => t \in Trails
<1>1. ASSUME NEW t \in Trails PROVE IsTrail(t)
  <2>1. PICK x \in Dirs, d \in Dirs : IsBelow(x, d) /\ t = Trail(x, d)
    BY DEF Trails
  <2> QED
    BY <2>1, TrailFacts
<1>2. ASSUME NEW t, IsTrail(t) PROVE t \in Trails
  <2>1. /\ t[1] \in Dirs /\ Last(t) \in Dirs
        /\ IsBelow(t[1], Last(t)) /\ Trail(t[1], Last(t)) = t
    BY <1>2, TrailIs
  <2>2. <<t[1], Last(t)>> \in {q \in Dirs \X Dirs : IsBelow(q[1], q[2])}
    BY <2>1
  <2> QED
    BY <2>1, <2>2 DEF Trails
<1> QED
  BY <1>1, <1>2

-----------------------------------------------------------------------------
(* The ignore rules                                                        *)

\* A set of natural numbers has a least one.
LEMMA Least ==
  ASSUME NEW T \in SUBSET Nat, T # {}
  PROVE  \E x \in T : \A y \in T : x <= y
<1> DEFINE R == {mn \in Nat \X Nat : mn[1] < mn[2]}
<1>1. IsWellFoundedOn(R, Nat)
  BY NatLessThanWellFounded DEF OpToRel
<1> HIDE DEF R
<1>2. PICK x \in T : \A y \in T : ~(<<y, x>> \in R)
  BY <1>1, WFMin
<1>3. \A y \in T : ~(y < x)
  BY <1>2 DEF R
<1> QED
  BY <1>3

\* shouldIgnore, which hands a longer name from level to level, ignores what a line
\* means, whatever the levels and their lines are.
THEOREM IgnoredIsMeant ==
  ASSUME NEW Level, NEW N, \A l \in Level : l.name \in N,
         NEW chain \in Seq(Level), NEW name \in N, NEW includeDot
  PROVE  ShouldIgnore(chain, name, includeDot) <=> IsMeant(chain, name, includeDot)
<1> DEFINE
  path(i) == [j \in 1..i |-> IF j = i THEN name ELSE chain[i - j].name]
  known(i) == IF i = 1 THEN <<>> ELSE path(i)
  Eq(f) == f = [i \in DOMAIN chain |->
                  IF i = 1 THEN <<>> ELSE FullName(chain[i - 1], name, f[i - 1])]
  full == CHOOSE f : Eq(f)
<1>1. DOMAIN chain = 1..Len(chain) /\ Len(chain) \in Nat
  BY LenProperties
<1>2. \A i \in 1..Len(chain) : chain[i].name \in N
  BY ElementOfSeq
<1>3. ASSUME NEW i \in 1..Len(chain)
      PROVE  path(i) \in Seq(N) /\ Len(path(i)) = i
  <2>1. \A j \in 1..i : (IF j = i THEN name ELSE chain[i - j].name) \in N
    BY <1>1, <1>2
  <2> QED
    BY <1>1, <2>1
<1>4. ASSUME NEW i \in 2..Len(chain)
      PROVE  FullName(chain[i - 1], name, known(i - 1)) = path(i)
  <2> DEFINE a == chain[i - 1].name
             s == IF known(i - 1) = <<>> THEN <<name>> ELSE known(i - 1)
  <2>1. i - 1 \in 1..Len(chain) /\ i \in 1..Len(chain)
    BY <1>1
  <2>2. a \in N
    BY <1>2, <2>1
  <2>3. s \in Seq(N) /\ Len(s) = i - 1 /\ \A j \in 1..i - 1 : s[j] = path(i)[j + 1]
    <3>1. CASE i = 2
      <4>1. s = <<name>>
        BY <3>1
      <4>2. path(i)[2] = name
        BY <3>1
      <4> QED
        BY <3>1, <4>1, <4>2
    <3>2. CASE i # 2
      <4>1. path(i - 1) \in Seq(N) /\ Len(path(i - 1)) = i - 1
        BY <1>3, <2>1
      <4>2. path(i - 1) # <<>> /\ known(i - 1) = path(i - 1)
        BY <3>2, <4>1
      <4>3. s = path(i - 1)
        BY <4>2
      <4>4. ASSUME NEW j \in 1..i - 1 PROVE path(i - 1)[j] = path(i)[j + 1]
        <5>1. (i - 1) - j = i - (j + 1) /\ j + 1 \in 1..i /\ (j = i - 1 <=> j + 1 = i)
          OBVIOUS
        <5> QED
          BY <5>1
      <4> QED
        BY <4>1, <4>3, <4>4
    <3> QED
      BY <3>1, <3>2
  <2>4. path(i)[1] = a
    BY <2>1
  <2> DEFINE t == <<a>> \o s
  <2>5. path(i) \in Seq(N) /\ Len(path(i)) = i
    BY <1>3, <2>1
  <2> HIDE DEF s, path, a
  <2>6. t \in Seq(N) /\ Len(t) = i /\ t[1] = a /\ \A j \in 1..i - 1 : t[j + 1] = s[j]
    BY <2>2, <2>3
  <2>7. \A j \in 1..i : t[j] = path(i)[j]
    <3>1. ASSUME NEW j \in 1..i, j # 1 PROVE t[j] = path(i)[j]
      <4>1. j - 1 \in 1..i - 1 /\ (j - 1) + 1 = j
        BY <3>1
      <4> QED
        BY <2>3, <2>6, <4>1
    <3> QED
      BY <2>4, <2>6, <3>1
  <2> HIDE DEF t
  <2>8. t = path(i)
    BY <2>5, <2>6, <2>7, SeqEqual
  <2> QED
    BY <2>8 DEF FullName, t, s, a
<1> DEFINE g == [i \in DOMAIN chain |-> known(i)]
<1>5. Eq(g)
  <2>1. ASSUME NEW i \in DOMAIN chain
        PROVE  known(i) = IF i = 1 THEN <<>> ELSE FullName(chain[i - 1], name, g[i - 1])
    <3>1. CASE i # 1
      <4>1. i - 1 \in DOMAIN chain /\ i \in 2..Len(chain)
        BY <1>1, <3>1
      <4>2. g[i - 1] = known(i - 1)
        BY <4>1
      <4> HIDE DEF g
      <4> QED
        BY <1>4, <3>1, <4>1, <4>2
    <3> QED
      BY <3>1
  <2> QED
    BY <2>1
<1> HIDE DEF g
<1>6. Eq(full)
  BY <1>5
<1>7. \A i \in DOMAIN chain : full[i] = known(i)
  <2> DEFINE T == {i \in DOMAIN chain : full[i] # known(i)}
  <2>1. SUFFICES ASSUME T # {} PROVE FALSE
    OBVIOUS
  <2>2. PICK i \in T : \A j \in T : i <= j
    <3>1. T \in SUBSET Nat
      BY <1>1
    <3> QED
      BY <2>1, <3>1, Least
  <2>3. CASE i = 1
    BY <1>6, <2>2, <2>3
  <2>4. CASE i # 1
    <3>1. i \in 2..Len(chain) /\ i - 1 \in DOMAIN chain /\ i - 1 \notin T
      <4>1. i \in 1..Len(chain)
        BY <1>1, <2>2
      <4>2. i \in 2..Len(chain) /\ i - 1 \in DOMAIN chain /\ ~(i <= i - 1)
        BY <1>1, <2>4, <4>1
      <4> QED
        BY <2>2, <4>2
    <3>2. full[i - 1] = known(i - 1) /\ full[i] = FullName(chain[i - 1], name, full[i - 1])
      BY <1>6, <2>2, <2>4, <3>1
    <3> QED
      BY <1>4, <2>2, <2>4, <3>1, <3>2
  <2> QED
    BY <2>3, <2>4
<1>8. ASSUME NEW i \in DOMAIN chain
      PROVE  (known(i) = <<>> <=> i = 1) /\ (<<name>> = path(i) <=> i = 1)
  <2>1. path(i) \in Seq(N) /\ Len(path(i)) = i /\ path(i)[i] = name
    BY <1>1, <1>3
  <2> QED
    BY <1>1, <2>1
<1>9. ASSUME NEW i \in DOMAIN chain
      PROVE  LevelHits(chain[i], name, full[i]) <=>
               \E item \in chain[i].items :
                 \/ Match(item.pattern, <<name>>) /\ (item.anchored => <<name>> = path(i))
                 \/ <<name>> # path(i) /\ ~item.anchored /\ Match(item.pattern, path(i))
  <2>1. full[i] = known(i)
    BY <1>7
  <2> HIDE DEF full, path
  <2>2. CASE i = 1
    <3>1. full[i] = <<>> /\ <<name>> = path(i)
      BY <1>8, <2>1, <2>2
    <3> QED
      BY <3>1 DEF LevelHits
  <2>3. CASE i # 1
    <3>1. full[i] = path(i) /\ full[i] # <<>> /\ <<name>> # path(i)
      BY <1>8, <2>1, <2>3
    <3> QED
      BY <3>1 DEF LevelHits
  <2> QED
    BY <2>2, <2>3
<1> QED
  BY <1>9 DEF ShouldIgnore, IsMeant

-----------------------------------------------------------------------------
(* What is below what                                                      *)

\* The path of a directory on the path of d is the beginning of that.
LEMMA PathPrefix ==
  ASSUME NEW d \in Dirs, NEW i \in 1..Len(Path[d])
  PROVE  \A j \in 1..i : Path[Path[d][i]][j] = Path[d][j]
<1> DEFINE
  Begin(e) == \A m \in 1..Len(Path[e]) : \A j \in 1..m : Path[Path[e][m]][j] = Path[e][j]
  S == {e \in Dirs : Begin(e)}
<1>1. ASSUME NEW e \in Dirs, Above[e] = None \/ Above[e] \in S PROVE Begin(e)
  <2>1. SUFFICES ASSUME NEW m \in 1..Len(Path[e]), NEW j \in 1..m
                 PROVE  Path[Path[e][m]][j] = Path[e][j]
    OBVIOUS
  <2>2. Len(Path[e]) \in Nat \ {0} /\ Path[e][Len(Path[e])] = e
    BY PathFacts
  <2>3. CASE m = Len(Path[e])
    BY <2>2, <2>3
  <2>4. CASE m # Len(Path[e])
    <3> DEFINE a == Above[e]
    <3>1. m \in 1..Len(Path[e]) - 1 /\ m + 1 \in 1..Len(Path[e]) /\ Len(Path[e]) # 1
      BY <2>2, <2>4
    <3>2. a # None
      <4>1. a = None => Path[e] = <<e>>
        BY PathDef
      <4>2. Len(<<e>>) = 1
        OBVIOUS
      <4> HIDE DEF a
      <4> QED
        BY <3>1, <4>1, <4>2
    <3>3. a \in S /\ a \in Dirs
      BY <1>1, <3>2
    <3>4. Path[e] = Append(Path[a], e) /\ Path[a] \in Seq(Dirs) /\ Len(Path[a]) \in Nat
      BY <3>2, <3>3, PathDef, PathFacts
    <3> HIDE DEF a, S
    <3>5. Len(Path[e]) = Len(Path[a]) + 1 /\ \A n \in 1..Len(Path[a]) : Path[e][n] = Path[a][n]
      BY <3>4, AppendProperties
    <3>6. m \in 1..Len(Path[a]) /\ j \in 1..Len(Path[a])
      BY <2>2, <3>1, <3>4, <3>5
    <3>7. Path[Path[a][m]][j] = Path[a][j]
      BY <3>3, <3>6 DEF S
    <3> QED
      BY <3>5, <3>6, <3>7
  <2> QED
    BY <2>3, <2>4
<1>2. S \in SUBSET Dirs /\ \A e \in Dirs : Above[e] = None \/ Above[e] \in S => e \in S
  BY <1>1
<1> HIDE DEF S
<1>3. d \in S
  BY <1>2, TopDown
<1> QED
  BY <1>3 DEF S

\* x is below itself and below what its path leads through.
LEMMA BelowIs ==
  ASSUME NEW x \in Dirs, NEW d \in Dirs
  PROVE  IsBelow(x, d) <=> Len(Path[x]) <= Len(Path[d]) /\ Path[d][Len(Path[x])] = x
<1>1. /\ DOMAIN Path[d] = 1..Len(Path[d]) /\ Len(Path[d]) \in Nat /\ Len(Path[x]) \in Nat \ {0}
      /\ \A i \in 1..Len(Path[d]) : Len(Path[Path[d][i]]) = i
  BY PathFacts, LenProperties
<1>2. ASSUME IsBelow(x, d) PROVE Len(Path[x]) <= Len(Path[d]) /\ Path[d][Len(Path[x])] = x
  <2>1. PICK i \in 1..Len(Path[d]) : Path[d][i] = x
    BY <1>1, <1>2 DEF IsBelow, ToSet
  <2>2. Len(Path[x]) = i
    BY <1>1, <2>1
  <2> QED
    BY <1>1, <2>1, <2>2
<1>3. ASSUME Len(Path[x]) <= Len(Path[d]), Path[d][Len(Path[x])] = x PROVE IsBelow(x, d)
  <2>1. Len(Path[x]) \in DOMAIN Path[d]
    BY <1>1, <1>3
  <2> QED
    BY <1>3, <2>1 DEF IsBelow, ToSet
<1> QED
  BY <1>2, <1>3

\* What is below what: an order, and a chain above any directory.
LEMMA BelowFacts ==
  ASSUME NEW x \in Dirs, NEW d \in Dirs
  PROVE  /\ IsBelow(d, d)
         /\ \A y \in Dirs : IsBelow(x, y) /\ IsBelow(y, d) => IsBelow(x, d)
         /\ \A y \in Dirs : IsBelow(x, d) /\ IsBelow(y, d) /\ Len(Path[y]) <= Len(Path[x]) =>
              IsBelow(y, x)
         /\ \A y \in Dirs : IsBelow(x, d) /\ IsBelow(y, d) /\ Len(Path[y]) = Len(Path[x]) => y = x
         /\ IsBelow(x, d) /\ x # d => Len(Path[x]) < Len(Path[d])
<1>1. Len(Path[d]) \in Nat \ {0} /\ Len(Path[x]) \in Nat \ {0} /\ Path[d][Len(Path[d])] = d
  BY PathFacts
<1>2. IsBelow(d, d)
  BY <1>1, BelowIs
<1>3. ASSUME NEW y \in Dirs, IsBelow(x, y), IsBelow(y, d) PROVE IsBelow(x, d)
  <2>1. /\ Len(Path[x]) <= Len(Path[y]) /\ Path[y][Len(Path[x])] = x
        /\ Len(Path[y]) <= Len(Path[d]) /\ Path[d][Len(Path[y])] = y /\ Len(Path[y]) \in Nat \ {0}
    BY <1>3, BelowIs, PathFacts
  <2>2. Len(Path[y]) \in 1..Len(Path[d]) /\ Len(Path[x]) \in 1..Len(Path[y])
    BY <1>1, <2>1
  <2>3. Path[y][Len(Path[x])] = Path[d][Len(Path[x])]
    BY <2>1, <2>2, PathPrefix
  <2>4. Len(Path[x]) <= Len(Path[d])
    BY <1>1, <2>1
  <2> QED
    BY <2>1, <2>3, <2>4, BelowIs
<1>4. ASSUME NEW y \in Dirs, IsBelow(x, d), IsBelow(y, d), Len(Path[y]) <= Len(Path[x])
      PROVE  IsBelow(y, x)
  <2>1. /\ Len(Path[x]) <= Len(Path[d]) /\ Path[d][Len(Path[x])] = x
        /\ Path[d][Len(Path[y])] = y /\ Len(Path[y]) \in Nat \ {0}
    BY <1>4, BelowIs, PathFacts
  <2>2. Len(Path[x]) \in 1..Len(Path[d]) /\ Len(Path[y]) \in 1..Len(Path[x])
    BY <1>1, <1>4, <2>1
  <2>3. Path[x][Len(Path[y])] = Path[d][Len(Path[y])]
    BY <2>1, <2>2, PathPrefix
  <2> QED
    BY <1>4, <2>1, <2>3, BelowIs
<1>5. ASSUME NEW y \in Dirs, IsBelow(x, d), IsBelow(y, d), Len(Path[y]) = Len(Path[x]) PROVE y = x
  BY <1>5, BelowIs
<1>6. ASSUME IsBelow(x, d), x # d PROVE Len(Path[x]) < Len(Path[d])
  BY <1>1, <1>6, BelowIs
<1> QED
  BY <1>2, <1>3, <1>4, <1>5, <1>6

\* A directory above another one leads to it through one of its own.
LEMMA BelowStep ==
  ASSUME NEW x \in Dirs, NEW d \in Dirs, IsBelow(x, d), x # d
  PROVE  /\ \E k \in Dirs : Above[k] = x /\ IsBelow(k, d)
         /\ Above[d] \in Dirs /\ IsBelow(x, Above[d])
<1> DEFINE m == Len(Path[x])
           n == Len(Path[d])
<1>1. m \in Nat \ {0} /\ n \in Nat \ {0} /\ m < n /\ Path[d][m] = x
  BY BelowFacts, BelowIs, PathFacts
<1>2. m \in 1..n - 1 /\ m + 1 \in 1..n /\ n - 1 \in 1..n - 1 /\ n - 1 \in 1..n /\ (n - 1) + 1 = n
  BY <1>1
<1> HIDE DEF m, n
<1>3. Above[Path[d][m + 1]] = x /\ Path[d][m + 1] \in Dirs /\ Len(Path[Path[d][m + 1]]) = m + 1
  BY <1>1, <1>2, PathFacts DEF n
<1>4. IsBelow(Path[d][m + 1], d)
  BY <1>1, <1>2, <1>3, BelowIs DEF n
<1>5. Above[d] = Path[d][n - 1] /\ Above[d] \in Dirs /\ Len(Path[Above[d]]) = n - 1
  <2>1. Path[d][n] = d
    BY PathFacts DEF n
  <2>2. Above[Path[d][(n - 1) + 1]] = Path[d][n - 1]
    BY <1>2, PathFacts DEF n
  <2>3. Path[d][n - 1] \in Dirs /\ Len(Path[Path[d][n - 1]]) = n - 1
    BY <1>2, PathFacts DEF n
  <2> QED
    BY <1>2, <2>1, <2>2, <2>3
<1>6. IsBelow(Above[d], d)
  BY <1>1, <1>2, <1>5, BelowIs DEF n
<1>7. IsBelow(x, Above[d])
  BY <1>1, <1>5, <1>6, BelowFacts DEF m
<1> QED
  BY <1>3, <1>4, <1>5, <1>7

\* A directory lies one level below the one above, and no two of them lead to the same.
LEMMA KidFacts ==
  ASSUME NEW x \in Dirs, NEW k \in Dirs, Above[k] = x
  PROVE  /\ Len(Path[k]) = Len(Path[x]) + 1 /\ IsBelow(x, k) /\ ~IsBelow(k, x) /\ k # x
         /\ \A j \in Dirs, d \in Dirs : Above[j] = x /\ IsBelow(k, d) /\ IsBelow(j, d) => j = k
<1>1. x # None
  BY TreeAssumption
<1>2. Path[k] = Append(Path[x], k) /\ Path[x] \in Seq(Dirs)
  BY <1>1, PathDef
<1>3. Len(Path[x]) \in Nat \ {0} /\ Path[x][Len(Path[x])] = x
  BY PathFacts
<1>4. Len(Path[k]) = Len(Path[x]) + 1 /\ \A i \in 1..Len(Path[x]) : Path[k][i] = Path[x][i]
  BY <1>2, AppendProperties
<1>5. Len(Path[x]) <= Len(Path[k]) /\ Path[k][Len(Path[x])] = x
  BY <1>3, <1>4
<1>6. IsBelow(x, k) /\ ~IsBelow(k, x) /\ k # x
  BY <1>3, <1>4, <1>5, BelowIs
<1>7. ASSUME NEW j \in Dirs, NEW d \in Dirs, Above[j] = x, IsBelow(k, d), IsBelow(j, d)
      PROVE  j = k
  <2>1. Path[j] = Append(Path[x], j)
    BY <1>1, <1>7, PathDef
  <2>2. Len(Path[j]) = Len(Path[x]) + 1
    BY <1>2, <2>1, AppendProperties
  <2> QED
    BY <1>4, <1>7, <2>2, BelowFacts
<1> QED
  BY <1>4, <1>6, <1>7

-----------------------------------------------------------------------------
(* What fuse collects                                                      *)

\* The directories and the indexes have their types.
IndexType ==
  /\ there \subseteq Dirs
  /\ atom \in [Dirs -> [Dirs -> Entry] \cup {None}] /\ split \in [Dirs -> Entry \cup {Bad}]

\* Among sets of directories there is one that has none of them less one element.
LEMMA Smallest ==
  ASSUME NEW D \in SUBSET Dirs, NEW U \in SUBSET (SUBSET D), U # {}
  PROVE  \E s \in U : \A k \in s : s \ {k} \notin U
<1> DEFINE T == {Cardinality(s) : s \in U}
<1>1. \A s \in U : IsFiniteSet(s)
  BY TreeAssumption, FS_Subset
<1>2. T \in SUBSET Nat /\ T # {}
  BY <1>1, FS_CardinalityType
<1>3. PICK n \in T : \A m \in T : n <= m
  <2> HIDE DEF T
  <2> QED
    BY <1>2, Least
<1>4. PICK s \in U : n = Cardinality(s)
  BY <1>3
<1>5. ASSUME NEW k \in s, s \ {k} \in U PROVE FALSE
  <2>1. Cardinality(s \ {k}) = n - 1 /\ n \in Nat
    BY <1>1, <1>4, FS_RemoveElement, FS_CardinalityType
  <2>2. n <= n - 1
    BY <1>3, <1>5, <2>1
  <2> QED
    BY <2>1, <2>2
<1> QED
  BY <1>5

\* r has what was found in the directories of s
Holds(r, s, found) ==
  /\ r \in [Dirs -> Entry]
  /\ \A y \in Dirs :
       /\ \A k \in s : found[k][y] # None => r[y] = found[k][y]
       /\ (\A k \in s : found[k][y] = None) => r[y] = None

\* If no entry is found twice, SavedAll has what was found, whatever the order.
LEMMA SavedAllHolds ==
  ASSUME NEW D \in SUBSET Dirs, NEW found \in [D -> [Dirs -> Entry]],
         \A y \in Dirs : \A j, k \in D : found[j][y] # None /\ found[k][y] # None => j = k
  PROVE  Holds(SavedAll(D, found), D, found)
<1> DEFINE
  pick(s) == CHOOSE k \in s : TRUE
  Eq(f) == f = [s \in SUBSET D |->
                  IF s = {} THEN NoEntries ELSE SavedOver(f[s \ {pick(s)}], found[pick(s)])]
  has(s, y) == {k \in s : found[k][y] # None}
  all(s) == [y \in Dirs |-> IF has(s, y) = {} THEN None ELSE found[pick(has(s, y))][y]]
  iter == CHOOSE f : Eq(f)
<1>1. ASSUME NEW s \in SUBSET D PROVE Holds(all(s), s, found)
  <2>1. ASSUME NEW y \in Dirs
        PROVE  /\ all(s)[y] \in Entry
               /\ \A k \in s : found[k][y] # None => all(s)[y] = found[k][y]
               /\ (\A k \in s : found[k][y] = None) => all(s)[y] = None
    <3>1. CASE has(s, y) = {}
      BY <3>1 DEF Entry
    <3>2. CASE has(s, y) # {}
      <4>1. pick(has(s, y)) \in has(s, y)
        BY <3>2
      <4>2. all(s)[y] = found[pick(has(s, y))][y]
        BY <3>2
      <4> HIDE DEF pick, all
      <4> QED
        BY <4>1, <4>2
    <3> QED
      BY <3>1, <3>2
  <2>2. all(s) = [y \in Dirs |-> all(s)[y]]
    OBVIOUS
  <2> HIDE DEF all
  <2>3. all(s) \in [Dirs -> Entry]
    BY <2>1, <2>2
  <2> QED
    BY <2>1, <2>3 DEF Holds
<1>2. ASSUME NEW s \in SUBSET D, NEW r, NEW q, Holds(r, s, found), Holds(q, s, found) PROVE r = q
  <2>1. \A y \in Dirs : r[y] = q[y]
    BY <1>2 DEF Holds
  <2> QED
    BY <1>2, <2>1 DEF Holds
<1>3. ASSUME NEW s \in SUBSET D, NEW k \in s, NEW r, Holds(r, s \ {k}, found)
      PROVE  Holds(SavedOver(r, found[k]), s, found)
  <2> DEFINE q == SavedOver(r, found[k])
  <2>1. \A y \in Dirs : q[y] = IF found[k][y] # None THEN found[k][y] ELSE r[y]
    BY DEF SavedOver
  <2>2. q \in [Dirs -> Entry]
    BY <1>3 DEF SavedOver, Holds
  <2> HIDE DEF q
  <2>3. ASSUME NEW y \in Dirs, NEW j \in s, found[j][y] # None PROVE q[y] = found[j][y]
    <3>1. CASE j = k
      BY <2>1, <2>3, <3>1
    <3>2. CASE j # k
      <4>1. found[k][y] = None
        BY <2>3, <3>2
      <4> QED
        BY <1>3, <2>1, <2>3, <3>2, <4>1 DEF Holds
    <3> QED
      BY <3>1, <3>2
  <2>4. ASSUME NEW y \in Dirs, \A j \in s : found[j][y] = None PROVE q[y] = None
    BY <1>3, <2>1, <2>4 DEF Holds
  <2> QED
    BY <2>2, <2>3, <2>4 DEF Holds, q
<1>4. ASSUME NEW s \in SUBSET D, s # {} PROVE pick(s) \in s
  BY <1>4
<1> HIDE DEF all, pick
<1>5. all({}) = NoEntries
  BY <1>1 DEF Holds, NoEntries
<1>6. ASSUME NEW s \in SUBSET D, s # {}
      PROVE  all(s) = SavedOver(all(s \ {pick(s)}), found[pick(s)])
  <2>1. Holds(all(s \ {pick(s)}), s \ {pick(s)}, found)
    BY <1>1
  <2>2. Holds(SavedOver(all(s \ {pick(s)}), found[pick(s)]), s, found)
    BY <1>3, <1>4, <1>6, <2>1
  <2> QED
    BY <1>1, <1>2, <2>2
<1> DEFINE g == [s \in SUBSET D |-> all(s)]
<1>7. Eq(g)
  <2>1. ASSUME NEW s \in SUBSET D
        PROVE  all(s) = IF s = {} THEN NoEntries ELSE SavedOver(g[s \ {pick(s)}], found[pick(s)])
    <3>1. g[s \ {pick(s)}] = all(s \ {pick(s)})
      OBVIOUS
    <3> HIDE DEF g
    <3> QED
      BY <1>5, <1>6, <3>1
  <2> QED
    BY <2>1
<1> HIDE DEF g
<1>8. Eq(iter)
  BY <1>7
<1> HIDE DEF iter
<1>9. \A s \in SUBSET D : Holds(iter[s], s, found)
  <2> DEFINE U == {s \in SUBSET D : ~Holds(iter[s], s, found)}
  <2>1. SUFFICES ASSUME U # {} PROVE FALSE
    OBVIOUS
  <2>2. PICK s \in U : \A k \in s : s \ {k} \notin U
    <3>1. U \in SUBSET (SUBSET D)
      OBVIOUS
    <3> HIDE DEF U
    <3> QED
      BY <2>1, <3>1, Smallest
  <2>3. s # {}
    <3>1. iter[{}] = NoEntries
      BY <1>8
    <3> QED
      BY <1>1, <1>5, <2>2, <3>1
  <2>4. Holds(iter[s \ {pick(s)}], s \ {pick(s)}, found)
    BY <1>4, <2>2, <2>3
  <2>5. iter[s] = SavedOver(iter[s \ {pick(s)}], found[pick(s)])
    BY <1>8, <2>2, <2>3
  <2> QED
    BY <1>3, <1>4, <2>2, <2>3, <2>4, <2>5
<1>10. SavedAll(D, found) = iter[D]
  BY DEF SavedAll, FoldSet, MapThenFoldSet, iter, pick
<1> QED
  BY <1>9, <1>10

\* Fuse comes from x to k; where it finds an entry of y then; what it takes: the entry
\* of the index that lies deepest.
Reaches(x, k) ==
  k \in there /\ \A z \in Dirs : IsBelow(x, z) /\ IsBelow(z, k) /\ z # k => CanRead(z)
Sources(x, y) ==
  {k \in Dirs : k # x /\ IsBelow(x, k) /\ IsBelow(k, y) /\ Reaches(x, k) /\ IndexIn(k)[y] # None}
IsDeepest(e, T) == e \in T /\ \A k \in T : Len(Path[k]) <= Len(Path[e])
Deepest(T) == CHOOSE e \in T : IsDeepest(e, T)
Collected(x) ==
  [y \in Dirs |-> IF Sources(x, y) = {} THEN None ELSE IndexIn(Deepest(Sources(x, y)))[y]]

\* Of the directories that lead to y one is the deepest.
LEMMA DeepestIs ==
  ASSUME NEW y \in Dirs, NEW T \in SUBSET Dirs, T # {}, \A k \in T : IsBelow(k, y)
  PROVE  /\ IsDeepest(Deepest(T), T)
         /\ \A e \in T : IsDeepest(e, T) => e = Deepest(T)
<1> DEFINE N == {Len(Path[y]) - Len(Path[k]) : k \in T}
<1>1. \A k \in T : Len(Path[k]) \in Nat /\ Len(Path[k]) <= Len(Path[y]) /\ Len(Path[y]) \in Nat
  BY BelowIs, PathFacts
<1>2. N \in SUBSET Nat /\ N # {}
  <2>1. \A k \in T : Len(Path[y]) - Len(Path[k]) \in Nat
    BY <1>1
  <2> QED
    BY <2>1
<1>3. PICK n \in N : \A m \in N : n <= m
  <2> HIDE DEF N
  <2> QED
    BY <1>2, Least
<1>4. PICK e \in T : n = Len(Path[y]) - Len(Path[e])
  BY <1>3
<1>5. IsDeepest(e, T)
  <2>1. ASSUME NEW k \in T PROVE Len(Path[k]) <= Len(Path[e])
    <3>1. n <= Len(Path[y]) - Len(Path[k])
      BY <1>3
    <3> QED
      BY <1>1, <1>4, <3>1
  <2> QED
    BY <2>1 DEF IsDeepest
<1>6. IsDeepest(Deepest(T), T)
  BY <1>5 DEF Deepest
<1>7. ASSUME NEW k \in T, IsDeepest(k, T) PROVE k = Deepest(T)
  <2>1. /\ Len(Path[k]) <= Len(Path[Deepest(T)]) /\ Len(Path[Deepest(T)]) <= Len(Path[k])
        /\ Deepest(T) \in T
    BY <1>6, <1>7 DEF IsDeepest
  <2>2. Len(Path[k]) = Len(Path[Deepest(T)])
    BY <1>1, <2>1
  <2> QED
    BY <2>1, <2>2, BelowFacts
<1> QED
  BY <1>6, <1>7

\* An index in a directory has entries of what is below it.
LEMMA IndexInFacts ==
  ASSUME IndexType, NEW k \in Dirs
  PROVE  IndexIn(k) \in [Dirs -> Entry] /\ \A y \in Dirs : IndexIn(k)[y] # None => IsBelow(k, y)
<1>1. None \in Entry /\ (atom[k] # None => atom[k] \in [Dirs -> Entry])
      /\ (split[k] # Bad => split[k] \in Entry)
  BY DEF IndexType, Entry
<1>2. IsBelow(k, k)
  BY BelowFacts
<1> QED
  BY <1>1, <1>2 DEF IndexIn

\* What is collected below x is what lies in a directory in it, and below that.
LEMMA SourcesOfKid ==
  ASSUME IndexType, NEW x \in Dirs, CanRead(x), NEW k \in Kids(x), NEW y \in Dirs, IsBelow(k, y)
  PROVE  Sources(x, y) = Sources(k, y) \cup (IF IndexIn(k)[y] # None THEN {k} ELSE {})
<1>1. k \in there /\ Above[k] = x /\ k \in Dirs
  BY DEF Kids, IndexType
<1>2. IsBelow(x, k) /\ k # x /\ ~IsBelow(k, x)
  BY <1>1, KidFacts
<1>3. ASSUME NEW e \in Dirs, IsBelow(k, e)
      PROVE  Reaches(x, e) <=> e = k \/ Reaches(k, e)
  <2>1. ASSUME NEW z \in Dirs, IsBelow(x, z), IsBelow(z, e), z # x PROVE IsBelow(k, z)
    <3>1. PICK j \in Dirs : Above[j] = x /\ IsBelow(j, z)
      BY <2>1, BelowStep
    <3>2. IsBelow(j, e)
      BY <2>1, <3>1, BelowFacts
    <3>3. j = k
      BY <1>1, <1>3, <3>1, <3>2, KidFacts
    <3> QED
      BY <3>1, <3>3
  <2>2. \A z \in Dirs : IsBelow(k, z) => IsBelow(x, z)
    BY <1>1, <1>2, BelowFacts
  <2>3. ASSUME NEW z \in Dirs, IsBelow(z, k), IsBelow(k, z) PROVE z = k
    BY <1>1, <2>3, BelowFacts, BelowIs, PathFacts
  <2>4. ASSUME e = k PROVE Reaches(x, e)
    BY <1>1, <2>1, <2>3, <2>4 DEF Reaches
  <2>5. Reaches(k, e) => Reaches(x, e)
    BY <2>1 DEF Reaches
  <2>6. Reaches(x, e) => Reaches(k, e)
    BY <2>2 DEF Reaches
  <2> QED
    BY <2>4, <2>5, <2>6
<1>4. ASSUME NEW e \in Sources(x, y) PROVE IsBelow(k, e)
  <2>1. e # x /\ IsBelow(x, e) /\ IsBelow(e, y) /\ e \in Dirs
    BY DEF Sources
  <2>2. PICK j \in Dirs : Above[j] = x /\ IsBelow(j, e)
    BY <2>1, BelowStep
  <2>3. IsBelow(j, y)
    BY <2>1, <2>2, BelowFacts
  <2>4. j = k
    BY <1>1, <2>2, <2>3, KidFacts
  <2> QED
    BY <2>2, <2>4
<1>5. ASSUME NEW e \in Sources(x, y)
      PROVE  e \in Sources(k, y) \/ (e = k /\ IndexIn(k)[y] # None)
  BY <1>3, <1>4 DEF Sources
<1>6. ASSUME NEW e \in Sources(k, y) PROVE e \in Sources(x, y)
  <2>1. IsBelow(x, e) /\ e # x
    BY <1>1, <1>2, BelowFacts DEF Sources
  <2> QED
    BY <1>3, <2>1 DEF Sources
<1>7. IndexIn(k)[y] # None => k \in Sources(x, y)
  <2>1. IsBelow(k, k)
    BY <1>1, BelowFacts
  <2> QED
    BY <1>1, <1>2, <1>3, <2>1 DEF Sources
<1> QED
  BY <1>5, <1>6, <1>7

\* Where no directory in x leads to y nothing is collected of y.
LEMMA NoSources ==
  ASSUME NEW x \in Dirs, NEW y \in Dirs, ~CanRead(x) \/ \A k \in Kids(x) : ~IsBelow(k, y)
  PROVE  Sources(x, y) = {}
<1>1. SUFFICES ASSUME NEW e \in Sources(x, y) PROVE FALSE
  OBVIOUS
<1>2. e # x /\ IsBelow(x, e) /\ IsBelow(e, y) /\ e \in Dirs /\ Reaches(x, e)
  BY DEF Sources
<1>3. CanRead(x)
  <2>1. IsBelow(x, x)
    BY BelowFacts
  <2> QED
    BY <1>2, <2>1 DEF Reaches
<1>4. PICK k \in Dirs : Above[k] = x /\ IsBelow(k, e)
  BY <1>2, BelowStep
<1>5. IsBelow(k, y)
  BY <1>2, <1>4, BelowFacts
<1>6. k \in there
  <2>1. CASE k = e
    BY <1>2, <2>1 DEF Reaches
  <2>2. CASE k # e
    <3>1. CanRead(k)
      BY <1>2, <1>4, <2>2, KidFacts DEF Reaches
    <3> QED
      BY <3>1 DEF CanRead
  <2> QED
    BY <2>1, <2>2
<1> QED
  BY <1>3, <1>4, <1>5, <1>6 DEF Kids

\* Collected has an entry of y where there is a source of it, and that of the deepest.
LEMMA CollectedIs ==
  ASSUME IndexType, NEW x \in Dirs
  PROVE  /\ Collected(x) \in [Dirs -> Entry]
         /\ \A y \in Dirs : Collected(x)[y] # None <=> Sources(x, y) # {}
         /\ \A y \in Dirs : \A e \in Sources(x, y) :
              IsDeepest(e, Sources(x, y)) => Collected(x)[y] = IndexIn(e)[y]
         /\ \A y \in Dirs : Collected(x)[y] # None => IsBelow(x, y)
<1>1. ASSUME NEW y \in Dirs, Sources(x, y) # {}
      PROVE  /\ Deepest(Sources(x, y)) \in Sources(x, y)
             /\ \A e \in Sources(x, y) :
                  IsDeepest(e, Sources(x, y)) => e = Deepest(Sources(x, y))
  <2>1. Sources(x, y) \in SUBSET Dirs /\ \A k \in Sources(x, y) : IsBelow(k, y)
    BY DEF Sources
  <2> QED
    BY <1>1, <2>1, DeepestIs DEF IsDeepest
<1>2. ASSUME NEW y \in Dirs, NEW e \in Sources(x, y)
      PROVE  IndexIn(e)[y] \in Entry /\ IndexIn(e)[y] # None
  <2>1. e \in Dirs /\ IndexIn(e)[y] # None
    BY DEF Sources
  <2> QED
    BY <2>1, IndexInFacts
<1>3. \A y \in Dirs : Collected(x)[y] =
        IF Sources(x, y) = {} THEN None ELSE IndexIn(Deepest(Sources(x, y)))[y]
  BY DEF Collected
<1>4. \A y \in Dirs : Collected(x)[y] \in Entry
  BY <1>1, <1>2, <1>3 DEF Entry
<1>5. Collected(x) \in [Dirs -> Entry]
  BY <1>4 DEF Collected
<1>6. \A y \in Dirs : Collected(x)[y] # None <=> Sources(x, y) # {}
  BY <1>1, <1>2, <1>3
<1>7. \A y \in Dirs : \A e \in Sources(x, y) :
        IsDeepest(e, Sources(x, y)) => Collected(x)[y] = IndexIn(e)[y]
  BY <1>1, <1>3
<1>8. ASSUME NEW y \in Dirs, Sources(x, y) # {} PROVE IsBelow(x, y)
  <2>1. PICK e \in Dirs : IsBelow(x, e) /\ IsBelow(e, y)
    BY <1>8 DEF Sources
  <2> QED
    BY <2>1, BelowFacts
<1> QED
  BY <1>5, <1>6, <1>7, <1>8

\* Collected is what fuseScanDir makes of the directories in x and what is below them.
LEMMA CollectedStep ==
  ASSUME IndexType, NEW x \in Dirs
  PROVE  Collected(x) =
           IF ~CanRead(x) THEN NoEntries
           ELSE SavedAll(Kids(x), [k \in Kids(x) |-> SavedOver(IndexIn(k), Collected(k))])
<1>1. ASSUME ~CanRead(x) PROVE Collected(x) = NoEntries
  <2>1. \A y \in Dirs : Sources(x, y) = {}
    BY <1>1, NoSources
  <2> QED
    BY <2>1 DEF Collected, NoEntries
<1>2. ASSUME CanRead(x)
      PROVE  Collected(x) =
               SavedAll(Kids(x), [k \in Kids(x) |-> SavedOver(IndexIn(k), Collected(k))])
  <2> DEFINE D == Kids(x)
             found == [k \in D |-> SavedOver(IndexIn(k), Collected(k))]
             r == SavedAll(D, found)
  <2>1. D \in SUBSET Dirs /\ \A k \in D : Above[k] = x
    BY DEF Kids, IndexType
  <2>2. ASSUME NEW k \in D, NEW y \in Dirs
        PROVE  found[k][y] = IF Collected(k)[y] # None THEN Collected(k)[y] ELSE IndexIn(k)[y]
    BY DEF SavedOver
  <2>3. \A k \in D : found[k] \in [Dirs -> Entry]
    <3>1. ASSUME NEW k \in D PROVE SavedOver(IndexIn(k), Collected(k)) \in [Dirs -> Entry]
      <4>1. IndexIn(k) \in [Dirs -> Entry] /\ Collected(k) \in [Dirs -> Entry]
        BY <2>1, IndexInFacts, CollectedIs
      <4> QED
        BY <4>1 DEF SavedOver
    <3> QED
      BY <3>1
  <2>4. found \in [D -> [Dirs -> Entry]]
    BY <2>3
  <2> HIDE DEF found, D
  <2>5. ASSUME NEW k \in D, NEW y \in Dirs, found[k][y] # None PROVE IsBelow(k, y)
    BY <2>1, <2>2, <2>5, IndexInFacts, CollectedIs
  <2>6. \A y \in Dirs : \A j, k \in D : found[j][y] # None /\ found[k][y] # None => j = k
    BY <2>1, <2>5, KidFacts
  <2>7. Holds(r, D, found)
    BY <2>1, <2>4, <2>6, SavedAllHolds
  <2> HIDE DEF r
  <2>8. ASSUME NEW k \in D, NEW y \in Dirs, IsBelow(k, y) PROVE found[k][y] = Collected(x)[y]
    <3>1. Sources(x, y) = Sources(k, y) \cup (IF IndexIn(k)[y] # None THEN {k} ELSE {})
      BY <1>2, <2>8, SourcesOfKid DEF D
    <3>2. CASE Sources(k, y) # {}
      <4> DEFINE e == Deepest(Sources(k, y))
      <4>1. Sources(k, y) \in SUBSET Dirs /\ \A j \in Sources(k, y) : IsBelow(j, y)
        BY DEF Sources
      <4>2. IsDeepest(e, Sources(k, y))
        BY <3>2, <4>1, DeepestIs
      <4> HIDE DEF e
      <4>3. e \in Sources(k, y) /\ IsBelow(k, e) /\ e \in Dirs
        BY <4>2 DEF IsDeepest, Sources
      <4>4. Len(Path[k]) <= Len(Path[e])
        BY <2>1, <4>3, BelowIs
      <4>5. IsDeepest(e, Sources(x, y))
        BY <3>1, <4>2, <4>4 DEF IsDeepest
      <4>6. Collected(k)[y] = IndexIn(e)[y] /\ Collected(k)[y] # None
        BY <2>1, <3>2, <4>2, <4>3, CollectedIs
      <4>7. Collected(x)[y] = IndexIn(e)[y]
        BY <4>5, CollectedIs DEF IsDeepest
      <4> QED
        BY <2>2, <4>6, <4>7
    <3>3. CASE Sources(k, y) = {}
      <4>1. Collected(k)[y] = None
        BY <2>1, <3>3, CollectedIs
      <4>2. CASE IndexIn(k)[y] = None
        BY <2>2, <3>1, <3>3, <4>1, <4>2, CollectedIs
      <4>3. CASE IndexIn(k)[y] # None
        <5>1. Sources(x, y) = {k}
          BY <3>1, <3>3, <4>3
        <5>2. Len(Path[k]) \in Nat
          BY <2>1, PathFacts
        <5>3. IsDeepest(k, Sources(x, y))
          BY <5>1, <5>2 DEF IsDeepest
        <5>4. Collected(x)[y] = IndexIn(k)[y]
          BY <5>1, <5>3, CollectedIs
        <5> QED
          BY <2>2, <4>1, <5>4
      <4> QED
        BY <4>2, <4>3
    <3> QED
      BY <3>2, <3>3
  <2>9. ASSUME NEW y \in Dirs PROVE Collected(x)[y] = r[y]
    <3>1. CASE \E k \in D : found[k][y] # None
      <4>1. PICK k \in D : found[k][y] # None
        BY <3>1
      <4>2. r[y] = found[k][y]
        BY <2>7, <4>1 DEF Holds
      <4> QED
        BY <2>5, <2>8, <4>1, <4>2
    <3>2. CASE \A k \in D : found[k][y] = None
      <4>1. r[y] = None
        BY <2>7, <3>2 DEF Holds
      <4>2. CASE \E k \in D : IsBelow(k, y)
        BY <2>8, <3>2, <4>1, <4>2
      <4>3. CASE \A k \in D : ~IsBelow(k, y)
        <5>1. Sources(x, y) = {}
          BY <4>3, NoSources DEF D
        <5> QED
          BY <4>1, <5>1, CollectedIs
      <4> QED
        BY <4>2, <4>3
    <3> QED
      BY <3>1, <3>2
  <2>10. Collected(x) \in [Dirs -> Entry] /\ r \in [Dirs -> Entry]
    BY <2>7, CollectedIs DEF Holds
  <2>11. Collected(x) = r
    BY <2>9, <2>10
  <2> QED
    BY <2>11 DEF r, found, D
<1> QED
  BY <1>1, <1>2

\* The recursion of fuseScanDir has one solution, and it is Collected.
LEMMA FusedIs ==
  ASSUME IndexType, NEW d \in Dirs
  PROVE  Fused(d) = Collected(d)
<1> DEFINE
  Eq(f) == f = [x \in Dirs |->
                  IF ~CanRead(x) THEN NoEntries
                  ELSE SavedAll(Kids(x), [k \in Kids(x) |-> SavedOver(IndexIn(k), f[k])])]
  scan == CHOOSE f : Eq(f)
  c == [x \in Dirs |-> Collected(x)]
<1>1. \A x \in Dirs : Kids(x) \subseteq Dirs /\ \A k \in Dirs : k \in Kids(x) => Above[k] = x
  BY DEF Kids, IndexType
<1>2. Eq(c)
  <2>1. ASSUME NEW x \in Dirs
        PROVE  Collected(x) =
                 IF ~CanRead(x) THEN NoEntries
                 ELSE SavedAll(Kids(x), [k \in Kids(x) |-> SavedOver(IndexIn(k), c[k])])
    <3>1. [k \in Kids(x) |-> SavedOver(IndexIn(k), c[k])]
            = [k \in Kids(x) |-> SavedOver(IndexIn(k), Collected(k))]
      <4>1. \A k \in Kids(x) : c[k] = Collected(k)
        BY <1>1
      <4> HIDE DEF c
      <4> QED
        BY <4>1
    <3> HIDE DEF c
    <3> QED
      BY <3>1, CollectedStep
  <2> QED
    BY <2>1
<1> HIDE DEF c
<1>3. Eq(scan)
  BY <1>2
<1> HIDE DEF scan
<1> DEFINE S == {x \in Dirs : scan[x] = Collected(x)}
<1>4. ASSUME NEW x \in Dirs, \A k \in Dirs : Above[k] = x => k \in S PROVE x \in S
  <2>1. [k \in Kids(x) |-> SavedOver(IndexIn(k), scan[k])]
          = [k \in Kids(x) |-> SavedOver(IndexIn(k), Collected(k))]
    <3>1. \A k \in Kids(x) : scan[k] = Collected(k)
      BY <1>1, <1>4
    <3> QED
      BY <3>1
  <2>2. scan[x] = IF ~CanRead(x) THEN NoEntries
                  ELSE SavedAll(Kids(x), [k \in Kids(x) |-> SavedOver(IndexIn(k), scan[k])])
    BY <1>3
  <2>3. scan[x] = Collected(x)
    BY <2>1, <2>2, CollectedStep
  <2> QED
    BY <2>3
<1>5. S \in SUBSET Dirs
  OBVIOUS
<1> HIDE DEF S
<1>6. d \in S
  BY <1>4, <1>5, BottomUp
<1>7. Fused(d) = scan[d]
  BY DEF Fused, scan
<1> QED
  BY <1>6, <1>7 DEF S

-----------------------------------------------------------------------------
(* Where the index is                                                      *)

\* whether LocateIndex stops at d, and what it then returns
HasIndex(d) == atom[d] # None \/ split[d] # None
Own(d) == [mode |-> IF atom[d] # None THEN "atom" ELSE "split", at |-> d]

\* LocateIndex looks in the directory, then above it.
LEMMA LocateDef ==
  ASSUME NEW d \in Dirs
  PROVE  /\ HasIndex(d) => Locate[d] = Own(d)
         /\ ~HasIndex(d) /\ Above[d] = None => Locate[d] = NoIndex
         /\ ~HasIndex(d) /\ Above[d] # None => Locate[d] = Locate[Above[d]]
<1> DEFINE
  V == {NoIndex} \cup {Own(e) : e \in Dirs}
  base == [e \in Dirs |-> IF HasIndex(e) THEN Own(e) ELSE NoIndex]
  step == [ev \in Dirs \X V |-> IF HasIndex(ev[1]) THEN Own(ev[1]) ELSE ev[2]]
  Eq(f) == f = [e \in Dirs |->
     CASE atom[e] # None -> [mode |-> "atom", at |-> e]
       [] atom[e] = None /\ split[e] # None -> [mode |-> "split", at |-> e]
       [] atom[e] = None /\ split[e] = None ->
            IF Above[e] = None THEN NoIndex ELSE f[Above[e]]]
<1>1. base \in [Dirs -> V] /\ step \in [Dirs \X V -> V]
  OBVIOUS
<1>2. PICK p \in [Dirs -> V] : Unfolds(p, base, step)
  <2> HIDE DEF V, base, step
  <2> QED
    BY <1>1, TreeRecursion
<1>3. ASSUME NEW e \in Dirs
      PROVE  p[e] = CASE atom[e] # None -> [mode |-> "atom", at |-> e]
                      [] atom[e] = None /\ split[e] # None -> [mode |-> "split", at |-> e]
                      [] atom[e] = None /\ split[e] = None ->
                           IF Above[e] = None THEN NoIndex ELSE p[Above[e]]
  <2>1. Above[e] # None => Above[e] \in Dirs
    BY TreeAssumption
  <2>2. step[<<e, p[Above[e]]>>] = (IF HasIndex(e) THEN Own(e) ELSE p[Above[e]]) \/ Above[e] = None
    BY <1>2, <2>1
  <2>3. base[e] = IF HasIndex(e) THEN Own(e) ELSE NoIndex
    OBVIOUS
  <2> HIDE DEF base, step
  <2>4. /\ Above[e] = None => p[e] = base[e]
        /\ Above[e] # None => p[e] = step[<<e, p[Above[e]]>>]
    BY <1>2 DEF Unfolds
  <2>5. p[e] = IF HasIndex(e) THEN Own(e) ELSE IF Above[e] = None THEN NoIndex ELSE p[Above[e]]
    BY <2>2, <2>3, <2>4
  <2>6. CASE atom[e] # None
    BY <2>5, <2>6 DEF HasIndex, Own
  <2>7. CASE atom[e] = None /\ split[e] # None
    BY <2>5, <2>7 DEF HasIndex, Own
  <2>8. CASE atom[e] = None /\ split[e] = None
    BY <2>5, <2>8 DEF HasIndex, Own
  <2> QED
    BY <2>6, <2>7, <2>8
<1>4. Eq(Locate)
  <2>1. Eq(p)
    BY <1>3
  <2> QED
    BY <2>1 DEF Locate
<1>5. CASE atom[d] # None
  BY <1>4, <1>5 DEF HasIndex, Own
<1>6. CASE atom[d] = None /\ split[d] # None
  BY <1>4, <1>6 DEF HasIndex, Own
<1>7. CASE atom[d] = None /\ split[d] = None
  BY <1>4, <1>7 DEF HasIndex, Own
<1> QED
  BY <1>5, <1>6, <1>7

\* What is located is the nearest index at or above the directory.
LEMMA LocateFacts ==
  ASSUME NEW d \in Dirs
  PROVE  \/ Locate[d] = NoIndex
         \/ \E e \in Dirs :
              /\ Locate[d] = Own(e) /\ HasIndex(e) /\ IsBelow(e, d)
              /\ \A k \in Dirs : IsBelow(k, d) /\ Len(Path[k]) > Len(Path[e]) => ~HasIndex(k)
<1> DEFINE
  Nearest(c, e) ==
    /\ Locate[c] = Own(e) /\ HasIndex(e) /\ IsBelow(e, c)
    /\ \A k \in Dirs : IsBelow(k, c) /\ Len(Path[k]) > Len(Path[e]) => ~HasIndex(k)
  Right(c) == Locate[c] = NoIndex \/ \E e \in Dirs : Nearest(c, e)
  S == {c \in Dirs : Right(c)}
<1>1. ASSUME NEW c \in Dirs, Above[c] = None \/ Above[c] \in S PROVE Right(c)
  <2>1. CASE HasIndex(c)
    <3>1. Nearest(c, c)
      <4>1. Locate[c] = Own(c) /\ IsBelow(c, c)
        BY <2>1, LocateDef, BelowFacts
      <4>2. ASSUME NEW k \in Dirs, IsBelow(k, c), Len(Path[k]) > Len(Path[c]) PROVE FALSE
        BY <4>2, BelowIs, PathFacts
      <4> QED
        BY <2>1, <4>1, <4>2
    <3> QED
      BY <3>1
  <2>2. CASE ~HasIndex(c) /\ Above[c] = None
    BY <2>2, LocateDef
  <2>3. CASE ~HasIndex(c) /\ Above[c] # None
    <3>1. Locate[c] = Locate[Above[c]] /\ Above[c] \in S /\ Above[c] \in Dirs
      BY <1>1, <2>3, LocateDef
    <3>2. CASE Locate[Above[c]] = NoIndex
      BY <3>1, <3>2
    <3>3. CASE Locate[Above[c]] # NoIndex
      <4>1. PICK e \in Dirs : Nearest(Above[c], e)
        BY <3>1, <3>3
      <4>2. IsBelow(Above[c], c) /\ IsBelow(e, c)
        BY <3>1, <4>1, KidFacts, BelowFacts
      <4>3. ASSUME NEW k \in Dirs, IsBelow(k, c), Len(Path[k]) > Len(Path[e]) PROVE ~HasIndex(k)
        <5>1. CASE k = c
          BY <2>3, <5>1
        <5>2. CASE k # c
          <6>1. IsBelow(k, Above[c])
            BY <4>3, <5>2, BelowStep
          <6> QED
            BY <4>1, <4>3, <6>1
        <5> QED
          BY <5>1, <5>2
      <4>4. Nearest(c, e)
        BY <3>1, <4>1, <4>2, <4>3
      <4> QED
        BY <4>4
    <3> QED
      BY <3>2, <3>3
  <2> QED
    BY <2>1, <2>2, <2>3
<1>2. S \in SUBSET Dirs /\ \A c \in Dirs : Above[c] = None \/ Above[c] \in S => c \in S
  BY <1>1
<1> HIDE DEF S
<1>3. d \in S
  BY <1>2, TopDown
<1> QED
  BY <1>3 DEF S

\* A located index is there.
LEMMA LocatedIndex ==
  ASSUME NEW d \in Dirs, NEW index, index = Locate[d]
  PROVE  /\ index \in [mode : {"atom", "split", None}, at : Dirs \cup {None}]
         /\ index # NoIndex =>
              /\ index.at \in Dirs /\ IsBelow(index.at, d) /\ index.mode \in {"atom", "split"}
              /\ index = [mode |-> index.mode, at |-> index.at]
              /\ index.mode = "atom" => atom[index.at] # None
<1>1. CASE index = NoIndex
  BY <1>1 DEF NoIndex
<1>2. CASE index # NoIndex
  <2>1. PICK e \in Dirs : index = Own(e) /\ HasIndex(e) /\ IsBelow(e, d)
    BY <1>2, LocateFacts
  <2> QED
    BY <2>1 DEF Own, HasIndex
<1> QED
  BY <1>1, <1>2

-----------------------------------------------------------------------------
(* Types                                                                   *)

\* What a command line is, by its kind.
LEMMA CommandFacts ==
  ASSUME NEW cmd \in Commands
  PROVE  /\ cmd.kind \in {"check", "update"} =>
              /\ cmd.starts \in Seq(Dirs) /\ cmd.starts # <<>> /\ cmd.starts[1] \in Dirs
              /\ ToSet(cmd.starts) \subseteq Dirs /\ cmd.depth \in Nat /\ cmd.dot \in BOOLEAN
         /\ cmd.kind \in {"atom", "split", "fuse"} => cmd.path \in Dirs /\ cmd.force \in BOOLEAN
<1>1. cmd \in Command
  BY TreeAssumption
<1>2. ASSUME cmd.kind \in {"check", "update"}
      PROVE  /\ cmd.starts \in Seq(Dirs) /\ cmd.starts # <<>> /\ cmd.starts[1] \in Dirs
             /\ ToSet(cmd.starts) \subseteq Dirs /\ cmd.depth \in Nat /\ cmd.dot \in BOOLEAN
  <2>1. cmd \in [kind : {"check", "update"}, starts : Seq(Dirs), depth : Nat, dot : BOOLEAN]
    BY <1>1, <1>2 DEF Command
  <2>2. cmd.starts \in Seq(Dirs) /\ cmd.depth \in Nat /\ cmd.dot \in BOOLEAN
    BY <2>1
  <2>3. "starts" \in DOMAIN cmd
    BY <2>1
  <2>4. cmd.starts # <<>>
    BY <2>3, TreeAssumption
  <2>5. Len(cmd.starts) \in Nat \ {0} /\ DOMAIN cmd.starts = 1..Len(cmd.starts)
    BY <2>2, <2>4, LenProperties, EmptySeq
  <2>6. \A i \in 1..Len(cmd.starts) : cmd.starts[i] \in Dirs
    BY <2>2, ElementOfSeq
  <2> QED
    BY <2>2, <2>4, <2>5, <2>6 DEF ToSet
<1>3. ASSUME cmd.kind \in {"atom", "split", "fuse"} PROVE cmd.path \in Dirs /\ cmd.force \in BOOLEAN
  <2>1. cmd \in [kind : {"atom", "split", "fuse"}, path : Dirs, force : BOOLEAN]
    BY <1>1, <1>3 DEF Command
  <2> QED
    BY <2>1
<1> QED
  BY <1>2, <1>3

\* The version of a directory counts its changes.
TypeInv == TypeOK /\ \A d \in Dirs : version[d] <= 1 + events

\* The types that the proofs need most.
LEMMA TypeFacts ==
  ASSUME TypeInv
  PROVE  /\ IndexType /\ version \in [Dirs -> Version] /\ Version \subseteq Entry /\ None \in Entry
         /\ \A cmd, index : Walked(cmd, index) \subseteq there
BY DEF TypeInv, TypeOK, IndexType, Entry, Walked, CanRead

\* A command that keeps the types of the indexes keeps all of them.
LEMMA EndedType ==
  ASSUME TypeInv, NEW cmd \in Commands, commands < MaxCommands,
         NEW index \in [mode : {"atom", "split", None}, at : Dirs \cup {None}],
         NEW exit \in 0..1, NEW whole \in BOOLEAN,
         NEW walked \in SUBSET there, NEW reported \in SUBSET walked,
         Ended(cmd, index, exit, whole, walked, reported), events' \in events..MaxEvents,
         atom' \in [Dirs -> [Dirs -> Entry] \cup {None}], split' \in [Dirs -> Entry \cup {Bad}]
  PROVE  TypeInv'
<1>1. /\ there' = there /\ unreadable' = unreadable /\ rules' = rules /\ version' = version
      /\ commands' = commands + 1
      /\ last' = [cmd |-> cmd, index |-> index, exit |-> exit, whole |-> whole,
                  walked |-> walked, reported |-> reported]
  BY DEF Ended, tree
<1>2. commands' \in 0..MaxCommands /\ events' \in 0..MaxEvents
  BY <1>1, TreeAssumption DEF TypeInv, TypeOK
<1>3. last' \in Outcome /\ last'.walked = walked /\ last'.reported = reported
  <2>1. walked \in SUBSET Dirs /\ reported \in SUBSET Dirs
    BY DEF TypeInv, TypeOK
  <2> QED
    BY <1>1, <2>1 DEF Outcome
<1>4. TypeOK'
  BY <1>1, <1>2, <1>3 DEF TypeInv, TypeOK
<1>5. ASSUME NEW d \in Dirs PROVE version'[d] <= 1 + events'
  <2>1. version[d] \in Nat /\ version[d] <= 1 + events /\ events \in Nat /\ events' \in Nat
    BY TypeFacts, TreeAssumption DEF TypeInv, TypeOK, Version
  <2> QED
    BY <1>1, <2>1
<1> QED
  BY <1>4, <1>5 DEF TypeInv

\* A command that fails to save nothing takes none of the events.
LEMMA SameEvents ==
  ASSUME TypeInv, events' = events
  PROVE  events' \in events..MaxEvents
BY TreeAssumption DEF TypeInv, TypeOK

\* The saves that fail are of what is saved, and not more than there may be.
LEMMA FailingFacts ==
  ASSUME TypeInv, NEW index, NEW saved, saved \subseteq Dirs,
         NEW failed \in Failing(index, saved), events' = events + Cardinality(failed)
  PROVE  /\ failed \subseteq saved /\ events' \in events..MaxEvents
         /\ index.mode # "split" => failed = {}
<1>1. failed \subseteq saved /\ IsFiniteSet(failed) /\ Cardinality(failed) \in Nat
  BY TreeAssumption, FS_Subset, FS_CardinalityType DEF Failing
<1>2. Cardinality(failed) <= IF index.mode = "split" THEN MaxEvents - events ELSE 0
  BY DEF Failing
<1>3. events \in 0..MaxEvents /\ MaxEvents \in Nat
  BY TreeAssumption DEF TypeInv, TypeOK
<1>4. events' \in events..MaxEvents
  BY <1>1, <1>2, <1>3
<1>5. index.mode # "split" => Cardinality(failed) = 0
  BY <1>1, <1>2
<1> QED
  BY <1>1, <1>4, <1>5, FS_EmptySet

\* What is in last.index where no index was used.
LEMMA NoIndexType == NoIndex \in [mode : {"atom", "split", None}, at : Dirs \cup {None}]
BY DEF NoIndex

\* What an update saves are entries.
LEMMA StoredType ==
  ASSUME TypeInv, NEW at \in Dirs, atom[at] # None, NEW refresh \in BOOLEAN, NEW saved
  PROVE  Stored(at, refresh, saved) \in [Dirs -> Entry]
<1>1. atom[at] \in [Dirs -> Entry]
  BY TypeFacts DEF IndexType
<1>2. \A d \in Dirs : version[d] \in Entry
  BY TypeFacts
<1>3. None \in Entry
  BY TypeFacts
<1> QED
  BY <1>1, <1>2, <1>3 DEF Stored

\* What an update saves in the split indexes are versions, and what it loses is Bad.
LEMMA SavedSplitIs ==
  ASSUME TypeInv, NEW saved, NEW failed \in SUBSET saved, NEW lost \in SUBSET failed,
         SavedSplit(saved, failed, lost)
  PROVE  /\ split' \in [Dirs -> Entry \cup {Bad}]
         /\ \A d \in Dirs : split'[d] # split[d] =>
              d \in saved /\ (split'[d] = version[d] \/ (split'[d] = Bad /\ failed # {}))
         /\ \A d \in Dirs : d \in saved /\ failed = {} => split'[d] = version[d]
         /\ saved = {} => split' = split
<1>1. \A d \in Dirs : version[d] \in Entry /\ split[d] \in Entry \cup {Bad}
  BY TypeFacts DEF IndexType
<1>2. split \in [Dirs -> Entry \cup {Bad}]
  BY TypeFacts DEF IndexType
<1> QED
  BY <1>1, <1>2 DEF SavedSplit

\* The commands keep the types.
LEMMA RefuseType ==
  ASSUME TypeInv, NEW cmd \in Commands, Refuse(cmd)
  PROVE  TypeInv'
<1> DEFINE index == Locate[cmd.starts[1]]
<1>1. cmd.starts[1] \in Dirs /\ commands < MaxCommands
  BY CommandFacts DEF Refuse, Begins
<1>2. index \in [mode : {"atom", "split", None}, at : Dirs \cup {None}]
  BY <1>1, LocatedIndex
<1>3. /\ Ended(cmd, index, 1, FALSE, {}, {}) /\ atom' = atom /\ split' = split
      /\ events' \in events..MaxEvents
  BY SameEvents DEF Refuse, indexes
<1>4. atom' \in [Dirs -> [Dirs -> Entry] \cup {None}] /\ split' \in [Dirs -> Entry \cup {Bad}]
  BY <1>3, TypeFacts DEF IndexType
<1> HIDE DEF index
<1>5. 1 \in 0..1 /\ FALSE \in BOOLEAN /\ {} \in SUBSET there /\ {} \in SUBSET {}
  OBVIOUS
<1> QED
  BY <1>1, <1>2, <1>3, <1>4, <1>5, EndedType

\* A run saves versions, in the index that it located.
LEMMA ProcessType ==
  ASSUME TypeInv, NEW cmd \in Commands, Process(cmd)
  PROVE  TypeInv'
<1> DEFINE
  index == Locate[cmd.starts[1]]
  walked == Walked(cmd, index)
  changed == {d \in walked : Known(index, d) # version[d]}
  refresh == index.mode = "atom" /\ Refreshes(cmd, index.at)
  saved == {d \in walked : cmd.kind = "update" /\ Saves(index, refresh, d)}
<1>1. cmd.starts[1] \in Dirs /\ commands < MaxCommands /\ index # NoIndex
  BY CommandFacts DEF Process, Begins, Accepts
<1>2. PICK finished, failed, lost :
        /\ finished \in BOOLEAN /\ failed \in Failing(index, saved) /\ lost \in SUBSET failed
        /\ Ended(cmd, index,
                 IF finished /\ failed = {} /\ ~Errs(cmd, index, walked) THEN 0 ELSE 1, TRUE,
                 walked, changed)
        /\ events' = events + Cardinality(failed)
        /\ IF index.mode = "split" THEN SavedSplit(saved, failed, lost) /\ UNCHANGED atom
           ELSE /\ atom' = IF finished /\ saved # {}
                  THEN [atom EXCEPT ![index.at] = Stored(index.at, refresh, saved)] ELSE atom
                /\ UNCHANGED split
  BY DEF Process
<1>3. /\ index \in [mode : {"atom", "split", None}, at : Dirs \cup {None}]
      /\ index.at \in Dirs /\ index.mode \in {"atom", "split"}
      /\ index.mode = "atom" => atom[index.at] # None
  BY <1>1, LocatedIndex
<1>4. /\ walked \subseteq there /\ changed \subseteq walked /\ refresh \in BOOLEAN
      /\ saved \subseteq Dirs
  BY TypeFacts DEF TypeInv, TypeOK
<1> HIDE DEF index, walked, changed, refresh, saved
<1>8. failed \subseteq saved /\ events' \in events..MaxEvents
  BY <1>2, <1>4, FailingFacts
<1>5. atom' \in [Dirs -> [Dirs -> Entry] \cup {None}] /\ split' \in [Dirs -> Entry \cup {Bad}]
  <2>1. CASE index.mode = "split"
    BY <1>2, <1>8, <2>1, TypeFacts, SavedSplitIs DEF IndexType
  <2>2. CASE index.mode = "atom"
    <3>1. Stored(index.at, refresh, saved) \in [Dirs -> Entry]
      BY <1>3, <1>4, <2>2, StoredType
    <3>2. atom \in [Dirs -> [Dirs -> Entry] \cup {None}] /\ split \in [Dirs -> Entry \cup {Bad}]
      BY TypeFacts DEF IndexType
    <3> QED
      BY <1>2, <2>2, <3>1, <3>2
  <2> QED
    BY <1>3, <2>1, <2>2
<1> DEFINE exit == IF finished /\ failed = {} /\ ~Errs(cmd, index, walked) THEN 0 ELSE 1
<1>6. exit \in 0..1
  OBVIOUS
<1>7. Ended(cmd, index, exit, TRUE, walked, changed)
  BY <1>2
<1> HIDE DEF exit
<1> QED
  BY <1>1, <1>3, <1>4, <1>5, <1>6, <1>7, <1>8, EndedType

\* So does one that is interrupted.
LEMMA InterruptType ==
  ASSUME TypeInv, NEW cmd \in Commands, Interrupt(cmd)
  PROVE  TypeInv'
<1> DEFINE
  index == Locate[cmd.starts[1]]
  walked == Walked(cmd, index)
<1>1. cmd.starts[1] \in Dirs /\ commands < MaxCommands
  BY CommandFacts DEF Interrupt, Begins
<1>2. walked \subseteq there /\ there \subseteq Dirs
  BY TypeFacts DEF TypeInv, TypeOK
<1>3. index \in [mode : {"atom", "split", None}, at : Dirs \cup {None}]
  BY <1>1, LocatedIndex
<1>4. PICK done \in IF index.mode = "split" THEN (SUBSET walked) \ {walked} ELSE {{}} :
        LET saved == {d \in done : Saves(index, FALSE, d)} IN
        \E failed \in Failing(index, saved), exit \in 0..1 : \E lost \in SUBSET failed :
          /\ Ended(cmd, index, exit, FALSE, done, {})
          /\ events' = events + Cardinality(failed)
          /\ SavedSplit(saved, failed, lost) /\ UNCHANGED atom
  BY DEF Interrupt
<1> HIDE DEF index, walked
<1> DEFINE saved == {d \in done : Saves(index, FALSE, d)}
<1>5. PICK failed, exit, lost :
        /\ failed \in Failing(index, saved) /\ exit \in 0..1 /\ lost \in SUBSET failed
        /\ Ended(cmd, index, exit, FALSE, done, {})
        /\ events' = events + Cardinality(failed)
        /\ SavedSplit(saved, failed, lost) /\ UNCHANGED atom
  BY <1>4
<1>6. done \subseteq there /\ saved \subseteq Dirs
  BY <1>2
<1> HIDE DEF saved
<1>7. failed \subseteq saved /\ events' \in events..MaxEvents
  BY <1>5, <1>6, FailingFacts
<1>8. atom' \in [Dirs -> [Dirs -> Entry] \cup {None}] /\ split' \in [Dirs -> Entry \cup {Bad}]
  BY <1>5, <1>7, TypeFacts, SavedSplitIs DEF IndexType
<1> QED
  BY <1>1, <1>3, <1>5, <1>6, <1>7, <1>8, EndedType

\* A new index has no entries.
LEMMA InitIndexType ==
  ASSUME TypeInv, NEW cmd \in Commands, InitIndex(cmd)
  PROVE  TypeInv'
<1>1. /\ commands < MaxCommands /\ Ended(cmd, NoIndex, 0, TRUE, {}, {})
      /\ events' \in events..MaxEvents
  BY SameEvents DEF InitIndex, Begins
<1>2. atom \in [Dirs -> [Dirs -> Entry] \cup {None}] /\ split \in [Dirs -> Entry \cup {Bad}]
  BY TypeFacts DEF IndexType
<1>3. NoEntries \in [Dirs -> Entry] /\ 0 \in Entry
  BY DEF Entry, NoEntries
<1>4. atom' \in [Dirs -> [Dirs -> Entry] \cup {None}] /\ split' \in [Dirs -> Entry \cup {Bad}]
  BY <1>2, <1>3 DEF InitIndex
<1>5. 0 \in 0..1 /\ TRUE \in BOOLEAN /\ {} \in SUBSET there /\ {} \in SUBSET {}
  OBVIOUS
<1> QED
  BY <1>1, <1>4, <1>5, NoIndexType, EndedType

\* Without a new index nothing changes.
LEMMA RefuseInitType ==
  ASSUME TypeInv, NEW cmd \in Commands, RefuseInit(cmd)
  PROVE  TypeInv'
<1>1. /\ commands < MaxCommands /\ Ended(cmd, NoIndex, 1, FALSE, {}, {})
      /\ events' \in events..MaxEvents
  BY SameEvents DEF RefuseInit, Begins
<1>2. atom' \in [Dirs -> [Dirs -> Entry] \cup {None}] /\ split' \in [Dirs -> Entry \cup {Bad}]
  BY TypeFacts DEF IndexType, RefuseInit, indexes
<1>3. 1 \in 0..1 /\ FALSE \in BOOLEAN /\ {} \in SUBSET there /\ {} \in SUBSET {}
  OBVIOUS
<1> QED
  BY <1>1, <1>2, <1>3, NoIndexType, EndedType

\* What fuse collects are entries.
LEMMA FuseType ==
  ASSUME TypeInv, NEW cmd \in Commands, Fuse(cmd)
  PROVE  TypeInv'
<1>1. cmd.path \in Dirs /\ commands < MaxCommands
  BY CommandFacts DEF Fuse, Begins
<1>2. PICK finished \in BOOLEAN :
        /\ atom' = [atom EXCEPT ![cmd.path] = IF finished THEN Fused(cmd.path) ELSE NoEntries]
        /\ Ended(cmd, NoIndex, IF finished THEN 0 ELSE 1, finished, {}, {})
  BY DEF Fuse
<1>3. split' = split /\ events' \in events..MaxEvents
  BY SameEvents DEF Fuse
<1>4. IndexType
  BY TypeFacts
<1>5. Fused(cmd.path) \in [Dirs -> Entry]
  BY <1>1, <1>4, FusedIs, CollectedIs
<1>6. NoEntries \in [Dirs -> Entry]
  BY DEF Entry, NoEntries
<1>7. atom' \in [Dirs -> [Dirs -> Entry] \cup {None}] /\ split' \in [Dirs -> Entry \cup {Bad}]
  BY <1>2, <1>3, <1>4, <1>5, <1>6 DEF IndexType
<1> QED
  BY <1>1, <1>2, <1>3, <1>7, NoIndexType, EndedType

\* A change of the tree keeps the types; it is no command.
LEMMA EventType ==
  ASSUME TypeInv, NEW d \in Dirs, Touch(d) \/ Chmod(d) \/ RemoveDir(d) \/ MakeDir(d) \/ Damage(d)
  PROVE  TypeInv'
<1> USE DEF Happens, indexes, tree
<1>1. /\ there \subseteq Dirs /\ unreadable \subseteq there /\ rules \in RuleBooks
      /\ version \in [Dirs -> Version] /\ \A e \in Dirs : version[e] <= 1 + events
      /\ atom \in [Dirs -> [Dirs -> Entry] \cup {None}] /\ split \in [Dirs -> Entry \cup {Bad}]
      /\ commands \in 0..MaxCommands /\ events \in 0..MaxEvents /\ None \in Entry
      /\ MaxEvents \in Nat
  BY TypeFacts, TreeAssumption DEF TypeInv, TypeOK
<1>2. /\ commands' = commands /\ events < MaxEvents /\ events' = events + 1 /\ last' = None
      /\ events' \in 0..MaxEvents
  BY <1>1 DEF Touch, Chmod, RemoveDir, MakeDir, Damage
<1>3. \A e \in Dirs : version[e] \in 1..1 + MaxEvents /\ version[e] <= 1 + events
  BY <1>1 DEF Version
<1>4. CASE Touch(d)
  <2>1. version[d] + 1 \in 1..1 + MaxEvents /\ version[d] + 1 <= 1 + events'
    BY <1>1, <1>2, <1>3
  <2>2. version' = [version EXCEPT ![d] = version[d] + 1]
    BY <1>4 DEF Touch
  <2>3. version' \in [Dirs -> Version] /\ \A e \in Dirs : version'[e] <= 1 + events'
    <3>1. \A e \in Dirs : version'[e] = IF e = d THEN version[d] + 1 ELSE version[e]
      BY <1>1, <2>2
    <3>2. \A e \in Dirs : version'[e] \in 1..1 + MaxEvents /\ version'[e] <= 1 + events'
      BY <1>1, <1>2, <1>3, <2>1, <3>1
    <3> QED
      BY <1>1, <2>1, <2>2, <3>2 DEF Version
  <2> QED
    BY <1>1, <1>2, <1>4, <2>3 DEF Touch, TypeInv, TypeOK
<1>5. \A e \in Dirs : version[e] <= 1 + events'
  BY <1>1, <1>2, <1>3
<1>6. CASE Chmod(d)
  BY <1>1, <1>2, <1>5, <1>6 DEF Chmod, TypeInv, TypeOK
<1>7. CASE RemoveDir(d)
  <2>1. /\ there' \subseteq Dirs /\ unreadable' \subseteq there'
        /\ atom' \in [Dirs -> [Dirs -> Entry] \cup {None}] /\ split' \in [Dirs -> Entry \cup {Bad}]
    BY <1>1, <1>7 DEF RemoveDir
  <2> QED
    BY <1>1, <1>2, <1>5, <1>7, <2>1 DEF RemoveDir, TypeInv, TypeOK
<1>8. CASE MakeDir(d)
  BY <1>1, <1>2, <1>5, <1>8 DEF MakeDir, TypeInv, TypeOK
<1>9. CASE Damage(d)
  BY <1>1, <1>2, <1>5, <1>9 DEF Damage, TypeInv, TypeOK
<1> QED
  BY <1>4, <1>6, <1>7, <1>8, <1>9

\* A change of the ignore files keeps the types.
LEMMA EditIgnoreType ==
  ASSUME TypeInv, EditIgnore
  PROVE  TypeInv'
<1>1. /\ events \in 0..MaxEvents /\ MaxEvents \in Nat
      /\ \A e \in Dirs : version[e] \in 1..1 + MaxEvents /\ version[e] <= 1 + events
  BY TypeFacts, TreeAssumption DEF TypeInv, TypeOK, Version
<1>2. /\ commands' = commands /\ events' = events + 1 /\ last' = None /\ events' \in 0..MaxEvents
      /\ rules' \in RuleBooks /\ there' = there /\ unreadable' = unreadable /\ version' = version
      /\ atom' = atom /\ split' = split
  BY <1>1 DEF EditIgnore, Happens, indexes
<1>3. \A e \in Dirs : version[e] <= 1 + events'
  BY <1>1, <1>2
<1> QED
  BY <1>2, <1>3 DEF TypeInv, TypeOK

\* The types hold at first.
LEMMA TypeInvInit == Init => TypeInv
<1> SUFFICES ASSUME Init PROVE TypeInv
  OBVIOUS
<1>1. MaxEvents \in Nat /\ MaxCommands \in Nat
  BY TreeAssumption
<1>2. NoEntries \in [Dirs -> Entry] /\ 0 \in Entry /\ None \in Entry
  BY DEF Entry, NoEntries
<1>3. 1 \in Version /\ 0 \in 0..MaxEvents /\ 0 \in 0..MaxCommands
  BY <1>1 DEF Version
<1>4. /\ there \subseteq Dirs /\ unreadable = {} /\ rules \in RuleBooks
      /\ atom \in [Dirs -> [Dirs -> Entry] \cup {None}] /\ split \in [Dirs -> Entry \cup {Bad}]
  BY <1>2 DEF Init
<1>5. /\ version = [d \in Dirs |-> 1] /\ last = None /\ commands = 0 /\ events = 0
  BY DEF Init
<1> QED
  BY <1>3, <1>4, <1>5 DEF TypeInv, TypeOK

\* Every step keeps them.
LEMMA TypeInvNext == TypeInv /\ [Next]_vars => TypeInv'
<1> SUFFICES ASSUME TypeInv, [Next]_vars PROVE TypeInv'
  OBVIOUS
<1>1. ASSUME NEW cmd \in Commands,
             \/ Refuse(cmd) \/ Process(cmd) \/ Interrupt(cmd)
             \/ InitIndex(cmd) \/ RefuseInit(cmd) \/ Fuse(cmd)
      PROVE  TypeInv'
  BY <1>1, RefuseType, ProcessType, InterruptType, InitIndexType, RefuseInitType, FuseType
<1>2. ASSUME NEW d \in Dirs, Touch(d) \/ Chmod(d) \/ RemoveDir(d) \/ MakeDir(d) \/ Damage(d)
      PROVE  TypeInv'
  BY <1>2, EventType
<1>3. EditIgnore => TypeInv'
  BY EditIgnoreType
<1>4. UNCHANGED vars => TypeInv'
  BY DEF vars, tree, indexes, TypeInv, TypeOK
<1> QED
  BY <1>1, <1>2, <1>3, <1>4 DEF Next

\* So they hold always.
LEMMA TypeInvariant == Spec => []TypeInv
BY TypeInvInit, TypeInvNext, PTL DEF Spec

\* Directories, versions and indexes keep their types, whatever fuse merges, and a
\* command goes through directories that are there.
THEOREM TypeCorrect == Spec => []TypeOK
<1>1. TypeInv => TypeOK
  BY DEF TypeInv
<1> QED
  BY <1>1, TypeInvariant, PTL

-----------------------------------------------------------------------------
(* What a command does                                                     *)

\* The record of a command is not None.
LEMMA EndedFacts ==
  ASSUME TypeInv, NEW cmd \in Commands,
         NEW index \in [mode : {"atom", "split", None}, at : Dirs \cup {None}],
         NEW exit \in 0..1, NEW whole \in BOOLEAN,
         NEW walked \in SUBSET there, NEW reported \in SUBSET walked,
         Ended(cmd, index, exit, whole, walked, reported)
  PROVE  /\ last' # None /\ last'.cmd = cmd /\ last'.index = index /\ last'.exit = exit
         /\ last'.whole = whole /\ last'.walked = walked /\ last'.reported = reported
         /\ UNCHANGED tree
<1>1. last' = [cmd |-> cmd, index |-> index, exit |-> exit, whole |-> whole,
               walked |-> walked, reported |-> reported]
  BY DEF Ended
<1>2. walked \in SUBSET Dirs /\ reported \in SUBSET Dirs
  BY DEF TypeInv, TypeOK
<1>3. last' \in Outcome
  BY <1>1, <1>2 DEF Outcome
<1>4. last' # None
  BY <1>3, TreeAssumption
<1> QED
  BY <1>1, <1>4 DEF Ended

\* the database is rebuilt; the directories whose entries are saved
Refreshed(cmd, index) == index.mode = "atom" /\ Refreshes(cmd, index.at)
SavedBy(cmd, index) ==
  {d \in Walked(cmd, index) : cmd.kind = "update" /\ Saves(index, Refreshed(cmd, index), d)}

\* the atom index that a run has located is replaced
Replaced(cmd, index) ==
  /\ index.mode = "atom" /\ SavedBy(cmd, index) # {}
  /\ atom' = [atom EXCEPT ![index.at] =
                Stored(index.at, Refreshed(cmd, index), SavedBy(cmd, index))]

\* index was located for cmd
Located(cmd, index) ==
  /\ cmd.kind \in {"check", "update"} /\ index = Locate[cmd.starts[1]] /\ index # NoIndex
  /\ index.at \in Dirs /\ index.mode \in {"atom", "split"}
  /\ index = [mode |-> index.mode, at |-> index.at]
  /\ index.mode = "atom" => atom[index.at] \in [Dirs -> Entry]

\* the command of the step is cmd, it located index, and the tree is the same
Did(cmd, index) ==
  /\ last' # None /\ last'.cmd = cmd /\ last'.index = index /\ UNCHANGED tree

\* of the split indexes only those of saved change: to the version of the directory,
\* or to what does not parse, with an error
WroteSplit(index, saved) ==
  /\ saved = {} => split' = split
  /\ \A d \in Dirs : split'[d] # split[d] =>
       /\ index.mode = "split" /\ d \in saved
       /\ split'[d] = version[d] \/ (split'[d] = Bad /\ last'.exit = 1)

\* what a whole run of cmd with that index does
Ran(cmd, index) ==
  /\ Did(cmd, index) /\ last'.whole
  /\ last'.walked = Walked(cmd, index)
  /\ last'.reported = {d \in Walked(cmd, index) : Known(index, d) # version[d]}
  /\ WroteSplit(index, SavedBy(cmd, index))
  /\ atom' = atom \/ Replaced(cmd, index)
  /\ last'.exit = 0 =>
       /\ index.mode = "split" => \A d \in SavedBy(cmd, index) : split'[d] = version[d]
       /\ ~Errs(cmd, index, Walked(cmd, index))
       /\ index.mode = "atom" /\ SavedBy(cmd, index) # {} => Replaced(cmd, index)
  /\ last'.exit # 0 =>
       \/ Errs(cmd, index, Walked(cmd, index))
       \/ atom' = atom

\* what an interrupted run of cmd with that index does
Stopped(cmd, index) ==
  /\ Did(cmd, index) /\ ~last'.whole /\ cmd.kind = "update"
  /\ last'.walked \subseteq Walked(cmd, index) /\ last'.reported = {} /\ atom' = atom
  /\ index.mode # "split" => last'.walked = {}
  /\ WroteSplit(index, last'.walked)

\* An index that was located for a command is there, with its entries.
LEMMA LocatedFacts ==
  ASSUME TypeInv, NEW cmd \in Commands, NEW index, index = Locate[cmd.starts[1]],
         cmd.kind \in {"check", "update"}, index # NoIndex
  PROVE  Located(cmd, index) /\ index \in [mode : {"atom", "split", None}, at : Dirs \cup {None}]
<1>1. cmd.starts[1] \in Dirs
  BY CommandFacts
<1>2. /\ index \in [mode : {"atom", "split", None}, at : Dirs \cup {None}]
      /\ index.at \in Dirs /\ index.mode \in {"atom", "split"}
      /\ index.mode = "atom" => atom[index.at] # None
  BY <1>1, LocatedIndex
<1>3. index = [mode |-> index.mode, at |-> index.at]
  BY <1>2
<1>4. index.mode = "atom" => atom[index.at] \in [Dirs -> Entry]
  BY <1>2, TypeFacts DEF IndexType
<1> QED
  BY <1>2, <1>3, <1>4 DEF Located

\* Process is a whole run with the index that LocateIndex finds for the first path.
LEMMA ProcessIs ==
  ASSUME TypeInv, NEW cmd \in Commands, Process(cmd)
  PROVE  LET index == Locate[cmd.starts[1]] IN Located(cmd, index) /\ Ran(cmd, index)
<1> DEFINE index == Locate[cmd.starts[1]]
<1>1. cmd.kind \in {"check", "update"} /\ index # NoIndex
  BY DEF Process, Begins, Accepts
<1>2. Located(cmd, index) /\ index \in [mode : {"atom", "split", None}, at : Dirs \cup {None}]
  <2> HIDE DEF index
  <2>1. index = Locate[cmd.starts[1]]
    BY DEF index
  <2> QED
    BY <1>1, <2>1, LocatedFacts
<1> DEFINE
  walked == Walked(cmd, index)
  changed == {d \in walked : Known(index, d) # version[d]}
  saved == SavedBy(cmd, index)
<1>3. PICK finished, failed, lost :
        /\ finished \in BOOLEAN /\ failed \in Failing(index, saved) /\ lost \in SUBSET failed
        /\ ~finished => index.mode = "atom" /\ saved # {}
        /\ Ended(cmd, index,
                 IF finished /\ failed = {} /\ ~Errs(cmd, index, walked) THEN 0 ELSE 1, TRUE,
                 walked, changed)
        /\ events' = events + Cardinality(failed)
        /\ IF index.mode = "split" THEN SavedSplit(saved, failed, lost) /\ UNCHANGED atom
           ELSE /\ atom' = IF finished /\ saved # {}
                  THEN [atom EXCEPT ![index.at] =
                          Stored(index.at, Refreshed(cmd, index), saved)] ELSE atom
                /\ UNCHANGED split
  BY DEF Process, SavedBy, Refreshed
<1> DEFINE exit == IF finished /\ failed = {} /\ ~Errs(cmd, index, walked) THEN 0 ELSE 1
<1>4. walked \subseteq there /\ changed \subseteq walked /\ saved \subseteq Dirs
  BY TypeFacts DEF TypeInv, TypeOK, SavedBy
<1> HIDE DEF index, walked, changed, saved
<1>12. failed \subseteq saved /\ (index.mode # "split" => failed = {})
  BY <1>3, <1>4, FailingFacts
<1>5. exit \in 0..1 /\ TRUE \in BOOLEAN
  OBVIOUS
<1>6. Ended(cmd, index, exit, TRUE, walked, changed)
  BY <1>3
<1> HIDE DEF exit
<1>7. /\ last' # None /\ last'.cmd = cmd /\ last'.index = index /\ last'.exit = exit
      /\ last'.whole = TRUE /\ last'.walked = walked /\ last'.reported = changed
      /\ UNCHANGED tree
  BY <1>2, <1>4, <1>5, <1>6, EndedFacts
<1>8. /\ exit = 0 => finished /\ failed = {} /\ ~Errs(cmd, index, walked)
      /\ exit # 0 => ~finished \/ failed # {} \/ Errs(cmd, index, walked)
      /\ failed # {} => exit = 1
  BY DEF exit
<1>9. index.mode = "split" \/ index.mode = "atom"
  BY <1>2 DEF Located
<1>10. /\ WroteSplit(index, saved)
       /\ failed = {} /\ index.mode = "split" => \A d \in saved : split'[d] = version[d]
  <2>1. CASE index.mode = "split"
    <3>1. SavedSplit(saved, failed, lost)
      BY <1>3, <2>1
    <3>2. /\ \A d \in Dirs : split'[d] # split[d] =>
               d \in saved /\ (split'[d] = version[d] \/ (split'[d] = Bad /\ failed # {}))
          /\ \A d \in Dirs : d \in saved /\ failed = {} => split'[d] = version[d]
          /\ saved = {} => split' = split
      BY <1>3, <1>12, <3>1, SavedSplitIs
    <3> QED
      BY <1>4, <1>7, <1>8, <2>1, <3>2 DEF WroteSplit
  <2>2. CASE index.mode # "split"
    BY <1>3, <2>2 DEF WroteSplit
  <2> QED
    BY <2>1, <2>2
<1>11. /\ atom' = atom \/ Replaced(cmd, index)
       /\ finished /\ index.mode = "atom" /\ saved # {} => Replaced(cmd, index)
       /\ ~finished \/ failed # {} => atom' = atom
  <2>1. CASE index.mode = "split"
    BY <1>3, <2>1
  <2>2. CASE index.mode = "atom"
    BY <1>3, <1>12, <2>2 DEF Replaced, saved
  <2> QED
    BY <1>9, <2>1, <2>2
<1> QED
  BY <1>2, <1>7, <1>8, <1>10, <1>11 DEF Ran, Did, index, walked, changed, saved

\* Interrupt is the beginning of such a run.
LEMMA InterruptIs ==
  ASSUME TypeInv, NEW cmd \in Commands, Interrupt(cmd)
  PROVE  LET index == Locate[cmd.starts[1]] IN Located(cmd, index) /\ Stopped(cmd, index)
<1> DEFINE index == Locate[cmd.starts[1]]
           walked == Walked(cmd, index)
<1>1. cmd.kind = "update" /\ index # NoIndex
  BY DEF Interrupt, Begins, Accepts
<1>2. Located(cmd, index) /\ index \in [mode : {"atom", "split", None}, at : Dirs \cup {None}]
  <2> HIDE DEF index
  <2>1. index = Locate[cmd.starts[1]]
    BY DEF index
  <2> QED
    BY <1>1, <2>1, LocatedFacts
<1>3. PICK done \in IF index.mode = "split" THEN (SUBSET walked) \ {walked} ELSE {{}} :
        LET saved == {d \in done : Saves(index, FALSE, d)} IN
        \E failed \in Failing(index, saved), exit \in 0..1 : \E lost \in SUBSET failed :
          /\ failed # {} => exit = 1
          /\ Ended(cmd, index, exit, FALSE, done, {})
          /\ events' = events + Cardinality(failed)
          /\ SavedSplit(saved, failed, lost) /\ UNCHANGED atom
  BY DEF Interrupt
<1>4. walked \subseteq there /\ there \subseteq Dirs
  BY TypeFacts DEF TypeInv, TypeOK
<1> HIDE DEF index, walked
<1> DEFINE saved == {d \in done : Saves(index, FALSE, d)}
<1>5. PICK failed, exit, lost :
        /\ failed \in Failing(index, saved) /\ exit \in 0..1 /\ lost \in SUBSET failed
        /\ failed # {} => exit = 1
        /\ Ended(cmd, index, exit, FALSE, done, {})
        /\ events' = events + Cardinality(failed)
        /\ SavedSplit(saved, failed, lost) /\ UNCHANGED atom
  BY <1>3
<1>6. /\ done \subseteq walked /\ (index.mode # "split" => done = {})
      /\ saved \subseteq done /\ saved \subseteq Dirs
  BY <1>3, <1>4
<1> HIDE DEF saved
<1>9. failed \subseteq saved
  BY <1>5, <1>6, FailingFacts
<1>7. done \in SUBSET there /\ {} \in SUBSET done /\ FALSE \in BOOLEAN
  BY <1>4, <1>6
<1>8. /\ last' # None /\ last'.cmd = cmd /\ last'.index = index
      /\ last'.whole = FALSE /\ last'.walked = done /\ last'.reported = {} /\ UNCHANGED tree
      /\ last'.exit = exit
  <2> DEFINE whole == FALSE
             reported == {}
  <2>1. whole \in BOOLEAN /\ reported \in SUBSET done /\ whole = FALSE /\ reported = {}
    OBVIOUS
  <2>2. Ended(cmd, index, exit, whole, done, reported)
    BY <1>5
  <2> HIDE DEF whole, reported
  <2>3. /\ last' # None /\ last'.cmd = cmd /\ last'.index = index
        /\ last'.whole = whole /\ last'.walked = done /\ last'.reported = reported
        /\ UNCHANGED tree /\ last'.exit = exit
    BY <1>2, <1>5, <1>7, <2>1, <2>2, EndedFacts
  <2> QED
    BY <2>1, <2>3
<1> QED
  <2>1. /\ \A d \in Dirs : split'[d] # split[d] =>
             d \in saved /\ (split'[d] = version[d] \/ (split'[d] = Bad /\ failed # {}))
        /\ saved = {} => split' = split
    BY <1>5, <1>9, SavedSplitIs
  <2>2. WroteSplit(index, done)
    BY <1>5, <1>6, <1>8, <2>1 DEF WroteSplit
  <2> QED
    BY <1>1, <1>2, <1>5, <1>6, <1>8, <2>2 DEF Stopped, Did, index, walked

\* what a command does that returns an error before it does anything
Refused(cmd) ==
  /\ last' # None /\ last'.cmd = cmd /\ ~last'.whole /\ last'.reported = {} /\ last'.exit = 1
  /\ UNCHANGED <<tree, indexes>>

\* what init and fuse do
Made(cmd) ==
  /\ last' # None /\ last'.cmd = cmd /\ last'.index = NoIndex /\ cmd.path \in Dirs
  /\ UNCHANGED tree
  /\ \/ /\ cmd.kind = "split" /\ (split[cmd.path] = None \/ cmd.force)
        /\ split' = [split EXCEPT ![cmd.path] = 0] /\ UNCHANGED atom
     \/ /\ cmd.kind \in {"atom", "fuse"} /\ (atom[cmd.path] = None \/ cmd.force)
        /\ \E entries \in [Dirs -> Entry] :
             /\ atom' = [atom EXCEPT ![cmd.path] = entries]
             /\ cmd.kind = "fuse" /\ last'.exit = 0 => entries = Fused(cmd.path)
        /\ UNCHANGED split

\* Refuse and RefuseInit do nothing.
LEMMA RefusedIs ==
  ASSUME TypeInv, NEW cmd \in Commands, Refuse(cmd) \/ RefuseInit(cmd)
  PROVE  Refused(cmd)
<1> DEFINE none == {}
           whole == FALSE
           exit == 1
<1>1. none \in SUBSET there /\ none \in SUBSET none /\ whole \in BOOLEAN /\ exit \in 0..1
  OBVIOUS
<1>2. ASSUME NEW index \in [mode : {"atom", "split", None}, at : Dirs \cup {None}],
             Ended(cmd, index, 1, FALSE, {}, {})
      PROVE  /\ last' # None /\ last'.cmd = cmd /\ ~last'.whole /\ last'.reported = {}
             /\ last'.exit = 1 /\ UNCHANGED tree
  <2>1. Ended(cmd, index, exit, whole, none, none)
    BY <1>2
  <2> HIDE DEF none, whole, exit
  <2>2. /\ last' # None /\ last'.cmd = cmd /\ last'.whole = whole /\ last'.reported = none
        /\ last'.exit = exit /\ UNCHANGED tree
    BY <1>1, <1>2, <2>1, EndedFacts
  <2> QED
    BY <2>2 DEF none, whole, exit
<1>3. CASE Refuse(cmd)
  <2> DEFINE index == Locate[cmd.starts[1]]
  <2>1. cmd.starts[1] \in Dirs
    BY <1>3, CommandFacts DEF Refuse, Begins
  <2>2. index \in [mode : {"atom", "split", None}, at : Dirs \cup {None}]
    BY <2>1, LocatedIndex
  <2>3. Ended(cmd, index, 1, FALSE, {}, {}) /\ UNCHANGED indexes
    BY <1>3 DEF Refuse
  <2> HIDE DEF index
  <2> QED
    BY <1>2, <2>2, <2>3 DEF Refused
<1>4. CASE RefuseInit(cmd)
  BY <1>2, <1>4, NoIndexType DEF Refused, RefuseInit
<1> QED
  BY <1>3, <1>4

\* InitIndex and Fuse make an index in the directory of the command.
LEMMA MadeIs ==
  ASSUME TypeInv, NEW cmd \in Commands, InitIndex(cmd) \/ Fuse(cmd)
  PROVE  Made(cmd)
<1> DEFINE none == {}
<1>1. none \in SUBSET there /\ none \in SUBSET none
  OBVIOUS
<1>2. ASSUME NEW exit \in 0..1, NEW whole \in BOOLEAN, Ended(cmd, NoIndex, exit, whole, {}, {})
      PROVE  /\ last' # None /\ last'.cmd = cmd /\ last'.index = NoIndex /\ last'.exit = exit
             /\ UNCHANGED tree
  <2>1. Ended(cmd, NoIndex, exit, whole, none, none)
    BY <1>2
  <2> HIDE DEF none
  <2> QED
    BY <1>1, <2>1, NoIndexType, EndedFacts
<1>3. cmd.path \in Dirs
  BY CommandFacts DEF InitIndex, Fuse, Begins
<1>4. CASE InitIndex(cmd)
  <2>1. Ended(cmd, NoIndex, 0, TRUE, {}, {})
    BY <1>4 DEF InitIndex
  <2>2. 0 \in 0..1 /\ TRUE \in BOOLEAN
    OBVIOUS
  <2>3. last' # None /\ last'.cmd = cmd /\ last'.index = NoIndex /\ UNCHANGED tree
    BY <1>2, <2>1, <2>2
  <2>4. NoEntries \in [Dirs -> Entry]
    BY DEF Entry, NoEntries
  <2>5. CASE cmd.kind = "atom"
    <3>1. /\ atom[cmd.path] = None \/ cmd.force
          /\ atom' = [atom EXCEPT ![cmd.path] = NoEntries] /\ split' = split
      BY <1>4, <2>5 DEF InitIndex, CanInit
    <3> QED
      BY <1>3, <2>3, <2>4, <2>5, <3>1 DEF Made
  <2>6. CASE cmd.kind # "atom"
    <3>1. /\ cmd.kind = "split" /\ (split[cmd.path] = None \/ cmd.force)
          /\ split' = [split EXCEPT ![cmd.path] = 0] /\ atom' = atom
      BY <1>4, <2>6 DEF InitIndex, CanInit
    <3> QED
      BY <1>3, <2>3, <3>1 DEF Made
  <2> QED
    BY <2>5, <2>6
<1>5. CASE Fuse(cmd)
  <2>1. PICK finished \in BOOLEAN :
          /\ atom' = [atom EXCEPT ![cmd.path] = IF finished THEN Fused(cmd.path) ELSE NoEntries]
          /\ Ended(cmd, NoIndex, IF finished THEN 0 ELSE 1, finished, {}, {})
    BY <1>5 DEF Fuse
  <2>2. cmd.kind = "fuse" /\ (atom[cmd.path] = None \/ cmd.force) /\ split' = split
    BY <1>5 DEF Fuse, Begins, CanInit
  <2> DEFINE exit == IF finished THEN 0 ELSE 1
             entries == IF finished THEN Fused(cmd.path) ELSE NoEntries
  <2>3. exit \in 0..1 /\ (exit = 0 => entries = Fused(cmd.path))
    OBVIOUS
  <2>4. entries \in [Dirs -> Entry]
    <3>1. Fused(cmd.path) \in [Dirs -> Entry]
      BY <1>3, TypeFacts, FusedIs, CollectedIs
    <3>2. NoEntries \in [Dirs -> Entry]
      BY DEF Entry, NoEntries
    <3> QED
      BY <3>1, <3>2
  <2>5. Ended(cmd, NoIndex, exit, finished, {}, {}) /\ atom' = [atom EXCEPT ![cmd.path] = entries]
    BY <2>1
  <2> HIDE DEF exit, entries
  <2>6. /\ last' # None /\ last'.cmd = cmd /\ last'.index = NoIndex /\ last'.exit = exit
        /\ UNCHANGED tree
    BY <1>2, <2>3, <2>5
  <2> QED
    BY <1>3, <2>2, <2>3, <2>4, <2>5, <2>6 DEF Made
<1> QED
  BY <1>4, <1>5

\* a change of the tree, after which there is no last command
Quiet == last' = None /\ commands' = commands

\* A step is a command or such a change.
LEMMA Steps ==
  ASSUME TypeInv, [Next]_vars
  PROVE  \/ \E cmd \in Commands : \E index :
              Located(cmd, index) /\ (Ran(cmd, index) \/ Stopped(cmd, index))
         \/ \E cmd \in Commands : Refused(cmd) \/ Made(cmd)
         \/ Quiet \/ UNCHANGED vars
<1>1. ASSUME NEW d \in Dirs, Touch(d) \/ Chmod(d) \/ RemoveDir(d) \/ MakeDir(d) \/ Damage(d)
      PROVE  Quiet
  BY <1>1 DEF Quiet, Touch, Chmod, RemoveDir, MakeDir, Damage, Happens
<1>2. EditIgnore => Quiet
  BY DEF Quiet, EditIgnore, Happens
<1>3. ASSUME NEW cmd \in Commands,
             \/ Refuse(cmd) \/ Process(cmd) \/ Interrupt(cmd)
             \/ InitIndex(cmd) \/ RefuseInit(cmd) \/ Fuse(cmd)
      PROVE  \/ \E index : Located(cmd, index) /\ (Ran(cmd, index) \/ Stopped(cmd, index))
             \/ Refused(cmd) \/ Made(cmd)
  BY <1>3, ProcessIs, InterruptIs, RefusedIs, MadeIs
<1> QED
  BY <1>1, <1>2, <1>3 DEF Next

-----------------------------------------------------------------------------
(* What a run leaves alone                                                 *)

\* What a whole run changes are entries of what it went through, unless it rebuilds.
LEMMA RanTouches ==
  ASSUME TypeInv, NEW cmd \in Commands, NEW index, Located(cmd, index), Ran(cmd, index)
  PROVE  /\ cmd.kind = "check" => UNCHANGED indexes
         /\ \A d \in Dirs : split'[d] # split[d] => index.mode = "split" /\ d \in last'.walked
         /\ \A x \in Dirs : atom'[x] # atom[x] =>
              /\ cmd.kind = "update" /\ index = [mode |-> "atom", at |-> x]
              /\ Replaced(cmd, index)
              /\ \A d \in Dirs : atom'[x][d] # atom[x][d] =>
                   d \in last'.walked \/ Refreshes(cmd, x)
<1>1. /\ atom \in [Dirs -> [Dirs -> Entry] \cup {None}] /\ split \in [Dirs -> Entry \cup {Bad}]
      /\ SavedBy(cmd, index) \subseteq last'.walked
      /\ (cmd.kind = "check" => SavedBy(cmd, index) = {})
      /\ (SavedBy(cmd, index) # {} => cmd.kind = "update")
  <2>1. last'.walked = Walked(cmd, index)
    BY DEF Ran
  <2> QED
    BY <2>1, TypeFacts DEF IndexType, SavedBy
<1> DEFINE saved == SavedBy(cmd, index)
<1>2. WroteSplit(index, saved) /\ (atom' = atom \/ Replaced(cmd, index))
  BY DEF Ran
<1> HIDE DEF saved
<1>3. \A d \in Dirs : split'[d] # split[d] => index.mode = "split" /\ d \in saved
  BY <1>2 DEF WroteSplit
<1>4. cmd.kind = "check" => UNCHANGED indexes
  <2> SUFFICES ASSUME cmd.kind = "check" PROVE UNCHANGED indexes
    OBVIOUS
  <2>1. saved = {}
    BY <1>1 DEF saved
  <2>2. atom' = atom
    BY <1>2, <2>1 DEF Replaced, saved
  <2>3. split' = split
    BY <1>2, <2>1 DEF WroteSplit
  <2> QED
    BY <2>2, <2>3 DEF indexes
<1>5. ASSUME NEW x \in Dirs, atom'[x] # atom[x]
      PROVE  /\ cmd.kind = "update" /\ index = [mode |-> "atom", at |-> x]
             /\ Replaced(cmd, index)
             /\ \A d \in Dirs : atom'[x][d] # atom[x][d] => d \in saved \/ Refreshes(cmd, x)
  <2>1. Replaced(cmd, index) /\ atom \in [Dirs -> [Dirs -> Entry] \cup {None}]
    BY <1>1, <1>2, <1>5
  <2>2. /\ index.mode = "atom" /\ saved # {}
        /\ atom' = [atom EXCEPT ![index.at] = Stored(index.at, Refreshed(cmd, index), saved)]
    BY <2>1 DEF Replaced, saved
  <2>3. index.at = x
    BY <1>5, <2>1, <2>2
  <2>4. index = [mode |-> "atom", at |-> x] /\ cmd.kind = "update"
    BY <1>1, <2>2, <2>3 DEF Located, saved
  <2>5. atom'[x] = Stored(x, Refreshed(cmd, index), saved)
    BY <2>1, <2>2, <2>3
  <2>6. ASSUME NEW d \in Dirs, d \notin saved, ~Refreshes(cmd, x) PROVE atom'[x][d] = atom[x][d]
    BY <2>3, <2>5, <2>6 DEF Stored, Refreshed
  <2> QED
    BY <2>1, <2>4, <2>6
<1> QED
  BY <1>1, <1>3, <1>4, <1>5 DEF saved

\* A whole run, an interrupted one and a refused one leave other indexes alone.
LEMMA OthersUntouchedStep ==
  ASSUME TypeInv, [Next]_vars, commands' # commands, IsRun'
  PROVE  /\ last'.cmd.kind = "check" => UNCHANGED indexes
         /\ \A d \in Dirs : split'[d] # split[d] =>
              last'.index.mode = "split" /\ d \in last'.walked
         /\ \A x \in Dirs : atom'[x] # atom[x] =>
              /\ last'.index = [mode |-> "atom", at |-> x] /\ last'.whole
              /\ \A d \in Dirs : atom'[x][d] # atom[x][d] => d \in last'.walked \/ Rebuilt(x)'
<1>1. ASSUME NEW cmd \in Commands, NEW index, Located(cmd, index), Ran(cmd, index)
      PROVE  /\ last'.cmd.kind = "check" => UNCHANGED indexes
             /\ \A d \in Dirs : split'[d] # split[d] =>
                  last'.index.mode = "split" /\ d \in last'.walked
             /\ \A x \in Dirs : atom'[x] # atom[x] =>
                  /\ last'.index = [mode |-> "atom", at |-> x] /\ last'.whole
                  /\ \A d \in Dirs : atom'[x][d] # atom[x][d] =>
                       d \in last'.walked \/ Rebuilt(x)'
  <2>1. last'.cmd = cmd /\ last'.index = index /\ last'.whole
    BY <1>1 DEF Ran, Did
  <2>2. ASSUME NEW x \in Dirs, cmd.kind = "update", index = [mode |-> "atom", at |-> x],
               Refreshes(cmd, x)
        PROVE  Rebuilt(x)'
    BY <2>1, <2>2 DEF Rebuilt, Refreshes
  <2> QED
    BY <1>1, <2>1, <2>2, RanTouches
<1>2. ASSUME NEW cmd \in Commands, NEW index, Located(cmd, index), Stopped(cmd, index)
      PROVE  /\ last'.cmd.kind = "update" /\ atom' = atom
             /\ \A d \in Dirs : split'[d] # split[d] =>
                  last'.index.mode = "split" /\ d \in last'.walked
  <2>1. last'.cmd = cmd /\ last'.index = index
    BY <1>2 DEF Stopped, Did
  <2> QED
    BY <1>2, <2>1 DEF Stopped, WroteSplit
<1>3. ASSUME NEW cmd \in Commands, Refused(cmd)
      PROVE  UNCHANGED indexes
  BY <1>3 DEF Refused
<1>4. ASSUME NEW cmd \in Commands, Made(cmd)
      PROVE  FALSE
  BY <1>4 DEF Made, IsRun
<1>5. CASE UNCHANGED vars
  BY <1>5 DEF vars
<1>6. ~Quiet
  BY DEF Quiet
<1> QED
  BY <1>1, <1>2, <1>3, <1>4, <1>5, <1>6, Steps DEF indexes

\* An update of a part of a tree changes nothing but the entries of what it went
\* through, in the one index it located (or rebuilds that), and a check or an update
\* that was interrupted changes no atom index: Index.save and indexStore.Finish.
THEOREM RunsLeaveOthers == Spec => OthersUntouched
<1>1. TypeInv /\ [Next]_vars =>
        [commands' # commands /\ IsRun' =>
           /\ last'.cmd.kind = "check" => UNCHANGED indexes
           /\ \A d \in Dirs : split'[d] # split[d] =>
                last'.index.mode = "split" /\ d \in last'.walked
           /\ \A x \in Dirs : atom'[x] # atom[x] =>
                /\ last'.index = [mode |-> "atom", at |-> x] /\ last'.whole
                /\ \A d \in Dirs : atom'[x][d] # atom[x][d] =>
                     d \in last'.walked \/ Rebuilt(x)']_vars
  BY OthersUntouchedStep
<1> QED
  BY <1>1, TypeInvariant, PTL DEF Spec, OthersUntouched

-----------------------------------------------------------------------------
(* A check after an update                                                 *)

\* What the last update went through is what its index now says.
Agrees ==
  IsRun /\ last.cmd.kind = "update" /\ last.whole /\ last.exit = 0 =>
    \A d \in last.walked : Known(last.index, d) = version[d]

\* A whole update that ends without an error leaves an index that agrees.
LEMMA RanAgrees ==
  ASSUME TypeInv, NEW cmd \in Commands, NEW index, Located(cmd, index), Ran(cmd, index)
  PROVE  Agrees'
<1> DEFINE saved == SavedBy(cmd, index)
           at == index.at
<1>1. SUFFICES ASSUME cmd.kind = "update", last'.exit = 0, NEW d \in Walked(cmd, index)
               PROVE  Known(index, d)' = version[d]
  <2>1. /\ last'.cmd = cmd /\ last'.index = index /\ last'.walked = Walked(cmd, index)
        /\ version' = version
    BY DEF Ran, Did, tree
  <2>2. Agrees' <=> (IsRun /\ last.cmd.kind = "update" /\ last.whole /\ last.exit = 0 =>
                       \A e \in last.walked : Known(last.index, e) = version[e])'
    BY DEF Agrees
  <2> QED
    BY <1>1, <2>1, <2>2 DEF Known
<1>2. d \in Dirs /\ atom \in [Dirs -> [Dirs -> Entry] \cup {None}]
  <2>1. Walked(cmd, index) \subseteq Dirs
    BY TypeFacts DEF TypeInv, TypeOK
  <2> QED
    BY <2>1, TypeFacts DEF IndexType
<1>3. d \in saved \/ (Known(index, d) = version[d] /\ ~Refreshed(cmd, index))
  BY <1>1 DEF SavedBy, Saves
<1>4. CASE index.mode = "split"
  <2>1. WroteSplit(index, saved) /\ \A e \in saved : split'[e] = version[e]
    BY <1>1, <1>4 DEF Ran
  <2> HIDE DEF saved
  <2>2. split'[d] = IF d \in saved THEN version[d] ELSE split[d]
    BY <1>2, <2>1 DEF WroteSplit
  <2> QED
    BY <1>3, <1>4, <2>2 DEF Known
<1>5. CASE index.mode = "atom"
  <2>1. CASE saved = {}
    <3>1. atom' = atom
      BY <2>1 DEF Ran, Replaced
    <3> QED
      BY <1>3, <1>5, <2>1, <3>1 DEF Known
  <2>2. CASE saved # {}
    <3>1. atom' = [atom EXCEPT ![at] = Stored(at, Refreshed(cmd, index), saved)]
      BY <1>1, <1>5, <2>2 DEF Ran, Replaced
    <3>2. at \in Dirs
      BY DEF Located
    <3> HIDE DEF saved, at
    <3>3. atom'[at] = Stored(at, Refreshed(cmd, index), saved)
      BY <1>2, <3>1, <3>2
    <3>4. Stored(at, Refreshed(cmd, index), saved)[d] =
            IF d \in saved THEN version[d]
            ELSE IF Refreshed(cmd, index) THEN None ELSE atom[at][d]
      BY <1>2 DEF Stored
    <3>5. Known(index, d)' = atom'[at][d] /\ Known(index, d) = atom[at][d]
      BY <1>5 DEF Known, at
    <3> QED
      BY <1>3, <3>3, <3>4, <3>5
  <2> QED
    BY <2>1, <2>2
<1> QED
  BY <1>4, <1>5 DEF Located

\* Agrees holds until the next command or change of the tree.
LEMMA AgreesInvariant == Spec => []Agrees
<1>1. Init => Agrees
  BY DEF Init, Agrees, IsRun
<1>2. TypeInv /\ Agrees /\ [Next]_vars => Agrees'
  <2> SUFFICES ASSUME TypeInv, Agrees, [Next]_vars PROVE Agrees'
    OBVIOUS
  <2>1. ASSUME NEW cmd \in Commands, NEW index, Located(cmd, index), Stopped(cmd, index)
        PROVE  Agrees'
    BY <2>1 DEF Agrees, Stopped
  <2>2. ASSUME NEW cmd \in Commands, Refused(cmd) PROVE Agrees'
    BY <2>2 DEF Agrees, Refused
  <2>3. ASSUME NEW cmd \in Commands, Made(cmd) PROVE Agrees'
    BY <2>3 DEF Agrees, Made, IsRun
  <2>4. Quiet => Agrees'
    BY DEF Quiet, Agrees, IsRun
  <2>5. UNCHANGED vars => Agrees'
    BY DEF vars, tree, indexes, Agrees, IsRun, Known
  <2> QED
    BY <2>1, <2>2, <2>3, <2>4, <2>5, RanAgrees, Steps
<1> QED
  BY <1>1, <1>2, TypeInvariant, PTL DEF Spec

\* After a whole update without an error a check of any part of it that locates the
\* same index reports nothing of what the update went through.
THEOREM CheckAfterUpdate == Spec => CheckAgrees
<1>1. TypeInv /\ Agrees /\ [Next]_vars =>
        [/\ commands' # commands /\ IsRun /\ IsRun'
         /\ last.cmd.kind = "update" /\ last.whole /\ last.exit = 0
         /\ last'.index.mode = last.index.mode
         /\ last.index.mode = "atom" => last'.index = last.index
         => last'.reported \cap last.walked = {}]_vars
  <2> SUFFICES ASSUME TypeInv, Agrees, [Next]_vars, commands' # commands, IsRun, IsRun',
                      last.cmd.kind = "update", last.whole, last.exit = 0,
                      last'.index.mode = last.index.mode,
                      last.index.mode = "atom" => last'.index = last.index
               PROVE  last'.reported \cap last.walked = {}
    OBVIOUS
  <2>1. \A d \in last.walked : Known(last.index, d) = version[d]
    BY DEF Agrees
  <2>2. \A d \in last.walked : Known(last'.index, d) = version[d]
    BY <2>1 DEF Known
  <2>3. ASSUME NEW cmd \in Commands, NEW index, Located(cmd, index), Ran(cmd, index)
        PROVE  last'.reported \cap last.walked = {}
    BY <2>2, <2>3 DEF Ran, Did
  <2>4. ASSUME NEW cmd \in Commands, NEW index, Located(cmd, index), Stopped(cmd, index)
        PROVE  last'.reported \cap last.walked = {}
    BY <2>4 DEF Stopped
  <2>5. ASSUME NEW cmd \in Commands, Refused(cmd)
        PROVE  last'.reported \cap last.walked = {}
    BY <2>5 DEF Refused
  <2>6. ASSUME NEW cmd \in Commands, Made(cmd) PROVE FALSE
    BY <2>6 DEF Made, IsRun
  <2>7. ~Quiet /\ ~UNCHANGED vars
    BY DEF Quiet, vars
  <2> QED
    BY <2>3, <2>4, <2>5, <2>6, <2>7, Steps
<1> QED
  BY <1>1, TypeInvariant, AgreesInvariant, PTL DEF Spec, CheckAgrees

-----------------------------------------------------------------------------
(* The walk                                                                *)

\* scanDir goes on from the last directory of the trail t to k.
Goes(cmd, index, t, k) ==
  /\ CanRead(Last(t)) /\ Descends(cmd, t) /\ k \in Kids(Last(t))
  /\ ~ShouldIgnore(Chain(index, t), Name[k], cmd.dot)

\* the trails that continue t by such steps
From(cmd, index, t) ==
  {u \in Trails :
     /\ Len(t) <= Len(u) /\ \A j \in 1..Len(t) : u[j] = t[j]
     /\ \A i \in Len(t)..Len(u) - 1 : Goes(cmd, index, SubSeq(u, 1, i), u[i + 1])}

\* A trail goes on to a directory in its last one.
LEMMA TrailAppend ==
  ASSUME NEW t, IsTrail(t), NEW k \in Dirs, Above[k] = Last(t)
  PROVE  /\ IsTrail(Append(t, k)) /\ Last(Append(t, k)) = k
         /\ Len(Append(t, k)) = Len(t) + 1 /\ Append(t, k)[Len(t) + 1] = k
         /\ \A j \in 1..Len(t) : Append(t, k)[j] = t[j]
<1>1. t \in Seq(Dirs) /\ Len(t) \in Nat \ {0} /\ Last(t) = t[Len(t)]
  BY LenProperties DEF IsTrail, Last
<1> DEFINE u == Append(t, k)
<1>2. /\ u \in Seq(Dirs) /\ Len(u) = Len(t) + 1 /\ u[Len(t) + 1] = k
      /\ \A j \in 1..Len(t) : u[j] = t[j]
  BY <1>1, AppendProperties
<1> HIDE DEF u
<1>3. ASSUME NEW j \in 1..Len(u) - 1 PROVE Above[u[j + 1]] = u[j]
  <2>1. CASE j = Len(t)
    <3>1. u[j] = t[j] /\ u[j + 1] = k
      BY <1>1, <1>2, <2>1
    <3> QED
      BY <1>1, <2>1, <3>1
  <2>2. CASE j # Len(t)
    <3>1. j \in 1..Len(t) - 1 /\ j \in 1..Len(t) /\ j + 1 \in 1..Len(t)
      BY <1>1, <1>2, <2>2
    <3> QED
      BY <1>2, <3>1 DEF IsTrail
  <2> QED
    BY <2>1, <2>2
<1> QED
  BY <1>1, <1>2, <1>3 DEF IsTrail, Last, u

\* A trail that begins with t begins with t as a sequence.
LEMMA TrailBegins ==
  ASSUME NEW t, IsTrail(t), NEW u, IsTrail(u), Len(t) <= Len(u),
         \A j \in 1..Len(t) : u[j] = t[j]
  PROVE  SubSeq(u, 1, Len(t)) = t
<1>1. t \in Seq(Dirs) /\ Len(t) \in Nat \ {0} /\ u \in Seq(Dirs) /\ Len(u) \in Nat
  BY LenProperties DEF IsTrail
<1>2. Len(t) \in 1..Len(u)
  BY <1>1
<1> DEFINE v == SubSeq(u, 1, Len(t))
<1>3. v \in Seq(Dirs) /\ Len(v) = Len(t) /\ \A j \in 1..Len(t) : v[j] = u[j]
  BY <1>2, TrailPrefix DEF IsTrail
<1> HIDE DEF v
<1> QED
  BY <1>1, <1>3, SeqEqual DEF v

\* What continues a trail is that trail, and what continues it by one directory.
LEMMA FromStep ==
  ASSUME NEW cmd, NEW index, NEW t \in Trails, there \subseteq Dirs
  PROVE  From(cmd, index, t) =
           IF ~CanRead(Last(t)) \/ ~Descends(cmd, t) THEN {t}
           ELSE {t} \cup UNION {From(cmd, index, Append(t, k)) :
             k \in {s \in Kids(Last(t)) : ~ShouldIgnore(Chain(index, t), Name[s], cmd.dot)}}
<1> DEFINE G(v, k) == Goes(cmd, index, v, k)
           On(v, u) == \A i \in Len(v)..Len(u) - 1 : G(SubSeq(u, 1, i), u[i + 1])
           n == Len(t)
           next == {s \in Kids(Last(t)) : ~ShouldIgnore(Chain(index, t), Name[s], cmd.dot)}
<1>1. IsTrail(t) /\ t \in Seq(Dirs) /\ n \in Nat \ {0}
  BY TrailsAre, LenProperties DEF IsTrail
<1>2. \A k : G(t, k) <=> CanRead(Last(t)) /\ Descends(cmd, t) /\ k \in next
  BY DEF Goes
<1>3. \A k \in next : k \in Dirs /\ Above[k] = Last(t)
  BY DEF Kids
<1>4. \A v : From(cmd, index, v) =
               {u \in Trails : Len(v) <= Len(u) /\ (\A j \in 1..Len(v) : u[j] = v[j]) /\ On(v, u)}
  BY DEF From
<1> HIDE DEF G, next
<1>5. t \in From(cmd, index, t)
  <2>1. On(t, t)
    BY <1>1
  <2> QED
    BY <1>1, <1>4, <2>1
<1>6. ASSUME NEW u \in From(cmd, index, t), u # t
      PROVE  \E k \in next : G(t, k) /\ u \in From(cmd, index, Append(t, k))
  <2>1. u \in Trails /\ n <= Len(u) /\ (\A j \in 1..n : u[j] = t[j]) /\ On(t, u)
    BY <1>4, <1>6
  <2>2. IsTrail(u) /\ u \in Seq(Dirs) /\ Len(u) \in Nat
    BY <2>1, TrailsAre, LenProperties DEF IsTrail
  <2>3. SubSeq(u, 1, n) = t
    BY <1>1, <2>1, <2>2, TrailBegins
  <2>4. n # Len(u)
    <3>1. ASSUME n = Len(u) PROVE u = t
      BY <1>1, <2>1, <2>2, <3>1, SeqEqual
    <3> QED
      BY <1>6, <3>1
  <2>5. n \in n..Len(u) - 1 /\ n + 1 <= Len(u)
    BY <1>1, <2>1, <2>2, <2>4
  <2>6. G(t, u[n + 1])
    BY <2>1, <2>3, <2>5
  <2>7. u[n + 1] \in next
    BY <1>2, <2>6
  <2> DEFINE k == u[n + 1]
             v == Append(t, k)
  <2>8. Len(v) = n + 1 /\ v[n + 1] = k /\ \A j \in 1..n : v[j] = t[j]
    BY <1>1, <1>3, <2>7, TrailAppend
  <2>9. \A j \in 1..n + 1 : u[j] = v[j]
    BY <1>1, <2>1, <2>8
  <2>10. \A i \in n + 1..Len(u) - 1 : i \in n..Len(u) - 1
    BY <1>1, <2>2
  <2> HIDE DEF v
  <2>11. On(v, u)
    BY <2>1, <2>8, <2>10
  <2>12. u \in From(cmd, index, v)
    BY <1>4, <2>1, <2>5, <2>8, <2>9, <2>11
  <2> QED
    BY <2>6, <2>7, <2>12 DEF v
<1>7. ASSUME NEW k \in next, G(t, k), NEW u \in From(cmd, index, Append(t, k))
      PROVE  u \in From(cmd, index, t)
  <2> DEFINE v == Append(t, k)
  <2>1. IsTrail(v) /\ Len(v) = n + 1 /\ v[n + 1] = k /\ \A j \in 1..n : v[j] = t[j]
    BY <1>1, <1>3, TrailAppend
  <2> HIDE DEF v
  <2>2. u \in Trails /\ n + 1 <= Len(u) /\ (\A j \in 1..n + 1 : u[j] = v[j]) /\ On(v, u)
    <3>1. u \in From(cmd, index, v)
      BY <1>7 DEF v
    <3>2. u \in Trails /\ Len(v) <= Len(u) /\ (\A j \in 1..Len(v) : u[j] = v[j]) /\ On(v, u)
      BY <1>4, <3>1
    <3> QED
      BY <2>1, <3>2
  <2>3. IsTrail(u) /\ Len(u) \in Nat
    BY <2>2, TrailsAre, LenProperties DEF IsTrail
  <2>4. n <= Len(u) /\ (\A j \in 1..n : u[j] = t[j]) /\ u[n + 1] = k
    BY <1>1, <2>1, <2>2, <2>3
  <2>5. SubSeq(u, 1, n) = t
    BY <1>1, <2>3, <2>4, TrailBegins
  <2>6. ASSUME NEW i \in n..Len(u) - 1 PROVE G(SubSeq(u, 1, i), u[i + 1])
    <3>1. CASE i = n
      BY <1>7, <2>4, <2>5, <3>1
    <3>2. CASE i # n
      <4>1. i \in n + 1..Len(u) - 1
        BY <1>1, <2>3, <3>2
      <4> QED
        BY <2>1, <2>2, <4>1
    <3> QED
      BY <3>1, <3>2
  <2> QED
    BY <1>4, <2>2, <2>4, <2>6
<1>8. CASE ~CanRead(Last(t)) \/ ~Descends(cmd, t)
  BY <1>2, <1>5, <1>6, <1>8
<1>9. CASE CanRead(Last(t)) /\ Descends(cmd, t)
  <2>1. \A k \in next : G(t, k)
    BY <1>2, <1>9
  <2>2. From(cmd, index, t) = {t} \cup UNION {From(cmd, index, Append(t, k)) : k \in next}
    BY <1>5, <1>6, <1>7, <2>1
  <2> QED
    BY <1>9, <2>2 DEF next
<1> QED
  BY <1>8, <1>9

\* The recursion of scanDir has one solution, and it is From.
LEMMA ScannedIs ==
  ASSUME NEW cmd \in Commands, NEW index, there \subseteq Dirs,
         cmd.kind \in {"check", "update"}
  PROVE  Scanned(cmd, index) =
           {u \in Trails : /\ u[1] \in ToSet(cmd.starts)
                           /\ \A i \in 1..Len(u) - 1 :
                                Goes(cmd, index, SubSeq(u, 1, i), u[i + 1])}
<1> DEFINE
  next(t) == {s \in Kids(Last(t)) : ~ShouldIgnore(Chain(index, t), Name[s], cmd.dot)}
  Eq(f) == f = [t \in Trails |->
        IF ~CanRead(Last(t)) \/ ~Descends(cmd, t) THEN {t}
        ELSE {t} \cup UNION {f[Append(t, k)] : k \in next(t)}]
  scanDir == CHOOSE f : Eq(f)
  c == [t \in Trails |-> From(cmd, index, t)]
<1>1. ASSUME NEW t \in Trails
      PROVE  /\ Last(t) \in Dirs
             /\ \A k \in next(t) : /\ k \in Dirs /\ Above[k] = Last(t)
                                   /\ Append(t, k) \in Trails /\ Last(Append(t, k)) = k
  <2>1. IsTrail(t) /\ Last(t) \in Dirs
    BY TrailsAre, TrailIs
  <2>2. \A k \in next(t) : k \in Dirs /\ Above[k] = Last(t)
    BY DEF Kids
  <2>3. \A k \in next(t) : IsTrail(Append(t, k)) /\ Last(Append(t, k)) = k
    BY <2>1, <2>2, TrailAppend
  <2> QED
    BY <2>1, <2>2, <2>3, TrailsAre
<1>2. \A t \in Trails : From(cmd, index, t) =
           IF ~CanRead(Last(t)) \/ ~Descends(cmd, t) THEN {t}
           ELSE {t} \cup UNION {From(cmd, index, Append(t, k)) : k \in next(t)}
  BY FromStep
<1> HIDE DEF next
<1>3. Eq(c)
  <2>1. ASSUME NEW t \in Trails
        PROVE  {From(cmd, index, Append(t, k)) : k \in next(t)} = {c[Append(t, k)] : k \in next(t)}
    <3>1. \A k \in next(t) : c[Append(t, k)] = From(cmd, index, Append(t, k))
      BY <1>1
    <3> HIDE DEF c
    <3> QED
      BY <3>1
  <2>2. \A t \in Trails : From(cmd, index, t) =
           IF ~CanRead(Last(t)) \/ ~Descends(cmd, t) THEN {t}
           ELSE {t} \cup UNION {c[Append(t, k)] : k \in next(t)}
    BY <1>2, <2>1
  <2>3. c = [t \in Trails |-> From(cmd, index, t)]
    OBVIOUS
  <2> HIDE DEF c
  <2> QED
    BY <2>2, <2>3
<1>4. Eq(scanDir)
  BY <1>3
<1> HIDE DEF scanDir
<1> DEFINE S == {d \in Dirs : \A t \in Trails : Last(t) = d => scanDir[t] = From(cmd, index, t)}
<1>5. ASSUME NEW d \in Dirs, \A k \in Dirs : Above[k] = d => k \in S PROVE d \in S
  <2>1. SUFFICES ASSUME NEW t \in Trails, Last(t) = d PROVE scanDir[t] = From(cmd, index, t)
    OBVIOUS
  <2>2. \A k \in next(t) : scanDir[Append(t, k)] = From(cmd, index, Append(t, k))
    BY <1>1, <1>5, <2>1
  <2> HIDE DEF S
  <2>3. scanDir[t] = IF ~CanRead(Last(t)) \/ ~Descends(cmd, t) THEN {t}
                     ELSE {t} \cup UNION {scanDir[Append(t, k)] : k \in next(t)}
    BY <1>4
  <2>4. {From(cmd, index, Append(t, k)) : k \in next(t)} = {scanDir[Append(t, k)] : k \in next(t)}
    BY <2>2
  <2>5. From(cmd, index, t) = IF ~CanRead(Last(t)) \/ ~Descends(cmd, t) THEN {t}
           ELSE {t} \cup UNION {From(cmd, index, Append(t, k)) : k \in next(t)}
    BY <1>2
  <2> QED
    BY <2>3, <2>4, <2>5
<1>6. S \in SUBSET Dirs
  OBVIOUS
<1> HIDE DEF S
<1>7. S = Dirs
  BY <1>5, <1>6, BottomUp
<1>8. \A t \in Trails : scanDir[t] = From(cmd, index, t)
  BY <1>1, <1>7 DEF S
<1>9. ASSUME NEW d \in Dirs PROVE <<d>> \in Trails
  <2>1. <<d>> \in Seq(Dirs) /\ Len(<<d>>) = 1
    OBVIOUS
  <2>2. IsTrail(<<d>>)
    BY <2>1 DEF IsTrail
  <2> QED
    BY <2>2, TrailsAre
<1>10. ToSet(cmd.starts) \subseteq Dirs
  BY CommandFacts
<1>11. Scanned(cmd, index) = UNION {scanDir[<<d>>] : d \in ToSet(cmd.starts)}
  BY DEF Scanned, scanDir, next
<1>12. \A d \in ToSet(cmd.starts) : scanDir[<<d>>] = From(cmd, index, <<d>>)
  BY <1>8, <1>9, <1>10
<1>13. ASSUME NEW d \in Dirs
       PROVE  From(cmd, index, <<d>>) =
                {u \in Trails : u[1] = d /\ \A i \in 1..Len(u) - 1 :
                                  Goes(cmd, index, SubSeq(u, 1, i), u[i + 1])}
  <2>1. Len(<<d>>) = 1 /\ <<d>>[1] = d
    OBVIOUS
  <2>2. \A u \in Trails : Len(u) \in Nat /\ 1 <= Len(u)
    BY TrailsAre, LenProperties DEF IsTrail
  <2>3. \A u : (\A j \in 1..1 : u[j] = <<d>>[j]) <=> u[1] = d
    BY <2>1
  <2> QED
    BY <2>1, <2>2, <2>3 DEF From
<1> DEFINE A == ToSet(cmd.starts)
           R(u) == \A i \in 1..Len(u) - 1 : Goes(cmd, index, SubSeq(u, 1, i), u[i + 1])
<1>14. ASSUME NEW d \in A, NEW u
       PROVE  u \in scanDir[<<d>>] <=> u \in Trails /\ u[1] = d /\ R(u)
  <2>1. d \in Dirs /\ scanDir[<<d>>] = From(cmd, index, <<d>>)
    BY <1>10, <1>12
  <2>2. From(cmd, index, <<d>>) = {v \in Trails : v[1] = d /\ R(v)}
    BY <1>13, <2>1
  <2> HIDE DEF R
  <2> QED
    BY <2>1, <2>2
<1> HIDE DEF A, R
<1>15. UNION {scanDir[<<d>>] : d \in A} = {u \in Trails : u[1] \in A /\ R(u)}
  <2>1. ASSUME NEW u \in UNION {scanDir[<<d>>] : d \in A}
        PROVE  u \in Trails /\ u[1] \in A /\ R(u)
    <3>1. PICK d \in A : u \in scanDir[<<d>>]
      OBVIOUS
    <3>2. u \in Trails /\ u[1] = d /\ R(u)
      BY <1>14, <3>1
    <3> QED
      BY <3>2
  <2>2. ASSUME NEW u \in Trails, u[1] \in A, R(u)
        PROVE  u \in UNION {scanDir[<<d>>] : d \in A}
    <3>1. u \in scanDir[<<u[1]>>]
      BY <1>14, <2>2
    <3> QED
      BY <2>2, <3>1
  <2> QED
    BY <2>1, <2>2
<1> QED
  BY <1>11, <1>15 DEF A, R

\* The levels of the ignore files for a trail have names.
LEMMA ChainFacts ==
  ASSUME NEW index, NEW t, IsTrail(t)
  PROVE  LET N == Names \cup {Dot}
             Level == [items : {Items(d) : d \in Dirs \cup {Global}}, name : N]
         IN Chain(index, t) \in Seq(Level)
<1> DEFINE
  N == Names \cup {Dot}
  Level == [items : {Items(d) : d \in Dirs \cup {Global}}, name : N]
  level(i) == LET d == t[Len(t) + 1 - i] IN
     [items |-> Items(d),
      name |-> IF i = Len(t) /\ index = [mode |-> "atom", at |-> d] THEN Dot ELSE Name[d]]
  own == [i \in 1..Len(t) |-> level(i)]
  global == <<[items |-> Items(Global), name |-> Dot]>>
<1>1. t \in Seq(Dirs) /\ Len(t) \in Nat \ {0}
  BY LenProperties DEF IsTrail
<1>2. ASSUME NEW i \in 1..Len(t) PROVE level(i) \in Level
  <2>1. Len(t) + 1 - i \in 1..Len(t)
    BY <1>1
  <2>2. t[Len(t) + 1 - i] \in Dirs
    BY <1>1, <2>1, ElementOfSeq
  <2>3. Name[t[Len(t) + 1 - i]] \in Names
    BY <2>2 DEF Names
  <2> QED
    BY <2>2, <2>3
<1>3. [items |-> Items(Global), name |-> Dot] \in Level
  OBVIOUS
<1> HIDE DEF level, Level
<1>4. own \in Seq(Level)
  <2>1. own \in [1..Len(t) -> Level]
    BY <1>2
  <2> HIDE DEF own
  <2> QED
    BY <1>1, <2>1, IsASeq
<1>5. global \in Seq(Level)
  BY <1>3
<1> HIDE DEF own, global
<1>6. own \o global \in Seq(Level)
  BY <1>4, <1>5, ConcatProperties
<1> QED
  BY <1>6 DEF Chain, own, global, level, Level

\* whether a walk that came by the trail u to u[i] goes on, in terms of IsMeant
GoesOn(cmd, index, u, i) ==
  /\ CanRead(u[i]) /\ (cmd.depth = 0 \/ i < cmd.depth) /\ u[i + 1] \in there
  /\ ~IsMeant(Chain(index, Trail(u[1], u[i])), Name[u[i + 1]], cmd.dot)

\* A step of the walk, told from the trail it is on.
LEMMA GoesIs ==
  ASSUME NEW cmd \in Commands, NEW index, cmd.kind \in {"check", "update"},
         NEW u, IsTrail(u), NEW i \in 1..Len(u) - 1
  PROVE  /\ Above[u[i + 1]] = u[i] /\ Trail(u[1], u[i]) = SubSeq(u, 1, i)
         /\ Goes(cmd, index, SubSeq(u, 1, i), u[i + 1]) <=> GoesOn(cmd, index, u, i)
<1>1. u \in Seq(Dirs) /\ Len(u) \in Nat \ {0} /\ i \in 1..Len(u) /\ i + 1 \in 1..Len(u)
  BY LenProperties DEF IsTrail
<1>2. Above[u[i + 1]] = u[i] /\ u[i + 1] \in Dirs
  BY <1>1, ElementOfSeq DEF IsTrail
<1> DEFINE t == SubSeq(u, 1, i)
<1>3. IsTrail(t) /\ Len(t) = i /\ t[1] = u[1] /\ Last(t) = u[i]
  BY <1>1, TrailPrefix
<1> HIDE DEF t
<1>4. Trail(u[1], u[i]) = t
  BY <1>3, TrailIs
<1> DEFINE N == Names \cup {Dot}
           Level == [items : {Items(d) : d \in Dirs \cup {Global}}, name : N]
           chain == Chain(index, t)
           name == Name[u[i + 1]]
<1>5. chain \in Seq(Level)
  BY <1>3, ChainFacts
<1>6. (\A l \in Level : l.name \in N) /\ name \in N
  BY <1>2 DEF Names
<1> HIDE DEF N, Level, chain, name
<1>7. ShouldIgnore(chain, name, cmd.dot) <=> IsMeant(chain, name, cmd.dot)
  BY <1>5, <1>6, IgnoredIsMeant
<1>8. Goes(cmd, index, t, u[i + 1]) <=>
        /\ CanRead(u[i]) /\ (cmd.depth = 0 \/ i < cmd.depth) /\ u[i + 1] \in there
        /\ ~ShouldIgnore(chain, name, cmd.dot)
  BY <1>2, <1>3 DEF Goes, Descends, Kids, chain, name
<1> QED
  BY <1>2, <1>4, <1>7, <1>8 DEF GoesOn, t, chain, name

\* The directories of a trail differ from the first one but for that.
LEMMA TrailFirst ==
  ASSUME NEW u, IsTrail(u), NEW i \in 1..Len(u)
  PROVE  u[i] = u[1] <=> i = 1
<1>1. Len(u) \in Nat \ {0} /\ 1 \in 1..Len(u) /\ i \in Nat \ {0}
  BY LenProperties DEF IsTrail
<1>2. IsTrail(SubSeq(u, 1, i)) /\ Trail(u[1], u[i]) = SubSeq(u, 1, i) /\ Len(SubSeq(u, 1, i)) = i
  BY TrailPrefix, TrailIs
<1>3. Trail(u[1], u[1]) = SubSeq(u, 1, 1) /\ Len(SubSeq(u, 1, 1)) = 1
  BY <1>1, TrailPrefix, TrailIs
<1> QED
  BY <1>2, <1>3

\* The walk of scanDir goes through all that is open from a given directory and less
\* than the depth below it.
LEMMA WalkedIs ==
  ASSUME NEW cmd \in Commands, NEW index, cmd.kind \in {"check", "update"}, there \subseteq Dirs
  PROVE  Walked(cmd, index) = Nearer(cmd, index)
<1> DEFINE
  Step(u, i) == Goes(cmd, index, SubSeq(u, 1, i), u[i + 1])
  Meant(x, y) == IsMeant(Chain(index, Trail(x, Above[y])), Name[y], cmd.dot)
<1>1. \A d : d \in Walked(cmd, index) <=>
         /\ CanRead(d)
         /\ \E u \in Trails : /\ d = Last(u) /\ u[1] \in ToSet(cmd.starts)
                              /\ \A i \in 1..Len(u) - 1 : Step(u, i)
  BY ScannedIs DEF Walked, Reached
<1>2. \A d : d \in Nearer(cmd, index) <=>
         /\ d \in there
         /\ \E x \in ToSet(cmd.starts) :
              /\ IsBelow(x, d)
              /\ cmd.depth = 0 \/ Len(Trail(x, d)) - 1 < cmd.depth
              /\ \A y \in ToSet(Trail(x, d)) : CanRead(y) /\ (y # x => ~Meant(x, y))
  BY DEF Nearer, IsOpen, Levels
<1>3. ToSet(cmd.starts) \subseteq Dirs /\ cmd.depth \in Nat
  BY CommandFacts
<1>4. ASSUME NEW u, IsTrail(u)
      PROVE  /\ u \in Trails /\ Len(u) \in Nat \ {0} /\ Last(u) = u[Len(u)]
             /\ IsBelow(u[1], Last(u)) /\ Trail(u[1], Last(u)) = u
             /\ \A y : y \in ToSet(u) <=> \E i \in 1..Len(u) : y = u[i]
             /\ \A i \in 1..Len(u) : u[i] = u[1] <=> i = 1
             /\ \A i \in 1..Len(u) - 1 :
                  Step(u, i) <=>
                    /\ CanRead(u[i]) /\ (cmd.depth = 0 \/ i < cmd.depth) /\ u[i + 1] \in there
                    /\ ~Meant(u[1], u[i + 1])
  <2>1. u \in Trails /\ Len(u) \in Nat \ {0} /\ Last(u) = u[Len(u)] /\ DOMAIN u = 1..Len(u)
    BY <1>4, TrailsAre, LenProperties DEF IsTrail, Last
  <2>2. IsBelow(u[1], Last(u)) /\ Trail(u[1], Last(u)) = u
    BY <1>4, TrailIs
  <2>3. \A y : y \in ToSet(u) <=> \E i \in 1..Len(u) : y = u[i]
    BY <2>1 DEF ToSet
  <2>4. \A i \in 1..Len(u) : u[i] = u[1] <=> i = 1
    BY <1>4, TrailFirst
  <2>5. ASSUME NEW i \in 1..Len(u) - 1
        PROVE  Step(u, i) <=>
                 /\ CanRead(u[i]) /\ (cmd.depth = 0 \/ i < cmd.depth) /\ u[i + 1] \in there
                 /\ ~Meant(u[1], u[i + 1])
    <3>1. Above[u[i + 1]] = u[i]
      BY <1>4, GoesIs
    <3>2. Step(u, i) <=> GoesOn(cmd, index, u, i)
      BY <1>4, GoesIs
    <3> QED
      BY <3>1, <3>2 DEF GoesOn
  <2> QED
    BY <2>1, <2>2, <2>3, <2>4, <2>5
<1> HIDE DEF Step, Meant
<1>5. ASSUME NEW d \in Walked(cmd, index) PROVE d \in Nearer(cmd, index)
  <2>1. PICK u \in Trails : /\ d = Last(u) /\ u[1] \in ToSet(cmd.starts)
                            /\ \A i \in 1..Len(u) - 1 : Step(u, i)
    BY <1>1
  <2>2. IsTrail(u)
    BY TrailsAre
  <2>3. CanRead(d) /\ d \in there
    BY <1>1 DEF CanRead
  <2>4. cmd.depth = 0 \/ Len(u) - 1 < cmd.depth
    <3>1. Len(u) \in Nat \ {0} /\ (Len(u) - 1 \in 1..Len(u) - 1 \/ Len(u) = 1)
      <4>1. Len(u) \in Nat \ {0}
        BY <1>4, <2>2
      <4>2. \A n \in Nat \ {0} : n - 1 \in 1..n - 1 \/ n = 1
        OBVIOUS
      <4> QED
        BY <4>1, <4>2
    <3> QED
      BY <1>3, <1>4, <2>1, <2>2, <3>1
  <2>5. ASSUME NEW y \in ToSet(u) PROVE CanRead(y) /\ (y # u[1] => ~Meant(u[1], y))
    <3>1. PICK i \in 1..Len(u) : y = u[i]
      BY <1>4, <2>2
    <3>2. CanRead(y)
      <4>1. Len(u) \in Nat /\ (i \in 1..Len(u) - 1 \/ i = Len(u))
        BY <1>4, <2>2
      <4> QED
        BY <1>4, <2>1, <2>2, <2>3, <3>1, <4>1
    <3>3. ASSUME y # u[1] PROVE ~Meant(u[1], y)
      <4>1. Len(u) \in Nat /\ i - 1 \in 1..Len(u) - 1 /\ (i - 1) + 1 = i
        BY <1>4, <2>2, <3>1, <3>3
      <4> QED
        BY <1>4, <2>1, <2>2, <3>1, <4>1
    <3> QED
      BY <3>2, <3>3
  <2> QED
    BY <1>2, <1>4, <2>1, <2>2, <2>3, <2>4, <2>5
<1>6. ASSUME NEW d \in Nearer(cmd, index) PROVE d \in Walked(cmd, index)
  <2>1. PICK x \in ToSet(cmd.starts) :
          /\ IsBelow(x, d)
          /\ cmd.depth = 0 \/ Len(Trail(x, d)) - 1 < cmd.depth
          /\ \A y \in ToSet(Trail(x, d)) : CanRead(y) /\ (y # x => ~Meant(x, y))
    BY <1>2
  <2>2. x \in Dirs /\ d \in Dirs
    BY <1>2, <1>3
  <2> DEFINE u == Trail(x, d)
  <2>3. IsTrail(u) /\ u[1] = x /\ Last(u) = d
    BY <2>1, <2>2, TrailFacts
  <2> HIDE DEF u
  <2>4. \A i \in 1..Len(u) : CanRead(u[i]) /\ (i # 1 => ~Meant(u[1], u[i]))
    BY <1>4, <2>1, <2>3 DEF u
  <2>5. Len(u) \in Nat \ {0} /\ (cmd.depth = 0 \/ Len(u) - 1 < cmd.depth)
    BY <1>4, <2>1, <2>3 DEF u
  <2>6. ASSUME NEW i \in 1..Len(u) - 1 PROVE Step(u, i)
    <3>1. i \in 1..Len(u) /\ i + 1 \in 1..Len(u) /\ i + 1 # 1 /\ (cmd.depth = 0 \/ i < cmd.depth)
      BY <1>3, <2>5
    <3>2. u[i + 1] \in there
      BY <2>4, <3>1 DEF CanRead
    <3> QED
      BY <1>4, <2>3, <2>4, <3>1, <3>2
  <2>7. CanRead(d)
    BY <1>4, <2>3, <2>4, <2>5
  <2> QED
    BY <1>1, <1>4, <2>1, <2>3, <2>6, <2>7
<1> QED
  BY <1>5, <1>6

\* What is less than the depth below a directory is not more than that below it.
LEMMA NearerIs ==
  ASSUME NEW cmd \in Commands, NEW index, cmd.kind \in {"check", "update"}, there \subseteq Dirs
  PROVE  Nearer(cmd, index) \subseteq Documented(cmd, index)
<1> SUFFICES ASSUME NEW d \in Nearer(cmd, index) PROVE d \in Documented(cmd, index)
  OBVIOUS
<1>1. PICK x \in ToSet(cmd.starts) :
        IsOpen(cmd, index, x, d) /\ (cmd.depth = 0 \/ Levels(x, d) < cmd.depth)
  BY DEF Nearer
<1>2. d \in there /\ x \in Dirs /\ d \in Dirs /\ cmd.depth \in Nat
  BY CommandFacts DEF Nearer
<1>3. Levels(x, d) \in Nat
  <2>1. IsTrail(Trail(x, d))
    BY <1>1, <1>2, TrailFacts DEF IsOpen
  <2> QED
    BY <2>1, LenProperties DEF IsTrail, Levels
<1> QED
  BY <1>1, <1>2, <1>3 DEF Documented

\* What should be gone through depends on nothing but the tree.
LEMMA SameTree ==
  ASSUME tree' = tree
  PROVE  \A cmd, index : /\ Documented(cmd, index)' = Documented(cmd, index)
                         /\ Nearer(cmd, index)' = Nearer(cmd, index)
<1>1. there' = there /\ unreadable' = unreadable /\ rules' = rules
  BY DEF tree
<1>2. ASSUME NEW cmd, NEW index, NEW x, NEW d
      PROVE  IsOpen(cmd, index, x, d)' = IsOpen(cmd, index, x, d)
  BY <1>1 DEF IsOpen, CanRead, Chain, Items
<1> QED
  BY <1>1, <1>2 DEF Documented, Nearer

\* A whole run goes through no directory that the help does not name, and through all
\* it names but those as many levels below as the limit: scanDir, the ignore files
\* read on the way and up to the root, and the depth that run begins with.
THEOREM WalksAreComplete == Spec => []WalkComplete
<1>1. Init => WalkComplete
  BY DEF Init, WalkComplete, IsRun
<1>2. TypeInv /\ WalkComplete /\ [Next]_vars => WalkComplete'
  <2> SUFFICES ASSUME TypeInv, WalkComplete, [Next]_vars PROVE WalkComplete'
    OBVIOUS
  <2>1. ASSUME NEW cmd \in Commands, NEW index, Located(cmd, index), Ran(cmd, index)
        PROVE  WalkComplete'
    <3>1. /\ Walked(cmd, index) = Nearer(cmd, index)
          /\ Nearer(cmd, index) \subseteq Documented(cmd, index)
      BY <2>1, WalkedIs, NearerIs DEF TypeInv, TypeOK, Located
    <3>2. tree' = tree
      BY <2>1 DEF Ran, Did
    <3>3. /\ Documented(cmd, index)' = Documented(cmd, index)
          /\ Nearer(cmd, index)' = Nearer(cmd, index)
      BY <3>2, SameTree
    <3>4. last'.cmd = cmd /\ last'.index = index /\ last'.walked = Walked(cmd, index)
      BY <2>1 DEF Ran, Did
    <3> QED
      BY <3>1, <3>3, <3>4 DEF WalkComplete
  <2>2. ASSUME NEW cmd \in Commands, NEW index, Located(cmd, index), Stopped(cmd, index)
        PROVE  WalkComplete'
    BY <2>2 DEF WalkComplete, Stopped
  <2>3. ASSUME NEW cmd \in Commands, Refused(cmd) PROVE WalkComplete'
    BY <2>3 DEF WalkComplete, Refused
  <2>4. ASSUME NEW cmd \in Commands, Made(cmd) PROVE WalkComplete'
    BY <2>4 DEF WalkComplete, Made, IsRun
  <2>5. Quiet => WalkComplete'
    BY DEF Quiet, WalkComplete, IsRun
  <2>6. ASSUME UNCHANGED vars PROVE WalkComplete'
    <3>1. \A cmd, index : /\ Documented(cmd, index)' = Documented(cmd, index)
                          /\ Nearer(cmd, index)' = Nearer(cmd, index)
      BY <2>6, SameTree DEF vars
    <3> QED
      BY <2>6, <3>1 DEF vars, WalkComplete, IsRun
  <2> QED
    BY <2>1, <2>2, <2>3, <2>4, <2>5, <2>6, Steps
<1> QED
  BY <1>1, <1>2, TypeInvariant, PTL DEF Spec

-----------------------------------------------------------------------------
(* What stays in an index                                                  *)

\* A run that rebuilds the database loses what the walk leaves out, and no other.
LEMMA RanKeeps ==
  ASSUME TypeInv, NEW cmd \in Commands, NEW index, Located(cmd, index), Ran(cmd, index),
         NEW x \in Dirs, atom[x] # None, NEW d \in Dirs
  PROVE  /\ atom'[x] # None
         /\ atom[x][d] # None /\ atom'[x][d] = None =>
              Rebuilt(x)' /\ d \notin Nearer(last'.cmd, last'.index)
<1> DEFINE saved == SavedBy(cmd, index)
<1>1. atom'[x] = atom[x] \/ atom'[x] # atom[x]
  OBVIOUS
<1>2. CASE atom'[x] = atom[x]
  BY <1>2
<1>3. CASE atom'[x] # atom[x]
  <2>1. /\ cmd.kind = "update" /\ index = [mode |-> "atom", at |-> x] /\ Replaced(cmd, index)
        /\ \A e \in Dirs : atom'[x][e] # atom[x][e] => e \in last'.walked \/ Refreshes(cmd, x)
    BY <1>3, RanTouches
  <2>2. /\ atom' = [atom EXCEPT ![x] = Stored(x, Refreshed(cmd, index), saved)]
        /\ index.at = x /\ index.mode = "atom"
    BY <2>1 DEF Replaced
  <2>3. /\ atom \in [Dirs -> [Dirs -> Entry] \cup {None}] /\ version[d] # None
        /\ Refreshed(cmd, index) \in BOOLEAN
    <3>1. version[d] \in Nat /\ None \notin Nat
      BY TypeFacts, TreeAssumption DEF Version
    <3> QED
      BY <3>1, TypeFacts DEF IndexType, Refreshed, Refreshes
  <2> HIDE DEF saved
  <2>4. atom'[x] = Stored(x, Refreshed(cmd, index), saved)
    BY <2>2, <2>3
  <2>5. Stored(x, Refreshed(cmd, index), saved) \in [Dirs -> Entry]
    BY <2>3, StoredType
  <2>6. atom'[x] # None
    BY <2>4, <2>5, TreeAssumption
  <2>7. ASSUME atom[x][d] # None, atom'[x][d] = None
        PROVE  Rebuilt(x)' /\ d \notin Nearer(last'.cmd, last'.index)
    <3>1. d \notin saved /\ Refreshed(cmd, index)
      BY <2>3, <2>4, <2>7 DEF Stored
    <3>2. last' # None /\ last'.cmd = cmd /\ last'.index = index
      BY DEF Ran, Did
    <3>3. cmd.starts = <<x>>
      BY <2>2, <3>1 DEF Refreshed, Refreshes
    <3>4. Rebuilt(x)'
      BY <2>1, <3>2, <3>3 DEF Rebuilt, IsRun, Located
    <3>5. d \notin Walked(cmd, index)
      BY <2>1, <3>1 DEF saved, SavedBy, Saves
    <3>6. Walked(cmd, index) = Nearer(cmd, index)
      BY <2>1, WalkedIs DEF TypeInv, TypeOK
    <3> QED
      BY <3>2, <3>4, <3>5, <3>6
  <2> QED
    BY <2>6, <2>7
<1> QED
  BY <1>1, <1>2, <1>3

\* A command takes from an index the entry of a directory that exists only if it makes
\* that index anew by force, or reports an error and leaves a split index that does not
\* parse, or rebuilds an atom index by a walk that does not have to come there:
\* InitializeIndexStore, Save, UseAtomIndexStore, Finish.
THEOREM EntriesAreKept == Spec => IndexKept
<1> DEFINE
  SplitKept(d) ==
    split[d] # None /\ split'[d] # split[d] =>
      \/ split'[d] = version[d]
      \/ split'[d] = Bad /\ d \in last'.walked /\ last'.exit = 1
      \/ last'.cmd.kind = "split" /\ last'.cmd.force
  AtomKept(d, x) ==
    atom[x] # None =>
      /\ atom'[x] # None
      /\ atom[x][d] # None /\ atom'[x][d] = None =>
           \/ last'.cmd.kind \in {"atom", "fuse"} /\ last'.cmd.force /\ last'.cmd.path = x
           \/ Rebuilt(x)' /\ d \notin Nearer(last'.cmd, last'.index)
<1>1. ASSUME TypeInv, [Next]_vars, commands' # commands, NEW d \in there, NEW x \in Dirs
      PROVE  SplitKept(d) /\ AtomKept(d, x)
  <2> USE <1>1
  <2>1. /\ d \in Dirs /\ atom \in [Dirs -> [Dirs -> Entry] \cup {None}]
        /\ split \in [Dirs -> Entry \cup {Bad}]
    BY TypeFacts DEF IndexType
  <2>2. ASSUME NEW cmd \in Commands, NEW index, Located(cmd, index), Ran(cmd, index)
        PROVE  SplitKept(d) /\ AtomKept(d, x)
    <3>1. AtomKept(d, x)
      BY <2>1, <2>2, RanKeeps
    <3>2. split'[d] # split[d] =>
            split'[d] = version[d] \/ (split'[d] = Bad /\ d \in last'.walked /\ last'.exit = 1)
      BY <2>1, <2>2 DEF Ran, WroteSplit, SavedBy
    <3> QED
      BY <3>1, <3>2
  <2>3. ASSUME NEW cmd \in Commands, NEW index, Located(cmd, index), Stopped(cmd, index)
        PROVE  SplitKept(d) /\ AtomKept(d, x)
    <3>1. /\ atom' = atom
          /\ split'[d] # split[d] =>
               split'[d] = version[d] \/ (split'[d] = Bad /\ d \in last'.walked /\ last'.exit = 1)
      BY <2>1, <2>3 DEF Stopped, WroteSplit
    <3> QED
      BY <3>1
  <2>4. ASSUME NEW cmd \in Commands, Refused(cmd) PROVE SplitKept(d) /\ AtomKept(d, x)
    <3>1. atom' = atom /\ split' = split
      BY <2>4 DEF Refused, indexes
    <3> QED
      BY <3>1
  <2>5. ASSUME NEW cmd \in Commands, Made(cmd) PROVE SplitKept(d) /\ AtomKept(d, x)
    <3>1. last'.cmd = cmd /\ cmd.path \in Dirs
      BY <2>5 DEF Made
    <3>2. CASE /\ cmd.kind = "split" /\ (split[cmd.path] = None \/ cmd.force)
               /\ split' = [split EXCEPT ![cmd.path] = 0] /\ UNCHANGED atom
      BY <2>1, <3>1, <3>2
    <3>3. ASSUME cmd.kind \in {"atom", "fuse"}, atom[cmd.path] = None \/ cmd.force,
                 NEW entries \in [Dirs -> Entry],
                 atom' = [atom EXCEPT ![cmd.path] = entries], split' = split
          PROVE  SplitKept(d) /\ AtomKept(d, x)
      <4>1. atom'[x] = IF x = cmd.path THEN entries ELSE atom[x]
        BY <2>1, <3>1, <3>3
      <4>2. entries # None
        BY TreeAssumption
      <4> QED
        BY <3>1, <3>3, <4>1, <4>2
    <3> QED
      BY <2>5, <3>2, <3>3 DEF Made
  <2>6. ~Quiet /\ ~UNCHANGED vars
    BY DEF Quiet, vars
  <2> QED
    BY <2>2, <2>3, <2>4, <2>5, <2>6, Steps
<1>2. TypeInv /\ [Next]_vars =>
     [commands' # commands =>
        \A d \in there :
          /\ split[d] # None /\ split'[d] # split[d] =>
               \/ split'[d] = version[d]
               \/ split'[d] = Bad /\ d \in last'.walked /\ last'.exit = 1
               \/ last'.cmd.kind = "split" /\ last'.cmd.force
          /\ \A x \in Dirs : atom[x] # None =>
               /\ atom'[x] # None
               /\ atom[x][d] # None /\ atom'[x][d] = None =>
                    \/ last'.cmd.kind \in {"atom", "fuse"} /\ last'.cmd.force /\ last'.cmd.path = x
                    \/ Rebuilt(x)' /\ d \notin Nearer(last'.cmd, last'.index)]_vars
  <2> SUFFICES ASSUME TypeInv, [Next]_vars, commands' # commands, NEW d \in there
               PROVE  SplitKept(d) /\ \A x \in Dirs : AtomKept(d, x)
    OBVIOUS
  <2>1. d \in Dirs
    BY DEF TypeInv, TypeOK
  <2>2. SplitKept(d)
    BY <1>1, <2>1
  <2>3. \A x \in Dirs : AtomKept(d, x)
    BY <1>1
  <2> QED
    BY <2>2, <2>3
<1> QED
  BY <1>2, TypeInvariant, PTL DEF Spec, IndexKept

-----------------------------------------------------------------------------
(* What fuse collects                                                      *)

\* What lies between two directories is on the trail.
LEMMA OnTrail ==
  ASSUME NEW d \in Dirs, NEW e \in Dirs, NEW z \in Dirs, IsBelow(d, z), IsBelow(z, e)
  PROVE  z \in ToSet(Trail(d, e))
<1> DEFINE m == Len(Path[d])
           n == Len(Path[e])
           j == Len(Path[z])
           t == Trail(d, e)
<1>1. m \in Nat \ {0} /\ n \in Nat \ {0} /\ j \in Nat \ {0} /\ Path[e] \in Seq(Dirs)
  BY PathFacts
<1>2. m <= j /\ j <= n /\ Path[e][j] = z
  BY BelowIs
<1>3. t = SubSeq(Path[e], m, n)
  BY DEF Trail
<1> HIDE DEF m, j, t
<1>4. m \in 1..n + 1 /\ n \in m - 1..n
  BY <1>1, <1>2
<1>5. t \in Seq(Dirs) /\ Len(t) = n - m + 1 /\ \A i \in 1..n - m + 1 : t[i] = Path[e][m + i - 1]
  BY <1>1, <1>2, <1>3, <1>4, SubSeqProperties
<1>6. j - m + 1 \in 1..n - m + 1 /\ m + (j - m + 1) - 1 = j
  BY <1>1, <1>2
<1>7. t[j - m + 1] = z /\ DOMAIN t = 1..n - m + 1
  BY <1>2, <1>5, <1>6, LenProperties
<1> QED
  BY <1>6, <1>7 DEF ToSet, t

\* Fuse takes what the index says that LocateIndex would find.
LEMMA CollectsLocated ==
  ASSUME IndexType, NEW d \in Dirs, NEW x \in Dirs, Locate[x] # NoIndex,
         LET e == Locate[x].at IN e # d /\ IsBelow(d, e) /\ Comes(d, e),
         Known(Locate[x], x) \notin {None, Bad}
  PROVE  Fused(d)[x] = Known(Locate[x], x)
<1>1. PICK e \in Dirs :
        /\ Locate[x] = Own(e) /\ HasIndex(e) /\ IsBelow(e, x)
        /\ \A k \in Dirs : IsBelow(k, x) /\ Len(Path[k]) > Len(Path[e]) => ~HasIndex(k)
  BY LocateFacts
<1>2. Locate[x].at = e /\ e # d /\ IsBelow(d, e) /\ Comes(d, e)
  BY <1>1 DEF Own
<1>3. atom[e] = None => x = e
  <2>1. SUFFICES ASSUME atom[e] = None, x # e PROVE FALSE
    OBVIOUS
  <2>2. Known(Locate[x], x) = split[x]
    BY <1>1, <2>1 DEF Own, Known
  <2>3. HasIndex(x)
    BY <2>2 DEF HasIndex
  <2>4. Len(Path[x]) > Len(Path[e]) /\ IsBelow(x, x)
    BY <1>1, <2>1, BelowFacts, PathFacts
  <2> QED
    BY <1>1, <2>3, <2>4
<1>4. IndexIn(e)[x] = Known(Locate[x], x)
  BY <1>1, <1>3 DEF Own, Known, IndexIn
<1>5. Reaches(d, e)
  <2>1. e \in there
    <3>1. IsBelow(e, e)
      BY BelowFacts
    <3> QED
      BY <1>2, <3>1, OnTrail DEF Comes, CanRead
  <2>2. \A z \in Dirs : IsBelow(d, z) /\ IsBelow(z, e) => CanRead(z)
    BY <1>2, OnTrail DEF Comes
  <2> QED
    BY <2>1, <2>2 DEF Reaches
<1>6. e \in Sources(d, x)
  BY <1>1, <1>2, <1>4, <1>5 DEF Sources
<1>7. IsDeepest(e, Sources(d, x))
  <2>1. ASSUME NEW k \in Sources(d, x) PROVE Len(Path[k]) <= Len(Path[e])
    <3>1. k \in Dirs /\ IsBelow(k, x) /\ IndexIn(k)[x] # None
      BY DEF Sources
    <3>2. HasIndex(k)
      BY <3>1 DEF IndexIn, HasIndex
    <3>3. Len(Path[k]) \in Nat /\ Len(Path[e]) \in Nat
      BY <3>1, PathFacts
    <3> QED
      BY <1>1, <3>1, <3>2, <3>3
  <2> QED
    BY <1>6, <2>1 DEF IsDeepest
<1>8. Fused(d) = Collected(d) /\ Collected(d)[x] = IndexIn(e)[x]
  BY <1>6, <1>7, FusedIs, CollectedIs
<1> QED
  BY <1>4, <1>8

\* Fuse takes for every directory below that of the new index the entry that check and
\* update would have used for it before: fuseScanDir, fuseAtom and fuseSplit.
THEOREM FuseCollectsAll == Spec => FuseCollects
<1> DEFINE
  Below(d) == {x \in Dirs \ {d} : IsBelow(d, x) /\ Comes(d, x)}
  Collects ==
    commands' # commands /\ last'.cmd.kind = "fuse" /\ last'.exit = 0 =>
      \A x \in Below(last'.cmd.path) :
        /\ Locate[x] # NoIndex /\ Locate[x].at \in Below(last'.cmd.path)
        /\ Known(Locate[x], x) \notin {None, Bad}
        => atom'[last'.cmd.path][x] = Known(Locate[x], x)
<1>1. TypeInv /\ [Next]_vars => Collects
  <2> SUFFICES ASSUME TypeInv, [Next]_vars, commands' # commands,
                      last'.cmd.kind = "fuse", last'.exit = 0,
                      NEW x \in Below(last'.cmd.path),
                      Locate[x] # NoIndex, Locate[x].at \in Below(last'.cmd.path),
                      Known(Locate[x], x) \notin {None, Bad}
               PROVE  atom'[last'.cmd.path][x] = Known(Locate[x], x)
    OBVIOUS
  <2>1. ASSUME NEW cmd \in Commands, NEW index, Located(cmd, index),
               Ran(cmd, index) \/ Stopped(cmd, index)
        PROVE  FALSE
    BY <2>1 DEF Located, Ran, Stopped, Did
  <2>2. ASSUME NEW cmd \in Commands, Refused(cmd) PROVE FALSE
    BY <2>2 DEF Refused
  <2>3. ASSUME NEW cmd \in Commands, Made(cmd)
        PROVE  atom'[last'.cmd.path][x] = Known(Locate[x], x)
    <3>1. last'.cmd = cmd /\ cmd.kind = "fuse" /\ cmd.path \in Dirs
      BY <2>3 DEF Made
    <3>2. PICK entries \in [Dirs -> Entry] :
            atom' = [atom EXCEPT ![cmd.path] = entries] /\ entries = Fused(cmd.path)
      BY <2>3, <3>1 DEF Made
    <3>3. atom'[cmd.path] = Fused(cmd.path)
      BY <3>1, <3>2, TypeFacts DEF IndexType
    <3>4. Fused(cmd.path)[x] = Known(Locate[x], x)
      BY <3>1, TypeFacts, CollectsLocated
    <3> QED
      BY <3>1, <3>3, <3>4
  <2>4. ~Quiet /\ ~UNCHANGED vars
    BY DEF Quiet, vars
  <2> QED
    BY <2>1, <2>2, <2>3, <2>4, Steps
<1>2. Spec => [][Collects]_vars
  BY <1>1, TypeInvariant, PTL DEF Spec
<1> QED
  BY <1>2, PTL DEF FuseCollects
=============================================================================
