---------------------------- MODULE ExtentsProofs ----------------------------
(***************************************************************************)
(* Proofs about Extents: what the lists of extents say about the files,    *)
(* what success and the reclaimed bytes mean.                              *)
(***************************************************************************)
EXTENDS Extents, SequenceTheorems, FiniteSetTheorems, FunctionTheorems,
        WellFoundedInduction, TLAPS

-----------------------------------------------------------------------------
(* Numbers                                                                 *)

\* A set of natural numbers has a least one, and if it is bounded a greatest one.
LEMMA Least ==
  ASSUME NEW T \in SUBSET Nat, T # {}
  PROVE  Min(T) \in T /\ \A y \in T : Min(T) <= y
<1> DEFINE R == {mn \in Nat \X Nat : mn[1] < mn[2]}
<1>1. IsWellFoundedOn(R, Nat)
  BY NatLessThanWellFounded DEF OpToRel
<1> HIDE DEF R
<1>2. PICK x \in T : \A y \in T : ~(<<y, x>> \in R)
  BY <1>1, WFMin
<1>3. \A y \in T : ~(y < x)
  BY <1>2 DEF R
<1>4. \A y \in T : x <= y
  BY <1>3
<1> QED
  BY <1>4 DEF Min

LEMMA Greatest ==
  ASSUME NEW n \in Nat, NEW T \in SUBSET (0..n), T # {}
  PROVE  Max(T) \in T /\ \A y \in T : Max(T) >= y
<1> DEFINE D == {n - y : y \in T}
<1>1. D \in SUBSET Nat /\ D # {}
  <2>1. \A y \in T : y \in 0..n
    OBVIOUS
  <2>2. \A y \in 0..n : n - y \in Nat
    OBVIOUS
  <2> QED
    BY <2>1, <2>2
<1>2. PICK d \in D : \A e \in D : d <= e
  <2> HIDE DEF D
  <2> QED
    BY <1>1, Least
<1>3. PICK x \in T : d = n - x
  OBVIOUS
<1>4. \A y \in T : x >= y
  <2> TAKE y \in T
  <2>1. n - x <= n - y
    BY <1>2, <1>3
  <2>2. x \in Int /\ y \in Int
    <3>1. x \in 0..n /\ y \in 0..n
      OBVIOUS
    <3> QED
      BY <3>1
  <2> QED
    BY <2>1, <2>2
<1> QED
  BY <1>4 DEF Max

\* Counting in blocks and counting in units.
LEMMA Scale ==
  ASSUME NEW a \in Int, NEW b \in Int
  PROVE  /\ a * Block \in Int /\ b * Block \in Int
         /\ a < b <=> a * Block < b * Block
         /\ a = b <=> a * Block = b * Block
         /\ (a + b) * Block = a * Block + b * Block
         /\ (a - b) * Block = a * Block - b * Block
         /\ (a + 1) * Block = a * Block + Block
         /\ 0 * Block = 0
<1>1. Block \in Nat \ {0}
  BY ExtentsAssumption
<1>2. a < b => a * Block < b * Block
  BY <1>1
<1>3. b < a => b * Block < a * Block
  BY <1>1
<1> QED
  BY <1>1, <1>2, <1>3

\* The wrap of an unsigned number.
LEMMA Wrap ==
  ASSUME NEW a \in Int, a <= Blocks * Block, -a <= Blocks * Block
  PROVE  /\ a >= 0 => a % Word = a
         /\ a < 0 => a % Word = Word + a /\ Word + a > Blocks * Block
         /\ a % Word \in Nat
<1> DEFINE n == Blocks * Block
<1>1. Word \in Nat /\ n \in Nat /\ Word > 2 * n
  <2>1. Blocks \in Nat /\ Block \in Nat /\ Word \in Nat /\ Word > 2 * Blocks * Block
    BY ExtentsAssumption
  <2>2. 2 * Blocks * Block = 2 * (Blocks * Block) /\ Blocks * Block \in Nat
    BY <2>1
  <2> QED
    BY <2>1, <2>2
<1> HIDE DEF n
<1>2. a <= n /\ -a <= n
  BY DEF n
<1>3. a < Word /\ -Word <= a /\ Word > 0 /\ Word + a > n
  BY <1>1, <1>2
<1>4. a >= 0 => a % Word = a
  BY <1>1, <1>3
<1>5. a < 0 => a % Word = Word + a
  BY <1>1, <1>3
<1>6. a % Word \in 0..Word-1
  BY <1>1, <1>3
<1> QED
  BY <1>1, <1>3, <1>4, <1>5, <1>6 DEF n

-----------------------------------------------------------------------------
(* The extents of a file                                                   *)

Layout == [BlockNo -> Place \cup {Hole}]

\* The extent e is m blocks of the file from block l on, and those that are not
\* exempt lie where it says.
IsRun(e, pl, exempt, l, m) ==
  /\ l \in BlockNo /\ m \in Nat \ {0} /\ l + m <= Blocks
  /\ e.logical = l * Block /\ e.length = m * Block
  /\ \E q \in Nat : /\ e.physical = q * Block
                    /\ \A x \in BlockNo : l <= x /\ x < l + m /\ x \notin exempt => pl[x] = q + (x - l)
Runs(pl, exempt) == {e \in ExtentRecord : \E l, m \in Nat : IsRun(e, pl, exempt, l, m)}

LEMMA Numbers ==
  /\ Blocks \in Nat \ {0} /\ Block \in Nat \ {0} /\ PageSize \in Nat \ {0} /\ MaxChanges \in Nat
  /\ BlockNo \subseteq Nat /\ BlockNo \subseteq Int /\ BlockNo = 0..Blocks - 1
  /\ Place \subseteq Nat /\ Hole \notin Place /\ None \notin Place
  /\ Blocks * Block \in Nat
  /\ \A x : x \in BlockNo <=> x \in Nat /\ x < Blocks
<1>1. /\ Blocks \in Nat \ {0} /\ Block \in Nat \ {0} /\ PageSize \in Nat \ {0} /\ MaxChanges \in Nat
      /\ Hole \notin Place /\ None \notin Place
  BY ExtentsAssumption
<1>2. Blocks * Block \in Nat
  BY <1>1
<1>3. (MaxChanges + 2) * (Blocks + 1) \in Nat
  BY <1>1
<1>4. Place \subseteq Nat
  BY <1>3 DEF Place
<1> QED
  BY <1>1, <1>2, <1>4 DEF BlockNo

\* An extent ends where the next one begins, at a hole or with the file, and its
\* blocks lie one after the other.
LEMMA ExtentIs ==
  ASSUME NEW pl \in Layout, NEW c, NEW b \in Begins(pl, c)
  PROVE  /\ Ending(pl, c, b) \in b + 1..Blocks
         /\ \/ Ending(pl, c, b) = Blocks \/ pl[Ending(pl, c, b)] = Hole
            \/ Ending(pl, c, b) \in Begins(pl, c)
         /\ \A x \in b + 1..Ending(pl, c, b) - 1 : x \notin Begins(pl, c)
         /\ \A x \in b..Ending(pl, c, b) - 1 : pl[x] # Hole /\ pl[x] = pl[b] + (x - b)
         /\ pl[b] \in Nat /\ b \in BlockNo
<1> DEFINE end == Ending(pl, c, b)
           E == {e \in b + 1..Blocks : e = Blocks \/ pl[e] = Hole \/ e \in Begins(pl, c)}
<1>1. b \in BlockNo /\ b \in Nat /\ b < Blocks /\ pl[b] # Hole /\ pl[b] \in Nat
  BY Numbers DEF Begins, Layout
<1>2. E \in SUBSET Nat /\ Blocks \in E
  BY <1>1, Numbers
<1>3. end \in E /\ \A y \in E : end <= y
  <2> DEFINE F == E
  <2>1. F \in SUBSET Nat /\ F # {}
    BY <1>2
  <2>2. end = Min(F)
    BY DEF Ending
  <2> HIDE DEF F, end
  <2>3. end \in F /\ \A y \in F : end <= y
    BY <2>1, <2>2, Least
  <2> QED
    BY <2>3 DEF F
<1> HIDE DEF end
<1>4. end \in b + 1..Blocks /\ end \in Nat
  BY <1>1, <1>3
<1>5. \A x \in b + 1..end - 1 : x \in BlockNo /\ x # Blocks /\ pl[x] # Hole /\ x \notin Begins(pl, c)
  <2> TAKE x \in b + 1..end - 1
  <2>1. x \in b + 1..Blocks /\ x \in BlockNo /\ x # Blocks /\ ~(end <= x)
    BY <1>1, <1>4, Numbers
  <2> QED
    BY <1>3, <2>1
<1> DEFINE T == {x \in Nat : x \in b..end - 1 /\ pl[x] # pl[b] + (x - b)}
<1>6. T = {}
  <2> SUFFICES ASSUME T # {}
               PROVE  FALSE
    OBVIOUS
  <2> DEFINE x == Min(T)
  <2>1. x \in T /\ \A y \in T : x <= y
    BY Least
  <2> HIDE DEF x
  <2>2. x \in Nat /\ x \in b..end - 1 /\ pl[x] # pl[b] + (x - b)
    BY <2>1
  <2>3. x # b
    BY <1>1, <2>2
  <2>4. /\ x \in b + 1..end - 1 /\ x - 1 \in b..end - 1 /\ x - 1 \in Nat /\ ~(x <= x - 1)
        /\ (x - 1) - b = (x - b) - 1 /\ x # 0
    BY <1>1, <1>4, <2>2, <2>3
  <2>5. pl[x - 1] = pl[b] + ((x - 1) - b)
    BY <2>1, <2>4
  <2>6. x \in BlockNo /\ pl[x] # Hole /\ x \notin Begins(pl, c)
    BY <1>5, <2>4
  <2>7. pl[x - 1] # Hole
    BY <1>1, <1>5, <2>4
  <2>8. pl[x] = pl[x - 1] + 1
    BY <2>4, <2>6, <2>7 DEF Begins
  <2>9. pl[b] + ((x - 1) - b) + 1 = pl[b] + (x - b)
    BY <1>1, <2>2
  <2> QED
    BY <2>2, <2>5, <2>8, <2>9
<1>7. \A x \in b..end - 1 : pl[x] # Hole /\ pl[x] = pl[b] + (x - b)
  <2> TAKE x \in b..end - 1
  <2>1. x \in Nat /\ (x = b \/ x \in b + 1..end - 1)
    BY <1>1, <1>4
  <2>2. pl[x] # Hole
    BY <1>1, <1>5, <2>1
  <2> QED
    BY <1>6, <2>1, <2>2
<1>8. end = Blocks \/ pl[end] = Hole \/ end \in Begins(pl, c)
  BY <1>3
<1> QED
  BY <1>1, <1>4, <1>5, <1>7, <1>8 DEF end

\* So an extent is what it says of the file.
LEMMA ExtentRuns ==
  ASSUME NEW pl \in Layout, NEW c, NEW b \in Begins(pl, c), NEW exempt
  PROVE  /\ IsRun(Extent(pl, c, b), pl, exempt, b, Ending(pl, c, b) - b)
         /\ Extent(pl, c, b) \in Runs(pl, exempt)
         /\ Extent(pl, c, b).logical = b * Block
         /\ Extent(pl, c, b).logical + Extent(pl, c, b).length = Ending(pl, c, b) * Block
<1> DEFINE end == Ending(pl, c, b)
           m == end - b
           e == Extent(pl, c, b)
<1>1. /\ end \in b + 1..Blocks /\ \A x \in b..end - 1 : pl[x] = pl[b] + (x - b)
      /\ pl[b] \in Nat /\ b \in BlockNo
  BY ExtentIs
<1> HIDE DEF end
<1>2. b \in Nat /\ m \in Nat \ {0} /\ b + m = end /\ b + m <= Blocks /\ end \in Nat
  BY <1>1, Numbers
<1>3. e = [logical |-> b * Block, physical |-> pl[b] * Block, length |-> m * Block]
  BY DEF Extent, end
<1>4. b * Block \in Nat /\ m * Block \in Nat /\ pl[b] * Block \in Nat
  BY <1>1, <1>2, Numbers
<1>5. \A x \in BlockNo : b <= x /\ x < b + m => x \in b..end - 1
  BY <1>2, Numbers
<1> HIDE DEF e
<1>6. e \in ExtentRecord
  BY <1>3, <1>4 DEF ExtentRecord
<1>7. IsRun(e, pl, exempt, b, m)
  BY <1>1, <1>2, <1>3, <1>5 DEF IsRun
<1>8. b * Block + m * Block = end * Block
  BY <1>2, Scale
<1> QED
  BY <1>2, <1>3, <1>6, <1>7, <1>8 DEF Runs, e, end

-----------------------------------------------------------------------------
(* The extents in their order                                              *)

Enumerates(s, S) ==
  /\ s \in [1..Cardinality(S) -> S]
  /\ \A i, j \in 1..Cardinality(S) : i < j => s[i] < s[j]

LEMMA BlockSets ==
  ASSUME NEW S \in SUBSET BlockNo
  PROVE  IsFiniteSet(S) /\ Cardinality(S) \in Nat
<1>1. IsFiniteSet(BlockNo)
  BY Numbers, FS_Interval
<1> QED
  BY <1>1, FS_Subset, FS_CardinalityType

\* A set of blocks has an order: take its greatest element away and put it at the end.
LEMMA HasOrder ==
  ASSUME NEW S \in SUBSET BlockNo
  PROVE  \E s : Enumerates(s, S)
<1> DEFINE T == {n \in Nat : \E B \in SUBSET BlockNo :
                   Cardinality(B) = n /\ ~\E s : Enumerates(s, B)}
<1>1. T = {}
  <2> SUFFICES ASSUME T # {}
               PROVE  FALSE
    OBVIOUS
  <2> DEFINE n == Min(T)
  <2>1. n \in T /\ \A y \in T : n <= y
    BY Least
  <2> HIDE DEF n
  <2>2. PICK B \in SUBSET BlockNo : Cardinality(B) = n /\ ~\E s : Enumerates(s, B)
    BY <2>1
  <2>3. n \in Nat /\ IsFiniteSet(B)
    BY <2>1, BlockSets
  <2>4. B # {}
    <3> SUFFICES ASSUME B = {}
                 PROVE  FALSE
      OBVIOUS
    <3>1. Cardinality(B) = 0 /\ 1..0 = {}
      BY FS_EmptySet
    <3>2. Enumerates([i \in 1..0 |-> i], B)
      BY <3>1 DEF Enumerates
    <3> QED
      BY <2>2, <3>2
  <2> DEFINE top == Max(B)
             A == B \ {top}
  <2>5. top \in B /\ \A y \in B : top >= y
    <3>1. Blocks \in Nat /\ B \subseteq 0..Blocks
      BY Numbers
    <3> QED
      BY <2>4, <3>1, Greatest
  <2> HIDE DEF top
  <2>6. A \in SUBSET BlockNo /\ Cardinality(A) = n - 1 /\ n - 1 \in Nat
    <3>1. Cardinality(A) = Cardinality(B) - 1 /\ Cardinality(A) \in Nat
      BY <2>3, <2>5, FS_RemoveElement, BlockSets
    <3> QED
      BY <2>2, <2>3, <3>1
  <2>7. PICK s : Enumerates(s, A)
    <3>1. n - 1 \notin T
      BY <2>1, <2>3, <2>6
    <3> HIDE DEF A
    <3> QED
      BY <2>6, <3>1
  <2> DEFINE t == [i \in 1..n |-> IF i = n THEN top ELSE s[i]]
  <2>8. \A i \in 1..n : i = n \/ i \in 1..n - 1
    BY <2>3
  <2>9. s \in [1..n - 1 -> A] /\ \A i, j \in 1..n - 1 : i < j => s[i] < s[j]
    BY <2>6, <2>7 DEF Enumerates
  <2>10. \A y \in A : y < top /\ y \in Int
    BY <2>5, Numbers
  <2>11. \A i, j \in 1..n : i < j => t[i] < t[j]
    <3> SUFFICES ASSUME NEW i \in 1..n, NEW j \in 1..n, i < j
                 PROVE  t[i] < t[j]
      OBVIOUS
    <3>1. i # n /\ i \in 1..n - 1
      BY <2>3
    <3>2. CASE j = n
      <4>1. t[i] = s[i] /\ t[j] = top /\ s[i] \in A
        BY <2>9, <3>1, <3>2
      <4> HIDE DEF t, A
      <4> QED
        BY <2>10, <4>1
    <3>3. CASE j # n
      <4>1. j \in 1..n - 1
        BY <2>8, <3>3
      <4> QED
        BY <2>9, <3>1, <3>3, <4>1
    <3> QED
      BY <3>2, <3>3
  <2>12. t \in [1..n -> B]
    <3> SUFFICES ASSUME NEW i \in 1..n
                 PROVE  (IF i = n THEN top ELSE s[i]) \in B
      OBVIOUS
    <3> QED
      BY <2>5, <2>8, <2>9
  <2> HIDE DEF t
  <2>13. Enumerates(t, B)
    BY <2>2, <2>11, <2>12 DEF Enumerates
  <2> QED
    BY <2>2, <2>13
<1>2. Cardinality(S) \in Nat
  BY BlockSets
<1> QED
  BY <1>1, <1>2

\* What InOrder gives is that order, and it leaves nothing out.
LEMMA InOrderIs ==
  ASSUME NEW S \in SUBSET BlockNo
  PROVE  /\ Enumerates(InOrder(S), S) /\ DOMAIN InOrder(S) = 1..Cardinality(S)
         /\ \A x \in S : \E i \in 1..Cardinality(S) : InOrder(S)[i] = x
<1> DEFINE n == Cardinality(S)
           s == InOrder(S)
<1>1. s = CHOOSE t \in [1..n -> S] : \A i, j \in DOMAIN t : i < j => t[i] < t[j]
  BY DEF InOrder
<1>2. \E t \in [1..n -> S] : \A i, j \in DOMAIN t : i < j => t[i] < t[j]
  <2>1. PICK t : Enumerates(t, S)
    BY HasOrder
  <2>2. t \in [1..n -> S] /\ \A i, j \in DOMAIN t : i < j => t[i] < t[j]
    BY <2>1 DEF Enumerates
  <2> QED
    BY <2>2
<1> HIDE DEF s
<1>3. s \in [1..n -> S] /\ \A i, j \in DOMAIN s : i < j => s[i] < s[j]
  BY <1>1, <1>2
<1>4. n \in Nat /\ IsFiniteSet(S)
  BY BlockSets
<1>5. \A i, j \in 1..n : s[i] = s[j] => i = j
  <2> SUFFICES ASSUME NEW i \in 1..n, NEW j \in 1..n, i # j
               PROVE  s[i] # s[j]
    OBVIOUS
  <2>1. s[i] \in Int /\ s[j] \in Int
    BY <1>3, Numbers
  <2>2. i < j \/ j < i
    BY <1>4
  <2> QED
    BY <1>3, <2>1, <2>2
<1>6. s \in Injection(1..n, S)
  BY <1>3, <1>5, Fun_IsInj
<1>7. Cardinality(1..n) = n /\ IsFiniteSet(1..n)
  BY <1>4, FS_Interval
<1> HIDE DEF n
<1>8. s \in Surjection(1..n, S)
  BY <1>4, <1>6, <1>7, FS_Injection DEF n
<1>9. \A x \in S : \E i \in 1..n : s[i] = x
  BY <1>8 DEF Surjection
<1> QED
  BY <1>3, <1>9 DEF Enumerates, n, s

\* A list of extents that is complete and in order.
LEMMA ListIs ==
  ASSUME NEW pl \in Layout, NEW c
  PROVE  LET all == ExtentsOf(pl, c)
             n == Cardinality(Begins(pl, c))
         IN  /\ n \in Nat /\ all \in Seq(ExtentRecord) /\ Len(all) = n /\ DOMAIN all = 1..n
             /\ \A i \in 1..n : \E b \in Begins(pl, c) : all[i] = Extent(pl, c, b)
             /\ \A b \in Begins(pl, c) : \E i \in 1..n : all[i] = Extent(pl, c, b)
             /\ \A i, j \in 1..n : i < j => all[i].logical + all[i].length <= all[j].logical
<1> DEFINE B == Begins(pl, c)
           n == Cardinality(B)
           s == InOrder(B)
           all == ExtentsOf(pl, c)
<1>1. B \in SUBSET BlockNo
  BY DEF Begins
<1>2. /\ n \in Nat /\ s \in [1..n -> B] /\ \A i, j \in 1..n : i < j => s[i] < s[j]
      /\ \A x \in B : \E i \in 1..n : s[i] = x
  <2> HIDE DEF B
  <2> QED
    BY <1>1, BlockSets, InOrderIs DEF Enumerates
<1> HIDE DEF s, n
<1>3. all = [i \in 1..n |-> Extent(pl, c, s[i])]
  BY <1>2 DEF ExtentsOf, s
<1>4. \A b \in B : Extent(pl, c, b) \in ExtentRecord
  BY ExtentRuns DEF Runs
<1> HIDE DEF B, all
<1>5. \A i \in 1..n : all[i] = Extent(pl, c, s[i]) /\ s[i] \in B
  BY <1>2, <1>3
<1>6. all \in [1..n -> ExtentRecord]
  BY <1>3, <1>4, <1>5
<1>7. all \in Seq(ExtentRecord)
  BY <1>2, <1>6, SeqDef
<1>8. DOMAIN all = 1..n /\ Len(all) = n
  BY <1>2, <1>6, <1>7, LenProperties
<1>9. ASSUME NEW i \in 1..n, NEW j \in 1..n, i < j
      PROVE  all[i].logical + all[i].length <= all[j].logical
  <2>1. s[i] \in B /\ s[j] \in B /\ s[i] < s[j] /\ s[i] \in Int /\ s[j] \in Int
    BY <1>1, <1>2, <1>9, Numbers
  <2> DEFINE end == Ending(pl, c, s[i])
  <2>2. /\ end \in s[i] + 1..Blocks /\ \A x \in s[i] + 1..end - 1 : x \notin B
        /\ all[i].logical + all[i].length = end * Block /\ all[j].logical = s[j] * Block
    BY <1>5, <2>1, ExtentIs, ExtentRuns DEF B
  <2> HIDE DEF end
  <2>3. end \in Int /\ ~(s[j] < end)
    <3>1. end \in Int
      BY <2>1, <2>2, Numbers
    <3>2. s[j] < end => s[j] \in s[i] + 1..end - 1
      BY <2>1, <3>1
    <3> QED
      BY <2>1, <2>2, <3>1, <3>2
  <2>4. end <= s[j]
    BY <2>1, <2>3
  <2>5. end = s[j] \/ end < s[j]
    BY <2>1, <2>3, <2>4
  <2>6. end * Block \in Int /\ s[j] * Block \in Int /\ (end < s[j] => end * Block < s[j] * Block)
    BY <2>1, <2>3, Scale
  <2>7. end * Block <= s[j] * Block
    BY <2>5, <2>6
  <2> QED
    BY <2>2, <2>7
<1> QED
  BY <1>2, <1>5, <1>7, <1>8, <1>9 DEF B, n, all

-----------------------------------------------------------------------------
(* A page of the list                                                      *)

\* The extent i of f overlaps the range of length n at start.
Hit(f, i, n) ==
  /\ Now(f)[i].logical + Now(f)[i].length > start
  /\ Now(f)[i].logical < start + n

LEMMA NowIs ==
  ASSUME NEW f, place[f] \in Layout
  PROVE  /\ Len(Now(f)) \in Nat /\ Now(f) \in Seq(ExtentRecord) /\ DOMAIN Now(f) = 1..Len(Now(f))
         /\ \A i \in 1..Len(Now(f)) :
              /\ Now(f)[i] \in ExtentRecord
              /\ \E b \in Begins(place[f], cut[f]) : Now(f)[i] = Extent(place[f], cut[f], b)
         /\ \A b \in Begins(place[f], cut[f]) :
              \E i \in 1..Len(Now(f)) : Now(f)[i] = Extent(place[f], cut[f], b)
         /\ \A i, j \in 1..Len(Now(f)) :
              i < j => Now(f)[i].logical + Now(f)[i].length <= Now(f)[j].logical
<1> DEFINE all == ExtentsOf(place[f], cut[f])
           n == Cardinality(Begins(place[f], cut[f]))
<1>1. /\ n \in Nat /\ all \in Seq(ExtentRecord) /\ Len(all) = n /\ DOMAIN all = 1..n
      /\ \A i \in 1..n : \E b \in Begins(place[f], cut[f]) : all[i] = Extent(place[f], cut[f], b)
      /\ \A b \in Begins(place[f], cut[f]) : \E i \in 1..n : all[i] = Extent(place[f], cut[f], b)
      /\ \A i, j \in 1..n : i < j => all[i].logical + all[i].length <= all[j].logical
  BY ListIs
<1>2. \A i \in 1..n : all[i] \in ExtentRecord
  <2> HIDE DEF all, n
  <2> QED
    BY <1>1, ElementOfSeq
<1>3. all = Now(f)
  BY DEF Now
<1> HIDE DEF all, n
<1> QED
  BY <1>1, <1>2, <1>3

\* The answer is the part of the list from i to j: from the first extent that overlaps
\* the range to the last one that does or fits on the page.
AnswerFrom(f, n, i, j) ==
  /\ i <= j /\ Hit(f, i, n) /\ Hit(f, j, n)
  /\ \A k \in 1..Len(Now(f)) : k < i => ~Hit(f, k, n)
  /\ \A k \in 1..Len(Now(f)) : k > j => ~Hit(f, k, n) \/ k >= i + PageSize
  /\ Answer(f, n) \in Seq(ExtentRecord) /\ Len(Answer(f, n)) = j - i + 1
  /\ \A k \in 1..j - i + 1 : Answer(f, n)[k] = Now(f)[i + k - 1]

LEMMA AnswerIs ==
  ASSUME NEW f, place[f] \in Layout, NEW n
  PROVE  \/ Answer(f, n) = <<>> /\ \A i \in 1..Len(Now(f)) : ~Hit(f, i, n)
         \/ \E i, j \in 1..Len(Now(f)) : AnswerFrom(f, n, i, j)
<1> DEFINE all == Now(f)
           hits == {i \in DOMAIN all : /\ all[i].logical + all[i].length > start
                                       /\ all[i].logical < start + n}
           page == {i \in hits : i < Min(hits) + PageSize}
<1>1. Answer(f, n) = IF hits = {} THEN <<>> ELSE SubSeq(all, Min(hits), Max(page))
  BY DEF Answer
<1>2. /\ Len(all) \in Nat /\ DOMAIN all = 1..Len(all)
      /\ \A i \in 1..Len(all) : all[i] \in ExtentRecord
  BY NowIs
<1>3. \A i \in 1..Len(all) : i \in hits <=> Hit(f, i, n)
  BY <1>2 DEF Hit
<1>4. hits \subseteq 1..Len(all)
  BY <1>2
<1> HIDE DEF hits, all
<1>5. CASE hits = {}
  BY <1>1, <1>3, <1>5 DEF all
<1>6. CASE hits # {}
  <2> DEFINE i == Min(hits)
             j == Max(page)
  <2>1. i \in hits /\ \A k \in hits : i <= k
    <3>1. hits \in SUBSET Nat
      BY <1>2, <1>4
    <3> QED
      BY <1>6, <3>1, Least
  <2> HIDE DEF i
  <2>2. i \in 1..Len(all) /\ page = {k \in hits : k < i + PageSize} /\ i \in page
    <3>1. i \in 1..Len(all)
      BY <1>4, <2>1
    <3>2. page = {k \in hits : k < i + PageSize}
      BY DEF i
    <3>3. i < i + PageSize
      BY <1>2, <3>1, Numbers
    <3> QED
      BY <2>1, <3>1, <3>2, <3>3
  <2> HIDE DEF page
  <2>3. j \in page /\ \A k \in page : j >= k
    <3>1. page \in SUBSET (0..Len(all))
      <4>1. 1..Len(all) \subseteq 0..Len(all) /\ page \subseteq hits
        BY <1>2, <2>2
      <4> QED
        BY <1>4, <4>1
    <3> QED
      BY <1>2, <2>2, <3>1, Greatest
  <2> HIDE DEF j
  <2>4. j \in 1..Len(all) /\ i <= j /\ j \in hits
    BY <1>2, <1>4, <2>1, <2>2, <2>3
  <2>5. \A k \in 1..Len(all) : k < i => ~Hit(f, k, n)
    BY <1>2, <1>3, <2>1, <2>2
  <2>6. \A k \in 1..Len(all) : k > j => ~Hit(f, k, n) \/ k >= i + PageSize
    <3> SUFFICES ASSUME NEW k \in 1..Len(all), k > j, Hit(f, k, n), ~(k >= i + PageSize)
                 PROVE  FALSE
      OBVIOUS
    <3>1. k \in page
      BY <1>2, <1>3, <2>2, Numbers
    <3> QED
      BY <1>2, <2>3, <2>4, <3>1
  <2>7. Answer(f, n) = SubSeq(all, i, j)
    BY <1>1, <1>6 DEF i, j
  <2>8. /\ SubSeq(all, i, j) \in Seq(ExtentRecord) /\ Len(SubSeq(all, i, j)) = j - i + 1
        /\ \A k \in 1..j - i + 1 : SubSeq(all, i, j)[k] = all[i + k - 1]
    <3>1. i \in Int /\ j \in Int /\ \A k \in i..j : all[k] \in ExtentRecord
      BY <1>2, <2>2, <2>4
    <3> QED
      BY <2>4, <3>1, SubSeqProperties
  <2> QED
    BY <1>3, <2>1, <2>2, <2>4, <2>5, <2>6, <2>7, <2>8 DEF all, AnswerFrom
<1> QED
  BY <1>5, <1>6

\* What FIEMAP answers are extents of the file.
LEMMA AnswerRuns ==
  ASSUME NEW f, place[f] \in Layout, NEW n, NEW exempt
  PROVE  /\ Answer(f, n) \in Seq(ExtentRecord) /\ DOMAIN Answer(f, n) = 1..Len(Answer(f, n))
         /\ \A k \in DOMAIN Answer(f, n) : Answer(f, n)[k] \in Runs(place[f], exempt)
<1>1. \A i \in 1..Len(Now(f)) : Now(f)[i] \in Runs(place[f], exempt)
  <2> SUFFICES ASSUME NEW i \in 1..Len(Now(f))
               PROVE  Now(f)[i] \in Runs(place[f], exempt)
    OBVIOUS
  <2>1. PICK b \in Begins(place[f], cut[f]) : Now(f)[i] = Extent(place[f], cut[f], b)
    BY NowIs
  <2> QED
    BY <2>1, ExtentRuns
<1>2. CASE Answer(f, n) = <<>>
  BY <1>2
<1>3. ASSUME NEW i \in 1..Len(Now(f)), NEW j \in 1..Len(Now(f)), i <= j,
             Answer(f, n) \in Seq(ExtentRecord), Len(Answer(f, n)) = j - i + 1,
             \A k \in 1..j - i + 1 : Answer(f, n)[k] = Now(f)[i + k - 1]
      PROVE  /\ DOMAIN Answer(f, n) = 1..Len(Answer(f, n))
             /\ \A k \in DOMAIN Answer(f, n) : Answer(f, n)[k] \in Runs(place[f], exempt)
  <2>1. DOMAIN Answer(f, n) = 1..j - i + 1
    BY <1>3, LenProperties
  <2>2. \A k \in 1..j - i + 1 : i + k - 1 \in 1..Len(Now(f))
    BY NowIs
  <2> QED
    BY <1>1, <1>3, <2>1, <2>2
<1> QED
  BY <1>2, <1>3, AnswerIs DEF AnswerFrom

-----------------------------------------------------------------------------
(* Types, and what the lists say                                           *)

OffsInv ==
  /\ pc \in {"stat", "page"} => offs = 0 /\ reclaimed = 0
  /\ pc \in {"stat2", "page2", "range"} => offs < lsize["src"]
  /\ pc = "ok" => offs >= lsize["src"]
  /\ reclaimed <= offs /\ reclaimed <= lsize["src"]

\* What is in a list is still true of the blocks that nobody changed; the list of the
\* destination is read anew when its blocks were shared.
ListInv ==
  \A f \in File : (f = "dst" => pc \in {"page2", "range"}) =>
    \A i \in DOMAIN el[f] : el[f][i] \in Runs(place[f], changed)

\* Up to the offset the files share the blocks that nobody changed.
DoneInv ==
  \A b \in BlockNo \ changed : b * Block < offs => place["src"][b] = place["dst"][b]

\* Places for the blocks of the files at the start, and for those that are written.
LEMMA Free ==
  /\ \A b \in BlockNo : b + 1 \in Place /\ Blocks + b + 1 \in Place
  /\ \A c \in Nat, b \in BlockNo : c < MaxChanges => (c + 2) * (Blocks + 1) + b \in Place
  /\ Inline \in Place
<1> DEFINE n == Blocks + 1
           top == (MaxChanges + 2) * n
<1>1. n \in Nat /\ MaxChanges \in Nat /\ top \in Nat /\ Blocks \in Nat
  BY Numbers
<1>2. Place = 0..top
  BY DEF Place
<1>3. 2 * n <= top
  BY <1>1
<1>4. ASSUME NEW c \in Nat, c < MaxChanges
      PROVE  (c + 2) * n \in Nat /\ (c + 2) * n + n <= top
  <2>1. c + 3 <= MaxChanges + 2
    BY <1>1, <1>4
  <2>2. (c + 3) * n <= top /\ (c + 3) * n = (c + 2) * n + n
    BY <1>1, <2>1
  <2> QED
    BY <1>1, <2>2
<1>5. \A b \in BlockNo : b \in Nat /\ b < n
  BY Numbers
<1> HIDE DEF top
<1>6. ASSUME NEW c \in Nat, NEW b \in BlockNo, c < MaxChanges
      PROVE  (c + 2) * n + b \in Place
  <2> DEFINE m == (c + 2) * n
  <2>1. m \in Nat /\ m + n <= top
    BY <1>4, <1>6
  <2> HIDE DEF m, n
  <2>2. m + b \in 0..top
    BY <1>1, <1>5, <2>1
  <2> QED
    BY <1>2, <2>2 DEF m
<1>7. \A b \in BlockNo : b + 1 \in 0..top /\ Blocks + b + 1 \in 0..top
  BY <1>1, <1>3, <1>5
<1>8. Inline \in 0..top
  BY <1>1 DEF Inline
<1> QED
  BY <1>2, <1>6, <1>7, <1>8

\* The numbers of a state.
LEMMA SizeIs == \A n \in Sizes \cup {0} : n \in Nat /\ n <= Blocks * Block
<1>1. Sizes \subseteq 0..Blocks * Block
  BY ExtentsAssumption
<1> QED
  BY <1>1, Numbers

LEMMA Counts ==
  ASSUME TypeOK
  PROVE  /\ \A f \in File : /\ size[f] \in Nat /\ size[f] <= Blocks * Block
                            /\ lsize[f] \in Nat /\ lsize[f] <= Blocks * Block
         /\ "src" \in File /\ "dst" \in File
         /\ lsize["src"] \in Nat /\ lsize["src"] <= Blocks * Block
         /\ start \in Nat /\ start <= Blocks * Block
         /\ offs \in Nat /\ offs <= Blocks * Block
         /\ reclaimed \in Nat /\ reclaimed <= Blocks * Block
<1>1. /\ size \in [File -> Sizes \cup {0}] /\ lsize \in [File -> Sizes \cup {0}]
      /\ start \in 0..Blocks * Block /\ offs \in 0..Blocks * Block
      /\ reclaimed \in 0..Blocks * Block
  BY DEF TypeOK
<1>2. \A f \in File : size[f] \in Sizes \cup {0} /\ lsize[f] \in Sizes \cup {0}
  BY <1>1
<1>3. "src" \in File /\ "dst" \in File
  BY DEF File
<1>4. /\ start \in Nat /\ start <= Blocks * Block /\ offs \in Nat /\ offs <= Blocks * Block
      /\ reclaimed \in Nat /\ reclaimed <= Blocks * Block
  BY <1>1, Numbers
<1> QED
  BY <1>2, <1>3, <1>4, SizeIs

\* What an extent of a list is.
LEMMA RunIs ==
  ASSUME NEW pl, NEW e \in Runs(pl, changed)
  PROVE  /\ e \in ExtentRecord
         /\ e.logical \in Nat /\ e.length \in Nat \ {0} /\ e.physical \in Nat
         /\ e.logical + e.length <= Blocks * Block
<1>1. PICK l \in Nat, m \in Nat : IsRun(e, pl, changed, l, m)
  BY DEF Runs
<1>2. /\ m \in Nat \ {0} /\ l + m <= Blocks /\ e.logical = l * Block /\ e.length = m * Block
  BY <1>1 DEF IsRun
<1>3. 0 < m /\ (l + m) * Block = l * Block + m * Block
  BY <1>2, Scale
<1>4. 0 * Block < m * Block /\ 0 * Block = 0
  BY <1>2, <1>3, Scale
<1>5. (l + m) * Block <= Blocks * Block
  <2>1. l + m = Blocks \/ l + m < Blocks
    BY <1>2, Numbers
  <2>2. (l + m) * Block \in Int /\ Blocks * Block \in Int
        /\ (l + m < Blocks => (l + m) * Block < Blocks * Block)
    BY <1>2, Numbers, Scale
  <2> QED
    BY <2>1, <2>2
<1>6. e \in ExtentRecord /\ e.logical \in Nat /\ e.length \in Nat /\ e.physical \in Nat
  BY DEF Runs, ExtentRecord
<1> QED
  BY <1>2, <1>3, <1>4, <1>5, <1>6

\* The extents that begin at the offset.
LEMMA FoundIs ==
  ASSUME TypeOK, ListInv, pc = "range"
  PROVE  /\ \A a \in E1 : a \in Runs(place["src"], changed) /\ a.logical = offs
         /\ \A b \in E2 : b \in Runs(place["dst"], changed) /\ b.logical = offs
BY DEF E1, E2, Find, ToSet, ListInv, File

\* The range that is shared does not go beyond the source or an extent that begins
\* there, and is not empty.
LEMMA RangeIs ==
  ASSUME TypeOK, OffsInv, ListInv, pc = "range"
  PROVE  /\ RangeLength \in Nat \ {0} /\ RangeLength <= lsize["src"] - offs
         /\ offs + RangeLength <= lsize["src"] /\ \A a \in E1 : RangeLength <= a.length
<1> DEFINE rest == lsize["src"] - offs
           ends == {rest} \cup {a.length : a \in E1}
                          \cup {b.length : b \in {x \in E2 : E1 # {}}}
<1>1. RangeLength = Min(ends)
  BY DEF RangeLength
<1>2. lsize["src"] \in Nat /\ offs \in Nat
  BY Counts
<1>3. rest \in Nat \ {0}
  BY <1>2 DEF OffsInv
<1>4. \A a \in E1 \cup E2 : a.length \in Nat \ {0}
  BY FoundIs, RunIs
<1> HIDE DEF rest
<1>5. ends \subseteq Nat \ {0} /\ rest \in ends /\ \A a \in E1 : a.length \in ends
  BY <1>3, <1>4
<1> HIDE DEF ends
<1>6. Min(ends) \in ends /\ \A y \in ends : Min(ends) <= y
  <2>1. ends \in SUBSET Nat /\ ends # {}
    BY <1>5
  <2> QED
    BY <2>1, Least
<1>7. RangeLength \in Nat \ {0} /\ RangeLength <= rest /\ \A a \in E1 : RangeLength <= a.length
  BY <1>1, <1>5, <1>6
<1> QED
  BY <1>2, <1>7 DEF rest

\* An extent stays true while only exempt blocks get another place.
LEMMA RunsKeep ==
  ASSUME NEW pl, NEW pl2, NEW ex, NEW ex2, ex \subseteq ex2,
         \A b \in BlockNo \ ex2 : pl2[b] = pl[b],
         NEW e \in Runs(pl, ex)
  PROVE  e \in Runs(pl2, ex2)
<1>1. PICK l \in Nat, m \in Nat : IsRun(e, pl, ex, l, m)
  BY DEF Runs
<1>2. PICK q \in Nat : /\ e.physical = q * Block
                       /\ \A x \in BlockNo : l <= x /\ x < l + m /\ x \notin ex => pl[x] = q + (x - l)
  BY <1>1 DEF IsRun
<1>3. \A x \in BlockNo : l <= x /\ x < l + m /\ x \notin ex2 => pl2[x] = q + (x - l)
  BY <1>2
<1>4. IsRun(e, pl2, ex2, l, m)
  BY <1>1, <1>2, <1>3 DEF IsRun
<1> QED
  BY <1>4 DEF Runs

\* A change gives new places to changed blocks only.
LEMMA ChangeIs ==
  ASSUME TypeOK, NEW f \in File, Change(f)
  PROVE  /\ place' \in [File -> Layout] /\ cut' \in [File -> SUBSET BlockNo]
         /\ size' \in [File -> Sizes \cup {0}] /\ changes' \in 0..MaxChanges
         /\ differs' \subseteq BlockNo /\ changed' \subseteq BlockNo /\ changed \subseteq changed'
         /\ stale' = stale \cup {f} /\ stale' \subseteq File /\ changed' # {}
         /\ \A g \in File : \A b \in BlockNo \ changed' : place'[g][b] = place[g][b]
         /\ \A g \in File \ {f} : /\ place'[g] = place[g] /\ cut'[g] = cut[g]
                                  /\ size'[g] = size[g]
         /\ pc \notin {"ok", "failed", "unsupported"}
         /\ UNCHANGED <<pc, lsize, start, el, offs, reclaimed, done, old>>
<1> DEFINE free(b) == (changes + 2) * (Blocks + 1) + b
<1>1. /\ place \in [File -> Layout] /\ cut \in [File -> SUBSET BlockNo]
      /\ size \in [File -> Sizes \cup {0}] /\ changes \in 0..MaxChanges
      /\ differs \subseteq BlockNo /\ changed \subseteq BlockNo /\ stale \subseteq File
  BY DEF TypeOK, Layout
<1>2. /\ changes < MaxChanges /\ changes' = changes + 1 /\ stale' = stale \cup {f}
      /\ pc \notin {"ok", "failed", "unsupported"}
      /\ UNCHANGED <<pc, lsize, start, el, offs, reclaimed, done, old>>
  BY DEF Change
<1>3. changes' \in 0..MaxChanges /\ changes \in Nat /\ stale' \subseteq File
  BY <1>1, <1>2, Numbers
<1>4. \A b \in BlockNo : free(b) \in Place \cup {Hole}
  BY <1>2, <1>3, Free
<1>5. ASSUME NEW b \in Used(size[f]), place' = [place EXCEPT ![f][b] = free(b)],
             differs' = differs \cup {b}, changed' = changed \cup {b}, UNCHANGED <<size, cut>>
      PROVE  /\ place' \in [File -> Layout] /\ cut' \in [File -> SUBSET BlockNo]
             /\ size' \in [File -> Sizes \cup {0}] /\ changed' # {}
             /\ differs' \subseteq BlockNo /\ changed' \subseteq BlockNo /\ changed \subseteq changed'
             /\ \A g \in File : \A x \in BlockNo \ changed' : place'[g][x] = place[g][x]
             /\ \A g \in File \ {f} : place'[g] = place[g] /\ cut'[g] = cut[g] /\ size'[g] = size[g]
  <2>1. b \in BlockNo /\ free(b) \in Place \cup {Hole}
    BY <1>4 DEF Used
  <2> HIDE DEF free
  <2>2. place' \in [File -> Layout]
    BY <1>1, <1>5, <2>1 DEF Layout
  <2>3. \A g \in File : \A x \in BlockNo \ changed' : place'[g][x] = place[g][x]
    BY <1>1, <1>5, <2>1 DEF Layout
  <2> QED
    BY <1>1, <1>5, <2>1, <2>2, <2>3
<1>6. ASSUME place' = [place EXCEPT ![f] = [b \in BlockNo |-> IF @[b] = Hole THEN Hole ELSE free(b)]],
             cut' = [cut EXCEPT ![f] = {}], changed' = BlockNo, UNCHANGED <<size, differs>>
      PROVE  /\ place' \in [File -> Layout] /\ cut' \in [File -> SUBSET BlockNo]
             /\ size' \in [File -> Sizes \cup {0}] /\ changed' # {}
             /\ differs' \subseteq BlockNo /\ changed' \subseteq BlockNo /\ changed \subseteq changed'
             /\ \A g \in File : \A x \in BlockNo \ changed' : place'[g][x] = place[g][x]
             /\ \A g \in File \ {f} : place'[g] = place[g] /\ cut'[g] = cut[g] /\ size'[g] = size[g]
  <2> HIDE DEF free
  <2>1. [b \in BlockNo |-> IF place[f][b] = Hole THEN Hole ELSE free(b)] \in Layout
    BY <1>4 DEF Layout
  <2>2. 0 \in BlockNo
    BY Numbers
  <2> QED
    BY <1>1, <1>6, <2>1, <2>2
<1>7. ASSUME size' = [size EXCEPT ![f] = 0], place' = [place EXCEPT ![f] = [b \in BlockNo |-> Hole]],
             changed' = BlockNo, UNCHANGED <<differs, cut>>
      PROVE  /\ place' \in [File -> Layout] /\ cut' \in [File -> SUBSET BlockNo]
             /\ size' \in [File -> Sizes \cup {0}] /\ changed' # {}
             /\ differs' \subseteq BlockNo /\ changed' \subseteq BlockNo /\ changed \subseteq changed'
             /\ \A g \in File : \A x \in BlockNo \ changed' : place'[g][x] = place[g][x]
             /\ \A g \in File \ {f} : place'[g] = place[g] /\ cut'[g] = cut[g] /\ size'[g] = size[g]
  <2>1. [b \in BlockNo |-> Hole] \in Layout
    BY DEF Layout
  <2>2. 0 \in BlockNo
    BY Numbers
  <2> QED
    BY <1>1, <1>7, <2>1, <2>2
<1>8. \/ \E b \in Used(size[f]) :
           /\ place' = [place EXCEPT ![f][b] = free(b)]
           /\ differs' = differs \cup {b} /\ changed' = changed \cup {b}
           /\ UNCHANGED <<size, cut>>
      \/ /\ place' = [place EXCEPT ![f] = [b \in BlockNo |-> IF @[b] = Hole THEN Hole ELSE free(b)]]
         /\ cut' = [cut EXCEPT ![f] = {}] /\ changed' = BlockNo
         /\ UNCHANGED <<size, differs>>
      \/ /\ size' = [size EXCEPT ![f] = 0]
         /\ place' = [place EXCEPT ![f] = [b \in BlockNo |-> Hole]]
         /\ changed' = BlockNo /\ UNCHANGED <<differs, cut>>
  BY DEF Change
<1> HIDE DEF free
<1> QED
  BY <1>2, <1>3, <1>5, <1>6, <1>7, <1>8

-----------------------------------------------------------------------------
(* The steps                                                               *)

Basics == TypeOK /\ OffsInv /\ ListInv /\ DoneInv

LEMMA BasicsInit ==
  ASSUME Init
  PROVE  Basics
<1>1. place \in [File -> Layout] /\ cut \in [File -> SUBSET BlockNo]
  <2>1. ASSUME NEW hole \in {{}} \cup {{b} : b \in BlockNo}, NEW own \in SUBSET BlockNo,
               place = [f \in File |-> [b \in BlockNo |->
                          IF b \in hole THEN Hole
                          ELSE IF f = "dst" /\ b \in own THEN Blocks + b + 1 ELSE b + 1]]
        PROVE  place \in [File -> Layout]
    <3>1. \A b \in BlockNo : b + 1 \in Place /\ Blocks + b + 1 \in Place
      BY Free
    <3> QED
      BY <2>1, <3>1 DEF Layout
  <2>2. ASSUME place = [f \in File |-> [b \in BlockNo |-> IF b = 0 THEN Inline ELSE Hole]]
        PROVE  place \in [File -> Layout]
    BY <2>2, Free DEF Layout
  <2> QED
    BY <2>1, <2>2 DEF Init
<1>2. /\ size \in [File -> Sizes] /\ differs = {} /\ pc = "stat" /\ lsize = [f \in File |-> 0]
      /\ start = 0 /\ el = [f \in File |-> <<>>] /\ offs = 0 /\ reclaimed = 0 /\ done = None
      /\ old = [place |-> place, cut |-> cut] /\ stale = {} /\ changed = {} /\ changes = 0
  BY DEF Init, Snapshot
<1>3. /\ 0 \in 0..Blocks * Block /\ 0 \in 0..MaxChanges /\ size \in [File -> Sizes \cup {0}]
      /\ lsize \in [File -> Sizes \cup {0}] /\ el \in [File -> Seq(ExtentRecord)]
  BY <1>2, Numbers
<1>4. TypeOK
  BY <1>1, <1>2, <1>3 DEF TypeOK, Layout
<1>5. OffsInv
  BY <1>2 DEF OffsInv, File
<1>6. ListInv
  BY <1>2 DEF ListInv
<1>7. DoneInv
  <2>1. \A b \in BlockNo : b * Block \in Nat
    BY Numbers
  <2> QED
    BY <1>2, <2>1 DEF DoneInv
<1> QED
  BY <1>4, <1>5, <1>6, <1>7 DEF Basics

LEMMA BasicsChange ==
  ASSUME Basics, NEW f \in File, Change(f)
  PROVE  Basics'
<1>1. /\ place' \in [File -> Layout] /\ cut' \in [File -> SUBSET BlockNo]
      /\ size' \in [File -> Sizes \cup {0}] /\ changes' \in 0..MaxChanges
      /\ differs' \subseteq BlockNo /\ changed' \subseteq BlockNo /\ changed \subseteq changed'
      /\ stale' \subseteq File
      /\ \A g \in File : \A b \in BlockNo \ changed' : place'[g][b] = place[g][b]
      /\ UNCHANGED <<pc, lsize, start, el, offs, reclaimed, done, old>>
  BY ChangeIs DEF Basics
<1>2. TypeOK'
  BY <1>1 DEF Basics, TypeOK, Layout
<1>3. OffsInv'
  BY <1>1 DEF Basics, OffsInv
<1>4. ListInv'
  <2> SUFFICES ASSUME NEW g \in File, g = "dst" => pc \in {"page2", "range"}, NEW i \in DOMAIN el[g]
               PROVE  el[g][i] \in Runs(place'[g], changed')
    BY <1>1 DEF ListInv
  <2>1. el[g][i] \in Runs(place[g], changed)
    BY DEF Basics, ListInv
  <2> QED
    BY <1>1, <2>1, RunsKeep
<1>5. DoneInv'
  <2>1. "src" \in File /\ "dst" \in File
    BY DEF File
  <2> QED
    BY <1>1, <2>1 DEF Basics, DoneInv
<1> QED
  BY <1>2, <1>3, <1>4, <1>5 DEF Basics

LEMMA BasicsStat ==
  ASSUME Basics, Stat
  PROVE  Basics'
<1>1. Listed \in File /\ (Listed = "src" <=> pc = "stat") /\ (Listed = "dst" <=> pc = "stat2")
  BY DEF Listed, File, Stat
<1>2. /\ pc \in {"stat", "stat2"} /\ pc' = (IF pc = "stat" THEN "page" ELSE "page2")
      /\ lsize' = [lsize EXCEPT ![Listed] = size[Listed]] /\ start' = 0
      /\ el' = [el EXCEPT ![Listed] = <<>>] /\ stale' = stale \ {Listed}
      /\ place' = place /\ cut' = cut /\ size' = size /\ differs' = differs
      /\ UNCHANGED <<offs, reclaimed, done, old, changed, changes>>
  BY DEF Stat, files
<1>3. lsize' \in [File -> Sizes \cup {0}] /\ el' \in [File -> Seq(ExtentRecord)] /\ 0 \in 0..Blocks * Block
  <2>1. size[Listed] \in Sizes \cup {0} /\ <<>> \in Seq(ExtentRecord)
    BY <1>1 DEF Basics, TypeOK
  <2> QED
    BY <1>1, <1>2, <2>1, Numbers DEF Basics, TypeOK
<1>4. TypeOK'
  BY <1>2, <1>3 DEF Basics, TypeOK
<1>5. OffsInv'
  <2>1. pc = "stat" => lsize'["src"] = size["src"] /\ size["src"] >= 0
    BY <1>1, <1>2, Counts DEF Basics, TypeOK
  <2>2. pc = "stat2" => lsize'["src"] = lsize["src"]
    BY <1>1, <1>2, Counts DEF Basics, TypeOK
  <2> QED
    BY <1>2, <2>1, <2>2 DEF Basics, OffsInv
<1>6. ListInv'
  <2> SUFFICES ASSUME NEW g \in File, g = "dst" => pc' \in {"page2", "range"}, NEW i \in DOMAIN el'[g]
               PROVE  el'[g][i] \in Runs(place[g], changed)
    BY <1>2 DEF ListInv
  <2>1. CASE g = Listed
    <3>1. el'[g] = <<>>
      BY <1>2, <2>1 DEF Basics, TypeOK
    <3> QED
      BY <3>1
  <2>2. CASE g # Listed
    <3>1. g = "src"
      BY <1>1, <1>2, <2>2 DEF File
    <3>2. el'[g] = el[g]
      BY <1>2, <2>2 DEF Basics, TypeOK
    <3> QED
      BY <3>1, <3>2 DEF Basics, ListInv
  <2> QED
    BY <2>1, <2>2
<1>7. DoneInv'
  BY <1>2 DEF Basics, DoneInv
<1> QED
  BY <1>4, <1>5, <1>6, <1>7 DEF Basics

\* What a page adds to the list is true of the file.
LEMMA PageIs ==
  ASSUME TypeOK, Page
  PROVE  /\ Listed \in File /\ (Listed = "src" <=> pc = "page") /\ (Listed = "dst" <=> pc = "page2")
         /\ pc \in {"page", "page2"}
         /\ pc' \in {pc, "failed", IF pc = "page" THEN "loop" ELSE "range"}
         /\ \E part \in Seq(ExtentRecord) :
              /\ \A k \in DOMAIN part : part[k] \in Runs(place[Listed], changed)
              /\ el' = [el EXCEPT ![Listed] = @ \o part]
         /\ start' \in 0..Blocks * Block
         /\ place' = place /\ cut' = cut /\ size' = size /\ differs' = differs
         /\ UNCHANGED <<lsize, offs, reclaimed, done, old, stale, changed, changes>>
<1>1. Listed \in File /\ (Listed = "src" <=> pc = "page") /\ (Listed = "dst" <=> pc = "page2")
  BY DEF Listed, File, Page
<1> DEFINE n == (lsize[Listed] - start) % Word
           part == Answer(Listed, n)
<1>2. /\ part \in Seq(ExtentRecord) /\ DOMAIN part = 1..Len(part)
      /\ \A k \in DOMAIN part : part[k] \in Runs(place[Listed], changed)
  <2>1. place[Listed] \in Layout
    BY <1>1 DEF TypeOK, Layout
  <2> HIDE DEF n
  <2> QED
    BY <2>1, AnswerRuns
<1>3. el[Listed] \in Seq(ExtentRecord)
  BY <1>1 DEF TypeOK
<1>4. \/ pc' \in {"failed", IF pc = "page" THEN "loop" ELSE "range"} /\ UNCHANGED <<el, start>>
      \/ /\ part # <<>> /\ el' = [el EXCEPT ![Listed] = @ \o part]
         /\ \/ pc' = (IF pc = "page" THEN "loop" ELSE "range") /\ UNCHANGED start
            \/ start' = NextStart(Last(part)) /\ UNCHANGED pc
  BY DEF Page, Fail, Read
<1>5. /\ pc \in {"page", "page2"} /\ place' = place /\ cut' = cut /\ size' = size /\ differs' = differs
      /\ UNCHANGED <<lsize, offs, reclaimed, done, old, stale, changed, changes>>
  BY DEF Page, files, history
<1> HIDE DEF part
<1>6. part # <<>> => NextStart(Last(part)) \in 0..Blocks * Block
  <2> SUFFICES ASSUME part # <<>>
               PROVE  NextStart(Last(part)) \in 0..Blocks * Block
    OBVIOUS
  <2>1. Len(part) \in Nat /\ Len(part) # 0
    BY <1>2, EmptySeq, LenProperties
  <2>2. Last(part) = part[Len(part)] /\ Len(part) \in DOMAIN part
    BY <1>2, <2>1 DEF Last
  <2>3. Last(part) \in Runs(place[Listed], changed)
    BY <1>2, <2>2
  <2> QED
    BY <2>3, RunIs, Numbers DEF NextStart
<1>7. start' \in 0..Blocks * Block
  <2>1. start \in 0..Blocks * Block
    BY DEF TypeOK
  <2> QED
    BY <1>4, <1>6, <2>1
<1>8. \E p \in Seq(ExtentRecord) :
        /\ \A k \in DOMAIN p : p[k] \in Runs(place[Listed], changed)
        /\ el' = [el EXCEPT ![Listed] = @ \o p]
  <2>1. CASE el' = el
    <3>1. el[Listed] \o <<>> = el[Listed] /\ <<>> \in Seq(ExtentRecord)
      BY <1>3, ConcatEmptySeq
    <3>2. el' = [el EXCEPT ![Listed] = @ \o <<>>]
      BY <2>1, <3>1 DEF TypeOK
    <3>3. \A k \in DOMAIN <<>> : <<>>[k] \in Runs(place[Listed], changed)
      OBVIOUS
    <3> QED
      BY <3>1, <3>2, <3>3
  <2>2. CASE el' = [el EXCEPT ![Listed] = @ \o part]
    BY <1>2, <2>2
  <2> QED
    BY <1>4, <2>1, <2>2
<1> QED
  BY <1>1, <1>4, <1>5, <1>7, <1>8

LEMMA BasicsPage ==
  ASSUME Basics, Page
  PROVE  Basics'
<1>1. TypeOK
  BY DEF Basics
<1>2. PICK part \in Seq(ExtentRecord) :
        /\ \A k \in DOMAIN part : part[k] \in Runs(place[Listed], changed)
        /\ el' = [el EXCEPT ![Listed] = @ \o part]
  BY <1>1, PageIs
<1>3. /\ Listed \in File /\ (Listed = "src" <=> pc = "page") /\ (Listed = "dst" <=> pc = "page2")
      /\ pc \in {"page", "page2"}
      /\ pc' \in {pc, "failed", IF pc = "page" THEN "loop" ELSE "range"}
      /\ start' \in 0..Blocks * Block
      /\ place' = place /\ cut' = cut /\ size' = size /\ differs' = differs
      /\ UNCHANGED <<lsize, offs, reclaimed, done, old, stale, changed, changes>>
  BY <1>1, PageIs
<1>4. el[Listed] \in Seq(ExtentRecord) /\ el \in [File -> Seq(ExtentRecord)]
  BY <1>1, <1>3 DEF TypeOK
<1>5. el'[Listed] = el[Listed] \o part /\ \A g \in File \ {Listed} : el'[g] = el[g]
  BY <1>2, <1>3, <1>4
<1>6. el' \in [File -> Seq(ExtentRecord)]
  <2>1. el[Listed] \o part \in Seq(ExtentRecord)
    BY <1>4, ConcatProperties
  <2> QED
    BY <1>2, <1>4, <2>1
<1>7. TypeOK'
  BY <1>1, <1>3, <1>6 DEF TypeOK
<1>8. OffsInv'
  BY <1>3 DEF Basics, OffsInv
<1>9. ListInv'
  <2> SUFFICES ASSUME NEW g \in File, g = "dst" => pc' \in {"page2", "range"}, NEW i \in DOMAIN el'[g]
               PROVE  el'[g][i] \in Runs(place[g], changed)
    BY <1>3 DEF ListInv
  <2>1. g = "dst" => pc \in {"page2", "range"}
    BY <1>3
  <2>2. CASE g = Listed
    <3>1. /\ Len(el[g] \o part) = Len(el[g]) + Len(part)
          /\ \A k \in 1..Len(el[g]) + Len(part) :
               (el[g] \o part)[k] = IF k <= Len(el[g]) THEN el[g][k] ELSE part[k - Len(el[g])]
      BY <1>4, <2>2, ConcatProperties
    <3>2. /\ Len(el[g]) \in Nat /\ Len(part) \in Nat /\ DOMAIN part = 1..Len(part)
          /\ DOMAIN el[g] = 1..Len(el[g]) /\ i \in 1..Len(el[g] \o part)
      BY <1>4, <1>5, <1>6, <2>2, LenProperties
    <3>3. i \in 1..Len(el[g]) \/ (~(i <= Len(el[g])) /\ i - Len(el[g]) \in 1..Len(part))
      BY <3>1, <3>2
    <3>4. CASE i \in 1..Len(el[g])
      <4>1. el'[g][i] = el[g][i] /\ i \in DOMAIN el[g]
        BY <1>5, <2>2, <3>1, <3>2, <3>4
      <4> QED
        BY <2>1, <4>1 DEF Basics, ListInv
    <3>5. CASE ~(i <= Len(el[g])) /\ i - Len(el[g]) \in 1..Len(part)
      <4>1. el'[g][i] = part[i - Len(el[g])]
        BY <1>5, <2>2, <3>1, <3>2, <3>5
      <4> QED
        BY <1>2, <2>2, <3>2, <3>5, <4>1
    <3> QED
      BY <3>3, <3>4, <3>5
  <2>3. CASE g # Listed
    <3>1. el'[g] = el[g]
      BY <1>5, <2>3
    <3> QED
      BY <2>1, <3>1 DEF Basics, ListInv
  <2> QED
    BY <2>2, <2>3
<1>10. DoneInv'
  BY <1>3 DEF Basics, DoneInv
<1> QED
  BY <1>7, <1>8, <1>9, <1>10 DEF Basics

LEMMA BasicsLoop ==
  ASSUME Basics, Loop
  PROVE  Basics'
<1>1. /\ pc = "loop" /\ pc' = (IF offs >= lsize["src"] THEN "ok" ELSE "stat2")
      /\ place' = place /\ cut' = cut /\ size' = size /\ differs' = differs
      /\ UNCHANGED <<lsize, start, el, offs, reclaimed, done, old, stale, changed, changes>>
  BY DEF Loop, files, history
<1>2. TypeOK'
  BY <1>1 DEF Basics, TypeOK
<1>3. OffsInv'
  BY <1>1, Counts DEF Basics, OffsInv
<1>4. ListInv'
  BY <1>1 DEF Basics, ListInv
<1>5. DoneInv'
  BY <1>1 DEF Basics, DoneInv
<1> QED
  BY <1>2, <1>3, <1>4, <1>5 DEF Basics

\* Where the files have the same extent they share its blocks.
LEMMA MatchShares ==
  ASSUME TypeOK, NEW a \in Runs(place["src"], changed), NEW b \in Runs(place["dst"], changed),
         Matches(a, b),
         NEW x \in BlockNo \ changed, a.logical <= x * Block, x * Block < a.logical + a.length
  PROVE  place["src"][x] = place["dst"][x]
<1>1. PICK l \in Nat, m \in Nat : IsRun(a, place["src"], changed, l, m)
  BY DEF Runs
<1>2. PICK k \in Nat, n \in Nat : IsRun(b, place["dst"], changed, k, n)
  BY DEF Runs
<1>3. PICK p \in Nat : /\ a.physical = p * Block
                       /\ \A y \in BlockNo : l <= y /\ y < l + m /\ y \notin changed
                                             => place["src"][y] = p + (y - l)
  BY <1>1 DEF IsRun
<1>4. PICK q \in Nat : /\ b.physical = q * Block
                       /\ \A y \in BlockNo : k <= y /\ y < k + n /\ y \notin changed
                                             => place["dst"][y] = q + (y - k)
  BY <1>2 DEF IsRun
<1>5. l * Block = k * Block /\ m * Block = n * Block /\ p * Block = q * Block
  BY <1>1, <1>2, <1>3, <1>4 DEF IsRun, Matches
<1>6. l = k
  BY <1>5, Scale
<1>7. m = n
  BY <1>5, Scale
<1>8. p = q
  BY <1>5, Scale
<1>9. x \in Int
  BY Numbers
<1>10. ~(x < l)
  <2>1. x < l => x * Block < l * Block
    BY <1>9, Scale
  <2>2. x * Block \in Int /\ l * Block \in Int
    BY <1>9, Scale
  <2> QED
    BY <1>1, <2>1, <2>2 DEF IsRun
<1>11. x < l + m
  <2>1. (l + m) * Block = l * Block + m * Block /\ l + m \in Int
    BY Scale
  <2>2. x < l + m <=> x * Block < (l + m) * Block
    BY <1>9, <2>1, Scale
  <2> QED
    BY <1>1, <2>1, <2>2 DEF IsRun
<1>12. l <= x
  BY <1>9, <1>10
<1> QED
  BY <1>3, <1>4, <1>6, <1>7, <1>8, <1>11, <1>12

LEMMA BasicsSkip ==
  ASSUME Basics, Skip
  PROVE  Basics'
<1>1. /\ pc = "range" /\ pc' = "loop"
      /\ place' = place /\ cut' = cut /\ size' = size /\ differs' = differs
      /\ UNCHANGED <<lsize, start, el, reclaimed, done, old, stale, changed, changes>>
  BY DEF Skip, files, history
<1>2. PICK a \in E1, b \in E2 : Matches(a, b) /\ offs' = After(a)
  BY DEF Skip
<1>3. /\ TypeOK /\ a \in Runs(place["src"], changed) /\ b \in Runs(place["dst"], changed)
      /\ a.logical = offs
  BY <1>1, FoundIs DEF Basics
<1>4. /\ offs' = offs + a.length /\ a.length \in Nat /\ offs' \in 0..Blocks * Block
      /\ offs \in Nat /\ offs' \in Nat /\ offs <= offs'
  <2>1. a.length \in Nat /\ offs + a.length <= Blocks * Block
    BY <1>3, RunIs
  <2> QED
    BY <1>2, <1>3, <2>1, Counts, Numbers DEF After
<1>5. TypeOK'
  BY <1>1, <1>4 DEF Basics, TypeOK
<1>6. OffsInv'
  BY <1>1, <1>4, Counts DEF Basics, OffsInv
<1>7. ListInv'
  BY <1>1 DEF Basics, ListInv
<1>8. DoneInv'
  <2> SUFFICES ASSUME NEW x \in BlockNo \ changed, x * Block < offs'
               PROVE  place["src"][x] = place["dst"][x]
    BY <1>1 DEF DoneInv
  <2>1. x * Block \in Int
    BY Numbers
  <2>2. CASE x * Block < offs
    BY <2>2 DEF Basics, DoneInv
  <2>3. CASE ~(x * Block < offs)
    <3>1. a.logical <= x * Block /\ x * Block < a.logical + a.length
      BY <1>3, <1>4, <2>1, <2>3
    <3> QED
      BY <1>2, <1>3, <3>1, MatchShares
  <2> QED
    BY <2>2, <2>3
<1> QED
  BY <1>5, <1>6, <1>7, <1>8 DEF Basics

\* What is shared stays within the range.
LEMMA DedupeIs ==
  ASSUME TypeOK, OffsInv, ListInv, Dedupe
  PROVE  /\ pc = "range" /\ ~\E a \in E1, b \in E2 : Matches(a, b)
         /\ \A f \in File : offs + RangeLength <= size[f]
         /\ \E n \in 0..RangeLength :
              /\ CanShare(n, RangeLength) /\ Shared(n) /\ done' = n /\ n \in Nat
              /\ reclaimed' = reclaimed + n /\ offs' = offs + n /\ offs' <= lsize["src"]
              /\ pc' = (IF offs' = lsize["src"] THEN "ok" ELSE "loop")
              /\ n <= RangeLength /\ n <= lsize["src"] - offs
         /\ cut' = cut /\ size' = size /\ differs' = differs
         /\ UNCHANGED <<lsize, start, el, old, stale, changed, changes>>
<1>1. /\ pc = "range" /\ ~\E a \in E1, b \in E2 : Matches(a, b)
      /\ \A f \in File : offs + RangeLength <= size[f]
      /\ cut' = cut /\ size' = size /\ differs' = differs
      /\ UNCHANGED <<lsize, start, el, old, stale, changed, changes>>
  BY DEF Dedupe, history
<1>2. PICK n \in 0..RangeLength :
        /\ CanShare(n, RangeLength) /\ Shared(n)
        /\ done' = n /\ reclaimed' = Reclaimed(n) /\ offs' = offs + n
        /\ pc' = IF offs' = lsize["src"] THEN "ok" ELSE "loop"
  BY DEF Dedupe
<1>3. RangeLength \in Nat \ {0} /\ RangeLength <= lsize["src"] - offs
  BY <1>1, RangeIs
<1>4. n \in Nat /\ n <= RangeLength /\ n <= lsize["src"] - offs /\ offs + n <= lsize["src"]
  BY <1>2, <1>3, Counts
<1> QED
  BY <1>1, <1>2, <1>4 DEF Reclaimed

\* What sharing does to the files.
LEMMA SharedIs ==
  ASSUME TypeOK, NEW n, Shared(n)
  PROVE  /\ place' \in [File -> Layout] /\ place'["src"] = place["src"]
         /\ \A b \in BlockNo :
              place'["dst"][b] = IF offs <= b * Block /\ b * Block < offs + n
                                 THEN place["src"][b] ELSE place["dst"][b]
<1>1. place \in [File -> Layout] /\ "src" \in File /\ "dst" \in File
  BY DEF TypeOK, Layout, File
<1>2. place' = [place EXCEPT !["dst"] = [b \in BlockNo |->
                  IF offs <= b * Block /\ b * Block < offs + n THEN place["src"][b]
                  ELSE place["dst"][b]]]
  BY DEF Shared
<1>3. [b \in BlockNo |-> IF offs <= b * Block /\ b * Block < offs + n THEN place["src"][b]
                         ELSE place["dst"][b]] \in Layout
  BY <1>1 DEF Layout
<1> QED
  BY <1>1, <1>2, <1>3

LEMMA BasicsDedupe ==
  ASSUME Basics, Dedupe
  PROVE  Basics'
<1>1. TypeOK /\ OffsInv /\ ListInv
  BY DEF Basics
<1>2. /\ pc = "range" /\ cut' = cut /\ size' = size /\ differs' = differs
      /\ UNCHANGED <<lsize, start, el, old, stale, changed, changes>>
  BY <1>1, DedupeIs
<1>3. PICK n \in Nat : /\ Shared(n) /\ done' = n
                       /\ reclaimed' = reclaimed + n /\ offs' = offs + n /\ offs' <= lsize["src"]
                       /\ pc' = (IF offs' = lsize["src"] THEN "ok" ELSE "loop")
  BY <1>1, DedupeIs
<1>4. /\ place' \in [File -> Layout] /\ place'["src"] = place["src"]
      /\ \A b \in BlockNo :
           place'["dst"][b] = IF offs <= b * Block /\ b * Block < offs + n
                              THEN place["src"][b] ELSE place["dst"][b]
  BY <1>1, <1>3, SharedIs
<1>5. /\ reclaimed <= offs /\ offs \in Nat /\ reclaimed \in Nat /\ lsize["src"] \in Nat
      /\ offs' \in 0..Blocks * Block /\ reclaimed' \in 0..Blocks * Block
      /\ reclaimed' <= offs' /\ reclaimed' <= lsize["src"]
  <2>1. reclaimed <= offs
    BY <1>1 DEF OffsInv
  <2>2. /\ offs \in Nat /\ reclaimed \in Nat /\ lsize["src"] \in Nat
        /\ lsize["src"] <= Blocks * Block
    BY <1>1, Counts
  <2> QED
    BY <1>3, <2>1, <2>2, Numbers
<1>6. TypeOK'
  <2>1. place' \in [File -> [BlockNo -> Place \cup {Hole}]]
    BY <1>4 DEF Layout
  <2>2. done' \in Nat \cup {None}
    BY <1>3
  <2>3. pc' \in {"loop", "ok"}
    BY <1>3
  <2> QED
    BY <1>1, <1>2, <1>5, <2>1, <2>2, <2>3 DEF TypeOK
<1>7. OffsInv'
  BY <1>2, <1>3, <1>5 DEF OffsInv
<1>8. ListInv'
  <2> SUFFICES ASSUME NEW g \in File, g = "dst" => pc' \in {"page2", "range"}, NEW i \in DOMAIN el[g]
               PROVE  el[g][i] \in Runs(place'[g], changed)
    BY <1>2 DEF ListInv
  <2>1. g = "src"
    BY <1>3 DEF File
  <2> QED
    BY <1>1, <1>4, <2>1 DEF ListInv
<1>9. DoneInv'
  <2> SUFFICES ASSUME NEW x \in BlockNo \ changed, x * Block < offs'
               PROVE  place'["src"][x] = place'["dst"][x]
    BY <1>2 DEF DoneInv
  <2>1. x * Block \in Int
    BY Numbers
  <2>2. CASE x * Block < offs
    <3>1. ~(offs <= x * Block)
      BY <1>5, <2>1, <2>2
    <3> QED
      BY <1>4, <2>2, <3>1 DEF Basics, DoneInv
  <2>3. CASE ~(x * Block < offs)
    <3>1. offs <= x * Block /\ x * Block < offs + n
      BY <1>3, <1>5, <2>1, <2>3
    <3> QED
      BY <1>4, <3>1
  <2> QED
    BY <2>2, <2>3
<1> QED
  BY <1>6, <1>7, <1>8, <1>9 DEF Basics

LEMMA BasicsNext ==
  ASSUME Basics, [Next]_vars
  PROVE  Basics'
<1>1. CASE Stat
  BY <1>1, BasicsStat
<1>2. CASE Page
  BY <1>2, BasicsPage
<1>3. CASE Loop
  BY <1>3, BasicsLoop
<1>4. CASE Skip
  BY <1>4, BasicsSkip
<1>5. CASE Dedupe
  BY <1>5, BasicsDedupe
<1>6. CASE DedupeError
  <2>1. /\ pc' \in {"failed", "unsupported"}
        /\ place' = place /\ cut' = cut /\ size' = size /\ differs' = differs
        /\ UNCHANGED <<lsize, start, el, offs, reclaimed, done, old, stale, changed, changes>>
    BY <1>6 DEF DedupeError, Fail, files, history
  <2>2. TypeOK'
    BY <2>1 DEF Basics, TypeOK
  <2> QED
    BY <2>1, <2>2 DEF Basics, OffsInv, ListInv, DoneInv
<1>7. ASSUME NEW f \in File, Change(f)
      PROVE  Basics'
  BY <1>7, BasicsChange
<1>8. CASE UNCHANGED vars
  <2>1. /\ pc' = pc /\ place' = place /\ cut' = cut /\ size' = size /\ differs' = differs
        /\ UNCHANGED <<lsize, start, el, offs, reclaimed, done, old, stale, changed, changes>>
    BY <1>8 DEF vars, files, history
  <2>2. TypeOK'
    BY <2>1 DEF Basics, TypeOK
  <2> QED
    BY <2>1, <2>2 DEF Basics, OffsInv, ListInv, DoneInv
<1> QED
  BY <1>1, <1>2, <1>3, <1>4, <1>5, <1>6, <1>7, <1>8 DEF Next, Deduplicate, Returned

\* Types: no offset, length or place leaves its range, though a page may end beyond
\* the file and the rest of the size may wrap.
THEOREM Types == Spec => []TypeOK
<1>1. Init => Basics
  BY BasicsInit
<1>2. Basics /\ [Next]_vars => Basics'
  BY BasicsNext
<1>3. Basics => TypeOK
  BY DEF Basics
<1> QED
  BY <1>1, <1>2, <1>3, PTL DEF Spec

\* When DeduplicateFiles returns without an error, the files share every block of the
\* source that nobody changed and that lies outside the metadata, whatever others
\* changed in between and although the list of the source is read only once.
THEOREM Success == Spec => []SuccessShares
<1>1. Init => Basics
  BY BasicsInit
<1>2. Basics /\ [Next]_vars => Basics'
  BY BasicsNext
<1>3. ASSUME Basics
      PROVE  SuccessShares
  <2> SUFFICES ASSUME pc = "ok", NEW b \in Used(lsize["src"]) \ changed
               PROVE  place["src"][b] = place["dst"][b]
    BY DEF SuccessShares, Share
  <2>1. b \in BlockNo /\ b * Block < lsize["src"] /\ b * Block \in Int
    BY Numbers DEF Used
  <2>2. lsize["src"] <= offs /\ lsize["src"] \in Nat /\ offs \in Nat
    BY <1>3, Counts DEF Basics, OffsInv
  <2>3. b * Block < offs
    BY <2>1, <2>2
  <2> QED
    BY <1>3, <2>1, <2>3 DEF Basics, DoneInv
<1> QED
  BY <1>1, <1>2, <1>3, PTL DEF Spec

-----------------------------------------------------------------------------
(* The lists are complete                                                  *)

LEMMA NowNumbers ==
  ASSUME TypeOK, NEW f \in File, NEW i \in 1..Len(Now(f))
  PROVE  /\ Now(f)[i].logical \in Nat /\ Now(f)[i].length \in Nat \ {0}
         /\ Now(f)[i].physical \in Nat
         /\ Now(f)[i].logical + Now(f)[i].length <= Blocks * Block
<1>1. place[f] \in Layout
  BY DEF TypeOK, Layout
<1>2. PICK b \in Begins(place[f], cut[f]) : Now(f)[i] = Extent(place[f], cut[f], b)
  BY <1>1, NowIs
<1>3. Now(f)[i] \in Runs(place[f], changed)
  BY <1>1, <1>2, ExtentRuns
<1> QED
  BY <1>3, RunIs

LEMMA NowOrder ==
  ASSUME TypeOK, NEW f \in File, NEW i \in 1..Len(Now(f)), NEW j \in 1..Len(Now(f))
  PROVE  /\ i < j => Now(f)[i].logical + Now(f)[i].length <= Now(f)[j].logical
         /\ Now(f)[i].logical = Now(f)[j].logical => i = j
<1>1. place[f] \in Layout
  BY DEF TypeOK, Layout
<1>2. /\ i < j => Now(f)[i].logical + Now(f)[i].length <= Now(f)[j].logical
      /\ j < i => Now(f)[j].logical + Now(f)[j].length <= Now(f)[i].logical
  BY <1>1, NowIs
<1>3. /\ Now(f)[i].logical \in Nat /\ Now(f)[i].length \in Nat \ {0}
      /\ Now(f)[j].logical \in Nat /\ Now(f)[j].length \in Nat \ {0}
  BY NowNumbers
<1>4. i < j \/ j < i \/ i = j
  OBVIOUS
<1> QED
  BY <1>2, <1>3, <1>4

\* The list of f is the beginning of the extents of the file.
Begun(f) ==
  /\ lsize[f] = size[f] /\ Len(el[f]) <= Len(Now(f))
  /\ \A i \in 1..Len(el[f]) : el[f][i] = Now(f)[i]
Reached(f) == IF el[f] = <<>> THEN 0 ELSE NextStart(Now(f)[Len(el[f])])
Whole(f) ==
  \A i \in 1..Len(Now(f)) : i > Len(el[f]) => Now(f)[i].logical >= size[f]

\* The list of a file that was not changed is the beginning of its extents while it is
\* read, as far as the start of the next page, and whole afterwards.
ReadInv ==
  \A f \in File \ stale :
    /\ pc = (IF f = "src" THEN "page" ELSE "page2") => Begun(f) /\ start = Reached(f)
    /\ pc \in (IF f = "src" THEN {"loop", "stat2", "page2", "range", "ok"} ELSE {"range"})
       => Begun(f) /\ Whole(f)

\* The extents that are missing begin where the next page does, or later.
LEMMA Missing ==
  ASSUME TypeOK, NEW f \in File, Begun(f), start = Reached(f), NEW i \in 1..Len(Now(f))
  PROVE  /\ Len(el[f]) \in Nat
         /\ i > Len(el[f]) => Now(f)[i].logical >= start
         /\ i <= Len(el[f]) => Now(f)[i].logical + Now(f)[i].length <= start
<1> DEFINE k == Len(el[f])
<1>1. el[f] \in Seq(ExtentRecord) /\ k \in Nat /\ (el[f] # <<>> => k # 0) /\ (el[f] = <<>> => k = 0)
  <2>1. el[f] \in Seq(ExtentRecord)
    BY DEF TypeOK
  <2> QED
    BY <2>1, EmptySeq, LenProperties
<1>2. Now(f)[i].logical \in Nat
  BY NowNumbers
<1>3. CASE el[f] = <<>>
  BY <1>1, <1>2, <1>3 DEF Reached
<1>4. CASE el[f] # <<>>
  <2>1. k \in 1..Len(Now(f)) /\ start = Now(f)[k].logical + Now(f)[k].length
    BY <1>1, <1>4 DEF Begun, Reached, NextStart
  <2> HIDE DEF k
  <2>2. k < i => start <= Now(f)[i].logical
    BY <2>1, NowOrder
  <2>3. i < k => Now(f)[i].logical + Now(f)[i].length <= start
    <3>1. /\ i < k => Now(f)[i].logical + Now(f)[i].length <= Now(f)[k].logical
          /\ Now(f)[k].logical \in Nat /\ Now(f)[k].length \in Nat
          /\ Now(f)[i].logical \in Nat /\ Now(f)[i].length \in Nat
      BY <2>1, NowOrder, NowNumbers
    <3> QED
      BY <2>1, <3>1
  <2>4. i = k => Now(f)[i].logical + Now(f)[i].length <= start
    BY <2>1, NowNumbers
  <2> QED
    BY <1>1, <2>1, <2>2, <2>3, <2>4, NowNumbers DEF k
<1> QED
  BY <1>3, <1>4

\* Where there is nothing left to ask for or nothing comes, nothing is missing.
LEMMA NothingMissing ==
  ASSUME TypeOK, NEW f \in File, Begun(f), start = Reached(f), NEW n,
         n = (lsize[f] - start) % Word,
         n = 0 \/ \A i \in 1..Len(Now(f)) : ~Hit(f, i, n)
  PROVE  Whole(f)
<1> SUFFICES ASSUME NEW i \in 1..Len(Now(f)), i > Len(el[f])
             PROVE  Now(f)[i].logical >= size[f]
  BY DEF Whole
<1> DEFINE a == lsize[f] - start
           e == Now(f)[i]
<1>1. /\ e.logical \in Nat /\ e.length \in Nat \ {0} /\ e.logical >= start
      /\ size[f] \in Nat /\ size[f] <= Blocks * Block /\ start \in Nat /\ start <= Blocks * Block
      /\ lsize[f] = size[f] /\ Blocks * Block \in Nat
  BY Missing, NowNumbers, Counts, Numbers DEF Begun
<1>2. a \in Int /\ a <= Blocks * Block /\ -a <= Blocks * Block
  BY <1>1
<1>3. /\ a >= 0 => n = a
      /\ a < 0 => n > Blocks * Block
  <2> HIDE DEF a
  <2>1. /\ a >= 0 => a % Word = a
        /\ a < 0 => a % Word = Word + a /\ Word + a > Blocks * Block
    BY <1>2, Wrap
  <2>2. n = a % Word
    BY DEF a
  <2> QED
    BY <2>1, <2>2
<1>4. CASE a < 0
  BY <1>1, <1>4
<1>5. CASE a >= 0
  <2>1. n = a
    BY <1>3, <1>5
  <2>2. CASE n = 0
    BY <1>1, <2>1, <2>2
  <2>3. CASE ~Hit(f, i, n)
    <3>1. ~(e.logical + e.length > start /\ e.logical < start + n)
      BY <2>3 DEF Hit
    <3> QED
      BY <1>1, <2>1, <3>1
  <2> QED
    BY <2>2, <2>3
<1> QED
  BY <1>2, <1>4, <1>5

\* Otherwise the page that comes is the next one.
LEMMA PageFits ==
  ASSUME TypeOK, NEW f \in File, Begun(f), start = Reached(f), NEW n,
         n = (lsize[f] - start) % Word, Answer(f, n) # <<>>
  PROVE  \E j \in 1..Len(Now(f)) :
           /\ j > Len(el[f]) /\ Last(Answer(f, n)) = Now(f)[j]
           /\ Answer(f, n) \in Seq(ExtentRecord)
           /\ Len(el[f] \o Answer(f, n)) = j
           /\ \A i \in 1..j : (el[f] \o Answer(f, n))[i] = Now(f)[i]
<1> DEFINE part == Answer(f, n)
           k == Len(el[f])
           all == Now(f)
<1>1. PICK i \in 1..Len(all), j \in 1..Len(all) :
        /\ i <= j /\ Hit(f, i, n)
        /\ \A x \in 1..Len(all) : x < i => ~Hit(f, x, n)
        /\ part \in Seq(ExtentRecord) /\ Len(part) = j - i + 1
        /\ \A x \in 1..j - i + 1 : part[x] = all[i + x - 1]
  <2>1. place[f] \in Layout
    BY DEF TypeOK, Layout
  <2>2. \E i, j \in 1..Len(Now(f)) : AnswerFrom(f, n, i, j)
    BY <2>1, AnswerIs
  <2> QED
    BY <2>2 DEF AnswerFrom
<1>2. /\ el[f] \in Seq(ExtentRecord) /\ k \in Nat /\ k <= Len(all) /\ Len(all) \in Nat
      /\ \A x \in 1..k : el[f][x] = all[x]
  <2>1. el[f] \in Seq(ExtentRecord) /\ place[f] \in Layout
    BY DEF TypeOK, Layout
  <2> QED
    BY <2>1, NowIs, LenProperties DEF Begun
<1>3. \A x \in 1..Len(all) : /\ x > k => all[x].logical >= start
                             /\ x <= k => all[x].logical + all[x].length <= start
                             /\ all[x].logical \in Nat /\ all[x].length \in Nat \ {0}
  BY Missing, NowNumbers
<1>4. start \in Nat
  BY Counts
<1>5. all[i].logical + all[i].length > start /\ all[i].logical < start + n
  BY <1>1 DEF Hit
<1> HIDE DEF all, part
<1>6. i > k
  BY <1>2, <1>3, <1>4, <1>5
<1>7. i = k + 1
  <2> SUFFICES ASSUME i # k + 1
               PROVE  FALSE
    OBVIOUS
  <2>1. k + 1 \in 1..Len(all) /\ k + 1 < i /\ k + 1 > k
    BY <1>2, <1>6
  <2>2. ~(all[k + 1].logical + all[k + 1].length > start /\ all[k + 1].logical < start + n)
    BY <1>1, <2>1 DEF Hit, all
  <2>3. /\ all[k + 1].logical >= start /\ all[k + 1].logical \in Nat
        /\ all[k + 1].length \in Nat \ {0}
    BY <1>3, <2>1
  <2>4. all[k + 1].logical + all[k + 1].length > start
    BY <1>4, <2>3
  <2>5. all[k + 1].logical + all[k + 1].length <= all[i].logical
    BY <2>1, NowOrder DEF all
  <2>6. n \in Int
    <3>1. /\ size[f] \in Nat /\ size[f] <= Blocks * Block /\ start <= Blocks * Block
          /\ lsize[f] = size[f] /\ Blocks * Block \in Nat
      BY Counts, Numbers DEF Begun
    <3>2. /\ lsize[f] - start \in Int /\ lsize[f] - start <= Blocks * Block
          /\ -(lsize[f] - start) <= Blocks * Block
      BY <1>4, <3>1
    <3> QED
      BY <3>2, Wrap
  <2>7. all[i].logical \in Nat
    BY <1>3
  <2>8. all[k + 1].logical < start + n
    <3> DEFINE l == all[k + 1].logical
               m == all[k + 1].length
               q == all[i].logical
    <3>1. l \in Nat /\ m \in Nat \ {0} /\ q \in Nat /\ l + m <= q /\ q < start + n
      BY <1>5, <2>3, <2>5, <2>7
    <3> HIDE DEF l, m, q
    <3>2. l < start + n
      BY <1>4, <2>6, <3>1
    <3> QED
      BY <3>2 DEF l
  <2> QED
    BY <2>2, <2>4, <2>8
<1>8. /\ Len(part) = j - k /\ Len(part) # 0 /\ j > k
      /\ \A x \in 1..j - k : part[x] = all[k + x]
  <2>1. j - i + 1 = j - k /\ j > k /\ j - k # 0
    BY <1>1, <1>2, <1>7
  <2>2. ASSUME NEW x \in 1..j - k
        PROVE  part[x] = all[k + x]
    <3>1. i + x - 1 = k + x /\ x \in 1..j - i + 1
      BY <1>2, <1>7, <2>1
    <3> QED
      BY <1>1, <3>1
  <2> QED
    BY <1>1, <2>1, <2>2
<1>9. Last(part) = all[j]
  <2>1. j - k \in 1..j - k /\ k + (j - k) = j
    BY <1>2, <1>8
  <2> QED
    BY <1>8, <2>1 DEF Last
<1>10. /\ Len(el[f] \o part) = k + Len(part)
       /\ \A x \in 1..k + Len(part) :
            (el[f] \o part)[x] = IF x <= k THEN el[f][x] ELSE part[x - k]
  <2>1. part \in Seq(ExtentRecord) /\ el[f] \in Seq(ExtentRecord)
    BY <1>1, <1>2
  <2> QED
    BY <2>1, ConcatProperties
<1>11. k + Len(part) = j
  BY <1>2, <1>8
<1>12. ASSUME NEW x \in 1..j
       PROVE  (el[f] \o part)[x] = all[x]
  <2>1. CASE x <= k
    BY <1>2, <1>10, <1>11, <2>1
  <2>2. CASE ~(x <= k)
    <3>1. x - k \in 1..j - k /\ k + (x - k) = x
      BY <1>2, <2>2
    <3> QED
      BY <1>8, <1>10, <1>11, <2>2, <3>1
  <2> QED
    BY <2>1, <2>2
<1> QED
  BY <1>1, <1>8, <1>9, <1>10, <1>11, <1>12 DEF all, part

\* A file and a list that stay as they are say the same.
LEMMA ListStays ==
  ASSUME NEW f, place'[f] = place[f], cut'[f] = cut[f], size'[f] = size[f],
         lsize'[f] = lsize[f], el'[f] = el[f]
  PROVE  /\ Begun(f)' <=> Begun(f)
         /\ Whole(f)' <=> Whole(f)
         /\ Reached(f)' = Reached(f)
         /\ Now(f)' = Now(f)
<1>1. Now(f)' = Now(f)
  BY DEF Now
<1>2. Begun(f)' <=> Begun(f)
  BY <1>1 DEF Begun
<1>3. Whole(f)' <=> Whole(f)
  BY <1>1 DEF Whole
<1>4. Reached(f)' = Reached(f)
  BY <1>1 DEF Reached
<1> QED
  BY <1>1, <1>2, <1>3, <1>4

LEMMA ReadChange ==
  ASSUME Basics, ReadInv, NEW g \in File, Change(g)
  PROVE  ReadInv'
<1>1. /\ stale' = stale \cup {g} /\ pc' = pc /\ lsize' = lsize /\ el' = el /\ start' = start
      /\ \A f \in File \ {g} : /\ place'[f] = place[f] /\ cut'[f] = cut[f]
                               /\ size'[f] = size[f]
  BY ChangeIs DEF Basics
<1> SUFFICES ASSUME NEW f \in File \ stale'
             PROVE  /\ pc' = (IF f = "src" THEN "page" ELSE "page2")
                         => Begun(f)' /\ start' = Reached(f)'
                    /\ pc' \in (IF f = "src" THEN {"loop", "stat2", "page2", "range", "ok"}
                                ELSE {"range"})
                         => Begun(f)' /\ Whole(f)'
  BY DEF ReadInv
<1>2. f \in File \ stale /\ f \in File \ {g}
  BY <1>1
<1>3. (Begun(f)' <=> Begun(f)) /\ (Whole(f)' <=> Whole(f)) /\ Reached(f)' = Reached(f)
  BY <1>1, <1>2, ListStays
<1> QED
  BY <1>1, <1>2, <1>3 DEF ReadInv

LEMMA ReadStat ==
  ASSUME Basics, ReadInv, Stat
  PROVE  ReadInv'
<1>1. Listed \in File /\ (Listed = "src" <=> pc = "stat") /\ (Listed = "dst" <=> pc = "stat2")
  BY DEF Listed, File, Stat
<1>2. /\ pc \in {"stat", "stat2"} /\ pc' = (IF pc = "stat" THEN "page" ELSE "page2")
      /\ lsize' = [lsize EXCEPT ![Listed] = size[Listed]] /\ start' = 0
      /\ el' = [el EXCEPT ![Listed] = <<>>] /\ stale' = stale \ {Listed}
      /\ place' = place /\ cut' = cut /\ size' = size
  BY DEF Stat, files
<1> SUFFICES ASSUME NEW f \in File \ stale'
             PROVE  /\ pc' = (IF f = "src" THEN "page" ELSE "page2")
                         => Begun(f)' /\ start' = Reached(f)'
                    /\ pc' \in (IF f = "src" THEN {"loop", "stat2", "page2", "range", "ok"}
                                ELSE {"range"})
                         => Begun(f)' /\ Whole(f)'
  BY DEF ReadInv
<1>3. CASE f = Listed
  <2>1. lsize'[f] = size'[f] /\ el'[f] = <<>> /\ start' = 0 /\ Now(f)' = Now(f)
    BY <1>1, <1>2, <1>3 DEF Basics, TypeOK, Now
  <2>2. Len(Now(f)) \in Nat /\ Len(<<>>) = 0
    <3>1. place[f] \in Layout
      BY DEF Basics, TypeOK, Layout
    <3> QED
      BY <3>1, NowIs
  <2>3. Begun(f)'
    <3>1. \A i \in 1..0 : FALSE
      OBVIOUS
    <3> QED
      BY <2>1, <2>2, <3>1 DEF Begun
  <2>4. start' = Reached(f)'
    BY <2>1 DEF Reached
  <2>5. pc' \notin (IF f = "src" THEN {"loop", "stat2", "page2", "range", "ok"} ELSE {"range"})
    BY <1>1, <1>2, <1>3
  <2> QED
    BY <2>3, <2>4, <2>5
<1>4. CASE f # Listed
  <2>1. lsize'[f] = lsize[f] /\ el'[f] = el[f] /\ f \in File \ stale
    BY <1>2, <1>4 DEF Basics, TypeOK
  <2>2. (Begun(f)' <=> Begun(f)) /\ (Whole(f)' <=> Whole(f)) /\ Reached(f)' = Reached(f)
    BY <1>2, <2>1, ListStays
  <2>3. CASE pc = "stat"
    BY <1>1, <1>2, <1>4, <2>3
  <2>4. CASE pc = "stat2"
    <3>1. f = "src" /\ pc' = "page2"
      BY <1>1, <1>2, <1>4, <2>4 DEF File
    <3> QED
      BY <2>1, <2>2, <2>4, <3>1 DEF ReadInv
  <2> QED
    BY <1>2, <2>3, <2>4
<1> QED
  BY <1>3, <1>4

LEMMA ReadPage ==
  ASSUME Basics, ReadInv, Page
  PROVE  ReadInv'
<1>1. TypeOK
  BY DEF Basics
<1>2. /\ Listed \in File /\ (Listed = "src" <=> pc = "page") /\ (Listed = "dst" <=> pc = "page2")
      /\ pc \in {"page", "page2"}
      /\ pc' \in {pc, "failed", IF pc = "page" THEN "loop" ELSE "range"}
      /\ place' = place /\ cut' = cut /\ size' = size /\ lsize' = lsize /\ stale' = stale
  BY <1>1, PageIs
<1> DEFINE n == (lsize[Listed] - start) % Word
           part == Answer(Listed, n)
<1>3. \/ pc' = "failed" /\ el' = el
      \/ /\ n = 0 \/ part = <<>>
         /\ pc' = (IF pc = "page" THEN "loop" ELSE "range") /\ el' = el /\ start' = start
      \/ /\ part # <<>> /\ el' = [el EXCEPT ![Listed] = @ \o part]
         /\ \/ /\ IsLast(Listed, Last(part))
               /\ pc' = (IF pc = "page" THEN "loop" ELSE "range") /\ start' = start
            \/ start' = NextStart(Last(part)) /\ pc' = pc
  BY DEF Page, Fail, Read
<1> HIDE DEF part, n
<1> SUFFICES ASSUME NEW f \in File \ stale
             PROVE  /\ pc' = (IF f = "src" THEN "page" ELSE "page2")
                         => Begun(f)' /\ start' = Reached(f)'
                    /\ pc' \in (IF f = "src" THEN {"loop", "stat2", "page2", "range", "ok"}
                                ELSE {"range"})
                         => Begun(f)' /\ Whole(f)'
  BY <1>2 DEF ReadInv
<1>4. CASE pc' = "failed"
  BY <1>4
<1>5. CASE f # Listed
  <2>1. CASE pc = "page"
    BY <1>2, <1>5, <2>1
  <2>2. CASE pc = "page2"
    <3>1. f = "src" /\ pc' # "page"
      BY <1>2, <1>5, <2>2 DEF File
    <3>2. el'[f] = el[f]
      BY <1>1, <1>2, <1>3, <1>5, <2>2 DEF TypeOK
    <3>3. (Begun(f)' <=> Begun(f)) /\ (Whole(f)' <=> Whole(f))
      BY <1>2, <3>2, ListStays
    <3>4. Begun(f) /\ Whole(f)
      BY <2>2, <3>1 DEF ReadInv
    <3> QED
      BY <3>1, <3>3, <3>4
  <2> QED
    BY <1>2, <2>1, <2>2
<1>6. CASE f = Listed /\ pc' # "failed"
  <2>1. Begun(f) /\ start = Reached(f)
    BY <1>2, <1>6 DEF ReadInv
  <2>2. CASE (n = 0 \/ part = <<>>) /\ el' = el /\ pc' = (IF pc = "page" THEN "loop" ELSE "range")
    <3>1. Begun(f)' /\ (Whole(f)' <=> Whole(f))
      BY <1>2, <2>1, <2>2, ListStays
    <3>2. n = 0 \/ \A i \in 1..Len(Now(f)) : ~Hit(f, i, n)
      <4>1. place[f] \in Layout
        BY <1>1 DEF TypeOK, Layout
      <4>2. part = <<>> => \A i \in 1..Len(Now(f)) : ~Hit(f, i, n)
        <5> SUFFICES ASSUME Answer(f, n) = <<>>
                     PROVE  \A i \in 1..Len(Now(f)) : ~Hit(f, i, n)
          BY <1>6 DEF part
        <5>1. Len(Answer(f, n)) = 0
          OBVIOUS
        <5>2. \A i, j \in 1..Len(Now(f)) : i <= j => j - i + 1 # 0
          OBVIOUS
        <5> QED
          BY <4>1, <5>1, <5>2, AnswerIs DEF AnswerFrom
      <4> QED
        BY <2>2, <4>2
    <3>3. Whole(f)
      BY <1>1, <1>6, <2>1, <3>2, NothingMissing DEF n
    <3>4. pc' # (IF f = "src" THEN "page" ELSE "page2")
      BY <1>2, <1>6, <2>2
    <3> QED
      BY <3>1, <3>3, <3>4
  <2>3. CASE /\ part # <<>> /\ el' = [el EXCEPT ![Listed] = @ \o part]
             /\ \/ /\ IsLast(Listed, Last(part))
                   /\ pc' = (IF pc = "page" THEN "loop" ELSE "range") /\ start' = start
                \/ start' = NextStart(Last(part)) /\ pc' = pc
    <3>1. PICK j \in 1..Len(Now(f)) :
            /\ j > Len(el[f]) /\ Last(part) = Now(f)[j] /\ part \in Seq(ExtentRecord)
            /\ Len(el[f] \o part) = j
            /\ \A i \in 1..j : (el[f] \o part)[i] = Now(f)[i]
      <4>1. n = (lsize[f] - start) % Word /\ part = Answer(f, n)
        BY <1>6 DEF n, part
      <4> QED
        BY <1>1, <2>1, <2>3, <4>1, PageFits
    <3>2. el'[f] = el[f] \o part
      BY <1>1, <1>6, <2>3 DEF TypeOK
    <3>3. Now(f)' = Now(f) /\ size' = size /\ lsize' = lsize
      BY <1>2 DEF Now
    <3>4. Len(Now(f)) \in Nat
      <4>1. place[f] \in Layout
        BY <1>1 DEF TypeOK, Layout
      <4> QED
        BY <4>1, NowIs
    <3>5. Begun(f)'
      BY <2>1, <3>1, <3>2, <3>3, <3>4 DEF Begun
    <3>6. CASE IsLast(Listed, Last(part)) /\ pc' = (IF pc = "page" THEN "loop" ELSE "range")
      <4>1. Len(Now(f)) \in 1..Len(Now(f)) /\ Now(f)[Len(Now(f))] = Now(f)[j]
        BY <1>6, <3>1, <3>4, <3>6 DEF IsLast, Last
      <4>2. j = Len(Now(f))
        BY <1>1, <4>1, NowOrder
      <4>3. Whole(f)'
        BY <3>1, <3>2, <3>3, <4>2 DEF Whole
      <4>4. pc' # (IF f = "src" THEN "page" ELSE "page2")
        BY <1>2, <1>6, <3>6
      <4> QED
        BY <3>5, <4>3, <4>4
    <3>7. CASE start' = NextStart(Last(part)) /\ pc' = pc
      <4>1. el'[f] # <<>>
        BY <3>1, <3>2
      <4>2. start' = Reached(f)'
        BY <3>1, <3>2, <3>3, <3>7, <4>1 DEF Reached
      <4>3. pc' \notin (IF f = "src" THEN {"loop", "stat2", "page2", "range", "ok"} ELSE {"range"})
        BY <1>2, <1>6, <3>7
      <4> QED
        BY <3>5, <4>2, <4>3
    <3> QED
      BY <2>3, <3>6, <3>7
  <2> QED
    BY <1>3, <1>6, <2>2, <2>3
<1> QED
  BY <1>4, <1>5, <1>6

LEMMA ReadNext ==
  ASSUME Basics, ReadInv, [Next]_vars
  PROVE  ReadInv'
<1>1. CASE Stat
  BY <1>1, ReadStat
<1>2. CASE Page
  BY <1>2, ReadPage
<1>3. ASSUME NEW g \in File, Change(g)
      PROVE  ReadInv'
  BY <1>3, ReadChange
<1>4. ASSUME place' = place \/ (place'["src"] = place["src"] /\ pc' \in {"loop", "ok"}),
             pc' = pc \/ pc' \in {"failed", "unsupported"}
             \/ (pc \in {"loop", "range"} /\ pc' \in {"loop", "stat2", "ok"}),
             cut' = cut, size' = size, lsize' = lsize, start' = start, el' = el, stale' = stale
      PROVE  ReadInv'
  <2> SUFFICES ASSUME NEW f \in File \ stale
               PROVE  /\ pc' = (IF f = "src" THEN "page" ELSE "page2")
                           => Begun(f)' /\ start' = Reached(f)'
                      /\ pc' \in (IF f = "src" THEN {"loop", "stat2", "page2", "range", "ok"}
                                  ELSE {"range"})
                           => Begun(f)' /\ Whole(f)'
    BY <1>4 DEF ReadInv
  <2>1. CASE place'[f] = place[f]
    <3>1. (Begun(f)' <=> Begun(f)) /\ (Whole(f)' <=> Whole(f)) /\ Reached(f)' = Reached(f)
      BY <1>4, <2>1, ListStays
    <3> QED
      BY <1>4, <3>1 DEF ReadInv, File
  <2>2. CASE place'[f] # place[f]
    <3>1. f = "dst" /\ pc' \in {"loop", "ok"}
      BY <1>4, <2>2 DEF File
    <3> QED
      BY <3>1
  <2> QED
    BY <2>1, <2>2
<1>5. CASE Loop
  BY <1>4, <1>5 DEF Loop, files, history
<1>6. CASE Skip
  BY <1>4, <1>6 DEF Skip, files, history
<1>7. CASE Dedupe
  <2>1. TypeOK /\ OffsInv /\ ListInv
    BY DEF Basics
  <2>2. /\ pc = "range" /\ cut' = cut /\ size' = size
        /\ UNCHANGED <<lsize, start, el, old, stale, changed, changes>>
    BY <1>7, <2>1, DedupeIs
  <2>3. PICK n \in Nat : /\ Shared(n) /\ pc' = (IF offs' = lsize["src"] THEN "ok" ELSE "loop")
    BY <1>7, <2>1, DedupeIs
  <2>4. place'["src"] = place["src"]
    BY <2>1, <2>3, SharedIs
  <2> QED
    BY <1>4, <2>2, <2>3, <2>4
<1>8. CASE DedupeError
  BY <1>4, <1>8 DEF DedupeError, Fail, files, history
<1>9. CASE UNCHANGED vars
  BY <1>4, <1>9 DEF vars, files, history
<1> QED
  BY <1>1, <1>2, <1>3, <1>5, <1>6, <1>7, <1>8, <1>9 DEF Next, Deduplicate, Returned

\* A list that was read, in as many pages as it takes, is the one of the file unless
\* the file was changed since, whatever the sizes of the file and of a page are.
THEOREM Lists == Spec => []ListsComplete
<1>1. Init => Basics /\ ReadInv
  <2>1. Init => ReadInv
    BY DEF Init, ReadInv
  <2> QED
    BY <2>1, BasicsInit
<1>2. Basics /\ ReadInv /\ [Next]_vars => Basics' /\ ReadInv'
  BY BasicsNext, ReadNext
<1>3. ASSUME Basics, ReadInv
      PROVE  ListsComplete
  <2> SUFFICES ASSUME NEW f \in File, f \notin stale,
                      pc \in (IF f = "dst" THEN {"range"}
                              ELSE {"loop", "stat2", "page2", "range", "ok"})
               PROVE  /\ IsPrefix(el[f], Now(f))
                      /\ \A e \in ToSet(Now(f)) : e.logical < size[f] => e \in ToSet(el[f])
    BY DEF ListsComplete
  <2>1. Begun(f) /\ Whole(f)
    BY <1>3 DEF ReadInv, File
  <2>2. place[f] \in Layout /\ el[f] \in Seq(ExtentRecord) /\ size[f] \in Nat
    BY <1>3, Counts DEF Basics, TypeOK, Layout
  <2>3. /\ Len(Now(f)) \in Nat /\ Now(f) \in Seq(ExtentRecord) /\ DOMAIN Now(f) = 1..Len(Now(f))
        /\ Len(el[f]) \in Nat /\ DOMAIN el[f] = 1..Len(el[f])
    BY <2>2, NowIs, LenProperties
  <2>4. IsPrefix(el[f], Now(f))
    <3> DEFINE k == Len(el[f])
    <3>1. k \in Nat /\ k <= Len(Now(f)) /\ \A i \in 1..k : el[f][i] = Now(f)[i]
      BY <2>1, <2>3 DEF Begun
    <3>2. SubSeq(el[f], 1, k) = [i \in 1..k |-> el[f][i]]
      <4>1. k \in 0..Len(el[f])
        BY <3>1
      <4> QED
        BY <2>2, <4>1, SubSeqRestrict DEF Restrict
    <3>3. SubSeq(Now(f), 1, k) = [i \in 1..k |-> Now(f)[i]]
      <4>1. k \in 0..Len(Now(f))
        BY <2>3, <3>1
      <4> HIDE DEF k
      <4> QED
        BY <2>3, <4>1, SubSeqRestrict DEF Restrict
    <3>4. [i \in 1..k |-> el[f][i]] = [i \in 1..k |-> Now(f)[i]]
      BY <3>1
    <3> QED
      BY <3>1, <3>2, <3>3, <3>4 DEF IsPrefix
  <2>5. ASSUME NEW e \in ToSet(Now(f)), e.logical < size[f]
        PROVE  e \in ToSet(el[f])
    <3>1. PICK i \in 1..Len(Now(f)) : e = Now(f)[i]
      BY <2>3 DEF ToSet
    <3>2. e.logical \in Nat
      BY <1>3, <3>1, NowNumbers DEF Basics
    <3>3. ~(i > Len(el[f]))
      BY <2>1, <2>2, <2>5, <3>1, <3>2 DEF Whole
    <3>4. i \in 1..Len(el[f])
      BY <2>3, <3>3
    <3> QED
      BY <2>1, <2>3, <3>1, <3>4 DEF Begun, ToSet
  <2> QED
    BY <2>4, <2>5
<1> QED
  BY <1>1, <1>2, <1>3, PTL DEF Spec

-----------------------------------------------------------------------------
(* What is reclaimed                                                       *)

\* While nobody else changes the files: the source stays as it was, the destination until
\* the first range; ranges begin with a block; what the files newly share was counted.
AloneInv ==
  changed = {} =>
    /\ stale = {} /\ place["src"] = old.place["src"] /\ cut = old.cut
    /\ pc \in {"stat", "page"} => place = old.place
    /\ pc \in {"loop", "stat2", "page2", "range"} => Aligned(offs)
    /\ Cardinality(NewlyShared) <= reclaimed

LEMMA NewlyIs ==
  ASSUME TypeOK
  PROVE  /\ IsFiniteSet(NewlyShared) /\ Cardinality(NewlyShared) \in Nat
         /\ place = old.place => NewlyShared = {}
<1>1. lsize["src"] \in Nat
  BY Counts
<1>2. NewlyShared \subseteq 0..lsize["src"] - 1
  BY DEF NewlyShared
<1>3. IsFiniteSet(0..lsize["src"] - 1)
  BY <1>1, FS_Interval
<1>4. IsFiniteSet(NewlyShared)
  BY <1>2, <1>3, FS_Subset
<1>5. place = old.place => NewlyShared = {}
  BY DEF NewlyShared
<1> QED
  BY <1>4, <1>5, FS_CardinalityType

LEMMA AlignedZero == Aligned(0)
BY Numbers, Scale DEF Aligned

\* Two multiples of a block add up to one, within the file.
LEMMA AlignedSum ==
  ASSUME NEW a \in Int, NEW b \in Int, Aligned(a), Aligned(b), a + b <= Blocks * Block
  PROVE  Aligned(a + b)
<1>1. PICK k \in 0..Blocks : a = k * Block
  BY DEF Aligned
<1>2. PICK m \in 0..Blocks : b = m * Block
  BY DEF Aligned
<1>3. /\ k \in Int /\ m \in Int /\ k >= 0 /\ m >= 0 /\ Blocks \in Int /\ k + m \in Int
      /\ Blocks * Block \in Int
  BY Numbers
<1>4. a + b = (k + m) * Block /\ (k + m) * Block \in Int
  BY <1>1, <1>2, <1>3, Scale
<1>5. ~(Blocks < k + m)
  <2>1. Blocks < k + m => Blocks * Block < (k + m) * Block
    BY <1>3, Scale
  <2> QED
    BY <1>3, <1>4, <2>1
<1>6. k + m \in 0..Blocks
  BY <1>3, <1>5
<1> QED
  BY <1>4, <1>6 DEF Aligned

\* A block that begins before a multiple of a block ends there at the latest.
LEMMA AlignedBlock ==
  ASSUME NEW a \in Int, Aligned(a), NEW b \in BlockNo, b * Block < a
  PROVE  b * Block + Block <= a
<1>1. PICK k \in 0..Blocks : a = k * Block
  BY DEF Aligned
<1>2. b \in Int /\ k \in Int /\ b + 1 \in Int
  BY Numbers
<1>3. b < k
  BY <1>1, <1>2, Scale
<1>4. b + 1 < k \/ b + 1 = k
  BY <1>2, <1>3
<1>5. (b + 1) * Block = b * Block + Block
  BY <1>2, Scale
<1>6. /\ (b + 1) * Block \in Int /\ k * Block \in Int
      /\ b + 1 < k => (b + 1) * Block < k * Block
  BY <1>2, Scale
<1> QED
  BY <1>1, <1>4, <1>5, <1>6

LEMMA AloneFrame ==
  ASSUME AloneInv, changed' = changed, stale' \subseteq stale, place' = place, cut' = cut, old' = old,
         reclaimed' = reclaimed, lsize'["src"] = lsize["src"],
         pc' \in {"stat", "page"} => pc \in {"stat", "page"},
         pc' \in {"loop", "stat2", "page2", "range"} /\ changed = {} => Aligned(offs)'
  PROVE  AloneInv'
<1>1. NewlyShared' = NewlyShared
  BY DEF NewlyShared, Share
<1> QED
  BY <1>1 DEF AloneInv

\* A range that is shared makes the files share no more than was counted.
LEMMA AloneDedupe ==
  ASSUME Basics, ReadInv, AloneInv, Dedupe
  PROVE  AloneInv'
<1>1. TypeOK /\ OffsInv /\ ListInv
  BY DEF Basics
<1>2. /\ pc = "range" /\ cut' = cut /\ size' = size
      /\ UNCHANGED <<lsize, start, el, old, stale, changed, changes>>
  BY <1>1, DedupeIs
<1>3. PICK n \in 0..RangeLength :
        /\ CanShare(n, RangeLength) /\ Shared(n) /\ n \in Nat
        /\ reclaimed' = reclaimed + n /\ offs' = offs + n /\ offs' <= lsize["src"]
        /\ pc' = (IF offs' = lsize["src"] THEN "ok" ELSE "loop")
  BY <1>1, DedupeIs
<1> SUFFICES ASSUME changed = {}
             PROVE  AloneInv'
  BY <1>2 DEF AloneInv
<1>4. /\ stale = {} /\ place["src"] = old.place["src"] /\ cut = old.cut /\ Aligned(offs)
      /\ Cardinality(NewlyShared) <= reclaimed
  BY <1>2 DEF AloneInv
<1>5. /\ place'["src"] = place["src"]
      /\ \A b \in BlockNo :
           place'["dst"][b] = IF offs <= b * Block /\ b * Block < offs + n
                              THEN place["src"][b] ELSE place["dst"][b]
  BY <1>1, <1>3, SharedIs
<1>6. /\ offs \in Nat /\ lsize["src"] \in Nat /\ lsize["src"] <= Blocks * Block
      /\ reclaimed \in Nat /\ Blocks * Block \in Nat
  BY <1>1, Counts, Numbers
<1>7. lsize["src"] = size["src"]
  BY <1>2, <1>4 DEF ReadInv, Begun, File
<1>8. Aligned(offs + n) \/ offs + n = lsize["src"]
  <2>1. CASE Aligned(n)
    BY <1>3, <1>4, <1>6, <2>1, AlignedSum
  <2>2. CASE ~Aligned(n)
    BY <1>3, <1>7, <2>2 DEF CanShare
  <2> QED
    BY <2>1, <2>2
<1> DEFINE range == offs..offs + n - 1
<1>9. NewlyShared' \subseteq NewlyShared \cup range
  <2> SUFFICES ASSUME NEW u \in 0..lsize["src"] - 1, NEW b \in BlockNo,
                      b * Block <= u, u < b * Block + Block,
                      ~Share(old.place, b), Share(place', b), u \notin NewlyShared
               PROVE  u \in range
    BY <1>2 DEF NewlyShared, Share
  <2>1. place["src"][b] # place["dst"][b]
    <3>1. ~Share(place, b)
      BY DEF NewlyShared
    <3>2. place["src"][b] # Inline
      BY <1>5 DEF Share
    <3> QED
      BY <3>1, <3>2 DEF Share
  <2>2. offs <= b * Block /\ b * Block < offs + n
    <3>1. place'["src"][b] = place'["dst"][b]
      BY DEF Share
    <3> QED
      BY <1>5, <2>1, <3>1
  <2>3. u \in Int /\ b * Block \in Int /\ u < lsize["src"] /\ offs + n \in Int /\ Block \in Int
    BY <1>3, <1>6, Numbers
  <2>4. u < offs + n
    <3>1. CASE Aligned(offs + n)
      <4>1. b * Block + Block <= offs + n
        BY <2>2, <2>3, <3>1, AlignedBlock
      <4> QED
        BY <2>3, <4>1
    <3>2. CASE offs + n = lsize["src"]
      BY <2>3, <3>2
    <3> QED
      BY <1>8, <3>1, <3>2
  <2>5. offs <= u
    BY <1>6, <2>2, <2>3
  <2> QED
    BY <1>3, <1>6, <2>3, <2>4, <2>5
<1>10. Cardinality(NewlyShared') <= reclaimed'
  <2>1. IsFiniteSet(range) /\ Cardinality(range) = n
    <3>1. offs \in Int /\ offs + n - 1 \in Int
      BY <1>3, <1>6
    <3>2. /\ IsFiniteSet(offs..offs + n - 1)
          /\ Cardinality(offs..offs + n - 1)
             = IF offs > offs + n - 1 THEN 0 ELSE (offs + n - 1) - offs + 1
      BY <3>1, FS_Interval
    <3>3. (IF offs > offs + n - 1 THEN 0 ELSE (offs + n - 1) - offs + 1) = n
      BY <1>3, <1>6
    <3> QED
      BY <3>2, <3>3
  <2> HIDE DEF range
  <2>2. IsFiniteSet(NewlyShared) /\ Cardinality(NewlyShared) \in Nat
    BY <1>1, NewlyIs
  <2>3. /\ IsFiniteSet(NewlyShared \cup range)
        /\ Cardinality(NewlyShared \cup range)
           = Cardinality(NewlyShared) + Cardinality(range) - Cardinality(NewlyShared \cap range)
    BY <2>1, <2>2, FS_Union
  <2>4. Cardinality(NewlyShared \cap range) \in Nat
    <3>1. IsFiniteSet(NewlyShared \cap range)
      BY <2>2, FS_Intersection
    <3> QED
      BY <3>1, FS_CardinalityType
  <2>5. /\ IsFiniteSet(NewlyShared')
        /\ Cardinality(NewlyShared') <= Cardinality(NewlyShared \cup range)
    BY <1>9, <2>3, FS_Subset
  <2>6. Cardinality(NewlyShared') \in Nat
    BY <2>5, FS_CardinalityType
  <2> QED
    BY <1>3, <1>4, <1>6, <2>1, <2>2, <2>3, <2>4, <2>5, <2>6
<1>11. pc' = "loop" => Aligned(offs)'
  BY <1>3, <1>8 DEF Aligned
<1>12. pc' \in {"loop", "ok"}
  BY <1>3
<1> QED
  BY <1>2, <1>4, <1>5, <1>10, <1>11, <1>12 DEF AloneInv

LEMMA AloneNext ==
  ASSUME Basics, ReadInv, AloneInv, [Next]_vars
  PROVE  AloneInv'
<1> USE DEF Basics
<1>1. CASE Stat
  <2>1. /\ pc \in {"stat", "stat2"} /\ pc' = (IF pc = "stat" THEN "page" ELSE "page2")
        /\ lsize' = [lsize EXCEPT ![Listed] = size[Listed]] /\ stale' = stale \ {Listed}
        /\ place' = place /\ cut' = cut
        /\ UNCHANGED <<offs, reclaimed, old, changed>>
    BY <1>1 DEF Stat, files
  <2>2. CASE pc = "stat"
    <3> SUFFICES ASSUME changed = {}
                 PROVE  AloneInv'
      BY <2>1 DEF AloneInv
    <3>1. stale = {} /\ place = old.place /\ cut = old.cut
      BY <2>2 DEF AloneInv
    <3>2. NewlyShared' = {}
      BY <2>1, <3>1 DEF NewlyShared, Share
    <3>3. Cardinality({}) = 0 /\ reclaimed \in Nat
      BY FS_EmptySet, Counts
    <3>4. Cardinality(NewlyShared)' <= reclaimed'
      BY <2>1, <3>2, <3>3
    <3> QED
      BY <2>1, <2>2, <3>1, <3>4 DEF AloneInv
  <2>3. CASE pc = "stat2"
    <3>1. lsize'["src"] = lsize["src"] /\ pc' = "page2" /\ stale' \subseteq stale
      BY <2>1, <2>3 DEF Listed, TypeOK
    <3>2. changed = {} => Aligned(offs)'
      BY <2>1, <2>3 DEF AloneInv, Aligned
    <3> QED
      BY <2>1, <3>1, <3>2, AloneFrame
  <2> QED
    BY <2>1, <2>2, <2>3
<1>2. CASE Page
  <2>1. /\ pc \in {"page", "page2"}
        /\ pc' \in {pc, "failed", IF pc = "page" THEN "loop" ELSE "range"}
        /\ place' = place /\ cut' = cut
        /\ UNCHANGED <<lsize, offs, reclaimed, old, stale, changed>>
    BY <1>2, PageIs
  <2>2. CASE pc = "page"
    <3>1. offs' = 0
      BY <2>1, <2>2 DEF OffsInv
    <3>2. Aligned(offs)'
      BY <3>1, AlignedZero DEF Aligned
    <3> QED
      BY <2>1, <2>2, <3>2, AloneFrame
  <2>3. CASE pc = "page2"
    <3>1. changed = {} => Aligned(offs)'
      BY <2>1, <2>3 DEF AloneInv, Aligned
    <3> QED
      BY <2>1, <2>3, <3>1, AloneFrame
  <2> QED
    BY <2>1, <2>2, <2>3
<1>3. CASE Loop
  <2>1. /\ pc = "loop" /\ pc' = (IF offs >= lsize["src"] THEN "ok" ELSE "stat2")
        /\ place' = place /\ cut' = cut
        /\ UNCHANGED <<lsize, offs, reclaimed, old, stale, changed>>
    BY <1>3 DEF Loop, files, history
  <2>2. changed = {} => Aligned(offs)'
    BY <2>1 DEF AloneInv, Aligned
  <2>3. pc' \notin {"stat", "page"}
    BY <2>1
  <2> QED
    BY <2>1, <2>2, <2>3, AloneFrame
<1>4. CASE Skip
  <2>1. /\ pc = "range" /\ pc' = "loop" /\ place' = place /\ cut' = cut
        /\ UNCHANGED <<lsize, reclaimed, old, stale, changed>>
    BY <1>4 DEF Skip, files, history
  <2>2. PICK a \in E1, b \in E2 : Matches(a, b) /\ offs' = After(a)
    BY <1>4 DEF Skip
  <2>3. a \in Runs(place["src"], changed) /\ a.logical = offs /\ offs' = offs + a.length
    BY <2>1, <2>2, FoundIs DEF After
  <2>4. PICK l \in Nat, m \in Nat : IsRun(a, place["src"], changed, l, m)
    BY <2>3 DEF Runs
  <2>5. l + m \in 0..Blocks /\ offs' = (l + m) * Block
    BY <2>3, <2>4, Numbers, Scale DEF IsRun
  <2>6. Aligned(offs)'
    BY <2>5 DEF Aligned
  <2> QED
    BY <2>1, <2>6, AloneFrame
<1>5. CASE Dedupe
  BY <1>5, AloneDedupe
<1>6. CASE DedupeError
  <2>1. /\ pc' \in {"failed", "unsupported"} /\ place' = place /\ cut' = cut
        /\ UNCHANGED <<lsize, offs, reclaimed, old, stale, changed>>
    BY <1>6 DEF DedupeError, Fail, files, history
  <2>2. pc' \notin {"stat", "page", "loop", "stat2", "page2", "range"}
    BY <2>1
  <2> QED
    BY <2>1, <2>2, AloneFrame
<1>7. ASSUME NEW f \in File, Change(f)
      PROVE  AloneInv'
  <2>1. changed' # {}
    BY <1>7, ChangeIs
  <2> QED
    BY <2>1 DEF AloneInv
<1>8. CASE UNCHANGED vars
  <2>1. /\ place' = place /\ cut' = cut /\ pc' = pc
        /\ UNCHANGED <<lsize, offs, reclaimed, old, stale, changed>>
    BY <1>8 DEF vars, files, history
  <2>2. pc' \in {"loop", "stat2", "page2", "range"} /\ changed = {} => Aligned(offs)'
    BY <2>1 DEF AloneInv, Aligned
  <2> QED
    BY <2>1, <2>2, AloneFrame
<1> QED
  BY <1>1, <1>2, <1>3, <1>4, <1>5, <1>6, <1>7, <1>8 DEF Next, Deduplicate, Returned

LEMMA AloneInit ==
  ASSUME Init
  PROVE  AloneInv
<1>1. TypeOK
  BY BasicsInit DEF Basics
<1>2. /\ place = old.place /\ cut = old.cut /\ stale = {} /\ pc = "stat" /\ reclaimed = 0
  BY DEF Init, Snapshot
<1>3. NewlyShared = {} /\ Cardinality({}) = 0
  BY <1>1, <1>2, NewlyIs, FS_EmptySet
<1> QED
  BY <1>2, <1>3 DEF AloneInv

\* What it reports as reclaimed is never less than what it made the files share, and
\* never more than what it has gone through, with every size of a block and wherever
\* the kernel stops.
THEOREM CountCovers == Spec => []ReclaimedCovers
<1>1. Init => Basics /\ ReadInv /\ AloneInv
  <2>1. Init => ReadInv
    BY DEF Init, ReadInv
  <2> QED
    BY <2>1, AloneInit, BasicsInit
<1>2. Basics /\ ReadInv /\ AloneInv /\ [Next]_vars => Basics' /\ ReadInv' /\ AloneInv'
  BY BasicsNext, ReadNext, AloneNext
<1>3. Basics /\ AloneInv => ReclaimedCovers
  BY DEF Basics, AloneInv, ReclaimedCovers, OffsInv
<1> QED
  BY <1>1, <1>2, <1>3, PTL DEF Spec

-----------------------------------------------------------------------------
(* Files that already match                                                *)

\* The files matched when DeduplicateFiles began, and the source has no hole.
SameAtFirst ==
  /\ ExtentsMatch(ExtentsOf(old.place["src"], old.cut["src"]),
                  ExtentsOf(old.place["dst"], old.cut["dst"]))
  /\ \A b \in BlockNo : old.place["src"][b] # Hole

\* Then nothing is moved, and a range begins where an extent of the source ends.
Between(o) ==
  o = 0 \/ \E b \in Begins(place["src"], cut["src"]) :
             o = Ending(place["src"], cut["src"], b) * Block
SameInv ==
  changed = {} /\ SameAtFirst =>
    /\ place = old.place /\ reclaimed = 0
    /\ pc \in {"loop", "stat2", "page2", "range"} => Between(offs)

LEMMA SameFrame ==
  ASSUME SameInv, changed' = changed, place' = place, cut' = cut, old' = old,
         reclaimed' = reclaimed,
         pc' \in {"loop", "stat2", "page2", "range"} /\ changed = {} /\ SameAtFirst => Between(offs')
  PROVE  SameInv'
<1>1. SameAtFirst' <=> SameAtFirst
  BY DEF SameAtFirst
<1>2. Between(offs)' <=> Between(offs')
  BY DEF Between
<1> QED
  BY <1>1, <1>2 DEF SameInv

\* The extents of the source follow each other without a gap.
LEMMA NoGap ==
  ASSUME TypeOK, \A b \in BlockNo : place["src"][b] # Hole, Between(offs), offs < Blocks * Block
  PROVE  \E b \in Begins(place["src"], cut["src"]) : offs = b * Block
<1> DEFINE pl == place["src"]
           c == cut["src"]
<1>1. pl \in Layout
  BY DEF TypeOK, Layout, File
<1>2. CASE offs = 0
  <2>1. 0 \in BlockNo /\ 0 * Block = 0
    BY Numbers, Scale
  <2>2. 0 \in Begins(pl, c)
    BY <2>1 DEF Begins
  <2> QED
    BY <1>2, <2>1, <2>2
<1>3. ASSUME NEW b \in Begins(pl, c), offs = Ending(pl, c, b) * Block
      PROVE  \E x \in Begins(pl, c) : offs = x * Block
  <2> DEFINE end == Ending(pl, c, b)
  <2>1. /\ end \in b + 1..Blocks /\ b \in BlockNo
        /\ (end = Blocks \/ pl[end] = Hole \/ end \in Begins(pl, c))
    <3> HIDE DEF pl, c
    <3> QED
      BY <1>1, ExtentIs
  <2> HIDE DEF end
  <2>2. end # Blocks
    BY <1>3, Counts, Numbers DEF end
  <2>3. end \in BlockNo
    BY <2>1, <2>2, Numbers
  <2>4. end \in Begins(pl, c)
    BY <2>1, <2>2, <2>3
  <2> QED
    BY <1>3, <2>4 DEF end
<1> QED
  BY <1>2, <1>3 DEF Between

\* So where a range begins both lists have the same extent, unless the destination ends
\* before it, and the kernel refuses the range.
LEMMA SameSkips ==
  ASSUME Basics, ReadInv, AloneInv, SameInv, changed = {}, SameAtFirst, pc = "range",
         offs + RangeLength <= size["dst"]
  PROVE  \E a \in E1, b \in E2 : Matches(a, b)
<1>1. TypeOK /\ OffsInv /\ ListInv
  BY DEF Basics
<1>2. /\ stale = {} /\ cut = old.cut /\ place = old.place /\ Between(offs)
  BY DEF AloneInv, SameInv
<1>3. /\ Begun("src") /\ Whole("src") /\ Begun("dst") /\ Whole("dst")
  BY <1>2 DEF ReadInv, File
<1>4. /\ offs < lsize["src"] /\ lsize["src"] = size["src"] /\ lsize["src"] <= Blocks * Block
      /\ offs \in Nat /\ size["src"] \in Nat /\ size["dst"] \in Nat
      /\ RangeLength \in Nat \ {0} /\ Blocks * Block \in Nat
  BY <1>1, <1>3, RangeIs, Counts, Numbers DEF OffsInv, Begun
<1>5. offs < size["dst"]
  BY <1>4
<1>6. PICK b \in Begins(place["src"], cut["src"]) : offs = b * Block
  <2>1. \A x \in BlockNo : place["src"][x] # Hole
    BY <1>2 DEF SameAtFirst
  <2>2. offs < Blocks * Block
    BY <1>4
  <2> QED
    BY <1>1, <1>2, <2>1, <2>2, NoGap
<1>7. place["src"] \in Layout /\ place["dst"] \in Layout
  BY <1>1 DEF TypeOK, Layout, File
<1>8. PICK i \in 1..Len(Now("src")) : Now("src")[i] = Extent(place["src"], cut["src"], b)
  BY <1>7, NowIs
<1>9. Now("src")[i].logical = offs
  BY <1>6, <1>8 DEF Extent
<1>10. /\ Len(Now("src")) = Len(Now("dst")) /\ Matches(Now("src")[i], Now("dst")[i])
       /\ i \in 1..Len(Now("dst"))
  <2>1. DOMAIN Now("src") = 1..Len(Now("src"))
    BY <1>7, NowIs
  <2>2. ExtentsMatch(Now("src"), Now("dst"))
    BY <1>2 DEF SameAtFirst, Now
  <2> QED
    BY <2>1, <2>2 DEF ExtentsMatch
<1>11. Now("dst")[i].logical = offs
  BY <1>9, <1>10 DEF Matches
<1>12. /\ el["src"] \in Seq(ExtentRecord) /\ Len(el["src"]) \in Nat
       /\ DOMAIN el["src"] = 1..Len(el["src"])
       /\ el["dst"] \in Seq(ExtentRecord) /\ Len(el["dst"]) \in Nat
       /\ DOMAIN el["dst"] = 1..Len(el["dst"])
  <2>1. el["src"] \in Seq(ExtentRecord) /\ el["dst"] \in Seq(ExtentRecord)
    BY <1>1 DEF TypeOK, File
  <2> QED
    BY <2>1, LenProperties
<1>13. i \in DOMAIN el["src"] /\ el["src"][i] = Now("src")[i]
  <2>1. ~(i > Len(el["src"]))
    BY <1>3, <1>4, <1>9 DEF Whole
  <2>2. i \in 1..Len(el["src"])
    BY <1>12, <2>1
  <2> QED
    BY <1>3, <1>12, <2>2 DEF Begun
<1>14. i \in DOMAIN el["dst"] /\ el["dst"][i] = Now("dst")[i]
  <2>1. ~(i > Len(el["dst"]))
    BY <1>3, <1>4, <1>5, <1>10, <1>11 DEF Whole
  <2>2. i \in 1..Len(el["dst"])
    BY <1>12, <2>1
  <2> QED
    BY <1>3, <1>12, <2>2 DEF Begun
<1>15. el["src"][i] \in E1
  BY <1>9, <1>13 DEF E1, Find, ToSet
<1>16. el["dst"][i] \in E2
  BY <1>11, <1>14 DEF E2, Find, ToSet
<1> QED
  BY <1>10, <1>13, <1>14, <1>15, <1>16

LEMMA SameNext ==
  ASSUME Basics, ReadInv, AloneInv, SameInv, [Next]_vars
  PROVE  SameInv'
<1> USE DEF Basics
<1>1. CASE Stat
  <2>1. /\ pc \in {"stat", "stat2"} /\ pc' = (IF pc = "stat" THEN "page" ELSE "page2")
        /\ place' = place /\ cut' = cut
        /\ UNCHANGED <<offs, reclaimed, old, changed>>
    BY <1>1 DEF Stat, files
  <2>2. pc' \in {"loop", "stat2", "page2", "range"} /\ changed = {} /\ SameAtFirst => Between(offs')
    BY <2>1 DEF SameInv
  <2> QED
    BY <2>1, <2>2, SameFrame
<1>2. CASE Page
  <2>1. /\ pc \in {"page", "page2"}
        /\ pc' \in {pc, "failed", IF pc = "page" THEN "loop" ELSE "range"}
        /\ place' = place /\ cut' = cut
        /\ UNCHANGED <<offs, reclaimed, old, changed>>
    BY <1>2, PageIs
  <2>2. pc' \in {"loop", "stat2", "page2", "range"} /\ changed = {} /\ SameAtFirst => Between(offs')
    <3>1. pc = "page" => offs' = 0
      BY <2>1 DEF OffsInv
    <3>2. pc = "page2" => offs' = offs
      BY <2>1
    <3> QED
      BY <2>1, <3>1, <3>2 DEF SameInv, Between
  <2> QED
    BY <2>1, <2>2, SameFrame
<1>3. CASE Loop
  <2>1. /\ pc = "loop" /\ place' = place /\ cut' = cut
        /\ UNCHANGED <<offs, reclaimed, old, changed>>
    BY <1>3 DEF Loop, files, history
  <2>2. changed = {} /\ SameAtFirst => Between(offs')
    BY <2>1 DEF SameInv
  <2> QED
    BY <2>1, <2>2, SameFrame
<1>4. CASE Skip
  <2>1. /\ pc = "range" /\ place' = place /\ cut' = cut
        /\ UNCHANGED <<reclaimed, old, changed>>
    BY <1>4 DEF Skip, files, history
  <2>2. ASSUME changed = {}
        PROVE  Between(offs')
    <3>1. PICK a \in E1, b \in E2 : Matches(a, b) /\ offs' = After(a)
      BY <1>4 DEF Skip
    <3>2. a.logical = offs /\ offs' = a.logical + a.length
      BY <2>1, <3>1, FoundIs DEF After
    <3>3. stale = {}
      BY <2>2 DEF AloneInv
    <3>4. Begun("src")
      BY <2>1, <3>3 DEF ReadInv, File
    <3>5. place["src"] \in Layout /\ el["src"] \in Seq(ExtentRecord)
      BY DEF TypeOK, Layout, File
    <3>6. PICK i \in DOMAIN el["src"] : a = el["src"][i]
      BY <3>1 DEF E1, Find, ToSet
    <3>7. /\ DOMAIN el["src"] = 1..Len(el["src"]) /\ Len(el["src"]) \in Nat
          /\ Len(Now("src")) \in Nat
      BY <3>5, NowIs, LenProperties
    <3>8. i \in 1..Len(Now("src")) /\ a = Now("src")[i]
      BY <3>4, <3>6, <3>7 DEF Begun
    <3>9. PICK x \in Begins(place["src"], cut["src"]) : a = Extent(place["src"], cut["src"], x)
      BY <3>5, <3>8, NowIs
    <3>10. a.logical + a.length = Ending(place["src"], cut["src"], x) * Block
      BY <3>5, <3>9, ExtentRuns
    <3> QED
      BY <3>2, <3>10 DEF Between
  <2> QED
    BY <2>1, <2>2, SameFrame
<1>5. CASE Dedupe
  <2>1. /\ pc = "range" /\ ~\E a \in E1, b \in E2 : Matches(a, b)
        /\ \A f \in File : offs + RangeLength <= size[f]
        /\ old' = old /\ changed' = changed
    BY <1>5, DedupeIs
  <2>2. ~(changed = {} /\ SameAtFirst)
    BY <2>1, SameSkips DEF File
  <2>3. SameAtFirst' <=> SameAtFirst
    BY <2>1 DEF SameAtFirst
  <2> QED
    BY <2>1, <2>2, <2>3 DEF SameInv
<1>6. CASE DedupeError
  <2>1. /\ pc' \in {"failed", "unsupported"} /\ place' = place /\ cut' = cut
        /\ UNCHANGED <<offs, reclaimed, old, changed>>
    BY <1>6 DEF DedupeError, Fail, files, history
  <2>2. pc' \notin {"loop", "stat2", "page2", "range"}
    BY <2>1
  <2> QED
    BY <2>1, <2>2, SameFrame
<1>7. ASSUME NEW f \in File, Change(f)
      PROVE  SameInv'
  <2>1. changed' # {}
    BY <1>7, ChangeIs
  <2> QED
    BY <2>1 DEF SameInv
<1>8. CASE UNCHANGED vars
  <2>1. /\ place' = place /\ cut' = cut /\ pc' = pc
        /\ UNCHANGED <<offs, reclaimed, old, changed>>
    BY <1>8 DEF vars, files, history
  <2>2. pc' \in {"loop", "stat2", "page2", "range"} /\ changed = {} /\ SameAtFirst => Between(offs')
    BY <2>1 DEF SameInv
  <2> QED
    BY <2>1, <2>2, SameFrame
<1> QED
  BY <1>1, <1>2, <1>3, <1>4, <1>5, <1>6, <1>7, <1>8 DEF Next, Deduplicate, Returned

\* For files that already match, without a hole, nothing is reclaimed: in every page size
\* the two lists come out the same, and no range is shared again.
THEOREM MatchReclaims == Spec => []MatchReclaimsNothing
<1>1. Init => Basics /\ ReadInv /\ AloneInv /\ SameInv
  <2>1. Init => ReadInv
    BY DEF Init, ReadInv
  <2>2. Init => SameInv
    BY DEF Init, Snapshot, SameInv
  <2> QED
    BY <2>1, <2>2, AloneInit, BasicsInit
<1>2. Basics /\ ReadInv /\ AloneInv /\ SameInv /\ [Next]_vars
      => Basics' /\ ReadInv' /\ AloneInv' /\ SameInv'
  BY BasicsNext, ReadNext, AloneNext, SameNext
<1>3. SameInv => MatchReclaimsNothing
  BY DEF SameInv, SameAtFirst, MatchReclaimsNothing
<1> QED
  BY <1>1, <1>2, <1>3, PTL DEF Spec
=============================================================================
