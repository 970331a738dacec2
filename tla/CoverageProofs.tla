--------------------------- MODULE CoverageProofs ---------------------------
(***************************************************************************)
(* Proofs about Process, continued: which directories the workers get, and *)
(* the summary at the end.  A directory is in one place at a time: on the  *)
(* stack of the scanner, found unreadable, about to be added, in WorkQueue *)
(* or taken by a worker; and none of these is below one that the scanner   *)
(* has not visited yet.                                                    *)
(***************************************************************************)
EXTENDS ProcessProofs, FunctionTheorems, WellFoundedInduction

RootSet == {Roots[i] : i \in DOMAIN Roots}
KidSet(d) == {Kids[d][i] : i \in DOMAIN Kids[d]}

\* p leads in n steps from one of the given paths down to p[n].
Leads(p, n) ==
  /\ n \in Nat \ {0} /\ p \in [1..n -> Dirs] /\ p[1] \in RootSet
  /\ \A k \in 1..n-1 : p[k + 1] \in KidSet(p[k])

-----------------------------------------------------------------------------
(* Paths in the directory tree                                             *)

\* A set of natural numbers has a least one.
LEMMA Least ==
  ASSUME NEW T \in SUBSET Nat, T # {}
  PROVE  \E x \in T : \A y \in T : x <= y
<1> DEFINE R == {mn \in Nat \X Nat : mn[1] < mn[2]}
<1>1. IsWellFoundedOn(R, Nat)
  BY NatLessThanWellFounded DEF OpToRel
<1> HIDE DEF R
<1>2. PICK x \in T : \A y \in T : ~(<<y, x>> \in R)
  BY <1>1, WFMin
<1>3. \A y \in T : ~(y < x)
  BY <1>2 DEF R
<1> QED
  BY <1>3

\* What is given and what is below a directory are directories.
LEMMA KidTypes == RootSet \subseteq Dirs /\ \A d \in Dirs : KidSet(d) \subseteq Dirs
<1>1. Roots \in Seq(Dirs) /\ \A d \in Dirs : Kids[d] \in Seq(Dirs)
  BY ProcessAssumption
<1>2. RootSet \subseteq Dirs
  BY <1>1 DEF RootSet
<1>3. ASSUME NEW d \in Dirs
      PROVE  KidSet(d) \subseteq Dirs
  <2>1. Kids[d] \in Seq(Dirs)
    BY <1>1
  <2> QED
    BY <2>1 DEF KidSet
<1> QED
  BY <1>2, <1>3

\* With disjoint paths a directory has at most one parent, a given one has none.
LEMMA OneParent ==
  ASSUME PathsDisjoint, NEW d \in Dirs, NEW x \in KidSet(d)
  PROVE  x \notin RootSet /\ \A e \in Dirs : x \in KidSet(e) => e = d
BY DEF PathsDisjoint, KidSet, RootSet

\* A path can be cut short and goes on to a subdirectory.
LEMMA LeadsCut ==
  ASSUME NEW n, NEW p, Leads(p, n), NEW k \in 1..n
  PROVE  Leads([i \in 1..k |-> p[i]], k) /\ n \in Nat \ {0} /\ \A i \in 1..n : p[i] \in Dirs
<1>1. n \in Nat \ {0} /\ p \in [1..n -> Dirs] /\ p[1] \in RootSet
      /\ \A i \in 1..n-1 : p[i + 1] \in KidSet(p[i])
  BY DEF Leads
<1> DEFINE q == [i \in 1..k |-> p[i]]
<1>2. k \in Nat \ {0} /\ q \in [1..k -> Dirs] /\ q[1] \in RootSet
  BY <1>1
<1>3. ASSUME NEW i \in 1..k-1
      PROVE  q[i + 1] \in KidSet(q[i])
  <2>1. i \in 1..n-1 /\ i \in 1..k /\ i + 1 \in 1..k
    BY <1>1
  <2>2. q[i + 1] = p[i + 1] /\ q[i] = p[i]
    BY <2>1
  <2> QED
    BY <1>1, <2>1, <2>2
<1> QED
  BY <1>1, <1>2, <1>3 DEF Leads

LEMMA LeadsOn ==
  ASSUME NEW n, NEW p, Leads(p, n), NEW x \in KidSet(p[n])
  PROVE  \E q : /\ Leads(q, n + 1) /\ q[n + 1] = x /\ n \in Nat
                /\ \A i \in 1..n : q[i] = p[i]
<1>1. n \in Nat \ {0} /\ p \in [1..n -> Dirs] /\ p[1] \in RootSet
      /\ \A i \in 1..n-1 : p[i + 1] \in KidSet(p[i])
  BY DEF Leads
<1> DEFINE q == [i \in 1..n + 1 |-> IF i = n + 1 THEN x ELSE p[i]]
<1>2. x \in Dirs
  BY <1>1, KidTypes
<1>3. n + 1 \in Nat \ {0} /\ q \in [1..n + 1 -> Dirs] /\ q[1] \in RootSet
  BY <1>1, <1>2
<1>4. q[n + 1] = x /\ \A i \in 1..n : q[i] = p[i]
  BY <1>1
<1>5. ASSUME NEW i \in 1..(n + 1) - 1
      PROVE  q[i + 1] \in KidSet(q[i])
  <2>1. i \in 1..n /\ (i = n \/ i \in 1..n-1)
    BY <1>1
  <2>2. CASE i = n
    BY <1>4, <2>1, <2>2
  <2>3. CASE i \in 1..n-1
    <3>1. i + 1 \in 1..n
      BY <1>1, <2>3
    <3> QED
      BY <1>1, <1>4, <2>1, <2>3, <3>1
  <2> QED
    BY <2>1, <2>2, <2>3
<1> HIDE DEF q
<1>6. Leads(q, n + 1)
  BY <1>3, <1>5 DEF Leads
<1> QED
  BY <1>1, <1>4, <1>6

\* Disjoint paths: one path leads to a directory.
LEMMA OnePath ==
  ASSUME PathsDisjoint, NEW n, NEW p, Leads(p, n), NEW m, NEW q, Leads(q, m), p[n] = q[m]
  PROVE  n = m /\ \A i \in 1..n : p[i] = q[i]
<1>1. n \in Nat \ {0} /\ p \in [1..n -> Dirs] /\ p[1] \in RootSet
      /\ \A i \in 1..n-1 : p[i + 1] \in KidSet(p[i])
  BY DEF Leads
<1>2. m \in Nat \ {0} /\ q \in [1..m -> Dirs] /\ q[1] \in RootSet
      /\ \A i \in 1..m-1 : q[i + 1] \in KidSet(q[i])
  BY DEF Leads
<1> DEFINE T == {k \in Nat : k < n /\ k < m /\ p[n - k] # q[m - k]}
<1>3. T = {}
  <2> SUFFICES ASSUME T # {}
               PROVE  FALSE
    OBVIOUS
  <2>1. PICK k \in T : \A j \in T : k <= j
    BY Least
  <2>2. k \in Nat /\ k < n /\ k < m /\ p[n - k] # q[m - k] /\ k # 0
    BY <1>1, <1>2
  <2>3. k - 1 \in Nat /\ k - 1 \notin T
    BY <2>1, <2>2
  <2>4. p[n - (k - 1)] = q[m - (k - 1)]
    BY <1>1, <1>2, <2>2, <2>3
  <2>5. n - k \in 1..n-1 /\ m - k \in 1..m-1 /\ (n - k) + 1 = n - (k - 1)
        /\ (m - k) + 1 = m - (k - 1) /\ n - k \in 1..n /\ m - k \in 1..m
    BY <1>1, <1>2, <2>2
  <2>6. p[n - (k - 1)] \in KidSet(p[n - k]) /\ q[m - (k - 1)] \in KidSet(q[m - k])
    BY <1>1, <1>2, <2>5
  <2>7. p[n - k] \in Dirs /\ q[m - k] \in Dirs
    BY <1>1, <1>2, <2>5
  <2> QED
    BY <2>2, <2>4, <2>6, <2>7, OneParent
<1>4. \A k \in Nat : k < n /\ k < m => p[n - k] = q[m - k]
  BY <1>3
<1>5. ~(n < m)
  <2> SUFFICES ASSUME n < m
               PROVE  FALSE
    OBVIOUS
  <2>1. n - 1 \in Nat /\ n - (n - 1) = 1 /\ m - (n - 1) = (m - n) + 1 /\ m - n \in 1..m-1
        /\ m - n \in 1..m
    BY <1>1, <1>2
  <2>2. p[1] = q[(m - n) + 1]
    BY <1>1, <1>2, <1>4, <2>1
  <2>3. q[(m - n) + 1] \in KidSet(q[m - n]) /\ q[m - n] \in Dirs
    BY <1>2, <2>1
  <2> QED
    BY <1>1, <2>2, <2>3, OneParent
<1>6. ~(m < n)
  <2> SUFFICES ASSUME m < n
               PROVE  FALSE
    OBVIOUS
  <2>1. m - 1 \in Nat /\ m - (m - 1) = 1 /\ n - (m - 1) = (n - m) + 1 /\ n - m \in 1..n-1
        /\ n - m \in 1..n
    BY <1>1, <1>2
  <2>2. q[1] = p[(n - m) + 1]
    BY <1>1, <1>2, <1>4, <2>1
  <2>3. p[(n - m) + 1] \in KidSet(p[n - m]) /\ p[n - m] \in Dirs
    BY <1>1, <2>1
  <2> QED
    BY <1>2, <2>2, <2>3, OneParent
<1>7. n = m
  BY <1>1, <1>2, <1>5, <1>6
<1>8. ASSUME NEW i \in 1..n
      PROVE  p[i] = q[i]
  <2>1. n - i \in Nat /\ n - i < n /\ n - (n - i) = i
    BY <1>1
  <2> QED
    BY <1>4, <1>7, <2>1
<1> QED
  BY <1>7, <1>8

\* No directory comes twice in a path, so that a path has at most as many as there
\* are: without a limit scanDir goes as deep as that.
LEMMA PathLength ==
  ASSUME PathsDisjoint, NEW n, NEW p, Leads(p, n)
  PROVE  n <= Cardinality(Dirs)
<1>1. n \in Nat \ {0} /\ p \in [1..n -> Dirs]
  BY DEF Leads
<1>2. ASSUME NEW i \in 1..n, NEW j \in 1..n, p[i] = p[j]
      PROVE  i = j
  <2> DEFINE pi == [k \in 1..i |-> p[k]]
             pj == [k \in 1..j |-> p[k]]
  <2>1. Leads(pi, i) /\ Leads(pj, j)
    BY LeadsCut
  <2>2. pi[i] = p[i] /\ pj[j] = p[j]
    BY <1>1
  <2> HIDE DEF pi, pj
  <2> QED
    BY <1>2, <2>1, <2>2, OnePath
<1>3. p \in Injection(1..n, Dirs)
  BY <1>1, <1>2 DEF Injection, IsInjective
<1>4. IsFiniteSet(Dirs)
  BY ProcessAssumption
<1>5. Cardinality(1..n) <= Cardinality(Dirs)
  BY <1>3, <1>4, FS_Injection
<1>6. Cardinality(1..n) = n
  BY <1>1, FS_Interval
<1> QED
  BY <1>5, <1>6

\* Level n holds what n steps lead to through readable directories.
LEMMA LevelPaths ==
  ASSUME NEW n \in Nat \ {0}, NEW d
  PROVE  d \in Level[n] <=>
           \E p : Leads(p, n) /\ p[n] = d /\ \A k \in 1..n-1 : p[k] \notin unreadable
<1> DEFINE
  Step(f, m) == IF m = 1 THEN {Roots[i] : i \in DOMAIN Roots}
                ELSE UNION {{Kids[e][i] : i \in DOMAIN Kids[e]} : e \in f[m-1] \ unreadable}
  Eq(f) == f = [m \in Nat \ {0} |-> Step(f, m)]
  Good(p, m, e) == Leads(p, m) /\ p[m] = e /\ \A k \in 1..m-1 : p[k] \notin unreadable
  Reach == [m \in Nat \ {0} |-> {e \in Dirs : \E p : Good(p, m, e)}]
<1>1. ASSUME NEW m \in Nat \ {0}
      PROVE  Reach[m] = Step(Reach, m)
  <2>1. CASE m = 1
    <3>1. ASSUME NEW e \in RootSet
          PROVE  e \in Reach[1]
      <4> DEFINE p == [k \in 1..1 |-> e]
      <4>1. p \in [1..1 -> Dirs] /\ p[1] = e /\ e \in Dirs
        BY KidTypes
      <4>2. Leads(p, 1)
        BY <4>1 DEF Leads
      <4> HIDE DEF p
      <4>3. Good(p, 1, e)
        BY <4>1, <4>2
      <4> QED
        BY <4>1, <4>3
    <3>2. ASSUME NEW e \in Reach[1]
          PROVE  e \in RootSet
      <4>1. PICK p : Good(p, 1, e)
        OBVIOUS
      <4> QED
        BY <4>1 DEF Leads
    <3>3. Step(Reach, m) = RootSet
      BY <2>1 DEF RootSet
    <3> HIDE DEF Reach, Step
    <3> QED
      BY <2>1, <3>1, <3>2, <3>3
  <2>2. CASE m # 1
    <3>0. m - 1 \in Nat \ {0} /\ (m - 1) + 1 = m
      BY <2>2
    <3>1. ASSUME NEW e \in Reach[m]
          PROVE  \E x \in Reach[m - 1] \ unreadable : e \in KidSet(x)
      <4>1. PICK p : Good(p, m, e)
        OBVIOUS
      <4> DEFINE q == [i \in 1..m-1 |-> p[i]]
      <4>2. m - 1 \in 1..m /\ m - 1 \in 1..m-1
        BY <3>0
      <4>3. Leads(q, m - 1) /\ p[m - 1] \in Dirs
        BY <4>1, <4>2, LeadsCut
      <4>4. q[m - 1] = p[m - 1] /\ \A k \in 1..(m-1)-1 : q[k] = p[k] /\ k \in 1..m-1
        BY <3>0
      <4> HIDE DEF q
      <4>5. Good(q, m - 1, p[m - 1])
        BY <4>1, <4>3, <4>4
      <4>6. p[m - 1] \in Reach[m - 1]
        BY <3>0, <4>3, <4>5
      <4>7. p[m - 1] \notin unreadable /\ e \in KidSet(p[m - 1])
        BY <3>0, <4>1, <4>2 DEF Leads
      <4> QED
        BY <4>6, <4>7
    <3>2. ASSUME NEW x \in Reach[m - 1] \ unreadable, NEW e \in KidSet(x)
          PROVE  e \in Reach[m]
      <4>1. x \in Dirs /\ \E p : Good(p, m - 1, x)
        BY <3>0
      <4>2. PICK p : Good(p, m - 1, x)
        BY <4>1
      <4>3. Leads(p, m - 1) /\ e \in KidSet(p[m - 1])
        BY <4>2
      <4>4. PICK q : /\ Leads(q, (m - 1) + 1) /\ q[(m - 1) + 1] = e
                     /\ \A i \in 1..m-1 : q[i] = p[i]
        BY <4>3, LeadsOn
      <4>5. \A k \in 1..m-1 : k = m - 1 \/ k \in 1..(m-1)-1
        BY <3>0
      <4>6. \A k \in 1..m-1 : q[k] \notin unreadable
        BY <4>2, <4>4, <4>5
      <4>7. Good(q, m, e)
        BY <3>0, <4>4, <4>6
      <4>8. e \in Dirs
        BY <4>1, KidTypes
      <4> QED
        BY <4>7, <4>8
    <3>3. Step(Reach, m) = UNION {KidSet(x) : x \in Reach[m - 1] \ unreadable}
      BY <2>2 DEF KidSet
    <3> HIDE DEF Reach, Step
    <3> QED
      BY <3>1, <3>2, <3>3
  <2> QED
    BY <2>1, <2>2
<1>2. Eq(Reach)
  <2>1. Reach = [m \in Nat \ {0} |-> Reach[m]]
    OBVIOUS
  <2> HIDE DEF Reach, Step
  <2> QED
    BY <1>1, <2>1
<1>3. Level = CHOOSE f : Eq(f)
  BY DEF Level
<1>4. Eq(Level)
  <2> HIDE DEF Reach, Eq
  <2> QED
    BY <1>2, <1>3
<1>5. \A m \in Nat \ {0} : Level[m] = Step(Level, m)
  <2> HIDE DEF Step
  <2> QED
    BY <1>4
<1> DEFINE T == {m \in Nat : m # 0 /\ Level[m] # Reach[m]}
<1>6. T = {}
  <2> SUFFICES ASSUME T # {}
               PROVE  FALSE
    OBVIOUS
  <2>1. PICK m \in T : \A j \in T : m <= j
    <3> HIDE DEF Reach
    <3> QED
      BY Least
  <2>2. m \in Nat \ {0} /\ Level[m] # Reach[m]
    OBVIOUS
  <2> HIDE DEF Reach
  <2>3. m = 1 \/ Level[m - 1] = Reach[m - 1]
    <3>1. m = 1 \/ (m - 1 \in Nat /\ m - 1 # 0 /\ ~(m <= m - 1))
      BY <2>2
    <3> QED
      BY <2>1, <3>1
  <2>4. Step(Level, m) = Step(Reach, m)
    BY <2>3
  <2> HIDE DEF Step
  <2> QED
    BY <1>1, <1>5, <2>2, <2>4
<1>7. Level[n] = Reach[n]
  <2> HIDE DEF Reach
  <2> QED
    BY <1>6
<1>8. d \in Reach[n] <=> \E p : Good(p, n, d)
  <2>1. ASSUME NEW p, Good(p, n, d)
        PROVE  d \in Dirs
    BY <2>1 DEF Leads
  <2> QED
    BY <2>1
<1> QED
  BY <1>7, <1>8

-----------------------------------------------------------------------------
(* Where a directory is                                                    *)

OnStack == {stack[i].dir : i \in DOMAIN stack}
Adding == {d \in {at[Scanner]} : \E i \in DOMAIN todo[Scanner] : todo[Scanner][i] = "add"}
InQueue == {workQ[i] : i \in DOMAIN workQ} \ {Nil}
Taken == {d \in Dirs : taken[d] > 0}

\* scanDir came past reading the directory; the scanner knows of it; nothing below
\* it is known.
Passed == Adding \cup InQueue \cup Taken
Met == OnStack \cup unreadable \cup Passed
Barred == OnStack \cup unreadable

\* A directory is in one place at a time, and there once.
StackOnce == \A i, j \in DOMAIN stack : stack[i].dir = stack[j].dir => i = j
QueueOnce == \A i, j \in DOMAIN workQ : workQ[i] = workQ[j] => i = j \/ workQ[i] = Nil
TakenOnce == \A d \in Dirs : taken[d] <= 1
Apart ==
  /\ OnStack \cap (unreadable \cup Passed) = {} /\ unreadable \cap Passed = {}
  /\ Adding \cap (InQueue \cup Taken) = {} /\ InQueue \cap Taken = {}

\* addWork is the last thing scanDir does before it descends.
ScanOps ==
  /\ todo[Scanner] \in Seq({"PNC", "ign", "add"})
  /\ \A i \in DOMAIN todo[Scanner] : todo[Scanner][i] = "add" => i = Len(todo[Scanner])

\* What scanDir is called for lies at the depth it is told; a directory the scanner
\* knows of is reached through readable directories it has visited, not below the
\* limit.
PathInv ==
  /\ \A i \in DOMAIN stack :
       \E p : Leads(p, stack[i].depth) /\ p[stack[i].depth] = stack[i].dir
  /\ \A d \in Met :
       \E n, p : /\ Leads(p, n) /\ p[n] = d /\ \A k \in 1..n-1 : p[k] \notin Barred
                 /\ n = 1 \/ Descends(n - 1)
  /\ main = "open" => Met = {}

\* Without an abort the scanner knows of what was given and of what lies directly
\* below a directory that it has passed.
KidsInv ==
  main \in {"run", "finish"} /\ ~doAbort =>
    /\ RootSet \subseteq Met
    /\ \A d \in Passed : \A n, p :
         Leads(p, n) /\ p[n] = d /\ Descends(n) => KidSet(d) \subseteq Met

OnceInv == StackOnce /\ QueueOnce /\ TakenOnce /\ Apart /\ ScanOps

\* A call of scanDir takes its directory from the stack and puts the subdirectories
\* there, unless it gives up.
LEMMA ScanSets ==
  ASSUME TypeOK, ScanOps, StackOnce, ScanDir, NEW p, p = Head(stack)
  PROVE  /\ p \in Pending /\ p.dir \in OnStack /\ p.dir \in Dirs /\ p.depth \in Nat
         /\ stack # <<>> /\ p = stack[1] /\ 1 \in DOMAIN stack
         /\ Adding = {} /\ InQueue' = InQueue /\ Taken' = Taken
         /\ ScanOps' /\ UNCHANGED <<main, doAbort, workQ, taken>>
         /\ \/ doAbort /\ OnStack' = OnStack \ {p.dir} /\ unreadable' = unreadable /\ Adding' = {}
               /\ stack' = Tail(stack)
            \/ /\ OnStack' = OnStack \ {p.dir} /\ unreadable' = unreadable \cup {p.dir}
               /\ Adding' = {} /\ stack' = Tail(stack)
            \/ /\ OnStack' = (OnStack \ {p.dir}) \cup (IF Descends(p.depth) THEN KidSet(p.dir) ELSE {})
               /\ unreadable' = unreadable /\ Adding' = {p.dir}
               /\ stack' = (IF Descends(p.depth) THEN SubDirs(p) ELSE <<>>) \o Tail(stack)
<1> USE Names
<1>1. stack \in Seq(Pending) /\ stack # <<>> /\ todo[Scanner] = <<>>
  BY DEF TypeOK, ScanDir
<1>2. p \in Pending /\ p.dir \in Dirs /\ p.depth \in Nat /\ Tail(stack) \in Seq(Pending)
  <2>1. p \in Pending /\ Tail(stack) \in Seq(Pending)
    BY <1>1, TailType
  <2> QED
    BY <2>1 DEF Pending
<1>3. /\ Len(stack) \in Nat \ {0} /\ DOMAIN stack = 1..Len(stack) /\ p = stack[1]
      /\ DOMAIN Tail(stack) = 1..Len(stack)-1 /\ Len(Tail(stack)) = Len(stack) - 1
      /\ \A i \in 1..Len(stack)-1 : Tail(stack)[i] = stack[i + 1]
  BY <1>1, HeadTailProperties, LenProperties, EmptySeq
<1>4. 1 \in DOMAIN stack /\ p.dir \in OnStack
  BY <1>3 DEF OnStack
<1> DEFINE Rest == {Tail(stack)[i].dir : i \in DOMAIN Tail(stack)}
<1>5. Rest = OnStack \ {p.dir}
  <2>1. ASSUME NEW i \in 1..Len(stack)-1
        PROVE  Tail(stack)[i].dir \in OnStack \ {p.dir}
    <3>1. i + 1 \in DOMAIN stack /\ i + 1 # 1
      BY <1>3
    <3> QED
      BY <1>3, <1>4, <3>1 DEF OnStack, StackOnce
  <2>2. ASSUME NEW i \in DOMAIN stack, stack[i].dir # p.dir
        PROVE  stack[i].dir \in Rest
    <3>1. i # 1
      BY <1>3, <2>2
    <3>2. i - 1 \in 1..Len(stack)-1 /\ (i - 1) + 1 = i
      BY <1>3, <3>1
    <3> QED
      BY <1>3, <3>2
  <2> QED
    BY <1>3, <2>1, <2>2 DEF OnStack
<1>6. Adding = {}
  BY <1>1 DEF Adding
<1>7. InQueue' = InQueue /\ Taken' = Taken /\ UNCHANGED <<main, doAbort, workQ, taken>>
  BY DEF ScanDir, InQueue, Taken, handlerVars
<1>8. CASE TRUE \in AbortRead /\ stack' = Tail(stack) /\ UNCHANGED <<todo, unreadable>>
  <2>1. doAbort
    BY <1>8 DEF AbortRead
  <2>2. OnStack' = Rest
    BY <1>8 DEF OnStack
  <2>3. Adding' = {} /\ ScanOps'
    <3>1. todo'[Scanner] = <<>> /\ todo' = todo
      BY <1>1, <1>8
    <3>2. Adding' = {}
      BY <3>1 DEF Adding
    <3>3. ScanOps'
      BY <3>1 DEF ScanOps
    <3> QED
      BY <3>2, <3>3
  <2> HIDE DEF Rest
  <2> QED
    BY <1>1, <1>2, <1>3, <1>4, <1>5, <1>6, <1>7, <1>8, <2>1, <2>2, <2>3
<1>9. CASE /\ stack' = Tail(stack) /\ todo' = [todo EXCEPT ![Scanner] = <<"PNC">>]
           /\ unreadable' = unreadable \cup {p.dir}
  <2>1. OnStack' = Rest
    BY <1>9 DEF OnStack
  <2>2. todo'[Scanner] = <<"PNC">>
    BY <1>9 DEF TypeOK
  <2>3. Adding' = {} /\ ScanOps'
    BY <2>2 DEF Adding, ScanOps
  <2> HIDE DEF Rest
  <2> QED
    BY <1>1, <1>2, <1>3, <1>4, <1>5, <1>6, <1>7, <1>9, <2>1, <2>3
<1>10. CASE /\ stack' = (IF Descends(p.depth) THEN SubDirs(p) ELSE <<>>) \o Tail(stack)
            /\ \E logs \in ScanLogs : todo' = [todo EXCEPT ![Scanner] = Append(logs, "add")]
            /\ UNCHANGED unreadable
  <2>1. PICK logs \in ScanLogs : todo' = [todo EXCEPT ![Scanner] = Append(logs, "add")]
    BY <1>10
  <2>2. logs \in Seq({"PNC", "ign"}) /\ todo'[Scanner] = Append(logs, "add")
    BY <2>1, ProcessAssumption DEF TypeOK
  <2>3. /\ Len(Append(logs, "add")) = Len(logs) + 1 /\ Append(logs, "add")[Len(logs) + 1] = "add"
        /\ \A i \in 1..Len(logs) : Append(logs, "add")[i] = logs[i] /\ logs[i] \in {"PNC", "ign"}
        /\ DOMAIN Append(logs, "add") = 1..Len(logs) + 1 /\ Len(logs) \in Nat
    BY <2>2
  <2>4. ScanOps'
    <3>1. logs \in Seq({"PNC", "ign", "add"})
      BY <2>2, SeqMonotonic, {"PNC", "ign"} \subseteq {"PNC", "ign", "add"}
    <3>2. Append(logs, "add") \in Seq({"PNC", "ign", "add"})
      BY <3>1
    <3>3. \A i \in 1..Len(logs) + 1 : Append(logs, "add")[i] = "add" => i = Len(logs) + 1
      <4>1. \A i \in 1..Len(logs) + 1 : i \in 1..Len(logs) \/ i = Len(logs) + 1
        BY <2>3
      <4> QED
        BY <2>3, <4>1
    <3> QED
      BY <2>2, <2>3, <3>2, <3>3 DEF ScanOps
  <2>5. at'[Scanner] = p.dir
    BY DEF ScanDir, TypeOK
  <2>6. Len(logs) + 1 \in 1..Len(logs) + 1
    BY <2>3
  <2>7. Adding' = {p.dir}
    BY <2>2, <2>3, <2>5, <2>6 DEF Adding
  <2>8. OnStack' = Rest \cup (IF Descends(p.depth) THEN KidSet(p.dir) ELSE {})
    <3> DEFINE s == IF Descends(p.depth) THEN SubDirs(p) ELSE <<>>
    <3>1. s \in Seq(Pending)
      BY <1>2, SubDirsType, EmptySeq
    <3>2. /\ Len(s) \in Nat /\ DOMAIN s = 1..Len(s)
          /\ DOMAIN stack' = 1..Len(s) + Len(Tail(stack)) /\ Len(Tail(stack)) \in Nat
          /\ DOMAIN Tail(stack) = 1..Len(Tail(stack))
          /\ \A i \in 1..Len(s) : stack'[i] = s[i]
          /\ \A i \in 1..Len(Tail(stack)) : stack'[Len(s) + i] = Tail(stack)[i]
      <4>1. stack' = s \o Tail(stack)
        BY <1>10
      <4> HIDE DEF s
      <4> QED
        BY <1>2, <3>1, <4>1
    <3>3. {s[i].dir : i \in DOMAIN s} = IF Descends(p.depth) THEN KidSet(p.dir) ELSE {}
      <4>1. CASE Descends(p.depth)
        <5>1. Kids[p.dir] \in Seq(Dirs)
          BY <1>2, ProcessAssumption
        <5>2. DOMAIN Kids[p.dir] = 1..Len(Kids[p.dir])
          BY <5>1
        <5>3. s = SubDirs(p)
          BY <4>1
        <5>4. DOMAIN s = 1..Len(Kids[p.dir]) /\ \A i \in DOMAIN s : s[i].dir = Kids[p.dir][i]
          BY <5>3 DEF SubDirs
        <5> HIDE DEF s
        <5> QED
          BY <4>1, <5>2, <5>4 DEF KidSet
      <4>2. CASE ~Descends(p.depth)
        BY <4>2
      <4> QED
        BY <4>1, <4>2
    <3> HIDE DEF s
    <3>4. ASSUME NEW i \in DOMAIN stack'
          PROVE  stack'[i].dir \in Rest \cup {s[j].dir : j \in DOMAIN s}
      <4>1. i \in 1..Len(s) \/ (i - Len(s) \in 1..Len(Tail(stack)) /\ Len(s) + (i - Len(s)) = i)
        BY <3>2
      <4> QED
        BY <3>2, <4>1
    <3>5. ASSUME NEW i \in DOMAIN s
          PROVE  s[i].dir \in OnStack'
      <4>1. i \in DOMAIN stack' /\ stack'[i] = s[i]
        BY <3>2
      <4> QED
        BY <4>1 DEF OnStack
    <3>6. ASSUME NEW i \in DOMAIN Tail(stack)
          PROVE  Tail(stack)[i].dir \in OnStack'
      <4>1. Len(s) + i \in DOMAIN stack' /\ stack'[Len(s) + i] = Tail(stack)[i]
        BY <3>2
      <4> QED
        BY <4>1 DEF OnStack
    <3>7. OnStack' = Rest \cup {s[j].dir : j \in DOMAIN s}
      BY <3>4, <3>5, <3>6 DEF OnStack
    <3> QED
      BY <3>3, <3>7
  <2> HIDE DEF Rest
  <2> QED
    BY <1>1, <1>2, <1>3, <1>4, <1>5, <1>6, <1>7, <1>10, <2>4, <2>7, <2>8
<1> QED
  BY <1>8, <1>9, <1>10 DEF ScanDir

\* addWork puts the directory the scanner is at into the queue.
LEMMA AddSets ==
  ASSUME TypeOK, ScanInv, ScanOps, AddWork
  PROVE  /\ Adding = {at[Scanner]} /\ at[Scanner] \in Dirs
         /\ Adding' = {} /\ InQueue' = InQueue \cup {at[Scanner]}
         /\ OnStack' = OnStack /\ Taken' = Taken
         /\ ScanOps' /\ UNCHANGED <<main, doAbort, stack, unreadable, taken>>
         /\ QueueOnce /\ at[Scanner] \notin InQueue => QueueOnce'
<1> USE Names
<1>1. /\ todo[Scanner] # <<>> /\ Head(todo[Scanner]) = "add"
      /\ workQ' = Append(workQ, at[Scanner]) /\ todo'[Scanner] = Tail(todo[Scanner])
      /\ workQ \in Seq(Place) /\ at[Scanner] \in Place
      /\ UNCHANGED <<main, doAbort, stack, unreadable, taken, at>>
  BY DEF AddWork, Doing, TypeOK, scanVars, handlerVars
<1>2. at[Scanner] \in Dirs /\ at[Scanner] # Nil
  BY <1>1 DEF ScanInv, Place
<1>3. todo[Scanner] \in Seq({"PNC", "ign", "add"}) /\ todo[Scanner] # <<>>
  BY <1>1 DEF ScanOps
<1>4. 1 \in DOMAIN todo[Scanner] /\ todo[Scanner][1] = "add" /\ Len(todo[Scanner]) \in Nat
  BY <1>1, <1>3
<1>5. Len(todo[Scanner]) = 1
  BY <1>4 DEF ScanOps
<1>6. Tail(todo[Scanner]) = <<>>
  <2>1. Len(Tail(todo[Scanner])) = 0 /\ Tail(todo[Scanner]) \in Seq({"PNC", "ign", "add"})
    BY <1>3, <1>5, HeadTailProperties
  <2> QED
    BY <2>1, EmptySeq
<1>7. Adding = {at[Scanner]} /\ Adding' = {}
  <2>1. DOMAIN Tail(todo[Scanner]) = {}
    BY <1>6
  <2> QED
    BY <1>1, <1>4, <2>1 DEF Adding
<1>8. /\ Len(workQ) \in Nat /\ DOMAIN workQ = 1..Len(workQ) /\ DOMAIN workQ' = 1..Len(workQ) + 1
      /\ \A i \in 1..Len(workQ) : workQ'[i] = workQ[i]
      /\ workQ'[Len(workQ) + 1] = at[Scanner]
  BY <1>1, AppendProperties, LenProperties
<1>9. \A i \in 1..Len(workQ) + 1 : i \in 1..Len(workQ) \/ i = Len(workQ) + 1
  BY <1>8
<1>10. Len(workQ) + 1 \in 1..Len(workQ) + 1 /\ 1..Len(workQ) \subseteq 1..Len(workQ) + 1
  BY <1>8
<1>11. InQueue' = InQueue \cup {at[Scanner]}
  BY <1>2, <1>8, <1>9, <1>10 DEF InQueue
<1>12. ASSUME QueueOnce, at[Scanner] \notin InQueue
       PROVE  QueueOnce'
  <2>1. \A i \in 1..Len(workQ) : workQ[i] # at[Scanner]
    BY <1>2, <1>8, <1>12 DEF InQueue
  <2> QED
    BY <1>8, <1>9, <1>12, <2>1 DEF QueueOnce
<1>13. ScanOps'
  BY <1>1, <1>6 DEF ScanOps
<1>14. OnStack' = OnStack /\ Taken' = Taken
  BY <1>1 DEF OnStack, Taken
<1> QED
  BY <1>1, <1>2, <1>7, <1>11, <1>12, <1>13, <1>14

\* A worker takes a directory from the queue, or drops it after an abort.
LEMMA RecvSets ==
  ASSUME NEW w \in Workers, TypeOK, ScanOps, QueueOnce, WorkerRecv(w)
  PROVE  /\ Adding' = Adding /\ OnStack' = OnStack
         /\ ScanOps' /\ QueueOnce' /\ UNCHANGED <<main, doAbort, stack, unreadable>>
         /\ \/ /\ InQueue' = InQueue \/ (doAbort /\ InQueue' \subseteq InQueue)
               /\ taken' = taken /\ Taken' = Taken
            \/ \E d \in InQueue :
                 /\ d \in Dirs /\ InQueue' = InQueue \ {d} /\ Taken' = Taken \cup {d}
                 /\ taken' = [taken EXCEPT ![d] = @ + 1] /\ todo' = [todo EXCEPT ![w] = todo'[w]]
                 /\ at' = [at EXCEPT ![w] = d] /\ todo'[w] \in Jobs
<1> USE Names
<1> DEFINE item == Head(workQ)
<1>1. /\ workQ \in Seq(Place) /\ workQ # <<>> /\ workQ' = Tail(workQ)
      /\ UNCHANGED <<main, doAbort, stack, unreadable>>
      /\ todo'[Scanner] = todo[Scanner] /\ at'[Scanner] = at[Scanner]
  BY DEF WorkerRecv, TypeOK, scanVars, handlerVars
<1>2. /\ Len(workQ) \in Nat \ {0} /\ DOMAIN workQ = 1..Len(workQ) /\ item = workQ[1]
      /\ DOMAIN workQ' = 1..Len(workQ)-1 /\ item \in Place
      /\ \A i \in 1..Len(workQ)-1 : workQ'[i] = workQ[i + 1]
  BY <1>1, HeadTailProperties, LenProperties, EmptySeq
<1>3. \A i \in 1..Len(workQ)-1 : i + 1 \in 1..Len(workQ) /\ i + 1 # 1
  BY <1>2
<1>4. \A i \in 1..Len(workQ) : i = 1 \/ (i - 1 \in 1..Len(workQ)-1 /\ (i - 1) + 1 = i)
  BY <1>2
<1>5. QueueOnce'
  <2> SUFFICES ASSUME NEW i \in 1..Len(workQ)-1, NEW j \in 1..Len(workQ)-1, workQ'[i] = workQ'[j],
                      workQ'[i] # Nil
               PROVE  i = j
    BY <1>2 DEF QueueOnce
  <2>1. i + 1 = j + 1
    BY <1>2, <1>3 DEF QueueOnce
  <2> QED
    BY <2>1
<1>6. 1 \in 1..Len(workQ)
  BY <1>2
<1>7. InQueue' = InQueue \ {item}
  <2>1. ASSUME NEW i \in 1..Len(workQ)-1, workQ'[i] # Nil
        PROVE  workQ'[i] \in InQueue /\ workQ'[i] # item
    BY <1>2, <1>3, <1>6, <2>1 DEF InQueue, QueueOnce
  <2>2. ASSUME NEW i \in 1..Len(workQ), workQ[i] # Nil, workQ[i] # item
        PROVE  workQ[i] \in InQueue'
    <3>1. i - 1 \in 1..Len(workQ)-1 /\ (i - 1) + 1 = i
      BY <1>2, <1>4, <2>2
    <3>2. workQ'[i - 1] = workQ[i]
      BY <1>2, <3>1
    <3> QED
      BY <1>2, <2>2, <3>1, <3>2 DEF InQueue
  <2> QED
    BY <1>2, <2>1, <2>2 DEF InQueue
<1>8. Adding' = Adding /\ OnStack' = OnStack /\ ScanOps'
  BY <1>1 DEF Adding, OnStack, ScanOps
<1>9. CASE /\ item = Nil \/ TRUE \in AbortRead
           /\ UNCHANGED <<todo, at, taken>>
  <2>1. InQueue' = InQueue \/ (doAbort /\ InQueue' \subseteq InQueue)
    <3>1. CASE item = Nil
      BY <1>7, <3>1 DEF InQueue
    <3>2. CASE TRUE \in AbortRead
      BY <1>7, <3>2 DEF AbortRead
    <3> QED
      BY <1>9, <3>1, <3>2
  <2>2. Taken' = Taken
    BY <1>9 DEF Taken
  <2> QED
    BY <1>1, <1>5, <1>8, <1>9, <2>1, <2>2
<1>10. CASE /\ item # Nil
            /\ \E job \in Jobs : todo' = [todo EXCEPT ![w] = job]
            /\ at' = [at EXCEPT ![w] = item]
            /\ taken' = [taken EXCEPT ![item] = @ + 1]
  <2>1. item \in Dirs /\ item \in InQueue
    BY <1>2, <1>6, <1>10 DEF Place, InQueue
  <2>2. Taken' = Taken \cup {item}
    <3>1. taken \in [Dirs -> Nat] /\ taken[item] + 1 > 0
      BY <2>1 DEF TypeOK
    <3>2. \A d \in Dirs : taken'[d] = IF d = item THEN taken[item] + 1 ELSE taken[d]
      BY <1>10, <3>1
    <3> QED
      BY <2>1, <3>1, <3>2 DEF Taken
  <2>3. todo'[w] \in Jobs /\ todo' = [todo EXCEPT ![w] = todo'[w]]
    BY <1>10 DEF TypeOK
  <2> QED
    BY <1>1, <1>5, <1>7, <1>8, <1>10, <2>1, <2>2, <2>3
<1> QED
  BY <1>9, <1>10 DEF WorkerRecv

\* What a directory is subject to when nothing moves it.
Stays ==
  /\ OnStack' = OnStack /\ Adding' = Adding /\ InQueue' = InQueue /\ Taken' = Taken
  /\ unreadable' = unreadable /\ stack' = stack /\ taken' = taken

\* No other step of a goroutine moves a directory.
LEMMA StaySets ==
  ASSUME TypeOK, MutexInv, ScanOps, QueueOnce, [Next]_vars,
         ~ScanDir, ~AddWork, ~OpenStore, \A w \in Workers : ~WorkerRecv(w)
  PROVE  /\ Stays /\ ScanOps' /\ QueueOnce'
         /\ ~doAbort' => ~doAbort
         /\ \/ main' = main \/ main' \notin {"open", "run", "finish"}
            \/ main = "run" /\ main' = "finish"
<1> USE Names
<1>1. CASE EndWork
  <2>1. /\ workQ \in Seq(Place) /\ workQ' = Append(workQ, Nil)
        /\ UNCHANGED <<main, doAbort, stack, unreadable, taken, todo, at>>
    BY <1>1 DEF EndWork, TypeOK, handlerVars
  <2>2. /\ Len(workQ) \in Nat /\ DOMAIN workQ = 1..Len(workQ) /\ DOMAIN workQ' = 1..Len(workQ) + 1
        /\ \A i \in 1..Len(workQ) : workQ'[i] = workQ[i]
        /\ workQ'[Len(workQ) + 1] = Nil
    BY <2>1, AppendProperties, LenProperties DEF Place
  <2>3. \A i \in 1..Len(workQ) + 1 : i \in 1..Len(workQ) \/ i = Len(workQ) + 1
    BY <2>2
  <2>4. 1..Len(workQ) \subseteq 1..Len(workQ) + 1
    BY <2>2
  <2>5. InQueue' = InQueue
    BY <2>2, <2>3, <2>4 DEF InQueue
  <2>6. QueueOnce'
    BY <2>2, <2>3 DEF QueueOnce
  <2>7. OnStack' = OnStack /\ Taken' = Taken /\ Adding' = Adding /\ ScanOps'
    BY <2>1 DEF OnStack, Taken, Adding, ScanOps
  <2> QED
    BY <2>1, <2>5, <2>6, <2>7 DEF Stays
<1>2. ASSUME UNCHANGED <<stack, unreadable, workQ, taken>>, UNCHANGED <<todo[Scanner], at[Scanner]>>
      PROVE  Stays /\ ScanOps' /\ QueueOnce'
  BY <1>2 DEF Stays, OnStack, Taken, Adding, InQueue, ScanOps, QueueOnce
<1>3. ASSUME NEW g \in Goroutine, LogLock(g)
      PROVE  /\ Stays /\ ScanOps' /\ QueueOnce' /\ UNCHANGED <<main, doAbort>>
  <2>1. UNCHANGED <<stack, unreadable, workQ, taken, todo, at, main, doAbort>>
    BY <1>3 DEF LogLock, scanVars, handlerVars
  <2> QED
    BY <1>2, <2>1
<1>4. ASSUME NEW g \in Goroutine, LogSend(g)
      PROVE  /\ Stays /\ ScanOps' /\ QueueOnce' /\ UNCHANGED <<main, doAbort>>
  <2>1. /\ UNCHANGED <<stack, unreadable, workQ, taken, at, main, doAbort>>
        /\ todo' = [todo EXCEPT ![g] = Tail(@)] /\ todo[g] # <<>> /\ Head(todo[g]) \in Status
    BY <1>4 DEF LogSend, MutexInv, scanVars, handlerVars
  <2>2. CASE g # Scanner
    BY <1>2, <2>1, <2>2 DEF TypeOK
  <2>3. CASE g = Scanner
    <3> DEFINE t == todo[Scanner]
    <3>1. t \in Seq({"PNC", "ign", "add"}) /\ t # <<>> /\ todo'[Scanner] = Tail(t)
      BY <2>1, <2>3 DEF ScanOps, TypeOK
    <3>2. /\ Len(t) \in Nat \ {0} /\ DOMAIN t = 1..Len(t) /\ Head(t) = t[1]
          /\ DOMAIN Tail(t) = 1..Len(t)-1 /\ Len(Tail(t)) = Len(t) - 1
          /\ \A i \in 1..Len(t)-1 : Tail(t)[i] = t[i + 1]
          /\ Tail(t) \in Seq({"PNC", "ign", "add"})
      <4> HIDE DEF t
      <4> QED
        BY <3>1, HeadTailProperties, LenProperties, EmptySeq
    <3>3. t[1] # "add"
      BY <2>1, <2>3, <3>2 DEF Status
    <3>4. \A i \in 1..Len(t)-1 : i + 1 \in 1..Len(t)
      BY <3>2
    <3>5. \A i \in 1..Len(t) : i = 1 \/ (i - 1 \in 1..Len(t)-1 /\ (i - 1) + 1 = i)
      BY <3>2
    <3>6. \A i \in DOMAIN t : t[i] = "add" => i = Len(t)
      BY DEF ScanOps
    <3> HIDE DEF t
    <3>7. (\E i \in DOMAIN t : t[i] = "add") <=> \E i \in DOMAIN Tail(t) : Tail(t)[i] = "add"
      <4>1. ASSUME NEW i \in DOMAIN t, t[i] = "add"
            PROVE  i - 1 \in DOMAIN Tail(t) /\ Tail(t)[i - 1] = "add"
        <5>1. i - 1 \in 1..Len(t)-1 /\ (i - 1) + 1 = i
          BY <3>2, <3>3, <3>5, <4>1
        <5> QED
          BY <3>2, <4>1, <5>1
      <4>2. ASSUME NEW i \in DOMAIN Tail(t), Tail(t)[i] = "add"
            PROVE  i + 1 \in DOMAIN t /\ t[i + 1] = "add"
        BY <3>2, <3>4, <4>2
      <4> QED
        BY <4>1, <4>2
    <3>8. \A i \in DOMAIN Tail(t) : Tail(t)[i] = "add" => i = Len(Tail(t))
      <4> SUFFICES ASSUME NEW i \in 1..Len(t)-1, Tail(t)[i] = "add"
                   PROVE  i = Len(t) - 1
        BY <3>2
      <4>1. i + 1 \in DOMAIN t /\ t[i + 1] = "add"
        BY <3>2, <3>4
      <4>2. i + 1 = Len(t)
        BY <3>6, <4>1
      <4>3. Len(t) \in Nat /\ i \in Int
        BY <3>2
      <4> QED
        BY <4>2, <4>3
    <3> USE DEF t
    <3>9. Adding' = Adding /\ ScanOps'
      BY <2>1, <3>1, <3>2, <3>7, <3>8 DEF Adding, ScanOps
    <3> QED
      BY <2>1, <3>9 DEF Stays, OnStack, Taken, InQueue, QueueOnce
  <2> QED
    BY <2>1, <2>2, <2>3
<1>5. ASSUME NEW w \in Workers, WorkerSave(w) \/ PerfSend(w)
      PROVE  Stays /\ ScanOps' /\ QueueOnce' /\ UNCHANGED <<main, doAbort>>
  <2>1. /\ UNCHANGED <<stack, unreadable, workQ, taken, main, doAbort>>
        /\ UNCHANGED <<todo[Scanner], at[Scanner]>>
    BY <1>5 DEF WorkerSave, PerfSend, scanVars, handlerVars, TypeOK
  <2> QED
    BY <1>2, <2>1
<1>6. CASE WaitWorkers \/ FinishStore \/ CloseLog \/ ExitCode
  <2>1. /\ UNCHANGED <<stack, unreadable, workQ, taken, doAbort>>
        /\ UNCHANGED <<todo[Scanner], at[Scanner]>>
        /\ main' \notin {"open", "run", "finish"} \/ (main = "run" /\ main' = "finish")
    BY <1>6 DEF WaitWorkers, FinishStore, CloseLog, ExitCode, scanVars, handlerVars, TypeOK
  <2> QED
    BY <1>2, <2>1
<1>7. CASE HandleLog \/ HandlePerf \/ HandleAbort \/ Interrupt
  <2>1. /\ UNCHANGED <<stack, unreadable, workQ, taken>>
        /\ UNCHANGED <<todo[Scanner], at[Scanner]>> /\ (~doAbort' => ~doAbort)
        /\ main' = main \/ main' = "killed"
    BY <1>7 DEF HandleLog, HandlePerf, HandleAbort, Interrupt, scanVars, handlerVars
  <2> QED
    BY <1>2, <2>1
<1>8. CASE UNCHANGED vars
  <2>1. UNCHANGED <<stack, unreadable, workQ, taken, todo, at, main, doAbort>>
    BY <1>8 DEF vars, scanVars, handlerVars
  <2> QED
    BY <1>2, <2>1
<1>9. CASE WaitWorkers \/ FinishStore \/ CloseLog \/ ExitCode \/ LogLock(Main) \/ LogSend(Main)
  BY <1>3, <1>4, <1>6, <1>9
<1>10. ASSUME NEW w \in Workers, WorkerNext(w)
       PROVE  /\ Stays /\ ScanOps' /\ QueueOnce' /\ UNCHANGED <<main, doAbort>>
  BY <1>3, <1>4, <1>5, <1>10 DEF WorkerNext
<1>11. CASE ScannerNext
  <2>1. EndWork \/ LogLock(Scanner) \/ LogSend(Scanner)
    BY <1>11 DEF ScannerNext
  <2> QED
    BY <1>1, <1>3, <1>4, <2>1 DEF EndWork, handlerVars
<1>12. CASE MainNext
  <2>1. WaitWorkers \/ FinishStore \/ CloseLog \/ ExitCode \/ LogLock(Main) \/ LogSend(Main)
    BY <1>12 DEF MainNext
  <2>2. UNCHANGED doAbort
    BY <2>1 DEF WaitWorkers, FinishStore, CloseLog, ExitCode, LogLock, LogSend, handlerVars
  <2> QED
    BY <1>3, <1>4, <1>6, <2>1, <2>2
<1> QED
  BY <1>7, <1>8, <1>10, <1>11, <1>12 DEF Next, Done

\* When the store is open, the stack holds what was given.
LEMMA OpenSets ==
  ASSUME PathsDisjoint, TypeOK, ScanOps, QueueOnce, OpenStore
  PROVE  /\ Adding' = Adding /\ InQueue' = InQueue /\ Taken' = Taken
         /\ ScanOps' /\ QueueOnce'
         /\ UNCHANGED <<doAbort, unreadable, taken>> /\ main = "open"
         /\ \/ /\ main' = "run" /\ OnStack' = RootSet /\ StackOnce'
               /\ \A i \in DOMAIN stack' : stack'[i].depth = 1
            \/ main' = "close" /\ stack' = stack /\ OnStack' = OnStack
<1> USE Names
<1>1. /\ UNCHANGED <<at, workQ, unreadable, taken, doAbort>> /\ main = "open"
      /\ todo'[Scanner] = todo[Scanner]
  BY DEF OpenStore, handlerVars, TypeOK
<1>2. Adding' = Adding /\ InQueue' = InQueue /\ Taken' = Taken /\ ScanOps' /\ QueueOnce'
  BY <1>1 DEF Adding, InQueue, Taken, ScanOps, QueueOnce
<1>3. CASE /\ main' = "run"
           /\ stack' = [i \in 1..Len(Roots) |-> [dir |-> Roots[i], depth |-> 1]]
  <2>1. DOMAIN Roots = 1..Len(Roots)
    BY ProcessAssumption
  <2>2. DOMAIN stack' = DOMAIN Roots
        /\ \A i \in DOMAIN Roots : stack'[i].dir = Roots[i] /\ stack'[i].depth = 1
    BY <1>3, <2>1
  <2>3. OnStack' = RootSet /\ StackOnce'
    BY <2>2 DEF OnStack, RootSet, StackOnce, PathsDisjoint
  <2> QED
    BY <1>1, <1>2, <1>3, <2>2, <2>3
<1>4. CASE main' = "close" /\ stack' = stack
  <2>1. OnStack' = OnStack
    BY <1>4 DEF OnStack
  <2> QED
    BY <1>1, <1>2, <1>4, <2>1
<1> QED
  BY <1>3, <1>4 DEF OpenStore

\* Nothing is known yet of the subdirectories of a directory on the stack.
LEMMA KidsFresh ==
  ASSUME PathsDisjoint, PathInv, NEW d \in Dirs, d \in OnStack, NEW x \in KidSet(d)
  PROVE  x \notin Met
<1> SUFFICES ASSUME x \in Met
             PROVE  FALSE
  OBVIOUS
<1>1. PICK n, p : Leads(p, n) /\ p[n] = x /\ \A k \in 1..n-1 : p[k] \notin Barred
  BY DEF PathInv
<1>2. /\ n \in Nat \ {0} /\ p \in [1..n -> Dirs] /\ p[1] \in RootSet
      /\ \A k \in 1..n-1 : p[k + 1] \in KidSet(p[k])
  BY <1>1 DEF Leads
<1>3. n # 1
  BY <1>1, <1>2, OneParent
<1>4. n - 1 \in 1..n-1 /\ (n - 1) + 1 = n /\ n - 1 \in 1..n
  BY <1>2, <1>3
<1>5. x \in KidSet(p[n - 1]) /\ p[n - 1] \in Dirs
  BY <1>1, <1>2, <1>4
<1>6. p[n - 1] = d
  BY <1>5, OneParent
<1> QED
  BY <1>1, <1>4, <1>6 DEF Barred

LEMMA StackAfter ==
  ASSUME PathsDisjoint, StackOnce, stack \in Seq(Pending), stack # <<>>, NEW p \in Pending,
         p = Head(stack), KidSet(p.dir) \cap OnStack = {},
         \/ stack' = Tail(stack)
         \/ stack' = SubDirs(p) \o Tail(stack)
  PROVE  /\ StackOnce'
         /\ \A i \in DOMAIN stack' :
              \/ \E j \in DOMAIN stack : stack'[i] = stack[j]
              \/ stack'[i].depth = p.depth + 1 /\ stack'[i].dir \in KidSet(p.dir)
<1>1. /\ Len(stack) \in Nat \ {0} /\ DOMAIN stack = 1..Len(stack)
      /\ DOMAIN Tail(stack) = 1..Len(stack)-1 /\ Len(Tail(stack)) = Len(stack) - 1
      /\ Tail(stack) \in Seq(Pending)
      /\ \A i \in 1..Len(stack)-1 : Tail(stack)[i] = stack[i + 1]
  BY HeadTailProperties, LenProperties, EmptySeq
<1>2. \A i \in 1..Len(stack)-1 : i + 1 \in 1..Len(stack)
  BY <1>1
<1>3. ASSUME NEW i \in 1..Len(stack)-1, NEW j \in 1..Len(stack)-1,
             Tail(stack)[i].dir = Tail(stack)[j].dir
      PROVE  i = j
  <2>1. i + 1 = j + 1
    BY <1>1, <1>2, <1>3 DEF StackOnce
  <2> QED
    BY <2>1
<1>4. CASE stack' = Tail(stack)
  <2>1. StackOnce'
    BY <1>1, <1>3, <1>4 DEF StackOnce
  <2> QED
    BY <1>1, <1>2, <1>4, <2>1
<1>5. CASE stack' = SubDirs(p) \o Tail(stack)
  <2> DEFINE s == SubDirs(p)
             n == Len(Kids[p.dir])
  <2>1. Kids[p.dir] \in Seq(Dirs) /\ p.dir \in Dirs
    BY ProcessAssumption DEF Pending
  <2>2. n \in Nat /\ DOMAIN Kids[p.dir] = 1..n
    BY <2>1
  <2>3. /\ s \in Seq(Pending) /\ Len(s) = n /\ DOMAIN s = 1..n
        /\ \A i \in 1..n : s[i].dir = Kids[p.dir][i] /\ s[i].depth = p.depth + 1
    <3>1. s \in Seq(Pending)
      BY SubDirsType
    <3>2. DOMAIN s = 1..n /\ \A i \in 1..n : s[i].dir = Kids[p.dir][i] /\ s[i].depth = p.depth + 1
      BY DEF SubDirs
    <3> HIDE DEF s
    <3>3. Len(s) = n
      BY <2>2, <3>1, <3>2, LenProperties
    <3> QED
      BY <3>1, <3>2, <3>3
  <2> HIDE DEF s, n
  <2>4. /\ DOMAIN stack' = 1..n + (Len(stack) - 1)
        /\ \A i \in 1..n : stack'[i] = s[i]
        /\ \A i \in 1..Len(stack)-1 : stack'[n + i] = Tail(stack)[i]
    <3> DEFINE t == Tail(stack)
    <3>1. stack' = s \o t
      BY <1>5 DEF s
    <3>2. t \in Seq(Pending) /\ Len(t) = Len(stack) - 1
      BY <1>1
    <3> HIDE DEF t
    <3>3. /\ DOMAIN (s \o t) = 1..n + Len(t) /\ \A i \in 1..n : (s \o t)[i] = s[i]
          /\ \A i \in 1..Len(t) : (s \o t)[n + i] = t[i]
      <4>0. s \in Seq(Pending) /\ t \in Seq(Pending) /\ Len(s) = n
        BY <2>3, <3>2
      <4>1. /\ s \o t \in Seq(Pending) /\ Len(s \o t) = n + Len(t)
            /\ \A i \in 1..n + Len(t) : (s \o t)[i] = IF i <= n THEN s[i] ELSE t[i - n]
        <5>1. /\ s \o t \in Seq(Pending) /\ Len(s \o t) = Len(s) + Len(t)
              /\ \A i \in 1..Len(s) + Len(t) :
                   (s \o t)[i] = IF i <= Len(s) THEN s[i] ELSE t[i - Len(s)]
          BY <4>0, ConcatProperties
        <5> QED
          BY <4>0, <5>1
      <4>2. DOMAIN (s \o t) = 1..n + Len(t)
        BY <4>1, LenProperties
      <4>3. Len(t) \in Nat
        BY <3>2, LenProperties
      <4>4. \A i \in 1..n : i \in 1..n + Len(t) /\ i <= n
        BY <2>2, <4>3
      <4>5. \A i \in 1..Len(t) : n + i \in 1..n + Len(t) /\ ~(n + i <= n) /\ (n + i) - n = i
        BY <2>2, <4>3
      <4> QED
        BY <4>1, <4>2, <4>4, <4>5
    <3> QED
      BY <3>1, <3>2, <3>3 DEF t
  <2>5. \A i \in DOMAIN stack' : \/ i \in 1..n
                                 \/ i - n \in 1..Len(stack)-1 /\ n + (i - n) = i
    <3>1. Len(stack) - 1 \in Nat
      BY <1>1
    <3>2. \A m \in Nat : \A i \in 1..n + m : i \in 1..n \/ (i - n \in 1..m /\ n + (i - n) = i)
      BY <2>2
    <3> QED
      BY <2>4, <3>1, <3>2
  <2>6. \A i \in 1..n : stack'[i].depth = p.depth + 1 /\ stack'[i].dir \in KidSet(p.dir)
    BY <2>2, <2>3, <2>4 DEF KidSet
  <2>7. \A i \in 1..Len(stack)-1 : stack'[n + i] = stack[i + 1] /\ stack'[n + i].dir \in OnStack
    BY <1>1, <1>2, <2>4 DEF OnStack
  <2>8. \A i, j \in 1..n : stack'[i].dir = stack'[j].dir => i = j
    <3>1. \A i, j \in 1..n : Kids[p.dir][i] = Kids[p.dir][j] => i = j
      BY <2>1, <2>2 DEF PathsDisjoint
    <3> QED
      BY <2>3, <2>4, <3>1
  <2>9. StackOnce'
    <3> SUFFICES ASSUME NEW i \in DOMAIN stack', NEW j \in DOMAIN stack',
                        stack'[i].dir = stack'[j].dir
                 PROVE  i = j
      BY DEF StackOnce
    <3>1. CASE i \in 1..n /\ j \in 1..n
      BY <2>8, <3>1
    <3>2. CASE i - n \in 1..Len(stack)-1 /\ n + (i - n) = i /\ j \in 1..n
      <4>1. stack'[i].dir \in OnStack /\ stack'[j].dir \in KidSet(p.dir)
        BY <2>6, <2>7, <3>2
      <4> QED
        BY <4>1
    <3>3. CASE j - n \in 1..Len(stack)-1 /\ n + (j - n) = j /\ i \in 1..n
      <4>1. stack'[j].dir \in OnStack /\ stack'[i].dir \in KidSet(p.dir)
        BY <2>6, <2>7, <3>3
      <4> QED
        BY <4>1
    <3>4. CASE /\ i - n \in 1..Len(stack)-1 /\ n + (i - n) = i
               /\ j - n \in 1..Len(stack)-1 /\ n + (j - n) = j
      <4>1. stack'[i] = Tail(stack)[i - n] /\ stack'[j] = Tail(stack)[j - n]
        BY <2>4, <3>4
      <4>2. i - n = j - n
        BY <1>3, <3>4, <4>1
      <4> QED
        BY <3>4, <4>2
    <3> QED
      BY <2>5, <3>1, <3>2, <3>3, <3>4
  <2>10. ASSUME NEW i \in DOMAIN stack'
         PROVE  \/ \E j \in DOMAIN stack : stack'[i] = stack[j]
                \/ stack'[i].depth = p.depth + 1 /\ stack'[i].dir \in KidSet(p.dir)
    <3>1. CASE i \in 1..n
      BY <2>6, <3>1
    <3>2. CASE i - n \in 1..Len(stack)-1 /\ n + (i - n) = i
      <4>1. stack'[i] = stack[(i - n) + 1] /\ (i - n) + 1 \in DOMAIN stack
        BY <1>1, <1>2, <2>7, <3>2
      <4> QED
        BY <4>1
    <3> QED
      BY <2>5, <3>1, <3>2
  <2> QED
    BY <2>9, <2>10
<1> QED
  BY <1>4, <1>5

-----------------------------------------------------------------------------
(* The scanner visits every directory once                                 *)

LEMMA OnceNext ==
  ASSUME PathsDisjoint, TypeOK, MutexInv, ScanInv, OnceInv, PathInv, [Next]_vars
  PROVE  OnceInv'
<1> USE Names DEF OnceInv
<1>1. CASE ScanDir
  <2> DEFINE p == Head(stack)
  <2> USE DEF Passed
  <2>1. /\ p \in Pending /\ p.dir \in OnStack /\ p.dir \in Dirs
        /\ Adding = {} /\ InQueue' = InQueue /\ Taken' = Taken
        /\ ScanOps' /\ UNCHANGED <<workQ, taken>>
        /\ stack \in Seq(Pending) /\ stack # <<>>
    <3>1. stack \in Seq(Pending)
      BY DEF TypeOK
    <3> HIDE DEF p
    <3> QED
      BY <1>1, <3>1, ScanSets DEF p
  <2>2. \/ /\ OnStack' = OnStack \ {p.dir} /\ unreadable' = unreadable /\ Adding' = {}
           /\ stack' = Tail(stack)
        \/ /\ OnStack' = OnStack \ {p.dir} /\ unreadable' = unreadable \cup {p.dir}
           /\ Adding' = {} /\ stack' = Tail(stack)
        \/ /\ OnStack' = OnStack \ {p.dir} /\ unreadable' = unreadable
           /\ Adding' = {p.dir} /\ stack' = Tail(stack)
        \/ /\ OnStack' = (OnStack \ {p.dir}) \cup KidSet(p.dir) /\ unreadable' = unreadable
           /\ Adding' = {p.dir} /\ stack' = SubDirs(p) \o Tail(stack)
    <3>1. <<>> \o Tail(stack) = Tail(stack)
      BY <2>1, TailType, ConcatEmptySeq
    <3>2. \/ doAbort /\ OnStack' = OnStack \ {p.dir} /\ unreadable' = unreadable /\ Adding' = {}
               /\ stack' = Tail(stack)
          \/ /\ OnStack' = OnStack \ {p.dir} /\ unreadable' = unreadable \cup {p.dir}
             /\ Adding' = {} /\ stack' = Tail(stack)
          \/ /\ OnStack' = (OnStack \ {p.dir}) \cup (IF Descends(p.depth) THEN KidSet(p.dir) ELSE {})
             /\ unreadable' = unreadable /\ Adding' = {p.dir}
             /\ stack' = (IF Descends(p.depth) THEN SubDirs(p) ELSE <<>>) \o Tail(stack)
      <4> HIDE DEF p
      <4> QED
        BY <1>1, ScanSets DEF p
    <3> HIDE DEF p
    <3> QED
      BY <3>1, <3>2
  <2> HIDE DEF p
  <2>3. \A x \in KidSet(p.dir) : x \notin Met
    BY <2>1, KidsFresh
  <2>4. StackOnce'
    <3>1. KidSet(p.dir) \cap OnStack = {}
      BY <2>3 DEF Met
    <3>2. stack' = Tail(stack) \/ stack' = SubDirs(p) \o Tail(stack)
      BY <2>2
    <3> QED
      BY <2>1, <3>1, <3>2, StackAfter DEF p
  <2>5. QueueOnce' /\ TakenOnce'
    BY <2>1 DEF QueueOnce, TakenOnce
  <2>6. Apart'
    BY <2>1, <2>2, <2>3 DEF Apart, Met
  <2> QED
    BY <2>1, <2>4, <2>5, <2>6
<1>2. CASE AddWork
  <2>1. /\ Adding = {at[Scanner]} /\ Adding' = {} /\ InQueue' = InQueue \cup {at[Scanner]}
        /\ OnStack' = OnStack /\ Taken' = Taken
        /\ ScanOps' /\ UNCHANGED <<stack, unreadable, taken>>
        /\ QueueOnce /\ at[Scanner] \notin InQueue => QueueOnce'
    BY <1>2, AddSets
  <2>2. at[Scanner] \notin InQueue
    BY <2>1 DEF Apart
  <2>3. Apart'
    BY <2>1 DEF Apart, Passed
  <2>4. StackOnce' /\ TakenOnce'
    BY <2>1 DEF StackOnce, TakenOnce
  <2> QED
    BY <2>1, <2>2, <2>3, <2>4
<1>3. ASSUME NEW w \in Workers, WorkerRecv(w)
      PROVE  OnceInv'
  <2>1. /\ Adding' = Adding /\ OnStack' = OnStack
        /\ ScanOps' /\ QueueOnce' /\ UNCHANGED <<stack, unreadable>>
        /\ \/ InQueue' \subseteq InQueue /\ taken' = taken /\ Taken' = Taken
           \/ \E d \in InQueue :
                /\ d \in Dirs /\ InQueue' = InQueue \ {d} /\ Taken' = Taken \cup {d}
                /\ taken' = [taken EXCEPT ![d] = @ + 1]
    BY <1>3, RecvSets
  <2>2. StackOnce'
    BY <2>1 DEF StackOnce
  <2>3. Apart'
    BY <2>1 DEF Apart, Passed
  <2>4. TakenOnce'
    <3>1. CASE taken' = taken
      BY <3>1 DEF TakenOnce
    <3>2. ASSUME NEW d \in InQueue, d \in Dirs, taken' = [taken EXCEPT ![d] = @ + 1]
          PROVE  TakenOnce'
      <4>1. taken \in [Dirs -> Nat]
        BY DEF TypeOK
      <4>2. ~(taken[d] > 0)
        BY <3>2 DEF Apart, Taken
      <4>3. taken[d] = 0
        BY <3>2, <4>1, <4>2
      <4> QED
        BY <3>2, <4>1, <4>3 DEF TakenOnce
    <3> QED
      BY <2>1, <3>1, <3>2
  <2> QED
    BY <2>1, <2>2, <2>3, <2>4
<1>4. CASE OpenStore
  <2>1. /\ Adding' = Adding /\ InQueue' = InQueue /\ Taken' = Taken
        /\ ScanOps' /\ QueueOnce'
        /\ UNCHANGED <<unreadable, taken>> /\ main = "open"
        /\ \/ OnStack' = RootSet /\ StackOnce'
           \/ stack' = stack /\ OnStack' = OnStack
    BY <1>4, OpenSets
  <2>2. Met = {}
    BY <2>1 DEF PathInv
  <2>3. Apart'
    BY <2>1, <2>2 DEF Apart, Met, Passed
  <2>4. StackOnce' /\ TakenOnce'
    BY <2>1 DEF StackOnce, TakenOnce
  <2> QED
    BY <2>1, <2>3, <2>4
<1>5. CASE ~ScanDir /\ ~AddWork /\ ~OpenStore /\ \A w \in Workers : ~WorkerRecv(w)
  <2>1. Stays /\ ScanOps' /\ QueueOnce'
    BY <1>5, StaySets
  <2>2. StackOnce' /\ TakenOnce' /\ Apart'
    BY <2>1 DEF Stays, StackOnce, TakenOnce, Apart, Passed
  <2> QED
    BY <2>1, <2>2
<1> QED
  BY <1>1, <1>2, <1>3, <1>4, <1>5

\* What neither adds to the known directories nor unbars one keeps the paths.
LEMMA PathFrame ==
  ASSUME PathInv, Met' \subseteq Met, Barred' \subseteq Barred,
         \A i \in DOMAIN stack' : \E j \in DOMAIN stack : stack'[i] = stack[j],
         main' = "open" => main = "open"
  PROVE  PathInv'
<1>1. ASSUME NEW i \in DOMAIN stack'
      PROVE  \E p : Leads(p, stack'[i].depth) /\ p[stack'[i].depth] = stack'[i].dir
  BY DEF PathInv
<1>2. ASSUME NEW d \in Met'
      PROVE  \E n, p : /\ Leads(p, n) /\ p[n] = d /\ \A k \in 1..n-1 : p[k] \notin Barred'
                       /\ n = 1 \/ Descends(n - 1)
  <2>1. PICK n, p : /\ Leads(p, n) /\ p[n] = d /\ \A k \in 1..n-1 : p[k] \notin Barred
                    /\ n = 1 \/ Descends(n - 1)
    BY DEF PathInv
  <2> QED
    BY <2>1
<1>3. main' = "open" => Met' = {}
  BY DEF PathInv
<1> QED
  BY <1>1, <1>2, <1>3 DEF PathInv

LEMMA PathNext ==
  ASSUME PathsDisjoint, TypeOK, MutexInv, ScanInv, OnceInv, PathInv, [Next]_vars
  PROVE  PathInv'
<1> USE Names DEF OnceInv
<1>1. CASE ScanDir
  <2>1. PICK p : p = Head(stack)
    OBVIOUS
  <2>2. /\ p \in Pending /\ p.dir \in OnStack /\ p.dir \in Dirs /\ p.depth \in Nat
        /\ stack \in Seq(Pending) /\ stack # <<>> /\ p = stack[1] /\ 1 \in DOMAIN stack
        /\ Adding = {} /\ InQueue' = InQueue /\ Taken' = Taken /\ main' = main
    BY <1>1, <2>1, ScanSets DEF TypeOK
  <2>3. Tail(stack) \in Seq(Pending) /\ <<>> \o Tail(stack) = Tail(stack)
    BY <2>2, TailType, ConcatEmptySeq
  <2>4. main # "open"
    BY <2>2 DEF PathInv, Met
  <2>5. KidSet(p.dir) \cap OnStack = {}
    BY <2>2, KidsFresh DEF Met
  <2>6. ASSUME OnStack' = OnStack \ {p.dir}, stack' = Tail(stack),
               unreadable' \in {unreadable, unreadable \cup {p.dir}},
               Adding' \in {{}, {p.dir}}
        PROVE  PathInv'
    <3>1. \A i \in DOMAIN stack' : \E j \in DOMAIN stack : stack'[i] = stack[j]
      <4>1. /\ Len(stack) \in Nat \ {0} /\ DOMAIN stack = 1..Len(stack)
            /\ DOMAIN stack' = 1..Len(stack)-1
            /\ \A i \in 1..Len(stack)-1 : stack'[i] = stack[i + 1]
        BY <2>2, <2>6, HeadTailProperties, LenProperties, EmptySeq
      <4>2. \A i \in 1..Len(stack)-1 : i + 1 \in 1..Len(stack)
        BY <4>1
      <4> QED
        BY <4>1, <4>2
    <3>2. Met' \subseteq Met /\ Barred' \subseteq Barred
      BY <2>2, <2>6 DEF Met, Barred, Passed
    <3> QED
      BY <2>2, <3>1, <3>2, PathFrame
  <2>7. ASSUME Descends(p.depth), OnStack' = (OnStack \ {p.dir}) \cup KidSet(p.dir),
               unreadable' = unreadable, Adding' = {p.dir},
               stack' = SubDirs(p) \o Tail(stack)
        PROVE  PathInv'
    <3>1. Met' = Met \cup KidSet(p.dir) /\ Barred' = (OnStack \ {p.dir}) \cup KidSet(p.dir) \cup unreadable
      BY <2>2, <2>7 DEF Met, Barred, Passed
    <3>2. PICK q : Leads(q, p.depth) /\ q[p.depth] = p.dir
      BY <2>2 DEF PathInv
    <3>3. p.depth \in Nat \ {0}
      BY <3>2 DEF Leads
    <3>4. p.dir \notin Barred'
      <4>1. p.dir \notin unreadable
        BY <2>2 DEF Apart
      <4>2. p.dir \notin KidSet(p.dir)
        BY <2>2, <2>5
      <4> QED
        BY <3>1, <4>1, <4>2
    <3>5. \A i \in DOMAIN stack' :
              \/ \E j \in DOMAIN stack : stack'[i] = stack[j]
              \/ stack'[i].depth = p.depth + 1 /\ stack'[i].dir \in KidSet(p.dir)
      BY <2>1, <2>2, <2>5, <2>7, StackAfter
    <3>6. \A x \in KidSet(p.dir) : \E r : /\ Leads(r, p.depth + 1) /\ r[p.depth + 1] = x
                                          /\ \A i \in 1..p.depth : r[i] = q[i]
      BY <3>2, LeadsOn
    <3>7. ASSUME NEW i \in DOMAIN stack'
          PROVE  \E r : Leads(r, stack'[i].depth) /\ r[stack'[i].depth] = stack'[i].dir
      BY <3>5, <3>6 DEF PathInv
    <3>8. ASSUME NEW n, NEW r, Leads(r, n), r[n] \in Met, \A k \in 1..n-1 : r[k] \notin Barred
          PROVE  \A k \in 1..n-1 : r[k] \notin Barred'
      <4> SUFFICES ASSUME NEW k \in 1..n-1, r[k] \in KidSet(p.dir)
                   PROVE  FALSE
        BY <3>1, <3>8 DEF Barred
      <4>1. /\ n \in Nat \ {0} /\ r \in [1..n -> Dirs] /\ r[1] \in RootSet
            /\ \A i \in 1..n-1 : r[i + 1] \in KidSet(r[i])
        BY <3>8 DEF Leads
      <4>2. k # 1
        BY <2>2, <4>1, OneParent
      <4>3. k - 1 \in 1..n-1 /\ (k - 1) + 1 = k /\ k - 1 \in 1..n
        BY <4>1, <4>2
      <4>4. r[k] \in KidSet(r[k - 1]) /\ r[k - 1] \in Dirs
        BY <4>1, <4>3
      <4>5. r[k - 1] = p.dir
        BY <2>2, <4>4, OneParent
      <4> QED
        BY <2>2, <3>8, <4>3, <4>5 DEF Barred
    <3>9. ASSUME NEW d \in Met'
          PROVE  \E n, r : /\ Leads(r, n) /\ r[n] = d /\ \A k \in 1..n-1 : r[k] \notin Barred'
                           /\ n = 1 \/ Descends(n - 1)
      <4>1. CASE d \in Met
        <5>1. PICK n, r : /\ Leads(r, n) /\ r[n] = d /\ \A k \in 1..n-1 : r[k] \notin Barred
                          /\ n = 1 \/ Descends(n - 1)
          BY <4>1 DEF PathInv
        <5> QED
          BY <3>8, <4>1, <5>1
      <4>2. CASE d \in KidSet(p.dir)
        <5>1. PICK r : /\ Leads(r, p.depth + 1) /\ r[p.depth + 1] = d
                       /\ \A i \in 1..p.depth : r[i] = q[i]
          BY <3>6, <4>2
        <5>2. p.dir \in Met
          BY <2>2 DEF Met
        <5>3. PICK n, s : /\ Leads(s, n) /\ s[n] = p.dir /\ \A k \in 1..n-1 : s[k] \notin Barred
                          /\ n = 1 \/ Descends(n - 1)
          <6> DEFINE x == p.dir
          <6> HIDE DEF x
          <6>1. x \in Met
            BY <5>2 DEF x
          <6>2. \E n, s : /\ Leads(s, n) /\ s[n] = x /\ \A k \in 1..n-1 : s[k] \notin Barred
                          /\ n = 1 \/ Descends(n - 1)
            BY <6>1 DEF PathInv
          <6> QED
            BY <6>2 DEF x
        <5>4. n = p.depth /\ \A i \in 1..n : s[i] = q[i]
          BY <3>2, <5>3, OnePath
        <5>5. \A k \in 1..n-1 : s[k] \notin Barred'
          BY <3>8, <5>2, <5>3
        <5>6. \A k \in 1..p.depth : k = p.depth \/ k \in 1..p.depth-1
          BY <3>3
        <5>7. \A k \in 1..p.depth : r[k] \notin Barred'
          BY <3>2, <3>4, <5>1, <5>4, <5>5, <5>6
        <5>8. (p.depth + 1) - 1 = p.depth
          BY <3>3
        <5> QED
          BY <2>7, <5>1, <5>7, <5>8
      <4> QED
        BY <3>1, <4>1, <4>2
    <3> QED
      BY <2>2, <2>4, <3>7, <3>9 DEF PathInv
  <2>8. \/ doAbort /\ OnStack' = OnStack \ {p.dir} /\ unreadable' = unreadable /\ Adding' = {}
             /\ stack' = Tail(stack)
        \/ /\ OnStack' = OnStack \ {p.dir} /\ unreadable' = unreadable \cup {p.dir}
           /\ Adding' = {} /\ stack' = Tail(stack)
        \/ /\ OnStack' = (OnStack \ {p.dir}) \cup (IF Descends(p.depth) THEN KidSet(p.dir) ELSE {})
           /\ unreadable' = unreadable /\ Adding' = {p.dir}
           /\ stack' = (IF Descends(p.depth) THEN SubDirs(p) ELSE <<>>) \o Tail(stack)
    BY <1>1, <2>1, ScanSets
  <2> QED
    BY <2>3, <2>6, <2>7, <2>8
<1>2. CASE AddWork
  <2>1. /\ Adding = {at[Scanner]} /\ Adding' = {} /\ InQueue' = InQueue \cup {at[Scanner]}
        /\ OnStack' = OnStack /\ Taken' = Taken
        /\ UNCHANGED <<stack, unreadable, main>>
    BY <1>2, AddSets
  <2>2. Met' \subseteq Met /\ Barred' \subseteq Barred
    BY <2>1 DEF Met, Barred, Passed
  <2> QED
    BY <2>1, <2>2, PathFrame
<1>3. ASSUME NEW w \in Workers, WorkerRecv(w)
      PROVE  PathInv'
  <2>1. /\ Adding' = Adding /\ OnStack' = OnStack
        /\ UNCHANGED <<stack, unreadable, main>>
        /\ \/ InQueue' \subseteq InQueue /\ Taken' = Taken
           \/ \E d \in InQueue : InQueue' = InQueue \ {d} /\ Taken' = Taken \cup {d}
    BY <1>3, RecvSets
  <2>2. Met' \subseteq Met /\ Barred' \subseteq Barred
    BY <2>1 DEF Met, Barred, Passed
  <2> QED
    BY <2>1, <2>2, PathFrame
<1>4. CASE OpenStore
  <2>1. /\ Adding' = Adding /\ InQueue' = InQueue /\ Taken' = Taken
        /\ unreadable' = unreadable /\ main = "open"
        /\ \/ /\ main' = "run" /\ OnStack' = RootSet
              /\ \A i \in DOMAIN stack' : stack'[i].depth = 1
           \/ main' = "close" /\ stack' = stack /\ OnStack' = OnStack
    BY <1>4, OpenSets
  <2>2. Met = {}
    BY <2>1 DEF PathInv
  <2>3. CASE main' = "close" /\ stack' = stack /\ OnStack' = OnStack
    <3>1. Met' \subseteq Met /\ Barred' \subseteq Barred
      BY <2>1, <2>3 DEF Met, Barred, Passed
    <3> QED
      BY <2>1, <2>3, <3>1, PathFrame
  <2>4. CASE /\ main' = "run" /\ OnStack' = RootSet
             /\ \A i \in DOMAIN stack' : stack'[i].depth = 1
    <3>1. ASSUME NEW d \in RootSet
          PROVE  \E p : Leads(p, 1) /\ p[1] = d
      <4> DEFINE p == [k \in 1..1 |-> d]
      <4>1. p \in [1..1 -> Dirs] /\ p[1] = d
        BY KidTypes
      <4>2. Leads(p, 1)
        BY <4>1 DEF Leads
      <4> QED
        BY <4>1, <4>2
    <3>2. Met' = RootSet
      BY <2>1, <2>2, <2>4 DEF Met, Passed
    <3>3. \A i \in DOMAIN stack' : stack'[i].dir \in RootSet /\ stack'[i].depth = 1
      BY <2>4 DEF OnStack
    <3>4. \A i \in DOMAIN stack' :
            \E p : Leads(p, stack'[i].depth) /\ p[stack'[i].depth] = stack'[i].dir
      BY <3>1, <3>3
    <3>5. ASSUME NEW d \in Met'
          PROVE  \E n, p : /\ Leads(p, n) /\ p[n] = d /\ \A k \in 1..n-1 : p[k] \notin Barred'
                           /\ n = 1 \/ Descends(n - 1)
      <4>1. 1..1-1 = {}
        OBVIOUS
      <4> QED
        BY <3>1, <3>2, <4>1
    <3> QED
      BY <2>4, <3>4, <3>5 DEF PathInv
  <2> QED
    BY <2>1, <2>3, <2>4
<1>5. CASE ~ScanDir /\ ~AddWork /\ ~OpenStore /\ \A w \in Workers : ~WorkerRecv(w)
  <2>1. Stays /\ (main' = "open" => main = "open")
    BY <1>5, StaySets
  <2>2. Met' \subseteq Met /\ Barred' \subseteq Barred /\ stack' = stack
    BY <2>1 DEF Stays, Met, Barred, Passed
  <2> QED
    BY <2>1, <2>2, PathFrame
<1> QED
  BY <1>1, <1>2, <1>3, <1>4, <1>5

\* What is known stays known unless there is an abort.
LEMMA KidsFrame ==
  ASSUME KidsInv, Met \subseteq Met', Passed' \subseteq Passed, ~doAbort' => ~doAbort,
         main' \in {"run", "finish"} => main \in {"run", "finish"}
  PROVE  KidsInv'
<1> SUFFICES ASSUME main' \in {"run", "finish"}, ~doAbort'
             PROVE  /\ RootSet \subseteq Met'
                    /\ \A d \in Passed' : \A n, p :
                         Leads(p, n) /\ p[n] = d /\ Descends(n) => KidSet(d) \subseteq Met'
  BY DEF KidsInv
<1>1. /\ RootSet \subseteq Met
      /\ \A d \in Passed : \A n, p :
           Leads(p, n) /\ p[n] = d /\ Descends(n) => KidSet(d) \subseteq Met
  BY DEF KidsInv
<1> QED
  BY <1>1

LEMMA KidsNext ==
  ASSUME PathsDisjoint, TypeOK, MutexInv, ScanInv, OnceInv, PathInv, KidsInv, [Next]_vars
  PROVE  KidsInv'
<1> USE Names DEF OnceInv
<1>1. CASE ScanDir
  <2>1. PICK p : p = Head(stack)
    OBVIOUS
  <2>2. /\ p \in Pending /\ p.dir \in OnStack /\ p.dir \in Dirs /\ p.depth \in Nat
        /\ p = stack[1] /\ 1 \in DOMAIN stack
        /\ Adding = {} /\ InQueue' = InQueue /\ Taken' = Taken /\ UNCHANGED <<main, doAbort>>
    BY <1>1, <2>1, ScanSets
  <2>3. \/ doAbort
        \/ /\ OnStack' = OnStack \ {p.dir} /\ unreadable' = unreadable \cup {p.dir}
           /\ Adding' = {}
        \/ /\ OnStack' = (OnStack \ {p.dir}) \cup (IF Descends(p.depth) THEN KidSet(p.dir) ELSE {})
           /\ unreadable' = unreadable /\ Adding' = {p.dir}
    BY <1>1, <2>1, ScanSets
  <2>4. CASE doAbort
    BY <2>2, <2>4 DEF KidsInv
  <2>5. CASE /\ OnStack' = OnStack \ {p.dir} /\ unreadable' = unreadable \cup {p.dir}
             /\ Adding' = {}
    <3>1. Met \subseteq Met' /\ Passed' \subseteq Passed
      BY <2>2, <2>5 DEF Met, Passed
    <3> QED
      BY <2>2, <3>1, KidsFrame
  <2>6. CASE /\ OnStack' = (OnStack \ {p.dir}) \cup (IF Descends(p.depth) THEN KidSet(p.dir) ELSE {})
             /\ unreadable' = unreadable /\ Adding' = {p.dir}
    <3>1. Met \subseteq Met' /\ Passed' = Passed \cup {p.dir}
      BY <2>2, <2>6 DEF Met, Passed
    <3>2. PICK q : Leads(q, p.depth) /\ q[p.depth] = p.dir
      BY <2>2 DEF PathInv
    <3>3. ASSUME NEW n, NEW r, Leads(r, n), r[n] = p.dir, Descends(n)
          PROVE  KidSet(p.dir) \subseteq Met'
      <4>1. n = p.depth
        BY <3>2, <3>3, OnePath
      <4> QED
        BY <2>6, <3>3, <4>1 DEF Met
    <3>4. ASSUME main \in {"run", "finish"}, ~doAbort
          PROVE  /\ RootSet \subseteq Met
                 /\ \A d \in Passed : \A n, r :
                      Leads(r, n) /\ r[n] = d /\ Descends(n) => KidSet(d) \subseteq Met
      BY <3>4 DEF KidsInv
    <3>5. ASSUME main \in {"run", "finish"}, ~doAbort, NEW d \in Passed',
                 NEW n, NEW r, Leads(r, n), r[n] = d, Descends(n)
          PROVE  KidSet(d) \subseteq Met'
      <4>1. CASE d = p.dir
        BY <3>3, <3>5, <4>1
      <4>2. CASE d \in Passed
        BY <3>1, <3>4, <3>5, <4>2
      <4> QED
        BY <3>1, <3>5, <4>1, <4>2
    <3> QED
      BY <2>2, <3>1, <3>4, <3>5 DEF KidsInv
  <2> QED
    BY <2>3, <2>4, <2>5, <2>6
<1>2. CASE AddWork
  <2>1. /\ Adding = {at[Scanner]} /\ Adding' = {} /\ InQueue' = InQueue \cup {at[Scanner]}
        /\ OnStack' = OnStack /\ Taken' = Taken
        /\ UNCHANGED <<unreadable, main, doAbort>>
    BY <1>2, AddSets
  <2>2. Met \subseteq Met' /\ Passed' \subseteq Passed
    BY <2>1 DEF Met, Passed
  <2> QED
    BY <2>1, <2>2, KidsFrame
<1>3. ASSUME NEW w \in Workers, WorkerRecv(w)
      PROVE  KidsInv'
  <2>1. /\ Adding' = Adding /\ OnStack' = OnStack
        /\ UNCHANGED <<unreadable, main, doAbort>>
        /\ \/ /\ InQueue' = InQueue \/ doAbort
              /\ Taken' = Taken
           \/ \E d \in InQueue : InQueue' = InQueue \ {d} /\ Taken' = Taken \cup {d}
    BY <1>3, RecvSets
  <2>2. CASE doAbort
    BY <2>1, <2>2 DEF KidsInv
  <2>3. CASE ~doAbort
    <3>1. Met \subseteq Met' /\ Passed' \subseteq Passed
      BY <2>1, <2>3 DEF Met, Passed
    <3> QED
      BY <2>1, <3>1, KidsFrame
  <2> QED
    BY <2>2, <2>3
<1>4. CASE OpenStore
  <2>1. /\ Adding' = Adding /\ InQueue' = InQueue /\ Taken' = Taken /\ main = "open"
        /\ (main' = "run" /\ OnStack' = RootSet) \/ main' = "close"
    BY <1>4, OpenSets
  <2>2. Met = {}
    BY <2>1 DEF PathInv
  <2>3. Passed' = {} /\ (main' = "run" => RootSet \subseteq Met')
    BY <2>1, <2>2 DEF Met, Passed
  <2> QED
    BY <2>1, <2>3 DEF KidsInv
<1>5. CASE ~ScanDir /\ ~AddWork /\ ~OpenStore /\ \A w \in Workers : ~WorkerRecv(w)
  <2>1. /\ Stays /\ (~doAbort' => ~doAbort)
        /\ \/ main' = main \/ main' \notin {"open", "run", "finish"}
           \/ main = "run" /\ main' = "finish"
    BY <1>5, StaySets
  <2>2. Met \subseteq Met' /\ Passed' \subseteq Passed
    BY <2>1 DEF Stays, Met, Passed
  <2>3. main' \in {"run", "finish"} => main \in {"run", "finish"}
    BY <2>1
  <2> QED
    BY <2>1, <2>2, <2>3, KidsFrame
<1> QED
  BY <1>1, <1>2, <1>3, <1>4, <1>5

LEMMA CoverInit == Init => OnceInv /\ PathInv /\ KidsInv
<1> SUFFICES ASSUME Init
             PROVE  OnceInv /\ PathInv /\ KidsInv
  OBVIOUS
<1> USE Names
<1>1. /\ main = "open" /\ stack = <<>> /\ todo[Scanner] = <<>> /\ workQ = <<>>
      /\ unreadable = {} /\ taken = [d \in Dirs |-> 0]
  BY DEF Init
<1>2. OnStack = {} /\ Adding = {} /\ InQueue = {} /\ Taken = {}
  BY <1>1 DEF OnStack, Adding, InQueue, Taken
<1>3. OnceInv
  <2>1. StackOnce /\ QueueOnce /\ TakenOnce
    BY <1>1 DEF StackOnce, QueueOnce, TakenOnce
  <2>2. Apart
    BY <1>1, <1>2 DEF Apart, Passed
  <2>3. ScanOps
    BY <1>1 DEF ScanOps
  <2> QED
    BY <2>1, <2>2, <2>3 DEF OnceInv
<1>4. Met = {}
  BY <1>1, <1>2 DEF Met, Passed
<1>5. PathInv
  BY <1>1, <1>4 DEF PathInv
<1>6. KidsInv
  BY <1>1 DEF KidsInv
<1> QED
  BY <1>3, <1>5, <1>6

\* What a worker took is readable and within the limit of the depth.
LEMMA TakenInScope ==
  ASSUME PathsDisjoint, OnceInv, PathInv
  PROVE  Taken \subseteq Within(DepthLimit)
<1> SUFFICES ASSUME NEW d \in Taken
             PROVE  d \in Within(DepthLimit)
  OBVIOUS
<1>1. d \in Met /\ d \notin unreadable
  BY DEF OnceInv, Apart, Met, Passed
<1>2. PICK n, p : /\ Leads(p, n) /\ p[n] = d /\ \A k \in 1..n-1 : p[k] \notin Barred
                  /\ n = 1 \/ Descends(n - 1)
  BY <1>1 DEF PathInv
<1>3. n \in Nat \ {0}
  BY <1>2 DEF Leads
<1>4. d \in Level[n]
  <2>1. \A k \in 1..n-1 : p[k] \notin unreadable
    BY <1>2 DEF Barred
  <2> QED
    BY <1>2, <1>3, <2>1, LevelPaths
<1>5. n <= DepthLimit + 1 /\ DepthLimit \in Nat
  <2>1. n <= Cardinality(Dirs) /\ Cardinality(Dirs) \in Nat
    BY <1>2, PathLength, ProcessAssumption, FS_CardinalityType
  <2>2. MaxDepth \in Nat
    BY ProcessAssumption
  <2> QED
    BY <1>2, <1>3, <2>1, <2>2 DEF DepthLimit, Descends
<1>6. n \in 1..DepthLimit + 1
  BY <1>3, <1>5
<1> QED
  BY <1>1, <1>4, <1>6 DEF Within

\* When nothing is left to do, what is readable and within scanDir's reach was taken.
LEMMA ScopeTaken ==
  ASSUME PathsDisjoint, PathInv, KidsInv, OnStack = {}, Adding = {}, InQueue = {},
         main \in {"run", "finish"}, ~doAbort
  PROVE  Within(DepthReached) \subseteq Taken
<1> SUFFICES ASSUME NEW d \in Within(DepthReached)
             PROVE  d \in Taken
  OBVIOUS
<1>1. PICK n \in 1..DepthReached + 1 : d \in Level[n]
  BY DEF Within
<1>2. n \in Nat \ {0} /\ d \notin unreadable
  BY <1>1 DEF Within
<1>3. PICK p : Leads(p, n) /\ p[n] = d /\ \A k \in 1..n-1 : p[k] \notin unreadable
  BY <1>1, <1>2, LevelPaths
<1>4. /\ p \in [1..n -> Dirs] /\ p[1] \in RootSet
      /\ \A k \in 1..n-1 : p[k + 1] \in KidSet(p[k])
  BY <1>3 DEF Leads
<1>5. /\ RootSet \subseteq Met
      /\ \A e \in Passed : \A m, q :
           Leads(q, m) /\ q[m] = e /\ Descends(m) => KidSet(e) \subseteq Met
  BY DEF KidsInv
<1>6. Met = unreadable \cup Taken /\ Passed = Taken
  BY DEF Met, Passed
<1>7. \A k \in 1..n-1 : Descends(k)
  <2>1. DepthReached \in Nat /\ n <= DepthReached + 1 /\ MaxDepth \in Nat
    <3>1. Cardinality(Dirs) \in Nat /\ MaxDepth \in Nat
      BY ProcessAssumption, FS_CardinalityType
    <3>2. DepthReached \in Nat
      BY <3>1 DEF DepthReached, DepthLimit
    <3> QED
      BY <1>1, <3>1, <3>2
  <2> QED
    BY <1>2, <2>1 DEF DepthReached, DepthLimit, Descends
<1> DEFINE T == {k \in Nat : k \in 1..n /\ p[k] \notin Met}
<1>8. T = {}
  <2> SUFFICES ASSUME T # {}
               PROVE  FALSE
    OBVIOUS
  <2>1. PICK k \in T : \A j \in T : k <= j
    BY Least
  <2>2. k \in 1..n /\ p[k] \notin Met
    OBVIOUS
  <2>3. k # 1
    BY <1>4, <1>5, <2>2
  <2>4. k - 1 \in Nat /\ k - 1 \in 1..n /\ k - 1 \in 1..n-1 /\ (k - 1) + 1 = k /\ ~(k <= k - 1)
    BY <1>2, <2>2, <2>3
  <2>5. p[k - 1] \in Met
    BY <2>1, <2>4
  <2>6. p[k - 1] \in Passed
    BY <1>3, <1>6, <2>4, <2>5
  <2> DEFINE q == [i \in 1..k-1 |-> p[i]]
  <2>7. Leads(q, k - 1) /\ q[k - 1] = p[k - 1]
    <3>1. k - 1 \in 1..k-1
      BY <2>4
    <3> QED
      BY <1>3, <2>4, <3>1, LeadsCut
  <2> HIDE DEF q
  <2>8. KidSet(p[k - 1]) \subseteq Met
    BY <1>5, <1>7, <2>4, <2>6, <2>7
  <2> QED
    BY <1>4, <2>2, <2>4, <2>8
<1>9. n \in 1..n
  BY <1>2
<1>10. d \in Met
  BY <1>2, <1>3, <1>8, <1>9
<1> QED
  BY <1>2, <1>6, <1>10

\* A directory has at most one worker, and only if it is readable and not more levels
\* below the paths than the help allows; without an abort every readable directory
\* that is on fewer levels, or on any level without a limit, has one.  For every
\* tree, every limit, any number of workers and whatever the interleaving.  (That
\* the last level the help allows is left out is shown by Tree.WalkDocumented.)
THEOREM Coverage ==
  ASSUME PathsDisjoint
  PROVE  Spec => []FullCoverage
<1> DEFINE Inv == TypeOK /\ LogInv /\ ScanInv /\ NilInv /\ OnceInv /\ PathInv /\ KidsInv
<1>1. Init => Inv
  BY DrainInv, CoverInit
<1>2. Inv /\ [Next]_vars => Inv'
  BY DrainInv, OnceNext, PathNext, KidsNext DEF LogInv
<1>3. Inv => FullCoverage
  <2> SUFFICES ASSUME Inv
               PROVE  FullCoverage
    OBVIOUS
  <2>1. Taken \subseteq Within(DepthLimit)
    BY TakenInScope
  <2>2. ASSUME NEW d \in Dirs
        PROVE  taken[d] <= IF d \in Within(DepthLimit) THEN 1 ELSE 0
    <3>1. taken[d] \in Nat /\ taken[d] <= 1
      BY DEF TypeOK, OnceInv, TakenOnce
    <3>2. d \notin Within(DepthLimit) => ~(taken[d] > 0)
      BY <2>1 DEF Taken
    <3> QED
      BY <3>1, <3>2
  <2>3. ASSUME main = "finish", ~doAbort, NEW d \in Within(DepthReached)
        PROVE  taken[d] = 1
    <3>1. ScanDone /\ workQ = <<>>
      BY <2>3, Drained DEF NothingLeftBehind, ScanDone
    <3>2. OnStack = {} /\ Adding = {} /\ InQueue = {}
      BY <3>1 DEF ScanDone, OnStack, Adding, InQueue
    <3>3. d \in Taken
      BY <2>3, <3>2, ScopeTaken
    <3>4. d \in Dirs /\ taken[d] > 0 /\ taken[d] <= 1 /\ taken[d] \in Nat
      BY <3>3 DEF Taken, TypeOK, OnceInv, TakenOnce
    <3> QED
      BY <3>4
  <2> QED
    BY <2>2, <2>3 DEF FullCoverage
<1> QED
  BY <1>1, <1>2, <1>3, PTL DEF Spec
=============================================================================
