----------------------------- MODULE DedupProofs -----------------------------
(***************************************************************************)
(* Proofs about Dedup, for any files, hashes, systems and bounds: types    *)
(* and the closing of the log, the generations, the sizes of a bag, what a *)
(* run without errors has merged, and that merged files share space.       *)
(***************************************************************************)
EXTENDS Dedup, FiniteSetTheorems, SequenceTheorems, FunctionTheorems, TLAPS

-----------------------------------------------------------------------------
(* The inductive invariant                                                 *)

Detecting == {"collect", "detect", "extents"}
Merging == {"dedup", "files", "merge"}

\* The bags are functions of the hashes, and a generation is at most the number
\* of runs.
TableInv ==
  /\ bags \in [Hashes -> Bag \cup {None}] /\ txBags \in [Hashes -> Bag \cup {None}]
  /\ runs \in 0..MaxRuns /\ gen \in 0..runs /\ txGen \in 0..runs

\* The handler is not done before the nil, which is the last thing the job sends.
NilInv ==
  /\ (\E i \in DOMAIN logQ : logQ[i] = "nil") => pc = "sent"
  /\ handler = "done" => pc \in {"idle", "sent"}
  /\ pc = "idle" => handler = "done" /\ logQ = <<>>

\* What is stored is of a generation that was stored; in DetectDupes a bag of the
\* new generation belongs to a hash it was given, and Dedup adds none.
GenInv ==
  /\ \A h \in Stored : bags[h].gen <= gen
  /\ pc \in Detecting => txGen = gen + 1
  /\ pc \in Detecting => \A h \in Hashes :
       txBags[h] # None => txBags[h].gen <= gen \/ (txBags[h].gen = txGen /\ h \in given)
  /\ pc \in Merging => txGen = gen /\ \A h \in Hashes :
       txBags[h] # None => h \in Stored /\ txBags[h].gen <= gen
  /\ pc \in {"extents", "files", "merge"} => hash \in given /\ hash \notin todo
  /\ pc \in {"files", "merge"} => hash \in Stored /\ bag.gen <= gen

\* A bag of a hash: files of that hash, at least two, and the merged ones are
\* counted.
BagOf(b, h) ==
  /\ DOMAIN b.merged \subseteq Candidates(h)
  /\ \A f \in DOMAIN b.merged : \E g \in DOMAIN b.merged : g # f
  /\ b.shared = Cardinality(MergedFiles(b))
BagInv == \A h \in Hashes :
  (bags[h] # None => BagOf(bags[h], h)) /\ (txBags[h] # None => BagOf(txBags[h], h))

\* The bag at work: what is left is not merged yet, nor is anything if the leader
\* is not.
WorkInv ==
  /\ pc = "extents" => left \cup DOMAIN found \subseteq Candidates(hash)
  /\ pc \in {"files", "merge"} =>
       /\ BagOf(bag, hash) /\ leader \in DOMAIN bag.merged
       /\ left \subseteq DOMAIN bag.merged \ (MergedFiles(bag) \cup {leader})
       /\ leader \in MergedFiles(bag) \/ MergedFiles(bag) = {}

\* What is merged already after a part of a run without errors.
FullyMerged(b) == MergedFiles(b) = DOMAIN b.merged
MergedInv ==
  /\ pc \in {"idle"} \cup Detecting => leader = None
  /\ pc \in Merging /\ ~hadErrors =>
       \A h \in given \ todo : pc = "dedup" \/ h # hash => FullyMerged(txBags[h])
  /\ pc \in {"files", "merge"} /\ ~hadErrors =>
       \A f \in DOMAIN bag.merged :
         f \in MergedFiles(bag) \cup left \/ (f = leader /\ left # {})
  /\ pc \in {"result", "sent"} /\ ~hadErrors /\ leader # None =>
       \A h \in given : FullyMerged(bags[h])

\* The merged files of a bag share if all of them are as they were indexed, and
\* for a bag DetectDupes is about to store if nobody changed one since it was read.
Intact(f) == content[f] = "indexed" /\ f \notin touched
Together(F) == \A f, g \in F : ext[f] = ext[g]
Share(b) == (\A f \in MergedFiles(b) : Intact(f)) => Together(MergedFiles(b))
FreshShare(b) ==
  /\ MergedFiles(b) \subseteq fresh \cup touched
  /\ MergedFiles(b) \subseteq fresh => Together(MergedFiles(b))

\* What DetectDupes found is still true of the files nobody changed, and its bags
\* are new; what a bag says in a transaction of Dedup includes what it says in the
\* database.
New(h) == txBags[h] # None /\ txBags[h].gen = txGen
Looking == todo \cup (IF pc = "extents" THEN {hash} ELSE {})
ShareInv ==
  /\ \A h \in Stored : Share(bags[h])
  /\ pc = "extents" => \A f \in DOMAIN found :
       f \in fresh \cup touched /\ (f \in fresh /\ found[f] # None => found[f] = ext[f])
  /\ pc \in Detecting => \A h \in Hashes : New(h) => h \notin Looking /\ FreshShare(txBags[h])
  /\ pc \in Merging => fresh = {} /\ \A h \in Hashes : txBags[h] # None => Share(txBags[h])
  /\ pc \in Merging => \A h \in Stored : MergedFiles(bags[h]) \subseteq MergedFiles(txBags[h])
  /\ pc \in {"files", "merge"} => Share(bag) /\ MergedFiles(txBags[hash]) \subseteq MergedFiles(bag)

-----------------------------------------------------------------------------
(* Lemmas about the operators                                              *)

\* None is neither a file nor a hash, and what the constants bound is a number.
LEMMA Names ==
  /\ None \notin Files /\ None \notin Hashes
  /\ \A f \in Files : HashOf[f] \in Hashes
  /\ {LogCap, Word} \subseteq Nat \ {0} /\ MaxRuns \in Nat
  /\ Cardinality(Files) \in Nat /\ Cardinality(Files) < Word
<1>1. Cardinality(Files) \in Nat
  BY DedupAssumption, FS_CardinalityType
<1> QED
  BY <1>1, DedupAssumption

\* A set of files is finite and counted below Word.
LEMMA FileCount ==
  ASSUME NEW F \in SUBSET Files
  PROVE  /\ IsFiniteSet(F) /\ Cardinality(F) \in 0..(Word - 1)
         /\ F # {} => Cardinality(F) > 0
         /\ \A f \in Files \ F : Cardinality(F \cup {f}) = Cardinality(F) + 1
<1>1. IsFiniteSet(Files)
  BY DedupAssumption
<1>2. IsFiniteSet(F) /\ Cardinality(F) <= Cardinality(Files)
  BY <1>1, FS_Subset
<1>3. Cardinality(F) \in Nat /\ (Cardinality(F) = 0 <=> F = {})
  BY <1>2, FS_CardinalityType, FS_EmptySet
<1>4. \A f \in Files \ F : Cardinality(F \cup {f}) = Cardinality(F) + 1
  BY <1>2, FS_AddElement
<1> QED
  BY <1>2, <1>3, <1>4, Names

\* The fields of a bag.
LEMMA BagFields ==
  ASSUME NEW b \in Bag
  PROVE  /\ b.gen \in 0..MaxRuns /\ b.shared \in 0..(Word - 1) /\ b.exclusive \in 0..(Word - 1)
         /\ DOMAIN b.merged \subseteq Files /\ b.merged \in [DOMAIN b.merged -> BOOLEAN]
         /\ MergedFiles(b) \subseteq DOMAIN b.merged
<1>1. PICK F \in SUBSET Files :
        b \in [gen : 0..MaxRuns, merged : [F -> BOOLEAN], shared : 0..(Word - 1),
               exclusive : 0..(Word - 1)]
  BY DEF Bag
<1>2. b.merged \in [F -> BOOLEAN] /\ DOMAIN b.merged = F
  BY <1>1
<1> QED
  BY <1>1, <1>2 DEF MergedFiles

LEMMA BagMake ==
  ASSUME NEW n \in 0..MaxRuns, NEW F \in SUBSET Files, NEW m \in [F -> BOOLEAN],
         NEW s \in 0..(Word - 1), NEW e \in 0..(Word - 1)
  PROVE  [gen |-> n, merged |-> m, shared |-> s, exclusive |-> e] \in Bag
BY DEF Bag

\* The remainder of a division by Word.
LEMMA WordMod ==
  ASSUME NEW n \in Nat
  PROVE  n % Word \in 0..(Word - 1) /\ (n < Word => n % Word = n)
BY Names

\* What Merged changes: the leader and the file become merged.
LEMMA MergedFields ==
  ASSUME NEW b \in Bag, NEW f \in DOMAIN b.merged, leader \in DOMAIN b.merged
  PROVE  /\ Merged(b, f) \in Bag /\ Merged(b, f).gen = b.gen
         /\ DOMAIN Merged(b, f).merged = DOMAIN b.merged
         /\ MergedFiles(Merged(b, f)) = MergedFiles(b) \cup {leader, f}
         /\ Merged(b, f).shared = (b.shared + (IF b.merged[leader] THEN 1 ELSE 2)) % Word
<1> DEFINE m == [[b.merged EXCEPT ![leader] = TRUE] EXCEPT ![f] = TRUE]
           s == (b.shared + (IF b.merged[leader] THEN 1 ELSE 2)) % Word
           e == (b.exclusive + Word - 1) % Word
<1>1. /\ b.gen \in 0..MaxRuns /\ b.shared \in 0..(Word - 1) /\ b.exclusive \in 0..(Word - 1)
      /\ DOMAIN b.merged \subseteq Files /\ b.merged \in [DOMAIN b.merged -> BOOLEAN]
  BY BagFields
<1>2. Merged(b, f).gen = b.gen /\ Merged(b, f).merged = m /\ Merged(b, f).shared = s
  BY <1>1 DEF Merged
<1>3. m \in [DOMAIN b.merged -> BOOLEAN] /\ \A x \in DOMAIN b.merged :
        m[x] = IF x \in {leader, f} THEN TRUE ELSE b.merged[x]
  BY <1>1
<1>4. s \in 0..(Word - 1) /\ e \in 0..(Word - 1)
  <2>1. b.exclusive + Word - 1 \in Nat /\ b.shared + 1 \in Nat /\ b.shared + 2 \in Nat
    BY <1>1, Names
  <2> QED
    BY <2>1, WordMod
<1>5. Merged(b, f) \in Bag
  <2>1. PICK F \in SUBSET Files :
          b \in [gen : 0..MaxRuns, merged : [F -> BOOLEAN], shared : 0..(Word - 1),
                 exclusive : 0..(Word - 1)]
    BY DEF Bag
  <2>2. Merged(b, f) \in [gen : 0..MaxRuns, merged : [F -> BOOLEAN], shared : 0..(Word - 1),
                          exclusive : 0..(Word - 1)]
    BY <1>4, <2>1 DEF Merged
  <2> QED
    BY <2>2 DEF Bag
<1> QED
  BY <1>2, <1>3, <1>5 DEF MergedFiles

\* The largest group: files of the same known place, or none.
LEMMA GroupFacts ==
  ASSUME DOMAIN found \subseteq Files
  PROVE  /\ Cardinality({Group(f) : f \in DOMAIN found}) \in 0..(Word - 1)
         /\ \A g \in Largest : g \subseteq DOMAIN found /\ Cardinality(g) \in 0..(Word - 1)
         /\ \A g \in Largest : \A x, y \in g : x = y \/ (found[x] # None /\ found[x] = found[y])
<1> DEFINE D == DOMAIN found
           G == {Group(f) : f \in D}
           h == [f \in D |-> Group(f)]
<1>1. IsFiniteSet(D) /\ Cardinality(D) \in 0..(Word - 1)
  BY FileCount
<1>2. h \in Surjection(D, G)
  BY DEF Surjection
<1>3. IsFiniteSet(G) /\ Cardinality(G) <= Cardinality(D)
  BY <1>1, <1>2, FS_Surjection
<1>4. Cardinality(G) \in 0..(Word - 1)
  BY <1>1, <1>3, FS_CardinalityType, Names
<1>5. \A g \in Largest : g = {} \/ \E f \in D : g = Group(f)
  BY DEF Largest
<1>6. \A g \in Largest : g \subseteq D
  BY <1>5 DEF Group
<1>7. \A g \in Largest : Cardinality(g) \in 0..(Word - 1)
  BY <1>6, FileCount
<1>8. \A g \in Largest : \A x, y \in g : x = y \/ (found[x] # None /\ found[x] = found[y])
  BY <1>5 DEF Group
<1> QED
  BY <1>4, <1>6, <1>7, <1>8

\* What an action does to LogQueue.
LEMMA LogType ==
  ASSUME NEW m \in {"msg", "nil"}, logQ \in Seq({"msg", "nil"}), Log(m)
  PROVE  /\ logQ' \in Seq({"msg", "nil"}) /\ Len(logQ') <= LogCap
         /\ (\E i \in DOMAIN logQ' : logQ'[i] = "nil") =>
              m = "nil" \/ \E i \in DOMAIN logQ : logQ[i] = "nil"
<1>1. /\ Len(logQ) \in Nat /\ Len(logQ) < LogCap /\ logQ' = Append(logQ, m)
      /\ logQ' \in Seq({"msg", "nil"}) /\ Len(logQ') = Len(logQ) + 1
      /\ \A i \in 1..Len(logQ) : logQ'[i] = logQ[i]
      /\ logQ'[Len(logQ) + 1] = m
      /\ DOMAIN logQ = 1..Len(logQ) /\ DOMAIN logQ' = 1..Len(logQ')
  BY AppendProperties, LenProperties DEF Log
<1> QED
  BY <1>1, Names

LEMMA TailFacts ==
  ASSUME logQ \in Seq({"msg", "nil"}), logQ # <<>>, logQ' = Tail(logQ)
  PROVE  /\ logQ' \in Seq({"msg", "nil"}) /\ Len(logQ') <= Len(logQ)
         /\ (\E i \in DOMAIN logQ' : logQ'[i] = "nil") => \E i \in DOMAIN logQ : logQ[i] = "nil"
         /\ Head(logQ) = "nil" => \E i \in DOMAIN logQ : logQ[i] = "nil"
<1>1. /\ Len(logQ) \in Nat \ {0} /\ logQ' \in Seq({"msg", "nil"}) /\ Len(logQ') = Len(logQ) - 1
      /\ \A i \in 1..Len(logQ') : logQ'[i] = logQ[i + 1]
      /\ DOMAIN logQ = 1..Len(logQ) /\ DOMAIN logQ' = 1..Len(logQ') /\ Head(logQ) = logQ[1]
  BY HeadTailProperties, LenProperties, EmptySeq
<1> QED
  BY <1>1

-----------------------------------------------------------------------------
(* Types, generations and the closing of the log                           *)

\* runDedup starts one of the two commands for some of the hashes.
LEMMA StartStep ==
  ASSUME Detect \/ Run
  PROVE  \E cmd \in {"collect", "dedup"}, hs \in SUBSET Hashes : Start(cmd, hs)
<1>1. CASE Detect
  <2>1. PICK large \in SUBSET Hashes :
          Start("collect", {h \in large : Cardinality(Candidates(h)) > 1})
    BY <1>1 DEF Detect
  <2> QED
    BY <2>1
<1>2. CASE Run
  <2>1. PICK hs \in SUBSET Hashes :
          Start("dedup", IF hs = {} THEN {h \in Hashes : bags[h] # None} ELSE hs)
    BY <1>2 DEF Run
  <2> QED
    BY <2>1
<1> QED
  BY <1>1, <1>2

\* The tables hold bags, and no generation is ahead of the runs.
LEMMA TableNext ==
  ASSUME TypeOK, TableInv, WorkInv, [Next]_vars
  PROVE  TableInv'
<1> USE Names DEF TableInv
<1>1. ASSUME NEW cmd \in {"collect", "dedup"}, NEW hs \in SUBSET Hashes, Start(cmd, hs)
      PROVE  TableInv'
  <2>1. gen + 1 \in 0..MaxRuns /\ runs' \in 0..MaxRuns /\ gen + 1 <= runs' /\ gen <= runs'
    BY <1>1 DEF Start, TypeOK
  <2> QED
    BY <1>1, <2>1 DEF Start, NextGen, dbVars
<1>2. CASE Collect \/ DetectHash \/ DetectFile \/ DedupHash
  BY <1>2 DEF Collect, DetectHash, DetectFile, DedupHash, Log, Rollback, diskVars, dbVars,
              txVars, jobVars, handlerVars, bounds
<1>3. CASE DedupFile \/ DedupMerge \/ SendNil \/ HandleLog
  BY <1>3 DEF DedupFile, DedupMerge, SendNil, HandleLog, Log, Rollback, diskVars, dbVars,
              txVars, jobVars, handlerVars, bounds
<1>4. CASE HandleSend \/ Interrupt
  BY <1>4 DEF HandleSend, Interrupt, Log, Stop, diskVars, dbVars, txVars, jobVars, handlerVars,
              bounds
<1>5. CASE DetectBag
  <2>1. hash \in Hashes \cup {None} /\ txGen \in 0..MaxRuns /\ DOMAIN found \subseteq Files
    BY <1>5 DEF DetectBag, WorkInv, Candidates, TypeOK
  <2>2. \A g \in Largest :
          [gen |-> txGen, merged |-> [f \in DOMAIN found |-> f \in g], shared |-> Cardinality(g),
           exclusive |-> Cardinality({Group(f) : f \in DOMAIN found})] \in Bag
    <3> TAKE g \in Largest
    <3>1. /\ Cardinality(g) \in 0..(Word - 1)
          /\ Cardinality({Group(f) : f \in DOMAIN found}) \in 0..(Word - 1)
      BY <2>1, GroupFacts
    <3>2. [f \in DOMAIN found |-> f \in g] \in [DOMAIN found -> BOOLEAN]
      OBVIOUS
    <3> QED
      BY <2>1, <3>1, <3>2, BagMake
  <2> QED
    BY <1>5, <2>1, <2>2 DEF DetectBag, dbVars, bounds
<1>6. CASE DetectEnd
  BY <1>6 DEF DetectEnd, Commit, Rollback, TypeOK, diskVars, dbVars, txVars, jobVars,
              handlerVars, bounds
<1>7. CASE DedupBag
  BY <1>7 DEF DedupBag, TypeOK, diskVars, dbVars, txVars, jobVars, handlerVars, bounds
<1>8. CASE DedupEnd
  BY <1>8 DEF DedupEnd, Commit, Rollback, TypeOK, diskVars, dbVars, txVars, jobVars,
              handlerVars, bounds
<1>9. CASE HandleAbort
  BY <1>9 DEF HandleAbort, Reset, NoBags, dbVars, txVars, bounds
<1>10. CASE Exit
  BY <1>10 DEF Exit, Reset, NoBags, dbVars, bounds
<1>11. CASE Kill
  BY <1>11 DEF Kill, Stop, Reset, NoBags, dbVars, bounds
<1>12. ASSUME NEW f \in Files, Rewrite(f)
      PROVE  TableInv'
  BY <1>12 DEF Rewrite, diskVars, dbVars, txVars, jobVars, handlerVars, bounds
<1>13. CASE UNCHANGED vars
  BY <1>13 DEF vars, diskVars, dbVars, txVars, jobVars, handlerVars, bounds
<1> QED
  BY <1>1, <1>2, <1>3, <1>4, <1>5, <1>6, <1>7, <1>8, <1>9, <1>10, <1>11, <1>12,
     <1>13, StartStep
     DEF Next, Job, Handler, Idle

\* The nil is the last thing the job sends, and the handler waits for it.
LEMMA LogNext ==
  ASSUME TypeOK, NilInv, [Next]_vars
  PROVE  NilInv' /\ logQ' \in Seq({"msg", "nil"}) /\ Len(logQ') <= LogCap
<1> USE Names DEF NilInv
<1>1. ASSUME NEW cmd \in {"collect", "dedup"}, NEW hs \in SUBSET Hashes, Start(cmd, hs)
      PROVE  NilInv' /\ logQ' \in Seq({"msg", "nil"}) /\ Len(logQ') <= LogCap
  BY <1>1 DEF Start, TypeOK
<1>2. CASE Collect
  BY <1>2, LogType DEF Collect, TypeOK, Log, Rollback, diskVars, dbVars, txVars, jobVars,
                       handlerVars, bounds
<1>3. CASE DetectHash
  BY <1>3, LogType DEF DetectHash, TypeOK, Rollback, diskVars, dbVars, txVars, jobVars,
                       handlerVars, bounds
<1>4. CASE DetectFile
  BY <1>4, LogType DEF DetectFile, TypeOK, Log, diskVars, dbVars, txVars, jobVars, handlerVars,
                       bounds
<1>5. CASE DetectBag
  BY <1>5, LogType DEF DetectBag, TypeOK, diskVars, dbVars, txVars, jobVars, handlerVars, bounds
<1>6. CASE DetectEnd
  BY <1>6, LogType DEF DetectEnd, TypeOK, Commit, Rollback, diskVars, dbVars, txVars, jobVars,
                       handlerVars, bounds
<1>7. CASE DedupHash
  BY <1>7, LogType DEF DedupHash, TypeOK, Rollback, diskVars, dbVars, txVars, jobVars,
                       handlerVars, bounds
<1>8. CASE DedupFile
  BY <1>8, LogType DEF DedupFile, TypeOK, Log, Rollback, diskVars, dbVars, txVars, jobVars,
                       handlerVars, bounds
<1>9. CASE DedupMerge
  BY <1>9, LogType DEF DedupMerge, TypeOK, Log, diskVars, dbVars, txVars, jobVars, handlerVars,
                       bounds
<1>10. CASE DedupBag
  BY <1>10, LogType DEF DedupBag, TypeOK, diskVars, dbVars, txVars, jobVars, handlerVars, bounds
<1>11. CASE DedupEnd
  BY <1>11, LogType DEF DedupEnd, TypeOK, Commit, Rollback, diskVars, dbVars, txVars, jobVars,
                        handlerVars, bounds
<1>12. CASE SendNil
  BY <1>12, LogType DEF SendNil, TypeOK, Log, diskVars, dbVars, txVars, jobVars, handlerVars,
                        bounds
<1>13. CASE HandleAbort
  <2>1. CASE Reset
    BY <2>1, Names DEF Reset, TypeOK
  <2>2. CASE handler' = "send" /\ UNCHANGED <<pc, logQ>>
    BY <1>13, <2>2 DEF HandleAbort, TypeOK
  <2> QED
    BY <1>13, <2>1, <2>2 DEF HandleAbort
<1>14. CASE HandleSend
  BY <1>14, LogType DEF HandleSend, TypeOK, Log, diskVars, dbVars, txVars, jobVars,
                        handlerVars, bounds
<1>15. CASE Exit
  BY <1>15, LogType DEF Exit, TypeOK, Reset, diskVars, dbVars, txVars, jobVars, handlerVars,
                        bounds
<1>16. CASE Interrupt
  BY <1>16, LogType DEF Interrupt, TypeOK, Stop, diskVars, dbVars, txVars, jobVars,
                        handlerVars, bounds
<1>17. CASE Kill
  BY <1>17, LogType DEF Kill, TypeOK, Reset, Stop, diskVars, dbVars, txVars, jobVars,
                        handlerVars, bounds
<1>18. CASE HandleLog
  <2>1. /\ logQ \in Seq({"msg", "nil"}) /\ logQ # <<>> /\ logQ' = Tail(logQ)
        /\ handler = "run" /\ pc' = pc /\ Len(logQ) \in Nat /\ Len(logQ) <= LogCap
        /\ handler' = "done" => Head(logQ) = "nil"
    BY <1>18 DEF HandleLog, TypeOK
  <2>2. /\ logQ' \in Seq({"msg", "nil"}) /\ Len(logQ') <= Len(logQ)
        /\ (\E i \in DOMAIN logQ' : logQ'[i] = "nil") => \E i \in DOMAIN logQ : logQ[i] = "nil"
        /\ Head(logQ) = "nil" => \E i \in DOMAIN logQ : logQ[i] = "nil"
    BY <2>1, TailFacts
  <2>3. Len(logQ') <= LogCap /\ Len(logQ') \in Nat
    BY <2>1, <2>2, LenProperties
  <2> QED
    BY <2>1, <2>2, <2>3
<1>19. ASSUME NEW f \in Files, Rewrite(f)
      PROVE  NilInv' /\ logQ' \in Seq({"msg", "nil"}) /\ Len(logQ') <= LogCap
  BY <1>19 DEF Rewrite, TypeOK, diskVars, dbVars, txVars, jobVars, handlerVars, bounds
<1>20. CASE UNCHANGED vars
  BY <1>20 DEF TypeOK, vars, diskVars, dbVars, txVars, jobVars, handlerVars, bounds
<1> QED
  BY <1>1, <1>2, <1>3, <1>4, <1>5, <1>6, <1>7, <1>8, <1>9, <1>10, <1>11, <1>12,
     <1>13, <1>14, <1>15, <1>16, <1>17, <1>18, <1>19, <1>20, StartStep
     DEF Next, Job, Handler, Idle

LEMMA NoBagType == NoBag \in Bag
<1>1. NoExtents \in [{} -> BOOLEAN]
  BY DEF NoExtents
<1>2. 0 \in 0..MaxRuns /\ 0 \in 0..(Word - 1)
  BY Names
<1> QED
  BY <1>1, <1>2, BagMake DEF NoBag

\* When the run is over the job has nothing at hand.
LEMMA ResetType ==
  ASSUME TypeOK, Reset, TableInv', NilInv', logQ' \in Seq({"msg", "nil"}), Len(logQ') <= LogCap,
         UNCHANGED <<diskVars, detected, hadErrors>>, doAbort' \in BOOLEAN
  PROVE  TypeOK'
<1>1. /\ gen' \in 0..MaxRuns /\ txGen' \in 0..MaxRuns
      /\ \A h \in Hashes : bags'[h] \in Bag \cup {None} /\ txBags'[h] \in Bag \cup {None}
  BY Names DEF TableInv, NilInv
<1>2. bag' \in Bag
  BY NoBagType DEF Reset
<1>3. /\ ext' = ext /\ content' = content /\ system' = system /\ detected' = detected
      /\ hadErrors' = hadErrors /\ touched' = touched
  BY DEF diskVars
<1> QED
  BY <1>1, <1>2, <1>3 DEF TypeOK, Reset

\* The extents after a part of f, at most, was shared.
LEMMA MovedType ==
  ASSUME TypeOK, NEW f \in Files, NEW e \in Moved(f)
  PROVE  e \in [Files -> Extent \cup {None}] /\ \A x \in Files \ {f} : e[x] = ext[x]
BY DEF TypeOK, Moved

\* While Dedup works on a bag, the leader and what is left are files of it.
LEMMA WorkType ==
  ASSUME TypeOK, WorkInv, pc \in {"files", "merge"}
  PROVE  /\ bag \in Bag /\ leader \in DOMAIN bag.merged /\ left \subseteq DOMAIN bag.merged
         /\ leader \in Files
BY BagFields DEF WorkInv, TypeOK

\* Every variable keeps its type.
LEMMA TypeNext ==
  ASSUME TypeOK, WorkInv, TableInv', NilInv',
         logQ' \in Seq({"msg", "nil"}), Len(logQ') <= LogCap, [Next]_vars
  PROVE  TypeOK'
<1> USE Names DEF TypeOK
<1>0. /\ gen' \in 0..MaxRuns /\ txGen' \in 0..MaxRuns
      /\ \A h \in Hashes : bags'[h] \in Bag \cup {None} /\ txBags'[h] \in Bag \cup {None}
      /\ pc' \notin {"idle", "sent"} => handler' # "done"
  BY Names DEF TableInv, NilInv
<1>1. ASSUME NEW cmd \in {"collect", "dedup"}, NEW hs \in SUBSET Hashes, Start(cmd, hs)
      PROVE  TypeOK'
  <2>1. /\ given' = hs /\ todo' = hs /\ pc' \in {"collect", "dedup"}
        /\ handler' = "run" /\ hadErrors' = FALSE /\ doAbort' = FALSE /\ abortChan' = 0
        /\ UNCHANGED <<diskVars, hash, left, bag, leader, detected>> /\ fresh' = {}
    BY <1>1 DEF Start, dbVars
  <2>2. /\ fresh' \subseteq Files /\ touched' \subseteq Files
        /\ ext' \in [Files -> Extent \cup {None}]
        /\ content' \in [Files -> Contents \cup {"indexed"}] /\ system' \in Systems
    BY <2>1 DEF diskVars
  <2>3. /\ given' \subseteq Hashes /\ todo' \subseteq given' /\ detected' \subseteq Hashes
        /\ left' \subseteq Files /\ bag' \in Bag
        /\ hash' \in Hashes \cup {None} /\ leader' \in Files \cup {None}
    <3>1. hs \subseteq Hashes
      BY <1>1
    <3> QED
      BY <2>1, <3>1
  <2>4. /\ pc' \in {"idle", "collect", "detect", "extents", "dedup", "files", "merge", "result",
                   "sent"}
        /\ handler' \in {"run", "send", "done"} /\ abortChan' \in 0..1
    BY <2>1
  <2>5. doAbort' \in BOOLEAN /\ hadErrors' \in BOOLEAN
    BY <2>1, Zenon
  <2> QED
    BY <1>0, <2>2, <2>3, <2>4, <2>5
<1>2. CASE Collect
  BY <1>2, <1>0 DEF Collect, Log, Rollback, diskVars, dbVars, txVars, jobVars, handlerVars,
                    bounds
<1>3. CASE DetectFile
  BY <1>3, <1>0 DEF DetectFile, Log, diskVars, dbVars, txVars, jobVars, handlerVars, bounds
<1>4. CASE DetectBag
  BY <1>4, <1>0 DEF DetectBag, diskVars, dbVars, txVars, jobVars, handlerVars, bounds
<1>5. CASE DetectEnd
  BY <1>5, <1>0 DEF DetectEnd, Commit, Rollback, diskVars, dbVars, txVars, jobVars,
                    handlerVars, bounds
<1>6. CASE DedupFile
  BY <1>6, <1>0 DEF DedupFile, Log, Rollback, diskVars, dbVars, txVars, jobVars, handlerVars,
                    bounds
<1>7. CASE DedupEnd
  BY <1>7, <1>0 DEF DedupEnd, Commit, Rollback, diskVars, dbVars, txVars, jobVars, handlerVars,
                    bounds
<1>8. CASE SendNil
  BY <1>8, <1>0 DEF SendNil, Log, diskVars, dbVars, txVars, jobVars, handlerVars, bounds
<1>9. CASE HandleLog
  BY <1>9, <1>0 DEF HandleLog, diskVars, dbVars, txVars, jobVars, handlerVars, bounds
<1>10. CASE HandleSend
  BY <1>10, <1>0 DEF HandleSend, Log, diskVars, dbVars, txVars, jobVars, handlerVars, bounds
<1>11. CASE Interrupt
  BY <1>11, <1>0 DEF Interrupt, Stop, diskVars, dbVars, txVars, jobVars, handlerVars, bounds
<1>12. CASE DetectHash
  <2>1. CASE Rollback
    BY <1>0, <2>1 DEF Rollback, diskVars, dbVars, txVars, jobVars, handlerVars, bounds
  <2>2. CASE pc' = "extents"
    <3>1. UNCHANGED <<diskVars, given, bag, leader, fresh, hadErrors, handlerVars, detected>>
      BY <1>12, <2>2 DEF DetectHash, Rollback, dbVars
    <3>2. todo' \subseteq todo /\ hash' \in Hashes /\ left' \subseteq Files
      BY <1>12, <2>2 DEF DetectHash, Rollback, Candidates
    <3> QED
      BY <1>0, <2>2, <3>1, <3>2 DEF diskVars, handlerVars
  <2> QED
    BY <1>12, <2>1, <2>2 DEF DetectHash
<1>13. CASE DedupHash
  <2>1. CASE Rollback
    BY <1>0, <2>1 DEF Rollback, diskVars, dbVars, txVars, jobVars, handlerVars, bounds
  <2>2. CASE pc' = "files"
    <3>1. PICK h \in {x \in todo : txBags[x] # None} : \E f \in Leaders(txBags[h]) :
            /\ todo' = todo \ {h} /\ hash' = h /\ bag' = txBags[h] /\ leader' = f
            /\ left' = {x \in DOMAIN bag'.merged \ {f} : ~bag'.merged[x]}
      BY <1>13, <2>2 DEF DedupHash, Rollback
    <3>2. h \in Hashes /\ txBags[h] \in Bag /\ DOMAIN txBags[h].merged \subseteq Files
      BY <3>1, BagFields
    <3>3. bag' \in Bag /\ left' \subseteq Files /\ leader' \in Files
      BY <3>1, <3>2 DEF Leaders
    <3>4. UNCHANGED <<diskVars, given, fresh, hadErrors, handlerVars, detected>>
      BY <1>13, <2>2 DEF DedupHash, Rollback, dbVars
    <3> QED
      BY <1>0, <2>2, <3>1, <3>2, <3>3, <3>4 DEF diskVars, handlerVars
  <2> QED
    BY <1>13, <2>1, <2>2 DEF DedupHash
<1>14. CASE DedupMerge
  <2>1. /\ UNCHANGED <<content, system, given, todo, hash, leader, fresh, handlerVars, detected>>
        /\ pc' \in {"result", "files"} /\ left' \subseteq left /\ hadErrors' \in BOOLEAN
        /\ touched' \subseteq touched
    BY <1>14 DEF DedupMerge, dbVars
  <2>2. ext' \in [Files -> Extent \cup {None}]
    <3>1. CASE ext' = ext
      BY <3>1
    <3>2. ASSUME NEW f \in left, ext' \in Moved(f)
          PROVE  ext' \in [Files -> Extent \cup {None}]
      BY <3>2, MovedType
    <3>3. ASSUME NEW f \in left, ext' \in SharedWith(f), Begins(f)
          PROVE  ext' \in [Files -> Extent \cup {None}]
      BY <3>2, <3>3, WorkType, <1>14 DEF DedupMerge, SharedWith
    <3> QED
      BY <1>14, <3>1, <3>2, <3>3 DEF DedupMerge
  <2>3. bag' \in Bag
    BY <1>14, MergedFields, WorkType DEF DedupMerge
  <2> QED
    BY <1>0, <2>1, <2>2, <2>3 DEF handlerVars
<1>15. CASE DedupBag
  BY <1>15, <1>0 DEF DedupBag, diskVars, dbVars, txVars, jobVars, handlerVars, bounds
<1>16. CASE HandleAbort
  <2>1. CASE Reset
    BY <1>16, <2>1, ResetType DEF HandleAbort, dbVars
  <2>2. CASE handler' = "send"
    BY <1>16, <1>0, <2>2 DEF HandleAbort, Reset, diskVars, dbVars, txVars, jobVars,
                             handlerVars, bounds
  <2> QED
    BY <1>16, <2>1, <2>2 DEF HandleAbort
<1>17. CASE Exit
  BY <1>17, ResetType DEF Exit, dbVars
<1>18. CASE Kill
  BY <1>18, ResetType DEF Kill, dbVars
<1>19. ASSUME NEW f \in Files, Rewrite(f)
      PROVE  TypeOK'
  <2>1. /\ UNCHANGED <<system, detected, pc, txVars, given, todo, hash, left, bag, leader,
                       hadErrors, handlerVars>>
        /\ touched' = touched \cup {f} /\ fresh' = fresh \ {f}
        /\ f \in Files /\ ext' \in {[ext EXCEPT ![f] = e] : e \in Extent \cup {None}}
        /\ content' \in {content} \cup {[content EXCEPT ![f] = c] : c \in Contents}
    BY <1>19 DEF Rewrite, dbVars
  <2>2. ext' \in [Files -> Extent \cup {None}] /\ content' \in [Files -> Contents \cup {"indexed"}]
    BY <2>1
  <2> QED
    BY <1>0, <2>1, <2>2 DEF handlerVars
<1>20. CASE UNCHANGED vars
  BY <1>20, <1>0 DEF vars, diskVars, dbVars, txVars, jobVars, handlerVars, bounds
<1> QED
  BY <1>1, <1>2, <1>3, <1>4, <1>5, <1>6, <1>7, <1>8, <1>9, <1>10, <1>11, <1>12,
     <1>13, <1>14, <1>15, <1>16, <1>17, <1>18, <1>19, <1>20, StartStep
     DEF Next, Job, Handler, Idle

\* Every step keeps the order of the generations.
LEMMA GenNext ==
  ASSUME TypeOK, TableInv, WorkInv, GenInv, [Next]_vars
  PROVE  GenInv'
<1> USE Names DEF GenInv, Detecting, Merging
<1>0. /\ gen \in Nat /\ txGen \in Nat
      /\ \A h \in Hashes : txBags[h] # None => txBags[h].gen \in Nat
  <2>1. \A h \in Hashes : txBags[h] # None => txBags[h] \in Bag
    BY DEF TypeOK
  <2> QED
    BY <2>1, BagFields DEF TypeOK
<1>1. ASSUME NEW cmd \in {"collect", "dedup"}, NEW hs \in SUBSET Hashes, Start(cmd, hs)
      PROVE  GenInv'
  BY <1>1 DEF Start, NextGen, dbVars, Stored
<1>2. CASE Collect
  BY <1>2 DEF Collect, Log, Rollback, Stored, diskVars, dbVars, txVars, jobVars, handlerVars,
              bounds
<1>3. CASE DetectHash
  <2>1. CASE Rollback
    BY <1>3, <2>1 DEF DetectHash, Rollback, Stored, dbVars, txVars, jobVars
  <2>2. CASE pc' = "extents"
    <3>1. PICK h \in todo : todo' = todo \ {h} /\ hash' = h
      BY <1>3, <2>2 DEF DetectHash, Rollback
    <3>2. pc = "detect" /\ UNCHANGED <<gen, bags, txGen, txBags, given>>
      BY <1>3, <2>2 DEF DetectHash, Rollback, dbVars, txVars
    <3> QED
      BY <2>2, <3>1, <3>2 DEF Stored, TypeOK
  <2> QED
    BY <1>3, <2>1, <2>2 DEF DetectHash
<1>4. CASE DetectFile
  BY <1>4 DEF DetectFile, Log, Stored, diskVars, dbVars, txVars, jobVars, handlerVars, bounds
<1>5. CASE DedupFile
  BY <1>5 DEF DedupFile, Log, Rollback, Stored, diskVars, dbVars, txVars, jobVars, handlerVars,
              bounds
<1>6. CASE DedupBag
  BY <1>6 DEF DedupBag, Stored, diskVars, dbVars, txVars, jobVars, handlerVars, bounds
<1>7. CASE DedupEnd
  BY <1>7 DEF DedupEnd, Commit, Rollback, Stored, diskVars, dbVars, txVars, jobVars,
              handlerVars, bounds
<1>8. CASE SendNil
  BY <1>8 DEF SendNil, Log, Stored, diskVars, dbVars, txVars, jobVars, handlerVars, bounds
<1>9. CASE HandleLog
  BY <1>9 DEF HandleLog, Stored, diskVars, dbVars, txVars, jobVars, handlerVars, bounds
<1>10. CASE HandleSend
  BY <1>10 DEF HandleSend, Log, Stored, diskVars, dbVars, txVars, jobVars, handlerVars, bounds
<1>11. CASE Exit
  BY <1>11 DEF Exit, Reset, Stored, diskVars, dbVars, txVars, jobVars, handlerVars, bounds
<1>12. CASE Interrupt
  BY <1>12 DEF Interrupt, Stop, Stored, diskVars, dbVars, txVars, jobVars, handlerVars, bounds
<1>13. CASE Kill
  BY <1>13 DEF Kill, Reset, Stop, Stored, diskVars, dbVars, txVars, jobVars, handlerVars, bounds
<1>14. CASE DetectBag
  <2>1. hash \in Hashes /\ hash \in given
    BY <1>14 DEF DetectBag, TypeOK
  <2>2. PICK b : txBags' = [txBags EXCEPT ![hash] = b] /\ (b = None \/ b.gen = txGen)
    BY <1>14 DEF DetectBag
  <2>3. /\ pc = "extents" /\ pc' = "detect"
        /\ UNCHANGED <<gen, bags, txGen, given>>
    BY <1>14 DEF DetectBag, dbVars, jobVars
  <2>4. \A h \in Hashes : txBags'[h] = IF h = hash THEN b ELSE txBags[h]
    BY <2>2 DEF TableInv
  <2> QED
    BY <2>1, <2>2, <2>3, <2>4 DEF Stored
<1>15. CASE DetectEnd
  <2>1. CASE Rollback
    BY <1>15, <2>1 DEF DetectEnd, Rollback, Stored, diskVars, dbVars, txVars, jobVars,
                       handlerVars, bounds
  <2>2. CASE pc' = "result" /\ gen' = txGen /\ bags' = [h \in Hashes |->
          IF txBags[h] # None /\ txBags[h].gen = txGen THEN txBags[h] ELSE None]
    BY <1>15, <2>2, <1>0 DEF DetectEnd, Stored
  <2> QED
    BY <1>15, <2>1, <2>2 DEF DetectEnd, Commit
<1>16. CASE DedupHash
  <2>1. CASE Rollback
    BY <1>16, <2>1 DEF DedupHash, Rollback, Stored, diskVars, dbVars, txVars, jobVars,
                       handlerVars, bounds
  <2>2. CASE pc' = "files"
    <3>1. PICK h \in todo : txBags[h] # None /\ todo' = todo \ {h} /\ hash' = h /\ bag' = txBags[h]
      BY <1>16, <2>2 DEF DedupHash, Rollback
    <3>2. h \in given /\ h \in Hashes
      BY <3>1 DEF TypeOK
    <3>3. pc = "dedup" /\ UNCHANGED <<gen, bags, txGen, txBags, given>>
      BY <1>16, <2>2 DEF DedupHash, Rollback, dbVars, txVars
    <3> QED
      BY <2>2, <3>1, <3>2, <3>3 DEF Stored
  <2> QED
    BY <1>16, <2>1, <2>2 DEF DedupHash
<1>17. CASE DedupMerge
  <2>1. /\ UNCHANGED <<dbVars, txVars, given, todo, hash>> /\ pc = "merge"
        /\ pc' \in {"result", "files"}
    BY <1>17 DEF DedupMerge
  <2>2. bag'.gen = bag.gen
    <3>1. bag' = bag \/ \E f \in left : bag' = Merged(bag, f)
      BY <1>17 DEF DedupMerge
    <3> QED
      BY <2>1, <3>1, WorkType, MergedFields
  <2> QED
    BY <2>1, <2>2 DEF Stored, dbVars, txVars
<1>18. CASE HandleAbort
  <2>1. CASE Reset
    BY <1>18, <2>1 DEF HandleAbort, Reset, Stored, dbVars
  <2>2. CASE UNCHANGED <<pc, txVars, jobVars>>
    BY <1>18, <2>2 DEF HandleAbort, Stored, dbVars, txVars, jobVars
  <2> QED
    BY <1>18, <2>1, <2>2 DEF HandleAbort
<1>19. ASSUME NEW f \in Files, Rewrite(f)
      PROVE  GenInv'
  BY <1>19 DEF Rewrite, Stored, diskVars, dbVars, txVars, jobVars, handlerVars, bounds
<1>20. CASE UNCHANGED vars
  BY <1>20 DEF vars, Stored, diskVars, dbVars, txVars, jobVars, handlerVars, bounds
<1> QED
  BY <1>1, <1>2, <1>3, <1>4, <1>5, <1>6, <1>7, <1>8, <1>9, <1>10, <1>11, <1>12,
     <1>13, <1>14, <1>15, <1>16, <1>17, <1>18, <1>19, <1>20, StartStep
     DEF Next, Job, Handler, Idle

\* A set of several files has another one for each of them.
LEMMA AnotherFile ==
  ASSUME NEW F \in SUBSET Files, Cardinality(F) >= 2
  PROVE  \A f \in F : \E g \in F : g # f
<1> SUFFICES ASSUME NEW f \in F, \A g \in F : g = f
             PROVE  FALSE
  OBVIOUS
<1>1. F = {} \cup {f} /\ {} \in SUBSET Files /\ f \in Files \ {}
  OBVIOUS
<1>2. Cardinality({} \cup {f}) = Cardinality({}) + 1
  BY <1>1, FileCount
<1> QED
  BY <1>1, <1>2, FS_EmptySet

\* What DetectBag stores is a bag of the hash.
LEMMA FoundBag ==
  ASSUME NEW h \in Hashes, DOMAIN found \subseteq Candidates(h), Cardinality(DOMAIN found) >= 2,
         NEW g \in Largest, NEW n, NEW e
  PROVE  LET b == [gen |-> n, merged |-> [f \in DOMAIN found |-> f \in g],
                   shared |-> Cardinality(g), exclusive |-> e]
         IN  BagOf(b, h) /\ MergedFiles(b) = g
<1>1. DOMAIN found \subseteq Files
  BY DEF Candidates
<1>2. g \subseteq DOMAIN found /\ \A f \in DOMAIN found : \E x \in DOMAIN found : x # f
  BY <1>1, GroupFacts, AnotherFile
<1> QED
  BY <1>2 DEF BagOf, MergedFiles

\* What Dedup makes of the bag at work is a bag of the hash.
LEMMA MergedBag ==
  ASSUME NEW b \in Bag, NEW h \in Hashes, BagOf(b, h), NEW f \in DOMAIN b.merged,
         leader \in DOMAIN b.merged, f \notin MergedFiles(b), f # leader
  PROVE  BagOf(Merged(b, f), h)
<1> DEFINE M == MergedFiles(b)
<1>1. /\ Merged(b, f) \in Bag /\ DOMAIN Merged(b, f).merged = DOMAIN b.merged
      /\ MergedFiles(Merged(b, f)) = M \cup {leader, f}
      /\ Merged(b, f).shared = (b.shared + (IF b.merged[leader] THEN 1 ELSE 2)) % Word
  BY MergedFields
<1>2. M \in SUBSET Files /\ M \cup {leader} \in SUBSET Files /\ M \cup {leader, f} \in SUBSET Files
      /\ f \in Files \ (M \cup {leader}) /\ leader \in Files
  BY BagFields
<1>3. Cardinality((M \cup {leader}) \cup {f}) = Cardinality(M \cup {leader}) + 1
  BY <1>2, FileCount
<1>4. b.merged[leader] => M \cup {leader} = M
  BY DEF MergedFiles
<1>5. ~b.merged[leader] => Cardinality(M \cup {leader}) = Cardinality(M) + 1
  <2>1. ~b.merged[leader] => leader \in Files \ M
    BY <1>2 DEF MergedFiles
  <2> QED
    BY <1>2, <2>1, FileCount
<1>6. (M \cup {leader}) \cup {f} = M \cup {leader, f} /\ b.shared = Cardinality(M)
  BY DEF BagOf
<1>7. Cardinality(M) \in Nat /\ Cardinality(M \cup {leader, f}) \in 0..(Word - 1)
  BY <1>2, FileCount
<1>8. b.shared + (IF b.merged[leader] THEN 1 ELSE 2) = Cardinality(M \cup {leader, f})
  BY <1>3, <1>4, <1>5, <1>6, <1>7
<1>9. Merged(b, f).shared = Cardinality(M \cup {leader, f})
  BY <1>1, <1>7, <1>8, WordMod, Names
<1> QED
  BY <1>1, <1>9 DEF BagOf

\* Every step keeps the bags of their hash.
LEMMA BagNext ==
  ASSUME TypeOK, TableInv, WorkInv, GenInv, BagInv, [Next]_vars
  PROVE  BagInv'
<1> USE Names DEF BagInv
<1>1. ASSUME NEW cmd \in {"collect", "dedup"}, NEW hs \in SUBSET Hashes, Start(cmd, hs)
      PROVE  BagInv'
  BY <1>1 DEF Start, dbVars
<1>2. CASE Collect \/ DetectHash
  BY <1>2 DEF Collect, DetectHash, Log, Rollback, diskVars, dbVars, txVars, jobVars,
              handlerVars, bounds
<1>3. CASE DetectFile \/ DetectEnd
  BY <1>3 DEF DetectFile, DetectEnd, Commit, Log, Rollback, diskVars, dbVars, txVars, jobVars,
              handlerVars, bounds
<1>4. CASE DedupHash \/ DedupFile
  BY <1>4 DEF DedupHash, DedupFile, Log, Rollback, diskVars, dbVars, txVars, jobVars,
              handlerVars, bounds
<1>5. CASE DedupMerge \/ DedupEnd
  BY <1>5 DEF DedupMerge, DedupEnd, Commit, Log, Rollback, diskVars, dbVars, txVars, jobVars,
              handlerVars, bounds
<1>6. CASE SendNil \/ HandleLog
  BY <1>6 DEF SendNil, HandleLog, Log, diskVars, dbVars, txVars, jobVars, handlerVars, bounds
<1>7. CASE HandleSend \/ Interrupt
  BY <1>7 DEF HandleSend, Interrupt, Log, Stop, diskVars, dbVars, txVars, jobVars, handlerVars,
              bounds
<1>8. CASE DetectBag
  <2>1. hash \in Hashes /\ DOMAIN found \subseteq Candidates(hash)
    BY <1>8 DEF DetectBag, TypeOK, GenInv, WorkInv
  <2>2. PICK b : txBags' = [txBags EXCEPT ![hash] = b] /\ (b = None \/ BagOf(b, hash))
    <3>1. CASE Cardinality(DOMAIN found) >= 2
      BY <1>8, <2>1, <3>1, FoundBag DEF DetectBag
    <3>2. CASE txBags' = [txBags EXCEPT ![hash] = None]
      BY <3>2
    <3> QED
      BY <1>8, <3>1, <3>2 DEF DetectBag
  <2>3. bags' = bags /\ \A h \in Hashes : txBags'[h] = IF h = hash THEN b ELSE txBags[h]
    BY <1>8, <2>2 DEF DetectBag, dbVars, TableInv
  <2> QED
    BY <2>2, <2>3
<1>9. CASE DedupBag
  <2>1. bags' = bags /\ BagOf(bag, hash)
        /\ \A h \in Hashes : txBags'[h] = IF h = hash THEN bag ELSE txBags[h]
    BY <1>9 DEF DedupBag, dbVars, TableInv, WorkInv
  <2> QED
    BY <2>1
<1>10. CASE HandleAbort
  <2>1. CASE Reset
    BY <1>10, <2>1 DEF HandleAbort, Reset, NoBags, dbVars
  <2>2. CASE UNCHANGED <<pc, txVars, jobVars>>
    BY <1>10, <2>2 DEF HandleAbort, dbVars, txVars
  <2> QED
    BY <1>10, <2>1, <2>2 DEF HandleAbort
<1>11. CASE Exit
  BY <1>11 DEF Exit, Reset, NoBags, dbVars
<1>12. CASE Kill
  BY <1>12 DEF Kill, Reset, NoBags, dbVars
<1>13. ASSUME NEW f \in Files, Rewrite(f)
      PROVE  BagInv'
  BY <1>13 DEF Rewrite, diskVars, dbVars, txVars, jobVars, handlerVars, bounds
<1>14. CASE UNCHANGED vars
  BY <1>14 DEF vars, diskVars, dbVars, txVars, jobVars, handlerVars, bounds
<1> QED
  BY <1>1, <1>2, <1>3, <1>4, <1>5, <1>6, <1>7, <1>8, <1>9, <1>10, <1>11, <1>12,
     <1>13, <1>14, StartStep
     DEF Next, Job, Handler, Idle

\* Every step keeps the bag at work in order.
LEMMA WorkNext ==
  ASSUME TypeOK, GenInv, BagInv, WorkInv, [Next]_vars
  PROVE  WorkInv'
<1> USE Names DEF WorkInv
<1>1. ASSUME NEW cmd \in {"collect", "dedup"}, NEW hs \in SUBSET Hashes, Start(cmd, hs)
      PROVE  WorkInv'
  BY <1>1 DEF Start
<1>2. CASE Collect \/ DetectBag
  BY <1>2 DEF Collect, DetectBag, Log, Rollback, diskVars, dbVars, txVars, jobVars,
              handlerVars, bounds
<1>3. CASE DetectEnd \/ DedupFile
  BY <1>3 DEF DetectEnd, DedupFile, Commit, Log, Rollback, diskVars, dbVars, txVars, jobVars,
              handlerVars, bounds
<1>4. CASE DedupBag \/ DedupEnd
  BY <1>4 DEF DedupBag, DedupEnd, Commit, Rollback, diskVars, dbVars, txVars, jobVars,
              handlerVars, bounds
<1>5. CASE SendNil \/ HandleLog
  BY <1>5 DEF SendNil, HandleLog, Log, diskVars, dbVars, txVars, jobVars, handlerVars, bounds
<1>6. CASE HandleSend \/ Interrupt
  BY <1>6 DEF HandleSend, Interrupt, Log, Stop, diskVars, dbVars, txVars, jobVars, handlerVars,
              bounds
<1>7. CASE DetectHash
  <2>1. CASE Rollback
    BY <1>7, <2>1 DEF Rollback
  <2>2. CASE pc' = "extents"
    BY <1>7, <2>2 DEF DetectHash, Rollback, NoExtents
  <2> QED
    BY <1>7, <2>1, <2>2 DEF DetectHash
<1>8. CASE DetectFile
  <2>1. PICK f \in left : left' = left \ {f} /\ DOMAIN found' \subseteq DOMAIN found \cup {f}
    BY <1>8 DEF DetectFile
  <2>2. pc = "extents" /\ pc' = "extents" /\ hash' = hash
    BY <1>8 DEF DetectFile
  <2> QED
    BY <2>1, <2>2
<1>9. CASE DedupHash
  <2>1. CASE Rollback
    BY <1>9, <2>1 DEF Rollback
  <2>2. CASE pc' = "files"
    <3>0. PICK h \in {x \in todo : txBags[x] # None} : \E f \in Leaders(txBags[h]) :
            /\ hash' = h /\ bag' = txBags[h] /\ leader' = f
            /\ left' = {x \in DOMAIN bag'.merged \ {f} : ~bag'.merged[x]}
      BY <1>9, <2>2 DEF DedupHash, Rollback
    <3>1. PICK f \in Leaders(txBags[h]) :
            /\ hash' = h /\ bag' = txBags[h] /\ leader' = f
            /\ left' = {x \in DOMAIN bag'.merged \ {f} : ~bag'.merged[x]}
      BY <3>0
    <3>2. BagOf(bag', hash')
      BY <3>1 DEF BagInv, TypeOK
    <3>3. /\ leader' \in DOMAIN bag'.merged
          /\ leader' \in MergedFiles(bag') \/ MergedFiles(bag') = {}
      BY <3>1 DEF Leaders, MergedFiles
    <3>4. left' \subseteq DOMAIN bag'.merged \ (MergedFiles(bag') \cup {leader'})
      BY <3>1 DEF MergedFiles
    <3> QED
      BY <2>2, <3>2, <3>3, <3>4
  <2> QED
    BY <1>9, <2>1, <2>2 DEF DedupHash
<1>10. CASE DedupMerge
  <2>1. /\ hash' = hash /\ leader' = leader /\ pc = "merge" /\ pc' \in {"result", "files"}
        /\ hash \in Hashes
    BY <1>10 DEF DedupMerge, GenInv, TypeOK
  <2>2. CASE bag' = bag /\ left' \subseteq left
    BY <2>1, <2>2
  <2>3. ASSUME NEW f \in left, left' = left \ {f}, bag' = Merged(bag, f)
        PROVE  WorkInv'
    <3>1. bag \in Bag /\ f \in DOMAIN bag.merged /\ f \notin MergedFiles(bag) /\ f # leader
      BY <2>1, <2>3, WorkType
    <3>2. BagOf(bag', hash)
      BY <2>1, <2>3, <3>1, MergedBag
    <3>3. DOMAIN bag'.merged = DOMAIN bag.merged
          /\ MergedFiles(bag') = MergedFiles(bag) \cup {leader, f}
      BY <2>1, <2>3, <3>1, MergedFields
    <3> QED
      BY <2>1, <2>3, <3>2, <3>3
  <2> QED
    BY <1>10, <2>2, <2>3 DEF DedupMerge
<1>11. CASE HandleAbort
  <2>1. CASE Reset
    BY <2>1 DEF Reset
  <2>2. CASE UNCHANGED <<pc, txVars, jobVars>>
    BY <2>2 DEF jobVars
  <2> QED
    BY <1>11, <2>1, <2>2 DEF HandleAbort
<1>12. CASE Exit
  BY <1>12 DEF Exit, Reset
<1>13. CASE Kill
  BY <1>13 DEF Kill, Reset
<1>14. ASSUME NEW f \in Files, Rewrite(f)
      PROVE  WorkInv'
  BY <1>14 DEF Rewrite, diskVars, dbVars, txVars, jobVars, handlerVars, bounds
<1>15. CASE UNCHANGED vars
  BY <1>15 DEF vars, diskVars, dbVars, txVars, jobVars, handlerVars, bounds
<1> QED
  BY <1>1, <1>2, <1>3, <1>4, <1>5, <1>6, <1>7, <1>8, <1>9, <1>10, <1>11, <1>12,
     <1>13, <1>14, <1>15, StartStep
     DEF Next, Job, Handler, Idle

\* Every step keeps what a run without errors has merged.
LEMMA MergedNext ==
  ASSUME TypeOK, TableInv, GenInv, BagInv, WorkInv, MergedInv, [Next]_vars
  PROVE  MergedInv'
<1> USE Names DEF MergedInv, Detecting, Merging
<1>1. ASSUME NEW cmd \in {"collect", "dedup"}, NEW hs \in SUBSET Hashes, Start(cmd, hs)
      PROVE  MergedInv'
  BY <1>1 DEF Start
<1>2. CASE DetectFile
  BY <1>2 DEF DetectFile, Log, diskVars, dbVars, txVars, jobVars, handlerVars, bounds
<1>3. CASE DetectBag
  BY <1>3 DEF DetectBag, diskVars, dbVars, txVars, jobVars, handlerVars, bounds
<1>4. CASE DedupFile
  <2>1. CASE Rollback
    BY <1>4, <2>1 DEF DedupFile, Rollback
  <2>2. CASE pc' = "merge"
    <3>1. pc = "files" /\ UNCHANGED <<txBags, given, todo, hash, left, bag, leader, hadErrors>>
      BY <1>4, <2>2 DEF DedupFile, Rollback, txVars, jobVars
    <3> QED
      BY <2>2, <3>1
  <2> QED
    BY <1>4, <2>1, <2>2 DEF DedupFile
<1>5. CASE SendNil
  BY <1>5 DEF SendNil, Log, diskVars, dbVars, txVars, jobVars, handlerVars, bounds
<1>6. CASE HandleLog
  BY <1>6 DEF HandleLog, diskVars, dbVars, txVars, jobVars, handlerVars, bounds
<1>7. CASE HandleSend
  BY <1>7 DEF HandleSend, Log, diskVars, dbVars, txVars, jobVars, handlerVars, bounds
<1>8. CASE Interrupt
  BY <1>8 DEF Interrupt, Stop, diskVars, dbVars, txVars, jobVars, handlerVars, bounds
<1>9. CASE Collect
  BY <1>9 DEF Collect, Rollback, Log, jobVars
<1>10. CASE DetectHash
  BY <1>10 DEF DetectHash, Rollback, jobVars
<1>11. CASE DetectEnd
  BY <1>11 DEF DetectEnd, Commit, Rollback, jobVars
<1>12. CASE DedupHash
  <2>1. CASE Rollback
    BY <1>12, <2>1 DEF Rollback
  <2>2. CASE pc' = "files"
    <3>1. PICK h \in {x \in todo : txBags[x] # None} : \E f \in Leaders(txBags[h]) :
            /\ todo' = todo \ {h} /\ hash' = h /\ bag' = txBags[h] /\ leader' = f
            /\ left' = {x \in DOMAIN bag'.merged \ {f} : ~bag'.merged[x]}
      BY <1>12, <2>2 DEF DedupHash, Rollback
    <3>2. /\ todo' = todo \ {h} /\ hash' = h /\ leader' \in Leaders(bag')
          /\ left' = {x \in DOMAIN bag'.merged \ {leader'} : ~bag'.merged[x]}
      BY <3>1
    <3>3. BagOf(bag', h)
      BY <3>1 DEF BagInv, TypeOK
    <3>4. \A f \in DOMAIN bag'.merged :
            f \in MergedFiles(bag') \cup left' \/ (f = leader' /\ left' # {})
      <4> TAKE f \in DOMAIN bag'.merged
      <4>1. CASE f # leader'
        BY <3>2, <4>1 DEF MergedFiles
      <4>2. CASE f = leader' /\ f \notin MergedFiles(bag')
        <5>1. MergedFiles(bag') = {}
          BY <3>2, <4>2 DEF Leaders, MergedFiles
        <5>2. PICK g \in DOMAIN bag'.merged : g # f
          BY <3>3 DEF BagOf
        <5>3. g \in left'
          BY <3>2, <4>2, <5>1, <5>2 DEF MergedFiles
        <5> QED
          BY <4>2, <5>3
      <4> QED
        BY <4>1, <4>2
    <3>5. pc = "dedup" /\ UNCHANGED <<given, txBags, hadErrors>>
      BY <1>12, <2>2 DEF DedupHash, Rollback, txVars
    <3> QED
      BY <2>2, <3>2, <3>4, <3>5
  <2> QED
    BY <1>12, <2>1, <2>2 DEF DedupHash
<1>13. CASE DedupMerge
  <2>1. /\ pc = "merge" /\ UNCHANGED <<given, todo, hash, leader, txBags>>
        /\ pc' = "result" => hadErrors' = TRUE
        /\ pc' \in {"result", "files"}
    BY <1>13 DEF DedupMerge, txVars
  <2>2. CASE hadErrors' = TRUE
    BY <2>1, <2>2
  <2>3. ASSUME NEW f \in left, left' = left \ {f}, bag' = Merged(bag, f),
               hadErrors' = hadErrors, pc' = "files"
        PROVE  MergedInv'
    <3>1. bag \in Bag /\ f \in DOMAIN bag.merged /\ leader \in DOMAIN bag.merged
      BY <2>1, <2>3, WorkType
    <3>2. DOMAIN bag'.merged = DOMAIN bag.merged
          /\ MergedFiles(bag') = MergedFiles(bag) \cup {leader, f}
      BY <2>3, <3>1, MergedFields
    <3>3. ~hadErrors => \A x \in DOMAIN bag'.merged :
            x \in MergedFiles(bag') \cup left' \/ (x = leader' /\ left' # {})
      BY <2>1, <2>3, <3>2
    <3> QED
      BY <2>1, <2>3, <3>3
  <2> QED
    BY <1>13, <2>2, <2>3 DEF DedupMerge
<1>14. CASE DedupBag
  <2>1. /\ pc = "files" /\ pc' = "dedup" /\ left = {} /\ hash \in Hashes
        /\ UNCHANGED <<given, todo, hadErrors>>
        /\ \A h \in Hashes : txBags'[h] = IF h = hash THEN bag ELSE txBags[h]
    BY <1>14 DEF DedupBag, TableInv, GenInv, TypeOK, jobVars
  <2>2. ~hadErrors => FullyMerged(bag)
    BY <2>1 DEF FullyMerged, MergedFiles
  <2>3. given \subseteq Hashes
    BY DEF TypeOK
  <2> QED
    BY <2>1, <2>2, <2>3
<1>15. CASE DedupEnd
  <2>1. CASE Rollback
    BY <2>1, <1>15 DEF DedupEnd, Rollback
  <2>2. CASE pc' = "result" /\ bags' = txBags /\ UNCHANGED <<jobVars, hadErrors>>
    BY <2>2, <1>15 DEF DedupEnd, jobVars
  <2> QED
    BY <1>15, <2>1, <2>2 DEF DedupEnd, Commit
<1>16. CASE HandleAbort
  <2>1. CASE Reset
    BY <2>1 DEF Reset
  <2>2. CASE UNCHANGED <<pc, txVars, jobVars>>
    BY <1>16, <2>2 DEF HandleAbort, jobVars, txVars, dbVars
  <2> QED
    BY <1>16, <2>1, <2>2 DEF HandleAbort
<1>17. CASE Exit
  BY <1>17 DEF Exit, Reset
<1>18. CASE Kill
  BY <1>18 DEF Kill, Reset
<1>19. ASSUME NEW f \in Files, Rewrite(f)
      PROVE  MergedInv'
  BY <1>19 DEF Rewrite, diskVars, dbVars, txVars, jobVars, handlerVars, bounds
<1>20. CASE UNCHANGED vars
  BY <1>20 DEF vars, diskVars, dbVars, txVars, jobVars, handlerVars, bounds
<1> QED
  BY <1>1, <1>2, <1>3, <1>4, <1>5, <1>6, <1>7, <1>8, <1>9, <1>10, <1>11, <1>12,
     <1>13, <1>14, <1>15, <1>16, <1>17, <1>18, <1>19, <1>20, StartStep
     DEF Next, Job, Handler, Idle

\* What does not touch the bags, nor the files, keeps what they share.
LEMMA ShareFrame ==
  ASSUME ShareInv, UNCHANGED <<ext, content, touched, fresh, bags, txBags, txGen, found, bag, hash, todo>>,
         pc' \in Detecting => pc \in Detecting, pc' = "extents" <=> pc = "extents",
         pc' \in Merging => pc \in Merging,
         pc' \in {"files", "merge"} => pc \in {"files", "merge"}
  PROVE  ShareInv'
<1>1. Stored' = Stored /\ \A h \in Hashes : New(h)' <=> New(h)
  BY DEF Stored, New
<1>2. Looking' = Looking
  BY DEF Looking
<1>3. \A b : (Share(b)' <=> Share(b)) /\ (FreshShare(b)' <=> FreshShare(b))
  BY DEF Share, FreshShare, Together, Intact, MergedFiles
<1>4. Share(bag)' <=> Share(bag)
  BY DEF Share, Together, Intact, MergedFiles
<1>5. \A h \in Hashes : /\ Share(bags[h])' <=> Share(bags[h])
                        /\ Share(txBags[h])' <=> Share(txBags[h])
                        /\ FreshShare(txBags[h])' <=> FreshShare(txBags[h])
  BY DEF Share, FreshShare, Together, Intact, MergedFiles
<1> HIDE DEF Looking
<1> QED
  BY <1>1, <1>2, <1>4, <1>5 DEF ShareInv, Stored

\* When the job has left its transaction only the database counts.
LEMMA ShareOver ==
  ASSUME ShareInv, UNCHANGED <<ext, content, touched, bags>>,
         pc' \notin Detecting, pc' \notin Merging
  PROVE  ShareInv'
BY DEF ShareInv, Share, Together, Intact, MergedFiles, Stored, Detecting, Merging

\* A run starts with what the database says.
LEMMA ShareStart ==
  ASSUME TypeOK, GenInv, ShareInv, NEW cmd \in {"collect", "dedup"}, NEW hs \in SUBSET Hashes,
         Start(cmd, hs), TableInv
  PROVE  ShareInv'
<1>1. /\ UNCHANGED <<ext, content, touched, bags, gen>> /\ txBags' = bags /\ fresh' = {} /\ pc' = cmd
      /\ txGen' = (IF cmd = "collect" THEN gen + 1 ELSE gen)
  BY DEF Start, NextGen, diskVars, dbVars
<1>2. \A h \in Hashes : bags[h] # None => Share(bags[h])'
  BY <1>1 DEF ShareInv, Share, Together, Intact, MergedFiles, Stored
<1>3. CASE cmd = "dedup"
  BY <1>1, <1>2, <1>3 DEF ShareInv, Stored, Detecting, Merging
<1>4. CASE cmd = "collect"
  <2>1. gen \in Nat /\ \A h \in Stored : bags[h].gen <= gen /\ bags[h].gen \in Nat
    BY BagFields, Names DEF TypeOK, GenInv, Stored
  <2>2. \A h \in Hashes : ~New(h)'
    BY <1>1, <1>4, <2>1 DEF New, Stored
  <2> QED
    BY <1>1, <1>2, <1>4, <2>2 DEF ShareInv, Stored, Detecting, Merging
<1> QED
  BY <1>3, <1>4

\* A file that is read is as it was found until somebody changes it.
LEMMA ShareDetectFile ==
  ASSUME TypeOK, TableInv, GenInv, BagInv, WorkInv, ShareInv, DetectFile
  PROVE  ShareInv'
<1>1. /\ pc = "extents" /\ pc' = "extents" /\ hash \in Hashes
      /\ UNCHANGED <<ext, content, touched, bags, txBags, txGen, hash, todo>>
  BY DEF DetectFile, diskVars, dbVars, txVars, GenInv, TypeOK
<1>2. CASE UNCHANGED <<found, fresh>>
  BY <1>1, <1>2 DEF ShareInv, Share, FreshShare, Together, Intact, MergedFiles, Stored, New,
                    Looking, Merging, Detecting
<1>3. ASSUME NEW f \in left, fresh' = fresh \cup {f}, NEW e \in {ext[f], None},
             found' = [x \in DOMAIN found \cup {f} |-> IF x # f THEN found[x] ELSE e]
      PROVE  ShareInv'
  <2>1. f \in Candidates(hash)
    BY <1>1 DEF WorkInv
  <2>2. \A x \in DOMAIN found' :
          x \in fresh' \cup touched' /\ (x \in fresh' /\ found'[x] # None => found'[x] = ext'[x])
    BY <1>1, <1>3 DEF ShareInv
  <2>3. ASSUME NEW h \in Hashes, New(h)'
        PROVE  h \notin Looking' /\ FreshShare(txBags[h])'
    <3>1. New(h) /\ h \notin Looking /\ FreshShare(txBags[h]) /\ h # hash
      BY <1>1, <2>3 DEF ShareInv, New, Looking, Detecting
    <3>2. MergedFiles(txBags[h]) \subseteq Candidates(h)
      BY <3>1 DEF BagInv, BagOf, MergedFiles, New
    <3>3. f \notin MergedFiles(txBags[h])
      BY <2>1, <3>1, <3>2 DEF Candidates
    <3>4. FreshShare(txBags[h])'
      BY <1>1, <1>3, <3>1, <3>3 DEF FreshShare, Together, MergedFiles
    <3> QED
      BY <1>1, <3>1, <3>4 DEF Looking
  <2>4. \A h \in Stored' : Share(bags[h])'
    BY <1>1 DEF ShareInv, Share, Together, Intact, MergedFiles, Stored
  <2> QED
    BY <1>1, <2>2, <2>3, <2>4 DEF ShareInv, Merging
<1> QED
  BY <1>2, <1>3 DEF DetectFile

\* The group that is called merged lies in one place.
LEMMA ShareDetectBag ==
  ASSUME TypeOK, TableInv, GenInv, BagInv, WorkInv, ShareInv, DetectBag
  PROVE  ShareInv'
<1>1. /\ pc = "extents" /\ pc' = "detect" /\ UNCHANGED <<ext, content, touched, fresh, bags, txGen, hash, todo>>
      /\ hash \in Hashes /\ hash \notin todo /\ DOMAIN found \subseteq Candidates(hash)
  BY DEF DetectBag, diskVars, dbVars, jobVars, GenInv, WorkInv, TypeOK
<1> DEFINE new(g) == [gen |-> txGen, merged |-> [f \in DOMAIN found |-> f \in g],
                      shared |-> Cardinality(g),
                      exclusive |-> Cardinality({Group(f) : f \in DOMAIN found})]
<1>2. ASSUME NEW g \in Largest, Cardinality(DOMAIN found) >= 2
      PROVE  FreshShare(new(g))
  <2>1. MergedFiles(new(g)) = g
    BY <1>1, <1>2, FoundBag
  <2>2. /\ g \subseteq DOMAIN found
        /\ \A x, y \in g : x = y \/ (found[x] # None /\ found[x] = found[y])
    BY <1>1, <1>2, GroupFacts DEF Candidates
  <2> HIDE DEF new
  <2>3. \A x \in DOMAIN found :
          x \in fresh \cup touched /\ (x \in fresh /\ found[x] # None => found[x] = ext[x])
    BY <1>1 DEF ShareInv
  <2>4. g \subseteq fresh => Together(g)
    BY <2>2, <2>3 DEF Together
  <2> QED
    BY <2>1, <2>2, <2>3, <2>4 DEF FreshShare
<1>3. \/ txBags' = [txBags EXCEPT ![hash] = None]
      \/ /\ Cardinality(DOMAIN found) >= 2
         /\ \E g \in Largest : txBags' = [txBags EXCEPT ![hash] = new(g)]
  BY Zenon DEF DetectBag
<1> HIDE DEF new
<1>4. PICK b : txBags' = [txBags EXCEPT ![hash] = b] /\ (b = None \/ FreshShare(b))
  <2>1. ASSUME NEW g \in Largest, Cardinality(DOMAIN found) >= 2,
               txBags' = [txBags EXCEPT ![hash] = new(g)]
        PROVE  \E b : txBags' = [txBags EXCEPT ![hash] = b] /\ (b = None \/ FreshShare(b))
    <3>1. FreshShare(new(g))
      BY <1>2, <2>1
    <3> QED
      BY <2>1, <3>1, Zenon
  <2> QED
    BY <1>3, <2>1
<1>5. \A h \in Hashes : txBags'[h] = IF h = hash THEN b ELSE txBags[h]
  BY <1>4 DEF TableInv
<1>6. \A x : FreshShare(x) <=> /\ MergedFiles(x) \subseteq fresh' \cup touched'
                               /\ MergedFiles(x) \subseteq fresh' => \A f, g \in MergedFiles(x) : ext'[f] = ext'[g]
  BY <1>1 DEF FreshShare, Together
<1>7. ASSUME NEW h \in Hashes, New(h)'
      PROVE  h \notin Looking' /\ FreshShare(txBags[h])'
  <2>1. h \notin todo' /\ Looking' = todo'
    <3>1. h # hash => New(h)
      BY <1>1, <1>5, <1>7 DEF New
    <3> QED
      BY <1>1, <3>1 DEF ShareInv, Looking, Detecting
  <2>2. FreshShare(txBags'[h])
    <3>1. CASE h = hash
      BY <1>4, <1>5, <1>7, <3>1 DEF New
    <3>2. CASE h # hash
      BY <1>1, <1>5, <1>7, <3>2 DEF New, ShareInv, Detecting
    <3> QED
      BY <3>1, <3>2
  <2> QED
    BY <1>6, <2>1, <2>2 DEF FreshShare, Together, MergedFiles
<1>8. \A h \in Stored' : Share(bags[h])'
  BY <1>1 DEF ShareInv, Share, Together, Intact, MergedFiles, Stored
<1> QED
  BY <1>1, <1>7, <1>8 DEF ShareInv, Merging

\* What DetectDupes stores it has read, so that others have changed a merged file
\* since or the files are still where they were.
LEMMA ShareDetectEnd ==
  ASSUME ShareInv, TableInv, DetectEnd
  PROVE  ShareInv'
<1>1. CASE Rollback
  BY <1>1, ShareOver DEF Rollback, diskVars, dbVars, Detecting, Merging
<1>2. CASE ~Rollback
  <2>1. /\ pc = "detect" /\ pc' = "result" /\ UNCHANGED <<ext, content>>
        /\ touched' = touched \ fresh
        /\ \A h \in Hashes : bags'[h] = IF New(h) THEN txBags[h] ELSE None
    BY <1>2 DEF DetectEnd, Commit, New
  <2>2. ASSUME NEW h \in Stored', \A f \in MergedFiles(bags'[h]) : Intact(f)'
        PROVE  \A f, g \in MergedFiles(bags'[h]) : ext'[f] = ext'[g]
    <3>1. h \in Hashes /\ New(h) /\ bags'[h] = txBags[h]
      BY <2>1 DEF Stored
    <3>2. FreshShare(txBags[h])
      BY <2>1, <3>1 DEF ShareInv, Detecting
    <3>3. MergedFiles(txBags[h]) \subseteq fresh
      BY <2>1, <2>2, <3>1, <3>2 DEF FreshShare, Intact
    <3> QED
      BY <2>1, <3>1, <3>2, <3>3 DEF FreshShare, Together
  <2>3. \A h \in Stored' : Share(bags[h])'
    BY <2>2 DEF Share, Together, MergedFiles
  <2> QED
    BY <2>1, <2>3 DEF ShareInv, Detecting, Merging
<1> QED
  BY <1>1, <1>2

\* A file merged with the leader lies where all the others are, if the leader is
\* intact.
LEMMA ShareMerge ==
  ASSUME TypeOK, TableInv, GenInv, BagInv, WorkInv, ShareInv, DedupMerge
  PROVE  ShareInv'
<1> USE Names
<1>1. /\ UNCHANGED <<content, bags, txBags, hash, leader, fresh>> /\ pc = "merge"
      /\ pc' \in {"result", "files"} /\ hash \in Hashes
  BY DEF DedupMerge, dbVars, txVars, GenInv, TypeOK
<1>2. CASE pc' = "result"
  BY <1>1, <1>2, ShareOver DEF DedupMerge, Detecting, Merging
<1>3. CASE pc' = "files"
  <2>1. PICK f \in left :
          \/ /\ Begins(f) /\ ext' \in SharedWith(f) /\ bag' = Merged(bag, f)
             /\ touched' = touched \ {f}
          \/ bag' = bag /\ touched' = touched /\ ext' \in Moved(f)
    <3>1. \A f : ext \in Moved(f)
      BY DEF Moved
    <3> QED
      BY <1>3, <3>1 DEF DedupMerge
  <2>2. /\ bag \in Bag /\ f \in DOMAIN bag.merged /\ f \notin MergedFiles(bag) /\ f # leader
        /\ leader \in DOMAIN bag.merged /\ f \in Files /\ leader \in Files
        /\ HashOf[f] = hash /\ (leader \in MergedFiles(bag) \/ MergedFiles(bag) = {})
    BY <1>1, WorkType, BagFields DEF WorkInv, BagOf, Candidates
  <2>3. \A x \in Files \ {f} : ext'[x] = ext[x] /\ (x \in touched' <=> x \in touched)
    BY <2>1, <2>2, MovedType DEF TypeOK, SharedWith
  <2>4. ASSUME NEW F, F \subseteq Files \ {f}, \A x \in F : Intact(x)'
        PROVE  (\A x \in F : Intact(x)) /\ \A x \in F : ext'[x] = ext[x]
    BY <1>1, <2>3, <2>4 DEF Intact
  <2>5. ASSUME NEW b, MergedFiles(b) \subseteq Files \ {f}, Share(b),
               \A x \in MergedFiles(b) : Intact(x)'
        PROVE  \A x, y \in MergedFiles(b) : ext'[x] = ext'[y]
    BY <2>4, <2>5 DEF Share, Together
  <2>6. \A h \in Hashes :
          /\ bags[h] # None => MergedFiles(bags[h]) \subseteq Files \ {f}
          /\ txBags[h] # None => MergedFiles(txBags[h]) \subseteq Files \ {f}
    <3> TAKE h \in Hashes
    <3>1. /\ bags[h] # None => MergedFiles(bags[h]) \subseteq Candidates(h)
          /\ txBags[h] # None => MergedFiles(txBags[h]) \subseteq Candidates(h)
      BY DEF BagInv, BagOf, MergedFiles
    <3>2. CASE h # hash
      BY <2>2, <3>1, <3>2 DEF Candidates
    <3>3. CASE h = hash
      <4>1. h \in Stored /\ MergedFiles(txBags[h]) \subseteq MergedFiles(bag)
            /\ MergedFiles(bags[h]) \subseteq MergedFiles(txBags[h])
        BY <1>1, <3>3 DEF GenInv, ShareInv, Merging
      <4> QED
        BY <2>2, <3>1, <4>1 DEF Candidates
    <3> QED
      BY <3>2, <3>3
  <2>7. \A h \in Hashes :
          (bags[h] # None => Share(bags[h])') /\ (txBags[h] # None => Share(txBags[h])')
    <3> TAKE h \in Hashes
    <3>1. (bags[h] # None => Share(bags[h])) /\ (txBags[h] # None => Share(txBags[h]))
      BY <1>1 DEF ShareInv, Stored, Merging
    <3>2. bags'[h] = bags[h] /\ txBags'[h] = txBags[h]
      BY <1>1
    <3>3. bags[h] # None => Share(bags[h])'
      BY <2>5, <2>6, <3>1, <3>2 DEF Share, Together, MergedFiles
    <3>4. txBags[h] # None => Share(txBags[h])'
      BY <2>5, <2>6, <3>1, <3>2 DEF Share, Together, MergedFiles
    <3> QED
      BY <3>3, <3>4
  <2>8. Share(bag)' /\ MergedFiles(bag) \subseteq MergedFiles(bag')
    <3>0. MergedFiles(bag) \cup {leader} \subseteq Files \ {f} /\ Share(bag)
      BY <1>1, <2>2, BagFields DEF ShareInv
    <3>1. CASE bag' = bag
      <4>1. (\A x \in MergedFiles(bag) : Intact(x)') => \A x, y \in MergedFiles(bag) : ext'[x] = ext'[y]
        BY <2>5, <3>0
      <4> QED
        BY <3>1, <4>1 DEF Share, Together, MergedFiles
    <3>2. CASE bag' = Merged(bag, f) /\ Begins(f) /\ ext' \in SharedWith(f)
      <4>1. MergedFiles(bag') = MergedFiles(bag) \cup {leader, f}
        BY <2>2, <3>2, MergedFields
      <4>2. ASSUME \A x \in MergedFiles(bag) \cup {leader, f} : Intact(x)'
            PROVE  \A x, y \in MergedFiles(bag) \cup {leader, f} : ext'[x] = ext'[y]
        <5>1. /\ \A x \in MergedFiles(bag) \cup {leader} : Intact(x)
              /\ \A x \in MergedFiles(bag) \cup {leader} : ext'[x] = ext[x]
          BY <2>4, <3>0, <4>2
        <5>2. \A x, y \in MergedFiles(bag) \cup {leader} : ext[x] = ext[y]
          BY <2>2, <3>0, <5>1 DEF Share, Together
        <5>3. content[leader] = "indexed" /\ content[f] = "indexed"
          BY <1>1, <4>2 DEF Intact
        <5>4. ext'[f] = ext[leader]
          BY <2>2, <3>2, <5>3 DEF SharedWith, TypeOK
        <5> QED
          BY <5>1, <5>2, <5>4
      <4> QED
        BY <4>1, <4>2 DEF Share, Together
    <3> QED
      BY <2>1, <3>1, <3>2
  <2> QED
    BY <1>1, <1>3, <2>7, <2>8 DEF ShareInv, Stored, Merging, Detecting
<1> QED
  BY <1>1, <1>2, <1>3

\* A file that others change counts as touched, and not as read.
LEMMA ShareRewrite ==
  ASSUME TypeOK, WorkInv, ShareInv, NEW f \in Files, Rewrite(f)
  PROVE  ShareInv'
<1>1. /\ UNCHANGED <<pc, bags, txBags, txGen, bag, found, hash, todo>>
      /\ \A x \in Files \ {f} : ext'[x] = ext[x] /\ content'[x] = content[x]
      /\ touched' = touched \cup {f} /\ fresh' = fresh \ {f}
  BY DEF Rewrite, dbVars, txVars, TypeOK
<1>2. Stored' = Stored /\ Looking' = Looking /\ \A h \in Hashes : New(h)' <=> New(h)
  BY <1>1 DEF Stored, Looking, New
<1>3. ASSUME NEW b \in Bag, Share(b), \A x \in MergedFiles(b) : Intact(x)'
      PROVE  \A x, y \in MergedFiles(b) : ext'[x] = ext'[y]
  <2>1. MergedFiles(b) \subseteq Files
    BY BagFields
  <2>2. MergedFiles(b) \subseteq Files \ {f}
    BY <1>1, <1>3, <2>1 DEF Intact
  <2>3. \A x \in MergedFiles(b) : Intact(x)
    BY <1>1, <1>3, <2>2 DEF Intact
  <2> QED
    BY <1>1, <1>3, <2>2, <2>3 DEF Share, Together
<1>4. \A h \in Hashes : bags[h] \in Bag \cup {None} /\ txBags[h] \in Bag \cup {None}
  BY DEF TypeOK
<1>5. \A h \in Stored' : Share(bags[h])'
  <2> TAKE h \in Stored'
  <2>1. h \in Hashes /\ bags[h] \in Bag /\ Share(bags[h]) /\ bags'[h] = bags[h]
    BY <1>1, <1>2, <1>4 DEF Stored, ShareInv
  <2> QED
    BY <1>3, <2>1 DEF Share, Together, MergedFiles
<1>6. pc \in Merging => fresh' = {} /\ \A h \in Hashes : txBags[h] # None => Share(txBags[h])'
  <2> SUFFICES ASSUME pc \in Merging
               PROVE  fresh' = {} /\ \A h \in Hashes : txBags[h] # None => Share(txBags[h])'
    OBVIOUS
  <2>1. fresh' = {}
    BY <1>1 DEF ShareInv
  <2>2. ASSUME NEW h \in Hashes, txBags[h] # None
        PROVE  Share(txBags[h])'
    <3>1. txBags[h] \in Bag /\ Share(txBags[h]) /\ txBags'[h] = txBags[h]
      BY <1>1, <1>4, <2>2 DEF ShareInv
    <3> QED
      BY <1>3, <3>1 DEF Share, Together, MergedFiles
  <2> QED
    BY <2>1, <2>2
<1>7. pc \in {"files", "merge"} => Share(bag)'
  <2>1. bag \in Bag /\ bag' = bag
    BY <1>1 DEF TypeOK
  <2>2. pc \in {"files", "merge"} => Share(bag)
    BY DEF ShareInv
  <2> QED
    BY <1>3, <2>1, <2>2 DEF Share, Together, MergedFiles
<1>8. pc = "extents" => \A x \in DOMAIN found :
        x \in fresh' \cup touched' /\ (x \in fresh' /\ found[x] # None => found[x] = ext'[x])
  <2>1. pc = "extents" => DOMAIN found \subseteq Files
    BY DEF WorkInv, Candidates
  <2> QED
    BY <1>1, <2>1 DEF ShareInv
<1>9. ASSUME pc \in Detecting, NEW h \in Hashes, New(h)
      PROVE  h \notin Looking /\ FreshShare(txBags[h])'
  <2>1. h \notin Looking /\ FreshShare(txBags[h])
    BY <1>9 DEF ShareInv
  <2>2. MergedFiles(txBags[h]) \subseteq Files
    BY <1>4, <1>9, BagFields DEF New
  <2>3. MergedFiles(txBags[h])' = MergedFiles(txBags[h])
    BY <1>1 DEF MergedFiles
  <2>4. FreshShare(txBags[h])'
    BY <1>1, <2>1, <2>2, <2>3 DEF FreshShare, Together
  <2> QED
    BY <2>1, <2>4
<1>10. \A h \in Stored : MergedFiles(bags[h])' = MergedFiles(bags[h])
                         /\ MergedFiles(txBags[h])' = MergedFiles(txBags[h])
  BY <1>1 DEF MergedFiles
<1>11. MergedFiles(txBags[hash])' = MergedFiles(txBags[hash]) /\ MergedFiles(bag)' = MergedFiles(bag)
  BY <1>1 DEF MergedFiles
<1> HIDE DEF Looking
<1> QED
  BY <1>1, <1>2, <1>5, <1>6, <1>7, <1>8, <1>9, <1>10, <1>11 DEF ShareInv

\* Every step keeps what merged files share.
LEMMA ShareNext ==
  ASSUME TypeOK, TableInv, GenInv, BagInv, WorkInv, ShareInv, [Next]_vars
  PROVE  ShareInv'
<1> USE DEF Detecting, Merging
<1>1. CASE Collect
  <2>1. CASE Rollback
    BY <2>1, ShareOver DEF Rollback, diskVars, dbVars
  <2>2. CASE ~Rollback
    BY <1>1, <2>2, ShareFrame DEF Collect, diskVars, dbVars, txVars, jobVars
  <2> QED
    BY <2>1, <2>2
<1>2. CASE DedupFile
  <2>1. CASE Rollback
    BY <2>1, ShareOver DEF Rollback, diskVars, dbVars
  <2>2. CASE ~Rollback
    BY <1>2, <2>2, ShareFrame DEF DedupFile, diskVars, dbVars, txVars, jobVars
  <2> QED
    BY <2>1, <2>2
<1>3. CASE SendNil
  BY <1>3, ShareOver DEF SendNil, diskVars, dbVars
<1>4. CASE HandleLog \/ HandleSend \/ Interrupt
  BY <1>4, ShareFrame DEF HandleLog, HandleSend, Interrupt, diskVars, dbVars, txVars, jobVars
<1>5. CASE DetectHash
  <2>1. CASE Rollback
    BY <2>1, ShareOver DEF Rollback, diskVars, dbVars
  <2>2. CASE ~Rollback
    <3>1. PICK h \in todo : todo' = todo \ {h} /\ hash' = h
      BY <1>5, <2>2 DEF DetectHash
    <3>2. /\ pc = "detect" /\ pc' = "extents" /\ DOMAIN found' = {}
          /\ UNCHANGED <<ext, content, touched, fresh, bags, txBags, txGen>>
      BY <1>5, <2>2 DEF DetectHash, NoExtents, diskVars, dbVars, txVars
    <3>3. Looking' = Looking
      BY <3>1, <3>2 DEF Looking
    <3> HIDE DEF Looking
    <3>4. \A x \in Hashes : New(x)' => x \notin Looking' /\ FreshShare(txBags[x])'
      BY <3>2, <3>3 DEF ShareInv, New, FreshShare, Together, MergedFiles
    <3>5. \A x \in Stored' : Share(bags[x])'
      BY <3>2 DEF ShareInv, Share, Together, Intact, MergedFiles, Stored
    <3> QED
      BY <3>2, <3>4, <3>5 DEF ShareInv
  <2> QED
    BY <2>1, <2>2
<1>6. CASE DedupHash
  <2>1. CASE Rollback
    BY <2>1, ShareOver DEF Rollback, diskVars, dbVars
  <2>2. CASE ~Rollback
    <3>1. PICK h \in todo : txBags[h] # None /\ hash' = h /\ bag' = txBags[h]
      BY <1>6, <2>2 DEF DedupHash
    <3>2. h \in Hashes
      BY <3>1 DEF TypeOK
    <3>3. pc = "dedup" /\ pc' = "files" /\ UNCHANGED <<ext, content, touched, fresh, bags, txBags>>
      BY <1>6, <2>2 DEF DedupHash, diskVars, dbVars, txVars
    <3>4. \A x \in Hashes : /\ bags[x] # None => Share(bags[x])'
                            /\ txBags[x] # None => Share(txBags[x])'
      BY <3>3 DEF ShareInv, Share, Together, Intact, MergedFiles, Stored
    <3>5. Share(bag)' /\ MergedFiles(txBags[hash])' \subseteq MergedFiles(bag)'
      BY <3>1, <3>2, <3>3, <3>4 DEF Share, Together, Intact, MergedFiles
    <3>6. \A x \in Stored : MergedFiles(bags[x])' \subseteq MergedFiles(txBags[x])'
      BY <3>3 DEF ShareInv, MergedFiles
    <3> QED
      BY <3>3, <3>4, <3>5, <3>6 DEF ShareInv, Stored
  <2> QED
    BY <2>1, <2>2
<1>7. CASE DedupBag
  <2>1. /\ pc = "files" /\ pc' = "dedup" /\ hash \in Hashes
        /\ UNCHANGED <<ext, content, touched, fresh, bags>>
        /\ \A h \in Hashes : txBags'[h] = IF h = hash THEN bag ELSE txBags[h]
    BY <1>7 DEF DedupBag, TableInv, GenInv, TypeOK, diskVars, dbVars, jobVars
  <2>2. \A h \in Hashes : /\ bags[h] # None => Share(bags[h])'
                          /\ txBags'[h] # None => Share(txBags[h])'
    BY <2>1 DEF ShareInv, Share, Together, Intact, MergedFiles, Stored
  <2>3. \A h \in Stored : MergedFiles(bags[h])' \subseteq MergedFiles(txBags[h])'
    BY <2>1 DEF ShareInv, MergedFiles, Stored
  <2> QED
    BY <2>1, <2>2, <2>3 DEF ShareInv, Stored
<1>8. CASE DedupEnd
  <2>1. CASE Rollback
    BY <2>1, ShareOver DEF Rollback, diskVars, dbVars
  <2>2. CASE ~Rollback
    <3>1. /\ pc = "dedup" /\ pc' = "result" /\ UNCHANGED <<ext, content>> /\ bags' = txBags
          /\ touched' = touched
      BY <1>8, <2>2 DEF DedupEnd, Commit, ShareInv
    <3>2. \A h \in Stored' : Share(bags[h])'
      BY <3>1 DEF ShareInv, Share, Together, Intact, MergedFiles, Stored
    <3> QED
      BY <3>1, <3>2 DEF ShareInv
  <2> QED
    BY <2>1, <2>2
<1>9. CASE HandleAbort
  <2>1. CASE Reset
    BY <1>9, <2>1, ShareOver DEF HandleAbort, Reset, diskVars, dbVars
  <2>2. CASE UNCHANGED <<pc, txVars, jobVars>>
    BY <1>9, <2>2, ShareFrame DEF HandleAbort, diskVars, dbVars, txVars, jobVars
  <2> QED
    BY <1>9, <2>1, <2>2 DEF HandleAbort
<1>10. CASE Exit
  BY <1>10, ShareOver DEF Exit, Reset, diskVars, dbVars
<1>11. CASE Kill
  BY <1>11, ShareOver DEF Kill, Reset, diskVars, dbVars
<1>12. CASE UNCHANGED vars
  BY <1>12, ShareFrame DEF vars, diskVars, dbVars, txVars, jobVars
<1> QED
  BY <1>1, <1>2, <1>3, <1>4, <1>5, <1>6, <1>7, <1>8, <1>9, <1>10, <1>11, <1>12,
     StartStep, ShareStart, ShareDetectFile, ShareDetectBag, ShareDetectEnd, ShareMerge, ShareRewrite
     DEF Next, Job, Handler, Idle

\* Detect stores only what it was run for, and Dedup nothing new.
LEMMA StaleNext ==
  ASSUME TypeOK, GenInv, NothingStale, [Next]_vars
  PROVE  NothingStale'
<1> USE Names DEF NothingStale, Stored
<1>1. ASSUME NEW cmd \in {"collect", "dedup"}, NEW hs \in SUBSET Hashes, Start(cmd, hs)
      PROVE  NothingStale'
  BY <1>1 DEF Start, dbVars
<1>2. CASE Collect \/ DetectHash \/ DetectFile
  BY <1>2 DEF Collect, DetectHash, DetectFile, Log, Rollback, diskVars, dbVars, txVars,
              jobVars, handlerVars, bounds
<1>3. CASE DetectBag \/ DedupHash \/ DedupFile
  BY <1>3 DEF DetectBag, DedupHash, DedupFile, Log, Rollback, diskVars, dbVars, txVars,
              jobVars, handlerVars, bounds
<1>4. CASE DedupMerge \/ DedupBag \/ SendNil
  BY <1>4 DEF DedupMerge, DedupBag, SendNil, Log, diskVars, dbVars, txVars, jobVars,
              handlerVars, bounds
<1>5. CASE HandleLog \/ HandleSend \/ Interrupt
  BY <1>5 DEF HandleLog, HandleSend, Interrupt, Log, Stop, diskVars, dbVars, txVars, jobVars,
              handlerVars, bounds
<1>6. CASE DetectEnd
  <2>1. CASE Rollback
    BY <2>1 DEF Rollback, dbVars
  <2>2. CASE /\ bags' = [h \in Hashes |-> IF txBags[h] # None /\ txBags[h].gen = txGen
                                     THEN txBags[h] ELSE None]
             /\ detected' = given
    <3>1. pc = "detect" /\ \A h \in Hashes :
            txBags[h] # None /\ txBags[h].gen = txGen => h \in given
      <4>1. \A h \in Hashes : txBags[h] # None => txBags[h].gen \in Nat
        BY BagFields DEF TypeOK
      <4>2. gen \in Nat
        BY DEF TypeOK
      <4> QED
        BY <1>6, <4>1, <4>2 DEF DetectEnd, GenInv, Detecting
    <3> QED
      BY <2>2, <3>1
  <2> QED
    BY <1>6, <2>1, <2>2 DEF DetectEnd, Commit
<1>7. CASE DedupEnd
  BY <1>7 DEF DedupEnd, Commit, Rollback, GenInv, Merging, dbVars
<1>8. CASE HandleAbort
  BY <1>8 DEF HandleAbort, dbVars
<1>9. CASE Exit
  BY <1>9 DEF Exit, dbVars
<1>10. CASE Kill
  BY <1>10 DEF Kill, dbVars
<1>11. ASSUME NEW f \in Files, Rewrite(f)
      PROVE  NothingStale'
  BY <1>11 DEF Rewrite, dbVars
<1>12. CASE UNCHANGED vars
  BY <1>12 DEF vars, diskVars, dbVars, txVars, jobVars, handlerVars, bounds
<1> QED
  BY <1>1, <1>2, <1>3, <1>4, <1>5, <1>6, <1>7, <1>8, <1>9, <1>10, <1>11, <1>12, StartStep
     DEF Next, Job, Handler, Idle

-----------------------------------------------------------------------------
(* Theorems                                                                *)

IInv == TypeOK /\ TableInv /\ NilInv /\ GenInv /\ BagInv /\ WorkInv /\ MergedInv

LEMMA InitInv == Init => IInv /\ NothingStale
<1> SUFFICES ASSUME Init
             PROVE  IInv /\ NothingStale
  OBVIOUS
<1> USE Names DEF Init
<1>1. \A h \in Hashes : bags[h] = None /\ txBags[h] = None
  BY DEF NoBags
<1>2. TypeOK
  <2>1. ext \in [Files -> Extent] /\ content \in [Files -> {"indexed"}] /\ bag \in Bag
    BY NoBagType
  <2>2. logQ \in Seq({"msg", "nil"}) /\ Len(logQ) <= LogCap
    BY EmptySeq, LenProperties
  <2>3. doAbort \in BOOLEAN /\ hadErrors \in BOOLEAN
    BY Zenon
  <2> QED
    BY <1>1, <2>1, <2>2, <2>3 DEF TypeOK
<1>3. TableInv
  BY DEF TableInv, NoBags
<1>4. NilInv
  BY DEF NilInv
<1>5. GenInv /\ BagInv /\ WorkInv /\ NothingStale
  BY <1>1 DEF GenInv, BagInv, WorkInv, NothingStale, Stored, Detecting, Merging
<1>6. MergedInv
  BY DEF MergedInv, Merging
<1> QED
  BY <1>2, <1>3, <1>4, <1>5, <1>6 DEF IInv

LEMMA StepInv == IInv /\ [Next]_vars => IInv'
<1> SUFFICES ASSUME IInv, [Next]_vars
             PROVE  IInv'
  OBVIOUS
<1>1. TypeOK /\ TableInv /\ NilInv /\ GenInv /\ BagInv /\ WorkInv /\ MergedInv
  BY DEF IInv
<1>2. TableInv' /\ NilInv' /\ logQ' \in Seq({"msg", "nil"}) /\ Len(logQ') <= LogCap
  BY <1>1, TableNext, LogNext
<1>3. TypeOK'
  BY <1>1, <1>2, TypeNext
<1>4. GenInv' /\ BagInv' /\ WorkInv' /\ MergedInv'
  BY <1>1, GenNext, BagNext, WorkNext, MergedNext
<1> QED
  BY <1>2, <1>3, <1>4 DEF IInv

LEMMA Invariant == Spec => []IInv
BY InitInv, StepInv, PTL DEF Spec

\* Every variable keeps its type; the handler is not done while the job may still
\* log (handleDedupProgress ends with the nil of runDedup).
THEOREM TypeCorrect == Spec => []TypeOK
<1>1. IInv => TypeOK
  BY DEF IInv
<1> QED
  BY <1>1, Invariant, PTL

\* The database holds no hash that the last finished detect was not run for,
\* whatever the runs in between were stopped at: what DetectDupes stores has the
\* new generation and was given, what it leaves is removed, Dedup adds nothing.
THEOREM OnlyDetected == Spec => []NothingStale
<1>1. IInv /\ NothingStale /\ [Next]_vars => NothingStale'
  BY StaleNext DEF IInv
<1> QED
  BY <1>1, InitInv, Invariant, PTL DEF Spec

\* The shared size of a stored bag is that of its merged files, and is not cut by
\* the unsigned integers, over detect and any number of runs of Dedup.
THEOREM SharedCounted == Spec => []SharedIsMerged
<1>1. IInv => SharedIsMerged
  BY DEF IInv, BagInv, BagOf, SharedIsMerged, Stored
<1> QED
  BY <1>1, Invariant, PTL

\* After a run of Dedup without errors all the files of the hashes it was given
\* are merged in the database.
THEOREM RunMergesAll == Spec => []AllMerged
<1>1. IInv => AllMerged
  BY DEF IInv, MergedInv, AllMerged, FullyMerged
<1> QED
  BY <1>1, Invariant, PTL

\* Files that the database shows as merged share space unless one of them was
\* changed by others since the database says so.  Other programs may rewrite,
\* restore, shorten, truncate and delete files at any time, also the leader of a bag
\* between two of its files.
THEOREM MergedFilesShare == Spec => []MergedShare
<1>1. Init => ShareInv
  BY Names DEF Init, ShareInv, NoBags, Stored, Merging, Detecting
<1>2. IInv /\ ShareInv /\ [Next]_vars => ShareInv'
  BY ShareNext DEF IInv
<1>3. ShareInv => MergedShare
  BY DEF ShareInv, Share, Together, Intact, MergedShare
<1> QED
  BY <1>1, <1>2, <1>3, Invariant, PTL DEF Spec

=============================================================================
