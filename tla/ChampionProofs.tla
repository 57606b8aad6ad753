--------------------------- MODULE ChampionProofs ---------------------------
(* Theorems about Champion, for every number of trainings, backups and deaths, *)
(* every AUC and expectancy, and every setting of the gate.                    *)
EXTENDS Champion, FiniteSetTheorems, NaturalsInduction, WellFoundedInduction, TLAPS

LEMMA Parameters ==
    /\ Aucs \subseteq Nat \ {0} /\ FirstAuc \in Nat \ {0} /\ Levels \subseteq Int
    /\ MinAuc \in Nat /\ MinImprovement \in Nat /\ LegacyCap \in Nat /\ Tolerance \in Nat
    /\ KeepBackups \in Nat \ {0}
    /\ MaxModels \in Nat /\ MaxBackups \in Nat /\ MaxCrashes \in Nat
BY ChampionAssumption DEF ChampionAssumption

USE Parameters

Steps == {"rest", "trained", "decide", "backup", "copy", "record", "baseline", "log"}

\* A model directory whose records are of the first n models.
Known(d, n) ==
    /\ d \in Dir
    /\ d.model \in 0..n /\ d.label \in 1..n
    /\ d.results # {} /\ d.results \subseteq 1..n

Trained == aucs \in Seq(Nat \ {0}) /\ Len(aucs) \in 1..(MaxModels + 1)

DirsInv ==
    /\ Known(champion, Len(aucs)) /\ Known(cand, Len(aucs))
    /\ cand.label = cand.model /\ cand.results = {cand.model}
    /\ stamp \in 0..MaxBackups
    /\ DOMAIN backups \subseteq 1..stamp
    /\ \A b \in DOMAIN backups : Known(backups[b], Len(aucs))
    /\ Cardinality(DOMAIN backups) <= KeepBackups

ProcInv ==
    /\ swap \in 0..stamp /\ logged \in 0..stamp
    /\ pc \in [Procs -> Steps] /\ pc["monitor"] # "trained"
    /\ job \in [Procs -> [src : 1..MaxBackups \cup {Candidate, NoName},
                          result : 1..Len(aucs)]]
    /\ job["monitor"].src # Candidate
    /\ crashes \in 0..MaxCrashes
    /\ replaced \in Models \cup {Mixed} /\ marred \in BOOLEAN

TypeInv == Trained /\ DirsInv /\ ProcInv

-----------------------------------------------------------------------------
(* Facts about the operators of the model *)

\* A set of natural numbers below a bound has a greatest element.
LEMMA Greatest ==
    ASSUME NEW n \in Nat, NEW S \in SUBSET (1..n), S # {}
    PROVE  Max(S) \in S /\ \A x \in S : x <= Max(S)
<1> DEFINE R == OpToRel(<, Nat)
           T == {n - x : x \in S}
<1>1. IsWellFoundedOn(R, Nat)
  BY NatLessThanWellFounded
<1>2. \A x, y \in Nat : x < y => <<x, y>> \in R
  BY DEF OpToRel
<1>3. T \subseteq Nat /\ T # {}
  <2>1. \A x \in S : n - x \in Nat
    OBVIOUS
  <2> QED
    BY <2>1
<1> HIDE DEF R
<1>4. PICK t \in T : \A u \in T : ~ (<<u, t>> \in R)
  BY <1>1, <1>3, WFMin
<1>5. PICK x \in S : t = n - x
  OBVIOUS
<1>6. \A y \in S : x >= y
  <2> SUFFICES ASSUME NEW y \in S, y > x PROVE FALSE
    OBVIOUS
  <2>1. n - y \in T /\ n - y \in Nat /\ t \in Nat /\ n - y < t
    BY <1>5
  <2> QED
    BY <1>2, <1>4, <2>1
<1>7. Max(S) \in S /\ \A y \in S : Max(S) >= y
  BY <1>6 DEF Max
<1> QED
  BY <1>7

LEMMA Smallest ==
    ASSUME NEW S \in SUBSET Nat, S # {}
    PROVE  \E x \in S : \A y \in S : x <= y
<1> DEFINE R == OpToRel(<, Nat)
<1>1. IsWellFoundedOn(R, Nat)
  BY NatLessThanWellFounded
<1>2. \A x, y \in Nat : x < y => <<x, y>> \in R
  BY DEF OpToRel
<1> HIDE DEF R
<1>3. PICK x \in S : \A y \in S : ~ (<<y, x>> \in R)
  BY <1>1, WFMin
<1>4. \A y \in S : ~ (y < x)
  BY <1>2, <1>3
<1> QED
  BY <1>4

\* The one trusted result of a directory is among its results.
LEMMA LatestIs ==
    ASSUME NEW n \in Nat, NEW d, Known(d, n)
    PROVE  Latest(d) \in d.results /\ Latest(d) \in 1..n
BY Greatest DEF Known, Latest

LEMMA LatestOfOne ==
    ASSUME NEW d, NEW m \in Nat \ {0}, d.results = {m}
    PROVE  Latest(d) = m
<1>1. {m} \in SUBSET (1..m) /\ {m} # {}
  OBVIOUS
<1>2. Max({m}) \in {m}
  BY <1>1, Greatest
<1> QED
  BY <1>2 DEF Latest

\* Pruning keeps as many backups as it is told to, at most.
LEMMA LastCount ==
    ASSUME NEW n \in Nat \ {0}, NEW names \in SUBSET Nat, IsFiniteSet(names)
    PROVE  Cardinality(Last(n, names)) <= n
<1> DEFINE K == Last(n, names)
           Above(b) == {c \in names : c > b}
<1>1. K \subseteq names /\ \A b \in K : Cardinality(Above(b)) < n
  BY DEF Last
<1>2. CASE K = {}
  BY <1>2, FS_EmptySet
<1>3. CASE K # {}
  <2>1. K \subseteq Nat
    BY <1>1
  <2>2. PICK b \in K : \A c \in K : b <= c
    BY <1>3, <2>1, Smallest
  <2>3. IsFiniteSet(Above(b)) /\ b \notin Above(b)
    BY <2>1, FS_Subset
  <2>4. IsFiniteSet(Above(b) \cup {b})
        /\ Cardinality(Above(b) \cup {b}) = Cardinality(Above(b)) + 1
    BY <2>3, FS_AddElement
  <2>5. K \subseteq Above(b) \cup {b}
    BY <1>1, <2>1, <2>2
  <2>6. Cardinality(K) <= Cardinality(Above(b) \cup {b}) /\ IsFiniteSet(K)
    BY <2>4, <2>5, FS_Subset
  <2>7. Cardinality(Above(b)) \in Nat /\ Cardinality(K) \in Nat
    BY <2>3, <2>6, FS_CardinalityType
  <2>8. Cardinality(Above(b)) < n
    BY <1>1, <2>2
  <2>9. Cardinality(K) <= n
    <3> HIDE DEF K, Above
    <3> QED
      BY <2>4, <2>6, <2>7, <2>8
  <2> QED
    BY <2>9
<1> QED
  BY <1>2, <1>3

LEMMA KnownMore ==
    ASSUME NEW n \in Nat, NEW k \in Nat, n <= k, NEW d, Known(d, n)
    PROVE  Known(d, k)
BY DEF Known

\* What the steps do to the champion directory, one file at a time.
LEMMA KnownChange ==
    ASSUME NEW n \in 1..(MaxModels + 1), NEW d, Known(d, n)
    PROVE  /\ \A m \in 0..n : Known([d EXCEPT !.model = m], n)
           /\ \A m \in 1..n : Known([d EXCEPT !.label = m], n)
           /\ \A m, r \in 1..n :
                Known([d EXCEPT !.label = m, !.results = @ \cup {r}], n)
           /\ \A b \in Nat \cup {Damaged} : Known([d EXCEPT !.base = b], n)
           /\ \A o \in Levels : Known([d EXCEPT !.oos = o], n)
<1>1. 0..n \subseteq Models \cup {Mixed} /\ 1..n \subseteq Models
  BY DEF Models, Mixed
<1> QED
  BY <1>1 DEF Known, Dir

LEMMA SourceKnown ==
    ASSUME TypeInv, NEW src, Exists(src)
    PROVE  Known(Source(src), Len(aucs))
BY DEF TypeInv, DirsInv, Exists, Source
-----------------------------------------------------------------------------
(* The types *)

LEMMA TypesMean == TypeInv => TypeOK
<1> SUFFICES ASSUME TypeInv PROVE TypeOK
  OBVIOUS
<1> USE DEF TypeInv
<1>1. DOMAIN aucs = 1..Len(aucs) /\ 1..Len(aucs) \subseteq Models
      /\ \A m \in DOMAIN aucs : aucs[m] \in Nat
  BY DEF Trained, Models
<1>2. champion \in Dir /\ cand \in Dir /\ champion.results \cup cand.results \subseteq DOMAIN aucs
      /\ \A b \in DOMAIN backups : backups[b] \in Dir
  BY <1>1 DEF DirsInv, Known
<1>3. job \in [Procs -> Job]
  BY <1>1 DEF ProcInv, Job
<1> QED
  BY <1>1, <1>2, <1>3 DEF TypeOK, DirsInv, ProcInv, Steps

LEMMA InitTypes == Init => TypeInv
<1> SUFFICES ASSUME Init PROVE TypeInv
  OBVIOUS
<1>1. Len(aucs) = 1 /\ aucs \in Seq(Nat \ {0}) /\ MaxModels \in Nat
  BY DEF Init
<1>2. Known(FirstChampion, 1)
  BY DEF Known, FirstChampion, Dir, Models, NoBase
<1>3. DOMAIN backups = {} /\ Cardinality({}) = 0
  BY FS_EmptySet DEF Init
<1>4. DirsInv
  BY <1>1, <1>2, <1>3 DEF Init, DirsInv, FirstChampion
<1>5. ProcInv
  <2>1. NoJob \in [src : 1..MaxBackups \cup {Candidate, NoName}, result : 1..Len(aucs)]
        /\ NoJob.src # Candidate
    BY <1>1 DEF NoJob, NoName, Candidate
  <2>2. job \in [Procs -> [src : 1..MaxBackups \cup {Candidate, NoName},
                          result : 1..Len(aucs)]]
        /\ job["monitor"].src # Candidate
    BY <2>1 DEF Init, Procs
  <2>3. pc \in [Procs -> Steps] /\ pc["monitor"] # "trained"
    BY DEF Init, Procs, Steps
  <2>4. swap \in 0..stamp /\ logged \in 0..stamp /\ crashes \in 0..MaxCrashes
    BY DEF Init, NoName
  <2>5. replaced \in Models \cup {Mixed} /\ marred \in BOOLEAN
    <3>1. 1 \in 1..(MaxModels + 1)
      OBVIOUS
    <3> QED
      BY <3>1 DEF Init, Models
  <2> QED
    BY <2>2, <2>3, <2>4, <2>5 DEF ProcInv
<1> QED
  BY <1>1, <1>4, <1>5 DEF TypeInv, Trained

\* Steps that leave the candidate, the backups and the results alone.
LEMMA DirsStay ==
    ASSUME TypeInv, UNCHANGED <<aucs, cand, backups, stamp>>,
           Known(champion', Len(aucs))
    PROVE  Trained' /\ DirsInv'
BY DEF TypeInv, Trained, DirsInv

\* The pc and the job of p change, the rest of the processes' state does not.
LEMMA ProcMoves ==
    ASSUME TypeInv, NEW p \in Procs, NEW step \in Steps, Goto(p, step),
           p = "pipeline" \/ step # "trained",
           \/ UNCHANGED job
           \/ job' = [job EXCEPT ![p] = NoJob]
           \/ \E src \in 1..MaxBackups \cup {Candidate}, r \in 1..Len(aucs) :
                /\ src = Candidate => p = "pipeline"
                /\ job' = [job EXCEPT ![p] = [src |-> src, result |-> r]],
           Len(aucs)' \in Nat, Len(aucs) <= Len(aucs)'
    PROVE  /\ pc' \in [Procs -> Steps] /\ pc'["monitor"] # "trained"
           /\ job' \in [Procs -> [src : 1..MaxBackups \cup {Candidate, NoName},
                                  result : 1..Len(aucs)']]
           /\ job'["monitor"].src # Candidate
<1>1. pc \in [Procs -> Steps] /\ pc["monitor"] # "trained" /\ "monitor" \in Procs
      /\ pc' = [pc EXCEPT ![p] = step]
  BY DEF TypeInv, ProcInv, Goto, Procs
<1>2. pc' \in [Procs -> Steps] /\ pc'["monitor"] # "trained"
  BY <1>1
<1> DEFINE J(n) == [src : 1..MaxBackups \cup {Candidate, NoName}, result : 1..n]
<1>3. job \in [Procs -> J(Len(aucs))] /\ job["monitor"].src # Candidate
      /\ Len(aucs) \in Nat \ {0}
  <2>1. Len(aucs) \in Nat \ {0}
    BY DEF TypeInv, Trained
  <2>2. job \in [Procs -> J(Len(aucs))] /\ job["monitor"].src # Candidate
    BY DEF TypeInv, ProcInv
  <2> QED
    BY <2>1, <2>2
<1>4. job \in [Procs -> J(Len(aucs)')]
  <2>1. \A x \in J(Len(aucs)) : x \in J(Len(aucs)')
    BY <1>3
  <2> QED
    BY <1>3, <2>1
<1>5. NoJob \in J(Len(aucs)') /\ NoJob.src # Candidate
  BY <1>3 DEF NoJob, NoName, Candidate
<1>6. CASE UNCHANGED job
  BY <1>2, <1>3, <1>4, <1>6
<1>7. CASE job' = [job EXCEPT ![p] = NoJob]
  BY <1>1, <1>2, <1>3, <1>4, <1>5, <1>7
<1>8. CASE \E src \in 1..MaxBackups \cup {Candidate}, r \in 1..Len(aucs) :
             /\ src = Candidate => p = "pipeline"
             /\ job' = [job EXCEPT ![p] = [src |-> src, result |-> r]]
  <2>1. PICK src \in 1..MaxBackups \cup {Candidate}, r \in 1..Len(aucs) :
             /\ src = Candidate => p = "pipeline"
             /\ job' = [job EXCEPT ![p] = [src |-> src, result |-> r]]
    BY <1>8
  <2>2. [src |-> src, result |-> r] \in J(Len(aucs)')
    BY <1>3
  <2>3. job' \in [Procs -> J(Len(aucs)')]
    BY <1>4, <2>1, <2>2
  <2>4. job'["monitor"].src # Candidate
    BY <1>1, <1>3, <2>1
  <2> QED
    BY <1>2, <2>3, <2>4
<1> QED
  BY <1>6, <1>7, <1>8

\* What the types make of the current state.
LEMMA Now ==
    ASSUME TypeInv
    PROVE  /\ Len(aucs) \in Nat \ {0} /\ Len(aucs) \in 1..(MaxModels + 1)
           /\ \A m \in 1..Len(aucs) : aucs[m] \in Nat \ {0}
           /\ \A p \in Procs : /\ pc[p] \in Steps
                               /\ job[p].result \in 1..Len(aucs)
                               /\ job[p].src \in 1..MaxBackups \cup {Candidate, NoName}
           /\ champion.model \in Models \cup {Mixed} /\ stamp \in Nat
           /\ DOMAIN backups \subseteq 1..MaxBackups
<1>1. Trained /\ DirsInv /\ ProcInv
  BY DEF TypeInv
<1>2. Len(aucs) \in Nat \ {0} /\ Len(aucs) \in 1..(MaxModels + 1)
      /\ \A m \in 1..Len(aucs) : aucs[m] \in Nat \ {0}
  BY <1>1 DEF Trained
<1>3. stamp \in Nat /\ DOMAIN backups \subseteq 1..MaxBackups
  <2>1. stamp \in 0..MaxBackups /\ DOMAIN backups \subseteq 1..stamp
    BY <1>1 DEF DirsInv
  <2> QED
    BY <2>1
<1>4. champion.model \in Models \cup {Mixed}
  BY <1>1 DEF DirsInv, Known, Dir
<1> QED
  BY <1>1, <1>2, <1>3, <1>4 DEF ProcInv

LEMMA TrainTypes ==
    ASSUME TypeInv, Train
    PROVE  TypeInv'
<1>1. PICK auc \in Aucs, oos \in Levels \cup {NoLevel} :
         /\ aucs' = Append(aucs, auc)
         /\ cand' = [model |-> Len(aucs) + 1, label |-> Len(aucs) + 1,
                     results |-> {Len(aucs) + 1}, base |-> NoBase, oos |-> oos]
  BY DEF Train
<1>2. Len(aucs) \in Nat \ {0} /\ Len(aucs) < MaxModels + 1
  <2>1. Cardinality(Models) = MaxModels + 1
    BY FS_Interval DEF Models
  <2> QED
    BY <2>1, Now DEF Train
<1>3. aucs' \in Seq(Nat \ {0}) /\ Len(aucs') = Len(aucs) + 1
      /\ Len(aucs') \in 1..(MaxModels + 1)
  BY <1>1, <1>2 DEF TypeInv, Trained
<1>4. UNCHANGED <<champion, backups, stamp, swap, logged, job, crashes, replaced, marred>>
      /\ Goto("pipeline", "trained")
  BY DEF Train
<1>5. Known(cand', Len(aucs'))
  BY <1>1, <1>2, <1>3 DEF Known, Dir, Models, NoBase
<1>6. DirsInv'
  <2>1. Known(champion, Len(aucs')) /\ \A b \in DOMAIN backups : Known(backups[b], Len(aucs'))
    <3>1. Len(aucs) \in Nat /\ Len(aucs') \in Nat /\ Len(aucs) <= Len(aucs')
      BY <1>2, <1>3
    <3>2. Known(champion, Len(aucs)) /\ \A b \in DOMAIN backups : Known(backups[b], Len(aucs))
      BY DEF TypeInv, DirsInv
    <3> QED
      BY <3>1, <3>2, KnownMore
  <2> QED
    BY <1>1, <1>4, <1>5, <2>1 DEF TypeInv, DirsInv
<1>7. ProcInv'
  <2>1. "pipeline" \in Procs /\ "trained" \in Steps
    BY DEF Procs, Steps
  <2>2. /\ pc' \in [Procs -> Steps] /\ pc'["monitor"] # "trained"
        /\ job' \in [Procs -> [src : 1..MaxBackups \cup {Candidate, NoName},
                               result : 1..Len(aucs)']]
        /\ job'["monitor"].src # Candidate
    BY <1>2, <1>3, <1>4, <2>1, ProcMoves
  <2> QED
    BY <1>4, <2>2 DEF TypeInv, ProcInv
<1> QED
  BY <1>3, <1>6, <1>7 DEF TypeInv, Trained

\* Backups get a new name and at most KeepBackups are kept.
LEMMA BackupTypes ==
    ASSUME TypeInv, NEW p \in Procs, Backup(p)
    PROVE  TypeInv'
<1> DEFINE kept == Last(KeepBackups, DOMAIN backups \cup {stamp + 1})
<1>1. /\ stamp < MaxBackups /\ stamp' = stamp + 1
      /\ backups' = [b \in kept |-> IF b = stamp + 1 THEN champion ELSE backups[b]]
      /\ Goto(p, "copy")
      /\ UNCHANGED <<champion, cand, aucs, swap, logged, job, crashes, replaced, marred>>
  BY DEF Backup
<1>2. stamp \in Nat /\ DOMAIN backups \subseteq 1..stamp
  BY Now DEF TypeInv, DirsInv
<1>3. kept \subseteq DOMAIN backups \cup {stamp + 1}
  BY DEF Last
<1>4. Cardinality(kept) <= KeepBackups
  <2>1. DOMAIN backups \cup {stamp + 1} \subseteq 1..(stamp + 1)
    BY <1>2
  <2>2. IsFiniteSet(1..(stamp + 1))
    BY <1>2, FS_Interval
  <2>3. IsFiniteSet(DOMAIN backups \cup {stamp + 1})
    BY <2>1, <2>2, FS_Subset
  <2>4. DOMAIN backups \cup {stamp + 1} \in SUBSET Nat
    BY <1>2
  <2> QED
    BY <2>3, <2>4, LastCount
<1> HIDE DEF kept
<1>5. DOMAIN backups' = kept /\ kept \subseteq 1..stamp'
  BY <1>1, <1>2, <1>3
<1>6. \A b \in kept : Known(backups'[b], Len(aucs))
  BY <1>1, <1>3 DEF TypeInv, DirsInv
<1>7. stamp' \in 0..MaxBackups
  BY <1>1, <1>2
<1>8. DirsInv'
  BY <1>1, <1>4, <1>5, <1>6, <1>7 DEF TypeInv, DirsInv
<1>9. ProcInv'
  <2>1. "copy" \in Steps
    BY DEF Steps
  <2>2. /\ pc' \in [Procs -> Steps] /\ pc'["monitor"] # "trained"
        /\ job' \in [Procs -> [src : 1..MaxBackups \cup {Candidate, NoName},
                               result : 1..Len(aucs)']]
        /\ job'["monitor"].src # Candidate
    BY <1>1, <2>1, Now, ProcMoves
  <2>3. swap \in 0..stamp' /\ logged \in 0..stamp'
    BY <1>1, <1>2 DEF TypeInv, ProcInv
  <2> QED
    BY <1>1, <2>2, <2>3 DEF TypeInv, ProcInv
<1> QED
  BY <1>1, <1>8, <1>9 DEF TypeInv, Trained

\* Steps that change one file of the champion or none, and move one process.
LEMMA MoveTypes ==
    ASSUME TypeInv, UNCHANGED <<aucs, cand, backups, stamp>>, Known(champion', Len(aucs)),
           NEW p \in Procs, NEW step \in Steps, Goto(p, step),
           p = "pipeline" \/ step # "trained",
           \/ UNCHANGED job
           \/ job' = [job EXCEPT ![p] = NoJob]
           \/ \E src \in 1..MaxBackups \cup {Candidate}, r \in 1..Len(aucs) :
                /\ src = Candidate => p = "pipeline"
                /\ job' = [job EXCEPT ![p] = [src |-> src, result |-> r]],
           swap' \in 0..stamp, logged' \in 0..stamp, crashes' \in 0..MaxCrashes,
           replaced' \in Models \cup {Mixed}, marred' \in BOOLEAN
    PROVE  TypeInv'
<1>1. Trained' /\ DirsInv'
  BY DirsStay
<1>2. Len(aucs)' \in Nat /\ Len(aucs) <= Len(aucs)'
  BY Now
<1>3. /\ pc' \in [Procs -> Steps] /\ pc'["monitor"] # "trained"
      /\ job' \in [Procs -> [src : 1..MaxBackups \cup {Candidate, NoName},
                             result : 1..Len(aucs)']]
      /\ job'["monitor"].src # Candidate
  BY <1>2, ProcMoves
<1> QED
  BY <1>1, <1>3 DEF TypeInv, ProcInv

\* The steps that leave every file alone.
LEMMA RestTypes ==
    ASSUME TypeInv, TrainingFails \/ KeepEvidence \/ Check
                    \/ (\E p \in Procs : Decide(p) \/ SourceGone(p) \/ Log(p))
    PROVE  TypeInv'
<1>1. /\ Known(champion, Len(aucs)) /\ swap \in 0..stamp /\ logged \in 0..stamp
      /\ crashes \in 0..MaxCrashes /\ replaced \in Models \cup {Mixed} /\ marred \in BOOLEAN
      /\ stamp \in Nat
  BY DEF TypeInv, DirsInv, ProcInv
<1>2. "pipeline" \in Procs /\ "monitor" \in Procs
      /\ {"log", "decide", "backup", "rest"} \subseteq Steps
  BY DEF Procs, Steps
<1>3. CASE TrainingFails \/ KeepEvidence
  <2>1. UNCHANGED <<dirs, aucs, swap, logged, job, crashes, replaced, marred>>
        /\ (Goto("pipeline", "log") \/ Goto("pipeline", "decide"))
    BY <1>3 DEF TrainingFails, KeepEvidence
  <2> QED
    BY <1>1, <1>2, <2>1, MoveTypes DEF dirs
<1>4. CASE Check
  <2>1. /\ UNCHANGED <<dirs, aucs, swap, logged, crashes, replaced>>
        /\ Goto("monitor", "decide") /\ marred' \in BOOLEAN
        /\ swap \in DOMAIN backups /\ job' = [job EXCEPT !["monitor"].src = swap]
    BY <1>1, <1>4 DEF Check
  <2>2. job' = [job EXCEPT !["monitor"] = [src |-> swap, result |-> job["monitor"].result]]
    <3>1. job["monitor"] \in [src : 1..MaxBackups \cup {Candidate, NoName},
                             result : 1..Len(aucs)]
      BY <1>2 DEF TypeInv, ProcInv
    <3>2. [job["monitor"] EXCEPT !.src = swap]
          = [src |-> swap, result |-> job["monitor"].result]
      BY <3>1
    <3> QED
      BY <2>1, <3>2
  <2>3. swap \in 1..MaxBackups /\ swap # Candidate /\ job["monitor"].result \in 1..Len(aucs)
    BY <1>2, <2>1, Now DEF Candidate
  <2>4. \E src \in 1..MaxBackups \cup {Candidate}, r \in 1..Len(aucs) :
           /\ src = Candidate => "monitor" = "pipeline"
           /\ job' = [job EXCEPT !["monitor"] = [src |-> src, result |-> r]]
    BY <2>2, <2>3
  <2> QED
    BY <1>1, <1>2, <2>1, <2>4, MoveTypes DEF dirs
<1>5. ASSUME NEW p \in Procs, Decide(p)
      PROVE  TypeInv'
  <2> DEFINE src == IF p = "pipeline" THEN Candidate ELSE job[p].src
  <2>1. UNCHANGED <<dirs, aucs, swap, logged, crashes, replaced>> /\ marred' \in BOOLEAN
    BY <1>1, <1>5 DEF Decide
  <2>2. CASE Fit(src) /\ Goto(p, "backup")
             /\ job' = [job EXCEPT ![p] = [src |-> src, result |-> Latest(Source(src))]]
    <3>1. Exists(src)
      BY <2>2 DEF Fit
    <3>2. src \in 1..MaxBackups \cup {Candidate}
      BY <3>1, Now DEF Exists
    <3>3. src = Candidate => p = "pipeline"
      BY DEF TypeInv, ProcInv, Procs
    <3>4. Latest(Source(src)) \in 1..Len(aucs)
      BY <3>1, SourceKnown, LatestIs, Now
    <3> HIDE DEF src
    <3>5. \E s \in 1..MaxBackups \cup {Candidate}, r \in 1..Len(aucs) :
             /\ s = Candidate => p = "pipeline"
             /\ job' = [job EXCEPT ![p] = [src |-> s, result |-> r]]
      BY <2>2, <3>2, <3>3, <3>4
    <3> QED
      BY <1>1, <1>2, <2>1, <2>2, <3>5, MoveTypes DEF dirs
  <2>3. CASE (Goto(p, "log") /\ UNCHANGED job) \/ Rest(p)
    BY <1>1, <1>2, <2>1, <2>3, MoveTypes DEF dirs, Rest
  <2> QED
    BY <1>5, <2>2, <2>3 DEF Decide
<1>6. ASSUME NEW p \in Procs, SourceGone(p)
      PROVE  TypeInv'
  <2>1. UNCHANGED <<dirs, aucs, swap, logged, crashes, replaced>> /\ marred' \in BOOLEAN
        /\ Rest(p)
    BY <1>6 DEF SourceGone
  <2> QED
    BY <1>1, <1>2, <2>1, MoveTypes DEF dirs, Rest
<1>7. ASSUME NEW p \in Procs, Log(p)
      PROVE  TypeInv'
  <2>1. UNCHANGED <<dirs, aucs, crashes, replaced, marred>> /\ Rest(p)
        /\ logged' = stamp /\ (swap' = swap \/ swap' \in DOMAIN backups)
    BY <1>7 DEF Log, Newest
  <2>2. swap' \in 0..stamp /\ logged' \in 0..stamp
    BY <1>1, <2>1 DEF TypeInv, DirsInv
  <2> QED
    BY <1>1, <1>2, <2>1, <2>2, MoveTypes DEF dirs, Rest
<1> QED
  BY <1>3, <1>4, <1>5, <1>6, <1>7

\* The steps that change the files of the champion.
LEMMA ChampionTypes ==
    ASSUME TypeInv, MeasureChampion \/ (\E p \in Procs : \/ Copy(p) \/ Record(p)
                                                       \/ WriteBaseline(p) \/ Crash(p))
    PROVE  TypeInv'
<1>1. /\ Known(champion, Len(aucs)) /\ swap \in 0..stamp /\ logged \in 0..stamp
      /\ crashes \in 0..MaxCrashes /\ replaced \in Models \cup {Mixed} /\ marred \in BOOLEAN
      /\ stamp \in Nat /\ Len(aucs) \in 1..(MaxModels + 1)
  BY Now DEF TypeInv, DirsInv, ProcInv
<1>2. "pipeline" \in Procs
      /\ {"decide", "record", "baseline", "log", "rest"} \subseteq Steps
  BY DEF Procs, Steps
<1>3. CASE MeasureChampion
  <2>1. PICK oos \in Levels : champion' = [champion EXCEPT !.oos = oos]
    BY <1>3 DEF MeasureChampion
  <2>2. Known(champion', Len(aucs))
    BY <1>1, <2>1, KnownChange
  <2> QED
    BY <1>1, <1>2, <1>3, <2>2, MoveTypes DEF MeasureChampion
<1>4. ASSUME NEW p \in Procs, Exists(job[p].src)
      PROVE  Source(job[p].src).model \in 0..Len(aucs)
             /\ Source(job[p].src).label \in 1..Len(aucs)
  BY <1>4, SourceKnown DEF Known
<1>5. ASSUME NEW p \in Procs, Copy(p)
      PROVE  TypeInv'
  <2>1. Known(champion', Len(aucs))
    BY <1>1, <1>4, <1>5, KnownChange DEF Copy
  <2>2. replaced' \in Models \cup {Mixed}
    BY <1>5, Now DEF Copy
  <2> QED
    BY <1>1, <1>2, <1>5, <2>1, <2>2, MoveTypes DEF Copy
<1>6. ASSUME NEW p \in Procs, Record(p)
      PROVE  TypeInv'
  <2>1. job[p].result \in 1..Len(aucs)
    BY Now
  <2>2. Known(champion', Len(aucs))
    BY <1>1, <1>4, <1>6, <2>1, KnownChange DEF Record
  <2> QED
    BY <1>1, <1>2, <1>6, <2>2, MoveTypes DEF Record
<1>7. ASSUME NEW p \in Procs, WriteBaseline(p)
      PROVE  TypeInv'
  <2>1. aucs[job[p].result] \in Nat
    BY Now
  <2>2. Known(champion', Len(aucs))
    BY <1>1, <1>7, <2>1, KnownChange DEF WriteBaseline
  <2> QED
    BY <1>1, <1>2, <1>7, <2>2, MoveTypes DEF WriteBaseline
<1>8. ASSUME NEW p \in Procs, Crash(p)
      PROVE  TypeInv'
  <2>1. Known([champion EXCEPT !.model = Mixed], Len(aucs))
        /\ Known([champion EXCEPT !.base = Damaged], Len(aucs))
    <3>1. Mixed \in 0..Len(aucs)
      BY <1>1 DEF Mixed
    <3> QED
      BY <1>1, <3>1, KnownChange
  <2>2. Exists(job[p].src) =>
          Known([champion EXCEPT !.label = Source(job[p].src).label], Len(aucs))
    BY <1>1, <1>4, KnownChange
  <2>3. Known(champion', Len(aucs))
    BY <1>1, <1>8, <2>1, <2>2 DEF Crash
  <2>4. crashes' \in 0..MaxCrashes
    BY <1>1, <1>8 DEF Crash
  <2>5. UNCHANGED <<cand, backups, stamp, aucs, swap, logged, replaced>> /\ marred' = TRUE
        /\ (Goto(p, "rest") \/ (p = "pipeline" /\ Goto(p, "log")))
        /\ job' = [job EXCEPT ![p] = NoJob]
    BY <1>8 DEF Crash, Rest
  <2> QED
    BY <1>1, <1>2, <2>3, <2>4, <2>5, MoveTypes
<1> QED
  BY <1>3, <1>5, <1>6, <1>7, <1>8

LEMMA NextTypes ==
    ASSUME TypeInv, [Next]_vars
    PROVE  TypeInv'
<1>1. CASE UNCHANGED vars
  BY <1>1 DEF vars, dirs, TypeInv, Trained, DirsInv, ProcInv
<1> QED
  BY <1>1, TrainTypes, BackupTypes, RestTypes, ChampionTypes DEF Next

\* Every reachable state is well typed, and KEEP_BACKUPS backups are kept at most.
THEOREM TypesHold == Spec => []TypeOK
<1>1. TypeInv /\ [Next]_vars => TypeInv'
  BY NextTypes
<1> QED
  BY <1>1, InitTypes, TypesMean, PTL DEF Spec
-----------------------------------------------------------------------------
(* Undisturbed promotions *)

Near(a, m, n) == Distance(a[m], a[n]) <= Tolerance

\* While the pipeline promotes, the monitor rests.
Alone ==
    Promoting("pipeline") =>
        /\ pc["monitor"] = "rest"
        /\ job["pipeline"] = [src |-> Candidate, result |-> cand.model]

\* What a promotion under way relies on: the result it records is within the
\* tolerance of auc.txt, and what it copied is still there.
Faithful(p) ==
    /\ pc[p] = "record" => /\ Exists(job[p].src)
                           /\ champion.model = Source(job[p].src).model
    /\ pc[p] \in {"backup", "copy", "record"} /\ Exists(job[p].src)
          => Near(aucs, Source(job[p].src).label, job[p].result)
    /\ pc[p] = "baseline" => Near(aucs, champion.label, job[p].result)

\* What the champion directory says between the promotions, and in their middle.
Labelled == (\A p \in Procs : pc[p] # "record") => champion.model = champion.label
Based ==
    (\A p \in Procs : pc[p] \notin {"record", "baseline"}) /\ champion.base > NoBase
        => Distance(champion.base, aucs[champion.label]) <= Tolerance
Prevs == \A b \in DOMAIN backups : backups[b].model = backups[b].label

\* The candidate that is being promoted has passed the gate.
Ahead ==
    pc["pipeline"] \in {"backup", "copy"} /\ champion.base > NoBase
        => aucs[cand.model] >= champion.base + MinImprovement

\* A rollback is to a backup that has been made.
Dated == \A p \in Procs : job[p].src <= stamp

PromoteInv ==
    /\ TypeInv
    /\ Dated
    /\ ~marred => /\ Alone /\ Labelled /\ Based /\ Prevs /\ Ahead
                  /\ \A p \in Procs : Faithful(p)

LEMMA DatedStep ==
    ASSUME TypeInv, Dated, [Next]_vars
    PROVE  Dated'
<1>1. stamp \in Nat /\ swap \in 0..stamp
      /\ \A p \in Procs : job[p].src \in Int /\ job[p].src <= stamp
      /\ job \in [Procs -> [src : 1..MaxBackups \cup {Candidate, NoName},
                            result : 1..Len(aucs)]]
  BY Now DEF TypeInv, ProcInv, Dated, Candidate, NoName
<1>2. "pipeline" \in Procs /\ "monitor" \in Procs
  BY DEF Procs
<1>3. stamp' \in {stamp, stamp + 1}
  BY DEF Next, Train, TrainingFails, MeasureChampion, KeepEvidence, Check, Decide, Backup,
         Copy, Record, WriteBaseline, SourceGone, Crash, Log, vars, dirs
<1>4. CASE UNCHANGED job
  BY <1>1, <1>3, <1>4 DEF Dated
<1>5. CASE Check
  BY <1>1, <1>2, <1>5 DEF Check, dirs, Dated
<1>6. ASSUME NEW p \in Procs, job' = [job EXCEPT ![p] = NoJob]
      PROVE  Dated'
  BY <1>1, <1>3, <1>6 DEF Dated, NoJob, NoName
<1>7. ASSUME NEW p \in Procs, Decide(p)
      PROVE  Dated'
  <2>1. \/ UNCHANGED job \/ job' = [job EXCEPT ![p] = NoJob]
        \/ \E src \in {Candidate, job[p].src}, r \in {Latest(Source(Candidate)),
                                                     Latest(Source(job[p].src))} :
              job' = [job EXCEPT ![p] = [src |-> src, result |-> r]]
    BY <1>7 DEF Decide, Rest
  <2> QED
    BY <1>1, <1>3, <1>4, <1>6, <2>1 DEF Dated, Candidate
<1>8. UNCHANGED job \/ Check \/ \E p \in Procs : Decide(p) \/ job' = [job EXCEPT ![p] = NoJob]
  BY DEF Next, Train, TrainingFails, MeasureChampion, KeepEvidence, Backup,
         Copy, Record, WriteBaseline, SourceGone, Crash, Log, Rest, vars
<1> QED
  BY <1>4, <1>5, <1>6, <1>7, <1>8

\* Steps outside the promotions: no process enters or leaves one, and what they
\* do to the champion is neither its model nor its records.
LEMMA OutsideStays ==
    ASSUME PromoteInv, TypeInv', Dated', UNCHANGED <<aucs, cand, backups>>,
           champion'.model = champion.model, champion'.label = champion.label,
           champion'.base = champion.base, ~marred' => ~marred,
           \A p \in Procs :
               \/ pc'[p] = pc[p] /\ job'[p] = job[p]
               \/ ~Promoting(p) /\ pc'[p] \notin {"backup", "copy", "record", "baseline"},
           ~marred' /\ Promoting("pipeline") => pc'["monitor"] = "rest"
    PROVE  PromoteInv'
<1> SUFFICES ASSUME ~marred' PROVE PromoteInv'
  BY DEF PromoteInv
<1>1. Alone /\ Labelled /\ Based /\ Prevs /\ Ahead /\ \A p \in Procs : Faithful(p)
  BY DEF PromoteInv
<1>2. "pipeline" \in Procs /\ "monitor" \in Procs
  BY DEF Procs
<1>3. Alone'
  BY <1>1, <1>2 DEF Alone, Promoting
<1>4. Labelled'
  BY <1>1 DEF Labelled, Promoting
<1>5. Based'
  BY <1>1 DEF Based, Promoting
<1>6. Prevs'
  BY <1>1 DEF Prevs
<1>7. Ahead'
  BY <1>1, <1>2 DEF Ahead, Promoting
<1>8. ASSUME NEW p \in Procs
      PROVE  Faithful(p)'
  <2>1. CASE pc'[p] = pc[p] /\ job'[p] = job[p]
    BY <1>1, <2>1 DEF Faithful, Exists, Source, Near
  <2>2. CASE pc'[p] \notin {"backup", "copy", "record", "baseline"}
    BY <2>2 DEF Faithful
  <2> QED
    BY <2>1, <2>2
<1> QED
  BY <1>3, <1>4, <1>5, <1>6, <1>7, <1>8 DEF PromoteInv

\* The steps outside the promotions.
LEMMA OutsideSteps ==
    ASSUME PromoteInv, TypeInv', Dated',
           \/ TrainingFails \/ MeasureChampion \/ KeepEvidence \/ Check
           \/ \E p \in Procs : Log(p)
           \/ \E p \in Procs : Decide(p) /\ ~(pc'[p] = "backup")
    PROVE  PromoteInv'
<1>1. "pipeline" \in Procs /\ "monitor" \in Procs /\ Procs = {"pipeline", "monitor"}
      /\ pc \in [Procs -> Steps] /\ job \in [Procs -> [src : 1..MaxBackups \cup {Candidate, NoName},
                                                     result : 1..Len(aucs)]]
  BY DEF Procs, PromoteInv, TypeInv, ProcInv
<1>2. champion \in Dir
  BY DEF PromoteInv, TypeInv, DirsInv, Known
<1>3. ~marred => (Promoting("pipeline") => pc["monitor"] = "rest")
  BY DEF PromoteInv, Alone
<1>4. CASE TrainingFails \/ KeepEvidence
  BY <1>1, <1>3, <1>4, OutsideStays DEF TrainingFails, KeepEvidence, Goto, dirs, Promoting
<1>5. CASE MeasureChampion
  <2>1. champion'.model = champion.model /\ champion'.label = champion.label
        /\ champion'.base = champion.base
    BY <1>2, <1>5 DEF MeasureChampion, Dir
  <2> QED
    BY <1>1, <1>3, <1>5, <2>1, OutsideStays DEF MeasureChampion, Goto, Promoting
<1>6. CASE Check
  <2>1. ~marred' => ~marred /\ ~Promoting("pipeline")
    BY <1>1, <1>6 DEF Check, Met
  <2> QED
    BY <1>1, <1>6, <2>1, OutsideStays DEF Check, Goto, dirs, Promoting
<1>7. ASSUME NEW p \in Procs, Log(p)
      PROVE  PromoteInv'
  BY <1>1, <1>3, <1>7, OutsideStays DEF Log, Rest, Goto, dirs, Promoting
<1>8. ASSUME NEW p \in Procs, Decide(p), ~(pc'[p] = "backup")
      PROVE  PromoteInv'
  <2>1. UNCHANGED <<aucs, cand, backups, champion, marred>> /\ pc[p] = "decide"
        /\ \A q \in Procs \ {p} : pc'[q] = pc[q] /\ job'[q] = job[q]
        /\ pc'[p] \in {"log", "rest"}
    BY <1>1, <1>8 DEF Decide, Rest, Goto, dirs
  <2>2. ~marred' /\ Promoting("pipeline") => pc'["monitor"] = "rest"
    BY <1>1, <1>3, <2>1 DEF Promoting
  <2> QED
    BY <1>1, <2>1, <2>2, OutsideStays DEF Promoting
<1> QED
  BY <1>4, <1>5, <1>6, <1>7, <1>8

\* A new candidate does not concern a rollback under way, nor the live model.
LEMMA TrainPromotes ==
    ASSUME PromoteInv, TypeInv', Dated', Train
    PROVE  PromoteInv'
<1> SUFFICES ASSUME ~marred' PROVE PromoteInv'
  BY DEF PromoteInv
<1>1. ~marred /\ TypeInv /\ pc["pipeline"] = "rest"
      /\ UNCHANGED <<champion, backups, job>>
      /\ "pipeline" \in Procs /\ "monitor" \in Procs /\ Procs = {"pipeline", "monitor"}
      /\ pc'["monitor"] = pc["monitor"] /\ pc'["pipeline"] = "trained"
  BY DEF Train, PromoteInv, TypeInv, ProcInv, Goto, Procs
<1>2. Alone /\ Labelled /\ Based /\ Prevs /\ \A p \in Procs : Faithful(p)
  BY <1>1 DEF PromoteInv
<1>3. \A m \in 1..Len(aucs) : aucs'[m] = aucs[m]
  BY <1>1 DEF Train, TypeInv, Trained
<1>4. Alone' /\ Ahead' /\ Prevs'
  BY <1>1, <1>2 DEF Alone, Ahead, Prevs, Promoting
<1>5. Labelled'
  BY <1>1, <1>2 DEF Labelled
<1>6. champion.label \in 1..Len(aucs)
  BY <1>1 DEF TypeInv, DirsInv, Known
<1>7. Based'
  BY <1>1, <1>2, <1>3, <1>6 DEF Based
<1>8. Faithful("pipeline")'
  BY <1>1 DEF Faithful
<1>9. Faithful("monitor")'
  <2>1. job["monitor"].src # Candidate /\ job["monitor"].result \in 1..Len(aucs)
    BY <1>1, Now DEF TypeInv, ProcInv
  <2>2. Exists(job["monitor"].src) => Source(job["monitor"].src).label \in 1..Len(aucs)
    BY <1>1, SourceKnown DEF Known
  <2> QED
    BY <1>1, <1>2, <1>3, <1>6, <2>1, <2>2 DEF Faithful, Exists, Source, Near
<1> QED
  BY <1>1, <1>4, <1>5, <1>7, <1>8, <1>9 DEF PromoteInv

\* A decision for a promotion: the other process is out of the way.
LEMMA DecidePromotes ==
    ASSUME PromoteInv, TypeInv', Dated', NEW p \in Procs, Decide(p), pc'[p] = "backup"
    PROVE  PromoteInv'
<1> SUFFICES ASSUME ~marred' PROVE PromoteInv'
  BY DEF PromoteInv
<1> DEFINE src == IF p = "pipeline" THEN Candidate ELSE job[p].src
<1>1. TypeInv /\ "pipeline" \in Procs /\ "monitor" \in Procs /\ Procs = {"pipeline", "monitor"}
      /\ pc \in [Procs -> Steps]
      /\ job \in [Procs -> [src : 1..MaxBackups \cup {Candidate, NoName},
                            result : 1..Len(aucs)]]
  BY DEF PromoteInv, TypeInv, ProcInv, Procs
<1>2. /\ pc[p] = "decide" /\ UNCHANGED <<aucs, champion, cand, backups>>
      /\ Fit(src) /\ (p = "pipeline" => Better(Source(src)))
      /\ job' = [job EXCEPT ![p] = [src |-> src, result |-> Latest(Source(src))]]
      /\ Goto(p, "backup") /\ marred' = (marred \/ (p = "pipeline" /\ Met(p)))
  BY <1>1 DEF Decide, Rest, Goto, dirs
<1>3. /\ ~marred
      /\ \A q \in Procs \ {p} : pc'[q] = pc[q] /\ job'[q] = job[q]
      /\ job'[p] = [src |-> src, result |-> Latest(Source(src))]
  BY <1>1, <1>2 DEF Goto
<1>4. Alone /\ Labelled /\ Based /\ Prevs /\ \A q \in Procs : Faithful(q)
  BY <1>3 DEF PromoteInv
<1>5. \A q \in Procs \ {p} : ~Promoting(q) /\ (q = "monitor" => pc[q] = "rest")
  <2>1. CASE p = "pipeline"
    <3>1. ~Met(p)
      BY <1>2, <2>1
    <3>2. pc["monitor"] \in Steps /\ pc["monitor"] # "trained"
      BY <1>1 DEF TypeInv, ProcInv
    <3> QED
      BY <1>1, <2>1, <3>1, <3>2 DEF Met, Promoting, Steps
  <2>2. CASE p = "monitor"
    BY <1>1, <1>2, <1>4, <2>2 DEF Alone
  <2> QED
    BY <1>1, <2>1, <2>2
<1>6. Labelled' /\ Based' /\ Prevs'
  BY <1>1, <1>2, <1>3, <1>4, <1>5 DEF Labelled, Based, Prevs, Promoting
<1>7. cand.model \in Nat \ {0} /\ cand.results = {cand.model}
  BY <1>1, Now DEF TypeInv, DirsInv, Known
<1>8. p = "pipeline" => Source(src) = cand /\ Latest(Source(src)) = cand.model
  BY <1>7, LatestOfOne DEF Source
<1>9. Alone'
  BY <1>1, <1>2, <1>3, <1>5, <1>8 DEF Alone, Promoting
<1>10. Ahead'
  <2>1. CASE p = "pipeline"
    BY <1>2, <1>8, <2>1 DEF Ahead, Better, BaselineOf
  <2>2. CASE p = "monitor"
    BY <1>1, <1>3, <1>5, <2>2 DEF Ahead, Promoting
  <2> QED
    BY <1>1, <2>1, <2>2
<1>11. ASSUME NEW q \in Procs
       PROVE  Faithful(q)'
  <2>1. CASE q = p
    <3>1. Near(aucs, Source(src).label, Latest(Source(src)))
      BY <1>2 DEF Fit, Coherent, Near
    <3>2. pc'[p] = "backup"
      OBVIOUS
    <3>3. Source(src)' = Source(src)
      BY <1>2, <1>3 DEF Source
    <3> QED
      BY <1>2, <1>3, <2>1, <3>1, <3>2 DEF Faithful, Source
  <2>2. CASE q # p
    BY <1>3, <1>5, <2>2 DEF Faithful, Promoting
  <2> QED
    BY <2>1, <2>2
<1> QED
  BY <1>6, <1>9, <1>10, <1>11 DEF PromoteInv

\* What every step of a promotion under way keeps: the other process is out of it.
LEMMA PromotionAlone ==
    ASSUME PromoteInv, TypeInv', ~marred', NEW p \in Procs, Promoting(p),
           NEW step, Goto(p, step), UNCHANGED <<aucs, cand, job, marred>>
    PROVE  /\ TypeInv /\ Alone /\ Labelled /\ Based /\ Prevs /\ Ahead /\ Faithful(p)
           /\ pc'[p] = step /\ ~marred
           /\ \A q \in Procs \ {p} : ~Promoting(q) /\ pc'[q] = pc[q] /\ Faithful(q)'
           /\ Alone'
<1>1. TypeInv /\ "pipeline" \in Procs /\ "monitor" \in Procs /\ Procs = {"pipeline", "monitor"}
      /\ pc \in [Procs -> Steps]
  BY DEF PromoteInv, TypeInv, ProcInv, Procs
<1>2. Alone /\ Labelled /\ Based /\ Prevs /\ Ahead /\ Faithful(p) /\ ~marred
  BY DEF PromoteInv
<1>3. pc'[p] = step /\ \A q \in Procs \ {p} : pc'[q] = pc[q]
  BY <1>1 DEF Goto
<1>4. \A q \in Procs \ {p} : ~Promoting(q)
  BY <1>1, <1>2 DEF Alone, Promoting
<1>5. \A q \in Procs \ {p} : Faithful(q)'
  BY <1>3, <1>4 DEF Faithful, Promoting
<1>6. Alone'
  BY <1>1, <1>2, <1>3, <1>4 DEF Alone, Promoting
<1> QED
  BY <1>1, <1>2, <1>3, <1>4, <1>5, <1>6

\* The backup is of a model with its own records, and what a rollback copies
\* from is what it was, or gone.
LEMMA BackupPromotes ==
    ASSUME PromoteInv, TypeInv', Dated', NEW p \in Procs, Backup(p)
    PROVE  PromoteInv'
<1> SUFFICES ASSUME ~marred' PROVE PromoteInv'
  BY DEF PromoteInv
<1>1. /\ pc[p] = "backup" /\ Goto(p, "copy")
      /\ UNCHANGED <<champion, cand, aucs, job, marred>>
      /\ DOMAIN backups' \subseteq DOMAIN backups \cup {stamp + 1}
      /\ \A b \in DOMAIN backups' :
            backups'[b] = IF b = stamp + 1 THEN champion ELSE backups[b]
  BY DEF Backup, Last
<1>2. /\ TypeInv /\ Alone /\ Labelled /\ Based /\ Prevs /\ Ahead /\ Faithful(p)
      /\ pc'[p] = "copy" /\ ~marred
      /\ \A q \in Procs \ {p} : ~Promoting(q) /\ pc'[q] = pc[q] /\ Faithful(q)'
      /\ Alone'
  BY <1>1, PromotionAlone DEF Promoting
<1>3. champion.model = champion.label
  BY <1>1, <1>2 DEF Labelled, Promoting
<1>4. Labelled' /\ Based' /\ Ahead'
  <2>1. Labelled'
    BY <1>1, <1>3 DEF Labelled
  <2>2. Based'
    BY <1>1, <1>2 DEF Based, Promoting
  <2>3. Ahead'
    BY <1>1, <1>2 DEF Ahead, Procs
  <2> QED
    BY <2>1, <2>2, <2>3
<1>5. Prevs'
  BY <1>1, <1>2, <1>3 DEF Prevs
<1>6. Faithful(p)'
  <2>1. job[p].src # stamp + 1 /\ stamp \in Nat /\ job[p].src \in Int
    BY <1>2, Now DEF PromoteInv, Dated, Candidate, NoName
  <2>2. ASSUME Exists(job[p].src)'
        PROVE  Exists(job[p].src) /\ Source(job[p].src)' = Source(job[p].src)
    BY <1>1, <2>1, <2>2 DEF Exists, Source
  <2> QED
    BY <1>1, <1>2, <2>2 DEF Faithful
<1> QED
  BY <1>2, <1>4, <1>5, <1>6 DEF PromoteInv

LEMMA CopyPromotes ==
    ASSUME PromoteInv, TypeInv', Dated', NEW p \in Procs, Copy(p)
    PROVE  PromoteInv'
<1> SUFFICES ASSUME ~marred' PROVE PromoteInv'
  BY DEF PromoteInv
<1>1. /\ pc[p] = "copy" /\ Goto(p, "record") /\ Exists(job[p].src)
      /\ UNCHANGED <<cand, backups, aucs, job, marred>>
      /\ champion' = [champion EXCEPT !.model = Source(job[p].src).model]
  BY DEF Copy
<1>2. /\ TypeInv /\ Alone /\ Prevs /\ Ahead /\ Faithful(p)
      /\ pc'[p] = "record" /\ ~marred
      /\ \A q \in Procs \ {p} : ~Promoting(q) /\ pc'[q] = pc[q] /\ Faithful(q)'
      /\ Alone'
  BY <1>1, PromotionAlone DEF Promoting
<1>3. champion'.model = Source(job[p].src).model
  BY <1>1, <1>2 DEF TypeInv, DirsInv, Known, Dir
<1>4. Labelled' /\ Based' /\ Prevs'
  BY <1>1, <1>2 DEF Labelled, Based, Prevs
<1>5. Ahead'
  BY <1>2 DEF Ahead, Promoting, Procs
<1>6. Faithful(p)'
  BY <1>1, <1>2, <1>3 DEF Faithful, Exists, Source
<1> QED
  BY <1>2, <1>4, <1>5, <1>6 DEF PromoteInv

\* With auc.txt the records are again those of the model files.
LEMMA RecordPromotes ==
    ASSUME PromoteInv, TypeInv', Dated', NEW p \in Procs, Record(p)
    PROVE  PromoteInv'
<1> SUFFICES ASSUME ~marred' PROVE PromoteInv'
  BY DEF PromoteInv
<1>1. /\ pc[p] = "record" /\ Goto(p, "baseline") /\ Exists(job[p].src)
      /\ UNCHANGED <<cand, backups, aucs, job, marred>>
      /\ champion' = [champion EXCEPT !.label = Source(job[p].src).label,
                                     !.results = @ \cup {job[p].result}]
  BY DEF Record
<1>2. /\ TypeInv /\ Alone /\ Prevs /\ Ahead /\ Faithful(p)
      /\ pc'[p] = "baseline" /\ ~marred
      /\ \A q \in Procs \ {p} : ~Promoting(q) /\ pc'[q] = pc[q] /\ Faithful(q)'
      /\ Alone'
  BY <1>1, PromotionAlone DEF Promoting
<1>3. champion'.label = Source(job[p].src).label /\ champion'.model = champion.model
  BY <1>1, <1>2 DEF TypeInv, DirsInv, Known, Dir
<1>4. Source(job[p].src).model = Source(job[p].src).label
  BY <1>1, <1>2 DEF Exists, Source, Prevs, TypeInv, DirsInv
<1>5. Labelled'
  BY <1>1, <1>2, <1>3, <1>4 DEF Labelled, Faithful
<1>6. Based' /\ Prevs'
  BY <1>1, <1>2 DEF Based, Prevs
<1>7. Ahead'
  BY <1>2 DEF Ahead, Promoting, Procs
<1>8. Faithful(p)'
  BY <1>1, <1>2, <1>3 DEF Faithful
<1> QED
  BY <1>2, <1>5, <1>6, <1>7, <1>8 DEF PromoteInv

\* The recorded baseline is the result that auc.txt was compared with.
LEMMA BaselinePromotes ==
    ASSUME PromoteInv, TypeInv', Dated', NEW p \in Procs, WriteBaseline(p)
    PROVE  PromoteInv'
<1> SUFFICES ASSUME ~marred' PROVE PromoteInv'
  BY DEF PromoteInv
<1>1. /\ pc[p] = "baseline" /\ Goto(p, "log")
      /\ UNCHANGED <<cand, backups, aucs, job, marred>>
      /\ champion' = [champion EXCEPT !.base = aucs[job[p].result]]
  BY DEF WriteBaseline
<1>2. /\ TypeInv /\ Alone /\ Labelled /\ Prevs /\ Ahead /\ Faithful(p)
      /\ pc'[p] = "log" /\ ~marred
      /\ \A q \in Procs \ {p} : ~Promoting(q) /\ pc'[q] = pc[q] /\ Faithful(q)'
      /\ Alone'
  BY <1>1, PromotionAlone DEF Promoting
<1>3. champion'.label = champion.label /\ champion'.model = champion.model
      /\ champion'.base = aucs[job[p].result]
  BY <1>1, <1>2 DEF TypeInv, DirsInv, Known, Dir
<1>4. champion.model = champion.label
  BY <1>1, <1>2 DEF Labelled, Promoting
<1>5. Based'
  <2>1. Near(aucs, champion.label, job[p].result)
    BY <1>1, <1>2 DEF Faithful
  <2>2. aucs[champion.label] \in Nat /\ aucs[job[p].result] \in Nat
    BY <1>2, Now DEF TypeInv, DirsInv, Known
  <2>3. Distance(aucs[job[p].result], aucs[champion.label]) <= Tolerance
    BY <2>1, <2>2 DEF Near, Distance
  <2> QED
    BY <1>1, <1>3, <2>3 DEF Based
<1>6. Labelled' /\ Prevs'
  BY <1>1, <1>3, <1>4, <1>2 DEF Labelled, Prevs
<1>7. Ahead'
  BY <1>2 DEF Ahead, Promoting, Procs
<1>8. Faithful(p)'
  BY <1>2 DEF Faithful
<1> QED
  BY <1>2, <1>6, <1>5, <1>7, <1>8 DEF PromoteInv

LEMMA PromoteStep ==
    ASSUME PromoteInv, [Next]_vars
    PROVE  PromoteInv'
<1>1. TypeInv' /\ Dated'
  BY NextTypes, DatedStep DEF PromoteInv
<1>2. CASE \E p \in Procs : SourceGone(p) \/ Crash(p)
  BY <1>1, <1>2 DEF SourceGone, Crash, PromoteInv
<1>3. CASE UNCHANGED vars
  BY <1>1, <1>3, OutsideStays DEF vars, dirs, PromoteInv, Alone, Promoting
<1>4. CASE TrainingFails \/ MeasureChampion \/ KeepEvidence \/ Check
           \/ (\E p \in Procs : Log(p))
  BY <1>1, <1>4, OutsideSteps
<1>5. CASE Train
  BY <1>1, <1>5, TrainPromotes
<1>6. ASSUME NEW p \in Procs, Decide(p)
      PROVE  PromoteInv'
  BY <1>1, <1>6, OutsideSteps, DecidePromotes
<1>7. ASSUME NEW p \in Procs, Backup(p) \/ Copy(p) \/ Record(p) \/ WriteBaseline(p)
      PROVE  PromoteInv'
  BY <1>1, <1>7, BackupPromotes, CopyPromotes, RecordPromotes, BaselinePromotes
<1> QED
  BY <1>2, <1>3, <1>4, <1>5, <1>6, <1>7 DEF Next

LEMMA InitPromotes == Init => PromoteInv
<1> SUFFICES ASSUME Init PROVE PromoteInv
  OBVIOUS
<1>1. TypeInv
  BY InitTypes
<1>2. "pipeline" \in Procs /\ pc = [p \in Procs |-> "rest"] /\ DOMAIN backups = {}
      /\ champion.model = champion.label /\ champion.base = 0
  BY DEF Init, Procs, FirstChampion, NoBase
<1>3. Alone /\ Labelled /\ Based /\ Prevs /\ Ahead /\ \A p \in Procs : Faithful(p)
  BY <1>2 DEF Alone, Labelled, Based, Prevs, Ahead, Faithful, Promoting, NoBase
<1>4. Dated
  BY DEF Init, Dated, NoJob, NoName
<1> QED
  BY <1>1, <1>3, <1>4 DEF PromoteInv

\* Whatever is promoted and rolled back, the model files and auc.txt of the live
\* directory and of every backup are of one model, as long as no promotion was
\* cut short or met another one.
THEOREM RecordsAgreeHolds == Spec => []RecordsAgree
<1>1. PromoteInv => RecordsAgree
  BY DEF PromoteInv, RecordsAgree, Quiet, Labelled, Prevs
<1>2. PromoteInv /\ [Next]_vars => PromoteInv'
  BY PromoteStep
<1> QED
  BY <1>1, <1>2, InitPromotes, PTL DEF Spec

\* robust_auc.json is within the tolerance of the live model's AUC, on the same
\* condition, although it may have been taken from another model's result.
THEOREM BaselineSoundHolds == Spec => []BaselineSound
<1>1. PromoteInv => BaselineSound
  BY DEF PromoteInv, BaselineSound, Quiet, Labelled, Based
<1>2. PromoteInv /\ [Next]_vars => PromoteInv'
  BY PromoteStep
<1> QED
  BY <1>1, <1>2, InitPromotes, PTL DEF Spec

\* The pipeline never makes the live model worse by more than the tolerance
\* exceeds --min-improvement, on the same condition.
THEOREM RatchetHolds == Spec => Ratchet
<1> DEFINE Step == Copy("pipeline") /\ ~marred' /\ champion.base > NoBase
                     => aucs[champion'.model] + Tolerance
                           >= aucs[champion.model] + MinImprovement
<1>1. PromoteInv /\ [Next]_vars => [Step]_vars
  <2> SUFFICES ASSUME PromoteInv, [Next]_vars, Copy("pipeline"), ~marred',
                      champion.base > NoBase
               PROVE  aucs[champion'.model] + Tolerance
                         >= aucs[champion.model] + MinImprovement
    OBVIOUS
  <2>1. /\ pc["pipeline"] = "copy" /\ ~marred /\ UNCHANGED aucs
        /\ champion' = [champion EXCEPT !.model = Source(job["pipeline"].src).model]
        /\ "pipeline" \in Procs /\ Procs = {"pipeline", "monitor"}
    BY DEF Copy, Procs
  <2>2. TypeInv /\ Alone /\ Labelled /\ Based /\ Ahead
    BY <2>1 DEF PromoteInv
  <2>3. pc["monitor"] = "rest" /\ Source(job["pipeline"].src) = cand
    BY <2>1, <2>2 DEF Alone, Promoting, Source
  <2>4. champion'.model = cand.model
    BY <2>1, <2>2, <2>3 DEF TypeInv, DirsInv, Known, Dir
  <2>5. champion.model = champion.label
        /\ Distance(champion.base, aucs[champion.label]) <= Tolerance
        /\ aucs[cand.model] >= champion.base + MinImprovement
    BY <2>1, <2>2, <2>3 DEF Labelled, Based, Ahead
  <2>6. aucs[champion.label] \in Nat /\ aucs[cand.model] \in Nat /\ champion.base \in Nat
    BY <2>2, Now DEF TypeInv, DirsInv, Known, Dir, NoBase, Damaged
  <2> QED
    BY <2>4, <2>5, <2>6 DEF Distance
<1>2. PromoteInv /\ [Next]_vars => PromoteInv'
  BY PromoteStep
<1> QED
  BY <1>1, <1>2, InitPromotes, PTL DEF Spec, Ratchet
=============================================================================
