------------------------------- MODULE Champion -------------------------------
(* app/training/champion_promote.py of the xgboost-ml service, and its two     *)
(* daily callers: the evening pipeline (scripts/full_pipeline_dd.sh), which    *)
(* trains a candidate and promotes it when it is better, and the rollback      *)
(* monitor (scripts/champion_rollback_monitor.py), which promotes the previous *)
(* champion back when the evidence has turned against the new one.             *)
(*                                                                             *)
(* A model is a number, in the order of training.  A model directory is the    *)
(* record of what its files are about.  AUCs are in hundredths, expectancies   *)
(* in steps of 0.2 points.  The live-score token, the sample sizes and the age *)
(* of the evidence appear as refusals that may come at any time.               *)
EXTENDS Integers, Sequences, FiniteSets, FiniteSetsExt

CONSTANTS
    Aucs,            \* ensemble_auc values a training may end with
    Levels,          \* expectancies a measurement may give
    FirstAuc,        \* auc.txt of the champion that is live at first
    MinAuc,          \* --min-auc 0.53
    MinImprovement,  \* --min-improvement 0.02
    LegacyCap,       \* --legacy-baseline-cap 0.53
    Tolerance,       \* 0.02 between auc.txt and the training result
    KeepBackups,     \* KEEP_BACKUPS = 3
    MaxModels, MaxBackups, MaxCrashes  \* bounds: trainings, backups, deaths

ASSUME ChampionAssumption ==
    /\ Aucs \subseteq Nat \ {0} /\ FirstAuc \in Nat \ {0}
    /\ Levels \subseteq Int
    /\ {MinAuc, MinImprovement, LegacyCap, Tolerance} \subseteq Nat
    /\ KeepBackups \in Nat \ {0}
    /\ {MaxModels, MaxBackups, MaxCrashes} \subseteq Nat

Procs == {"pipeline", "monitor"}
Models == 1..(MaxModels + 1)
Mixed == 0        \* model files of different models side by side
NoBase == 0       \* no robust_auc.json
Damaged == -1     \* a robust_auc.json that cannot be read
NoLevel == 99     \* no robust_oos.json
NoName == 0       \* no backup: champion_prev_<ts> is numbered from 1
Candidate == -1   \* the source of a promotion that is not a rollback

VARIABLES
    champion, cand,  \* directories champion and champion_cand
    backups,         \* the directories champion_prev_<ts>, by number
    stamp,           \* backups made so far
    aucs,            \* the ensemble_auc of each model trained
    swap,            \* prev_dir of the last line of champion_swaps.jsonl
    logged,          \* the backups there were when that line was written
    pc, job,         \* per process: where it stands, what it promotes
    crashes,
    \* history
    replaced,        \* the model that was live before the last replacement
    marred           \* a promotion was cut short or met another one

dirs == <<champion, cand, backups, stamp>>
vars == <<dirs, aucs, swap, logged, pc, job, crashes, replaced, marred>>

\* model: the model files; label: auc.txt; results: the training-result files;
\* base: robust_auc.json; oos: the expectancy of robust_oos.json.
Dir == [model : Models \cup {Mixed}, label : Models, results : SUBSET Models,
        base : Nat \cup {Damaged}, oos : Levels \cup {NoLevel}]
Job == [src : 1..MaxBackups \cup {Candidate, NoName}, result : Models]
NoJob == [src |-> NoName, result |-> 1]

TypeOK ==
    /\ champion \in Dir /\ cand \in Dir
    /\ DOMAIN backups \subseteq 1..stamp /\ \A b \in DOMAIN backups : backups[b] \in Dir
    /\ Cardinality(DOMAIN backups) <= KeepBackups
    /\ stamp \in 0..MaxBackups
    /\ DOMAIN aucs \subseteq Models /\ \A m \in DOMAIN aucs : aucs[m] \in Nat
    /\ champion.results \cup cand.results \subseteq DOMAIN aucs
    /\ swap \in 0..stamp /\ logged \in 0..stamp
    /\ pc \in [Procs -> {"rest", "trained", "decide", "backup", "copy", "record",
                         "baseline", "log"}]
    /\ job \in [Procs -> Job]
    /\ crashes \in 0..MaxCrashes
    /\ replaced \in Models \cup {Mixed} /\ marred \in BOOLEAN

\* The champion the gate was introduced for: no robust_auc.json yet.
FirstChampion == [model |-> 1, label |-> 1, results |-> {1}, base |-> NoBase,
                  oos |-> NoLevel]

Init ==
    /\ champion = FirstChampion /\ cand = FirstChampion
    /\ backups = <<>> /\ stamp = 0
    /\ aucs = <<FirstAuc>>
    /\ swap = NoName /\ logged = 0
    /\ pc = [p \in Procs |-> "rest"] /\ job = [p \in Procs |-> NoJob]
    /\ crashes = 0
    /\ replaced = 1 /\ marred = FALSE

Goto(p, step) == pc' = [pc EXCEPT ![p] = step]
Rest(p) == Goto(p, "rest") /\ job' = [job EXCEPT ![p] = NoJob]

\* Another promotion, or the line that follows it in the log, is under way.
Promoting(p) == pc[p] \in {"backup", "copy", "record", "baseline"}
Met(p) == \E q \in Procs \ {p} : Promoting(q) \/ pc[q] = "log" \/ pc["monitor"] = "decide"

Distance(a, b) == IF a <= b THEN b - a ELSE a - b

-----------------------------------------------------------------------------
(* The pipeline: train, measure *)

\* rm -rf of the candidate directory, training, and the evidence of the
\* candidate, which may fail to be measured.
Train ==
    /\ pc["pipeline"] = "rest" /\ Len(aucs) < Cardinality(Models)
    /\ LET m == Len(aucs) + 1 IN
          \E auc \in Aucs, oos \in Levels \cup {NoLevel} :
             /\ aucs' = Append(aucs, auc)
             /\ cand' = [model |-> m, label |-> m, results |-> {m},
                         base |-> NoBase, oos |-> oos]
    /\ Goto("pipeline", "trained")
    /\ UNCHANGED <<champion, backups, stamp, swap, logged, job, crashes, replaced, marred>>

\* The training failed or ran into its timeout: only the swap log is written.
TrainingFails ==
    /\ pc["pipeline"] = "rest"
    /\ Goto("pipeline", "log")
    /\ UNCHANGED <<dirs, aucs, swap, logged, job, crashes, replaced, marred>>

\* On Mondays the champion's own evidence is measured again.
MeasureChampion ==
    /\ pc["pipeline"] = "trained"
    /\ \E oos \in Levels : champion' = [champion EXCEPT !.oos = oos]
    /\ Goto("pipeline", "decide")
    /\ UNCHANGED <<cand, backups, stamp, aucs, swap, logged, job, crashes, replaced, marred>>

KeepEvidence ==
    /\ pc["pipeline"] = "trained"
    /\ Goto("pipeline", "decide")
    /\ UNCHANGED <<dirs, aucs, swap, logged, job, crashes, replaced, marred>>

-----------------------------------------------------------------------------
(* The monitor: verdict *)

\* degrade_pct is -0.2: one step.
Degraded(prev) ==
    /\ champion.oos # NoLevel /\ prev.oos # NoLevel
    /\ champion.oos - prev.oos <= -1

\* The last swap names the backup to compare with and to return to.
Check ==
    /\ pc["monitor"] = "rest"
    /\ swap \in DOMAIN backups /\ Degraded(backups[swap])
    /\ Goto("monitor", "decide")
    /\ job' = [job EXCEPT !["monitor"].src = swap]
    /\ marred' = (marred \/ Met("monitor"))
    /\ UNCHANGED <<dirs, aucs, swap, logged, crashes, replaced>>

-----------------------------------------------------------------------------
(* promote *)

Exists(src) == src = Candidate \/ src \in DOMAIN backups
Source(src) == IF src = Candidate THEN cand ELSE backups[src]

\* _latest_training_result: the last by name, which is the last trained.
Latest(d) == Max(d.results)

\* auc.txt of the candidate agrees with the result that is trusted.
Coherent(d) == Distance(aucs[d.label], aucs[Latest(d)]) <= Tolerance

Fit(src) == Exists(src) /\ Coherent(Source(src))

\* Mutant: the cap holds for a recorded baseline too.
BaselineCapped(d, cap) == Min({IF d.base > NoBase THEN d.base ELSE aucs[d.label], cap})

\* _champion_baseline: the recorded metric, or auc.txt up to the cap.
BaselineOf(d, cap) ==
    IF d.base > NoBase THEN d.base ELSE Min({aucs[d.label], cap})

\* The pipeline's flags: money evidence, floor and improvement.  A step of the
\* scale is more than the 0.1 points a candidate must be ahead.
Better(d) ==
    /\ d.oos # NoLevel /\ d.oos > 0
    /\ champion.oos # NoLevel /\ d.oos >= champion.oos + 1
    /\ aucs[Latest(d)] >= MinAuc
    /\ aucs[Latest(d)] >= BaselineOf(champion, LegacyCap) + MinImprovement

\* The monitor's flags (0.0, -1.0, 0.0, no evidence asked) let every coherent
\* candidate pass.
Decide(p) ==
    LET src == IF p = "pipeline" THEN Candidate ELSE job[p].src IN
    /\ pc[p] = "decide"
    /\ \/ /\ Fit(src)
          /\ p = "pipeline" => Better(Source(src))
          /\ job' = [job EXCEPT ![p] = [src |-> src, result |-> Latest(Source(src))]]
          /\ Goto(p, "backup")
          /\ marred' = (marred \/ (p = "pipeline" /\ Met(p)))
       \/ /\ p = "pipeline" \/ ~Fit(src)
          /\ IF p = "pipeline" THEN Goto(p, "log") /\ UNCHANGED job ELSE Rest(p)
          /\ UNCHANGED marred
    /\ UNCHANGED <<dirs, aucs, swap, logged, crashes, replaced>>

\* Mutant: one backup too many is kept.
LastMore(n, names) == {b \in names : Cardinality({c \in names : c > b}) <= n}

\* The last n backups by name.
Last(n, names) == {b \in names : Cardinality({c \in names : c > b}) < n}

\* _backup_champion: a copy under a new name, and all but the last three go.
Backup(p) ==
    /\ pc[p] = "backup" /\ stamp < MaxBackups
    /\ stamp' = stamp + 1
    /\ LET kept == Last(KeepBackups, DOMAIN backups \cup {stamp + 1})
       IN  backups' = [b \in kept |-> IF b = stamp + 1 THEN champion ELSE backups[b]]
    /\ Goto(p, "copy")
    /\ UNCHANGED <<champion, cand, aucs, swap, logged, job, crashes, replaced, marred>>

\* The model files and feature_names.json.
Copy(p) ==
    /\ pc[p] = "copy" /\ Exists(job[p].src)
    /\ champion' = [champion EXCEPT !.model = Source(job[p].src).model]
    /\ replaced' = champion.model
    /\ Goto(p, "record")
    /\ UNCHANGED <<cand, backups, stamp, aucs, swap, logged, job, crashes, marred>>

\* Mutant: auc.txt is not among the files copied.
RecordResult(p) ==
    /\ pc[p] = "record" /\ Exists(job[p].src)
    /\ champion' = [champion EXCEPT !.results = @ \cup {job[p].result}]
    /\ Goto(p, "baseline")
    /\ UNCHANGED <<cand, backups, stamp, aucs, swap, logged, job, crashes, replaced, marred>>

\* auc.txt and the training result, which joins those already there.
Record(p) ==
    /\ pc[p] = "record" /\ Exists(job[p].src)
    /\ champion' = [champion EXCEPT !.label = Source(job[p].src).label,
                                    !.results = @ \cup {job[p].result}]
    /\ Goto(p, "baseline")
    /\ UNCHANGED <<cand, backups, stamp, aucs, swap, logged, job, crashes, replaced, marred>>

\* Mutant: a baseline that is there already is kept.
WriteBaselineOnce(p) ==
    /\ pc[p] = "baseline"
    /\ champion' = [champion EXCEPT !.base = IF @ > NoBase THEN @ ELSE aucs[job[p].result]]
    /\ Goto(p, "log")
    /\ UNCHANGED <<cand, backups, stamp, aucs, swap, logged, job, crashes, replaced, marred>>

\* robust_auc.json; robust_oos.json stays what it was.
WriteBaseline(p) ==
    /\ pc[p] = "baseline"
    /\ champion' = [champion EXCEPT !.base = aucs[job[p].result]]
    /\ Goto(p, "log")
    /\ UNCHANGED <<cand, backups, stamp, aucs, swap, logged, job, crashes, replaced, marred>>

\* The backup a rollback copies from was pruned: the copy raises.
SourceGone(p) ==
    /\ pc[p] \in {"copy", "record"} /\ ~Exists(job[p].src)
    /\ marred' = TRUE
    /\ Rest(p)
    /\ UNCHANGED <<dirs, aucs, swap, logged, crashes, replaced>>

\* The container stops during a promotion, between two files or inside one; the
\* pipeline's script, on the host, may go on to the log.
Crash(p) ==
    /\ Promoting(p) /\ crashes < MaxCrashes
    /\ crashes' = crashes + 1
    /\ champion' \in CASE pc[p] = "copy" -> {champion, [champion EXCEPT !.model = Mixed]}
                       [] pc[p] = "record" /\ Exists(job[p].src) ->
                            {champion, [champion EXCEPT !.label = Source(job[p].src).label]}
                       [] pc[p] = "baseline" -> {champion, [champion EXCEPT !.base = Damaged]}
                       [] OTHER -> {champion}
    /\ marred' = TRUE
    /\ \/ Rest(p)
       \/ p = "pipeline" /\ Goto(p, "log") /\ job' = [job EXCEPT ![p] = NoJob]
    /\ UNCHANGED <<cand, backups, stamp, aucs, swap, logged, replaced>>

-----------------------------------------------------------------------------
(* log_champion_swap.py *)

\* prev_dir is the backup with the newest modification time.  copytree gives a
\* backup the time of the champion directory, which changes only when a file is
\* added to it: the more files a backup holds, the newer it is, and backups with
\* the same files have the same time.  A line that says the same is not repeated;
\* with no new backup it names the same one again.
Files(d) == Cardinality(d.results) + (IF d.base # NoBase THEN 1 ELSE 0)
                                   + (IF d.oos # NoLevel THEN 1 ELSE 0)
Newest == {b \in DOMAIN backups :
              \A c \in DOMAIN backups : Files(backups[c]) <= Files(backups[b])}

Log(p) ==
    /\ pc[p] = "log"
    /\ swap' \in IF logged = stamp THEN {swap} ELSE Newest
    /\ logged' = stamp
    /\ Rest(p)
    /\ UNCHANGED <<dirs, aucs, crashes, replaced, marred>>

-----------------------------------------------------------------------------
Next ==
    \/ Train \/ TrainingFails \/ MeasureChampion \/ KeepEvidence \/ Check
    \/ \E p \in Procs : \/ Decide(p) \/ Backup(p) \/ Copy(p) \/ Record(p)
                        \/ WriteBaseline(p) \/ SourceGone(p) \/ Crash(p) \/ Log(p)

Spec == Init /\ [][Next]_vars
-----------------------------------------------------------------------------
(* Properties *)

\* Between the copy of the model files and the last record.
Quiet == ~marred /\ \A p \in Procs : pc[p] \notin {"record", "baseline"}

\* As long as no promotion was cut short or met another one, the model files and
\* auc.txt are of one model, in the champion directory and in every backup:
\* what a rollback brings back is a model that was live.
RecordsAgree ==
    Quiet => /\ champion.model = champion.label
             /\ \A b \in DOMAIN backups : backups[b].model = backups[b].label

\* As long as no promotion was cut short or met another one, robust_auc.json
\* tells the AUC of the live model within the tolerance of auc.txt, and no
\* closer: training results pile up in the champion directory, go into its
\* backups, and a rollback trusts and records the last of them, which may be the
\* result of another model.
BaselineSound ==
    Quiet /\ champion.base > NoBase =>
        Distance(champion.base, aucs[champion.model]) <= Tolerance

\* Under the same proviso the pipeline never replaces a champion that has a
\* recorded baseline by a model less than --min-improvement better, up to that
\* tolerance, whatever rollbacks did before.  With the flags in use the two are
\* equal: the live model never gets worse.
Ratchet ==
    [][Copy("pipeline") /\ ~marred' /\ champion.base > NoBase
          => aucs[champion'.model] + Tolerance
                >= aucs[champion.model] + MinImprovement]_vars

\* champion_rollback_monitor.py:159 says of execute_rollback that it returns to
\* the immediately previous champion: a rollback that nothing disturbs brings
\* back the model that the last replacement took down.
RollbackRestores ==
    [][Copy("monitor") /\ ~marred' => champion'.model = replaced]_vars
=============================================================================
