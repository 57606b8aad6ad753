------------------------ MODULE EngineerCycleProofs ------------------------
(* Theorems about EngineerCycle, for any experiments and dependencies, any      *)
(* number of runs, ingests and faults, and any RETRY_MAX.                       *)
EXTENDS EngineerCycle, FiniteSetTheorems, TLAPS

LEMMA Parameters ==
    /\ Handed \subseteq Items /\ Commanded \subseteq Items
    /\ NoItem \notin Items /\ RetryMax \in Nat \ {0}
    /\ MaxRuns \in Nat /\ MaxIngests \in Nat /\ MaxFaults \in Nat
BY EngineerAssumption DEF EngineerAssumption

USE Parameters

Backlogs == [Items -> Entry]
Codes == {"ok", "lost", "failed"}

Pcs == {"idle", "flag", "gap", "rewrite", "resave", "promote", "save", "lock", "death",
        "orphan", "lostsave", "report", "mark", "start", "settle", "sent"}
States == [item : Items \cup {NoItem}, run : 0..MaxRuns, at : Nat]
Ticks == [pc : Pcs, led : Seq(Row), copy : Copies]
Children == [pc : {"none", "guard", "run", "load", "save", "refused", "leave"},
             run : 0..MaxRuns, item : Items \cup {NoItem}, rc : Codes, copy : Copies]
Others == [pc : {"idle", "append", "save", "handover"},
           item : Items \cup {NoItem}, copy : Copies]
Slips == SUBSET (0..MaxRuns)
Counts == [runs : 0..MaxRuns, ingests : 0..MaxIngests, faults : 0..MaxFaults,
           slipped : Slips]
Records == [item : Items, run : 0..MaxRuns, rc : Codes]

\* TypeOK, with a name for every set.
Sorts ==
    /\ backlog \in Backlogs /\ ledger \in Seq(Row) /\ log \in Seq(Records)
    /\ pidfile \in 0..MaxRuns /\ state \in States
    /\ tick \in Ticks /\ child \in Children /\ other \in Others /\ count \in Counts

\* Where the tick holds a copy of the backlog.
Holding == {"rewrite", "resave", "save", "lostsave"}

\* What a process has loaded is there where it is saved, and what it speaks of
\* is an experiment.
Loaded ==
    /\ tick.pc \in Holding => tick.copy \in Backlogs
    /\ child.pc = "save" => child.copy \in Backlogs
    /\ other.pc # "idle" => other.copy \in Backlogs /\ other.item \in Items
    /\ child.pc # "none" => child.item \in Items /\ child.run \in 1..MaxRuns

TypeInv == Sorts /\ Loaded

Working == child.pc \in {"guard", "run", "load", "save", "leave"}
Looked == {"death", "orphan", "lostsave", "report", "mark", "sent", "start"}
\* Where the tick deals with the death of the run that state.json speaks of.
Death == {"death", "orphan", "lostsave"}

\* The files name the run that is under way, so that no tick gets past its look
\* at them meanwhile, and tell of no run that was not started.
Named ==
    /\ state # NoState => state.item \in Items /\ state.run \in 1..count.runs
    /\ state.at <= Len(log)
    /\ Working => /\ pidfile = child.run /\ state.run = child.run
                  /\ state.item = child.item
                  /\ tick.pc \notin Looked
    /\ child.pc = "refused" => \/ pidfile = child.run /\ state.run = child.run
                                  /\ tick.pc \notin Looked
                               \/ pidfile = 0 /\ state = NoState
    /\ child.pc # "none" => child.run \in 1..count.runs
    /\ tick.pc \in Death => state # NoState /\ child.pc = "none"

-----------------------------------------------------------------------------
(* One row per run *)

SameRow(r, q) == r.run = q.run /\ r.item = q.item /\ r.at = q.at /\ r.rc = q.rc

\* The copy of the ledger is what the ledger began with: only the tick
\* rewrites it.
Begins(led, all) == Len(led) <= Len(all) /\ \A j \in DOMAIN led : SameRow(led[j], all[j])

\* A row of the run that state.json speaks of is found by HasRecord, and a run
\* that has not ended has no row.
RowsInv ==
    /\ Begins(tick.led, ledger)
    /\ OneRowPerRun
    /\ \A j \in DOMAIN ledger :
          /\ ledger[j].run <= count.runs
          /\ ledger[j].run # 0 /\ ledger[j].run = state.run =>
                ledger[j].item = state.item /\ ledger[j].at > state.at
          /\ child.pc \in {"guard", "run"} => ledger[j].run # child.run

-----------------------------------------------------------------------------
(* Closed is earned *)

Has(l, item, rcs) == \E k \in DOMAIN l : l[k].item = item /\ l[k].rc \in rcs
Rows(l, item) == {k \in DOMAIN l : l[k].item = item}

\* The attempts on record that no save of the backlog counts yet.
TickOwes(i) == IF tick.pc \in {"orphan", "lostsave"} /\ state.item = i THEN 1 ELSE 0
ChildOwes(i) == IF child.pc \in {"load", "save"} /\ child.item = i THEN 1 ELSE 0
OtherOwes(i) == IF other.pc = "save" /\ other.item = i THEN 1 ELSE 0
Owes == [i \in Items |-> TickOwes(i) + ChildOwes(i) + OtherOwes(i)]

\* A backlog counts no attempt that is not on record, and closes only what is
\* earned.
Earned(copy, l, owes) ==
    \A i \in Items :
        /\ copy[i].tries + owes[i] <= Cardinality(Rows(l, i))
        /\ copy[i].status = "done" => Has(l, i, {"ok"})
        /\ copy[i].status = "failed" =>
              \/ Has(l, i, {"failed"})
              \/ Cardinality(Rows(l, i)) >= RetryMax /\ Has(l, i, {"lost"})

EarnedInv ==
    /\ Earned(backlog, log, Owes)
    /\ tick.pc \in Holding => Earned(tick.copy, log, Owes)
    /\ child.pc = "save" => Earned(child.copy, log, Owes)
    /\ other.pc # "idle" => Earned(other.copy, log, Owes)
    /\ tick.pc \in {"orphan", "lostsave"} => Has(log, state.item, {"lost"})
    /\ child.pc \in {"load", "save"} => Has(log, child.item, {child.rc})
    /\ other.pc = "save" => Has(log, other.item, {"ok"})

-----------------------------------------------------------------------------
(* Facts about the operators of the model *)

LEMMA RetoldRows ==
    ASSUME NEW led \in Seq(Row), NEW from,
           NEW to \in {"no", "now", "delivered", "failed", "old"}
    PROVE  /\ Retold(led, from, to) \in Seq(Row)
           /\ Len(Retold(led, from, to)) = Len(led)
           /\ \A j \in 1..Len(led) : SameRow(Retold(led, from, to)[j], led[j])
<1> DEFINE New(j) == IF led[j].told = from THEN [led[j] EXCEPT !.told = to] ELSE led[j]
<1>1. ASSUME NEW j \in 1..Len(led) PROVE New(j) \in Row /\ SameRow(New(j), led[j])
  <2>1. led[j] \in Row
    OBVIOUS
  <2> QED
    BY <2>1 DEF Row, SameRow
<1> HIDE DEF New
<1>2. Retold(led, from, to) = [j \in 1..Len(led) |-> New(j)]
  BY DEF Retold, New
<1>3. [j \in 1..Len(led) |-> New(j)] \in [1..Len(led) -> Row]
  BY <1>1
<1> QED
  BY <1>1, <1>2, <1>3

LEMMA JudgedRows ==
    ASSUME NEW led \in Seq(Row)
    PROVE  /\ Judged(led) \in Seq(Row)
           /\ Len(Judged(led)) = Len(led)
           /\ \A j \in 1..Len(led) : SameRow(Judged(led)[j], led[j])
<1> DEFINE New(j) == [led[j] EXCEPT !.judged = TRUE]
<1>1. ASSUME NEW j \in 1..Len(led) PROVE New(j) \in Row /\ SameRow(New(j), led[j])
  <2>1. led[j] \in Row
    OBVIOUS
  <2> QED
    BY <2>1 DEF Row, SameRow
<1> HIDE DEF New
<1>2. Judged(led) = [j \in 1..Len(led) |-> New(j)]
  BY DEF Judged, New
<1>3. [j \in 1..Len(led) |-> New(j)] \in [1..Len(led) -> Row]
  BY <1>1
<1> QED
  BY <1>1, <1>2, <1>3

LEMMA AttemptedBacklog ==
    ASSUME NEW copy \in Backlogs, NEW item \in Items, NEW rc \in Codes
    PROVE  Attempted(copy, item, rc) \in Backlogs
<1> DEFINE tries == copy[item].tries + 1
<1>1. [status |-> StatusAfter(rc, tries), tries |-> tries] \in Entry
  BY DEF Backlogs, Entry, StatusAfter, Codes
<1> QED
  BY <1>1 DEF Attempted, Backlogs

LEMMA AppendedTypes ==
    ASSUME Sorts, NEW item \in Items, NEW run \in 0..MaxRuns, NEW rc \in Codes,
           NEW told \in {"no", "now"}, Appended(item, run, rc, told)
    PROVE  /\ ledger' \in Seq(Row) /\ Len(ledger') = Len(ledger) + 1
           /\ log' \in Seq(Records)
           /\ Len(log') = Len(log) + 1
<1> DEFINE row == [item |-> item, run |-> run, rc |-> rc, told |-> told,
                   at |-> Len(log) + 1, judged |-> rc # "ok" \/ item \notin Unparsed]
<1>1. row \in Row /\ [item |-> item, run |-> run, rc |-> rc] \in Records
  BY DEF Row, Sorts, Codes, Records
<1>2. ledger' = Append(ledger, row) /\ log' = Append(log, [item |-> item, run |-> run, rc |-> rc])
  BY DEF Appended
<1> QED
  BY <1>1, <1>2 DEF Sorts

-----------------------------------------------------------------------------
(* Types *)

LEMMA TypeIsSorts == TypeOK <=> Sorts
BY DEF TypeOK, Sorts, Backlogs, Codes, Pcs, States, Ticks, Children, Others, Counts, Slips, Records

LEMMA NoneValues ==
    Idle \in Ticks /\ NoChild \in Children /\ NoOther \in Others /\ NoState \in States
BY DEF Idle, Ticks, NoChild, Children, NoOther, Others, NoState, States, Copies, Pcs, Codes

LEMMA FaultCounts ==
    \A c \in Counts : c.faults < MaxFaults =>
        /\ [c EXCEPT !.faults = @ + 1] \in Counts
        /\ \A run \in 0..MaxRuns :
              [c EXCEPT !.faults = @ + 1, !.slipped = @ \cup {run}] \in Counts
        /\ [c EXCEPT !.faults = @ + 1, !.slipped = @] \in Counts
<1> SUFFICES ASSUME NEW c \in Counts, c.faults < MaxFaults
             PROVE  /\ [c EXCEPT !.faults = @ + 1] \in Counts
                    /\ \A run \in 0..MaxRuns :
                          [c EXCEPT !.faults = @ + 1, !.slipped = @ \cup {run}] \in Counts
                    /\ [c EXCEPT !.faults = @ + 1, !.slipped = @] \in Counts
  OBVIOUS
<1>1. /\ [c EXCEPT !.faults = @ + 1] \in Counts
      /\ \A more \in Slips : [c EXCEPT !.faults = @ + 1, !.slipped = more] \in Counts
  <2> DEFINE n == c.faults + 1
  <2>1. n \in 0..MaxFaults
    BY DEF Counts
  <2> HIDE DEF n
  <2>2. [c EXCEPT !.faults = n] \in Counts
    BY <2>1 DEF Counts
  <2>3. ASSUME NEW more \in Slips PROVE [c EXCEPT !.faults = n, !.slipped = more] \in Counts
    BY <2>1 DEF Counts
  <2> QED
    BY <2>2, <2>3 DEF n
<1>2. c.slipped \in Slips /\ \A run \in 0..MaxRuns : c.slipped \cup {run} \in Slips
  BY DEF Counts, Slips
<1> QED
  BY <1>1, <1>2

\* The values the actions give to the processes.
LEMMA TickValues ==
    ASSUME NEW pc \in Pcs, NEW led \in Seq(Row), NEW copy \in Backlogs
    PROVE  /\ [Idle EXCEPT !.pc = pc] \in Ticks
           /\ [Idle EXCEPT !.pc = pc, !.led = led] \in Ticks
           /\ [Idle EXCEPT !.pc = pc, !.copy = copy] \in Ticks
           /\ [pc |-> pc, led |-> led, copy |-> copy] \in Ticks
           /\ \A t \in Ticks : [t EXCEPT !.pc = pc] \in Ticks
<1>1. Idle \in Ticks
  BY NoneValues
<1>2. \A t \in Ticks : [t EXCEPT !.pc = pc] \in Ticks
  BY DEF Ticks
<1>3. [Idle EXCEPT !.pc = pc, !.led = led] \in Ticks
  BY <1>1 DEF Ticks
<1>4. copy \in Copies
  BY DEF Copies, Backlogs
<1>5. [Idle EXCEPT !.pc = pc, !.copy = copy] \in Ticks
  BY <1>1, <1>4 DEF Ticks
<1>6. [pc |-> pc, led |-> led, copy |-> copy] \in Ticks
  BY <1>4 DEF Ticks
<1> QED
  BY <1>1, <1>2, <1>3, <1>5, <1>6

LEMMA TypeInit == Init => TypeInv
<1> SUFFICES ASSUME Init PROVE TypeInv
  OBVIOUS
<1>1. backlog \in Backlogs
  BY DEF Init, Backlogs, Entry
<1>2. Sorts
  BY <1>1, NoneValues DEF Init, Sorts, Counts, Slips
<1> QED
  BY <1>2 DEF Init, TypeInv, Loaded, Idle, NoChild, NoOther, Holding

LEMMA TypeStep == TypeInv /\ Named /\ [Next]_vars => TypeInv'
<1> SUFFICES ASSUME TypeInv, Named, [Next]_vars PROVE TypeInv'
  OBVIOUS
<1>types. Sorts /\ Loaded
  BY DEF TypeInv
<1>s. ASSUME backlog' \in Backlogs, ledger' \in Seq(Row), log' \in Seq(Records),
             pidfile' \in 0..MaxRuns, state' \in States, tick' \in Ticks,
             child' \in Children, other' \in Others, count' \in Counts
      PROVE  Sorts'
  BY <1>s DEF Sorts
<1>go. ASSUME NEW pc \in Pcs \ Holding, Goto(pc)
       PROVE  tick' \in Ticks /\ tick'.pc = pc
  <2>1. <<>> \in Seq(Row)
    OBVIOUS
  <2>2. [Idle EXCEPT !.pc = pc] \in Ticks
    BY NoneValues, TickValues, <1>types DEF Sorts
  <2> QED
    BY <1>go, <2>2 DEF Goto, Idle
<1> USE <1>types
<1> DEFINE Held == /\ tick'.pc \notin Holding
                   /\ UNCHANGED <<child, other>>
<1>held. Held => Loaded'
  BY DEF Loaded
<1> HIDE DEF Held
<1>1. CASE TickBegin
  <2>0. tick' \in Ticks /\ tick'.pc \in {"gap", "flag"}
    <3>1. CASE Goto("gap")
      BY <3>1, <1>go DEF Pcs, Holding
    <3>2. CASE tick' = [Idle EXCEPT !.pc = "flag", !.led = ledger]
      BY <3>2, TickValues DEF Sorts, Pcs, Idle
    <3> QED
      BY <1>1, <3>1, <3>2 DEF TickBegin
  <2>1. Sorts'
    BY <1>1, <2>0, <1>s DEF TickBegin, TickOnly, NoFiles, files, Sorts
  <2>2. Loaded'
    BY <1>1, <2>0, <1>held DEF Held, Holding, TickBegin, TickOnly
  <2> QED
    BY <2>1, <2>2 DEF TypeInv
<1>2. CASE TickFlag
  <2>0. tick' \in Ticks /\ tick'.pc = "gap"
    BY <1>2, <1>go DEF TickFlag, Pcs, Holding
  <2>x. ledger' \in Seq(Row)
    BY <1>2, RetoldRows DEF TickFlag, Flagged, Sorts, Ticks
  <2>1. Sorts'
    BY <1>2, <2>0, <2>x, <1>s DEF TickFlag, TickOnly, Sorts, Counts
  <2>2. Loaded'
    BY <1>2, <2>0, <1>held DEF Held, Holding, TickFlag, TickOnly
  <2> QED
    BY <2>1, <2>2 DEF TypeInv
<1>3. CASE TickGap
  <2>0. tick' \in Ticks /\ (tick'.pc = "promote" \/ tick'.copy \in Backlogs)
    <3>1. CASE Goto("promote")
      BY <3>1, <1>go DEF Pcs, Holding
    <3>2. CASE tick' = [pc |-> "rewrite", led |-> ledger, copy |-> backlog]
      BY <3>2, TickValues DEF Sorts, Pcs
    <3> QED
      BY <1>3, <3>1, <3>2 DEF TickGap
  <2>1. Sorts'
    BY <1>3, <2>0, <1>s DEF TickGap, TickOnly, NoFiles, files, Sorts
  <2>2. Loaded'
    BY <1>3, <2>0 DEF Loaded, Holding, TickGap, TickOnly
  <2> QED
    BY <2>1, <2>2 DEF TypeInv
<1>4. CASE TickRewrite
  <2>a. tick' = [tick EXCEPT !.pc = "resave"] /\ tick.copy \in Backlogs
    BY <1>4 DEF TickRewrite, Loaded, Holding, At
  <2>0. tick' \in Ticks /\ tick'.copy \in Backlogs
    BY <2>a DEF Sorts, Pcs, Ticks
  <2>x. ledger' \in Seq(Row)
    BY <1>4, JudgedRows DEF TickRewrite, Sorts, Ticks
  <2>1. Sorts'
    BY <1>4, <2>0, <2>x, <1>s DEF TickRewrite, TickOnly, Sorts
  <2>2. Loaded'
    BY <1>4, <2>0 DEF Loaded, TickRewrite, TickOnly
  <2> QED
    BY <2>1, <2>2 DEF TypeInv
<1>5. CASE TickResave
  <2>0. tick' \in Ticks /\ tick'.pc = "promote"
    BY <1>5, <1>go DEF TickResave, Pcs, Holding
  <2>x. backlog' \in Backlogs
    BY <1>5 DEF TickResave, At, Loaded, Holding
  <2>1. Sorts'
    BY <1>5, <2>0, <2>x, <1>s DEF TickResave, TickOnly, Sorts, Counts
  <2>2. Loaded'
    BY <1>5, <2>0, <1>held DEF Held, Holding, TickResave, TickOnly
  <2> QED
    BY <2>1, <2>2 DEF TypeInv
<1>6. CASE TickPromote
  <2>0. tick' \in Ticks /\ (tick'.pc = "lock" \/ tick'.copy \in Backlogs)
    <3>1. CASE Goto("lock")
      BY <3>1, <1>go DEF Pcs, Holding
    <3>2. CASE tick' = [Idle EXCEPT !.pc = "save", !.copy = backlog]
      BY <3>2, TickValues DEF Sorts, Pcs, Idle
    <3> QED
      BY <1>6, <3>1, <3>2 DEF TickPromote
  <2>1. Sorts'
    BY <1>6, <2>0, <1>s DEF TickPromote, TickOnly, NoFiles, files, Sorts
  <2>2. Loaded'
    BY <1>6, <2>0 DEF Loaded, Holding, TickPromote, TickOnly
  <2> QED
    BY <2>1, <2>2 DEF TypeInv
<1>7. CASE TickSave
  <2>0. tick' \in Ticks /\ tick'.pc = "lock"
    BY <1>7, <1>go DEF TickSave, Pcs, Holding
  <2>a. PICK i \in Waiting(tick.copy) : backlog' = Promoted(tick.copy, i)
    BY <1>7 DEF TickSave
  <2>b. tick.copy \in Backlogs
    BY <1>7 DEF TickSave, At, Loaded, Holding
  <2>x. backlog' \in Backlogs
    BY <2>a, <2>b DEF Promoted, Waiting, Backlogs, Entry
  <2>1. Sorts'
    BY <1>7, <2>0, <2>x, <1>s DEF TickSave, TickOnly, Sorts, Counts
  <2>2. Loaded'
    BY <1>7, <2>0, <1>held DEF Held, Holding, TickSave, TickOnly
  <2> QED
    BY <2>1, <2>2 DEF TypeInv
<1>8. CASE TickLock
  <2>1. tick' \in Ticks /\ tick'.pc \in {"idle", "death", "report"}
    BY <1>8, <1>go DEF TickLock, Pcs, Holding
  <2>2. pidfile' \in 0..MaxRuns
    BY <1>8 DEF TickLock, Sorts
  <2> QED
    BY <1>8, <2>1, <2>2, <1>s, <1>held DEF TickLock, TickOnly, Sorts, Held, Holding, TypeInv
<1>31. CASE TickDeath
  <2>1. tick' \in Ticks /\ tick'.pc \in {"idle", "orphan", "report"}
    BY <1>31, <1>go DEF TickDeath, Pcs, Holding
  <2>2. state.item \in Items /\ state.run \in 0..MaxRuns
    BY <1>31 DEF TickDeath, At, Named, Death, Sorts, States
  <2>3. ledger' \in Seq(Row) /\ log' \in Seq(Records)
    BY <1>31, <2>2, AppendedTypes DEF TickDeath, Codes, Sorts
  <2>4. count' \in Counts
    BY <1>31, <2>2, FaultCounts DEF TickDeath, Sorts
  <2> QED
    BY <1>31, <2>1, <2>3, <2>4, <1>s, <1>held DEF TickDeath, Sorts, Held, Holding, TypeInv
<1>9. CASE TickOrphan
  <2>0. tick' \in Ticks /\ tick'.copy \in Backlogs
    BY <1>9, TickValues DEF TickOrphan, Sorts, Pcs, Idle
  <2>1. Sorts'
    BY <1>9, <2>0, <1>s DEF TickOrphan, TickOnly, NoFiles, files, Sorts
  <2>2. Loaded'
    BY <1>9, <2>0 DEF Loaded, TickOrphan, TickOnly
  <2> QED
    BY <2>1, <2>2 DEF TypeInv
<1>10. CASE TickLostSave
  <2>0. tick' \in Ticks /\ tick'.pc = "sent"
    BY <1>10, <1>go DEF TickLostSave, Pcs, Holding
  <2>a. tick.copy \in Backlogs /\ state.item \in Items
    BY <1>10 DEF TickLostSave, At, Loaded, Holding, Named, Death
  <2>x. backlog' \in Backlogs
    BY <1>10, <2>a, AttemptedBacklog DEF TickLostSave, Codes
  <2>1. Sorts'
    BY <1>10, <2>0, <2>x, <1>s DEF TickLostSave, TickOnly, Sorts, Counts
  <2>2. Loaded'
    BY <1>10, <2>0, <1>held DEF Held, Holding, TickLostSave, TickOnly
  <2> QED
    BY <2>1, <2>2 DEF TypeInv
<1>11. CASE TickReport
  <2>0. tick' \in Ticks /\ tick'.pc \in {"start", "mark"}
    <3>1. CASE Goto("start")
      BY <3>1, <1>go DEF Pcs, Holding
    <3>2. CASE tick' = [Idle EXCEPT !.pc = "mark", !.led = ledger]
      BY <3>2, TickValues DEF Sorts, Pcs, Idle
    <3> QED
      BY <1>11, <3>1, <3>2 DEF TickReport
  <2>1. Sorts'
    BY <1>11, <2>0, <1>s DEF TickReport, TickOnly, NoFiles, files, Sorts
  <2>2. Loaded'
    BY <1>11, <2>0, <1>held DEF Held, Holding, TickReport, TickOnly
  <2> QED
    BY <2>1, <2>2 DEF TypeInv
<1>12. CASE TickMark
  <2>0. tick' \in Ticks /\ tick'.pc = "sent"
    BY <1>12, <1>go DEF TickMark, Pcs, Holding
  <2>x. ledger' \in Seq(Row)
    BY <1>12, RetoldRows DEF TickMark, Sorts, Ticks
  <2>1. Sorts'
    BY <1>12, <2>0, <2>x, <1>s DEF TickMark, TickOnly, Sorts, Counts
  <2>2. Loaded'
    BY <1>12, <2>0, <1>held DEF Held, Holding, TickMark, TickOnly
  <2> QED
    BY <2>1, <2>2 DEF TypeInv
<1>13. CASE TickSent
  <2>0. tick' \in Ticks /\ tick'.pc = "idle"
    BY <1>13, <1>go DEF TickSent, Pcs, Holding
  <2>a. \A to \in {"delivered", "failed"} : Retold(ledger, "now", to) \in Seq(Row)
    BY RetoldRows DEF Sorts
  <2>x. ledger' \in Seq(Row)
    BY <1>13, <2>a DEF TickSent
  <2>1. Sorts'
    BY <1>13, <2>0, <2>x, <1>s DEF TickSent, Sorts, Counts
  <2>2. Loaded'
    BY <1>13, <2>0, <1>held DEF Held, Holding, TickSent
  <2> QED
    BY <2>1, <2>2 DEF TypeInv
<1>14. CASE TickStart
  <2> DEFINE run == count.runs + 1
  <2>a. PICK i \in Startable(backlog, ledger) :
          /\ child' = [NoChild EXCEPT !.pc = "guard", !.run = run, !.item = i]
          /\ pidfile' = run
          /\ state' = [item |-> i, run |-> run, at |-> Len(log)]
          /\ count' = [count EXCEPT !.runs = run]
    BY <1>14 DEF TickStart
  <2>b. i \in Items /\ run \in 1..MaxRuns
    BY <1>14 DEF TickStart, Startable, Sorts, Counts
  <2>0. tick' \in Ticks /\ tick'.pc = "settle"
    BY <1>14, <1>go DEF TickStart, Pcs, Holding
  <2>c. child' \in Children
    <3>1. child' = [pc |-> "guard", run |-> run, item |-> i, rc |-> "ok", copy |-> Unread]
      BY <2>a DEF NoChild
    <3>2. run \in 0..MaxRuns /\ Unread \in Copies
      BY <2>b DEF Copies
    <3> HIDE DEF run
    <3> QED
      BY <2>b, <3>1, <3>2 DEF Children, Codes
  <2>d. state' \in States
    <3>1. run \in 0..MaxRuns /\ Len(log) \in Nat
      BY <2>b DEF Sorts
    <3> HIDE DEF run
    <3> QED
      BY <2>a, <2>b, <3>1 DEF States
  <2>e. count' \in Counts
    <3>1. count \in Counts /\ run \in 0..MaxRuns
      BY <2>b DEF Sorts
    <3> HIDE DEF run
    <3> QED
      BY <2>a, <3>1 DEF Counts
  <2>1. Sorts'
    BY <1>14, <2>0, <2>a, <2>b, <2>c, <2>d, <2>e, <1>s DEF TickStart, Sorts
  <2>2. Loaded'
    BY <1>14, <2>0, <2>a, <2>b DEF Loaded, TickStart, NoChild, Holding
  <2> QED
    BY <2>1, <2>2 DEF TypeInv
<1>15. CASE TickWait
  <2>0. tick' \in Ticks /\ tick'.pc = "idle"
    BY <1>15, <1>go DEF TickWait, Pcs, Holding
  <2>1. Sorts'
    BY <1>15, <2>0, <1>s DEF TickWait, TickOnly, NoFiles, files, Sorts, Counts
  <2>2. Loaded'
    BY <1>15, <2>0, <1>held DEF Held, Holding, TickWait, TickOnly
  <2> QED
    BY <2>1, <2>2 DEF TypeInv
<1>16. CASE TickSettle
  <2>0. tick' \in Ticks /\ tick'.pc = "idle"
    BY <1>16, <1>go DEF TickSettle, Pcs, Holding
  <2>x. state' \in States
    BY <1>16, NoneValues DEF TickSettle, Sorts
  <2>1. Sorts'
    BY <1>16, <2>0, <2>x, <1>s DEF TickSettle, TickOnly, Sorts, Counts
  <2>2. Loaded'
    BY <1>16, <2>0, <1>held DEF Held, Holding, TickSettle, TickOnly
  <2> QED
    BY <2>1, <2>2 DEF TypeInv
<1>17. CASE RunGo
  <2>a. child' \in Children /\ child'.item = child.item /\ child'.run = child.run
        /\ child'.pc # "save"
    BY <1>17 DEF RunGo, Sorts, Children
  <2>1. Sorts'
    BY <1>17, <2>a, <1>s DEF RunGo, RunOnly, NoFiles, files, Sorts
  <2>2. Loaded'
    BY <1>17, <2>a, <1>types DEF RunGo, RunOnly, Loaded
  <2> QED
    BY <2>1, <2>2 DEF TypeInv
<1>18. CASE RunRefuse
  <2>a. child' \in Children /\ child'.item = child.item /\ child'.run = child.run
        /\ child'.pc # "save"
    BY <1>18 DEF RunRefuse, Sorts, Children
  <2>1. Sorts'
    BY <1>18, <2>a, <1>s DEF RunRefuse, RunOnly, NoFiles, files, Sorts
  <2>2. Loaded'
    BY <1>18, <2>a, <1>types DEF RunRefuse, RunOnly, Loaded
  <2> QED
    BY <2>1, <2>2 DEF TypeInv
<1>19. CASE RunEnd
  <2>a. PICK rc \in Codes : /\ Appended(child.item, child.run, rc, "no")
                            /\ child' = [child EXCEPT !.pc = "load", !.rc = rc]
    BY <1>19 DEF RunEnd, Codes
  <2>b. child' \in Children /\ child'.item = child.item /\ child'.run = child.run
        /\ child'.pc = "load"
    BY <2>a DEF Sorts, Children
  <2>c. child.item \in Items /\ child.run \in 0..MaxRuns
    BY <1>19 DEF RunEnd, Loaded
  <2>d. ledger' \in Seq(Row) /\ log' \in Seq(Records)
    BY <2>a, <2>c, AppendedTypes
  <2>1. Sorts'
    BY <1>19, <2>b, <2>d, <1>s DEF RunEnd, RunOnly, Sorts
  <2>2. Loaded'
    BY <1>19, <2>b, <2>d, <1>types DEF RunEnd, RunOnly, Loaded
  <2> QED
    BY <2>1, <2>2 DEF TypeInv
<1>20. CASE RunLoad
  <2>a. child' \in Children /\ child'.item = child.item /\ child'.run = child.run
        /\ child'.copy \in Backlogs
    BY <1>20 DEF RunLoad, Sorts, Children, Copies, Backlogs
  <2>1. Sorts'
    BY <1>20, <2>a, <1>s DEF RunLoad, RunOnly, NoFiles, files, Sorts
  <2>2. Loaded'
    BY <1>20, <2>a, <1>types DEF RunLoad, RunOnly, Loaded
  <2> QED
    BY <2>1, <2>2 DEF TypeInv
<1>21. CASE RunSave
  <2>a. child' \in Children /\ child'.item = child.item /\ child'.run = child.run
        /\ child'.pc = "leave"
    BY <1>21 DEF RunSave, Sorts, Children, Copies
  <2>b. child.copy \in Backlogs /\ child.item \in Items /\ child.rc \in Codes
    BY <1>21 DEF RunSave, Loaded, Sorts, Children
  <2>c. Attempted(child.copy, child.item, child.rc) \in Backlogs
    BY <2>b, AttemptedBacklog
  <2>d. backlog' \in Backlogs
    BY <1>21, <2>c DEF RunSave, Sorts
  <2>e. count' \in Counts
    BY <1>21, FaultCounts DEF RunSave, Sorts
  <2>1. Sorts'
    BY <1>21, <2>a, <2>d, <2>e, <1>s DEF RunSave, RunOnly, Sorts
  <2>2. Loaded'
    BY <1>21, <2>a, <2>d, <2>e, <1>types DEF RunSave, RunOnly, Loaded
  <2> QED
    BY <2>1, <2>2 DEF TypeInv
<1>22. CASE RunLeave
  <2>a. child' \in Children /\ child'.pc = "none" /\ state' \in States
    BY <1>22, NoneValues DEF RunLeave, NoChild, Sorts
  <2>1. Sorts'
    BY <1>22, <2>a, <1>s DEF RunLeave, RunOnly, Sorts
  <2>2. Loaded'
    BY <1>22, <2>a, <1>types DEF RunLeave, RunOnly, Loaded
  <2> QED
    BY <2>1, <2>2 DEF TypeInv
<1>23. CASE IngestLoad
  <2>a. other' \in Others /\ other'.copy \in Backlogs /\ other'.item \in Items
    BY <1>23 DEF IngestLoad, Sorts, Others, Copies, Backlogs
  <2>b. count' \in Counts
    BY <1>23 DEF IngestLoad, Sorts, Counts
  <2>1. Sorts'
    BY <1>23, <2>a, <2>b, <1>s DEF IngestLoad, OthersOnly, Sorts
  <2>2. Loaded'
    BY <1>23, <2>a, <2>b, <1>types DEF IngestLoad, OthersOnly, Loaded
  <2> QED
    BY <2>1, <2>2 DEF TypeInv
<1>24. CASE IngestAppend
  <2>a. other.copy \in Backlogs /\ other.item \in Items
    BY <1>24 DEF IngestAppend, Loaded
  <2>b. other' \in Others /\ other'.copy = other.copy /\ other'.item = other.item
    BY <1>24 DEF IngestAppend, Sorts, Others
  <2>c. 0 \in 0..MaxRuns /\ Appended(other.item, 0, "ok", "no")
    BY <1>24 DEF IngestAppend
  <2>d. ledger' \in Seq(Row) /\ log' \in Seq(Records)
    BY <2>a, <2>c, AppendedTypes DEF Codes
  <2>1. Sorts'
    BY <1>24, <2>a, <2>b, <2>d, <1>s DEF IngestAppend, OthersOnly, Sorts
  <2>2. Loaded'
    BY <1>24, <2>a, <2>b, <2>d, <1>types DEF IngestAppend, OthersOnly, Loaded
  <2> QED
    BY <2>1, <2>2 DEF TypeInv
<1>25. CASE IngestSave
  <2>a. backlog' \in Backlogs
    BY <1>25, AttemptedBacklog DEF IngestSave, Loaded, Codes
  <2>b. other' \in Others /\ other'.pc = "idle"
    BY <1>25, NoneValues DEF IngestSave, NoOther
  <2>1. Sorts'
    BY <1>25, <2>a, <2>b, <1>s DEF IngestSave, OthersOnly, Sorts
  <2>2. Loaded'
    BY <1>25, <2>a, <2>b, <1>types DEF IngestSave, OthersOnly, Loaded
  <2> QED
    BY <2>1, <2>2 DEF TypeInv
<1>26. CASE HandoverLoad
  <2>a. other' \in Others /\ other'.copy \in Backlogs /\ other'.item \in Items
    BY <1>26 DEF HandoverLoad, Sorts, Others, Copies, Backlogs
  <2>1. Sorts'
    BY <1>26, <2>a, <1>s DEF HandoverLoad, OthersOnly, Sorts
  <2>2. Loaded'
    BY <1>26, <2>a, <1>types DEF HandoverLoad, OthersOnly, Loaded
  <2> QED
    BY <2>1, <2>2 DEF TypeInv
<1>27. CASE HandoverSave
  <2>a. backlog' \in Backlogs
    BY <1>27 DEF HandoverSave, Loaded, Backlogs, Entry
  <2>b. other' \in Others /\ other'.pc = "idle"
    BY <1>27, NoneValues DEF HandoverSave, NoOther
  <2>1. Sorts'
    BY <1>27, <2>a, <2>b, <1>s DEF HandoverSave, OthersOnly, Sorts
  <2>2. Loaded'
    BY <1>27, <2>a, <2>b, <1>types DEF HandoverSave, OthersOnly, Loaded
  <2> QED
    BY <2>1, <2>2 DEF TypeInv
<1>28. CASE Kill
  <2>a. child' \in Children /\ child'.pc = "none"
    BY <1>28, NoneValues DEF Kill, NoChild
  <2>b. count' \in Counts
    BY <1>28, FaultCounts DEF Kill, Fault, Sorts
  <2>1. Sorts'
    BY <1>28, <2>a, <2>b, <1>s DEF Kill, RunOnly, NoFiles, files, Sorts
  <2>2. Loaded'
    BY <1>28, <2>a, <2>b, <1>types DEF Kill, RunOnly, Loaded
  <2> QED
    BY <2>1, <2>2 DEF TypeInv
<1>29. CASE HostDown
  <2>a. PICK long \in BOOLEAN :
          ledger' = IF long THEN Retold(Retold(ledger, "now", "failed"), "failed", "old")
                            ELSE Retold(ledger, "now", "failed")
    BY <1>29 DEF HostDown
  <2>b. Retold(ledger, "now", "failed") \in Seq(Row)
    BY RetoldRows DEF Sorts
  <2>c. ledger' \in Seq(Row)
    BY <2>a, <2>b, RetoldRows
  <2>d. /\ tick' \in Ticks /\ tick'.pc \notin Holding
        /\ child' \in Children /\ child'.pc = "none"
        /\ other' \in Others /\ other'.pc = "idle"
    BY <1>29, NoneValues DEF HostDown, Idle, NoChild, NoOther, Holding
  <2>e. count' \in Counts
    <3>1. state.run \in 0..MaxRuns /\ count.faults < MaxFaults
      BY <1>29 DEF HostDown, Sorts, States
    <3>2. count' = [count EXCEPT !.faults = @ + 1,
             !.slipped = IF At("death") /\ ~HasRecord(state) THEN @ \cup {state.run} ELSE @]
      BY <1>29 DEF HostDown
    <3>3. CASE At("death") /\ ~HasRecord(state)
      BY <3>1, <3>2, <3>3, FaultCounts DEF Sorts
    <3>4. CASE ~(At("death") /\ ~HasRecord(state))
      BY <3>1, <3>2, <3>4, FaultCounts DEF Sorts
    <3> QED
      BY <3>3, <3>4
  <2>1. Sorts'
    BY <1>29, <2>c, <2>d, <2>e, <1>s DEF HostDown, Sorts
  <2>2. Loaded'
    BY <1>29, <2>c, <2>d, <2>e, <1>types DEF HostDown, Loaded
  <2> QED
    BY <2>1, <2>2 DEF TypeInv
<1>30. CASE UNCHANGED vars
  BY <1>30 DEF vars, files, procs, TypeInv, Sorts, Loaded
<1> QED
  BY <1>1, <1>2, <1>3, <1>4, <1>5, <1>6, <1>7, <1>8, <1>9, <1>10, <1>11, <1>12, <1>13,
     <1>14, <1>15, <1>16, <1>17, <1>18, <1>19, <1>20, <1>21, <1>22, <1>23, <1>24, <1>25,
     <1>26, <1>27, <1>28, <1>29, <1>30, <1>31 DEF Next, TickStep, RunStep, OtherStep

-----------------------------------------------------------------------------
(* The files name the run *)

LEMMA NamedInit == Init => Named
BY DEF Init, Named, Idle, NoChild, NoState, Working, Looked, Death

LEMMA NamedStep == TypeInv /\ Named /\ [Next]_vars => Named'
<1> SUFFICES ASSUME TypeInv, Named, [Next]_vars PROVE Named'
  OBVIOUS
<1>types. Sorts /\ Loaded
  BY DEF TypeInv
<1>runs. count.runs \in Nat /\ Len(log) \in Nat
  BY <1>types DEF Sorts, Counts
\* A step of the tick that is not a look, a start or an end.
<1>on. ASSUME UNCHANGED <<pidfile, state, child, log>>, count'.runs = count.runs,
              tick'.pc \in Death => tick.pc \in Death,
              tick'.pc \in Looked => tick.pc \in Looked
       PROVE  Named'
  BY <1>on DEF Named, Working, Death
<1>tick. ASSUME NEW pc, Goto(pc) PROVE tick'.pc = pc
  BY <1>tick DEF Goto, Idle
<1>grown. ASSUME NEW item \in Items, NEW run \in 0..MaxRuns, NEW rc \in Codes,
                 NEW told \in {"no", "now"}, Appended(item, run, rc, told)
          PROVE  Len(log') = Len(log) + 1
  BY <1>types, <1>grown, AppendedTypes
<1>1. CASE TickBegin
  <2>1. tick'.pc \in {"gap", "flag"} /\ At("idle")
    BY <1>1, <1>tick DEF TickBegin, Idle, At
  <2> QED
    BY <1>1, <2>1, <1>on DEF TickBegin, At, Looked, TickOnly, NoFiles, files, Death
<1>2. CASE TickFlag
  <2>1. tick'.pc \in {"gap"} /\ At("flag")
    BY <1>2, <1>tick DEF TickFlag, Idle, At
  <2> QED
    BY <1>2, <2>1, <1>on DEF TickFlag, At, Looked, TickOnly, Death
<1>3. CASE TickGap
  <2>1. tick'.pc \in {"promote", "rewrite"} /\ At("gap")
    BY <1>3, <1>tick DEF TickGap, Idle, At
  <2> QED
    BY <1>3, <2>1, <1>on DEF TickGap, At, Looked, TickOnly, NoFiles, files, Death
<1>4. CASE TickRewrite
  <2>1. tick'.pc = "resave"
    BY <1>4, <1>types DEF TickRewrite, Sorts, Ticks
  <2> QED
    BY <1>4, <2>1, <1>on DEF TickRewrite, Looked, TickOnly, Death
<1>5. CASE TickResave
  <2>1. tick'.pc \in {"promote"} /\ At("resave")
    BY <1>5, <1>tick DEF TickResave, Idle, At
  <2> QED
    BY <1>5, <2>1, <1>on DEF TickResave, At, Looked, TickOnly, Death
<1>6. CASE TickPromote
  <2>1. tick'.pc \in {"lock", "save"} /\ At("promote")
    BY <1>6, <1>tick DEF TickPromote, Idle, At
  <2> QED
    BY <1>6, <2>1, <1>on DEF TickPromote, At, Looked, TickOnly, NoFiles, files, Death
<1>7. CASE TickSave
  <2>1. tick'.pc \in {"lock"} /\ At("save")
    BY <1>7, <1>tick DEF TickSave, Idle, At
  <2> QED
    BY <1>7, <2>1, <1>on DEF TickSave, At, Looked, TickOnly, Death
<1>8. CASE TickLock
  <2>0. UNCHANGED <<state, child, count, log>>
    BY <1>8 DEF TickLock, TickOnly
  <2>1. CASE UNCHANGED pidfile /\ Goto("idle")
    <3>1. tick'.pc = "idle"
      BY <2>1, <1>tick
    <3> QED
      BY <2>0, <2>1, <3>1, <1>on DEF Looked, Death
  <2>2. CASE /\ ~Alive(pidfile) /\ ~Alive(state.run) /\ pidfile' = 0
             /\ Goto(IF pidfile # 0 /\ state # NoState THEN "death" ELSE "report")
    <3>1. child.pc = "none" \/ (child.pc = "refused" /\ state = NoState)
      BY <2>2, <1>types DEF Alive, Named, Working, Sorts, Children, Loaded, Death
    <3>2. /\ tick'.pc \in {"report", "death"}
          /\ tick'.pc = "death" => state # NoState
      BY <2>2, <1>tick
    <3> QED
      BY <2>0, <2>2, <3>1, <3>2 DEF Named, Working, Looked, Death
  <2> QED
    BY <1>8, <2>1, <2>2 DEF TickLock
<1>31. CASE TickDeath
  <2>1. /\ state # NoState /\ child.pc = "none" /\ UNCHANGED <<pidfile, state, child>>
        /\ tick'.pc \in {"idle", "orphan", "report"}
    BY <1>31, <1>tick DEF TickDeath, At, Named, Death
  <2>2. Len(log') >= Len(log)
    <3>1. state.item \in Items /\ state.run \in 0..MaxRuns
      BY <2>1, <1>types DEF Named, Sorts, States, Death
    <3> QED
      BY <1>31, <3>1, <1>grown, <1>runs DEF TickDeath, Codes
  <2>3. count'.runs = count.runs
    BY <1>31, <1>types DEF TickDeath, Sorts, Counts
  <2>4. state'.at <= Len(log') /\ state.at \in Nat
    BY <2>1, <2>2, <1>runs, <1>types DEF Named, Sorts, States, Death
  <2> QED
    BY <2>1, <2>3, <2>4 DEF Named, Working, Looked, Death
<1>9. CASE TickOrphan
  <2>1. tick'.pc \in {"lostsave"} /\ At("orphan")
    BY <1>9, <1>tick DEF TickOrphan, Idle, At
  <2> QED
    BY <1>9, <2>1, <1>on DEF TickOrphan, At, Looked, TickOnly, NoFiles, files, Death
<1>10. CASE TickLostSave
  <2>1. tick'.pc \in {"sent"} /\ At("lostsave")
    BY <1>10, <1>tick DEF TickLostSave, Idle, At
  <2> QED
    BY <1>10, <2>1, <1>on DEF TickLostSave, At, Looked, TickOnly, Death
<1>11. CASE TickReport
  <2>1. tick'.pc \in {"mark", "start"} /\ At("report")
    BY <1>11, <1>tick DEF TickReport, Idle, At
  <2> QED
    BY <1>11, <2>1, <1>on DEF TickReport, At, Looked, TickOnly, NoFiles, files, Death
<1>12. CASE TickMark
  <2>1. tick'.pc \in {"sent"} /\ At("mark")
    BY <1>12, <1>tick DEF TickMark, Idle, At
  <2> QED
    BY <1>12, <2>1, <1>on DEF TickMark, At, Looked, TickOnly, Death
<1>13. CASE TickSent
  <2>1. tick'.pc = "idle"
    BY <1>13, <1>tick DEF TickSent
  <2>2. count'.runs = count.runs
    BY <1>13, <1>types DEF TickSent, Sorts, Counts
  <2> QED
    BY <1>13, <2>1, <2>2, <1>on DEF TickSent, Looked, Death
<1>14. CASE TickStart
  <2> DEFINE run == count.runs + 1
  <2>1. PICK i \in Startable(backlog, ledger) :
          /\ child' = [NoChild EXCEPT !.pc = "guard", !.run = run, !.item = i]
          /\ pidfile' = run
          /\ state' = [item |-> i, run |-> run, at |-> Len(log)]
          /\ count' = [count EXCEPT !.runs = run]
    BY <1>14 DEF TickStart
  <2>2. i \in Items /\ count'.runs = run /\ log' = log /\ tick'.pc = "settle"
    BY <1>14, <2>1, <1>tick, <1>types DEF TickStart, Startable, Sorts, Counts
  <2>3. child'.pc = "guard" /\ child'.run = run /\ child'.item = i
    BY <2>1 DEF NoChild
  <2>4. run \in 1..count'.runs
    BY <2>2, <1>runs
  <2> HIDE DEF run
  <2> QED
    BY <2>1, <2>2, <2>3, <2>4, <1>runs DEF Named, Working, Looked, Death
<1>15. CASE TickWait
  <2>1. tick'.pc = "idle"
    BY <1>15, <1>tick DEF TickWait
  <2> QED
    BY <1>15, <2>1, <1>on DEF TickWait, Looked, TickOnly, NoFiles, files, Death
<1>16. CASE TickSettle
  <2>1. tick'.pc = "idle" /\ UNCHANGED <<child, count, log>>
    BY <1>16, <1>tick DEF TickSettle, TickOnly
  <2>2. CASE child.pc \in {"none", "refused"} /\ pidfile' = 0 /\ state' = NoState
    <3>1. NoState.at = 0
      BY DEF NoState
    <3> QED
      BY <2>1, <2>2, <3>1, <1>runs DEF Named, Working, Looked, Death
  <2>3. CASE UNCHANGED <<pidfile, state>>
    BY <2>1, <2>3, <1>on DEF Looked, Death
  <2> QED
    BY <1>16, <2>2, <2>3 DEF TickSettle
<1>17. CASE RunGo
  <2>1. /\ child.pc = "guard" /\ child'.pc = "run"
        /\ child'.item = child.item /\ child'.run = child.run
    BY <1>17, <1>types DEF RunGo, Sorts, Children
  <2> QED
    BY <1>17, <2>1 DEF RunGo, RunOnly, NoFiles, files, Named, Working, Looked, Death
<1>18. CASE RunRefuse
  <2>1. /\ child.pc = "guard" /\ child'.pc = "refused"
        /\ child'.item = child.item /\ child'.run = child.run
    BY <1>18, <1>types DEF RunRefuse, Sorts, Children
  <2> QED
    BY <1>18, <2>1 DEF RunRefuse, RunOnly, NoFiles, files, Named, Working, Looked, Death
<1>19. CASE RunEnd
  <2>1. PICK rc \in Codes : /\ Appended(child.item, child.run, rc, "no")
                            /\ child' = [child EXCEPT !.pc = "load", !.rc = rc]
    BY <1>19 DEF RunEnd, Codes
  <2>2. /\ child.pc = "run" /\ child'.pc = "load"
        /\ child'.item = child.item /\ child'.run = child.run
    BY <1>19, <2>1, <1>types DEF RunEnd, Sorts, Children
  <2>3. child.item \in Items /\ child.run \in 0..MaxRuns
    BY <2>2, <1>types DEF Loaded
  <2>4. Len(log') = Len(log) + 1
    BY <2>1, <2>3, <1>grown
  <2>5. UNCHANGED <<pidfile, state, tick, count>>
    BY <1>19 DEF RunEnd, RunOnly
  <2>6. state'.at <= Len(log')
    BY <2>4, <2>5, <1>runs, <1>types DEF Named, Sorts, States, Death
  <2> QED
    BY <2>2, <2>5, <2>6 DEF Named, Working, Looked, Death
<1>20. CASE RunLoad
  <2>1. /\ child.pc = "load" /\ child'.pc = "save"
        /\ child'.item = child.item /\ child'.run = child.run
    BY <1>20, <1>types DEF RunLoad, Sorts, Children
  <2> QED
    BY <1>20, <2>1 DEF RunLoad, RunOnly, NoFiles, files, Named, Working, Looked, Death
<1>21. CASE RunSave
  <2>1. /\ child.pc = "save" /\ child'.pc = "leave"
        /\ child'.item = child.item /\ child'.run = child.run
    BY <1>21, <1>types DEF RunSave, Sorts, Children
  <2>2. count'.runs = count.runs
    BY <1>21, <1>types DEF RunSave, Sorts, Counts
  <2> QED
    BY <1>21, <2>1, <2>2 DEF RunSave, RunOnly, Named, Working, Looked, Death
<1>22. CASE RunLeave
  <2>1. child.pc \in {"refused", "leave"} /\ child'.pc = "none"
    BY <1>22 DEF RunLeave, NoChild
  <2>2. UNCHANGED <<tick, count, log>> /\ state' \in {NoState, state}
    BY <1>22 DEF RunLeave, RunOnly
  <2>3. state'.at <= Len(log')
    BY <2>2, <1>runs DEF Named, NoState, Death
  <2>4. tick.pc \notin Death
    BY <2>1 DEF Named, Death
  <2> QED
    BY <2>1, <2>2, <2>3, <2>4 DEF Named, Working, Death
<1>23. CASE IngestLoad
  <2>1. count'.runs = count.runs
    BY <1>23, <1>types DEF IngestLoad, Sorts, Counts
  <2> QED
    BY <1>23, <2>1, <1>on DEF IngestLoad, OthersOnly
<1>24. CASE IngestAppend
  <2>1. other.item \in Items /\ 0 \in 0..MaxRuns
    BY <1>24, <1>types DEF IngestAppend, Loaded
  <2>2. Len(log') = Len(log) + 1
    BY <1>24, <2>1, <1>grown DEF IngestAppend, Codes
  <2>3. UNCHANGED <<pidfile, state, tick, child, count>>
    BY <1>24 DEF IngestAppend, OthersOnly
  <2>4. state'.at <= Len(log')
    BY <2>2, <2>3, <1>runs, <1>types DEF Named, Sorts, States, Death
  <2> QED
    BY <2>3, <2>4 DEF Named, Working, Death
<1>25. CASE IngestSave
  <2>1. count'.runs = count.runs
    BY <1>25, <1>types DEF IngestSave, Sorts, Counts
  <2> QED
    BY <1>25, <2>1, <1>on DEF IngestSave, OthersOnly
<1>26. CASE HandoverLoad
  <2>1. count'.runs = count.runs
    BY <1>26, <1>types DEF HandoverLoad, Sorts, Counts
  <2> QED
    BY <1>26, <2>1, <1>on DEF HandoverLoad, OthersOnly
<1>27. CASE HandoverSave
  <2>1. count'.runs = count.runs
    BY <1>27, <1>types DEF HandoverSave, Sorts, Counts
  <2> QED
    BY <1>27, <2>1, <1>on DEF HandoverSave, OthersOnly
<1>28. CASE Kill
  <2>1. child'.pc = "none" /\ child.pc # "none" /\ count'.runs = count.runs
    BY <1>28, <1>types DEF Kill, Fault, NoChild, Sorts, Counts
  <2> QED
    BY <1>28, <2>1 DEF Kill, RunOnly, NoFiles, files, Named, Working, Death
<1>29. CASE HostDown
  <2>1. /\ child'.pc = "none" /\ tick'.pc = "idle"
        /\ count'.runs = count.runs /\ UNCHANGED <<state, log>>
    BY <1>29, <1>types DEF HostDown, Fault, NoChild, Idle, Sorts, Counts
  <2> QED
    BY <2>1 DEF Named, Working, Death
<1>30. CASE UNCHANGED vars
  BY <1>30 DEF vars, files, procs, Named, Working, Death
<1> QED
  BY <1>1, <1>2, <1>3, <1>4, <1>5, <1>6, <1>7, <1>8, <1>9, <1>10, <1>11, <1>12, <1>13,
     <1>14, <1>15, <1>16, <1>17, <1>18, <1>19, <1>20, <1>21, <1>22, <1>23, <1>24, <1>25,
     <1>26, <1>27, <1>28, <1>29, <1>30, <1>31 DEF Next, TickStep, RunStep, OtherStep

-----------------------------------------------------------------------------
(* No run is recorded twice *)

LEMMA BeginsSelf == ASSUME NEW led \in Seq(Row) PROVE Begins(led, led) /\ Begins(<<>>, led)
BY DEF Begins, SameRow

LEMMA BeginsOn ==
    ASSUME NEW a \in Seq(Row), NEW b \in Seq(Row), NEW c \in Seq(Row), Begins(a, b), Begins(b, c)
    PROVE  Begins(a, c)
<1>1. DOMAIN a \subseteq DOMAIN b /\ Len(a) <= Len(c)
  BY DEF Begins
<1> QED
  BY <1>1 DEF Begins, SameRow

LEMMA BeginsRetold ==
    ASSUME NEW led \in Seq(Row), NEW from,
           NEW to \in {"no", "now", "delivered", "failed", "old"}
    PROVE  /\ Retold(led, from, to) \in Seq(Row)
           /\ Begins(Retold(led, from, to), led) /\ Begins(led, Retold(led, from, to))
<1> DEFINE new == Retold(led, from, to)
<1>1. new \in Seq(Row) /\ Len(new) = Len(led) /\ \A j \in 1..Len(led) : SameRow(new[j], led[j])
  BY RetoldRows
<1> HIDE DEF new
<1>2. DOMAIN new = 1..Len(led) /\ DOMAIN led = 1..Len(led)
  BY <1>1
<1>3. Begins(new, led) /\ Begins(led, new)
  BY <1>1, <1>2 DEF Begins, SameRow
<1> QED
  BY <1>1, <1>3 DEF new

LEMMA BeginsJudged ==
    ASSUME NEW led \in Seq(Row)
    PROVE  /\ Judged(led) \in Seq(Row)
           /\ Begins(Judged(led), led) /\ Begins(led, Judged(led))
<1> DEFINE new == Judged(led)
<1>1. new \in Seq(Row) /\ Len(new) = Len(led) /\ \A j \in 1..Len(led) : SameRow(new[j], led[j])
  BY JudgedRows
<1> HIDE DEF new
<1>2. DOMAIN new = 1..Len(led) /\ DOMAIN led = 1..Len(led)
  BY <1>1
<1>3. Begins(new, led) /\ Begins(led, new)
  BY <1>1, <1>2 DEF Begins, SameRow
<1> QED
  BY <1>1, <1>3 DEF new

LEMMA RowsInit == Init => RowsInv
BY DEF Init, RowsInv, OneRowPerRun, Begins, Idle

LEMMA RowsStep == TypeInv /\ Named /\ RowsInv /\ [Next]_vars => RowsInv'
<1> SUFFICES ASSUME TypeInv, Named, RowsInv, [Next]_vars PROVE RowsInv'
  OBVIOUS
<1>types. Sorts /\ Loaded
  BY DEF TypeInv
<1>seqs. ledger \in Seq(Row) /\ tick.led \in Seq(Row) /\ count.runs \in Nat
  BY <1>types DEF Sorts, Ticks, Counts
<1>next. TypeInv'
  BY TypeStep
<1>rows. \A j \in DOMAIN ledger : ledger[j].run \in Nat
  <2>1. \A j \in DOMAIN ledger : ledger[j] \in Row
    BY <1>seqs
  <2> QED
    BY <2>1 DEF Row
\* Rows may go, and the run that is started is a new one.
<1>kept. ASSUME Begins(ledger', ledger), Begins(tick'.led, ledger'), count'.runs \in Nat,
                count.runs <= count'.runs,
                state' = state \/ state'.run = 0 \/ state'.run > count.runs,
                child'.pc \in {"guard", "run"} =>
                   \/ child.pc \in {"guard", "run"} /\ child'.run = child.run
                   \/ child'.run > count.runs
         PROVE  RowsInv'
  <2>1. ledger' \in Seq(Row)
    BY <1>next DEF TypeInv, Sorts
  <2>2. \A j \in DOMAIN ledger' : j \in DOMAIN ledger /\ SameRow(ledger'[j], ledger[j])
    BY <1>kept, <1>seqs, <2>1 DEF Begins
  <2>3. OneRowPerRun'
    BY <2>2 DEF RowsInv, OneRowPerRun, SameRow
  <2>4. ASSUME NEW j \in DOMAIN ledger'
        PROVE  /\ ledger'[j].run <= count'.runs
               /\ ledger'[j].run # 0 /\ ledger'[j].run = state'.run =>
                     ledger'[j].item = state'.item /\ ledger'[j].at > state'.at
               /\ child'.pc \in {"guard", "run"} => ledger'[j].run # child'.run
    <3>1. PICK r : r = ledger[j]
      OBVIOUS
    <3>2. /\ ledger'[j].run = r.run /\ ledger'[j].item = r.item /\ ledger'[j].at = r.at
          /\ r.run \in Nat /\ r.run <= count.runs
          /\ r.run # 0 /\ r.run = state.run => r.item = state.item /\ r.at > state.at
          /\ child.pc \in {"guard", "run"} => r.run # child.run
      BY <2>2, <3>1, <1>rows DEF RowsInv, SameRow
    <3>3. state'.run \in Nat /\ (child'.pc # "none" => child'.run \in Nat)
      BY <1>next DEF TypeInv, Sorts, States, Loaded
    <3> QED
      BY <3>2, <3>3, <1>kept, <1>seqs
  <2> QED
    BY <2>3, <2>4, <1>kept DEF RowsInv
\* Neither a run starts nor a file but the ledger's marks changes.
<1>same. ASSUME Begins(ledger', ledger), Begins(tick'.led, ledger'), count'.runs = count.runs,
                state' = state, child' = child
         PROVE  RowsInv'
  BY <1>same, <1>kept, <1>seqs
<1>idle. ASSUME NEW pc, Goto(pc) PROVE Begins(tick'.led, ledger') /\ tick'.pc = pc
  <2>1. ledger' \in Seq(Row) /\ tick'.led = <<>> /\ tick'.pc = pc
    BY <1>idle, <1>next DEF TypeInv, Sorts, Goto, Idle
  <2> QED
    BY <2>1, BeginsSelf
\* A row is added for a run that has none, or for none.
<1>added. ASSUME NEW item \in Items, NEW run \in 0..MaxRuns, NEW rc \in Codes,
                 NEW told \in {"no", "now"}, Appended(item, run, rc, told),
                 tick'.led \in {tick.led, <<>>}, UNCHANGED <<state, count>>,
                 run # 0 => /\ run = state.run /\ item = state.item /\ run <= count.runs
                            /\ \A j \in DOMAIN ledger : ledger[j].run # run,
                 child'.pc \in {"guard", "run"} => child' = child /\ run # child.run
          PROVE  RowsInv'
  <2> DEFINE row == [item |-> item, run |-> run, rc |-> rc, told |-> told,
                     at |-> Len(log) + 1, judged |-> rc # "ok" \/ item \notin Unparsed]
  <2>1. ledger' = Append(ledger, row)
    BY <1>added DEF Appended
  <2>2. row.run = run /\ row.item = item /\ row.at = Len(log) + 1
    OBVIOUS
  <2> HIDE DEF row
  <2>3. PICK n \in Nat : n = Len(ledger)
    BY <1>seqs
  <2>4. /\ DOMAIN ledger = 1..n /\ DOMAIN ledger' = 1..(n + 1)
        /\ \A j \in 1..n : ledger'[j] = ledger[j]
        /\ ledger'[n + 1] = row /\ Len(ledger') = n + 1
    BY <2>1, <2>3, <1>seqs
  <2>5. Begins(ledger, ledger')
    BY <2>3, <2>4 DEF Begins, SameRow
  <2>6. ledger' \in Seq(Row)
    BY <1>next DEF TypeInv, Sorts
  <2>7. Begins(tick'.led, ledger')
    BY <2>5, <2>6, <1>added, <1>seqs, BeginsOn, BeginsSelf DEF RowsInv
  <2>8. \A j \in 1..n : ledger[j].run # run \/ run = 0
    BY <2>4, <1>added
  <2>9. OneRowPerRun'
    BY <2>2, <2>4, <2>8 DEF RowsInv, OneRowPerRun
  <2>10. state.at \in Nat /\ state.at <= Len(log) /\ Len(log) \in Nat
    BY <1>types DEF Sorts, States, Named
  <2>11. row.at > state.at
    BY <2>2, <2>10
  <2>12. ASSUME NEW j \in 1..(n + 1)
         PROVE  /\ ledger'[j].run <= count'.runs
                /\ ledger'[j].run # 0 /\ ledger'[j].run = state'.run =>
                      ledger'[j].item = state'.item /\ ledger'[j].at > state'.at
                /\ child'.pc \in {"guard", "run"} => ledger'[j].run # child'.run
    <3>1. CASE j \in 1..n
      BY <3>1, <2>4, <1>added DEF RowsInv
    <3>2. CASE j = n + 1
      BY <3>2, <2>2, <2>4, <2>11, <1>added, <1>seqs
    <3> QED
      BY <3>1, <3>2
  <2> QED
    BY <2>4, <2>7, <2>9, <2>12 DEF RowsInv
<1>1. CASE TickBegin
  <2>1. UNCHANGED <<ledger, child, state, count>>
    BY <1>1 DEF TickBegin, TickOnly, NoFiles, files
  <2>2. Begins(ledger', ledger)
    BY <2>1, <1>seqs, BeginsSelf
  <2>3. tick'.led = ledger \/ tick'.led = <<>>
    BY <1>1 DEF TickBegin, Goto, Idle
  <2>4. Begins(tick'.led, ledger')
    BY <2>1, <2>3, <1>seqs, BeginsSelf
  <2> QED
    BY <2>1, <2>2, <2>4, <1>same
<1>2. CASE TickFlag
  <2>1. Goto("gap") /\ ledger' = Retold(tick.led, "failed", "no") /\ UNCHANGED <<child, state, count>>
    BY <1>2 DEF TickFlag, Flagged, TickOnly
  <2>2. Begins(ledger', ledger)
    BY <2>1, <1>seqs, BeginsRetold, BeginsOn DEF RowsInv
  <2> QED
    BY <2>1, <2>2, <1>idle, <1>same
<1>3. CASE TickGap
  <2>1. UNCHANGED <<ledger, child, state, count>>
    BY <1>3 DEF TickGap, TickOnly, NoFiles, files
  <2>2. Begins(ledger', ledger)
    BY <2>1, <1>seqs, BeginsSelf
  <2>3. tick'.led = ledger \/ tick'.led = <<>>
    BY <1>3 DEF TickGap, Goto, Idle
  <2>4. Begins(tick'.led, ledger')
    BY <2>1, <2>3, <1>seqs, BeginsSelf
  <2> QED
    BY <2>1, <2>2, <2>4, <1>same
<1>4. CASE TickRewrite
  <2>1. ledger' = Judged(tick.led) /\ tick'.led = tick.led /\ UNCHANGED <<child, state, count>>
    BY <1>4, <1>types DEF TickRewrite, TickOnly, Sorts, Ticks
  <2>2. Begins(ledger', ledger) /\ Begins(tick'.led, ledger')
    BY <2>1, <1>seqs, BeginsJudged, BeginsOn DEF RowsInv
  <2> QED
    BY <2>1, <2>2, <1>same
<1>5. CASE TickResave
  <2>1. Goto("promote") /\ UNCHANGED <<ledger, child, state>> /\ count'.runs = count.runs
    BY <1>5 DEF TickResave, TickOnly
  <2>2. Begins(ledger', ledger)
    BY <2>1, <1>seqs, BeginsSelf
  <2> QED
    BY <2>1, <2>2, <1>idle, <1>same
<1>6. CASE TickPromote
  <2>1. UNCHANGED <<ledger, child, state, count>>
    BY <1>6 DEF TickPromote, TickOnly, NoFiles, files
  <2>2. Begins(ledger', ledger)
    BY <2>1, <1>seqs, BeginsSelf
  <2>3. tick'.led = ledger \/ tick'.led = <<>>
    BY <1>6 DEF TickPromote, Goto, Idle
  <2>4. Begins(tick'.led, ledger')
    BY <2>1, <2>3, <1>seqs, BeginsSelf
  <2> QED
    BY <2>1, <2>2, <2>4, <1>same
<1>7. CASE TickSave
  <2>1. Goto("lock") /\ UNCHANGED <<ledger, child, state>> /\ count'.runs = count.runs
    BY <1>7 DEF TickSave, TickOnly
  <2>2. Begins(ledger', ledger)
    BY <2>1, <1>seqs, BeginsSelf
  <2> QED
    BY <2>1, <2>2, <1>idle, <1>same
<1>8. CASE TickLock
  <2>1. UNCHANGED <<ledger, child, state, count>> /\ tick'.led = <<>>
    BY <1>8 DEF TickLock, TickOnly, Goto, Idle
  <2>2. Begins(ledger', ledger) /\ Begins(tick'.led, ledger')
    BY <2>1, <1>seqs, BeginsSelf
  <2> QED
    BY <2>1, <2>2, <1>same
<1>31. CASE TickDeath
  <2>0. /\ UNCHANGED <<state, child>> /\ count'.runs = count.runs /\ tick'.led = <<>>
        /\ state # NoState /\ child.pc = "none"
    BY <1>31, <1>types DEF TickDeath, At, Named, Death, Goto, Idle, Sorts, Counts
  <2>1. CASE UNCHANGED ledger
    <3>1. Begins(ledger', ledger) /\ Begins(tick'.led, ledger')
      BY <2>0, <2>1, <1>seqs, BeginsSelf
    <3> QED
      BY <2>0, <3>1, <1>same
  <2>2. CASE ~HasRecord(state) /\ Appended(state.item, state.run, "lost", "now")
             /\ UNCHANGED count
    <3>1. state.item \in Items /\ state.run \in 0..MaxRuns /\ state.run <= count.runs
      BY <2>0, <1>types, <1>seqs DEF Named, Sorts, States
    <3>2. \A j \in DOMAIN ledger : ledger[j].run # state.run \/ state.run = 0
      BY <2>2 DEF HasRecord, RowsInv
    <3> QED
      BY <2>0, <2>2, <3>1, <3>2, <1>added DEF Codes
  <2> QED
    BY <1>31, <2>1, <2>2 DEF TickDeath
<1>9. CASE TickOrphan
  <2>1. UNCHANGED <<ledger, child, state, count>>
    BY <1>9 DEF TickOrphan, TickOnly, NoFiles, files
  <2>2. Begins(ledger', ledger)
    BY <2>1, <1>seqs, BeginsSelf
  <2>3. tick'.led = ledger \/ tick'.led = <<>>
    BY <1>9 DEF TickOrphan, Goto, Idle
  <2>4. Begins(tick'.led, ledger')
    BY <2>1, <2>3, <1>seqs, BeginsSelf
  <2> QED
    BY <2>1, <2>2, <2>4, <1>same
<1>10. CASE TickLostSave
  <2>1. Goto("sent") /\ UNCHANGED <<ledger, child, state>> /\ count'.runs = count.runs
    BY <1>10 DEF TickLostSave, TickOnly
  <2>2. Begins(ledger', ledger)
    BY <2>1, <1>seqs, BeginsSelf
  <2> QED
    BY <2>1, <2>2, <1>idle, <1>same
<1>11. CASE TickReport
  <2>1. UNCHANGED <<ledger, child, state, count>>
    BY <1>11 DEF TickReport, TickOnly, NoFiles, files
  <2>2. Begins(ledger', ledger)
    BY <2>1, <1>seqs, BeginsSelf
  <2>3. tick'.led = ledger \/ tick'.led = <<>>
    BY <1>11 DEF TickReport, Goto, Idle
  <2>4. Begins(tick'.led, ledger')
    BY <2>1, <2>3, <1>seqs, BeginsSelf
  <2> QED
    BY <2>1, <2>2, <2>4, <1>same
<1>12. CASE TickMark
  <2>1. Goto("sent") /\ ledger' = Retold(tick.led, "no", "now") /\ UNCHANGED <<child, state, count>>
    BY <1>12 DEF TickMark, TickOnly
  <2>2. Begins(ledger', ledger)
    BY <2>1, <1>seqs, BeginsRetold, BeginsOn DEF RowsInv
  <2> QED
    BY <2>1, <2>2, <1>idle, <1>same
<1>13. CASE TickSent
  <2>1. /\ Goto("idle") /\ UNCHANGED <<child, state>> /\ count'.runs = count.runs
        /\ \E to \in {"delivered", "failed"} : ledger' = Retold(ledger, "now", to)
    BY <1>13, <1>types DEF TickSent, Sorts, Counts
  <2>2. Begins(ledger', ledger)
    BY <2>1, <1>seqs, BeginsRetold
  <2> QED
    BY <2>1, <2>2, <1>idle, <1>same
<1>14. CASE TickStart
  <2> DEFINE run == count.runs + 1
  <2>1. PICK i \in Startable(backlog, ledger) :
          /\ child' = [NoChild EXCEPT !.pc = "guard", !.run = run, !.item = i]
          /\ pidfile' = run
          /\ state' = [item |-> i, run |-> run, at |-> Len(log)]
          /\ count' = [count EXCEPT !.runs = run]
    BY <1>14 DEF TickStart
  <2>2. /\ child'.run = run /\ state'.run = run /\ count'.runs = run
        /\ run \in Nat /\ run > count.runs
    BY <2>1, <1>seqs, <1>types DEF NoChild, Sorts, Counts
  <2>3. Goto("settle") /\ UNCHANGED ledger
    BY <1>14 DEF TickStart
  <2>4. Begins(ledger', ledger) /\ Begins(tick'.led, ledger')
    BY <2>3, <1>seqs, <1>idle, BeginsSelf
  <2> HIDE DEF run
  <2> QED
    BY <2>2, <2>4, <1>kept, <1>seqs
<1>15. CASE TickWait
  <2>1. Goto("idle") /\ UNCHANGED <<ledger, child, state>> /\ count'.runs = count.runs
    BY <1>15 DEF TickWait, TickOnly, NoFiles, files
  <2>2. Begins(ledger', ledger)
    BY <2>1, <1>seqs, BeginsSelf
  <2> QED
    BY <2>1, <2>2, <1>idle, <1>same
<1>16. CASE TickSettle
  <2>1. Goto("idle") /\ UNCHANGED <<ledger, child, count>> /\ (state' = state \/ state'.run = 0)
    BY <1>16 DEF TickSettle, TickOnly, NoState
  <2>2. Begins(ledger', ledger) /\ Begins(tick'.led, ledger')
    BY <2>1, <1>seqs, <1>idle, BeginsSelf
  <2> QED
    BY <2>1, <2>2, <1>kept, <1>seqs
<1>17. CASE RunGo
  <2>1. /\ UNCHANGED <<ledger, tick>> /\ count'.runs = count.runs
        /\ state' = state \/ state'.run = 0
        /\ child'.pc \in {"guard", "run"} =>
              child.pc \in {"guard", "run"} /\ child'.run = child.run
    BY <1>17, <1>types DEF RunGo, RunOnly, NoFiles, files, Sorts, Children, Counts
  <2>2. Begins(ledger', ledger) /\ Begins(tick'.led, ledger')
    BY <2>1, <1>seqs, BeginsSelf DEF RowsInv
  <2> QED
    BY <2>1, <2>2, <1>kept, <1>seqs
<1>18. CASE RunRefuse
  <2>1. /\ UNCHANGED <<ledger, tick>> /\ count'.runs = count.runs
        /\ state' = state \/ state'.run = 0
        /\ child'.pc \in {"guard", "run"} =>
              child.pc \in {"guard", "run"} /\ child'.run = child.run
    BY <1>18, <1>types DEF RunRefuse, RunOnly, NoFiles, files, Sorts, Children, Counts
  <2>2. Begins(ledger', ledger) /\ Begins(tick'.led, ledger')
    BY <2>1, <1>seqs, BeginsSelf DEF RowsInv
  <2> QED
    BY <2>1, <2>2, <1>kept, <1>seqs
<1>19. CASE RunEnd
  <2>1. PICK rc \in Codes : /\ Appended(child.item, child.run, rc, "no")
                            /\ child' = [child EXCEPT !.pc = "load", !.rc = rc]
    BY <1>19 DEF RunEnd, Codes
  <2>2. /\ child.pc = "run" /\ child'.pc = "load"
        /\ UNCHANGED <<tick, state, count>>
    BY <1>19, <2>1, <1>types DEF RunEnd, RunOnly, Sorts, Children
  <2>3. /\ child.item \in Items /\ child.run \in 0..MaxRuns
        /\ child.run = state.run /\ child.item = state.item /\ child.run <= count.runs
    BY <2>2, <1>types, <1>seqs DEF Loaded, Named, Working
  <2>4. \A j \in DOMAIN ledger : ledger[j].run # child.run
    BY <2>2 DEF RowsInv
  <2> QED
    BY <2>1, <2>2, <2>3, <2>4, <1>added
<1>20. CASE RunLoad
  <2>1. /\ UNCHANGED <<ledger, tick>> /\ count'.runs = count.runs
        /\ state' = state \/ state'.run = 0
        /\ child'.pc \in {"guard", "run"} =>
              child.pc \in {"guard", "run"} /\ child'.run = child.run
    BY <1>20, <1>types DEF RunLoad, RunOnly, NoFiles, files, Sorts, Children, Counts
  <2>2. Begins(ledger', ledger) /\ Begins(tick'.led, ledger')
    BY <2>1, <1>seqs, BeginsSelf DEF RowsInv
  <2> QED
    BY <2>1, <2>2, <1>kept, <1>seqs
<1>21. CASE RunSave
  <2>1. /\ UNCHANGED <<ledger, tick>> /\ count'.runs = count.runs
        /\ state' = state \/ state'.run = 0
        /\ child'.pc \in {"guard", "run"} =>
              child.pc \in {"guard", "run"} /\ child'.run = child.run
    BY <1>21, <1>types DEF RunSave, RunOnly, Sorts, Children, Counts
  <2>2. Begins(ledger', ledger) /\ Begins(tick'.led, ledger')
    BY <2>1, <1>seqs, BeginsSelf DEF RowsInv
  <2> QED
    BY <2>1, <2>2, <1>kept, <1>seqs
<1>22. CASE RunLeave
  <2>1. /\ UNCHANGED <<ledger, tick>> /\ count'.runs = count.runs
        /\ state' = state \/ state'.run = 0
        /\ child'.pc \in {"guard", "run"} =>
              child.pc \in {"guard", "run"} /\ child'.run = child.run
    BY <1>22, <1>types DEF RunLeave, RunOnly, Sorts, Children, Counts, NoChild, NoState
  <2>2. Begins(ledger', ledger) /\ Begins(tick'.led, ledger')
    BY <2>1, <1>seqs, BeginsSelf DEF RowsInv
  <2> QED
    BY <2>1, <2>2, <1>kept, <1>seqs
<1>23. CASE IngestLoad
  <2>1. UNCHANGED <<ledger, tick, state, child>> /\ count'.runs = count.runs
    BY <1>23, <1>types DEF IngestLoad, OthersOnly, Sorts, Counts
  <2>2. Begins(ledger', ledger) /\ Begins(tick'.led, ledger')
    BY <2>1, <1>seqs, BeginsSelf DEF RowsInv
  <2> QED
    BY <2>1, <2>2, <1>same
<1>24. CASE IngestAppend
  <2>1. other.item \in Items /\ 0 \in 0..MaxRuns
    BY <1>24, <1>types DEF IngestAppend, Loaded
  <2>2. Appended(other.item, 0, "ok", "no") /\ UNCHANGED <<tick, state, child, count>>
    BY <1>24 DEF IngestAppend, OthersOnly
  <2>3. child.pc \in {"guard", "run"} => child.run # 0
    BY <1>types DEF Loaded
  <2> QED
    BY <2>1, <2>2, <2>3, <1>added DEF Codes
<1>25. CASE IngestSave
  <2>1. UNCHANGED <<ledger, tick, state, child>> /\ count'.runs = count.runs
    BY <1>25, <1>types DEF IngestSave, OthersOnly, Sorts, Counts
  <2>2. Begins(ledger', ledger) /\ Begins(tick'.led, ledger')
    BY <2>1, <1>seqs, BeginsSelf DEF RowsInv
  <2> QED
    BY <2>1, <2>2, <1>same
<1>26. CASE HandoverLoad
  <2>1. UNCHANGED <<ledger, tick, state, child>> /\ count'.runs = count.runs
    BY <1>26, <1>types DEF HandoverLoad, OthersOnly, Sorts, Counts
  <2>2. Begins(ledger', ledger) /\ Begins(tick'.led, ledger')
    BY <2>1, <1>seqs, BeginsSelf DEF RowsInv
  <2> QED
    BY <2>1, <2>2, <1>same
<1>27. CASE HandoverSave
  <2>1. UNCHANGED <<ledger, tick, state, child>> /\ count'.runs = count.runs
    BY <1>27, <1>types DEF HandoverSave, OthersOnly, Sorts, Counts
  <2>2. Begins(ledger', ledger) /\ Begins(tick'.led, ledger')
    BY <2>1, <1>seqs, BeginsSelf DEF RowsInv
  <2> QED
    BY <2>1, <2>2, <1>same
<1>28. CASE Kill
  <2>1. /\ UNCHANGED <<ledger, tick>> /\ count'.runs = count.runs
        /\ state' = state \/ state'.run = 0
        /\ child'.pc \in {"guard", "run"} =>
              child.pc \in {"guard", "run"} /\ child'.run = child.run
    BY <1>28, <1>types DEF Kill, RunOnly, NoFiles, files, Sorts, Children, Counts, Fault, NoChild
  <2>2. Begins(ledger', ledger) /\ Begins(tick'.led, ledger')
    BY <2>1, <1>seqs, BeginsSelf DEF RowsInv
  <2> QED
    BY <2>1, <2>2, <1>kept, <1>seqs
<1>29. CASE HostDown
  <2> DEFINE cut == Retold(ledger, "now", "failed")
  <2>1. cut \in Seq(Row) /\ Begins(cut, ledger)
    BY <1>seqs, BeginsRetold
  <2>2. ledger' = cut \/ ledger' = Retold(cut, "failed", "old")
    BY <1>29 DEF HostDown
  <2> HIDE DEF cut
  <2>3. ledger' \in Seq(Row) /\ Begins(ledger', ledger)
    BY <2>1, <2>2, <1>seqs, BeginsRetold, BeginsOn
  <2>4. /\ tick'.led = <<>> /\ child'.pc = "none" /\ state' = state
        /\ count'.runs = count.runs
    BY <1>29, <1>types DEF HostDown, Fault, Idle, NoChild, Sorts, Counts
  <2>5. Begins(tick'.led, ledger')
    BY <2>3, <2>4, BeginsSelf
  <2> QED
    BY <2>3, <2>4, <2>5, <1>kept, <1>seqs
<1>30. CASE UNCHANGED vars
  <2>1. UNCHANGED <<ledger, tick, state, child, count>>
    BY <1>30 DEF vars, files, procs
  <2> QED
    BY <2>1 DEF RowsInv, OneRowPerRun
<1> QED
  BY <1>1, <1>2, <1>3, <1>4, <1>5, <1>6, <1>7, <1>8, <1>9, <1>10, <1>11, <1>12, <1>13,
     <1>14, <1>15, <1>16, <1>17, <1>18, <1>19, <1>20, <1>21, <1>22, <1>23, <1>24, <1>25,
     <1>26, <1>27, <1>28, <1>29, <1>30, <1>31 DEF Next, TickStep, RunStep, OtherStep

-----------------------------------------------------------------------------
(* What is closed was earned *)

LEMMA RowsCount ==
    ASSUME NEW l \in Seq(Records), NEW i
    PROVE  IsFiniteSet(Rows(l, i)) /\ Cardinality(Rows(l, i)) \in Nat
<1>1. Rows(l, i) \subseteq 1..Len(l)
  BY DEF Rows
<1>2. IsFiniteSet(1..Len(l))
  BY FS_Interval
<1> QED
  BY <1>1, <1>2, FS_Subset, FS_CardinalityType

\* A row more is one more of its item's, and takes nothing off the record.
LEMMA RowsGrow ==
    ASSUME NEW l \in Seq(Records), NEW r \in Records, NEW i
    PROVE  /\ Cardinality(Rows(Append(l, r), i)) =
                 Cardinality(Rows(l, i)) + IF r.item = i THEN 1 ELSE 0
           /\ \A rcs : Has(l, i, rcs) => Has(Append(l, r), i, rcs)
           /\ Has(Append(l, r), r.item, {r.rc})
<1>1. PICK n \in Nat : n = Len(l)
  OBVIOUS
<1>2. PICK m : m = Append(l, r)
  OBVIOUS
<1>3. /\ DOMAIN l = 1..n /\ DOMAIN m = 1..(n + 1)
      /\ \A j \in 1..n : m[j] = l[j]
      /\ m[n + 1] = r
  BY <1>1, <1>2
<1>4. Rows(m, i) = IF r.item = i THEN Rows(l, i) \cup {n + 1} ELSE Rows(l, i)
  BY <1>3 DEF Rows
<1>5. n + 1 \notin Rows(l, i)
  BY <1>3 DEF Rows
<1>6. Cardinality(Rows(m, i)) = Cardinality(Rows(l, i)) + IF r.item = i THEN 1 ELSE 0
  <2>1. IsFiniteSet(Rows(l, i)) /\ Cardinality(Rows(l, i)) \in Nat
    BY RowsCount
  <2>2. Cardinality(Rows(l, i) \cup {n + 1}) = Cardinality(Rows(l, i)) + 1
    BY <1>5, <2>1, FS_AddElement
  <2>3. CASE r.item = i
    BY <1>4, <2>2, <2>3
  <2>4. CASE r.item # i
    BY <1>4, <2>1, <2>4
  <2> QED
    BY <2>3, <2>4
<1>7. (\A rcs : Has(l, i, rcs) => Has(m, i, rcs)) /\ Has(m, r.item, {r.rc})
  BY <1>3 DEF Has
<1> QED
  BY <1>2, <1>6, <1>7

\* What a copy counts stays on record when the record grows by as much as is owed.
LEMMA EarnedOn ==
    ASSUME NEW copy \in Backlogs, NEW l \in Seq(Records), NEW m \in Seq(Records),
           NEW owes \in [Items -> Nat], NEW more \in [Items -> Nat],
           Earned(copy, l, owes),
           \A i \in Items :
              /\ more[i] + Cardinality(Rows(l, i)) <= owes[i] + Cardinality(Rows(m, i))
              /\ Cardinality(Rows(l, i)) <= Cardinality(Rows(m, i))
              /\ \A rcs : Has(l, i, rcs) => Has(m, i, rcs)
    PROVE  Earned(copy, m, more)
<1> SUFFICES ASSUME NEW i \in Items
             PROVE  /\ copy[i].tries + more[i] <= Cardinality(Rows(m, i))
                    /\ copy[i].status = "done" => Has(m, i, {"ok"})
                    /\ copy[i].status = "failed" =>
                          \/ Has(m, i, {"failed"})
                          \/ Cardinality(Rows(m, i)) >= RetryMax /\ Has(m, i, {"lost"})
  BY DEF Earned
<1>1. PICK x, y \in Nat : x = Cardinality(Rows(l, i)) /\ y = Cardinality(Rows(m, i))
  BY RowsCount
<1>2. copy[i].tries \in Nat /\ owes[i] \in Nat /\ more[i] \in Nat
  BY DEF Backlogs, Entry
<1>3. /\ copy[i].tries + owes[i] <= x
      /\ copy[i].status = "done" => Has(l, i, {"ok"})
      /\ copy[i].status = "failed" =>
            \/ Has(l, i, {"failed"})
            \/ x >= RetryMax /\ Has(l, i, {"lost"})
  BY <1>1 DEF Earned
<1>4. more[i] + x <= owes[i] + y /\ x <= y /\ \A rcs : Has(l, i, rcs) => Has(m, i, rcs)
  BY <1>1
<1>5. copy[i].tries + more[i] <= y
  BY <1>2, <1>3, <1>4
<1>6. x >= RetryMax => y >= RetryMax
  BY <1>4
<1> QED
  BY <1>1, <1>3, <1>4, <1>5, <1>6

\* Whoever saves an attempt owed it.
LEMMA EarnedAttempt ==
    ASSUME NEW copy \in Backlogs, NEW l \in Seq(Records), NEW owes \in [Items -> Nat],
           NEW item \in Items, NEW rc \in Codes,
           Earned(copy, l, owes), Has(l, item, {rc}), owes[item] >= 1,
           NEW less \in [Items -> Nat], \A i \in Items : less[i] <= owes[i],
           less[item] + 1 <= owes[item]
    PROVE  Earned(Attempted(copy, item, rc), l, less)
<1> DEFINE tries == copy[item].tries + 1
           new == [status |-> StatusAfter(rc, tries), tries |-> tries]
<1>1. Attempted(copy, item, rc) = [copy EXCEPT ![item] = new]
  BY DEF Attempted
<1>2. PICK x \in Nat : x = Cardinality(Rows(l, item))
  BY RowsCount
<1>3. \A i \in Items : copy[i].tries \in Nat /\ Cardinality(Rows(l, i)) \in Nat
  BY RowsCount DEF Backlogs, Entry
<1>4. copy[item].tries + owes[item] <= x
  BY <1>2 DEF Earned
<1>5. /\ new.tries = tries /\ tries + less[item] <= x
      /\ tries <= x /\ tries \in Nat
  BY <1>3, <1>4
<1>6. new.status = "done" => Has(l, item, {"ok"})
  BY DEF StatusAfter, Codes
<1>7. new.status = "failed" => \/ Has(l, item, {"failed"})
                               \/ x >= RetryMax /\ Has(l, item, {"lost"})
  <2>1. CASE rc = "ok"
    BY <2>1 DEF StatusAfter
  <2>2. CASE rc = "failed"
    BY <2>2 DEF StatusAfter
  <2>3. CASE rc = "lost"
    <3>1. new.status = IF tries < RetryMax THEN "pending" ELSE "failed"
      BY <2>3 DEF StatusAfter
    <3>2. ~(tries < RetryMax) => x >= RetryMax
      BY <1>5
    <3> QED
      BY <2>3, <3>1, <3>2
  <2> QED
    BY <2>1, <2>2, <2>3 DEF Codes
<1> HIDE DEF new, tries
<1> SUFFICES ASSUME NEW i \in Items
             PROVE  LET c == [copy EXCEPT ![item] = new]
                    IN  /\ c[i].tries + less[i] <= Cardinality(Rows(l, i))
                        /\ c[i].status = "done" => Has(l, i, {"ok"})
                        /\ c[i].status = "failed" =>
                              \/ Has(l, i, {"failed"})
                              \/ Cardinality(Rows(l, i)) >= RetryMax /\ Has(l, i, {"lost"})
  BY <1>1 DEF Earned
<1>8. CASE i = item
  <2>1. [copy EXCEPT ![item] = new][i] = new
    BY <1>8 DEF Backlogs
  <2> QED
    BY <1>2, <1>5, <1>6, <1>7, <1>8, <2>1
<1>9. CASE i # item
  <2>1. [copy EXCEPT ![item] = new][i] = copy[i]
    BY <1>9 DEF Backlogs
  <2>2. /\ copy[i].tries + owes[i] <= Cardinality(Rows(l, i))
        /\ copy[i].status = "done" => Has(l, i, {"ok"})
        /\ copy[i].status = "failed" =>
              \/ Has(l, i, {"failed"})
              \/ Cardinality(Rows(l, i)) >= RetryMax /\ Has(l, i, {"lost"})
    BY DEF Earned
  <2>3. less[i] <= owes[i] /\ less[i] \in Nat /\ owes[i] \in Nat
    OBVIOUS
  <2>4. copy[i].tries + less[i] <= Cardinality(Rows(l, i))
    BY <1>3, <2>2, <2>3
  <2> QED
    BY <2>1, <2>2, <2>4
<1> QED
  BY <1>8, <1>9

\* A status that nothing has earned claims nothing.
LEMMA EarnedOpen ==
    ASSUME NEW copy \in Backlogs, NEW l, NEW owes, Earned(copy, l, owes), NEW item \in Items,
           NEW status \in {"backlog", "needs_setup", "pending"}
    PROVE  Earned([copy EXCEPT ![item].status = status], l, owes)
<1> DEFINE c == [copy EXCEPT ![item].status = status]
<1>1. \A i \in Items : /\ c[i].tries = copy[i].tries
                       /\ c[i].status = IF i = item THEN status ELSE copy[i].status
  BY DEF Backlogs, Entry
<1> HIDE DEF c
<1>2. Earned(c, l, owes)
  BY <1>1 DEF Earned
<1> QED
  BY <1>2 DEF c

LEMMA OwesType == Owes \in [Items -> Nat]
BY DEF Owes, TickOwes, ChildOwes, OtherOwes

LEMMA EarnedInit == Init => EarnedInv
<1> SUFFICES ASSUME Init PROVE EarnedInv
  OBVIOUS
<1>1. /\ tick.pc = "idle" /\ child.pc = "none" /\ other.pc = "idle" /\ log = <<>>
  BY DEF Init, Idle, NoChild, NoOther
<1>2. \A i \in Items : /\ Owes[i] = 0 /\ backlog[i].tries = 0
                       /\ backlog[i].status \in {"absent", "pending"}
  BY <1>1 DEF Init, Owes, TickOwes, ChildOwes, OtherOwes
<1>3. \A i \in Items : Cardinality(Rows(log, i)) \in Nat
  <2>1. log \in Seq(Records)
    BY <1>1
  <2> QED
    BY <2>1, RowsCount
<1> QED
  BY <1>1, <1>2, <1>3 DEF EarnedInv, Earned, Holding

LEMMA EarnedStep == TypeInv /\ Named /\ EarnedInv /\ [Next]_vars => EarnedInv'
<1> SUFFICES ASSUME TypeInv, Named, EarnedInv, [Next]_vars PROVE EarnedInv'
  OBVIOUS
<1>types. Sorts /\ Loaded
  BY DEF TypeInv
<1>next. Sorts' /\ Loaded'
  BY TypeStep DEF TypeInv
<1>nat. /\ Owes \in [Items -> Nat] /\ Owes' \in [Items -> Nat]
        /\ log \in Seq(Records) /\ log' \in Seq(Records)
  BY <1>types, <1>next DEF Sorts, Owes, TickOwes, ChildOwes, OtherOwes
<1>held. /\ backlog \in Backlogs /\ Earned(backlog, log, Owes)
         /\ tick.pc \in Holding => tick.copy \in Backlogs /\ Earned(tick.copy, log, Owes)
         /\ child.pc = "save" => child.copy \in Backlogs /\ Earned(child.copy, log, Owes)
         /\ other.pc # "idle" => other.copy \in Backlogs /\ Earned(other.copy, log, Owes)
  BY <1>types DEF Sorts, Loaded, EarnedInv
<1> DEFINE Lasts == \A c \in Backlogs : Earned(c, log, Owes) => Earned(c, log', Owes')
<1>less. ASSUME log' = log, \A i \in Items : Owes'[i] <= Owes[i] PROVE Lasts
  <2>1. \A i \in Items : Cardinality(Rows(log, i)) \in Nat
    BY <1>nat, RowsCount
  <2>2. \A i \in Items : Owes[i] \in Nat /\ Owes'[i] \in Nat
    BY <1>nat
  <2>3. \A i \in Items :
           /\ Owes'[i] + Cardinality(Rows(log, i)) <= Owes[i] + Cardinality(Rows(log', i))
           /\ Cardinality(Rows(log, i)) <= Cardinality(Rows(log', i))
           /\ \A rcs : Has(log, i, rcs) => Has(log', i, rcs)
    BY <2>1, <2>2, <1>less
  <2> QED
    BY <2>3, <1>nat, EarnedOn
<1>grown. ASSUME NEW item \in Items, NEW run \in 0..MaxRuns, NEW rc \in Codes, NEW told,
                 Appended(item, run, rc, told),
                 \A i \in Items : Owes'[i] <= Owes[i] + IF item = i THEN 1 ELSE 0
          PROVE  /\ Lasts /\ Has(log', item, {rc})
                 /\ \A i, rcs : Has(log, i, rcs) => Has(log', i, rcs)
  <2> DEFINE r == [item |-> item, run |-> run, rc |-> rc]
  <2>1. r \in Records /\ r.item = item /\ r.rc = rc
    BY DEF Records
  <2>2. log' = Append(log, r)
    BY <1>grown DEF Appended
  <2> HIDE DEF r
  <2>3. \A i \in Items : Owes[i] \in Nat /\ Owes'[i] \in Nat /\ Cardinality(Rows(log, i)) \in Nat
    BY <1>nat, RowsCount
  <2>4. \A i : /\ Cardinality(Rows(log', i)) =
                     Cardinality(Rows(log, i)) + IF item = i THEN 1 ELSE 0
               /\ \A rcs : Has(log, i, rcs) => Has(log', i, rcs)
    BY <2>1, <2>2, <1>nat, RowsGrow
  <2>5. \A i \in Items :
           /\ Owes'[i] + Cardinality(Rows(log, i)) <= Owes[i] + Cardinality(Rows(log', i))
           /\ Cardinality(Rows(log, i)) <= Cardinality(Rows(log', i))
           /\ \A rcs : Has(log, i, rcs) => Has(log', i, rcs)
    <3> SUFFICES ASSUME NEW i \in Items
                 PROVE  /\ Owes'[i] + Cardinality(Rows(log, i))
                              <= Owes[i] + Cardinality(Rows(log', i))
                        /\ Cardinality(Rows(log, i)) <= Cardinality(Rows(log', i))
      BY <2>4
    <3>1. CASE item = i
      BY <3>1, <2>3, <2>4, <1>grown
    <3>2. CASE item # i
      BY <3>2, <2>3, <2>4, <1>grown
    <3> QED
      BY <3>1, <3>2
  <2>6. Lasts
    BY <2>5, <1>nat, EarnedOn
  <2>7. Has(log', item, {rc})
    BY <2>1, <2>2, <1>nat, RowsGrow
  <2> QED
    BY <2>4, <2>6, <2>7
<1>keep. ASSUME Lasts,
                backlog' = backlog \/ Earned(backlog', log', Owes'),
                tick'.pc \in Holding => \/ tick.pc \in Holding /\ tick'.copy = tick.copy
                                        \/ tick'.copy = backlog,
                child'.pc = "save" => \/ child.pc = "save" /\ child'.copy = child.copy
                                      \/ child'.copy = backlog,
                other'.pc # "idle" => \/ other.pc # "idle" /\ other'.copy = other.copy
                                      \/ other'.copy = backlog,
                tick'.pc \in {"orphan", "lostsave"} => Has(log', state'.item, {"lost"}),
                child'.pc \in {"load", "save"} => Has(log', child'.item, {child'.rc}),
                other'.pc = "save" => Has(log', other'.item, {"ok"})
         PROVE  EarnedInv'
  <2>1. Earned(backlog', log', Owes')
    BY <1>keep, <1>held
  <2>2. tick'.pc \in Holding => Earned(tick'.copy, log', Owes')
    BY <1>keep, <1>held
  <2>3. child'.pc = "save" => Earned(child'.copy, log', Owes')
    BY <1>keep, <1>held
  <2>4. other'.pc # "idle" => Earned(other'.copy, log', Owes')
    BY <1>keep, <1>held
  <2> QED
    BY <2>1, <2>2, <2>3, <2>4, <1>keep DEF EarnedInv
<1> HIDE DEF Lasts
<1>mine. /\ tick.pc \in {"orphan", "lostsave"} => Has(log, state.item, {"lost"})
         /\ child.pc \in {"load", "save"} => Has(log, child.item, {child.rc})
         /\ other.pc = "save" => Has(log, other.item, {"ok"})
  BY DEF EarnedInv
\* A step of the tick that records nothing.
<1>quiet. ASSUME UNCHANGED <<log, child, other, state>>,
                 tick'.pc \in {"orphan", "lostsave"} => tick.pc \in {"orphan", "lostsave"}
          PROVE  Lasts
  <2>1. \A i \in Items : Owes'[i] <= Owes[i]
    BY <1>quiet DEF Owes, TickOwes, ChildOwes, OtherOwes
  <2> QED
    BY <2>1, <1>quiet, <1>less
<1>tick. ASSUME UNCHANGED <<log, child, other, state>>,
                tick'.pc \in {"orphan", "lostsave"} => tick.pc \in {"orphan", "lostsave"},
                backlog' = backlog \/ Earned(backlog', log', Owes'),
                tick'.pc \in Holding => \/ tick.pc \in Holding /\ tick'.copy = tick.copy
                                        \/ tick'.copy = backlog
         PROVE  EarnedInv'
  BY <1>tick, <1>quiet, <1>keep, <1>mine
<1>go. ASSUME NEW pc, Goto(pc) PROVE tick'.pc = pc
  BY <1>go DEF Goto, Idle
<1>1. CASE TickBegin
  <2>1. /\ UNCHANGED <<backlog, log, child, other, state>>
        /\ tick'.pc \in {"gap", "flag"}
    BY <1>1, <1>go DEF TickBegin, TickOnly, NoFiles, files, Idle, At, Holding
  <2> QED
    BY <2>1, <1>tick DEF Holding
<1>2. CASE TickFlag
  <2>1. tick'.pc = "gap" /\ UNCHANGED <<backlog, log, child, other, state>>
    BY <1>2, <1>go DEF TickFlag, TickOnly
  <2> QED
    BY <2>1, <1>tick DEF Holding
<1>3. CASE TickGap
  <2>1. /\ UNCHANGED <<backlog, log, child, other, state>>
        /\ tick'.pc = "promote" \/ (tick'.pc = "rewrite" /\ tick'.copy = backlog)
    BY <1>3, <1>go DEF TickGap, TickOnly, NoFiles, files, Idle, At, Holding
  <2> QED
    BY <2>1, <1>tick DEF Holding
<1>4. CASE TickRewrite
  <2>1. /\ UNCHANGED <<backlog, log, child, other, state>>
        /\ tick.pc = "rewrite" /\ tick'.pc = "resave" /\ tick'.copy = tick.copy
    BY <1>4, <1>types DEF TickRewrite, At, TickOnly, Sorts, Ticks
  <2> QED
    BY <2>1, <1>tick DEF Holding
<1>5. CASE TickResave
  <2>1. /\ tick.pc = "resave" /\ tick'.pc = "promote" /\ backlog' = tick.copy
        /\ UNCHANGED <<log, child, other, state>>
    BY <1>5, <1>go DEF TickResave, At, TickOnly
  <2>2. Lasts
    BY <2>1, <1>quiet
  <2>3. Earned(backlog', log', Owes')
    BY <2>1, <2>2, <1>held DEF Lasts, Holding
  <2> QED
    BY <2>1, <2>3, <1>tick DEF Holding
<1>6. CASE TickPromote
  <2>1. /\ UNCHANGED <<backlog, log, child, other, state>>
        /\ tick'.pc = "lock" \/ (tick'.pc = "save" /\ tick'.copy = backlog)
    BY <1>6, <1>go DEF TickPromote, TickOnly, NoFiles, files, Idle, At, Holding
  <2> QED
    BY <2>1, <1>tick DEF Holding
<1>7. CASE TickSave
  <2>1. /\ tick.pc = "save" /\ tick'.pc = "lock"
        /\ UNCHANGED <<log, child, other, state>>
    BY <1>7, <1>go DEF TickSave, At, TickOnly
  <2>2. PICK i \in Waiting(tick.copy) : backlog' = Promoted(tick.copy, i)
    BY <1>7 DEF TickSave
  <2>3. i \in Items /\ tick.copy \in Backlogs /\ Earned(tick.copy, log, Owes)
    BY <2>1, <2>2, <1>held DEF Waiting, Holding
  <2>4. Earned(tick.copy, log', Owes')
    BY <2>1, <2>3, <1>quiet DEF Lasts
  <2>5. Earned(backlog', log', Owes')
    BY <2>2, <2>3, <2>4, EarnedOpen DEF Promoted
  <2> QED
    BY <2>1, <2>5, <1>tick DEF Holding
<1>8. CASE TickLock
  <2>1. /\ UNCHANGED <<backlog, log, child, other, state>>
        /\ tick'.pc \in {"idle", "death", "report"}
    BY <1>8, <1>go DEF TickLock, TickOnly
  <2> QED
    BY <2>1, <1>tick DEF Holding
<1>31. CASE TickDeath
  <2>1. At("death") /\ UNCHANGED <<backlog, child, other, state>>
    BY <1>31 DEF TickDeath
  <2>2. CASE UNCHANGED log /\ (Goto("idle") \/ Goto("report"))
    <3>1. tick'.pc \in {"idle", "report"}
      BY <2>2, <1>go
    <3> QED
      BY <2>1, <2>2, <3>1, <1>tick DEF Holding
  <2>3. CASE Goto("orphan") /\ Appended(state.item, state.run, "lost", "now")
    <3>1. state.item \in Items /\ state.run \in 0..MaxRuns /\ tick'.pc = "orphan"
      BY <2>1, <2>3, <1>types, <1>go DEF At, Named, Death, Sorts, States
    <3>2. \A i \in Items : Owes'[i] <= Owes[i] + IF state.item = i THEN 1 ELSE 0
      BY <2>1, <3>1 DEF Owes, TickOwes, ChildOwes, OtherOwes, At
    <3>3. /\ Lasts /\ Has(log', state.item, {"lost"})
          /\ \A i, rcs : Has(log, i, rcs) => Has(log', i, rcs)
      BY <2>3, <3>1, <3>2, <1>grown DEF Codes
    <3> QED
      BY <2>1, <3>1, <3>3, <1>keep, <1>mine DEF Holding
  <2> QED
    BY <1>31, <2>2, <2>3 DEF TickDeath
<1>9. CASE TickOrphan
  <2>1. /\ UNCHANGED <<backlog, log, child, other, state>>
        /\ tick.pc = "orphan" /\ tick'.pc = "lostsave" /\ tick'.copy = backlog
    BY <1>9, <1>go DEF TickOrphan, TickOnly, NoFiles, files, Idle, At, Holding
  <2> QED
    BY <2>1, <1>tick DEF Holding
<1>10. CASE TickLostSave
  <2>1. /\ tick.pc = "lostsave" /\ tick'.pc = "sent"
        /\ backlog' = Attempted(tick.copy, state.item, "lost")
        /\ UNCHANGED <<log, child, other, state>>
    BY <1>10, <1>go DEF TickLostSave, At, TickOnly
  <2>2. state.item \in Items /\ tick.copy \in Backlogs /\ Earned(tick.copy, log, Owes)
    BY <2>1, <1>held DEF Named, Holding, Death
  <2>3. /\ \A i \in Items : Owes'[i] <= Owes[i]
        /\ Owes[state.item] >= 1 /\ Owes'[state.item] + 1 <= Owes[state.item]
    BY <2>1, <2>2 DEF Owes, TickOwes, ChildOwes, OtherOwes
  <2>4. Has(log, state.item, {"lost"})
    BY <2>1, <1>mine
  <2>5. Earned(backlog', log', Owes')
    BY <2>1, <2>2, <2>3, <2>4, <1>nat, EarnedAttempt DEF Codes
  <2> QED
    BY <2>1, <2>5, <1>tick DEF Holding
<1>11. CASE TickReport
  <2>1. /\ UNCHANGED <<backlog, log, child, other, state>>
        /\ tick'.pc \in {"start", "mark"}
    BY <1>11, <1>go DEF TickReport, TickOnly, NoFiles, files, Idle, At, Holding
  <2> QED
    BY <2>1, <1>tick DEF Holding
<1>12. CASE TickMark
  <2>1. tick'.pc = "sent" /\ UNCHANGED <<backlog, log, child, other, state>>
    BY <1>12, <1>go DEF TickMark, TickOnly
  <2> QED
    BY <2>1, <1>tick DEF Holding
<1>13. CASE TickSent
  <2>1. tick'.pc = "idle" /\ UNCHANGED <<backlog, log, child, other, state>>
    BY <1>13, <1>go DEF TickSent
  <2> QED
    BY <2>1, <1>tick DEF Holding
<1>14. CASE TickStart
  <2>1. /\ tick.pc = "start" /\ tick'.pc = "settle"
        /\ UNCHANGED <<backlog, log, other>>
    BY <1>14, <1>go DEF TickStart, At
  <2>2. child'.pc = "guard"
    BY <1>14 DEF TickStart, NoChild
  <2>3. \A i \in Items : Owes'[i] <= Owes[i]
    BY <2>1, <2>2 DEF Owes, TickOwes, ChildOwes, OtherOwes
  <2>4. Lasts
    BY <2>1, <2>3, <1>less
  <2> QED
    BY <2>1, <2>2, <2>4, <1>keep, <1>mine DEF Holding
<1>15. CASE TickWait
  <2>1. tick'.pc = "idle" /\ UNCHANGED <<backlog, log, child, other, state>>
    BY <1>15, <1>go DEF TickWait, TickOnly, NoFiles, files
  <2> QED
    BY <2>1, <1>tick DEF Holding
<1>16. CASE TickSettle
  <2>1. /\ tick.pc = "settle" /\ tick'.pc = "idle"
        /\ UNCHANGED <<backlog, log, child, other>>
    BY <1>16, <1>go DEF TickSettle, At, TickOnly
  <2>2. \A i \in Items : Owes'[i] <= Owes[i]
    BY <2>1 DEF Owes, TickOwes, ChildOwes, OtherOwes
  <2>3. Lasts
    BY <2>1, <2>2, <1>less
  <2> QED
    BY <2>1, <2>3, <1>keep, <1>mine DEF Holding
<1>17. CASE RunGo
  <2>1. /\ UNCHANGED <<backlog, log, tick, other>>
        /\ child'.pc = "run"
    BY <1>17, <1>types DEF RunGo, RunOnly, NoFiles, files, Sorts, Children
  <2>2. state' = state \/ tick.pc \notin {"orphan", "lostsave"}
    BY <1>17 DEF RunGo, RunOnly, NoFiles, files, Named, Death
  <2>3. \A i \in Items : Owes'[i] <= Owes[i]
    BY <2>1, <2>2 DEF Owes, TickOwes, ChildOwes, OtherOwes
  <2>4. Lasts
    BY <2>1, <2>3, <1>less
  <2> QED
    BY <2>1, <2>2, <2>4, <1>keep, <1>mine
<1>18. CASE RunRefuse
  <2>1. /\ UNCHANGED <<backlog, log, tick, other>>
        /\ child'.pc = "refused"
    BY <1>18, <1>types DEF RunRefuse, RunOnly, NoFiles, files, Sorts, Children
  <2>2. state' = state \/ tick.pc \notin {"orphan", "lostsave"}
    BY <1>18 DEF RunRefuse, RunOnly, NoFiles, files, Named, Death
  <2>3. \A i \in Items : Owes'[i] <= Owes[i]
    BY <2>1, <2>2 DEF Owes, TickOwes, ChildOwes, OtherOwes
  <2>4. Lasts
    BY <2>1, <2>3, <1>less
  <2> QED
    BY <2>1, <2>2, <2>4, <1>keep, <1>mine
<1>19. CASE RunEnd
  <2>1. PICK rc \in Codes : /\ Appended(child.item, child.run, rc, "no")
                            /\ child' = [child EXCEPT !.pc = "load", !.rc = rc]
    BY <1>19 DEF RunEnd, Codes
  <2>2. /\ child.pc = "run" /\ child'.pc = "load"
        /\ child'.item = child.item /\ child'.rc = rc
        /\ UNCHANGED <<backlog, state, tick, other>>
    BY <1>19, <2>1, <1>types DEF RunEnd, RunOnly, Sorts, Children
  <2>3. child.item \in Items /\ child.run \in 0..MaxRuns
    BY <2>2, <1>types DEF Loaded
  <2>4. \A i \in Items : Owes'[i] <= Owes[i] + IF child.item = i THEN 1 ELSE 0
    BY <2>2 DEF Owes, TickOwes, ChildOwes, OtherOwes
  <2>5. /\ Lasts /\ Has(log', child.item, {rc})
        /\ \A i, rcs : Has(log, i, rcs) => Has(log', i, rcs)
    BY <2>1, <2>3, <2>4, <1>grown
  <2> QED
    BY <2>2, <2>5, <1>keep, <1>mine
<1>20. CASE RunLoad
  <2>1. /\ UNCHANGED <<backlog, log, tick, other>>
        /\ child.pc = "load" /\ child' = [child EXCEPT !.pc = "save", !.copy = backlog]
        /\ child'.pc = "save" /\ child'.copy = backlog
        /\ child'.item = child.item /\ child'.rc = child.rc
    BY <1>20, <1>types DEF RunLoad, RunOnly, NoFiles, files, Sorts, Children
  <2>2. state' = state \/ tick.pc \notin {"orphan", "lostsave"}
    BY <1>20 DEF RunLoad, RunOnly, NoFiles, files, Named, Death
  <2>3. \A i \in Items : Owes'[i] <= Owes[i]
    BY <2>1, <2>2 DEF Owes, TickOwes, ChildOwes, OtherOwes
  <2>4. Lasts
    BY <2>1, <2>3, <1>less
  <2> QED
    BY <2>1, <2>2, <2>4, <1>keep, <1>mine
<1>21. CASE RunSave
  <2>1. /\ child.pc = "save" /\ child'.pc = "leave"
        /\ UNCHANGED <<log, state, tick, other>>
    BY <1>21, <1>types DEF RunSave, RunOnly, Sorts, Children
  <2>2. \A i \in Items : Owes'[i] <= Owes[i]
    BY <2>1 DEF Owes, TickOwes, ChildOwes, OtherOwes
  <2>3. Lasts
    BY <2>1, <2>2, <1>less
  <2>4. /\ child.item \in Items /\ child.copy \in Backlogs /\ child.rc \in Codes
        /\ Earned(child.copy, log, Owes)
    BY <2>1, <1>types, <1>held DEF Loaded, Sorts, Children
  <2>5. Owes[child.item] >= 1 /\ Owes'[child.item] + 1 <= Owes[child.item]
    BY <2>1, <2>4 DEF Owes, TickOwes, ChildOwes, OtherOwes
  <2>6. Earned(Attempted(child.copy, child.item, child.rc), log, Owes')
    BY <2>1, <2>2, <2>4, <2>5, <1>mine, <1>nat, EarnedAttempt
  <2>7. backlog' = backlog \/ Earned(backlog', log', Owes')
    BY <1>21, <2>1, <2>6 DEF RunSave
  <2> QED
    BY <2>1, <2>3, <2>7, <1>keep, <1>mine
<1>22. CASE RunLeave
  <2>1. /\ UNCHANGED <<backlog, log, tick, other>>
        /\ child'.pc = "none"
    BY <1>22, <1>types DEF RunLeave, RunOnly, Sorts, Children, NoChild
  <2>2. state' = state \/ tick.pc \notin {"orphan", "lostsave"}
    BY <1>22 DEF RunLeave, RunOnly, Named, Death
  <2>3. \A i \in Items : Owes'[i] <= Owes[i]
    BY <2>1, <2>2 DEF Owes, TickOwes, ChildOwes, OtherOwes
  <2>4. Lasts
    BY <2>1, <2>3, <1>less
  <2> QED
    BY <2>1, <2>2, <2>4, <1>keep, <1>mine
<1>23. CASE IngestLoad
  <2>1. /\ UNCHANGED <<backlog, log, tick, child, state>>
        /\ other.pc = "idle" /\ other'.pc = "append" /\ other'.copy = backlog
    BY <1>23 DEF IngestLoad, OthersOnly
  <2>2. \A i \in Items : Owes'[i] <= Owes[i]
    BY <2>1 DEF Owes, TickOwes, ChildOwes, OtherOwes
  <2>3. Lasts
    BY <2>1, <2>2, <1>less
  <2> QED
    BY <2>1, <2>3, <1>keep, <1>mine
<1>24. CASE IngestAppend
  <2>1. /\ other.pc = "append" /\ other'.pc = "save"
        /\ other'.item = other.item /\ other'.copy = other.copy
        /\ Appended(other.item, 0, "ok", "no")
        /\ UNCHANGED <<backlog, tick, child, state>>
    BY <1>24, <1>types DEF IngestAppend, OthersOnly, Sorts, Others
  <2>2. other.item \in Items /\ 0 \in 0..MaxRuns
    BY <2>1, <1>types DEF Loaded
  <2>3. \A i \in Items : Owes'[i] <= Owes[i] + IF other.item = i THEN 1 ELSE 0
    BY <2>1 DEF Owes, TickOwes, ChildOwes, OtherOwes
  <2>4. /\ Lasts /\ Has(log', other.item, {"ok"})
        /\ \A i, rcs : Has(log, i, rcs) => Has(log', i, rcs)
    BY <2>1, <2>2, <2>3, <1>grown DEF Codes
  <2> QED
    BY <2>1, <2>4, <1>keep, <1>mine
<1>25. CASE IngestSave
  <2>1. /\ other.pc = "save" /\ other'.pc = "idle"
        /\ backlog' = Attempted(other.copy, other.item, "ok")
        /\ UNCHANGED <<log, tick, child, state>>
    BY <1>25 DEF IngestSave, OthersOnly, NoOther
  <2>2. \A i \in Items : Owes'[i] <= Owes[i]
    BY <2>1 DEF Owes, TickOwes, ChildOwes, OtherOwes
  <2>3. Lasts
    BY <2>1, <2>2, <1>less
  <2>4. other.item \in Items /\ other.copy \in Backlogs /\ Earned(other.copy, log, Owes)
    BY <2>1, <1>types, <1>held DEF Loaded
  <2>5. Owes[other.item] >= 1 /\ Owes'[other.item] + 1 <= Owes[other.item]
    BY <2>1, <2>4 DEF Owes, TickOwes, ChildOwes, OtherOwes
  <2>6. Earned(backlog', log', Owes')
    BY <2>1, <2>2, <2>4, <2>5, <1>mine, <1>nat, EarnedAttempt DEF Codes
  <2> QED
    BY <2>1, <2>3, <2>6, <1>keep, <1>mine
<1>26. CASE HandoverLoad
  <2>1. /\ UNCHANGED <<backlog, log, tick, child, state>>
        /\ other.pc = "idle" /\ other'.pc = "handover" /\ other'.copy = backlog
    BY <1>26 DEF HandoverLoad, OthersOnly
  <2>2. \A i \in Items : Owes'[i] <= Owes[i]
    BY <2>1 DEF Owes, TickOwes, ChildOwes, OtherOwes
  <2>3. Lasts
    BY <2>1, <2>2, <1>less
  <2> QED
    BY <2>1, <2>3, <1>keep, <1>mine
<1>27. CASE HandoverSave
  <2>1. /\ other.pc = "handover" /\ other'.pc = "idle"
        /\ backlog' = [other.copy EXCEPT ![other.item].status = "backlog"]
        /\ UNCHANGED <<log, tick, child, state>>
    BY <1>27 DEF HandoverSave, OthersOnly, NoOther
  <2>2. \A i \in Items : Owes'[i] <= Owes[i]
    BY <2>1 DEF Owes, TickOwes, ChildOwes, OtherOwes
  <2>3. Lasts
    BY <2>1, <2>2, <1>less
  <2>4. other.item \in Items /\ other.copy \in Backlogs /\ Earned(other.copy, log, Owes)
    BY <2>1, <1>types, <1>held DEF Loaded
  <2>5. Earned(other.copy, log', Owes')
    BY <2>3, <2>4 DEF Lasts
  <2>6. Earned(backlog', log', Owes')
    BY <2>1, <2>4, <2>5, EarnedOpen
  <2> QED
    BY <2>1, <2>3, <2>6, <1>keep, <1>mine
<1>28. CASE Kill
  <2>1. /\ UNCHANGED <<backlog, log, tick, other>>
        /\ child'.pc = "none"
    BY <1>28, <1>types DEF Kill, RunOnly, NoFiles, files, Sorts, Children, NoChild
  <2>2. state' = state \/ tick.pc \notin {"orphan", "lostsave"}
    BY <1>28 DEF Kill, RunOnly, NoFiles, files, Named, Death
  <2>3. \A i \in Items : Owes'[i] <= Owes[i]
    BY <2>1, <2>2 DEF Owes, TickOwes, ChildOwes, OtherOwes
  <2>4. Lasts
    BY <2>1, <2>3, <1>less
  <2> QED
    BY <2>1, <2>2, <2>4, <1>keep, <1>mine
<1>29. CASE HostDown
  <2>1. /\ UNCHANGED <<backlog, log, state>>
        /\ tick'.pc = "idle" /\ child'.pc = "none" /\ other'.pc = "idle"
    BY <1>29 DEF HostDown, Idle, NoChild, NoOther
  <2>2. \A i \in Items : Owes'[i] <= Owes[i]
    BY <2>1 DEF Owes, TickOwes, ChildOwes, OtherOwes
  <2>3. Lasts
    BY <2>1, <2>2, <1>less
  <2> QED
    BY <2>1, <2>3, <1>keep DEF Holding
<1>30. CASE UNCHANGED vars
  <2>1. UNCHANGED <<backlog, log, tick, child, other, state>>
    BY <1>30 DEF vars, files, procs
  <2>2. \A i \in Items : Owes'[i] <= Owes[i]
    BY <2>1 DEF Owes, TickOwes, ChildOwes, OtherOwes
  <2>3. Lasts
    BY <2>1, <2>2, <1>less
  <2> QED
    BY <2>1, <2>3, <1>keep, <1>mine
<1> QED
  BY <1>1, <1>2, <1>3, <1>4, <1>5, <1>6, <1>7, <1>8, <1>9, <1>10, <1>11, <1>12, <1>13,
     <1>14, <1>15, <1>16, <1>17, <1>18, <1>19, <1>20, <1>21, <1>22, <1>23, <1>24, <1>25,
     <1>26, <1>27, <1>28, <1>29, <1>30, <1>31 DEF Next, TickStep, RunStep, OtherStep

-----------------------------------------------------------------------------
(* The theorems *)

IInv == TypeInv /\ Named /\ RowsInv /\ EarnedInv

LEMMA Invariant == Spec => []IInv
<1>1. Init => IInv
  BY TypeInit, NamedInit, RowsInit, EarnedInit DEF IInv, Death
<1>2. IInv /\ [Next]_vars => IInv'
  BY TypeStep, NamedStep, RowsStep, EarnedStep DEF IInv, Death
<1> QED
  BY <1>1, <1>2, PTL DEF Spec

\* Files and processes always have the values the script gives them: what is
\* saved was loaded, and every row and attempt is an experiment's, for any
\* number of experiments, runs, ingests and faults.
THEOREM TypesHold == Spec => []TypeOK
<1>1. IInv => TypeOK
  BY TypeIsSorts DEF IInv, TypeInv
<1> QED
  BY <1>1, Invariant, PTL

\* No run has two rows, however the tick's rewriting of the ledger, the runs'
\* rows and the records of deaths overtake each other (tick, 4204-4232).
THEOREM OneRowPerRunHolds == Spec => []OneRowPerRun
<1>1. IInv => OneRowPerRun
  BY DEF IInv, RowsInv
<1> QED
  BY <1>1, Invariant, PTL

\* An item is closed only by what is on record, whichever save of the backlog
\* brings back whatever copy of it (execute, backlog_status_after).
THEOREM ClosedIsEarnedHolds == Spec => []ClosedIsEarned
<1>1. IInv => ClosedIsEarned
  BY DEF IInv, EarnedInv, Earned, ClosedIsEarned, Has, Rows, Recorded, RowsOf
<1> QED
  BY <1>1, Invariant, PTL
=============================================================================
