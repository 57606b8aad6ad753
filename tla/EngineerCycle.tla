---------------------------- MODULE EngineerCycle ----------------------------
(* scripts/model_engineer_cycle.py: the research cycle of the model engineer. *)
(* The backlog of experiments is one JSON file that every process loads,      *)
(* changes and saves whole; the ledger of results is a JSON-lines file that   *)
(* runs append to and the tick rewrites whole.  An hourly --tick sees to      *)
(* results that were not delivered, to handed-over items, to a run that died, *)
(* to results not reported yet, and only then starts the next experiment; the *)
(* experiment's process records its result.  --ingest and the other roles'    *)
(* hand-overs write the same files.  What keeps two experiments apart is the  *)
(* matter of CycleLock; here cron alone starts them.                          *)
EXTENDS Integers, Sequences, FiniteSets, SequencesExt

CONSTANTS
    Items,      \* experiments, by their id
    Handed,     \* those the other roles hand over; the rest are pending
    Commanded,  \* those that have a command
    Needs,      \* depends_on of each item
    Unparsed,   \* items whose metric had no parser yet when they were run
    RetryMax,   \* RETRY_MAX, 3 in the code
    NoItem,
    MaxRuns, MaxIngests,  \* bounds: experiments started, results ingested
    MaxFaults   \* bound: kills, host failures, failed saves, rows and reports

ASSUME EngineerAssumption ==
    /\ Handed \subseteq Items /\ Commanded \subseteq Items /\ Unparsed \subseteq Items
    /\ Needs \in [Items -> SUBSET Items] /\ NoItem \notin Items
    /\ RetryMax \in Nat \ {0} /\ MaxRuns \in Nat
    /\ MaxIngests \in Nat /\ MaxFaults \in Nat

VARIABLES
    backlog,  \* QUANT_MODEL_BACKLOG.json
    ledger,   \* model_engineer_ledger.jsonl
    pidfile,  \* running.pid; 0 when it is not there
    state,    \* state.json
    tick,     \* the cron process: where it stands and what it has loaded
    child,    \* the --run process
    other,    \* a person's --ingest, or another role that hands an item over
    count,    \* how many runs, ingests and faults so far, and, a history, the
              \* runs whose death slipped through between two steps of a tick
    log       \* history: every row ever appended to the ledger

files == <<backlog, ledger, pidfile, state>>
procs == <<tick, child, other>>
vars == <<files, procs, count, log>>

Entry == [status : {"absent", "backlog", "needs_setup", "pending", "done", "failed"},
          tries : Nat]
\* "told" is what reported, reported_at and the outcome the executions database
\* has for that time amount to: not reported, reported by the execution under
\* way, by one that was delivered, by one that failed, and by one that failed
\* more than UNDELIVERED_LOOKBACK_HOURS ago.
Row == [item : Items, run : 0..MaxRuns, rc : {"ok", "lost", "failed"},
        judged : BOOLEAN, at : Nat,
        told : {"no", "now", "delivered", "failed", "old"}]
Unread == <<>>
Copies == [Items -> Entry] \cup {Unread}
NoState == [item |-> NoItem, run |-> 0, at |-> 0]
NoChild == [pc |-> "none", run |-> 0, item |-> NoItem, rc |-> "ok", copy |-> Unread]

TypeOK ==
    /\ backlog \in [Items -> Entry] /\ ledger \in Seq(Row)
    /\ pidfile \in 0..MaxRuns
    /\ state \in [item : Items \cup {NoItem}, run : 0..MaxRuns, at : Nat]
    /\ tick \in [pc : {"idle", "flag", "gap", "rewrite", "resave", "promote",
                       "save", "lock", "death", "orphan", "lostsave", "report",
                       "mark", "start", "settle", "sent"},
                 led : Seq(Row), copy : Copies]
    /\ child \in [pc : {"none", "guard", "run", "load", "save", "refused", "leave"},
                  run : 0..MaxRuns, item : Items \cup {NoItem},
                  rc : {"ok", "lost", "failed"}, copy : Copies]
    /\ other \in [pc : {"idle", "append", "save", "handover"},
                  item : Items \cup {NoItem}, copy : Copies]
    /\ count \in [runs : 0..MaxRuns, ingests : 0..MaxIngests, faults : 0..MaxFaults,
                  slipped : SUBSET (0..MaxRuns)]
    /\ log \in Seq([item : Items, run : 0..MaxRuns, rc : {"ok", "lost", "failed"}])

Idle == [pc |-> "idle", led |-> <<>>, copy |-> Unread]
NoOther == [pc |-> "idle", item |-> NoItem, copy |-> Unread]

Init ==
    /\ backlog = [i \in Items |-> [status |-> IF i \in Handed THEN "absent" ELSE "pending",
                                   tries |-> 0]]
    /\ ledger = <<>> /\ log = <<>>
    /\ pidfile = 0 /\ state = NoState
    /\ tick = Idle /\ child = NoChild /\ other = NoOther
    /\ count = [runs |-> 0, ingests |-> 0, faults |-> 0, slipped |-> {}]

-----------------------------------------------------------------------------
(* What is made of the files *)

\* append_ledger
Appended(item, run, rc, told) ==
    /\ ledger' = Append(ledger,
          [item |-> item, run |-> run, rc |-> rc, told |-> told, at |-> Len(log) + 1,
           judged |-> rc # "ok" \/ item \notin Unparsed])
    /\ log' = Append(log, [item |-> item, run |-> run, rc |-> rc])

Retold(led, from, to) ==
    [j \in DOMAIN led |-> IF led[j].told = from THEN [led[j] EXCEPT !.told = to] ELSE led[j]]

\* Mutant: a result that was printed counts as read.
FlaggedNever(led) == led
\* check_undelivered_reports
Flagged(led) == Retold(led, "failed", "no")
Judged(led) == [j \in DOMAIN led |-> [led[j] EXCEPT !.judged = TRUE]]

\* Mutant: a run that was lost is the item's failure.
StatusNoRetry(rc, tries) == IF rc = "ok" THEN "done" ELSE "failed"
\* backlog_status_after: what an accident took is tried again.
StatusAfter(rc, tries) ==
    CASE rc = "ok"     -> "done"
      [] rc = "failed" -> "failed"
      [] OTHER         -> IF tries < RetryMax THEN "pending" ELSE "failed"

\* The attempt is added to the item, and its status follows.
Attempted(copy, item, rc) ==
    LET tries == copy[item].tries + 1
    IN  [copy EXCEPT ![item] = [status |-> StatusAfter(rc, tries), tries |-> tries]]

Waiting(copy) == {i \in Items : copy[i].status = "backlog"}

\* Mutant: the item gets a status that nothing reads.
PromotedMarked(copy, i) == [copy EXCEPT ![i].status = "promoted"]
\* promote_handoffs: one item a tick, by priority; any order here.
Promoted(copy, i) ==
    [copy EXCEPT ![i].status = IF i \in Commanded THEN "pending" ELSE "needs_setup"]

\* _dep_done
DepDone(d, copy, led) ==
    copy[d].status = "done" \/ \E j \in DOMAIN led : led[j].item = d /\ led[j].rc = "ok"
\* next_item: the ETA guard may pass over any of them, so any may come first.
Startable(copy, led) ==
    {i \in Commanded : copy[i].status = "pending" /\ \A d \in Needs[i] : DepDone(d, copy, led)}

\* Mutant: a death is recorded without a look at the ledger.
NoRecord(st) == FALSE
\* Mutant: any record of the item will do, an earlier attempt's too.
AnyRecord(st) == \E j \in DOMAIN ledger : ledger[j].item = st.item
\* The run state.json speaks of has left a record since it was started.
HasRecord(st) == \E j \in DOMAIN ledger : ledger[j].item = st.item /\ ledger[j].at > st.at

Alive(run) == run # 0 /\ child.pc # "none" /\ child.run = run

-----------------------------------------------------------------------------
(* The tick *)

At(pc) == tick.pc = pc
Goto(pc) == tick' = [Idle EXCEPT !.pc = pc]
TickOnly == UNCHANGED <<child, other, count>>
NoFiles == UNCHANGED <<files, log>>

TickBegin ==
    /\ At("idle")
    /\ IF \E j \in DOMAIN ledger : ledger[j].told = "failed"
       THEN tick' = [Idle EXCEPT !.pc = "flag", !.led = ledger]
       ELSE Goto("gap")
    /\ NoFiles /\ TickOnly

\* Results of a report that was not delivered are unreported again.
TickFlag ==
    /\ At("flag")
    /\ ledger' = Flagged(tick.led)
    /\ Goto("gap")
    /\ TickOnly /\ UNCHANGED <<backlog, pidfile, state, log>>

\* rejudge_parser_gap loads the ledger and the backlog; the parser may be
\* there by now.
TickGap ==
    /\ At("gap")
    /\ \/ Goto("promote")
       \/ /\ \E j \in DOMAIN ledger : ~ledger[j].judged
          /\ tick' = [pc |-> "rewrite", led |-> ledger, copy |-> backlog]
    /\ NoFiles /\ TickOnly

TickRewrite ==
    /\ At("rewrite")
    /\ ledger' = Judged(tick.led)
    /\ tick' = [tick EXCEPT !.pc = "resave"]
    /\ TickOnly /\ UNCHANGED <<backlog, pidfile, state, log>>

TickResave ==
    /\ At("resave")
    /\ backlog' = tick.copy
    /\ Goto("promote")
    /\ TickOnly /\ UNCHANGED <<ledger, pidfile, state, log>>

TickPromote ==
    /\ At("promote")
    /\ IF Waiting(backlog) = {} THEN Goto("lock")
       ELSE tick' = [Idle EXCEPT !.pc = "save", !.copy = backlog]
    /\ NoFiles /\ TickOnly

TickSave ==
    /\ At("save")
    /\ \E i \in Waiting(tick.copy) : backlog' = Promoted(tick.copy, i)
    /\ Goto("lock")
    /\ TickOnly /\ UNCHANGED <<ledger, pidfile, state, log>>

\* A run under way ends the tick.  A pid file without a process is removed, once
\* state.json is read; only then comes the question whether the run left a record.
TickLock ==
    /\ At("lock")
    /\ IF Alive(pidfile) \/ Alive(state.run)
       THEN Goto("idle") /\ UNCHANGED pidfile
       ELSE /\ pidfile' = 0
            /\ Goto(IF pidfile # 0 /\ state # NoState THEN "death" ELSE "report")
    /\ TickOnly /\ UNCHANGED <<backlog, ledger, state, log>>

\* The death of a run that left no record is recorded, and the tick reports it
\* there and then.  When the row cannot be written the exception ends the tick,
\* and no later one asks again: the pid file is gone.
TickDeath ==
    /\ At("death")
    /\ \/ /\ HasRecord(state)
          /\ Goto("report") /\ UNCHANGED <<ledger, log, count>>
       \/ /\ ~HasRecord(state)
          /\ Appended(state.item, state.run, "lost", "now")
          /\ Goto("orphan") /\ UNCHANGED count
       \/ /\ ~HasRecord(state) /\ count.faults < MaxFaults
          /\ count' = [count EXCEPT !.faults = @ + 1, !.slipped = @ \cup {state.run}]
          /\ Goto("idle") /\ UNCHANGED <<ledger, log>>
    /\ UNCHANGED <<backlog, pidfile, state, child, other>>

TickOrphan ==
    /\ At("orphan")
    /\ tick' = [Idle EXCEPT !.pc = "lostsave", !.copy = backlog]
    /\ NoFiles /\ TickOnly

TickLostSave ==
    /\ At("lostsave")
    /\ backlog' = Attempted(tick.copy, state.item, "lost")
    /\ Goto("sent")
    /\ TickOnly /\ UNCHANGED <<ledger, pidfile, state, log>>

TickReport ==
    /\ At("report")
    /\ IF \E j \in DOMAIN ledger : ledger[j].told = "no"
       THEN tick' = [Idle EXCEPT !.pc = "mark", !.led = ledger]
       ELSE Goto("start")
    /\ NoFiles /\ TickOnly

TickMark ==
    /\ At("mark")
    /\ ledger' = Retold(tick.led, "no", "now")
    /\ Goto("sent")
    /\ TickOnly /\ UNCHANGED <<backlog, pidfile, state, log>>

\* The answer the tick's execution gives reaches its reader, or it does not.
TickSent ==
    /\ At("sent")
    /\ \/ ledger' = Retold(ledger, "now", "delivered") /\ UNCHANGED count
       \/ /\ count.faults < MaxFaults
          /\ count' = [count EXCEPT !.faults = @ + 1]
          /\ ledger' = Retold(ledger, "now", "failed")
    /\ Goto("idle")
    /\ UNCHANGED <<backlog, pidfile, state, child, other, log>>

\* start_background: the process, the pid file and state.json.
TickStart ==
    /\ At("start") /\ count.runs < MaxRuns
    /\ \E i \in Startable(backlog, ledger) :
          LET run == count.runs + 1
          IN  /\ child' = [NoChild EXCEPT !.pc = "guard", !.run = run, !.item = i]
              /\ pidfile' = run
              /\ state' = [item |-> i, run |-> run, at |-> Len(log)]
              /\ count' = [count EXCEPT !.runs = run]
    /\ Goto("settle")
    /\ UNCHANGED <<backlog, ledger, other, log>>

\* No item can be started, or a guard refuses.  (data_axis_readiness_note may
\* then promote a needs_setup item that has all it takes to run; those of
\* this model have no command, so it leaves them.)
TickWait ==
    /\ At("start")
    /\ Goto("idle")
    /\ NoFiles /\ TickOnly

\* Three seconds later: a child that was refused or has ended leaves no trace.
TickSettle ==
    /\ At("settle")
    /\ IF child.pc \in {"none", "refused"}
       THEN pidfile' = 0 /\ state' = NoState
       ELSE UNCHANGED <<pidfile, state>>
    /\ Goto("idle")
    /\ TickOnly /\ UNCHANGED <<backlog, ledger, log>>

-----------------------------------------------------------------------------
(* The run: execute, and the end of main *)

RunOnly == UNCHANGED <<tick, other>>

RunGo ==
    /\ child.pc = "guard"
    /\ child' = [child EXCEPT !.pc = "run"]
    /\ RunOnly /\ NoFiles /\ UNCHANGED count

RunRefuse ==
    /\ child.pc = "guard"
    /\ child' = [child EXCEPT !.pc = "refused"]
    /\ RunOnly /\ NoFiles /\ UNCHANGED count

\* The command returns: 0 or, here the same, the gate's rc 5; 137, 124, changed feature
\* code or a busy panel; any other failure.
RunEnd ==
    /\ child.pc = "run"
    /\ \E rc \in {"ok", "lost", "failed"} :
          /\ Appended(child.item, child.run, rc, "no")
          /\ child' = [child EXCEPT !.pc = "load", !.rc = rc]
    /\ RunOnly /\ UNCHANGED <<backlog, pidfile, state, count>>

RunLoad ==
    /\ child.pc = "load"
    /\ child' = [child EXCEPT !.pc = "save", !.copy = backlog]
    /\ RunOnly /\ NoFiles /\ UNCHANGED count

\* An exception here is logged and passed over.
RunSave ==
    /\ child.pc = "save"
    /\ \/ /\ backlog' = Attempted(child.copy, child.item, child.rc)
          /\ UNCHANGED count
       \/ /\ count.faults < MaxFaults
          /\ count' = [count EXCEPT !.faults = @ + 1]
          /\ UNCHANGED backlog
    /\ child' = [child EXCEPT !.pc = "leave", !.copy = Unread]
    /\ RunOnly /\ UNCHANGED <<ledger, pidfile, state, log>>

RunLeave ==
    /\ child.pc \in {"refused", "leave"}
    /\ pidfile' = IF pidfile = child.run THEN 0 ELSE pidfile
    /\ state' = IF state.run = child.run THEN NoState ELSE state
    /\ child' = NoChild
    /\ RunOnly /\ UNCHANGED <<backlog, ledger, count, log>>

-----------------------------------------------------------------------------
(* The others *)

OthersOnly == UNCHANGED <<tick, child, pidfile, state>>

\* --ingest loads the backlog, appends the result and saves the backlog.
IngestLoad ==
    /\ other.pc = "idle" /\ count.ingests < MaxIngests
    /\ \E i \in Commanded :
          /\ backlog[i].status # "absent"
          /\ other' = [pc |-> "append", item |-> i, copy |-> backlog]
    /\ count' = [count EXCEPT !.ingests = @ + 1]
    /\ OthersOnly /\ UNCHANGED <<backlog, ledger, log>>

IngestAppend ==
    /\ other.pc = "append"
    /\ Appended(other.item, 0, "ok", "no")
    /\ other' = [other EXCEPT !.pc = "save"]
    /\ OthersOnly /\ UNCHANGED <<backlog, count>>

IngestSave ==
    /\ other.pc = "save"
    /\ backlog' = Attempted(other.copy, other.item, "ok")
    /\ other' = NoOther
    /\ OthersOnly /\ UNCHANGED <<ledger, count, log>>

\* Another role hands over an item the backlog does not have yet; the
\* researcher's come without a command.
HandoverLoad ==
    /\ other.pc = "idle"
    /\ \E i \in Handed :
          /\ backlog[i].status = "absent"
          /\ other' = [pc |-> "handover", item |-> i, copy |-> backlog]
    /\ OthersOnly /\ UNCHANGED <<backlog, ledger, count, log>>

HandoverSave ==
    /\ other.pc = "handover"
    /\ backlog' = [other.copy EXCEPT ![other.item].status = "backlog"]
    /\ other' = NoOther
    /\ OthersOnly /\ UNCHANGED <<ledger, count, log>>

-----------------------------------------------------------------------------
(* What goes wrong *)

Fault == count.faults < MaxFaults /\ count' = [count EXCEPT !.faults = @ + 1]

\* The run's own process is killed: a crash, a shutdown, kill -9.
Kill ==
    /\ child.pc # "none"
    /\ Fault
    /\ child' = NoChild
    /\ RunOnly /\ NoFiles

\* The host goes down and takes every process with it, for minutes or for
\* longer than a failed report is looked for.  A tick that has removed the pid
\* file takes the death it was about to record with it.  (Not between the steps
\* of TickStart: a crash in those milliseconds is left out.)
HostDown ==
    /\ count.faults < MaxFaults
    /\ count' = [count EXCEPT !.faults = @ + 1,
          !.slipped = IF At("death") /\ ~HasRecord(state) THEN @ \cup {state.run} ELSE @]
    /\ \E long \in BOOLEAN :
          LET cut == Retold(ledger, "now", "failed")
          IN  ledger' = IF long THEN Retold(cut, "failed", "old") ELSE cut
    /\ tick' = Idle /\ child' = NoChild /\ other' = NoOther
    /\ UNCHANGED <<backlog, pidfile, state, log>>

TickStep ==
    \/ TickBegin \/ TickFlag \/ TickGap \/ TickRewrite \/ TickResave
    \/ TickPromote \/ TickSave \/ TickLock \/ TickDeath \/ TickOrphan \/ TickLostSave
    \/ TickReport \/ TickMark \/ TickSent \/ TickStart \/ TickWait \/ TickSettle
RunStep == RunGo \/ RunRefuse \/ RunEnd \/ RunLoad \/ RunSave \/ RunLeave
OtherStep == IngestAppend \/ IngestSave \/ HandoverSave

Next ==
    \/ TickStep \/ RunStep \/ OtherStep
    \/ IngestLoad \/ HandoverLoad \/ Kill \/ HostDown

\* Cron runs the tick every hour, and experiments end (their commands carry a
\* timeout).  Nothing obliges a person to ingest or a role to hand over.
Spec == Init /\ [][Next]_vars /\ WF_vars(TickStep) /\ WF_vars(RunStep) /\ WF_vars(OtherStep)

-----------------------------------------------------------------------------
(* Properties *)

Recorded(item, rcs) == \E k \in DOMAIN log : log[k].item = item /\ log[k].rc \in rcs
RowsOf(item) == {k \in DOMAIN log : log[k].item = item}

\* A closed item was earned, however the saves of the backlog overtook each
\* other: done only after a run of it, or an ingest, put rc 0 on record; failed
\* only after a run that failed by itself, or when as many attempts as
\* RETRY_MAX are on record, for an accident is not a result (execute,
\* 3429-3467; backlog_status_after, 3161-3184; _record_orphan).
ClosedIsEarned ==
    \A i \in Items :
        /\ backlog[i].status = "done" => Recorded(i, {"ok"})
        /\ backlog[i].status = "failed" =>
              \/ Recorded(i, {"failed"})
              \/ Cardinality(RowsOf(i)) >= RetryMax /\ Recorded(i, {"lost"})

\* No run has two rows in the ledger: what finished is not also reported as
\* having died without a record (tick, 4204-4232).
OneRowPerRun ==
    \A j, k \in DOMAIN ledger :
        ledger[j].run = ledger[k].run /\ ledger[j].run # 0 => j = k

\* Run r, of item i, is under way, and its start was confirmed.
Began(r, i) == child.run = r /\ child.item = i /\ child.pc = "run" /\ tick.pc # "settle"

\* Run r of item i has a row, its own or that of its death, or a person has
\* ingested a result of the item: a row of the item since the start passes for
\* the run's own.
OnRecord(r, i) ==
    \E k \in DOMAIN log : log[k].run = r \/ (log[k].run = 0 /\ log[k].item = i)

\* Every experiment that began comes to a record, its own or that of its death,
\* through kills, host failures and failed saves of the backlog; the one
\* exception is a death that slips through between the removal of the pid file
\* and the row, where the host goes down or the row cannot be written (tick,
\* 4204-4232).
EveryRunRecorded ==
    \A r \in 1..MaxRuns, i \in Items :
        Began(r, i) ~> OnRecord(r, i) \/ r \in count.slipped

\* model_engineer_cycle.py:4228 says that the death goes into the ledger, for
\* without that nobody knows why the experiment has no record: so every
\* experiment that began comes to a record.
DeathsRecorded ==
    \A r \in 1..MaxRuns, i \in Items : Began(r, i) ~> OnRecord(r, i)

Heard(k) == \A j \in DOMAIN ledger : ledger[j].at = k => ledger[j].told \in {"delivered", "old"}

\* Every row that is in the ledger is in time part of a report that reaches
\* its reader, unless the host was off for longer than failed reports are
\* looked for (check_undelivered_reports, 222-281).
EveryRowHeard == \A k \in 1..(2 * MaxRuns + MaxIngests) : ~Heard(k) ~> Heard(k)

\* What was appended to the ledger stays there.
LedgerKeeps ==
    \A k \in DOMAIN log : \E j \in DOMAIN ledger : ledger[j].at = k
=============================================================================
