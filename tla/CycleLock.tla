------------------------------ MODULE CycleLock ------------------------------
(* How the two research cycles keep off each other and off the evening       *)
(* pipeline: scripts/model_engineer_cycle.py (engineer) and                   *)
(* scripts/researcher_cycle.py (researcher, which reuses the engineer's       *)
(* guards) each keep a running.pid and a state.json; cron runs one --tick of  *)
(* each, a tick starts a "--run" child and writes both files, and the child   *)
(* looks at the guards again before its experiment.  At 20:00                 *)
(* scripts/full_pipeline_dd.sh recreates the container the experiments run in *)
(* unless a running.pid names a live process.                                 *)
EXTENDS Naturals

CONSTANTS
    Pids,        \* processes started with --run; the bound of the model
    NoPid,       \* what a file holds that is not there
    Hands,       \* shells in which people call the engineer with --start
    Overtaking,  \* a child may reach its guards before its parent has
                 \* written the files
    MaxReboots   \* bound: how often the host goes down

Roles == {"engineer", "researcher"}

ASSUME CycleAssumption ==
    /\ NoPid \notin Pids /\ Hands \cap Roles = {}
    /\ Overtaking \in BOOLEAN /\ MaxReboots \in Nat

VARIABLES
    pidfile,   \* running.pid of each role
    state,     \* the pid in each role's state.json
    proc,      \* the --run children
    starter,   \* the processes that start them: each role's tick, and Hands
    window,    \* in_recreate_window
    pipeline,  \* what the evening pipeline has done in this window
    killed,    \* history: experiments whose container was taken from them
    reboots    \* how often the host went down

files == <<pidfile, state>>
evening == <<window, pipeline>>
vars == <<files, proc, starter, evening, killed, reboots>>

Starters == Roles \cup Hands
Free(r) == [role |-> r, pc |-> "idle", child |-> NoPid]

TypeOK ==
    /\ pidfile \in [Roles -> Pids \cup {NoPid}]
    /\ state \in [Roles -> Pids \cup {NoPid}]
    /\ proc \in [Pids -> [role : Roles,
                          pc : {"unborn", "born", "looked", "running",
                                "refused", "leaving", "dead"}]]
    /\ starter \in [Starters -> [role : Roles, child : Pids \cup {NoPid},
                                 pc : {"idle", "checked", "spawned", "settle"}]]
    /\ window \in BOOLEAN
    /\ pipeline \in {"idle", "began", "spare", "recreate", "up"}
    /\ killed \subseteq Pids
    /\ reboots \in 0..MaxReboots

Init ==
    /\ pidfile = [r \in Roles |-> NoPid] /\ state = [r \in Roles |-> NoPid]
    /\ proc = [p \in Pids |-> [role |-> "engineer", pc |-> "unborn"]]
    /\ starter = [s \in Starters |-> Free(IF s \in Roles THEN s ELSE "engineer")]
    /\ window = FALSE /\ pipeline = "idle"
    /\ killed = {} /\ reboots = 0

-----------------------------------------------------------------------------
(* The guards *)

Peer(r) == IF r = "engineer" THEN "researcher" ELSE "engineer"
Stage(p, pc) == proc' = [proc EXCEPT ![p].pc = pc]

\* Mutant: a file that is there means a run, whether or not its process lives.
AliveByFile(p) == p \in Pids

\* _pid_alive
Alive(p) == p \in Pids /\ proc[p].pc \notin {"unborn", "dead"}

\* Mutant: the researcher's file is not looked at.
PeerNever(r, me) == FALSE

\* running_pid: the pid file, then state.json; a process is not its own rival.
OwnRunning(r, me) ==
    \E p \in {pidfile[r], state[r]} \ {me} : Alive(p)
\* peer_running looks at the other role's pid file only.
PeerRunning(r, me) == pidfile[Peer(r)] # me /\ Alive(pidfile[Peer(r)])

-----------------------------------------------------------------------------
(* Starting: --tick, --start, --run *)

\* A tick whose guards pass.  The engineer's has first taken away the pid file
\* of a process that is dead (and has looked whether it left a record, which
\* is the matter of EngineerCycle).  The guards that depend on neither file,
\* the load, the market hours and the length of the item, may refuse at any
\* time: then no step is taken.
TickStart(r) ==
    /\ starter[r].pc = "idle"
    /\ ~OwnRunning(r, NoPid) /\ ~PeerRunning(r, NoPid) /\ ~window
    /\ pidfile' = [pidfile EXCEPT ![r] = IF r = "engineer" THEN NoPid ELSE @]
    /\ starter' = [starter EXCEPT ![r].pc = "checked"]
    /\ UNCHANGED <<state, proc, evening, killed, reboots>>

\* The engineer's tick takes the dead process's pid file away and ends.
TickReap ==
    /\ starter["engineer"].pc = "idle"
    /\ pidfile["engineer"] # NoPid /\ ~OwnRunning("engineer", NoPid)
    /\ pidfile' = [pidfile EXCEPT !["engineer"] = NoPid]
    /\ UNCHANGED <<state, proc, starter, evening, killed, reboots>>

\* "--start" from a shell: start_background is called without a guard.
HandStart(h) ==
    /\ starter[h].pc = "idle"
    /\ starter' = [starter EXCEPT ![h].pc = "checked"]
    /\ UNCHANGED <<files, proc, evening, killed, reboots>>

Spawn(s) ==
    /\ starter[s].pc = "checked"
    /\ \E p \in Pids :
          /\ proc[p].pc = "unborn"
          /\ proc' = [proc EXCEPT ![p] = [role |-> starter[s].role, pc |-> "born"]]
          /\ starter' = [starter EXCEPT ![s].pc = "spawned", ![s].child = p]
    /\ UNCHANGED <<files, evening, killed, reboots>>

WriteFiles(s) ==
    /\ starter[s].pc = "spawned"
    /\ pidfile' = [pidfile EXCEPT ![starter[s].role] = starter[s].child]
    /\ state' = [state EXCEPT ![starter[s].role] = starter[s].child]
    /\ starter' = [starter EXCEPT ![s].pc = "settle"]
    /\ UNCHANGED <<proc, evening, killed, reboots>>

\* Mutant: the files are emptied, not removed.
SettleTruncates(s) ==
    /\ starter[s].pc = "settle"
    /\ pidfile' = [pidfile EXCEPT ![starter[s].role] =
                     IF proc[starter[s].child].pc = "dead" THEN "" ELSE @]
    /\ starter' = [starter EXCEPT ![s] = Free(starter[s].role)]
    /\ UNCHANGED <<state, proc, evening, killed, reboots>>

\* Three seconds later the parent removes both files, whoever they name by
\* now, when its child has ended; the engineer's also when the child's log
\* says that it was refused.
Settle(s) ==
    LET r == starter[s].role
        child == proc[starter[s].child].pc
        gone == child = "dead" \/ (r = "engineer" /\ child = "refused")
    IN  /\ starter[s].pc = "settle"
        /\ pidfile' = [pidfile EXCEPT ![r] = IF gone THEN NoPid ELSE @]
        /\ state' = [state EXCEPT ![r] = IF gone THEN NoPid ELSE @]
        /\ starter' = [starter EXCEPT ![s] = Free(r)]
        /\ UNCHANGED <<proc, evening, killed, reboots>>

-----------------------------------------------------------------------------
(* The child: execute, and the end of main *)

Written(p) == \A s \in Starters : starter[s].child = p => starter[s].pc # "spawned"

Look(p) ==
    /\ proc[p].pc = "born" /\ (Overtaking \/ Written(p))
    /\ ~OwnRunning(proc[p].role, p) /\ ~PeerRunning(proc[p].role, p)
    /\ Stage(p, "looked")
    /\ UNCHANGED <<files, starter, evening, killed, reboots>>

Go(p) ==
    /\ proc[p].pc = "looked" /\ ~window
    /\ Stage(p, "running")
    /\ UNCHANGED <<files, starter, evening, killed, reboots>>

\* A guard of the child refuses: another run, the window, the load, ...
Refuse(p) ==
    /\ proc[p].pc \in {"born", "looked"}
    /\ Stage(p, "refused")
    /\ UNCHANGED <<files, starter, evening, killed, reboots>>

Finish(p) ==
    /\ proc[p].pc = "running"
    /\ Stage(p, "leaving")
    /\ UNCHANGED <<files, starter, evening, killed, reboots>>

\* The engineer removes the files that name it; the researcher removes its
\* role's pid file, whoever it names, and no state.json.
Leave(p) ==
    LET r == proc[p].role
        mine(f) == [f EXCEPT ![r] = IF @ = p THEN NoPid ELSE @]
    IN  /\ proc[p].pc \in {"refused", "leaving"}
        /\ Stage(p, "dead")
        /\ IF r = "engineer"
           THEN pidfile' = mine(pidfile) /\ state' = mine(state)
           ELSE pidfile' = [pidfile EXCEPT ![r] = NoPid] /\ UNCHANGED state
        /\ UNCHANGED <<starter, evening, killed, reboots>>

\* SIGKILL, or an exception, at any point.
Die(p) ==
    /\ Alive(p)
    /\ Stage(p, "dead")
    /\ UNCHANGED <<files, starter, evening, killed, reboots>>

Reboot ==
    /\ reboots < MaxReboots
    /\ reboots' = reboots + 1
    /\ proc' = [p \in Pids |-> IF Alive(p) THEN [proc[p] EXCEPT !.pc = "dead"]
                                           ELSE proc[p]]
    /\ starter' = [s \in Starters |-> Free(starter[s].role)]
    /\ pipeline' = IF window THEN "up" ELSE "idle"
    /\ UNCHANGED <<files, window, killed>>

-----------------------------------------------------------------------------
(* The evening pipeline *)

\* 20:00: cron starts the pipeline, and the cycles' clock says the same.
PipelineStart ==
    /\ ~window /\ window' = TRUE /\ pipeline' = "began"
    /\ UNCHANGED <<files, proc, starter, killed, reboots>>

\* Mutant: the pipeline does not look for a run in flight.
PipelineBlind ==
    /\ pipeline = "began" /\ pipeline' = "recreate"
    /\ UNCHANGED <<files, proc, starter, window, killed, reboots>>

PipelineLook ==
    /\ pipeline = "began"
    /\ pipeline' = IF \E r \in Roles : Alive(pidfile[r]) THEN "spare" ELSE "recreate"
    /\ UNCHANGED <<files, proc, starter, window, killed, reboots>>

\* docker compose up: the processes inside the old container are killed, and
\* their --run parents live to record it.
ComposeUp ==
    LET hit == {p \in Pids : pipeline = "recreate" /\ proc[p].pc = "running"}
    IN  /\ pipeline \in {"spare", "recreate"}
        /\ pipeline' = "up"
        /\ killed' = killed \cup hit
        /\ proc' = [p \in Pids |-> IF p \in hit THEN [proc[p] EXCEPT !.pc = "leaving"]
                                                ELSE proc[p]]
        /\ UNCHANGED <<files, starter, window, reboots>>

\* 20:12; the containers are up by then.
WindowEnds ==
    /\ window /\ pipeline = "up"
    /\ window' = FALSE /\ pipeline' = "idle"
    /\ UNCHANGED <<files, proc, starter, killed, reboots>>

-----------------------------------------------------------------------------
Starting(s) == Spawn(s) \/ WriteFiles(s) \/ Settle(s)
Child(p) == Look(p) \/ Go(p) \/ Refuse(p) \/ Finish(p) \/ Leave(p)
Evening == PipelineStart \/ PipelineLook \/ ComposeUp \/ WindowEnds

Next ==
    \/ TickReap \/ Reboot \/ Evening
    \/ \E r \in Roles : TickStart(r)
    \/ \E s \in Starters : Starting(s)
    \/ \E p \in Pids : Child(p) \/ Die(p)

\* The same with people who start runs by hand.
NextByHand ==
    \/ Next
    \/ \E h \in Hands : HandStart(h)

\* Cron runs the ticks every hour and every other hour, the processes run, and
\* the clock leaves the window; that the remaining guards let a tick start
\* whenever it could start again and again is the assumption of the SF.
Fairness ==
    /\ \A r \in Roles : SF_vars(TickStart(r))
    /\ \A s \in Starters : WF_vars(Starting(s))
    /\ \A p \in Pids : WF_vars(Child(p))
    /\ WF_vars(PipelineLook) /\ WF_vars(ComposeUp) /\ WF_vars(WindowEnds)

Spec == Init /\ [][Next]_vars /\ Fairness
SpecByHand == Init /\ [][NextByHand]_vars

-----------------------------------------------------------------------------
(* Properties *)

Running(p) == proc[p].pc = "running"

\* At most one experiment runs, over both roles: each child's files are there
\* before it looks for the other's, so of two that start together one at least
\* is refused (model_engineer_cycle.py:10, and the comment at 505).
OneExperiment == \A p, q \in Pids : Running(p) /\ Running(q) => p = q

\* The evening pipeline never takes the container from under an experiment:
\* what started before the window is seen, and nothing starts in it
\* (full_pipeline_dd.sh:86-99, in_recreate_window at 413).
NoneKilled == killed = {}

\* Whatever died and whenever, a lock it left behind does not end the
\* research: as long as there are processes to start, another one starts.
LockFreed == \A p \in Pids : <>(proc[p].pc # "unborn")
=============================================================================
