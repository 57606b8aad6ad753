----------------------------- MODULE ImproveLoop -----------------------------
(* scripts/improve_queue.py and scripts/improve_dispatch.py: the queue of     *)
(* improvement tasks is one JSON file that every command loads, changes and   *)
(* saves without a lock; the nightly dispatcher takes tasks from it, has an   *)
(* agent work in a git worktree, verifies, and cherry-picks onto master.      *)
(* scripts/experiment_runner.py, scheduled a quarter of an hour later, and    *)
(* people at the command line write the same file.                            *)
EXTENDS Integers, Sequences

CONSTANTS
    Procs,        \* processes that run a command on the queue
    Topics,       \* what a task can be about: its title
    Urgent,       \* topics of priority 1; the others come after them
    Protected,    \* topics added with protected=True, for a person to review
    MaxAttempts,  \* max_attempts of a task, 2 in the code
    MaxTasks,     \* --max-tasks of a dispatch
    MaxSeeds,     \* bound: tasks one seed() finds evidence for
    MaxDispatches, MaxEdits, MaxPicks  \* bounds, in all: dispatches, other
                                        \* commands, and tasks taken

ASSUME LoopAssumption ==
    /\ Urgent \subseteq Topics /\ Protected \subseteq Topics
    /\ MaxAttempts \in Nat \ {0} /\ MaxTasks \in Nat
    /\ MaxSeeds \in Nat /\ MaxDispatches \in Nat
    /\ MaxEdits \in Nat /\ MaxPicks \in Nat

VARIABLES
    file,      \* improve_queue.json; a task's id is its place in the list
    tmp,       \* what improve_queue.json.tmp holds; {} when it is not there
    branches,  \* ids for which git has a branch auto/<id>
    trees,     \* ids whose worktree directory exists
    master,    \* the auto commits on master, in that order
    started,   \* how many dispatches, commands and tasks taken so far
    \* per process
    pc, then,  \* where it stands, and what follows the save under way
    mem,       \* the queue it has in memory
    base,      \* the file as it was when that was loaded
    cur,       \* the task a dispatcher runs: the record next_task returned
    left,      \* tasks the dispatcher may still take
    auto,      \* auto-merge asked for and allowed by the gate
    verdict,   \* the state run_one's result stands for
    \* history
    raced,     \* a command acted on a copy of the queue that was out of date
    byhand     \* the "finish" and "claim" commands people gave: <<command, id>>

shared == <<file, tmp, branches, trees, master, started, raced, byhand>>
vars == <<shared, pc, then, mem, base, cur, left, auto, verdict>>

States == {"todo", "inflight", "merged", "rejected", "needs_human"}
Task == [topic : Topics, state : States, attempts : Nat]
Run == [id : Nat, topic : Topics]
NoRun == [id |-> 0, topic |-> "none"]
NoTasks == <<>>

TypeOK ==
    /\ file \in Seq(Task)
    /\ tmp \in SUBSET Seq(Task)
    /\ branches \in SUBSET (Nat \ {0}) /\ trees \in SUBSET branches
    /\ master \in Seq(Run)
    /\ started \in [dispatch : 0..MaxDispatches, edit : 0..MaxEdits,
                   pick : 0..MaxPicks]
    /\ pc \in [Procs -> {"idle", "write", "replace", "pick", "worktree",
                         "delegate", "merge", "finish", "reload"}]
    /\ then \in [Procs -> {"idle", "pick", "worktree", "reload"}]
    /\ mem \in [Procs -> Seq(Task)] /\ base \in [Procs -> Seq(Task)]
    /\ cur \in [Procs -> Run \cup {NoRun}]
    /\ left \in [Procs -> 0..MaxTasks]
    /\ auto \in [Procs -> BOOLEAN]
    /\ verdict \in [Procs -> States]
    /\ raced \in BOOLEAN
    /\ byhand \in SUBSET ({"finish", "claim"} \X (Nat \ {0}))

Init ==
    /\ file = NoTasks /\ tmp = {}
    /\ branches = {} /\ trees = {} /\ master = <<>>
    /\ started = [dispatch |-> 0, edit |-> 0, pick |-> 0]
    /\ pc = [p \in Procs |-> "idle"] /\ then = [p \in Procs |-> "idle"]
    /\ mem = [p \in Procs |-> NoTasks] /\ base = [p \in Procs |-> NoTasks]
    /\ cur = [p \in Procs |-> NoRun]
    /\ left = [p \in Procs |-> 0]
    /\ auto = [p \in Procs |-> FALSE]
    /\ verdict = [p \in Procs |-> "todo"]
    /\ raced = FALSE /\ byhand = {}

-----------------------------------------------------------------------------
(* improve_queue.py: what the commands make of a queue *)

New(t) == [topic |-> t, state |-> "todo", attempts |-> 0]
LiveTopics(q) ==
    {q[i].topic : i \in {j \in DOMAIN q : q[j].state \in {"todo", "inflight"}}}

\* add: a live task with the same title or the same evidence stands for it.
Added(q, t) == IF t \in LiveTopics(q) THEN q ELSE Append(q, New(t))

\* seed: one add for each piece of evidence found, never a protected one; what
\* comes of it is a new task for each subject that had no live one.
Seeded(q, found) == q \o [j \in DOMAIN found |-> New(found[j])]
Evidence(q) ==
    {found \in UNION {[1..n -> (Topics \ Protected) \ LiveTopics(q)] : n \in 0..MaxSeeds} :
        \A j, k \in DOMAIN found : found[j] = found[k] => j = k}

\* Mutant: a task is taken however often it was tried.
AnyTodo(q) == {i \in DOMAIN q : q[i].state = "todo"}
Candidates(q) == {i \in DOMAIN q : q[i].state = "todo" /\ q[i].attempts < MaxAttempts}

\* next_task sorts by priority, then by creation.
Before(q, i, j) ==
    \/ q[i].topic \in Urgent /\ q[j].topic \notin Urgent
    \/ (q[i].topic \in Urgent <=> q[j].topic \in Urgent) /\ i <= j
NextTask(q) == CHOOSE i \in Candidates(q) : \A j \in Candidates(q) : Before(q, i, j)

Claimed(q, i) == [q EXCEPT ![i].state = "inflight", ![i].attempts = @ + 1]

\* finish: a second rejection leaves the task to a person.
Finished(q, i, state) ==
    [q EXCEPT ![i].state = IF state = "rejected" /\ q[i].attempts >= MaxAttempts
                           THEN "needs_human" ELSE state]

-----------------------------------------------------------------------------
(* One command: load, change, write the temporary file, rename it *)

Goto(p, step) == pc' = [pc EXCEPT ![p] = step]

\* The process loads the file and means to save q, then to go on with "next".
Saving(p, q, next) ==
    /\ base' = [base EXCEPT ![p] = file]
    /\ mem' = [mem EXCEPT ![p] = q]
    /\ then' = [then EXCEPT ![p] = next]
    /\ Goto(p, "write")

\* The save is done.  Only the task to pick next is taken from memory.
Saved(p) ==
    /\ Goto(p, then[p])
    /\ mem' = [mem EXCEPT ![p] = IF then[p] = "pick" THEN @ ELSE NoTasks]
    /\ base' = [base EXCEPT ![p] = NoTasks]
    /\ then' = [then EXCEPT ![p] = "idle"]

Leave(p) ==
    /\ Goto(p, "idle")
    /\ then' = [then EXCEPT ![p] = "idle"]
    /\ mem' = [mem EXCEPT ![p] = NoTasks]
    /\ base' = [base EXCEPT ![p] = NoTasks]
    /\ cur' = [cur EXCEPT ![p] = NoRun]
    /\ left' = [left EXCEPT ![p] = 0]
    /\ auto' = [auto EXCEPT ![p] = FALSE]
    /\ verdict' = [verdict EXCEPT ![p] = "todo"]

Edit(p) ==
    /\ pc[p] = "idle" /\ started.edit < MaxEdits
    /\ started' = [started EXCEPT !.edit = @ + 1]
    /\ UNCHANGED <<file, tmp, branches, trees, master, cur, left, auto, verdict, raced>>

\* "improve_queue.py add", and the runner's combinations that passed.
Enqueue(p) ==
    /\ Edit(p)
    /\ \E t \in Topics : Saving(p, Added(file, t), "idle")
    /\ UNCHANGED byhand

\* "improve_queue.py finish QID --state STATE" from the command line: any task,
\* whatever its state, is given any state; "todo" gives it another try.
Judge(p) ==
    /\ Edit(p)
    /\ \E i \in DOMAIN file, state \in States :
          /\ Saving(p, Finished(file, i, state), "idle")
          /\ byhand' = byhand \cup {<<"finish", i>>}

\* "improve_queue.py claim QID" from the command line, of any task as well.
Claim(p) ==
    /\ Edit(p)
    /\ \E i \in DOMAIN file :
          /\ Saving(p, Claimed(file, i), "idle")
          /\ byhand' = byhand \cup {<<"claim", i>>}

\* The dispatcher starts, unless the pause file is there, and seeds the queue.
Dispatch(p) ==
    /\ pc[p] = "idle" /\ started.dispatch < MaxDispatches
    /\ started' = [started EXCEPT !.dispatch = @ + 1]
    /\ \E found \in Evidence(file) : Saving(p, Seeded(file, found), "pick")
    /\ left' = [left EXCEPT ![p] = MaxTasks]
    /\ auto' \in {[auto EXCEPT ![p] = b] : b \in BOOLEAN}
    /\ UNCHANGED <<file, tmp, branches, trees, master, cur, verdict, raced, byhand>>

Write(p) ==
    /\ pc[p] = "write"
    /\ tmp' = {mem[p]}
    /\ Goto(p, "replace")
    /\ UNCHANGED <<file, branches, trees, master, started, then, mem, base,
                   cur, left, auto, verdict, raced, byhand>>

\* os.replace moves whatever the temporary file holds by now; when another
\* process has moved it away the exception ends this one.
Replace(p) ==
    /\ pc[p] = "replace"
    /\ \/ /\ tmp = {}
          /\ Leave(p)
          /\ UNCHANGED <<file, raced>>
       \/ /\ tmp # {}
          /\ file' \in tmp
          /\ raced' = (raced \/ file # base[p] \/ mem[p] \notin tmp)
          /\ IF then[p] = "idle"
             THEN Leave(p)
             ELSE /\ Saved(p)
                  /\ UNCHANGED <<cur, left, auto, verdict>>
    /\ tmp' = {}
    /\ UNCHANGED <<branches, trees, master, started, byhand>>

-----------------------------------------------------------------------------
(* improve_dispatch.py *)

Rest(p) ==
    /\ pc[p] = "pick" /\ (left[p] = 0 \/ Candidates(mem[p]) = {})
    /\ Leave(p)
    /\ UNCHANGED shared

\* The task is chosen in the queue in memory and claimed in the file, which is
\* loaded again: the claim of an id the file has not is an ignored return code.
Pick(p) ==
    /\ pc[p] = "pick" /\ left[p] > 0 /\ Candidates(mem[p]) # {}
    /\ started.pick < MaxPicks /\ started' = [started EXCEPT !.pick = @ + 1]
    /\ LET i == NextTask(mem[p]) IN
          /\ cur' = [cur EXCEPT ![p] = [id |-> i, topic |-> mem[p][i].topic]]
          /\ raced' = (raced \/ file # mem[p])
          /\ IF i \in DOMAIN file
             THEN Saving(p, Claimed(file, i), "worktree")
             ELSE /\ Goto(p, "worktree")
                  /\ mem' = [mem EXCEPT ![p] = NoTasks]
                  /\ UNCHANGED <<then, base>>
    /\ left' = [left EXCEPT ![p] = @ - 1]
    /\ UNCHANGED <<file, tmp, branches, trees, master, auto, verdict, byhand>>

Conclude(p, state) ==
    /\ verdict' = [verdict EXCEPT ![p] = state]
    /\ Goto(p, "finish")

\* Mutant: "git worktree add -B" takes an existing branch over.
WorktreeForced(p) ==
    LET id == cur[p].id IN
    /\ pc[p] = "worktree"
    /\ \/ /\ branches' = branches \cup {id} /\ trees' = trees \cup {id}
          /\ Goto(p, "delegate") /\ UNCHANGED verdict
       \/ /\ Conclude(p, "rejected")
          /\ trees' = trees \ {id} /\ UNCHANGED branches
    /\ UNCHANGED <<file, tmp, master, started, then, mem, base, cur, left, auto,
                   raced, byhand>>

\* An old worktree of the id is removed by force; "git worktree add -b" fails
\* when the branch exists, and may fail for a reason of its own.
Worktree(p) ==
    LET id == cur[p].id IN
    /\ pc[p] = "worktree"
    /\ \/ /\ id \notin branches
          /\ branches' = branches \cup {id} /\ trees' = trees \cup {id}
          /\ Goto(p, "delegate") /\ UNCHANGED verdict
       \/ /\ Conclude(p, "rejected")
          /\ trees' = trees \ {id} /\ UNCHANGED branches
    /\ UNCHANGED <<file, tmp, master, started, then, mem, base, cur, left, auto,
                   raced, byhand>>

\* Mutant: the result is recorded under its own name.
DelegateRaw(p) ==
    /\ pc[p] = "delegate" /\ cur[p].id \in trees
    /\ \/ \E state \in {"rejected", "needs_human"} : Conclude(p, state)
       \/ ~auto[p] /\ Conclude(p, "verified_dry_run")
       \/ auto[p] /\ Goto(p, "merge") /\ UNCHANGED verdict
    /\ UNCHANGED <<shared, then, mem, base, cur, left, auto>>

\* The agent works, its paths are compared with the protected ones, the tests
\* run, and the change is committed on the branch.  Any of them may end the run.
Delegate(p) ==
    /\ pc[p] = "delegate" /\ cur[p].id \in trees
    /\ \/ \E state \in {"rejected", "needs_human"} : Conclude(p, state)
       \/ ~auto[p] /\ Conclude(p, "todo")        \* verified_dry_run
       \/ auto[p] /\ Goto(p, "merge") /\ UNCHANGED verdict
    /\ UNCHANGED <<shared, then, mem, base, cur, left, auto>>

\* Mutant: a push that fails counts as a failure of the task.
MergePushed(p) ==
    /\ pc[p] = "merge"
    /\ \E state \in {"merged", "rejected"} :
          /\ Conclude(p, state)
          /\ master' = Append(master, cur[p])
    /\ UNCHANGED <<file, tmp, branches, trees, started, then, mem, base, cur,
                   left, auto, raced, byhand>>

\* Mutant: the return code of the cherry-pick is not looked at.
MergeBlind(p) ==
    /\ pc[p] = "merge"
    /\ Conclude(p, "merged")
    /\ master' \in {Append(master, cur[p]), master}
    /\ UNCHANGED <<file, tmp, branches, trees, started, then, mem, base, cur,
                   left, auto, raced, byhand>>

\* The cherry-pick onto master; a failing push is noted and nothing more.
Merge(p) ==
    /\ pc[p] = "merge"
    /\ \/ /\ Conclude(p, "merged")
          /\ master' = Append(master, cur[p])
       \/ /\ Conclude(p, "rejected")
          /\ UNCHANGED master
    /\ UNCHANGED <<file, tmp, branches, trees, started, then, mem, base, cur,
                   left, auto, raced, byhand>>

Finish(p) ==
    /\ pc[p] = "finish"
    /\ IF cur[p].id \in DOMAIN file
       THEN Saving(p, Finished(file, cur[p].id, verdict[p]), "reload")
       ELSE Goto(p, "reload") /\ UNCHANGED <<then, mem, base>>
    /\ UNCHANGED <<shared, cur, left, auto, verdict>>

Reload(p) ==
    /\ pc[p] = "reload"
    /\ mem' = [mem EXCEPT ![p] = file]
    /\ cur' = [cur EXCEPT ![p] = NoRun]
    /\ verdict' = [verdict EXCEPT ![p] = "todo"]
    /\ Goto(p, "pick")
    /\ UNCHANGED <<shared, then, base, left, auto>>

\* A timeout of the agent or of the tests is an exception nobody catches, a
\* command in a directory that was removed is another, and a process may die.
Die(p) ==
    /\ pc[p] # "idle"
    /\ Leave(p)
    /\ UNCHANGED shared

Next ==
    \E p \in Procs :
        \/ Enqueue(p) \/ Judge(p) \/ Claim(p) \/ Dispatch(p)
        \/ Write(p) \/ Replace(p)
        \/ Rest(p) \/ Pick(p) \/ Worktree(p) \/ Delegate(p) \/ Merge(p)
        \/ Finish(p) \/ Reload(p) \/ Die(p)

Spec == Init /\ [][Next]_vars
-----------------------------------------------------------------------------
(* Properties *)

\* One commit for a task: whatever the queue says, however often it was saved
\* over and whoever runs at the same time, no task is merged twice.
MergedOnce ==
    \A j, k \in DOMAIN master : master[j].id = master[k].id => j = k

\* As long as no command worked on an outdated copy of the queue, a task keeps
\* its id and its subject: the result of a run is written to the task that ran.
TasksKept ==
    [][~raced' => \A i \in DOMAIN file :
          i \in DOMAIN file' /\ file'[i].topic = file[i].topic]_vars

\* A person named the task in a "finish" or a "claim" of their own.
ByHand(i) == \E command \in {"finish", "claim"} : <<command, i>> \in byhand

\* As long as no command worked on an outdated copy, the task of a commit on
\* master is in the queue under its id and subject and, unless a person has set
\* its state by hand, recorded as merged, or still inflight when the dispatcher
\* has not recorded it yet or died before it did: no dispatch takes it up again.
CommitsRecorded ==
    ~raced => \A k \in DOMAIN master :
        LET id == master[k].id IN
        /\ id \in DOMAIN file /\ file[id].topic = master[k].topic
        /\ ByHand(id) \/ file[id].state \in {"merged", "inflight"}

\* As long as no command worked on an outdated copy, a task recorded as merged
\* has its commit on master, unless a person has set its state by hand.
MergedIsOnMaster ==
    ~raced => \A i \in DOMAIN file :
        file[i].state = "merged" => ByHand(i) \/ \E k \in DOMAIN master : master[k].id = i

\* As long as no command worked on an outdated copy, a task nobody claimed by
\* hand is tried at most max_attempts times, through dry runs, rejections and
\* the reopenings by "finish --state todo", which keep the count.
AttemptsBound ==
    ~raced => \A i \in DOMAIN file :
        <<"claim", i>> \in byhand \/ file[i].attempts <= MaxAttempts

\* ORCHESTRATOR_PLAN.md:54 says that a file lock and the state keep a task from
\* being run twice at once: no two dispatchers work on the same task.
Working(p) == pc[p] \in {"worktree", "delegate", "merge", "finish"}
NoDoubleRun ==
    \A p, q \in Procs : p # q /\ Working(p) /\ Working(q) => cur[p].id # cur[q].id

\* experiment_runner.py:272 says that a combination that passed changes the path
\* of real orders and is never applied automatically: no protected task is merged.
NoProtectedMerge == \A k \in DOMAIN master : master[k].topic \notin Protected
=============================================================================
