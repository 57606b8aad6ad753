--------------------------- MODULE ImproveLoopProofs ---------------------------
(* What is true of the queue of improvement tasks and of the commits made from *)
(* it, for any number of processes, subjects, attempts and commands.           *)
EXTENDS ImproveLoop, SequenceTheorems, WellFoundedInduction, TLAPS

USE LoopAssumption DEF LoopAssumption

-----------------------------------------------------------------------------
(* The inductive invariant *)

\* A process between its load and its save; one that has a task as its own, from
\* the save of the claim to that of the result; one that is about to.
Saves(p) == pc[p] \in {"write", "replace"}
Holds(p) == Working(p) \/ (Saves(p) /\ then[p] = "reload")
Claims(p) == Saves(p) /\ then[p] = "worktree"

Typed ==
    /\ TypeOK
    /\ \A p \in Procs : Holds(p) \/ Claims(p) => cur[p] \in Run /\ cur[p].id # 0

\* Branches are never removed, and a run that got one of its own is the only one
\* to make a commit under its id.
Branched(p) == pc[p] \in {"delegate", "merge"}
OnMaster(id) == \E k \in DOMAIN master : master[k].id = id
OnceInv ==
    /\ \A p \in Procs : Branched(p) => cur[p].id \in branches /\ ~OnMaster(cur[p].id)
    /\ \A p, q \in Procs : Branched(p) /\ Branched(q) /\ cur[p].id = cur[q].id => p = q
    /\ \A k \in DOMAIN master : master[k].id \in branches
    /\ MergedOnce

\* What a save makes of task i of the queue that was loaded: a person sets its
\* state or claims it, the dispatcher claims it, the dispatcher records its result.
Moved(p, i, t, u) ==
    /\ t.topic = u.topic
    /\ \/ /\ then[p] = "idle" /\ ByHand(i)
          /\ u.attempts = t.attempts \/ <<"claim", i>> \in byhand
       \/ /\ then[p] = "worktree" /\ i = cur[p].id
          /\ t.state = "todo" /\ u.state = "inflight"
          /\ t.attempts < MaxAttempts /\ u.attempts = t.attempts + 1
       \/ /\ then[p] = "reload" /\ i = cur[p].id
          /\ u.state = verdict[p] \/ (u.state = "needs_human" /\ verdict[p] = "rejected")
          /\ u.attempts = t.attempts

\* The queue q becomes r: every task is there as it was, or moved, and what is
\* new waits for its first try.
Becomes(p, q, r) ==
    /\ DOMAIN q \subseteq DOMAIN r
    /\ \A i \in DOMAIN q : r[i] = q[i] \/ Moved(p, i, q[i], r[i])
    /\ \A i \in DOMAIN r \ DOMAIN q : r[i].state = "todo" /\ r[i].attempts = 0
Pending(p) ==
    Saves(p) =>
        /\ Becomes(p, base[p], mem[p])
        /\ then[p] = "worktree" =>
              /\ cur[p].id \in DOMAIN mem[p] /\ mem[p][cur[p].id].state = "inflight"
              /\ mem[p][cur[p].id].topic = cur[p].topic
              /\ cur[p].id \in DOMAIN base[p] /\ base[p][cur[p].id].state = "todo"

\* The task of a run is in the queue under its id.  Unless a person interferes it
\* is inflight until the result is saved, is the task of no other run, and has a
\* commit only when the run says it is merged.
HeldBy(p) ==
    Holds(p) =>
        /\ cur[p].id \in DOMAIN file
        /\ file[cur[p].id].topic = cur[p].topic
        /\ ~ByHand(cur[p].id) =>
              /\ file[cur[p].id].state = "inflight"
              /\ OnMaster(cur[p].id) <=>
                    pc[p] \in {"finish", "write", "replace"} /\ verdict[p] = "merged"

Sound ==
    /\ \A p \in Procs : Pending(p) /\ HeldBy(p)
    /\ \A p, q \in Procs :
          Holds(p) /\ Holds(q) /\ cur[p].id = cur[q].id => p = q \/ ByHand(cur[p].id)
    /\ \A i \in DOMAIN file : <<"claim", i>> \in byhand \/ file[i].attempts <= MaxAttempts
    /\ \A k \in DOMAIN master :
          /\ master[k].id \in DOMAIN file
          /\ file[master[k].id].topic = master[k].topic
          /\ ByHand(master[k].id) \/ file[master[k].id].state \in {"merged", "inflight"}
    /\ \A i \in DOMAIN file : file[i].state = "merged" => ByHand(i) \/ OnMaster(i)

OneTmp == \A x, y \in tmp : x = y
Inv == Typed /\ OnceInv /\ OneTmp /\ (~raced => Sound)

-----------------------------------------------------------------------------
(* What the commands make of a queue *)

Queue == Seq(Task)

LEMMA QueueIs ==
    ASSUME NEW q \in Queue
    PROVE  /\ Len(q) \in Nat /\ DOMAIN q = 1..Len(q)
           /\ \A i \in DOMAIN q : i \in Nat /\ i # 0 /\ q[i] \in Task
<1>1. q \in Seq(Task)
  BY DEF Queue
<1> QED
  BY <1>1

LEMMA NewIs ==
    ASSUME NEW t \in Topics
    PROVE  New(t) \in Task /\ New(t).state = "todo" /\ New(t).attempts = 0
BY DEF New, Task, States

\* r is q with new tasks at its end.
Extends(q, r) ==
    /\ DOMAIN q \subseteq DOMAIN r
    /\ \A i \in DOMAIN q : r[i] = q[i]
    /\ \A i \in DOMAIN r \ DOMAIN q : r[i].state = "todo" /\ r[i].attempts = 0

LEMMA AddedExtends ==
    ASSUME NEW q \in Queue, NEW t \in Topics
    PROVE  Added(q, t) \in Queue /\ Extends(q, Added(q, t))
<1>1. CASE t \in LiveTopics(q)
  BY <1>1 DEF Added, Extends
<1>2. CASE t \notin LiveTopics(q)
  <2> DEFINE n == New(t)
             r == Append(q, n)
  <2>1. n \in Task /\ n.state = "todo" /\ n.attempts = 0
    BY NewIs
  <2> HIDE DEF n
  <2>2. /\ r \in Queue /\ Len(r) = Len(q) + 1 /\ DOMAIN r = 1..(Len(q) + 1)
        /\ \A i \in 1..Len(q) : r[i] = q[i]
        /\ r[Len(q) + 1] = n
    BY <2>1, QueueIs DEF Queue
  <2> HIDE DEF r
  <2>3. \A i \in DOMAIN r \ DOMAIN q : i = Len(q) + 1
    BY <2>2, QueueIs
  <2>4. DOMAIN q \subseteq DOMAIN r /\ \A i \in DOMAIN q : r[i] = q[i]
    BY <2>2, QueueIs
  <2>5. Extends(q, r)
    BY <2>1, <2>2, <2>3, <2>4 DEF Extends
  <2> QED
    BY <1>2, <2>2, <2>5 DEF Added, r, n
<1> QED
  BY <1>1, <1>2

LEMMA SeededExtends ==
    ASSUME NEW q \in Queue, NEW found \in Evidence(q)
    PROVE  Seeded(q, found) \in Queue /\ Extends(q, Seeded(q, found))
<1>1. PICK n \in 0..MaxSeeds : found \in [1..n -> (Topics \ Protected) \ LiveTopics(q)]
  BY DEF Evidence
<1> DEFINE s == [j \in DOMAIN found |-> New(found[j])]
<1>2. DOMAIN found = 1..n /\ \A j \in 1..n : found[j] \in Topics
  BY <1>1
<1>3. DOMAIN s = 1..n
      /\ \A j \in 1..n : s[j] \in Task /\ s[j].state = "todo" /\ s[j].attempts = 0
  BY <1>2, NewIs
<1>4. s \in Seq(Task) /\ Len(s) = n
  <2>1. s = [j \in 1..n |-> s[j]]
    BY <1>2
  <2> HIDE DEF s
  <2>2. s \in [1..n -> Task] /\ n \in Nat
    BY <1>3, <2>1
  <2> QED
    BY <1>3, <2>2, SeqDef
<1> HIDE DEF s
<1> DEFINE r == q \o s
<1>5. r \in Queue /\ Len(r) = Len(q) + n /\ DOMAIN r = 1..(Len(q) + n)
      /\ \A i \in 1..(Len(q) + n) :
            r[i] = IF i <= Len(q) THEN q[i] ELSE s[i - Len(q)]
  <2>1. q \in Seq(Task) /\ Len(q) \in Nat /\ n \in Nat
    BY QueueIs DEF Queue
  <2> QED
    BY <1>4, <2>1, ConcatProperties, LenProperties DEF Queue
<1> HIDE DEF r
<1>6. \A i \in DOMAIN r \ DOMAIN q : i - Len(q) \in 1..n /\ r[i] = s[i - Len(q)]
  BY <1>5, QueueIs
<1>7. Extends(q, r)
  BY <1>3, <1>5, <1>6, QueueIs DEF Extends
<1> QED
  BY <1>5, <1>7 DEF Seeded, r, s

\* r is q with task i changed to u.
Changes(q, r, i, u) ==
    /\ DOMAIN r = DOMAIN q /\ r[i] = u
    /\ \A j \in DOMAIN q : j # i => r[j] = q[j]

LEMMA ClaimedChanges ==
    ASSUME NEW q \in Queue, NEW i \in DOMAIN q
    PROVE  /\ Claimed(q, i) \in Queue
           /\ \E u \in Task : /\ Changes(q, Claimed(q, i), i, u)
                              /\ u.topic = q[i].topic /\ u.state = "inflight"
                              /\ u.attempts = q[i].attempts + 1
<1> DEFINE u == [[q[i] EXCEPT !.state = "inflight"] EXCEPT !.attempts = @ + 1]
           r == [q EXCEPT ![i] = u]
<1>1. q[i] \in Task /\ q \in Seq(Task) /\ i \in 1..Len(q)
  BY QueueIs DEF Queue
<1>2. u \in Task /\ u.topic = q[i].topic /\ u.state = "inflight"
      /\ u.attempts = q[i].attempts + 1
  <2> DEFINE t == [q[i] EXCEPT !.state = "inflight"]
  <2>1. t \in Task /\ t.topic = q[i].topic /\ t.state = "inflight"
        /\ t.attempts = q[i].attempts
    BY <1>1 DEF Task, States
  <2> HIDE DEF t
  <2>2. u = [t EXCEPT !.attempts = t.attempts + 1] /\ t.attempts + 1 \in Nat
    BY <2>1 DEF t, Task
  <2> QED
    BY <2>1, <2>2 DEF Task
<1>3. Claimed(q, i) = r
  BY <1>1 DEF Claimed, Task
<1> HIDE DEF u
<1>4. r \in Seq(Task)
  BY <1>1, <1>2, ExceptSeq
<1>5. Changes(q, r, i, u)
  BY <1>1 DEF Changes
<1> QED
  BY <1>2, <1>3, <1>4, <1>5 DEF Queue

LEMMA FinishedChanges ==
    ASSUME NEW q \in Queue, NEW i \in DOMAIN q, NEW state \in States
    PROVE  /\ Finished(q, i, state) \in Queue
           /\ \E u \in Task :
                 /\ Changes(q, Finished(q, i, state), i, u)
                 /\ u.topic = q[i].topic /\ u.attempts = q[i].attempts
                 /\ u.state = state \/ (u.state = "needs_human" /\ state = "rejected")
<1> DEFINE v == IF state = "rejected" /\ q[i].attempts >= MaxAttempts
                THEN "needs_human" ELSE state
           u == [q[i] EXCEPT !.state = v]
           r == [q EXCEPT ![i] = u]
<1>1. q[i] \in Task /\ q \in Seq(Task) /\ i \in 1..Len(q)
  BY QueueIs DEF Queue
<1>2. v \in States /\ (v = state \/ (v = "needs_human" /\ state = "rejected"))
  BY DEF States
<1>3. Finished(q, i, state) = r
  BY <1>1 DEF Finished
<1> HIDE DEF v
<1>4. u \in Task /\ u.topic = q[i].topic /\ u.state = v /\ u.attempts = q[i].attempts
  BY <1>1, <1>2 DEF Task
<1> HIDE DEF u
<1>5. r \in Seq(Task)
  BY <1>1, <1>4, ExceptSeq
<1>6. Changes(q, r, i, u)
  BY <1>1 DEF Changes
<1> QED
  BY <1>2, <1>3, <1>4, <1>5, <1>6 DEF Queue

\* A set of numbers that is not empty has a least one.
LEMMA Least ==
    ASSUME NEW S \in SUBSET Nat, S # {}
    PROVE  \E x \in S : \A y \in S : x <= y
<1> DEFINE R == OpToRel(<, Nat)
<1>1. IsWellFoundedOn(R, Nat)
  BY NatLessThanWellFounded
<1>2. \A x, y \in Nat : x < y => <<x, y>> \in R
  BY DEF OpToRel
<1> HIDE DEF R
<1>3. PICK x \in S : \A y \in S : ~ (<<y, x>> \in R)
  BY <1>1, WFMin
<1>4. \A y \in S : ~ (y < x)
  BY <1>2, <1>3
<1>5. \A y \in S : x <= y
  BY <1>4
<1> QED
  BY <1>5

\* The oldest of the urgent ones, or the oldest: CHOOSE has something to choose.
LEMMA NextIsCandidate ==
    ASSUME NEW q \in Queue, Candidates(q) # {}
    PROVE  NextTask(q) \in Candidates(q)
<1> DEFINE U == {i \in Candidates(q) : q[i].topic \in Urgent}
<1>1. Candidates(q) \subseteq Nat /\ U \subseteq Nat
  BY QueueIs DEF Candidates
<1>2. \E i \in Candidates(q) : \A j \in Candidates(q) : Before(q, i, j)
  <2>1. CASE U = {}
    <3>1. PICK i \in Candidates(q) : \A j \in Candidates(q) : i <= j
      BY <1>1, Least
    <3> QED
      BY <2>1, <3>1 DEF Before
  <2>2. CASE U # {}
    <3>1. PICK i \in U : \A j \in U : i <= j
      BY <1>1, <2>2, Least
    <3> QED
      BY <3>1 DEF Before
  <2> QED
    BY <2>1, <2>2
<1> QED
  BY <1>2 DEF NextTask

-----------------------------------------------------------------------------
(* What a step leaves alone *)

Same(q) ==
    /\ pc'[q] = pc[q] /\ then'[q] = then[q] /\ mem'[q] = mem[q] /\ base'[q] = base[q]
    /\ cur'[q] = cur[q] /\ verdict'[q] = verdict[q]
Others(p) == \A q \in Procs \ {p} : Same(q)

Locals ==
    /\ pc \in [Procs -> {"idle", "write", "replace", "pick", "worktree",
                         "delegate", "merge", "finish", "reload"}]
    /\ then \in [Procs -> {"idle", "pick", "worktree", "reload"}]
    /\ mem \in [Procs -> Queue] /\ base \in [Procs -> Queue]
    /\ cur \in [Procs -> Run \cup {NoRun}]
    /\ left \in [Procs -> 0..MaxTasks]
    /\ auto \in [Procs -> BOOLEAN]
    /\ verdict \in [Procs -> States]

LEMMA LocalTypes == TypeOK => Locals
BY DEF TypeOK, Locals, Queue

LEMMA LeaveGives ==
    ASSUME TypeOK, NEW p \in Procs, Leave(p)
    PROVE  Others(p) /\ Locals' /\ pc'[p] = "idle" /\ then'[p] = "idle"
<1>1. Locals /\ <<>> \in Queue
  BY LocalTypes DEF Queue
<1> QED
  BY <1>1 DEF Leave, Goto, Others, Same, Locals, NoTasks, States

LEMMA SavingGives ==
    ASSUME TypeOK, NEW p \in Procs, NEW q \in Queue, NEW next,
           next \in {"idle", "pick", "worktree", "reload"}, Saving(p, q, next)
    PROVE  /\ base' \in [Procs -> Queue] /\ mem' \in [Procs -> Queue]
           /\ then' \in [Procs -> {"idle", "pick", "worktree", "reload"}]
           /\ pc' \in [Procs -> {"idle", "write", "replace", "pick", "worktree",
                                 "delegate", "merge", "finish", "reload"}]
           /\ base'[p] = file /\ mem'[p] = q /\ then'[p] = next /\ pc'[p] = "write"
           /\ \A o \in Procs \ {p} : base'[o] = base[o] /\ mem'[o] = mem[o]
                                     /\ then'[o] = then[o] /\ pc'[o] = pc[o]
<1>1. Locals /\ file \in Queue
  BY LocalTypes DEF Queue, TypeOK
<1> QED
  BY <1>1 DEF Saving, Goto, Locals

\* What the three commands on the file make of a process: it means to save what
\* extends or changes the file.
LEMMA EnqueueGives ==
    ASSUME TypeOK, NEW p \in Procs, Enqueue(p)
    PROVE  Others(p) /\ Locals' /\ pc'[p] = "write" /\ then'[p] = "idle"
           /\ base'[p] = file /\ Extends(file, mem'[p])
<1>1. PICK t \in Topics : Saving(p, Added(file, t), "idle")
  BY DEF Enqueue
<1>2. file \in Queue /\ Locals
  BY LocalTypes DEF TypeOK, Queue
<1>3. Added(file, t) \in Queue /\ Extends(file, Added(file, t))
  BY <1>2, AddedExtends
<1>4. UNCHANGED <<cur, left, auto, verdict>>
  BY DEF Enqueue, Edit
<1> QED
  BY <1>1, <1>2, <1>3, <1>4, SavingGives DEF Others, Same, Locals

LEMMA DispatchGives ==
    ASSUME TypeOK, NEW p \in Procs, Dispatch(p)
    PROVE  Others(p) /\ Locals' /\ pc'[p] = "write" /\ then'[p] = "pick"
           /\ base'[p] = file /\ Extends(file, mem'[p])
<1>1. PICK found \in Evidence(file) : Saving(p, Seeded(file, found), "pick")
  BY DEF Dispatch
<1>2. file \in Queue /\ Locals
  BY LocalTypes DEF TypeOK, Queue
<1>3. Seeded(file, found) \in Queue /\ Extends(file, Seeded(file, found))
  BY <1>2, SeededExtends
<1>4. UNCHANGED <<cur, verdict>> /\ left' \in [Procs -> 0..MaxTasks]
      /\ auto' \in [Procs -> BOOLEAN]
  BY <1>2 DEF Dispatch, Locals
<1> QED
  BY <1>1, <1>2, <1>3, <1>4, SavingGives DEF Others, Same, Locals

\* A person's command changes one task, and is remembered.
LEMMA HandGives ==
    ASSUME TypeOK, NEW p \in Procs, Judge(p) \/ Claim(p)
    PROVE  Others(p) /\ Locals' /\ pc'[p] = "write" /\ then'[p] = "idle"
           /\ base'[p] = file
           /\ \E i \in DOMAIN file, u \in Task, command \in {"finish", "claim"} :
                 /\ byhand' = byhand \cup {<<command, i>>}
                 /\ Changes(file, mem'[p], i, u)
                 /\ u.topic = file[i].topic
                 /\ u.attempts = file[i].attempts \/ command = "claim"
<1>1. file \in Queue /\ Locals
  BY LocalTypes DEF TypeOK, Queue
<1>2. UNCHANGED <<cur, left, auto, verdict>>
  BY DEF Judge, Claim, Edit
<1>3. CASE Judge(p)
  <2>1. PICK i \in DOMAIN file, state \in States :
           /\ Saving(p, Finished(file, i, state), "idle")
           /\ byhand' = byhand \cup {<<"finish", i>>}
    BY <1>3 DEF Judge
  <2>2. PICK u \in Task : /\ Changes(file, Finished(file, i, state), i, u)
                          /\ u.topic = file[i].topic /\ u.attempts = file[i].attempts
    BY <1>1, FinishedChanges
  <2>3. Finished(file, i, state) \in Queue
    BY <1>1, FinishedChanges
  <2>4. Others(p) /\ Locals' /\ pc'[p] = "write" /\ then'[p] = "idle"
        /\ base'[p] = file /\ mem'[p] = Finished(file, i, state)
    BY <1>1, <1>2, <2>1, <2>3, SavingGives DEF Others, Same, Locals
  <2> QED
    BY <2>1, <2>2, <2>4
<1>4. CASE Claim(p)
  <2>1. PICK i \in DOMAIN file : /\ Saving(p, Claimed(file, i), "idle")
                                 /\ byhand' = byhand \cup {<<"claim", i>>}
    BY <1>4 DEF Claim
  <2>2. PICK u \in Task : /\ Changes(file, Claimed(file, i), i, u)
                          /\ u.topic = file[i].topic
    BY <1>1, ClaimedChanges
  <2>3. Claimed(file, i) \in Queue
    BY <1>1, ClaimedChanges
  <2>4. Others(p) /\ Locals' /\ pc'[p] = "write" /\ then'[p] = "idle"
        /\ base'[p] = file /\ mem'[p] = Claimed(file, i)
    BY <1>1, <1>2, <2>1, <2>3, SavingGives DEF Others, Same, Locals
  <2> QED
    BY <2>1, <2>2, <2>4
<1> QED
  BY <1>3, <1>4

LEMMA WriteGives ==
    ASSUME TypeOK, NEW p \in Procs, Write(p)
    PROVE  Others(p) /\ Locals' /\ pc'[p] = "replace"
           /\ UNCHANGED <<then, mem, base, cur, verdict>>
BY LocalTypes DEF Write, Goto, Others, Same, Locals

LEMMA ReplaceGives ==
    ASSUME TypeOK, NEW p \in Procs, Replace(p)
    PROVE  /\ Others(p) /\ Locals'
           /\ pc'[p] = "idle"
              \/ /\ tmp # {} /\ then[p] # "idle" /\ pc'[p] = then[p]
                 /\ UNCHANGED <<cur, verdict>>
<1>1. CASE Leave(p)
  BY <1>1, LeaveGives
<1>2. CASE tmp # {} /\ then[p] # "idle" /\ Saved(p) /\ UNCHANGED <<cur, left, auto, verdict>>
  <2>1. Locals /\ <<>> \in Queue
    BY LocalTypes DEF Queue
  <2> QED
    BY <1>2, <2>1 DEF Saved, Goto, Others, Same, Locals, NoTasks
<1> QED
  BY <1>1, <1>2 DEF Replace

\* The task the dispatcher takes is one of those it has in memory.
LEMMA PickGives ==
    ASSUME TypeOK, NEW p \in Procs, Pick(p)
    PROVE  LET i == NextTask(mem[p]) IN
           /\ Others(p) /\ Locals' /\ i \in Candidates(mem[p])
           /\ i \in Nat \ {0} /\ cur'[p] \in Run
           /\ cur'[p].id = i /\ cur'[p].topic = mem[p][i].topic
           /\ verdict' = verdict
           /\ IF i \in DOMAIN file
              THEN /\ pc'[p] = "write" /\ then'[p] = "worktree" /\ base'[p] = file
                   /\ mem'[p] = Claimed(file, i)
              ELSE /\ pc'[p] = "worktree" /\ file # mem[p]
<1> DEFINE i == NextTask(mem[p])
           run == [id |-> i, topic |-> mem[p][i].topic]
<1>1. file \in Queue /\ Locals /\ mem[p] \in Queue
  BY LocalTypes DEF TypeOK, Queue, Locals
<1>2. i \in Candidates(mem[p])
  BY <1>1, NextIsCandidate DEF Pick
<1>3. i \in DOMAIN mem[p] /\ i \in Nat \ {0} /\ mem[p][i] \in Task
  BY <1>1, <1>2, QueueIs DEF Candidates
<1>4. cur' = [cur EXCEPT ![p] = run] /\ left[p] > 0 /\ left' = [left EXCEPT ![p] = @ - 1]
      /\ UNCHANGED <<auto, verdict>>
  BY DEF Pick
<1>5. IF i \in DOMAIN file
      THEN Saving(p, Claimed(file, i), "worktree")
      ELSE /\ Goto(p, "worktree") /\ mem' = [mem EXCEPT ![p] = NoTasks]
           /\ UNCHANGED <<then, base>>
  BY DEF Pick
<1> HIDE DEF i
<1>6. run \in Run
  BY <1>3 DEF Run, Task
<1>7. run.id = i /\ run.topic = mem[p][i].topic
  OBVIOUS
<1> HIDE DEF run
<1>8. /\ cur' \in [Procs -> Run \cup {NoRun}] /\ left' \in [Procs -> 0..MaxTasks]
      /\ auto' \in [Procs -> BOOLEAN] /\ verdict' \in [Procs -> States]
      /\ cur'[p] = run /\ \A q \in Procs \ {p} : cur'[q] = cur[q] /\ verdict'[q] = verdict[q]
  BY <1>1, <1>4, <1>6 DEF Locals
<1>9. CASE i \in DOMAIN file
  <2>1. Claimed(file, i) \in Queue
    BY <1>1, <1>9, ClaimedChanges
  <2> QED
    BY <1>1, <1>2, <1>3, <1>4, <1>5, <1>6, <1>7, <1>8, <1>9, <2>1, SavingGives
    DEF Others, Same, Locals, i
<1>10. CASE i \notin DOMAIN file
  <2>1. file # mem[p] /\ <<>> \in Queue
    BY <1>3, <1>10 DEF Queue
  <2>2. Others(p) /\ Locals' /\ pc'[p] = "worktree"
    BY <1>1, <1>5, <1>8, <1>10, <2>1 DEF Others, Same, Locals, Goto, NoTasks
  <2> QED
    BY <1>2, <1>3, <1>4, <1>6, <1>7, <1>8, <1>10, <2>1, <2>2 DEF i
<1> QED
  BY <1>9, <1>10

LEMMA FinishGives ==
    ASSUME TypeOK, NEW p \in Procs, Finish(p)
    PROVE  /\ Others(p) /\ Locals' /\ UNCHANGED <<cur, verdict>>
           /\ IF cur[p].id \in DOMAIN file
              THEN /\ pc'[p] = "write" /\ then'[p] = "reload" /\ base'[p] = file
                   /\ mem'[p] = Finished(file, cur[p].id, verdict[p])
              ELSE pc'[p] = "reload"
<1>1. file \in Queue /\ Locals /\ verdict[p] \in States
  BY LocalTypes DEF TypeOK, Queue, Locals
<1>2. UNCHANGED <<cur, left, auto, verdict>>
  BY DEF Finish
<1>3. CASE cur[p].id \in DOMAIN file
  <2>1. Finished(file, cur[p].id, verdict[p]) \in Queue
    BY <1>1, <1>3, FinishedChanges
  <2>2. Saving(p, Finished(file, cur[p].id, verdict[p]), "reload")
    BY <1>3 DEF Finish
  <2> QED
    BY <1>1, <1>2, <1>3, <2>1, <2>2, SavingGives DEF Others, Same, Locals
<1>4. CASE cur[p].id \notin DOMAIN file
  BY <1>1, <1>2, <1>4 DEF Finish, Goto, Others, Same, Locals
<1> QED
  BY <1>3, <1>4

\* The steps of a run go from one place to the next, with a verdict or without.
LEMMA RunGives ==
    ASSUME TypeOK, NEW p \in Procs, Worktree(p) \/ Delegate(p) \/ Merge(p)
    PROVE  /\ Others(p) /\ Locals' /\ UNCHANGED <<then, mem, base, cur>>
           /\ \/ /\ pc[p] = "worktree" /\ pc'[p] = "delegate" /\ cur[p].id \notin branches
                 /\ branches' = branches \cup {cur[p].id}
                 /\ trees' = trees \cup {cur[p].id} /\ UNCHANGED <<verdict, master>>
              \/ /\ pc[p] = "worktree" /\ pc'[p] = "finish" /\ verdict'[p] = "rejected"
                 /\ trees' = trees \ {cur[p].id} /\ UNCHANGED <<branches, master>>
              \/ /\ pc[p] = "delegate" /\ pc'[p] = "merge"
                 /\ UNCHANGED <<verdict, branches, trees, master>>
              \/ /\ pc[p] \in {"delegate", "merge"} /\ pc'[p] = "finish"
                 /\ verdict'[p] \in {"rejected", "needs_human", "todo"}
                 /\ UNCHANGED <<branches, trees, master>>
              \/ /\ pc[p] = "merge" /\ pc'[p] = "finish" /\ verdict'[p] = "merged"
                 /\ master' = Append(master, cur[p]) /\ UNCHANGED <<branches, trees>>
<1>1. Locals
  BY LocalTypes
<1>2. ASSUME NEW state \in States, Conclude(p, state), UNCHANGED <<then, mem, base, cur, left, auto>>
      PROVE  Others(p) /\ Locals' /\ pc'[p] = "finish" /\ verdict'[p] = state
  BY <1>1, <1>2 DEF Conclude, Goto, Others, Same, Locals
<1>3. ASSUME NEW pc1 \in {"delegate", "merge"}, Goto(p, pc1),
             UNCHANGED <<then, mem, base, cur, left, auto, verdict>>
      PROVE  Others(p) /\ Locals' /\ pc'[p] = pc1
  BY <1>1, <1>3 DEF Goto, Others, Same, Locals
<1>4. {"rejected", "needs_human", "todo", "merged"} \subseteq States
  BY DEF States
<1>5. CASE Worktree(p)
  BY <1>2, <1>3, <1>4, <1>5 DEF Worktree
<1>6. CASE Delegate(p)
  BY <1>2, <1>3, <1>4, <1>6 DEF Delegate, shared
<1>7. CASE Merge(p)
  BY <1>2, <1>3, <1>4, <1>7 DEF Merge
<1> QED
  BY <1>5, <1>6, <1>7

LEMMA ReloadGives ==
    ASSUME TypeOK, NEW p \in Procs, Reload(p)
    PROVE  Others(p) /\ Locals' /\ pc'[p] = "pick"
<1>1. file \in Queue /\ Locals
  BY LocalTypes DEF TypeOK, Queue
<1> QED
  BY <1>1 DEF Reload, Goto, Others, Same, Locals, States

-----------------------------------------------------------------------------
(* Every step keeps the types *)

\* A process that has a task, or is about to have one, has had it before or is
\* taking it.
LEMMA TypedStep == Typed /\ [Next]_vars => Typed'
<1> SUFFICES ASSUME Typed, [Next]_vars PROVE Typed'
  OBVIOUS
<1> DEFINE Tasked(q) == Holds(q) \/ Claims(q) => cur[q] \in Run /\ cur[q].id # 0
           Globals == /\ file \in Queue /\ tmp \in SUBSET Queue
                      /\ branches \in SUBSET (Nat \ {0}) /\ trees \in SUBSET branches
                      /\ master \in Seq(Run) /\ raced \in BOOLEAN
                      /\ byhand \in SUBSET ({"finish", "claim"} \X (Nat \ {0}))
                      /\ started \in [dispatch : 0..MaxDispatches, edit : 0..MaxEdits,
                                      pick : 0..MaxPicks]
<1>1. TypeOK /\ Globals /\ Locals
  BY LocalTypes DEF Typed, TypeOK, Queue
<1>2. ASSUME Globals', Locals', NEW p \in Procs, Others(p), Tasked(p)'
      PROVE  Typed'
  <2>1. TypeOK'
    BY <1>2 DEF TypeOK, Locals, Queue
  <2>2. ASSUME NEW q \in Procs, q # p PROVE Tasked(q)'
    BY <1>2, <2>2 DEF Others, Same, Typed, Holds, Working, Claims, Saves
  <2> QED
    BY <1>2, <2>1, <2>2 DEF Typed
<1> HIDE DEF Globals
<1>3. UNCHANGED <<file, tmp, branches, trees, master, started, raced, byhand>> => Globals'
  BY <1>1 DEF Globals
<1>4. ASSUME NEW p \in Procs, Edit(p),
             byhand' \in SUBSET ({"finish", "claim"} \X (Nat \ {0}))
      PROVE  Globals'
  BY <1>1, <1>4 DEF Globals, Edit
<1>5. ASSUME NEW p \in Procs, Enqueue(p) \/ Judge(p) \/ Claim(p) PROVE Typed'
  <2>1. Others(p) /\ Locals' /\ pc'[p] = "write" /\ then'[p] = "idle"
    BY <1>1, <1>5, EnqueueGives, HandGives
  <2>2. byhand' \in SUBSET ({"finish", "claim"} \X (Nat \ {0}))
    <3>1. CASE Enqueue(p)
      BY <1>1, <3>1 DEF Enqueue, Globals
    <3>2. CASE Judge(p) \/ Claim(p)
      <4>1. PICK i \in DOMAIN file, command \in {"finish", "claim"} :
               byhand' = byhand \cup {<<command, i>>}
        BY <1>1, <3>2, HandGives
      <4>2. i \in Nat \ {0}
        BY <1>1, QueueIs DEF Globals
      <4> QED
        BY <1>1, <4>1, <4>2 DEF Globals
    <3> QED
      BY <1>5, <3>1, <3>2
  <2>3. Globals'
    BY <1>4, <1>5, <2>2 DEF Enqueue, Judge, Claim
  <2> QED
    BY <1>2, <2>1, <2>3 DEF Holds, Working, Claims, Saves
<1>6. ASSUME NEW p \in Procs, Dispatch(p) PROVE Typed'
  <2>1. Others(p) /\ Locals' /\ pc'[p] = "write" /\ then'[p] = "pick"
    BY <1>1, <1>6, DispatchGives
  <2>2. Globals'
    <3>1. started' \in [dispatch : 0..MaxDispatches, edit : 0..MaxEdits, pick : 0..MaxPicks]
      BY <1>1, <1>6 DEF Dispatch, Globals
    <3>2. UNCHANGED <<file, tmp, branches, trees, master, raced, byhand>>
      BY <1>6 DEF Dispatch
    <3> QED
      BY <1>1, <3>1, <3>2 DEF Globals
  <2> QED
    BY <1>2, <2>1, <2>2 DEF Holds, Working, Claims, Saves
<1>7. ASSUME NEW p \in Procs, Write(p) PROVE Typed'
  <2>1. Others(p) /\ Locals' /\ pc'[p] = "replace" /\ UNCHANGED <<then, cur>>
    BY <1>1, <1>7, WriteGives
  <2>2. Globals'
    BY <1>1, <1>7 DEF Write, Globals, Locals
  <2>3. Tasked(p)'
    BY <1>7, <2>1 DEF Typed, Holds, Working, Claims, Saves, Write
  <2> QED
    BY <1>2, <2>1, <2>2, <2>3
<1>8. ASSUME NEW p \in Procs, Replace(p) PROVE Typed'
  <2>1. Others(p) /\ Locals'
    BY <1>1, <1>8, ReplaceGives
  <2>2. Globals'
    BY <1>1, <1>8 DEF Replace, Globals
  <2>3. Tasked(p)'
    <3>1. CASE pc'[p] = "idle"
      BY <3>1 DEF Holds, Working, Claims, Saves
    <3>2. CASE then[p] # "idle" /\ pc'[p] = then[p] /\ cur' = cur
      <4>1. then[p] \in {"pick", "worktree", "reload"} /\ pc[p] = "replace"
        BY <1>1, <1>8, <3>2 DEF Locals, Replace
      <4> QED
        BY <3>2, <4>1 DEF Typed, Holds, Working, Claims, Saves
    <3> QED
      BY <1>1, <1>8, <3>1, <3>2, ReplaceGives
  <2> QED
    BY <1>2, <2>1, <2>2, <2>3
<1>9. ASSUME NEW p \in Procs, Rest(p) \/ Die(p) PROVE Typed'
  <2>1. Others(p) /\ Locals' /\ pc'[p] = "idle"
    BY <1>1, <1>9, LeaveGives DEF Rest, Die
  <2>2. Globals'
    BY <1>3, <1>9 DEF Rest, Die, shared
  <2> QED
    BY <1>2, <2>1, <2>2 DEF Holds, Working, Claims, Saves
<1>10. ASSUME NEW p \in Procs, Pick(p) PROVE Typed'
  <2>1. Others(p) /\ Locals' /\ cur'[p] \in Run /\ cur'[p].id # 0
    BY <1>1, <1>10, PickGives
  <2>2. Globals'
    BY <1>1, <1>10 DEF Pick, Globals
  <2> QED
    BY <1>2, <2>1, <2>2
<1>11. ASSUME NEW p \in Procs, Worktree(p) \/ Delegate(p) \/ Merge(p) PROVE Typed'
  <2>1. Working(p) /\ cur[p] \in Run /\ cur[p].id \in Nat \ {0}
    BY <1>11 DEF Worktree, Delegate, Merge, Typed, Holds, Working, Run
  <2>2. Others(p) /\ Locals' /\ UNCHANGED cur
    BY <1>1, <1>11, RunGives
  <2>3. Globals'
    <3>1. UNCHANGED <<file, tmp, started, raced, byhand>>
      BY <1>11 DEF Worktree, Delegate, Merge, shared
    <3>2. Append(master, cur[p]) \in Seq(Run)
      BY <1>1, <2>1 DEF Globals
    <3>3. /\ branches' \in SUBSET (Nat \ {0}) /\ trees' \in SUBSET branches'
          /\ master' \in Seq(Run)
      BY <1>1, <1>11, <2>1, <3>2, RunGives DEF Globals
    <3> QED
      BY <1>1, <3>1, <3>3 DEF Globals
  <2> QED
    BY <1>2, <2>1, <2>2, <2>3
<1>12. ASSUME NEW p \in Procs, Finish(p) PROVE Typed'
  <2>1. Working(p) /\ cur[p] \in Run /\ cur[p].id # 0
    BY <1>12 DEF Finish, Typed, Holds, Working
  <2>2. Others(p) /\ Locals' /\ UNCHANGED cur
    BY <1>1, <1>12, FinishGives
  <2>3. Globals'
    BY <1>3, <1>12 DEF Finish, shared
  <2> QED
    BY <1>2, <2>1, <2>2, <2>3
<1>13. ASSUME NEW p \in Procs, Reload(p) PROVE Typed'
  <2>1. Others(p) /\ Locals' /\ pc'[p] = "pick"
    BY <1>1, <1>13, ReloadGives
  <2>2. Globals'
    BY <1>3, <1>13 DEF Reload, shared
  <2> QED
    BY <1>2, <2>1, <2>2 DEF Holds, Working, Claims, Saves
<1>14. CASE UNCHANGED vars
  BY <1>14 DEF vars, shared, Typed, TypeOK, Holds, Working, Claims, Saves
<1> QED
  BY <1>5, <1>6, <1>7, <1>8, <1>9, <1>10, <1>11, <1>12, <1>13, <1>14 DEF Next

-----------------------------------------------------------------------------
(* One commit for a task *)

\* The steps that get no branch and make no commit.
Aside(p) ==
    \/ Enqueue(p) \/ Judge(p) \/ Claim(p) \/ Dispatch(p) \/ Write(p) \/ Replace(p)
    \/ Rest(p) \/ Pick(p) \/ Finish(p) \/ Reload(p) \/ Die(p)

LEMMA AsideGives ==
    ASSUME TypeOK, NEW p \in Procs, Aside(p)
    PROVE  Others(p) /\ pc'[p] \notin {"delegate", "merge"} /\ UNCHANGED <<branches, master>>
<1>1. CASE Enqueue(p) \/ Judge(p) \/ Claim(p) \/ Dispatch(p) \/ Write(p)
  BY <1>1, EnqueueGives, HandGives, DispatchGives, WriteGives
  DEF Enqueue, Judge, Claim, Edit, Dispatch, Write
<1>2. CASE Replace(p)
  <2>1. then[p] \in {"idle", "pick", "worktree", "reload"}
    BY LocalTypes DEF Locals
  <2> QED
    BY <1>2, <2>1, ReplaceGives DEF Replace
<1>3. CASE Rest(p) \/ Die(p)
  BY <1>3, LeaveGives DEF Rest, Die, shared
<1>4. CASE Pick(p)
  BY <1>4, PickGives DEF Pick
<1>5. CASE Finish(p)
  BY <1>5, FinishGives DEF Finish, shared
<1>6. CASE Reload(p)
  BY <1>6, ReloadGives DEF Reload, shared
<1> QED
  BY <1>1, <1>2, <1>3, <1>4, <1>5, <1>6 DEF Aside

LEMMA OnceStep == Typed /\ OnceInv /\ [Next]_vars => OnceInv'
<1> SUFFICES ASSUME Typed, OnceInv, [Next]_vars PROVE OnceInv'
  OBVIOUS
<1>0. TypeOK /\ master \in Seq(Run)
  BY DEF Typed, TypeOK
<1>1. ASSUME NEW p \in Procs, Others(p), UNCHANGED master, branches \subseteq branches',
             Branched(p)' =>
                /\ cur'[p].id \in branches' /\ ~OnMaster(cur'[p].id)
                /\ \A q \in Procs \ {p} : Branched(q) => cur[q].id # cur'[p].id
      PROVE  OnceInv'
  <2>1. \A q \in Procs \ {p} : pc'[q] = pc[q] /\ cur'[q] = cur[q]
    BY <1>1 DEF Others, Same
  <2> QED
    BY <1>1, <2>1 DEF OnceInv, Branched, OnMaster, MergedOnce
<1>2. ASSUME NEW p \in Procs, Aside(p) PROVE OnceInv'
  BY <1>0, <1>1, <1>2, AsideGives DEF Branched
<1>3. ASSUME NEW p \in Procs, Worktree(p) \/ Delegate(p) \/ Merge(p) PROVE OnceInv'
  <2>1. Others(p) /\ cur' = cur
    BY <1>0, <1>3, RunGives
  <2>2. CASE /\ pc[p] = "worktree" /\ pc'[p] = "delegate" /\ cur[p].id \notin branches
             /\ branches' = branches \cup {cur[p].id} /\ UNCHANGED master
    <3>1. \A q \in Procs : Branched(q) => cur[q].id # cur[p].id
      BY <2>2 DEF OnceInv
    <3>2. ~OnMaster(cur[p].id)
      BY <2>2 DEF OnceInv, OnMaster
    <3> QED
      BY <1>1, <2>1, <2>2, <3>1, <3>2
  <2>3. CASE pc'[p] \notin {"delegate", "merge"} /\ UNCHANGED <<branches, master>>
    BY <1>1, <2>1, <2>3 DEF Branched
  <2>4. CASE pc[p] = "delegate" /\ pc'[p] = "merge" /\ UNCHANGED <<branches, master>>
    BY <1>1, <2>1, <2>4 DEF Branched, OnceInv
  <2>5. CASE /\ pc[p] = "merge" /\ pc'[p] = "finish" /\ master' = Append(master, cur[p])
             /\ UNCHANGED branches
    <3>1. cur[p] \in Run /\ Branched(p)
      BY <2>5 DEF Typed, Holds, Working, Branched
    <3>2. DOMAIN master' = 1..(Len(master) + 1) /\ DOMAIN master = 1..Len(master)
          /\ Len(master) \in Nat /\ master'[Len(master) + 1] = cur[p]
          /\ \A k \in DOMAIN master : master'[k] = master[k]
      BY <1>0, <2>5, <3>1
    <3>3. \A k \in DOMAIN master' : k \in DOMAIN master \/ k = Len(master) + 1
      BY <3>2
    <3>4. cur[p].id \in branches /\ \A k \in DOMAIN master : master[k].id # cur[p].id
      BY <3>1 DEF OnceInv, OnMaster
    <3>5. MergedOnce'
      BY <3>2, <3>3, <3>4 DEF OnceInv, MergedOnce
    <3>6. \A k \in DOMAIN master' : master'[k].id \in branches'
      BY <2>5, <3>2, <3>3, <3>4 DEF OnceInv
    <3>7. \A q \in Procs : Branched(q)' => q # p /\ Branched(q) /\ cur'[q] = cur[q]
      BY <2>1, <2>5 DEF Others, Same, Branched
    <3>8. ASSUME NEW q \in Procs, Branched(q)'
          PROVE  cur'[q].id \in branches' /\ ~OnMaster(cur[q].id)'
      <4>1. cur[q].id \in branches /\ cur[q].id # cur[p].id
            /\ \A k \in DOMAIN master : master[k].id # cur[q].id
        BY <3>1, <3>7, <3>8 DEF OnceInv, OnMaster
      <4>2. \A k \in DOMAIN master' : master'[k].id # cur[q].id
        BY <3>2, <3>3, <4>1
      <4> QED
        BY <2>1, <2>5, <4>1, <4>2 DEF OnMaster
    <3> QED
      BY <3>5, <3>6, <3>7, <3>8 DEF OnceInv
  <2> QED
    BY <1>0, <1>3, <2>2, <2>3, <2>4, <2>5, RunGives
<1>4. CASE UNCHANGED vars
  BY <1>4 DEF vars, shared, OnceInv, Branched, OnMaster, MergedOnce
<1> QED
  BY <1>2, <1>3, <1>4 DEF Next, Aside

-----------------------------------------------------------------------------
(* What holds while no command has worked on an outdated copy *)

LEMMA Typical ==
    ASSUME Inv
    PROVE  /\ TypeOK /\ Typed /\ Locals /\ file \in Queue
           /\ \A p \in Procs : base[p] \in Queue /\ mem[p] \in Queue
BY LocalTypes DEF Inv, Typed, TypeOK, Locals, Queue

\* A step that changes neither the queue on disk nor master, by a process that
\* comes to no task by it.
LEMMA QuietKeeps ==
    ASSUME Sound, NEW p \in Procs, Others(p), UNCHANGED <<file, master>>,
           byhand \subseteq byhand',
           Pending(p)', HeldBy(p)', Holds(p)' => Holds(p) /\ cur'[p] = cur[p]
    PROVE  Sound'
<1>0. \A i : ByHand(i) => ByHand(i)'
  BY DEF ByHand
<1>1. ASSUME NEW q \in Procs, q # p
      PROVE  /\ Pending(q)' /\ HeldBy(q)'
             /\ Holds(q)' => Holds(q) /\ cur'[q] = cur[q]
  <2>1. Same(q) /\ Pending(q) /\ HeldBy(q)
    BY <1>1 DEF Others, Sound
  <2>2. Pending(q)'
    BY <1>0, <2>1 DEF Same, Pending, Saves, Becomes, Moved
  <2>3. HeldBy(q)' /\ (Holds(q)' => Holds(q) /\ cur'[q] = cur[q])
    BY <1>0, <2>1 DEF Same, HeldBy, Holds, Working, Saves, OnMaster
  <2> QED
    BY <2>2, <2>3
<1>2. \A q \in Procs : Pending(q)' /\ HeldBy(q)'
  BY <1>1
<1>3. \A q, r \in Procs :
         Holds(q)' /\ Holds(r)' /\ cur'[q].id = cur'[r].id => q = r \/ ByHand(cur[q].id)'
  BY <1>1 DEF Sound, ByHand
<1>4. \A i \in DOMAIN file' : <<"claim", i>> \in byhand' \/ file'[i].attempts <= MaxAttempts
  BY DEF Sound
<1>5. \A k \in DOMAIN master' :
         /\ master'[k].id \in DOMAIN file'
         /\ file'[master'[k].id].topic = master'[k].topic
         /\ ByHand(master[k].id)' \/ file'[master'[k].id].state \in {"merged", "inflight"}
  BY DEF Sound, ByHand
<1>6. \A i \in DOMAIN file' : file'[i].state = "merged" => ByHand(i)' \/ OnMaster(i)'
  BY DEF Sound, OnMaster, ByHand
<1> QED
  BY <1>2, <1>3, <1>4, <1>5, <1>6 DEF Sound

\* The queue a command means to save is the one it has loaded with new tasks, or
\* with one task moved.
LEMMA ExtendsPends ==
    ASSUME NEW p \in Procs, Extends(base'[p], mem'[p]), then'[p] # "worktree"
    PROVE  Pending(p)'
BY DEF Extends, Pending, Becomes

LEMMA ChangesPends ==
    ASSUME NEW p \in Procs, base'[p] \in Queue, NEW i \in DOMAIN base'[p], NEW u,
           Changes(base'[p], mem'[p], i, u), Moved(p, i, base[p][i], u)',
           then'[p] # "worktree"
    PROVE  Pending(p)'
BY DEF Changes, Pending, Becomes

LEMMA EnqueueKeeps ==
    ASSUME Inv, Sound, NEW p \in Procs, Enqueue(p) \/ Dispatch(p)
    PROVE  Sound'
<1>1. Others(p) /\ pc'[p] = "write" /\ then'[p] \in {"idle", "pick"}
      /\ base'[p] = file /\ Extends(file, mem'[p])
  BY Typical, EnqueueGives, DispatchGives
<1>2. UNCHANGED <<file, master, byhand>>
  BY DEF Enqueue, Edit, Dispatch
<1>3. Pending(p)'
  BY <1>1, ExtendsPends
<1>4. ~Holds(p)'
  BY <1>1 DEF Holds, Working, Saves
<1> QED
  BY <1>1, <1>2, <1>3, <1>4, QuietKeeps DEF HeldBy

LEMMA HandKeeps ==
    ASSUME Inv, Sound, NEW p \in Procs, Judge(p) \/ Claim(p)
    PROVE  Sound'
<1>1. /\ Others(p) /\ pc'[p] = "write" /\ then'[p] = "idle" /\ base'[p] = file
      /\ file \in Queue
  BY Typical, HandGives
<1>2. PICK i \in DOMAIN file, u \in Task, command \in {"finish", "claim"} :
         /\ byhand' = byhand \cup {<<command, i>>}
         /\ Changes(file, mem'[p], i, u)
         /\ u.topic = file[i].topic
         /\ u.attempts = file[i].attempts \/ command = "claim"
  BY Typical, HandGives
<1>3. UNCHANGED <<file, master>>
  BY DEF Judge, Claim, Edit
<1>4. Pending(p)'
  <2>1. ByHand(i)' /\ (command = "claim" => <<"claim", i>> \in byhand')
    BY <1>2 DEF ByHand
  <2>2. Moved(p, i, base[p][i], u)'
    BY <1>1, <1>2, <2>1 DEF Moved
  <2> QED
    BY <1>1, <1>2, <2>2, ChangesPends
<1>5. ~Holds(p)'
  BY <1>1 DEF Holds, Working, Saves
<1> QED
  BY <1>1, <1>2, <1>3, <1>4, <1>5, QuietKeeps DEF HeldBy

LEMMA WriteKeeps ==
    ASSUME Inv, Sound, NEW p \in Procs, Write(p)
    PROVE  Sound'
<1>1. /\ Others(p) /\ pc[p] = "write" /\ pc'[p] = "replace"
      /\ UNCHANGED <<then, mem, base, cur, verdict, file, master, byhand>>
  BY Typical, WriteGives DEF Write
<1>2. Pending(p)'
  BY <1>1 DEF Sound, Pending, Saves, Becomes, Moved, ByHand
<1>3. HeldBy(p)' /\ (Holds(p)' => Holds(p))
  BY <1>1 DEF Sound, HeldBy, Holds, Working, Saves, OnMaster, ByHand
<1> QED
  BY <1>1, <1>2, <1>3, QuietKeeps

\* A process that gives up, or goes on to the next task, has none.
LEMMA LeaveKeeps ==
    ASSUME Sound, NEW p \in Procs, Others(p), UNCHANGED <<file, master, byhand>>,
           pc'[p] \in {"idle", "pick", "reload"}
    PROVE  Sound'
<1>1. ~Holds(p)' /\ ~Saves(p)'
  BY DEF Holds, Working, Saves
<1> QED
  BY <1>1, QuietKeeps DEF HeldBy, Pending

LEMMA PickKeeps ==
    ASSUME Inv, Sound, ~raced', NEW p \in Procs, Pick(p)
    PROVE  Sound'
<1>0. PICK i : i = NextTask(mem[p])
  OBVIOUS
<1>1. /\ Others(p) /\ i \in Candidates(mem[p])
      /\ cur'[p].id = i /\ cur'[p].topic = mem[p][i].topic
      /\ i \in DOMAIN file =>
            /\ pc'[p] = "write" /\ then'[p] = "worktree" /\ base'[p] = file
            /\ mem'[p] = Claimed(file, i)
  BY <1>0, Typical, PickGives
<1>2. mem[p] = file /\ UNCHANGED <<file, master, byhand>>
  BY DEF Pick
<1>3. i \in DOMAIN file /\ file[i].state = "todo" /\ file[i].attempts < MaxAttempts
  BY <1>1, <1>2 DEF Candidates
<1>4. PICK u \in Task : /\ Changes(file, mem'[p], i, u)
                        /\ u.topic = file[i].topic /\ u.state = "inflight"
                        /\ u.attempts = file[i].attempts + 1
  BY <1>1, <1>3, Typical, ClaimedChanges
<1>5. Pending(p)'
  <2>1. Moved(p, i, base[p][i], u)'
    BY <1>1, <1>3, <1>4 DEF Moved
  <2>2. Becomes(p, base[p], mem[p])'
    BY <1>1, <1>3, <1>4, <2>1 DEF Becomes, Changes
  <2> QED
    BY <1>1, <1>2, <1>3, <1>4, <2>2 DEF Pending, Changes
<1>6. ~Holds(p)'
  BY <1>1, <1>3 DEF Holds, Working, Saves
<1> QED
  BY <1>1, <1>2, <1>5, <1>6, QuietKeeps DEF HeldBy

LEMMA FinishKeeps ==
    ASSUME Inv, Sound, NEW p \in Procs, Finish(p)
    PROVE  Sound'
<1>1. pc[p] = "finish" /\ Holds(p) /\ UNCHANGED <<file, master, byhand>>
  BY DEF Finish, Holds, Working, shared
<1>2. cur[p].id \in DOMAIN file /\ verdict[p] \in States
  BY <1>1, Typical DEF Sound, HeldBy, Locals
<1>3. /\ Others(p) /\ UNCHANGED <<cur, verdict>>
      /\ pc'[p] = "write" /\ then'[p] = "reload" /\ base'[p] = file
      /\ mem'[p] = Finished(file, cur[p].id, verdict[p])
  BY <1>2, Typical, FinishGives
<1>4. PICK u \in Task :
         /\ Changes(file, mem'[p], cur[p].id, u)
         /\ u.topic = file[cur[p].id].topic /\ u.attempts = file[cur[p].id].attempts
         /\ u.state = verdict[p] \/ (u.state = "needs_human" /\ verdict[p] = "rejected")
  BY <1>2, <1>3, Typical, FinishedChanges
<1>5. Pending(p)'
  <2>1. Moved(p, cur[p].id, base[p][cur[p].id], u)'
    BY <1>3, <1>4 DEF Moved
  <2>2. Becomes(p, base[p], mem[p])'
    BY <1>2, <1>3, <1>4, <2>1 DEF Becomes, Changes
  <2> QED
    BY <1>3, <2>2 DEF Pending
<1>6. HeldBy(p)'
  BY <1>1, <1>3 DEF Sound, HeldBy, OnMaster, ByHand
<1> QED
  BY <1>1, <1>3, <1>5, <1>6, QuietKeeps

LEMMA RunKeeps ==
    ASSUME Inv, Sound, NEW p \in Procs, Worktree(p) \/ Delegate(p) \/ Merge(p)
    PROVE  Sound'
<1>0. byhand' = byhand /\ \A i : ByHand(i)' <=> ByHand(i)
  BY DEF Worktree, Delegate, Merge, shared, ByHand
<1>1. Others(p) /\ UNCHANGED <<then, mem, base, cur, file>>
  BY Typical, RunGives DEF Worktree, Delegate, Merge, shared
<1>2. /\ Holds(p) /\ pc[p] \in {"worktree", "delegate", "merge"}
      /\ pc'[p] \in {"delegate", "merge", "finish"} /\ ~Saves(p)'
  BY Typical, RunGives DEF Worktree, Delegate, Merge, Holds, Working, Saves
<1>3. /\ cur[p].id \in DOMAIN file /\ file[cur[p].id].topic = cur[p].topic
      /\ ByHand(cur[p].id) \/ (file[cur[p].id].state = "inflight" /\ ~OnMaster(cur[p].id))
  BY <1>2 DEF Sound, HeldBy
<1>4. CASE master' = master /\ (pc'[p] = "finish" => verdict'[p] # "merged")
  <2>1. HeldBy(p)'
    BY <1>0, <1>1, <1>2, <1>3, <1>4 DEF HeldBy, OnMaster
  <2> QED
    BY <1>0, <1>1, <1>2, <1>4, <2>1, QuietKeeps DEF Pending
<1>5. CASE /\ pc[p] = "merge" /\ pc'[p] = "finish" /\ verdict'[p] = "merged"
           /\ master' = Append(master, cur[p])
  <2>1. cur[p] \in Run /\ master \in Seq(Run)
    BY <1>2, Typical DEF Typed, TypeOK
  <2>2. DOMAIN master' = 1..(Len(master) + 1) /\ DOMAIN master = 1..Len(master)
        /\ Len(master) \in Nat /\ master'[Len(master) + 1] = cur[p]
        /\ \A k \in DOMAIN master : master'[k] = master[k]
    BY <1>5, <2>1
  <2>3. \A k \in DOMAIN master' : k \in DOMAIN master \/ k = Len(master) + 1
    BY <2>2
  <2>4. \A id : OnMaster(id)' <=> OnMaster(id) \/ id = cur[p].id
    BY <2>2, <2>3 DEF OnMaster
  <2>5. ASSUME NEW q \in Procs PROVE Pending(q)' /\ HeldBy(q)'
    <3>1. CASE q = p
      BY <1>0, <1>1, <1>2, <1>3, <1>5, <2>4, <3>1 DEF Pending, HeldBy
    <3>2. CASE q # p
      <4>1. Same(q) /\ Pending(q) /\ HeldBy(q)
            /\ (Holds(q) => cur[q].id # cur[p].id \/ ByHand(cur[q].id))
        BY <1>1, <1>2, <3>2 DEF Others, Sound
      <4>2. Pending(q)'
        BY <1>0, <4>1 DEF Same, Pending, Saves, Becomes, Moved
      <4>3. HeldBy(q)'
        BY <1>0, <1>1, <2>4, <4>1 DEF Same, HeldBy, Holds, Working, Saves
      <4> QED
        BY <4>2, <4>3
    <3> QED
      BY <3>1, <3>2
  <2>6. \A q, r \in Procs :
           Holds(q)' /\ Holds(r)' /\ cur'[q].id = cur'[r].id => q = r \/ ByHand(cur[q].id)'
    <3>1. \A q \in Procs : Holds(q)' => Holds(q)
      BY <1>1, <1>2 DEF Others, Same, Holds, Working, Saves
    <3> QED
      BY <1>0, <1>1, <3>1 DEF Sound, ByHand
  <2>7. \A k \in DOMAIN master' :
           /\ master'[k].id \in DOMAIN file'
           /\ file'[master'[k].id].topic = master'[k].topic
           /\ ByHand(master[k].id)' \/ file'[master'[k].id].state \in {"merged", "inflight"}
    BY <1>0, <1>1, <1>3, <2>2, <2>3 DEF Sound, ByHand
  <2>8. /\ \A i \in DOMAIN file' : <<"claim", i>> \in byhand' \/ file'[i].attempts <= MaxAttempts
        /\ \A i \in DOMAIN file' : file'[i].state = "merged" => ByHand(i)' \/ OnMaster(i)'
    BY <1>0, <1>1, <2>4 DEF Sound
  <2> QED
    BY <2>5, <2>6, <2>7, <2>8 DEF Sound
<1> QED
  BY <1>4, <1>5, Typical, RunGives

\* The queue that was loaded is still on disk, so the one that replaces it differs
\* from it by what this command has done.
LEMMA ReplaceKeeps ==
    ASSUME Inv, Sound, ~raced', NEW p \in Procs, Replace(p), tmp # {}
    PROVE  Sound'
<1> DEFINE id == cur[p].id
<1>1. file = base[p] /\ file' = mem[p] /\ pc[p] = "replace" /\ master' = master
  BY DEF Replace, Inv, OneTmp
<1>2. /\ Others(p) /\ then[p] \in {"idle", "pick", "worktree", "reload"}
      /\ pc'[p] = "idle" \/ (then[p] # "idle" /\ pc'[p] = then[p] /\ UNCHANGED <<cur, verdict>>)
  BY Typical, ReplaceGives DEF Locals
<1>3. /\ Becomes(p, file, file')
      /\ then[p] = "worktree" =>
            /\ id \in DOMAIN file' /\ file'[id].state = "inflight"
            /\ file'[id].topic = cur[p].topic
            /\ id \in DOMAIN file /\ file[id].state = "todo"
  BY <1>1 DEF Sound, Pending, Saves
<1>4. then[p] = "reload" =>
         /\ Holds(p) /\ id \in DOMAIN file
         /\ ByHand(id) \/ /\ file[id].state = "inflight"
                          /\ OnMaster(id) <=> verdict[p] = "merged"
  BY <1>1 DEF Sound, HeldBy, Holds, Saves
<1>5. byhand' = byhand /\ \A i : (OnMaster(i)' <=> OnMaster(i)) /\ (ByHand(i)' <=> ByHand(i))
  BY <1>1 DEF OnMaster, ByHand, Replace
<1> HIDE DEF id
<1>6. /\ DOMAIN file \subseteq DOMAIN file'
      /\ \A i \in DOMAIN file : file'[i].topic = file[i].topic
      /\ \A i \in DOMAIN file : file[i].state = "merged" => file'[i] = file[i] \/ ByHand(i)
      /\ \A i \in DOMAIN file : file[i].state = "inflight" =>
            file'[i] = file[i] \/ ByHand(i) \/ (then[p] = "reload" /\ i = id)
  BY <1>3, <1>4 DEF Becomes, Moved, id
<1>7. \A i \in DOMAIN file' : <<"claim", i>> \in byhand \/ file'[i].attempts <= MaxAttempts
  <2>1. ASSUME NEW i \in DOMAIN file, Moved(p, i, file[i], file'[i]), <<"claim", i>> \notin byhand
        PROVE  file'[i].attempts <= MaxAttempts
    <3>1. file[i].attempts \in Nat /\ file[i].attempts <= MaxAttempts
      BY <2>1, Typical, QueueIs DEF Sound, Task
    <3> QED
      BY <2>1, <3>1 DEF Moved
  <2> QED
    <3>1. \A i \in DOMAIN file' \ DOMAIN file : file'[i].attempts <= MaxAttempts
      BY <1>3 DEF Becomes
    <3>2. \A i \in DOMAIN file : file'[i] = file[i] \/ Moved(p, i, file[i], file'[i])
      BY <1>3 DEF Becomes
    <3>3. \A i \in DOMAIN file : <<"claim", i>> \in byhand \/ file[i].attempts <= MaxAttempts
      BY DEF Sound
    <3> QED
      BY <2>1, <3>1, <3>2, <3>3
<1>8. \A k \in DOMAIN master :
         /\ master[k].id \in DOMAIN file'
         /\ file'[master[k].id].topic = master[k].topic
         /\ ByHand(master[k].id) \/ file'[master[k].id].state \in {"merged", "inflight"}
  <2> SUFFICES ASSUME NEW k \in DOMAIN master
               PROVE  /\ master[k].id \in DOMAIN file'
                      /\ file'[master[k].id].topic = master[k].topic
                      /\ ByHand(master[k].id) \/ file'[master[k].id].state \in {"merged", "inflight"}
    OBVIOUS
  <2>1. /\ master[k].id \in DOMAIN file /\ file[master[k].id].topic = master[k].topic
        /\ ByHand(master[k].id) \/ file[master[k].id].state \in {"merged", "inflight"}
        /\ OnMaster(master[k].id)
    BY DEF Sound, OnMaster
  <2>0. CASE ByHand(master[k].id)
    BY <1>6, <2>0, <2>1
  <2>2. CASE then[p] = "reload" /\ master[k].id = id /\ ~ByHand(id)
    <3>1. verdict[p] = "merged"
      BY <1>4, <2>1, <2>2
    <3>2. file'[id] = file[id] \/ file'[id].state = "merged"
      BY <1>3, <1>4, <2>2, <3>1 DEF Becomes, Moved
    <3> QED
      BY <1>6, <2>1, <2>2, <3>2
  <2> QED
    BY <1>6, <2>0, <2>1, <2>2
<1>9. \A i \in DOMAIN file' : file'[i].state = "merged" => ByHand(i) \/ OnMaster(i)
  <2>1. ASSUME NEW i \in DOMAIN file, Moved(p, i, file[i], file'[i]), file'[i].state = "merged"
        PROVE  ByHand(i) \/ OnMaster(i)
    BY <1>4, <2>1 DEF Moved, id
  <2> QED
    BY <1>3, <2>1 DEF Becomes, Sound
<1>10. Holds(p)' => then[p] = "worktree" /\ pc'[p] = "worktree" /\ cur'[p] = cur[p]
  BY <1>2 DEF Holds, Working, Saves
<1>11. HeldBy(p)' /\ Pending(p)'
  <2>1. then[p] = "worktree" => ~OnMaster(id) \/ ByHand(id)
    BY <1>3 DEF Sound, OnMaster
  <2>2. ~Saves(p)'
    BY <1>2 DEF Saves
  <2> QED
    BY <1>3, <1>5, <1>10, <2>1, <2>2 DEF HeldBy, Pending, id
<1>12. ASSUME NEW q \in Procs, q # p
       PROVE  /\ Pending(q)' /\ HeldBy(q)'
              /\ Holds(q)' => /\ Holds(q) /\ cur'[q] = cur[q]
                              /\ Holds(p)' /\ cur[q].id = id => ByHand(id)
  <2>1. Same(q) /\ Pending(q) /\ HeldBy(q)
    BY <1>2, <1>12 DEF Others, Sound
  <2>2. Pending(q)'
    BY <1>5, <2>1 DEF Same, Pending, Saves, Becomes, Moved
  <2>3. Holds(q) => cur[q].id # id \/ then[p] # "reload" \/ ByHand(id)
    BY <1>4, <1>12 DEF Sound, id
  <2>4. HeldBy(q)'
    BY <1>5, <1>6, <2>1, <2>3 DEF Same, HeldBy, Holds, Working, Saves
  <2>5. Holds(q)' => Holds(q) /\ cur'[q] = cur[q]
    BY <2>1 DEF Same, Holds, Working, Saves
  <2>6. Holds(q) /\ Holds(p)' => cur[q].id # id \/ ByHand(id)
    BY <1>3, <1>10, <2>1 DEF HeldBy
  <2> QED
    BY <2>2, <2>4, <2>5, <2>6
<1>13. \A q \in Procs :
          Holds(q)' => /\ cur'[q] = cur[q]
                       /\ q = p => cur[q].id = id
                       /\ q # p => Holds(q)
                       /\ q # p /\ Holds(p)' /\ cur[q].id = id => ByHand(id)
  BY <1>10, <1>12 DEF id
<1>14. \A q, r \in Procs :
          Holds(q)' /\ Holds(r)' /\ cur'[q].id = cur'[r].id => q = r \/ ByHand(cur[q].id)
  BY <1>13 DEF Sound
<1>15. \A q, r \in Procs :
          Holds(q)' /\ Holds(r)' /\ cur'[q].id = cur'[r].id => q = r \/ ByHand(cur[q].id)'
  BY <1>5, <1>13, <1>14 DEF ByHand
<1> QED
  BY <1>1, <1>5, <1>7, <1>8, <1>9, <1>11, <1>12, <1>15 DEF Sound

LEMMA OneTmpStep == OneTmp /\ [Next]_vars => OneTmp'
BY DEF OneTmp, Next, vars, shared, Enqueue, Judge, Claim, Edit, Dispatch, Write, Replace, Rest,
       Pick, Worktree, Delegate, Merge, Finish, Reload, Die

LEMMA SoundStep ==
    ASSUME Inv, [Next]_vars, ~raced'
    PROVE  Sound'
<1>1. ~raced
  BY Typical DEF TypeOK, Next, vars, shared, Enqueue, Judge, Claim, Edit, Dispatch, Write, Replace,
     Rest, Pick, Worktree, Delegate, Merge, Finish, Reload, Die
<1>2. Sound
  BY <1>1 DEF Inv
<1>3. ASSUME NEW p \in Procs, Rest(p) \/ Die(p) \/ Reload(p) \/ (Replace(p) /\ tmp = {})
      PROVE  Sound'
  <2>1. Others(p) /\ pc'[p] \in {"idle", "pick"}
    BY <1>3, Typical, LeaveGives, ReloadGives DEF Rest, Die, Replace
  <2>2. UNCHANGED <<file, master, byhand>>
    BY <1>3 DEF Rest, Die, Reload, Replace, shared
  <2> QED
    BY <1>2, <2>1, <2>2, LeaveKeeps
<1>4. CASE UNCHANGED vars
  <2>1. UNCHANGED <<file, master, byhand, pc, then, mem, base, cur, verdict>>
    BY <1>4 DEF vars, shared
  <2> QED
    BY <1>2, <2>1 DEF Sound, Pending, HeldBy, Becomes, Moved, OnMaster, ByHand, Holds, Working, Saves
<1> QED
  BY <1>2, <1>3, <1>4, EnqueueKeeps, HandKeeps, WriteKeeps, PickKeeps, FinishKeeps,
     RunKeeps, ReplaceKeeps DEF Next

-----------------------------------------------------------------------------
(* The theorems *)

LEMMA InvInit == Init => Inv
<1> SUFFICES ASSUME Init PROVE Inv
  OBVIOUS
<1>1. \A p \in Procs : ~Holds(p) /\ ~Claims(p) /\ ~Saves(p) /\ ~Branched(p)
  BY DEF Init, Holds, Working, Claims, Saves, Branched
<1>2. TypeOK
  <2>1. Locals
    <3>1. <<>> \in Queue
      BY DEF Queue
    <3> QED
      BY <3>1 DEF Init, Locals, NoTasks, States
  <2>2. file \in Seq(Task) /\ tmp = {} /\ branches = {} /\ trees = {} /\ master \in Seq(Run)
    BY DEF Init, NoTasks
  <2>3. started \in [dispatch : 0..MaxDispatches, edit : 0..MaxEdits, pick : 0..MaxPicks]
    BY DEF Init
  <2> QED
    BY <2>1, <2>2, <2>3 DEF Init, TypeOK, Locals, Queue
<1>3. OnceInv /\ Sound
  BY <1>1 DEF Init, OnceInv, MergedOnce, Sound, Pending, HeldBy, NoTasks
<1> QED
  BY <1>1, <1>2, <1>3 DEF Inv, Typed, Init, OneTmp

THEOREM Invariant == Spec => []Inv
<1>1. Inv /\ [Next]_vars => Inv'
  BY TypedStep, OnceStep, OneTmpStep, SoundStep DEF Inv
<1> QED
  BY <1>1, InvInit, PTL DEF Spec

\* The queue, the processes and the commits are well typed.
THEOREM TypesHold == Spec => []TypeOK
<1>1. Inv => TypeOK
  BY DEF Inv, Typed
<1> QED
  BY <1>1, Invariant, PTL

\* One commit for a task, whatever the queue says: run_one makes its own branch,
\* and git refuses a second one of the name.
THEOREM MergedOnceHolds == Spec => []MergedOnce
<1>1. Inv => MergedOnce
  BY DEF Inv, OnceInv
<1> QED
  BY <1>1, Invariant, PTL

\* The task of a commit on master keeps its id and subject, and is recorded as
\* merged or still inflight (improve_dispatch.main) unless a person set its state
\* by hand; unless a command worked on an outdated copy.
THEOREM CommitsRecordedHolds == Spec => []CommitsRecorded
<1>1. Inv => CommitsRecorded
  BY DEF Inv, Sound, CommitsRecorded
<1> QED
  BY <1>1, Invariant, PTL

\* A task recorded as merged has its commit on master, on the same condition.
THEOREM MergedIsOnMasterHolds == Spec => []MergedIsOnMaster
<1>1. Inv => MergedIsOnMaster
  BY DEF Inv, Sound, MergedIsOnMaster, OnMaster
<1> QED
  BY <1>1, Invariant, PTL

\* A task is tried max_attempts times at most (next_task), on the same condition.
THEOREM AttemptsBoundHolds == Spec => []AttemptsBound
<1>1. Inv => AttemptsBound
  BY DEF Inv, Sound, AttemptsBound
<1> QED
  BY <1>1, Invariant, PTL

\* A task keeps its id and its subject (_save, by_id), on the same condition.
THEOREM TasksKeptHolds == Spec => TasksKept
<1> DEFINE Kept == ~raced' => \A i \in DOMAIN file :
                      i \in DOMAIN file' /\ file'[i].topic = file[i].topic
<1>1. Inv /\ [Next]_vars => [Kept]_vars
  <2> SUFFICES ASSUME Inv, Next, ~raced'
               PROVE  \A i \in DOMAIN file :
                         i \in DOMAIN file' /\ file'[i].topic = file[i].topic
    OBVIOUS
  <2>1. CASE UNCHANGED file
    BY <2>1
  <2>2. CASE \E p \in Procs : Replace(p) /\ tmp # {}
    <3>1. PICK p \in Procs : Replace(p) /\ tmp # {}
      BY <2>2
    <3>2. file = base[p] /\ file' = mem[p] /\ Saves(p) /\ Sound
      BY <3>1 DEF Replace, Inv, OneTmp, Saves, Typed, TypeOK
    <3>3. Becomes(p, file, file')
      BY <3>2 DEF Sound, Pending
    <3> QED
      BY <3>3 DEF Becomes, Moved
  <2> QED
    BY <2>1, <2>2 DEF Next, shared, Enqueue, Judge, Claim, Edit, Dispatch, Write, Replace, Rest,
       Pick, Worktree, Delegate, Merge, Finish, Reload, Die
<1> QED
  BY <1>1, Invariant, PTL DEF Spec, TasksKept
=============================================================================
