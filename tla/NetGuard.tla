------------------------------ MODULE NetGuard ------------------------------
(* scripts/net_guard.py: collectors of one host (or one API key) share a      *)
(* state file under an flock, so that the pace, the daily budget and the      *)
(* cooldown hold across processes, cron jobs and manual runs alike.           *)
EXTENDS Integers, Sequences, FiniteSets

CONSTANTS
    Procs,        \* collector processes that use the key
    DelayOf,      \* per process, its minimal interval between calls
    Jitter,       \* the largest random addition to the interval
    Budget,       \* calls a day; 0 is no limit
    Cooldown,     \* NET_GUARD_BLOCK_COOLDOWN
    LockTimeout,  \* NET_GUARD_LOCK_TIMEOUT
    DayLength,    \* ticks of a day
    StartTime,    \* the first reading of the clock
    MaxTime       \* bound: the last reading of the clock

ASSUME GuardAssumption ==
    /\ DelayOf \in [Procs -> Nat]
    /\ Jitter \in Nat /\ Budget \in Nat /\ Cooldown \in Nat /\ LockTimeout \in Nat
    /\ DayLength \in Nat \ {0} /\ StartTime \in Nat /\ MaxTime \in Nat
    /\ "nobody" \notin Procs
    \* a clock that counts from 1970: no call is due at the first reading
    /\ \A p \in Procs : DelayOf[p] + Jitter <= StartTime

VARIABLES
    now,       \* time.time()
    file,      \* the shared state file
    lock,      \* the process that holds the flock, or Nobody
    pc,        \* per process, where it stands
    deadline,  \* per process, when its wait for the lock times out
    mine,      \* per process, the state it loaded under the lock
    wake,      \* per process, the time it may call at
    \* history
    grants,    \* the calls let through and saved in the file, in that order
    cooling    \* the last cooldown saved: its day and its end

vars == <<now, file, lock, pc, deadline, mine, wake, grants, cooling>>

Nobody == "nobody"
Day(t) == t \div DayLength
NoDay == -1
State == [day : Nat \cup {NoDay}, calls : Nat, blocked : Nat, last : Nat, delay : Nat]
Grant == [proc : Procs, at : Nat, day : Nat]
NoState == [day |-> NoDay, calls |-> 0, blocked |-> 0, last |-> 0, delay |-> 0]
NoCooling == [day |-> NoDay, until |-> 0]

TypeOK ==
    /\ now \in Nat
    /\ file \in State
    /\ lock \in Procs \cup {Nobody}
    /\ pc \in [Procs -> {"idle", "gate", "asleep", "admitted", "calling", "block"}]
    /\ deadline \in [Procs -> Nat]
    /\ mine \in [Procs -> State]
    /\ wake \in [Procs -> Nat]
    /\ grants \in Seq(Grant)
    /\ cooling \in [day : Nat \cup {NoDay}, until : Nat]

Init ==
    /\ now = StartTime
    /\ file = NoState
    /\ lock = Nobody
    /\ pc = [p \in Procs |-> "idle"]
    /\ deadline = [p \in Procs |-> 0]
    /\ mine = [p \in Procs |-> NoState]
    /\ wake = [p \in Procs |-> 0]
    /\ grants = <<>>
    /\ cooling = NoCooling

-----------------------------------------------------------------------------
\* Mutant: "never called" is noted as a time before the clock's first.
RollUnset(st) ==
    IF st.day # Day(now) THEN [NoState EXCEPT !.day = Day(now), !.last = -1] ELSE st

\* _roll: on another date only the totals survive; the time of the last call,
\* its delay and the cooldown do not.
Roll(st) == IF st.day # Day(now) THEN [NoState EXCEPT !.day = Day(now)] ELSE st

Slower(x, y) == IF x >= y THEN x ELSE y
Goto(p, step) == pc' = [pc EXCEPT ![p] = step]

\* The lock is given back; what was loaded and waited for is forgotten.
Leave(p, step) ==
    /\ Goto(p, step)
    /\ lock' = IF lock = p THEN Nobody ELSE lock
    /\ deadline' = [deadline EXCEPT ![p] = 0]
    /\ mine' = [mine EXCEPT ![p] = NoState]
    /\ wake' = [wake EXCEPT ![p] = 0]

\* acquire() and block() start polling for the lock.
Acquire(p) ==
    /\ pc[p] = "idle"
    /\ Goto(p, "gate")
    /\ deadline' = [deadline EXCEPT ![p] = now + LockTimeout]
    /\ UNCHANGED <<now, file, lock, mine, wake, grants, cooling>>

\* Mutant: the budget is compared off by one.
ExhaustedLate(st) == Budget > 0 /\ st.calls > Budget

Exhausted(st) == Budget > 0 /\ st.calls >= Budget

\* Blocked or BudgetExhausted: the collector stops until it is run again.
Refuse(p) ==
    LET st == Roll(file) IN
    /\ pc[p] = "gate" /\ lock = Nobody
    /\ st.blocked > now \/ Exhausted(st)
    /\ Leave(p, "idle")
    /\ UNCHANGED <<now, file, grants, cooling>>

\* Mutant: each collector keeps to its own delay only.
OwnDelay(p, st) == DelayOf[p]

\* The slower of the file's delay and the process's own.
DelayFor(p, st) == Slower(st.delay, DelayOf[p])

\* Mutant: the lock is released for the time of the sleep.
EnterUnlocked(p) ==
    LET st == Roll(file)
        delay == DelayFor(p, st)
    IN  /\ pc[p] = "gate" /\ lock = Nobody
        /\ st.blocked <= now /\ ~Exhausted(st)
        /\ mine' = [mine EXCEPT ![p] = [st EXCEPT !.delay = delay]]
        /\ \E j \in 0..Jitter :
              LET target == st.last + delay + j IN
              /\ wake' = [wake EXCEPT ![p] = Slower(target, now)]
              /\ Goto(p, IF target > now THEN "asleep" ELSE "admitted")
        /\ deadline' = [deadline EXCEPT ![p] = 0]
        /\ UNCHANGED <<now, file, lock, grants, cooling>>

\* The state is read and the process sleeps, under the lock, until its turn.
Enter(p) ==
    LET st == Roll(file)
        delay == DelayFor(p, st)
    IN  /\ pc[p] = "gate" /\ lock = Nobody
        /\ st.blocked <= now /\ ~Exhausted(st)
        /\ lock' = p
        /\ mine' = [mine EXCEPT ![p] = [st EXCEPT !.delay = delay]]
        /\ \E j \in 0..Jitter :
              LET target == st.last + delay + j IN
              /\ wake' = [wake EXCEPT ![p] = Slower(target, now)]
              /\ Goto(p, IF target > now THEN "asleep" ELSE "admitted")
        /\ deadline' = [deadline EXCEPT ![p] = 0]
        /\ UNCHANGED <<now, file, grants, cooling>>

\* The clock is read again after the sleep; the loaded state is not.
Wake(p) ==
    /\ pc[p] = "asleep" /\ now >= wake[p]
    /\ wake' = [wake EXCEPT ![p] = now]
    /\ Goto(p, "admitted")
    /\ UNCHANGED <<now, file, lock, deadline, mine, grants, cooling>>

\* _save_state, to a temporary file that is renamed; its OSError is swallowed.
Save(st) == file' = st
SaveFails == UNCHANGED <<file, grants, cooling>>

Commit(p) ==
    /\ pc[p] = "admitted"
    /\ \/ /\ Save([mine[p] EXCEPT !.last = wake[p], !.calls = @ + 1])
          /\ grants' = Append(grants, [proc |-> p, at |-> wake[p], day |-> mine[p].day])
          /\ UNCHANGED cooling
       \/ SaveFails
    /\ Leave(p, "calling")
    /\ UNCHANGED now

\* The wait for the lock is over: GuardError, and FAIL_OPEN lets the call pass.
FailOpen(p) ==
    /\ pc[p] = "gate" /\ lock # Nobody /\ now > deadline[p]
    /\ Leave(p, "calling")
    /\ UNCHANGED <<now, file, grants, cooling>>

\* note(): ok, transient and transport errors record an event only.
Answered(p) ==
    /\ pc[p] = "calling"
    /\ Goto(p, "idle")
    /\ UNCHANGED <<now, file, lock, deadline, mine, wake, grants, cooling>>

\* A 401, 403 or a page of the firewall: block() waits for the lock in its turn.
BlockSeen(p) ==
    /\ pc[p] = "calling"
    /\ Goto(p, "block")
    /\ deadline' = [deadline EXCEPT ![p] = now + LockTimeout]
    /\ UNCHANGED <<now, file, lock, mine, wake, grants, cooling>>

Block(p) ==
    /\ pc[p] = "block" /\ lock = Nobody
    /\ \/ /\ Save([Roll(file) EXCEPT !.blocked = now + Cooldown])
          /\ cooling' = [day |-> Day(now), until |-> now + Cooldown]
          /\ UNCHANGED grants
       \/ SaveFails
    /\ Leave(p, "idle")
    /\ UNCHANGED now

\* A timeout in block() is swallowed: only the event log knows.
BlockLost(p) ==
    /\ pc[p] = "block" /\ lock # Nobody /\ now > deadline[p]
    /\ Leave(p, "idle")
    /\ UNCHANGED <<now, file, grants, cooling>>

\* The kernel releases the lock of a process that dies.
Die(p) ==
    /\ pc[p] # "idle"
    /\ Leave(p, "idle")
    /\ UNCHANGED <<now, file, grants, cooling>>

\* "net_guard.py clear": the operator lifts the cooldown. A save that fails
\* changes nothing.
Clear ==
    /\ lock = Nobody
    /\ Save([Roll(file) EXCEPT !.blocked = 0])
    /\ cooling' = NoCooling
    /\ UNCHANGED <<now, lock, pc, deadline, mine, wake, grants>>

Tick ==
    /\ now < MaxTime
    /\ now' = now + 1
    /\ UNCHANGED <<file, lock, pc, deadline, mine, wake, grants, cooling>>

Next ==
    \/ \E p \in Procs :
          \/ Acquire(p) \/ Refuse(p) \/ Enter(p) \/ Wake(p) \/ Commit(p)
          \/ FailOpen(p) \/ Answered(p) \/ BlockSeen(p) \/ Block(p)
          \/ BlockLost(p) \/ Die(p)
    \/ Clear
    \/ Tick

Spec == Init /\ [][Next]_vars
-----------------------------------------------------------------------------
(* Properties *)

\* Two calls recorded on one date are as far apart as the slower of the two
\* collectors asks, whoever else runs and whoever dies: the sleep, the read and
\* the write are one critical section.
Paced ==
    \A i, j \in DOMAIN grants :
        i < j /\ grants[i].day = grants[j].day =>
            grants[j].at - grants[i].at
                >= Slower(DelayOf[grants[i].proc], DelayOf[grants[j].proc])

\* On no date are more calls saved than the budget and one: a process
\* that sleeps past midnight counts its call on the day before.
CallsOn(d) == {i \in DOMAIN grants : Day(grants[i].at) = d}
BudgetAndOne ==
    Budget > 0 =>
        \A i \in DOMAIN grants : Cardinality(CallsOn(Day(grants[i].at))) <= Budget + 1

\* A call let through is never within a cooldown recorded on its date: the
\* collector that slept while another was blocked does not undo the cooldown.
CooldownSameDay ==
    [][\A p \in Procs :
          Commit(p) /\ cooling.day = mine[p].day
              => wake[p] >= cooling.until]_vars

\* docs/NET_GUARD.md:12 says a block is a cooldown for every process, and line
\* 81 that it lasts 900 seconds: no call is let through before its end.
CooldownHeld ==
    [][\A p \in Procs : Commit(p) => wake[p] >= cooling.until]_vars
=============================================================================
