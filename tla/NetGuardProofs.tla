--------------------------- MODULE NetGuardProofs ---------------------------
(* The pace, the budget and the cooldown of NetGuard, for any number of        *)
(* collectors, any delays and any clock.                                       *)
EXTENDS NetGuard, FiniteSetTheorems, TLAPS

USE GuardAssumption DEF GuardAssumption

-----------------------------------------------------------------------------
(* The inductive invariant *)

Holding(p) == pc[p] \in {"asleep", "admitted"}

\* The flock is held from the read of the file to the write, and only then.
LockInv == \A p \in Procs : lock = p <=> Holding(p)

\* A state that is not behind the calls and the cooldown on record: it is of no
\* earlier date, and of those of its date it knows the last call, the slowest
\* delay and the end of the cooldown.
Knows(st) ==
    /\ st.day <= Day(now)
    /\ \A i \in DOMAIN grants :
          /\ grants[i].day <= st.day
          /\ grants[i].day = st.day =>
                grants[i].at <= st.last /\ DelayOf[grants[i].proc] <= st.delay
    /\ cooling.day <= st.day
    /\ cooling.day = st.day => cooling.until <= st.blocked

\* What the holder loaded is as good as the file, and its call waits for both.
Waits(p) ==
    /\ mine[p].day \in Nat
    /\ Knows(mine[p])
    /\ DelayOf[p] <= mine[p].delay
    /\ mine[p].last + mine[p].delay <= wake[p]
    /\ mine[p].blocked <= wake[p]

Inv ==
    /\ TypeOK
    /\ LockInv
    /\ Knows(file)
    /\ \A p \in Procs : Holding(p) => Waits(p)
    /\ Paced

-----------------------------------------------------------------------------
(* The clock and its date *)

LEMMA DayType ==
    ASSUME NEW t \in Nat
    PROVE  Day(t) \in Nat
BY DEF Day

LEMMA DayGrows ==
    ASSUME NEW t \in Nat
    PROVE  Day(t) <= Day(t + 1)
BY DEF Day

LEMMA StateType ==
    ASSUME NEW st \in State
    PROVE  /\ st.day \in Int /\ st.calls \in Nat /\ st.blocked \in Nat
           /\ st.last \in Nat /\ st.delay \in Nat
BY DEF State, NoDay

LEMMA StateDomain ==
    ASSUME NEW st \in State, NEW delay \in Nat
    PROVE  /\ [st EXCEPT !.delay = delay] \in State
           /\ [st EXCEPT !.delay = delay].day = st.day
           /\ [st EXCEPT !.delay = delay].last = st.last
           /\ [st EXCEPT !.delay = delay].blocked = st.blocked
           /\ [st EXCEPT !.delay = delay].delay = delay
BY DEF State

\* The calls on record are whole calls, and the history of cooldowns has a date.
LEMMA HistoryType ==
    ASSUME TypeOK
    PROVE  /\ \A i \in DOMAIN grants :
                 /\ grants[i].day \in Nat /\ grants[i].at \in Nat
                 /\ grants[i].proc \in Procs /\ DelayOf[grants[i].proc] \in Nat
           /\ cooling.day \in Int /\ cooling.until \in Nat
           /\ now \in Nat /\ file \in State
<1>1. now \in Nat /\ file \in State /\ grants \in Seq(Grant)
      /\ cooling \in [day : Nat \cup {NoDay}, until : Nat]
  BY DEF TypeOK
<1>2. \A i \in DOMAIN grants : grants[i] \in Grant
  BY <1>1
<1>3. \A g \in Grant : g.day \in Nat /\ g.at \in Nat /\ g.proc \in Procs
  BY DEF Grant
<1>4. cooling.day \in Int /\ cooling.until \in Nat
  BY <1>1 DEF NoDay
<1> QED
  BY <1>1, <1>2, <1>3, <1>4

\* What a state knows it still knows when only the clock moves.
LEMMA KnowsLater ==
    ASSUME TypeOK, NEW st \in State, Knows(st), now' \in {now, now + 1},
           UNCHANGED <<grants, cooling>>
    PROVE  Knows(st)'
<1>1. now \in Nat /\ now' \in Nat
  BY HistoryType
<1>2. Day(now) \in Int /\ Day(now') \in Int /\ Day(now) <= Day(now')
  <2>1. CASE now' = now
    BY <1>1, <2>1, DayType
  <2>2. CASE now' = now + 1
    BY <1>1, <2>2, DayType, DayGrows
  <2> QED
    BY <2>1, <2>2
<1>3. st.day \in Int
  BY StateType
<1> QED
  BY <1>2, <1>3 DEF Knows

LEMMA RollType ==
    ASSUME TypeOK
    PROVE  Roll(file) \in State /\ Roll(file).day = Day(now)
<1>1. Day(now) \in Nat
  BY DayType DEF TypeOK
<1> QED
  BY <1>1 DEF Roll, NoState, State, TypeOK

\* Rolling the file over to another date loses nothing of that date.
LEMMA RollKnows ==
    ASSUME TypeOK, Knows(file)
    PROVE  Knows(Roll(file))
<1>1. CASE file.day = Day(now)
  BY <1>1 DEF Roll
<1>2. CASE file.day # Day(now)
  <2>1. Roll(file).day = Day(now)
    BY RollType
  <2>2. Day(now) \in Nat /\ file.day \in Int /\ file.day < Day(now)
    <3>1. Day(now) \in Nat /\ file.day \in Int
      BY HistoryType, StateType, DayType
    <3> QED
      BY <1>2, <3>1 DEF Knows
  <2> QED
    BY <2>1, <2>2, HistoryType DEF Knows
<1> QED
  BY <1>1, <1>2

LEMMA SlowerType ==
    ASSUME NEW x \in Nat, NEW y \in Nat
    PROVE  Slower(x, y) \in Nat /\ x <= Slower(x, y) /\ y <= Slower(x, y)
BY DEF Slower

-----------------------------------------------------------------------------
(* The invariant holds at first, and every step keeps it *)

LEMMA InvInit == Init => Inv
<1> SUFFICES ASSUME Init PROVE Inv
  OBVIOUS
<1>1. TypeOK
  BY DEF Init, TypeOK, NoState, NoCooling, State, NoDay
<1>2. Day(now) \in Nat
  BY DayType DEF Init
<1>3. Knows(file)
  BY <1>2 DEF Init, Knows, NoState, NoCooling, NoDay
<1>4. LockInv /\ \A p \in Procs : ~ Holding(p)
  BY DEF Init, LockInv, Holding, Nobody
<1>5. Paced
  BY DEF Init, Paced
<1> QED
  BY <1>1, <1>3, <1>4, <1>5 DEF Inv

\* A process that leaves: the others keep what they hold.
LEMMA LeaveKeeps ==
    ASSUME Inv, NEW p \in Procs, NEW step \in {"idle", "calling"}, Leave(p, step),
           UNCHANGED <<now, file, grants, cooling>>
    PROVE  Inv'
<1>1. TypeOK'
  BY DEF Inv, TypeOK, Leave, Goto, NoState, State, NoDay
<1>2. LockInv'
  BY DEF Inv, LockInv, Holding, Leave, Goto, TypeOK, Nobody
<1>3. Knows(file)'
  BY DEF Inv, Knows
<1>4. ASSUME NEW q \in Procs, Holding(q)'
      PROVE  Waits(q)'
  <2>1. q # p /\ Holding(q)
    BY <1>4 DEF Inv, TypeOK, Holding, Leave, Goto
  <2>2. mine'[q] = mine[q] /\ wake'[q] = wake[q]
    BY <2>1 DEF Inv, TypeOK, Leave
  <2> QED
    BY <2>1, <2>2 DEF Inv, Waits, Knows
<1>5. Paced'
  BY DEF Inv, Paced
<1> QED
  BY <1>1, <1>2, <1>3, <1>4, <1>5 DEF Inv

\* A step that leaves the lock, the file and the history alone.
LEMMA QuietKeeps ==
    ASSUME Inv, TypeOK', now' \in {now, now + 1},
           \A q \in Procs : Holding(q)' <=> Holding(q),
           UNCHANGED <<file, lock, mine, wake, grants, cooling>>
    PROVE  Inv'
<1>1. LockInv'
  BY DEF Inv, LockInv
<1>2. Knows(file)'
  BY KnowsLater DEF Inv, TypeOK
<1>3. ASSUME NEW q \in Procs, Holding(q)
      PROVE  Waits(q)'
  <2>1. mine[q] \in State /\ Knows(mine[q])
    BY <1>3 DEF Inv, TypeOK, Waits
  <2>2. Knows(mine[q])'
    BY <2>1, KnowsLater DEF Inv, Knows
  <2> QED
    BY <1>3, <2>2 DEF Inv, Waits
<1>4. Paced'
  BY DEF Inv, Paced
<1> QED
  BY <1>1, <1>2, <1>3, <1>4 DEF Inv

LEMMA EnterKeeps ==
    ASSUME Inv, NEW p \in Procs, Enter(p)
    PROVE  Inv'
<1> DEFINE st == Roll(file)
           delay == DelayFor(p, st)
<1>1. st \in State /\ Knows(st)
  BY RollType, RollKnows DEF Inv
<1>2. delay \in Nat /\ st.delay <= delay /\ DelayOf[p] <= delay
  BY <1>1, SlowerType DEF DelayFor, State
<1> HIDE DEF st, delay
<1>3. PICK j \in 0..Jitter :
         /\ wake' = [wake EXCEPT ![p] = Slower(st.last + delay + j, now)]
         /\ Goto(p, IF st.last + delay + j > now THEN "asleep" ELSE "admitted")
  BY DEF Enter, st, delay
<1>4. /\ lock = Nobody /\ lock' = p /\ st.blocked <= now
      /\ mine' = [mine EXCEPT ![p] = [st EXCEPT !.delay = delay]]
      /\ deadline' = [deadline EXCEPT ![p] = 0]
      /\ UNCHANGED <<now, file, grants, cooling>>
  BY DEF Enter, st, delay
<1>5. j \in Nat /\ st.last + delay + j \in Nat /\ now \in Nat
  BY <1>1, <1>2, StateType, HistoryType DEF Inv
<1>6. wake'[p] \in Nat /\ st.last + delay <= wake'[p] /\ now <= wake'[p]
  <2>1. wake'[p] = Slower(st.last + delay + j, now)
    BY <1>3 DEF Inv, TypeOK
  <2>2. st.last + delay <= st.last + delay + j
    BY <1>1, <1>2, <1>5, StateType
  <2>3. st.last + delay \in Nat
    BY <1>1, <1>2, StateType
  <2> DEFINE target == st.last + delay + j
  <2>4. target \in Nat /\ wake'[p] = Slower(target, now) /\ st.last + delay <= target
    BY <1>5, <2>1, <2>2
  <2> HIDE DEF target
  <2>5. wake'[p] \in Nat /\ target <= wake'[p] /\ now <= wake'[p]
    BY <1>5, <2>4 DEF Slower
  <2> QED
    BY <2>3, <2>4, <2>5
<1>7. /\ mine'[p] \in State /\ mine'[p].day = st.day /\ mine'[p].last = st.last
      /\ mine'[p].blocked = st.blocked /\ mine'[p].delay = delay
  <2>1. mine'[p] = [st EXCEPT !.delay = delay]
    BY <1>4 DEF Inv, TypeOK
  <2> QED
    BY <1>1, <1>2, <2>1, StateDomain
<1>8. TypeOK'
  BY <1>3, <1>4, <1>5, <1>6, <1>7 DEF Inv, TypeOK, Goto
<1>9. \A q \in Procs : Holding(q)' <=> q = p
  BY <1>3, <1>4 DEF Inv, TypeOK, LockInv, Holding, Goto, Nobody
<1>10. LockInv'
  BY <1>4, <1>9 DEF LockInv
<1>11. Waits(p)'
  <2>1. Knows(mine[p])'
    <3>1. \A i \in DOMAIN grants :
             grants[i].day = st.day => DelayOf[grants[i].proc] <= delay
      BY <1>1, <1>2, StateType, HistoryType DEF Knows, Inv
    <3> QED
      BY <1>1, <1>4, <1>7, <3>1 DEF Knows
  <2>2. st.day \in Nat
    BY RollType, DayType DEF Inv, TypeOK, st
  <2>3. st.blocked <= wake'[p]
    BY <1>1, <1>4, <1>5, <1>6, StateType
  <2> QED
    BY <1>2, <1>6, <1>7, <2>1, <2>2, <2>3 DEF Waits
<1>12. Knows(file)' /\ Paced'
  BY <1>4 DEF Inv, Knows, Paced
<1> QED
  BY <1>8, <1>9, <1>10, <1>11, <1>12 DEF Inv

LEMMA WakeKeeps ==
    ASSUME Inv, NEW p \in Procs, Wake(p)
    PROVE  Inv'
<1>1. TypeOK'
  BY DEF Inv, TypeOK, Wake, Goto
<1>2. \A q \in Procs : Holding(q)' <=> Holding(q)
  BY DEF Inv, TypeOK, Wake, Goto, Holding
<1>3. ASSUME NEW q \in Procs, Holding(q)
      PROVE  Waits(q)'
  <2>1. wake[q] \in Nat /\ wake'[q] \in Nat /\ wake[q] <= wake'[q]
    BY <1>1 DEF Inv, TypeOK, Wake
  <2>2. mine[q] \in State /\ Waits(q)
    BY <1>3 DEF Inv, TypeOK
  <2> QED
    BY <2>1, <2>2 DEF Waits, Knows, State, Wake
<1>4. Knows(file)' /\ Paced' /\ LockInv'
  BY <1>2 DEF Inv, Wake, Knows, Paced, LockInv
<1> QED
  BY <1>1, <1>2, <1>3, <1>4 DEF Inv

LEMMA CommitKeeps ==
    ASSUME Inv, NEW p \in Procs, Commit(p)
    PROVE  Inv'
<1> DEFINE new == [proc |-> p, at |-> wake[p], day |-> mine[p].day]
<1>1. Waits(p) /\ \A q \in Procs : Holding(q) => q = p
  BY DEF Inv, Commit, Holding, LockInv
<1>2. CASE SaveFails
  BY <1>2, LeaveKeeps DEF Commit, SaveFails
<1>3. CASE /\ Save([mine[p] EXCEPT !.last = wake[p], !.calls = @ + 1])
           /\ grants' = Append(grants, new)
           /\ UNCHANGED cooling
  <2>1. /\ mine[p] \in State /\ wake[p] \in Nat /\ mine[p].day \in Nat
        /\ Leave(p, "calling") /\ now' = now
        /\ file' = [mine[p] EXCEPT !.last = wake[p], !.calls = @ + 1]
    BY <1>1, <1>3 DEF Inv, TypeOK, Commit, Save, Waits
  <2>2. file' \in State /\ file'.day = mine[p].day /\ file'.last = wake[p]
        /\ file'.delay = mine[p].delay /\ file'.blocked = mine[p].blocked
    <3>1. mine[p].calls + 1 \in Nat
      BY <2>1, StateType
    <3> QED
      BY <2>1, <3>1 DEF State
  <2>3. new \in Grant /\ grants \in Seq(Grant)
    BY <2>1 DEF Grant, Inv, TypeOK
  <2> HIDE DEF new
  <2>4. /\ grants' \in Seq(Grant)
        /\ DOMAIN grants' = DOMAIN grants \cup {Len(grants) + 1}
        /\ \A i \in DOMAIN grants : grants'[i] = grants[i] /\ i <= Len(grants)
        /\ grants'[Len(grants) + 1] = new
        /\ DOMAIN grants \subseteq Nat /\ Len(grants) \in Nat
    BY <1>3, <2>3
  <2>5. TypeOK'
    BY <1>3, <2>1, <2>2, <2>4 DEF Inv, TypeOK, Leave, Goto, NoState, State, NoDay
  <2>6. \A q \in Procs : ~ Holding(q)'
    BY <1>1, <2>1 DEF Inv, TypeOK, Leave, Goto, Holding
  <2>7. LockInv'
    BY <1>1, <2>1, <2>6 DEF Inv, LockInv, Leave, Nobody, Commit, Holding
  <2>8. new.day = mine[p].day /\ new.at = wake[p] /\ new.proc = p
    BY DEF new
  <2>9. ASSUME NEW i \in DOMAIN grants, grants[i].day = mine[p].day
        PROVE  /\ grants[i].at <= mine[p].last
               /\ DelayOf[grants[i].proc] <= mine[p].delay
    BY <1>1, <2>9 DEF Waits, Knows
  <2>10. Knows(file)'
    <3>1. ASSUME NEW i \in DOMAIN grants
          PROVE  /\ grants[i].day <= mine[p].day
                 /\ grants[i].day = mine[p].day =>
                       grants[i].at <= wake[p] /\ DelayOf[grants[i].proc] <= mine[p].delay
      <4>1. /\ grants[i].at \in Nat /\ mine[p].last \in Nat /\ mine[p].delay \in Nat
            /\ mine[p].last + mine[p].delay <= wake[p]
        BY <1>1, <2>1, HistoryType, StateType DEF Inv, Waits
      <4> QED
        BY <1>1, <2>1, <2>9, <4>1 DEF Waits, Knows
    <3>2. new.day <= mine[p].day /\ new.at <= wake[p] /\ DelayOf[new.proc] <= mine[p].delay
      BY <1>1, <2>1, <2>8 DEF Waits
    <3>3. /\ mine[p].day <= Day(now) /\ cooling.day <= mine[p].day
          /\ cooling.day = mine[p].day => cooling.until <= mine[p].blocked
      BY <1>1 DEF Waits, Knows
    <3> QED
      BY <1>3, <2>1, <2>2, <2>4, <3>1, <3>2, <3>3 DEF Knows
  <2>11. Paced'
    <3> SUFFICES ASSUME NEW i \in DOMAIN grants', NEW j \in DOMAIN grants', i < j,
                        grants'[i].day = grants'[j].day
                 PROVE  grants'[j].at - grants'[i].at
                          >= Slower(DelayOf[grants'[i].proc], DelayOf[grants'[j].proc])
      BY DEF Paced
    <3>1. i \in DOMAIN grants
      BY <2>4
    <3>2. CASE j \in DOMAIN grants
      BY <2>4, <3>1, <3>2 DEF Inv, Paced
    <3>3. CASE j = Len(grants) + 1
      <4>1. grants'[i] = grants[i] /\ grants'[j] = new
        BY <2>4, <3>1, <3>3
      <4>2. grants[i].at <= mine[p].last /\ DelayOf[grants[i].proc] <= mine[p].delay
        BY <2>8, <2>9, <3>1, <4>1
      <4>3. mine[p].last + mine[p].delay <= wake[p] /\ DelayOf[p] <= mine[p].delay
        BY <1>1 DEF Waits
      <4>4. grants[i] \in Grant
        BY <2>3, <3>1
      <4> QED
        BY <2>1, <2>8, <4>1, <4>2, <4>3, <4>4 DEF Slower, State, Grant
    <3> QED
      BY <2>4, <3>2, <3>3
  <2> QED
    BY <2>5, <2>6, <2>7, <2>10, <2>11 DEF Inv
<1> QED
  BY <1>2, <1>3 DEF Commit, new

\* Saving a rolled-over file with another cooldown, which the history follows.
LEMMA RecoolKnows ==
    ASSUME Inv, NEW until \in Nat,
           file' = [Roll(file) EXCEPT !.blocked = until],
           \/ cooling' = [day |-> Day(now), until |-> until]
           \/ cooling' = NoCooling,
           UNCHANGED <<now, grants>>
    PROVE  file' \in State /\ Knows(file)'
           /\ cooling' \in [day : Nat \cup {NoDay}, until : Nat]
<1>1. Roll(file) \in State /\ Knows(Roll(file)) /\ Roll(file).day = Day(now)
  BY RollType, RollKnows DEF Inv
<1>2. Day(now) \in Nat
  BY DayType DEF Inv, TypeOK
<1>3. file' \in State /\ file'.blocked = until /\ file'.day = Day(now)
      /\ file'.last = Roll(file).last /\ file'.delay = Roll(file).delay
  BY <1>1 DEF State
<1>4. /\ cooling' \in [day : Nat \cup {NoDay}, until : Nat]
      /\ cooling'.day <= Day(now)
      /\ cooling'.day = Day(now) => cooling'.until <= until
  BY <1>2 DEF NoCooling, NoDay
<1> HIDE DEF Roll
<1>5. Knows(file)'
  BY <1>1, <1>2, <1>3, <1>4 DEF Knows
<1> QED
  BY <1>3, <1>4, <1>5

LEMMA BlockKeeps ==
    ASSUME Inv, NEW p \in Procs, Block(p)
    PROVE  Inv'
<1>1. CASE SaveFails
  BY <1>1, LeaveKeeps DEF Block, SaveFails
<1>2. CASE /\ Save([Roll(file) EXCEPT !.blocked = now + Cooldown])
           /\ cooling' = [day |-> Day(now), until |-> now + Cooldown]
           /\ UNCHANGED grants
  <2>1. now + Cooldown \in Nat /\ now' = now /\ lock = Nobody /\ Leave(p, "idle")
    BY DEF Inv, TypeOK, Block
  <2>2. file' \in State /\ Knows(file)'
        /\ cooling' \in [day : Nat \cup {NoDay}, until : Nat]
    BY <1>2, <2>1, RecoolKnows DEF Save
  <2>3. TypeOK'
    BY <1>2, <2>1, <2>2 DEF Inv, TypeOK, Leave, Goto, NoState, State, NoDay
  <2>4. \A q \in Procs : ~ Holding(q)'
    BY <2>1 DEF Inv, TypeOK, LockInv, Holding, Leave, Goto, Nobody
  <2>5. LockInv'
    BY <2>1, <2>4 DEF LockInv, Leave, Nobody
  <2>6. Paced'
    BY <1>2 DEF Inv, Paced
  <2> QED
    BY <2>2, <2>3, <2>4, <2>5, <2>6 DEF Inv
<1> QED
  BY <1>1, <1>2 DEF Block

LEMMA ClearKeeps ==
    ASSUME Inv, Clear
    PROVE  Inv'
<1>1. file' \in State /\ Knows(file)' /\ cooling' \in [day : Nat \cup {NoDay}, until : Nat]
  BY RecoolKnows DEF Clear, Save
<1>2. TypeOK'
  BY <1>1 DEF Inv, TypeOK, Clear
<1>3. \A q \in Procs : ~ Holding(q)'
  BY DEF Inv, LockInv, Clear, Holding, Nobody
<1>4. LockInv' /\ Paced'
  BY <1>3 DEF Inv, LockInv, Paced, Clear, Nobody
<1> QED
  BY <1>1, <1>2, <1>3, <1>4 DEF Inv

LEMMA InvStep == Inv /\ [Next]_vars => Inv'
<1> SUFFICES ASSUME Inv, [Next]_vars PROVE Inv'
  OBVIOUS
<1>1. ASSUME NEW p \in Procs, Acquire(p) PROVE Inv'
  <2>1. TypeOK' /\ \A q \in Procs : Holding(q)' <=> Holding(q)
    BY <1>1 DEF Acquire, Inv, TypeOK, Goto, Holding
  <2> QED
    BY <1>1, <2>1, QuietKeeps DEF Acquire
<1>2. ASSUME NEW p \in Procs, Refuse(p) PROVE Inv'
  BY <1>2, LeaveKeeps DEF Refuse
<1>3. ASSUME NEW p \in Procs, Enter(p) PROVE Inv'
  BY <1>3, EnterKeeps
<1>4. ASSUME NEW p \in Procs, Wake(p) PROVE Inv'
  BY <1>4, WakeKeeps
<1>5. ASSUME NEW p \in Procs, Commit(p) PROVE Inv'
  BY <1>5, CommitKeeps
<1>6. ASSUME NEW p \in Procs, FailOpen(p) PROVE Inv'
  BY <1>6, LeaveKeeps DEF FailOpen
<1>7. ASSUME NEW p \in Procs, Answered(p) PROVE Inv'
  <2>1. TypeOK' /\ \A q \in Procs : Holding(q)' <=> Holding(q)
    BY <1>7 DEF Answered, Inv, TypeOK, Goto, Holding
  <2> QED
    BY <1>7, <2>1, QuietKeeps DEF Answered
<1>8. ASSUME NEW p \in Procs, BlockSeen(p) PROVE Inv'
  <2>1. TypeOK' /\ \A q \in Procs : Holding(q)' <=> Holding(q)
    BY <1>8 DEF BlockSeen, Inv, TypeOK, Goto, Holding
  <2> QED
    BY <1>8, <2>1, QuietKeeps DEF BlockSeen
<1>9. ASSUME NEW p \in Procs, Block(p) PROVE Inv'
  BY <1>9, BlockKeeps
<1>10. ASSUME NEW p \in Procs, BlockLost(p) PROVE Inv'
  BY <1>10, LeaveKeeps DEF BlockLost
<1>11. ASSUME NEW p \in Procs, Die(p) PROVE Inv'
  BY <1>11, LeaveKeeps DEF Die
<1>12. CASE Clear
  BY <1>12, ClearKeeps
<1>13. CASE Tick
  <2>1. TypeOK' /\ \A q \in Procs : Holding(q)' <=> Holding(q)
    BY <1>13 DEF Tick, Inv, TypeOK, Holding
  <2> QED
    BY <1>13, <2>1, QuietKeeps DEF Tick
<1>14. CASE UNCHANGED vars
  <2>1. TypeOK' /\ \A q \in Procs : Holding(q)' <=> Holding(q)
    BY <1>14 DEF vars, Inv, TypeOK, Holding
  <2> QED
    BY <1>14, <2>1, QuietKeeps DEF vars
<1> QED
  BY <1>1, <1>2, <1>3, <1>4, <1>5, <1>6, <1>7, <1>8, <1>9, <1>10, <1>11, <1>12,
     <1>13, <1>14 DEF Next

-----------------------------------------------------------------------------
(* The calls of a date *)

\* The calls that were counted on date d; CallsOn(d) are those made on it.
CountedOn(d) == {i \in DOMAIN grants : grants[i].day = d}

\* A state that counts at least the calls on record for its date.
Counts(st) == Cardinality(CountedOn(st.day)) <= st.calls

\* A call falls on the date it is counted on or later, and never on a later date
\* than the next call is counted on.
Dated ==
    /\ \A i \in DOMAIN grants : grants[i].at <= now /\ grants[i].day <= Day(grants[i].at)
    /\ \A i, j \in DOMAIN grants : i < j => Day(grants[i].at) <= grants[j].day

\* The holder found a call left in the budget of its date, on which or before
\* which all calls on record were made.
Admits(p) ==
    /\ Counts(mine[p]) /\ (Budget > 0 => mine[p].calls < Budget)
    /\ \A i \in DOMAIN grants : Day(grants[i].at) <= mine[p].day
    /\ mine[p].day <= Day(wake[p])
    /\ pc[p] = "admitted" => wake[p] <= now

CountInv ==
    /\ Dated
    /\ Counts(file)
    /\ Budget > 0 => \A d \in Nat : Cardinality(CountedOn(d)) <= Budget
    /\ \A p \in Procs : Holding(p) => Admits(p)

LEMMA OneMore ==
    ASSUME NEW S, NEW x, IsFiniteSet(S), NEW n \in Nat, Cardinality(S) <= n
    PROVE  /\ IsFiniteSet(S \cup {x}) /\ Cardinality(S \cup {x}) \in Nat
           /\ Cardinality(S \cup {x}) <= n + 1
<1>1. Cardinality(S) \in Nat
  BY FS_CardinalityType
<1>2. IsFiniteSet(S \cup {x})
  BY FS_AddElement
<1>3. Cardinality(S \cup {x}) \in Nat
  BY <1>2, FS_CardinalityType
<1>4. Cardinality(S \cup {x}) = IF x \in S THEN Cardinality(S) ELSE Cardinality(S) + 1
  BY FS_AddElement
<1> QED
  BY <1>1, <1>2, <1>3, <1>4

LEMMA CountedFinite ==
    ASSUME TypeOK
    PROVE  \A d : IsFiniteSet(CountedOn(d)) /\ Cardinality(CountedOn(d)) \in Nat
<1> SUFFICES ASSUME NEW d
             PROVE  IsFiniteSet(CountedOn(d)) /\ Cardinality(CountedOn(d)) \in Nat
  OBVIOUS
<1>1. DOMAIN grants = 1..Len(grants) /\ Len(grants) \in Nat
  BY DEF TypeOK
<1>2. IsFiniteSet(DOMAIN grants)
  BY <1>1, FS_Interval
<1>3. CountedOn(d) \in SUBSET (DOMAIN grants)
  BY DEF CountedOn
<1> QED
  BY <1>2, <1>3, FS_Subset, FS_CardinalityType

LEMMA DayMonotone ==
    ASSUME NEW t \in Nat, NEW u \in Nat, t <= u
    PROVE  Day(t) <= Day(u)
BY DEF Day

\* A rolled-over file counts the calls of its date: of a new date there are none.
LEMMA RollCounts ==
    ASSUME Inv, Counts(file)
    PROVE  Counts(Roll(file))
<1>1. CASE file.day = Day(now)
  BY <1>1 DEF Roll
<1>2. CASE file.day # Day(now)
  <2>1. Day(now) \in Nat /\ file.day \in Int /\ file.day < Day(now)
    <3>1. Day(now) \in Nat /\ file.day \in Int
      BY HistoryType, StateType, DayType DEF Inv
    <3> QED
      BY <1>2, <3>1 DEF Knows, Inv
  <2>2. CountedOn(Day(now)) = {}
    <3>1. \A i \in DOMAIN grants : grants[i].day \in Nat /\ grants[i].day <= file.day
      BY HistoryType DEF Inv, Knows
    <3> QED
      BY <2>1, <3>1 DEF CountedOn
  <2>3. Roll(file).day = Day(now) /\ Roll(file).calls = 0
    BY <1>2, RollType DEF Roll, NoState, Inv
  <2> QED
    BY <2>2, <2>3, FS_EmptySet DEF Counts
<1> QED
  BY <1>1, <1>2

LEMMA CountInit == Init => CountInv
<1> SUFFICES ASSUME Init PROVE CountInv
  OBVIOUS
<1>1. grants = <<>> /\ file = NoState /\ \A p \in Procs : ~ Holding(p)
  BY DEF Init, Holding
<1>2. \A d : Cardinality(CountedOn(d)) = 0
  <2>1. \A d : CountedOn(d) = {}
    BY <1>1 DEF CountedOn
  <2> QED
    BY <2>1, FS_EmptySet
<1>3. Counts(file)
  BY <1>1, <1>2 DEF Counts, NoState
<1> QED
  BY <1>1, <1>2, <1>3 DEF CountInv, Dated

\* A step that saves no call: what is left to see to are the file and the
\* processes that hold the lock.
LEMMA NoCallKeeps ==
    ASSUME Inv, CountInv, UNCHANGED grants, now' \in {now, now + 1},
           Counts(file)', \A q \in Procs : Holding(q)' => Admits(q)'
    PROVE  CountInv'
<1>1. \A d : CountedOn(d)' = CountedOn(d)
  BY DEF CountedOn
<1>2. Dated'
  BY HistoryType DEF CountInv, Dated, Inv
<1> QED
  BY <1>1, <1>2 DEF CountInv

\* The same when nobody new holds the lock, and the file is the same, too.
LEMMA StillAdmits ==
    ASSUME Inv, CountInv, UNCHANGED <<grants, file>>, now' \in {now, now + 1},
           \A q \in Procs : Holding(q)' =>
              /\ Holding(q) /\ mine'[q] = mine[q] /\ wake'[q] = wake[q]
              /\ pc'[q] = pc[q]
    PROVE  CountInv'
<1>1. \A d : CountedOn(d)' = CountedOn(d)
  BY DEF CountedOn
<1>2. Counts(file)'
  BY <1>1 DEF CountInv, Counts
<1>3. ASSUME NEW q \in Procs, Holding(q)'
      PROVE  Admits(q)'
  <2>1. now \in Nat /\ wake[q] \in Nat
    BY DEF Inv, TypeOK
  <2>2. Admits(q)
    BY <1>3 DEF CountInv
  <2>3. Counts(mine[q])'
    BY <1>1, <1>3, <2>2 DEF Admits, Counts
  <2> QED
    BY <1>3, <2>1, <2>2, <2>3 DEF Admits, Counts
<1> QED
  BY <1>2, <1>3, NoCallKeeps

LEMMA LeaveCounts ==
    ASSUME Inv, CountInv, NEW p \in Procs, NEW step \in {"idle", "calling"},
           Leave(p, step), UNCHANGED <<now, file, grants>>
    PROVE  CountInv'
<1>1. ASSUME NEW q \in Procs, Holding(q)'
      PROVE  /\ Holding(q) /\ mine'[q] = mine[q] /\ wake'[q] = wake[q]
             /\ pc'[q] = pc[q]
  BY <1>1 DEF Inv, TypeOK, Holding, Leave, Goto
<1> QED
  BY <1>1, StillAdmits

LEMMA EnterCounts ==
    ASSUME Inv, CountInv, NEW p \in Procs, Enter(p)
    PROVE  CountInv'
<1> DEFINE st == Roll(file)
           delay == DelayFor(p, st)
<1>1. st \in State /\ Counts(st) /\ st.day = Day(now) /\ now \in Nat
  BY RollType, RollCounts DEF Inv, CountInv, TypeOK
<1>2. delay \in Nat
  BY <1>1, SlowerType DEF DelayFor, State
<1>3. Budget > 0 => st.calls < Budget
  BY <1>1 DEF Enter, Exhausted, State
<1> HIDE DEF st, delay
<1>4. PICK j \in 0..Jitter :
         /\ wake' = [wake EXCEPT ![p] = Slower(st.last + delay + j, now)]
         /\ Goto(p, IF st.last + delay + j > now THEN "asleep" ELSE "admitted")
  BY DEF Enter, st, delay
<1>5. /\ lock = Nobody
      /\ mine' = [mine EXCEPT ![p] = [st EXCEPT !.delay = delay]]
      /\ UNCHANGED <<now, file, grants>>
  BY DEF Enter, st, delay
<1>6. \A q \in Procs : Holding(q)' => q = p
  BY <1>4, <1>5 DEF Inv, TypeOK, LockInv, Holding, Goto, Nobody
<1>7. now <= wake'[p] /\ wake'[p] \in Nat /\ (pc'[p] = "admitted" => wake'[p] <= now)
  <2> DEFINE target == st.last + delay + j
  <2>1. target \in Nat
    BY <1>1, <1>2, StateType
  <2>2. wake'[p] = Slower(target, now)
        /\ pc'[p] = IF target > now THEN "asleep" ELSE "admitted"
    BY <1>4 DEF Inv, TypeOK, Goto
  <2> HIDE DEF target
  <2> QED
    BY <1>1, <2>1, <2>2 DEF Slower
<1>8. mine'[p].day = st.day /\ mine'[p].calls = st.calls
  <2>1. mine'[p] = [st EXCEPT !.delay = delay]
    BY <1>5 DEF Inv, TypeOK
  <2> QED
    BY <1>1, <1>2, <2>1 DEF State
<1>9. \A d : CountedOn(d)' = CountedOn(d)
  BY <1>5 DEF CountedOn
<1>10. Counts(file)' /\ Counts(mine[p])'
  BY <1>1, <1>5, <1>8, <1>9 DEF Counts, CountInv
<1>11. Day(now) <= Day(wake'[p]) /\ \A i \in DOMAIN grants : Day(grants[i].at) <= Day(now)
  BY <1>1, <1>7, DayMonotone, HistoryType DEF CountInv, Dated, Inv
<1>12. Admits(p)'
  BY <1>1, <1>3, <1>5, <1>7, <1>8, <1>10, <1>11 DEF Admits
<1> QED
  BY <1>5, <1>6, <1>10, <1>12, NoCallKeeps

LEMMA WakeCounts ==
    ASSUME Inv, CountInv, NEW p \in Procs, Wake(p)
    PROVE  CountInv'
<1>1. \A d : CountedOn(d)' = CountedOn(d)
  BY DEF CountedOn, Wake
<1>2. Counts(file)'
  BY <1>1 DEF CountInv, Counts, Wake
<1>3. ASSUME NEW q \in Procs, Holding(q)'
      PROVE  Admits(q)'
  <2>1. Holding(q) /\ Admits(q) /\ Counts(mine[q])'
    BY <1>1, <1>3 DEF Inv, TypeOK, Wake, Goto, Holding, CountInv, Admits, Counts
  <2>2. now \in Nat /\ wake[q] \in Nat /\ wake'[q] \in Nat /\ mine[q].day \in Nat
    BY <2>1 DEF Inv, TypeOK, Wake, Waits
  <2>3. mine[q].day <= Day(wake'[q])
    <3>1. wake[q] <= wake'[q]
      BY <2>2 DEF Inv, TypeOK, Wake
    <3>2. Day(wake[q]) <= Day(wake'[q]) /\ Day(wake[q]) \in Nat /\ Day(wake'[q]) \in Nat
      BY <2>2, <3>1, DayMonotone, DayType
    <3> QED
      BY <2>1, <2>2, <3>2 DEF Admits
  <2>4. pc'[q] = "admitted" => wake'[q] <= now
    BY <2>1, <2>2 DEF Inv, TypeOK, Wake, Goto, Admits
  <2> QED
    BY <2>1, <2>3, <2>4 DEF Admits, Wake
<1> QED
  BY <1>2, <1>3, NoCallKeeps DEF Wake

LEMMA CommitCounts ==
    ASSUME Inv, CountInv, NEW p \in Procs, Commit(p)
    PROVE  CountInv'
<1> DEFINE new == [proc |-> p, at |-> wake[p], day |-> mine[p].day]
<1>1. Waits(p) /\ Admits(p) /\ wake[p] <= now /\ \A q \in Procs : Holding(q) => q = p
  BY DEF Inv, CountInv, Commit, Holding, LockInv, Admits
<1>2. CASE SaveFails
  BY <1>2, LeaveCounts DEF Commit, SaveFails
<1>3. CASE /\ Save([mine[p] EXCEPT !.last = wake[p], !.calls = @ + 1])
           /\ grants' = Append(grants, new)
           /\ UNCHANGED cooling
  <2>1. /\ mine[p] \in State /\ wake[p] \in Nat /\ mine[p].day \in Nat /\ now' = now
        /\ file'.day = mine[p].day /\ file'.calls = mine[p].calls + 1
        /\ mine[p].calls \in Nat /\ now \in Nat
    BY <1>1, <1>3 DEF Inv, TypeOK, Commit, Save, Waits, State
  <2>2. new.day = mine[p].day /\ new.at = wake[p] /\ grants \in Seq(Grant)
    BY DEF Inv, TypeOK
  <2> HIDE DEF new
  <2>3. /\ DOMAIN grants' = DOMAIN grants \cup {Len(grants) + 1}
        /\ \A i \in DOMAIN grants : grants'[i] = grants[i] /\ i <= Len(grants)
        /\ grants'[Len(grants) + 1] = new
        /\ DOMAIN grants = 1..Len(grants) /\ Len(grants) \in Nat
    BY <1>3, <2>2
  <2>4. \A q \in Procs : ~ Holding(q)'
    BY <1>1 DEF Inv, TypeOK, Commit, Leave, Goto, Holding
  <2>5. Dated'
    <3>1. ASSUME NEW i \in DOMAIN grants'
          PROVE  grants'[i].at <= now /\ grants'[i].day <= Day(grants'[i].at)
      BY <1>1, <2>2, <2>3 DEF CountInv, Dated, Admits
    <3>2. ASSUME NEW i \in DOMAIN grants', NEW j \in DOMAIN grants', i < j
          PROVE  Day(grants'[i].at) <= grants'[j].day
      <4>1. i \in DOMAIN grants
        BY <2>3, <3>2
      <4>2. CASE j \in DOMAIN grants
        BY <2>3, <3>2, <4>1, <4>2 DEF CountInv, Dated
      <4>3. CASE j = Len(grants) + 1
        BY <1>1, <2>2, <2>3, <4>1, <4>3 DEF Admits
      <4> QED
        BY <2>3, <4>2, <4>3
    <3> QED
      BY <2>1, <3>1, <3>2 DEF Dated
  <2>6. \A d : CountedOn(d)' = IF d = mine[p].day THEN CountedOn(d) \cup {Len(grants) + 1}
                                                 ELSE CountedOn(d)
    BY <2>2, <2>3 DEF CountedOn
  <2>7. ASSUME NEW d, d = mine[p].day
        PROVE  Cardinality(CountedOn(d)') <= mine[p].calls + 1
    <3>1. IsFiniteSet(CountedOn(d)) /\ Cardinality(CountedOn(d)) \in Nat
      BY CountedFinite DEF Inv
    <3>2. Cardinality(CountedOn(d)) <= mine[p].calls
      BY <1>1, <2>7 DEF Admits, Counts
    <3>3. CountedOn(d)' = CountedOn(d) \cup {Len(grants) + 1}
      BY <2>6, <2>7
    <3>4. Cardinality(CountedOn(d) \cup {Len(grants) + 1}) <= mine[p].calls + 1
      BY <2>1, <3>1, <3>2, OneMore
    <3> QED
      BY <3>3, <3>4
  <2>8. Counts(file)'
    BY <2>1, <2>7 DEF Counts, CountedOn
  <2>9. ASSUME Budget > 0, NEW d \in Nat
        PROVE  Cardinality(CountedOn(d)') <= Budget
    <3>1. CASE d = mine[p].day
      <4>1. Cardinality(CountedOn(d)') \in Nat
        <5>1. TypeOK'
          BY CommitKeeps DEF Inv
        <5>2. DOMAIN grants' = 1..Len(grants') /\ Len(grants') \in Nat
          BY <5>1 DEF TypeOK
        <5>3. CountedOn(d)' \in SUBSET (DOMAIN grants')
          BY DEF CountedOn
        <5>4. IsFiniteSet(DOMAIN grants')
          BY <5>2, FS_Interval
        <5>5. IsFiniteSet(CountedOn(d)')
          BY <5>3, <5>4, FS_Subset
        <5> QED
          BY <5>5, FS_CardinalityType
      <4>2. mine[p].calls + 1 <= Budget
        BY <1>1, <2>1, <2>9 DEF Admits
      <4>3. Cardinality(CountedOn(d)') <= mine[p].calls + 1
        BY <2>7, <3>1
      <4> QED
        BY <2>1, <4>1, <4>2, <4>3
    <3>2. CASE d # mine[p].day
      BY <2>6, <2>9, <3>2 DEF CountInv
    <3> QED
      BY <3>1, <3>2
  <2> QED
    BY <2>4, <2>5, <2>8, <2>9 DEF CountInv
<1> QED
  BY <1>2, <1>3 DEF Commit, new

\* block() and clear keep the calls of the date.
LEMMA RecoolCounts ==
    ASSUME Inv, CountInv, NEW until \in Nat,
           file' = [Roll(file) EXCEPT !.blocked = until],
           UNCHANGED <<now, grants>>, \A q \in Procs : ~ Holding(q)'
    PROVE  CountInv'
<1>1. Roll(file) \in State /\ Counts(Roll(file))
  BY RollType, RollCounts DEF Inv, CountInv
<1>2. file'.day = Roll(file).day /\ file'.calls = Roll(file).calls
  BY <1>1 DEF State
<1> HIDE DEF Roll
<1>3. Counts(file)'
  BY <1>1, <1>2 DEF Counts, CountedOn
<1> QED
  BY <1>3, NoCallKeeps

LEMMA BlockCounts ==
    ASSUME Inv, CountInv, NEW p \in Procs, Block(p)
    PROVE  CountInv'
<1>1. CASE SaveFails
  BY <1>1, LeaveCounts DEF Block, SaveFails
<1>2. CASE Save([Roll(file) EXCEPT !.blocked = now + Cooldown]) /\ UNCHANGED grants
  <2>1. now + Cooldown \in Nat /\ now' = now
    BY DEF Inv, TypeOK, Block
  <2>2. \A q \in Procs : ~ Holding(q)'
    BY DEF Inv, TypeOK, LockInv, Holding, Leave, Goto, Nobody, Block
  <2> QED
    BY <1>2, <2>1, <2>2, RecoolCounts DEF Save
<1> QED
  BY <1>1, <1>2 DEF Block

LEMMA CountStep == Inv /\ CountInv /\ [Next]_vars => CountInv'
<1> SUFFICES ASSUME Inv, CountInv, [Next]_vars PROVE CountInv'
  OBVIOUS
<1>1. ASSUME NEW p \in Procs, Acquire(p) \/ Answered(p) \/ BlockSeen(p)
      PROVE  CountInv'
  <2>1. \A q \in Procs : Holding(q)' => Holding(q) /\ pc'[q] = pc[q]
    BY <1>1 DEF Acquire, Answered, BlockSeen, Inv, TypeOK, Goto, Holding
  <2> QED
    BY <1>1, <2>1, StillAdmits DEF Acquire, Answered, BlockSeen
<1>2. ASSUME NEW p \in Procs, Refuse(p) \/ FailOpen(p) \/ BlockLost(p) \/ Die(p)
      PROVE  CountInv'
  BY <1>2, LeaveCounts DEF Refuse, FailOpen, BlockLost, Die
<1>3. ASSUME NEW p \in Procs, Enter(p) PROVE CountInv'
  BY <1>3, EnterCounts
<1>4. ASSUME NEW p \in Procs, Wake(p) PROVE CountInv'
  BY <1>4, WakeCounts
<1>5. ASSUME NEW p \in Procs, Commit(p) PROVE CountInv'
  BY <1>5, CommitCounts
<1>6. ASSUME NEW p \in Procs, Block(p) PROVE CountInv'
  BY <1>6, BlockCounts
<1>7. CASE Clear
  <2>1. \A q \in Procs : ~ Holding(q)'
    BY <1>7 DEF Inv, LockInv, Clear, Holding, Nobody
  <2> QED
    BY <1>7, <2>1, RecoolCounts DEF Clear, Save
<1>8. CASE Tick
  BY <1>8, StillAdmits DEF Tick, Holding
<1>9. CASE UNCHANGED vars
  BY <1>9, StillAdmits DEF vars, Holding
<1> QED
  BY <1>1, <1>2, <1>3, <1>4, <1>5, <1>6, <1>7, <1>8, <1>9 DEF Next

\* Of the calls made on a date one at most was counted on another.
LEMMA MadeOn ==
    ASSUME Inv, CountInv, Budget > 0, NEW d \in Nat
    PROVE  Cardinality(CallsOn(d)) <= Budget + 1
<1>1. /\ DOMAIN grants = 1..Len(grants) /\ Len(grants) \in Nat
      /\ \A i \in DOMAIN grants : grants[i].day \in Nat /\ Day(grants[i].at) \in Nat
  <2>1. TypeOK
    BY DEF Inv
  <2>2. grants \in Seq(Grant)
    BY <2>1 DEF TypeOK
  <2>3. \A i \in DOMAIN grants : grants[i].day \in Nat /\ grants[i].at \in Nat
    BY <2>1, HistoryType
  <2>4. \A i \in DOMAIN grants : Day(grants[i].at) \in Nat
    BY <2>3, DayType
  <2> QED
    BY <2>2, <2>3, <2>4
<1> DEFINE Late == CallsOn(d) \ CountedOn(d)
<1>2. ASSUME NEW i \in Late, NEW j \in Late
      PROVE  i = j
  <2>1. /\ i \in 1..Len(grants) /\ Day(grants[i].at) = d /\ grants[i].day # d
        /\ j \in 1..Len(grants) /\ Day(grants[j].at) = d /\ grants[j].day # d
    BY <1>1 DEF CallsOn, CountedOn
  <2>2. grants[i].day < d /\ grants[j].day < d
    BY <1>1, <2>1 DEF CountInv, Dated
  <2>3. ~ (i < j) /\ ~ (j < i)
    BY <1>1, <2>1, <2>2 DEF CountInv, Dated
  <2> QED
    BY <1>1, <2>1, <2>3
<1>3. IsFiniteSet(CountedOn(d)) /\ Cardinality(CountedOn(d)) \in Nat
      /\ Cardinality(CountedOn(d)) <= Budget
  BY CountedFinite DEF CountInv, Inv
<1>4. PICK i : CallsOn(d) \subseteq CountedOn(d) \cup {i}
  <2>1. CASE Late = {}
    BY <2>1
  <2>2. CASE Late # {}
    <3>1. PICK i \in Late : TRUE
      BY <2>2
    <3>2. Late \subseteq {i}
      BY <1>2, <3>1
    <3> QED
      BY <3>2
  <2> QED
    BY <2>1, <2>2
<1>5. /\ IsFiniteSet(CountedOn(d) \cup {i})
      /\ Cardinality(CountedOn(d) \cup {i}) <= Budget + 1
      /\ Cardinality(CountedOn(d) \cup {i}) \in Nat
  BY <1>3, OneMore
<1>6. Cardinality(CallsOn(d)) <= Cardinality(CountedOn(d) \cup {i})
      /\ Cardinality(CallsOn(d)) \in Nat
  <2> HIDE DEF CallsOn, CountedOn
  <2>1. CallsOn(d) \in SUBSET (CountedOn(d) \cup {i})
    BY <1>4
  <2> QED
    BY <1>5, <2>1, FS_Subset, FS_CardinalityType
<1> QED
  BY <1>5, <1>6

-----------------------------------------------------------------------------
(* The theorems *)

\* net_guard.py: the invariant, types included, of every state that acquire(),
\* block(), clear and a death at any point lead to.
THEOREM GuardInvariant == Spec => []Inv
BY InvInit, InvStep, PTL DEF Spec

\* acquire(): two calls saved on one date are at least the slower of the two
\* delays apart, however many processes wait, die or fail to save.
THEOREM PacedHolds == Spec => []Paced
<1>1. Inv => Paced
  BY DEF Inv
<1> QED
  BY <1>1, GuardInvariant, PTL

\* acquire(): a call let through on a state loaded on the date of the last
\* cooldown is not before that cooldown's end.
THEOREM CooldownKept == Spec => CooldownSameDay
<1>1. ASSUME Inv, NEW p \in Procs, Commit(p), cooling.day = mine[p].day
      PROVE  wake[p] >= cooling.until
  <2>1. Waits(p) /\ wake[p] \in Nat /\ mine[p] \in State /\ cooling.until \in Nat
    BY <1>1 DEF Inv, TypeOK, Commit, Holding
  <2> QED
    BY <1>1, <2>1 DEF Waits, Knows, State
<1>2. Inv /\ [Next]_vars =>
         [\A p \in Procs : Commit(p) /\ cooling.day = mine[p].day
              => wake[p] >= cooling.until]_vars
  BY <1>1
<1> QED
  BY <1>2, GuardInvariant, PTL DEF Spec, CooldownSameDay

\* load_state() and the state file: their records, the lock and the steps of every
\* process keep their types.
THEOREM TypesHold == Spec => []TypeOK
<1>1. Inv => TypeOK
  BY DEF Inv
<1> QED
  BY <1>1, GuardInvariant, PTL

\* acquire(): on no date are more calls saved than the budget and one, however many
\* processes sleep past midnight or die, and whatever the sleeps are.
THEOREM BudgetHolds == Spec => []BudgetAndOne
<1>1. Inv /\ CountInv => BudgetAndOne
  <2> SUFFICES ASSUME Inv, CountInv, Budget > 0, NEW i \in DOMAIN grants
               PROVE  Cardinality(CallsOn(Day(grants[i].at))) <= Budget + 1
    BY DEF BudgetAndOne
  <2>1. Day(grants[i].at) \in Nat
    BY HistoryType, DayType DEF Inv
  <2> QED
    BY <2>1, MadeOn
<1> QED
  BY <1>1, CountInit, CountStep, GuardInvariant, PTL DEF Spec
=============================================================================
