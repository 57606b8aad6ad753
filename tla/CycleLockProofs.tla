--------------------------- MODULE CycleLockProofs ---------------------------
(* One experiment at a time, and none that loses its container, for any       *)
(* number of processes and reboots, as long as a child's files are written    *)
(* before it looks at its guards.                                             *)
EXTENDS CycleLock, TLAPS

USE CycleAssumption DEF CycleAssumption, files, evening

-----------------------------------------------------------------------------
(* The inductive invariant *)

\* Nobody starts a run by hand, and each role's tick starts that role's runs.
TicksOnly ==
    /\ \A h \in Hands : starter[h].pc = "idle"
    /\ \A r \in Roles :
          /\ starter[r].role = r
          /\ starter[r].pc \in {"spawned", "settle"} =>
                /\ starter[r].child \in Pids /\ proc[starter[r].child].role = r
                /\ proc[starter[r].child].pc # "unborn"

\* A child that may yet run or, with the researcher, that may yet remove its
\* role's file, whoever the file names by then.
Active(p) ==
    \/ proc[p].pc \in {"born", "looked", "running", "leaving"}
    \/ proc[p].pc = "refused" /\ proc[p].role = "researcher"

Named(p) == pidfile[proc[p].role] = p /\ state[proc[p].role] = p

AwaitsFiles(p) ==
    starter[proc[p].role].pc = "spawned" /\ starter[proc[p].role].child = p

\* Both files name an active child, from the moment its parent writes them; ...
ActiveNamed ==
    \A p \in Pids : Active(p) =>
       \/ Named(p)
       \/ proc[p].pc \in {"born", "refused"} /\ AwaitsFiles(p)

\* ... a tick that starts a child starts its role's only one.
OneChild ==
    \A p \in Pids : Active(p) =>
       LET s == starter[proc[p].role]
       IN  s.pc # "checked" /\ (s.pc \in {"spawned", "settle"} => s.child = p)

\* Of two children, whatever their roles, one at most has got past its look at
\* the other's files.
Past(p) == proc[p].pc \in {"looked", "running"}
OnePast == \A p, q \in Pids : Past(p) /\ Past(q) => p = q

\* Once the pipeline has found no run in flight none comes up in its window.
NothingToTake ==
    /\ pipeline \in {"began", "spare", "recreate"} => window
    /\ pipeline = "recreate" => \A p \in Pids : ~Running(p)

Inv ==
    /\ TypeOK /\ TicksOnly /\ ActiveNamed /\ OneChild
    /\ OnePast /\ NothingToTake /\ NoneKilled

-----------------------------------------------------------------------------
(* What the steps do *)

Child1 == [role : Roles, pc : {"unborn", "born", "looked", "running",
                               "refused", "leaving", "dead"}]
Start1 == [role : Roles, child : Pids \cup {NoPid},
           pc : {"idle", "checked", "spawned", "settle"}]

Typed ==
    /\ pidfile \in [Roles -> Pids \cup {NoPid}]
    /\ state \in [Roles -> Pids \cup {NoPid}]
    /\ proc \in [Pids -> Child1]
    /\ starter \in [Starters -> Start1]
    /\ window \in BOOLEAN
    /\ pipeline \in {"idle", "began", "spare", "recreate", "up"}
    /\ killed \subseteq Pids
    /\ reboots \in 0..MaxReboots

LEMMA TypedIs == TypeOK <=> Typed
BY DEF TypeOK, Typed, Child1, Start1

LEMMA Types ==
    ASSUME TypeOK
    PROVE  /\ proc \in [Pids -> Child1] /\ starter \in [Starters -> Start1]
           /\ \A p \in Pids : proc[p] \in Child1
           /\ \A s \in Starters : starter[s] \in Start1
BY DEF TypeOK, Child1, Start1

\* Only p changes, and only its stage.
OthersStay(p) == \A q \in Pids : q # p => proc'[q] = proc[q]

LEMMA StageGives ==
    ASSUME TypeOK, NEW p \in Pids,
           NEW pc \in {"looked", "running", "refused", "leaving", "dead"}, Stage(p, pc)
    PROVE  /\ proc' \in [Pids -> Child1] /\ OthersStay(p)
           /\ proc'[p].pc = pc /\ proc'[p].role = proc[p].role
BY Types DEF Stage, Child1, OthersStay

LEMMA SpawnGives ==
    ASSUME TypeOK, TicksOnly, NEW s \in Starters, Spawn(s)
    PROVE  /\ s \in Roles /\ starter[s].pc = "checked" /\ starter[s].role = s
           /\ \E p \in Pids :
                 /\ proc[p].pc = "unborn"
                 /\ proc' \in [Pids -> Child1] /\ OthersStay(p)
                 /\ proc'[p].pc = "born" /\ proc'[p].role = s
                 /\ starter' \in [Starters -> Start1]
                 /\ \A t \in Starters : t # s => starter'[t] = starter[t]
                 /\ starter'[s].pc = "spawned" /\ starter'[s].child = p
                 /\ starter'[s].role = s
  <1>1. s \in Roles /\ starter[s].pc = "checked" /\ starter[s].role = s
    BY DEF Spawn, TicksOnly, Starters
  <1>2. PICK p \in Pids :
           /\ proc[p].pc = "unborn"
           /\ proc' = [proc EXCEPT ![p] = [role |-> starter[s].role, pc |-> "born"]]
           /\ starter' = [starter EXCEPT ![s].pc = "spawned", ![s].child = p]
    BY DEF Spawn
  <1>3. /\ proc' \in [Pids -> Child1] /\ OthersStay(p)
        /\ proc'[p].pc = "born" /\ proc'[p].role = s
    BY <1>1, <1>2, Types DEF Child1, OthersStay
  <1> DEFINE v == [starter[s] EXCEPT !.pc = "spawned"]
             w == [v EXCEPT !.child = p]
  <1>4. v \in Start1 /\ v.pc = "spawned" /\ v.role = s
    BY <1>1, Types DEF Start1
  <1>5. starter' = [starter EXCEPT ![s] = w]
    BY <1>2, Types
  <1> HIDE DEF v
  <1>6. w \in Start1 /\ w.pc = "spawned" /\ w.child = p /\ w.role = s
    BY <1>4 DEF Start1
  <1> HIDE DEF w
  <1>7. /\ starter' \in [Starters -> Start1]
        /\ \A t \in Starters : t # s => starter'[t] = starter[t]
        /\ starter'[s].pc = "spawned" /\ starter'[s].child = p /\ starter'[s].role = s
    BY <1>5, <1>6, Types
  <1> QED
    BY <1>1, <1>2, <1>3, <1>7

LEMMA WriteGives ==
    ASSUME TypeOK, TicksOnly, NEW s \in Starters, WriteFiles(s)
    PROVE  /\ s \in Roles /\ starter[s].pc = "spawned" /\ starter[s].role = s
           /\ starter[s].child \in Pids /\ proc[starter[s].child].role = s
           /\ pidfile'[s] = starter[s].child /\ state'[s] = starter[s].child
           /\ \A r \in Roles : r # s => pidfile'[r] = pidfile[r] /\ state'[r] = state[r]
           /\ pidfile' \in [Roles -> Pids \cup {NoPid}] /\ state' \in [Roles -> Pids \cup {NoPid}]
           /\ starter' \in [Starters -> Start1]
           /\ \A t \in Starters : t # s => starter'[t] = starter[t]
           /\ starter'[s].pc = "settle" /\ starter'[s].child = starter[s].child
           /\ starter'[s].role = s
  <1>1. s \in Roles /\ starter[s].pc = "spawned" /\ starter[s].role = s
    BY DEF WriteFiles, TicksOnly, Starters
  <1>2. starter[s].child \in Pids /\ proc[starter[s].child].role = s
    BY <1>1 DEF TicksOnly
  <1>3. starter[s] \in Start1
    BY Types
  <1> DEFINE w == [starter[s] EXCEPT !.pc = "settle"]
  <1>4. starter' = [starter EXCEPT ![s] = w]
    BY DEF WriteFiles
  <1>5. w \in Start1 /\ w.pc = "settle" /\ w.child = starter[s].child /\ w.role = s
    BY <1>1, <1>3 DEF Start1
  <1> HIDE DEF w
  <1>6. /\ starter' \in [Starters -> Start1]
        /\ \A t \in Starters : t # s => starter'[t] = starter[t]
        /\ starter'[s].pc = "settle" /\ starter'[s].child = starter[s].child
        /\ starter'[s].role = s
    BY <1>4, <1>5, Types
  <1>7. /\ pidfile'[s] = starter[s].child /\ state'[s] = starter[s].child
        /\ \A r \in Roles : r # s => pidfile'[r] = pidfile[r] /\ state'[r] = state[r]
        /\ pidfile' \in [Roles -> Pids \cup {NoPid}] /\ state' \in [Roles -> Pids \cup {NoPid}]
    BY <1>1, <1>2 DEF WriteFiles, TypeOK
  <1> QED
    BY <1>1, <1>2, <1>6, <1>7

\* Its files are removed when its child has ended, and stay otherwise.
LEMMA SettleGives ==
    ASSUME TypeOK, TicksOnly, NEW s \in Starters, Settle(s)
    PROVE  /\ s \in Roles /\ starter[s].pc = "settle" /\ starter[s].child \in Pids
           /\ proc[starter[s].child].role = s
           /\ \/ ~Active(starter[s].child)
              \/ pidfile'[s] = pidfile[s] /\ state'[s] = state[s]
           /\ \A r \in Roles : r # s => pidfile'[r] = pidfile[r] /\ state'[r] = state[r]
           /\ pidfile' \in [Roles -> Pids \cup {NoPid}] /\ state' \in [Roles -> Pids \cup {NoPid}]
           /\ starter' \in [Starters -> Start1]
           /\ \A t \in Starters : t # s => starter'[t] = starter[t]
           /\ starter'[s].pc = "idle" /\ starter'[s].role = s
  <1>1. s \in Roles /\ starter[s].pc = "settle" /\ starter[s].role = s
    BY DEF Settle, TicksOnly, Starters
  <1>2. starter[s].child \in Pids /\ proc[starter[s].child].role = s
    BY <1>1 DEF TicksOnly
  <1> DEFINE child == proc[starter[s].child].pc
             gone == child = "dead" \/ (s = "engineer" /\ child = "refused")
  <1>3. gone => ~Active(starter[s].child)
    BY <1>2 DEF Active
  <1>4. /\ pidfile' = [pidfile EXCEPT ![s] = IF gone THEN NoPid ELSE @]
        /\ state' = [state EXCEPT ![s] = IF gone THEN NoPid ELSE @]
        /\ starter' = [starter EXCEPT ![s] = Free(s)]
    BY <1>1 DEF Settle
  <1> HIDE DEF gone
  <1>5. /\ ~gone => pidfile'[s] = pidfile[s] /\ state'[s] = state[s]
        /\ \A r \in Roles : r # s => pidfile'[r] = pidfile[r] /\ state'[r] = state[r]
        /\ pidfile' \in [Roles -> Pids \cup {NoPid}] /\ state' \in [Roles -> Pids \cup {NoPid}]
    BY <1>1, <1>4 DEF TypeOK
  <1>6. Free(s) \in Start1 /\ Free(s).pc = "idle" /\ Free(s).role = s
    BY <1>1 DEF Free, Start1
  <1>7. /\ starter' \in [Starters -> Start1]
        /\ \A t \in Starters : t # s => starter'[t] = starter[t]
        /\ starter'[s].pc = "idle" /\ starter'[s].role = s
    BY <1>4, <1>6, Types
  <1> QED
    BY <1>1, <1>2, <1>3, <1>5, <1>7

LEMMA TickGives ==
    ASSUME TypeOK, NEW r \in Roles, TickStart(r)
    PROVE  /\ starter' \in [Starters -> Start1]
           /\ \A t \in Starters : t # r => starter'[t] = starter[t]
           /\ starter'[r].pc = "checked" /\ starter'[r].role = starter[r].role
           /\ starter[r].pc = "idle"
           /\ \A q \in Roles : q # r => pidfile'[q] = pidfile[q]
           /\ pidfile' \in [Roles -> Pids \cup {NoPid}]
BY Types DEF TickStart, Starters, Start1, TypeOK

LEMMA RebootGives ==
    ASSUME TypeOK, Reboot
    PROVE  /\ proc' \in [Pids -> Child1]
           /\ \A p \in Pids : /\ proc'[p].pc \in {"unborn", "dead"}
                              /\ proc'[p].role = proc[p].role
           /\ starter' \in [Starters -> Start1]
           /\ \A s \in Starters : starter'[s].pc = "idle" /\ starter'[s].role = starter[s].role
BY Types DEF Reboot, Alive, Free, Child1, Start1

LEMMA ComposeGives ==
    ASSUME TypeOK, ComposeUp
    PROVE  /\ proc' \in [Pids -> Child1]
           /\ \A p \in Pids :
                 /\ proc'[p].role = proc[p].role
                 /\ \/ proc'[p] = proc[p]
                    \/ /\ pipeline = "recreate" /\ proc[p].pc = "running"
                       /\ proc'[p].pc = "leaving"
BY Types DEF ComposeUp, Child1

\* A child that leaves removes its own name only, unless it is a researcher's.
LEMMA LeaveGives ==
    ASSUME TypeOK, NEW p \in Pids, Leave(p)
    PROVE  /\ proc[p].pc \in {"refused", "leaving"}
           /\ proc' \in [Pids -> Child1] /\ OthersStay(p)
           /\ proc'[p].pc = "dead" /\ proc'[p].role = proc[p].role
           /\ pidfile' \in [Roles -> Pids \cup {NoPid}] /\ state' \in [Roles -> Pids \cup {NoPid}]
           /\ \A r \in Roles :
                 \/ pidfile'[r] = pidfile[r] /\ state'[r] = state[r]
                 \/ r = proc[p].role /\ (r = "researcher" \/ pidfile[r] = p \/ state[r] = p)
  <1>1. Stage(p, "dead") /\ proc[p].pc \in {"refused", "leaving"}
    BY DEF Leave
  <1>2. /\ proc' \in [Pids -> Child1] /\ OthersStay(p)
        /\ proc'[p].pc = "dead" /\ proc'[p].role = proc[p].role
    BY <1>1, StageGives
  <1>3. proc[p].role \in Roles
    BY Types DEF Child1
  <1>4. CASE proc[p].role = "engineer"
    <2>1. /\ pidfile' = [pidfile EXCEPT !["engineer"] = IF @ = p THEN NoPid ELSE @]
          /\ state' = [state EXCEPT !["engineer"] = IF @ = p THEN NoPid ELSE @]
      BY <1>4 DEF Leave
    <2> QED
      BY <1>1, <1>2, <1>4, <2>1 DEF TypeOK, Roles
  <1>5. CASE proc[p].role = "researcher"
    <2>1. pidfile' = [pidfile EXCEPT !["researcher"] = NoPid] /\ state' = state
      BY <1>5 DEF Leave
    <2> QED
      BY <1>1, <1>2, <1>5, <2>1 DEF TypeOK, Roles
  <1> QED
    BY <1>3, <1>4, <1>5 DEF Roles

-----------------------------------------------------------------------------
(* One step, conjunct by conjunct *)

LEMMA TypeStep ==
    ASSUME TypeOK, TicksOnly, Next
    PROVE  TypeOK'
  <1>0. Typed
    BY TypedIs
  <1>1. ASSUME TickReap PROVE Typed'
    BY <1>0, <1>1 DEF TickReap, Typed, Roles
  <1>2. ASSUME Reboot PROVE Typed'
    BY <1>0, <1>2, RebootGives DEF Reboot, Typed
  <1>3. ASSUME PipelineStart \/ PipelineLook \/ WindowEnds PROVE Typed'
    BY <1>0, <1>3 DEF PipelineStart, PipelineLook, WindowEnds, Typed
  <1>4. ASSUME ComposeUp PROVE Typed'
    BY <1>0, <1>4, ComposeGives DEF ComposeUp, Typed
  <1>5. ASSUME NEW r \in Roles, TickStart(r) PROVE Typed'
    BY <1>0, <1>5, TickGives DEF TickStart, Typed
  <1>6. ASSUME NEW s \in Starters, Spawn(s) PROVE Typed'
    BY <1>0, <1>6, SpawnGives DEF Spawn, Typed
  <1>7. ASSUME NEW s \in Starters, WriteFiles(s) PROVE Typed'
    BY <1>0, <1>7, WriteGives DEF WriteFiles, Typed
  <1>8. ASSUME NEW s \in Starters, Settle(s) PROVE Typed'
    BY <1>0, <1>8, SettleGives DEF Settle, Typed
  <1>9. ASSUME NEW p \in Pids, Leave(p) PROVE Typed'
    BY <1>0, <1>9, LeaveGives DEF Leave, Typed
  <1>10. ASSUME NEW p \in Pids, Look(p) \/ Go(p) \/ Refuse(p) \/ Finish(p) \/ Die(p)
         PROVE  Typed'
    BY <1>0, <1>10, StageGives DEF Look, Go, Refuse, Finish, Die, Typed
  <1>11. Typed'
    BY <1>1, <1>2, <1>3, <1>4, <1>5, <1>6, <1>7, <1>8, <1>9, <1>10
    DEF Next, Evening, Starting, Child
  <1> QED
    BY <1>11, TypedIs, PTL

KeepsRole(p) ==
    /\ proc'[p].role = proc[p].role
    /\ proc[p].pc # "unborn" => proc'[p].pc # "unborn"

\* The steps of the children and of the pipeline leave the ticks alone, and
\* turn no child into another role's.
LEMMA TicksStep ==
    ASSUME TypeOK, TicksOnly, Next
    PROVE  TicksOnly'
  <1> USE DEF Starters
  <1>0. \A h \in Hands : h \notin Roles
    OBVIOUS
  <1>1. CASE UNCHANGED starter /\ \A p \in Pids : KeepsRole(p)
    BY <1>1 DEF TicksOnly, KeepsRole
  <1>2. CASE Reboot
    BY <1>2, RebootGives DEF TicksOnly
  <1>3. ASSUME NEW r \in Roles, TickStart(r) PROVE TicksOnly'
    BY <1>0, <1>3, TickGives DEF TickStart, TicksOnly
  <1>4. ASSUME NEW s \in Starters, Spawn(s) PROVE TicksOnly'
    <2>1. s \in Roles
      BY <1>4, SpawnGives
    <2>2. PICK p \in Pids :
             /\ proc[p].pc = "unborn" /\ OthersStay(p)
             /\ proc'[p].pc = "born" /\ proc'[p].role = s
             /\ \A t \in Starters : t # s => starter'[t] = starter[t]
             /\ starter'[s].pc = "spawned" /\ starter'[s].child = p /\ starter'[s].role = s
      BY <1>4, SpawnGives
    <2>3. \A h \in Hands : starter'[h].pc = "idle"
      BY <1>0, <2>1, <2>2 DEF TicksOnly
    <2>4. \A q \in Pids : proc[q].pc # "unborn" => proc'[q] = proc[q]
      BY <2>2 DEF OthersStay
    <2>5. ASSUME NEW r \in Roles, r # s
          PROVE  /\ starter'[r].role = r
                 /\ starter'[r].pc \in {"spawned", "settle"} =>
                       /\ starter'[r].child \in Pids /\ proc'[starter'[r].child].role = r
                       /\ proc'[starter'[r].child].pc # "unborn"
      BY <2>2, <2>4, <2>5 DEF TicksOnly
    <2> QED
      BY <2>1, <2>2, <2>3, <2>5 DEF TicksOnly
  <1>5. ASSUME NEW s \in Starters, WriteFiles(s) PROVE TicksOnly'
    BY <1>0, <1>5, WriteGives DEF WriteFiles, TicksOnly
  <1>6. ASSUME NEW s \in Starters, Settle(s) PROVE TicksOnly'
    <2>1. UNCHANGED proc
      BY <1>6 DEF Settle
    <2>2. /\ s \in Roles /\ \A t \in Starters : t # s => starter'[t] = starter[t]
          /\ starter'[s].pc = "idle" /\ starter'[s].role = s
      BY <1>6, SettleGives
    <2> QED
      BY <1>0, <2>1, <2>2 DEF TicksOnly
  <1>7. ASSUME NEW p \in Pids, Child(p) \/ Die(p)
        PROVE  UNCHANGED starter /\ \A q \in Pids : KeepsRole(q)
    <2>1. UNCHANGED starter
      BY <1>7 DEF Child, Look, Go, Refuse, Finish, Leave, Die
    <2>2. CASE Leave(p)
      <3>1. proc'[p].pc = "dead" /\ proc'[p].role = proc[p].role /\ OthersStay(p)
        BY <2>2, LeaveGives
      <3> QED
        BY <2>1, <3>1 DEF OthersStay, KeepsRole
    <2>3. CASE Look(p) \/ Go(p) \/ Refuse(p) \/ Finish(p) \/ Die(p)
      BY <2>3, StageGives DEF Look, Go, Refuse, Finish, Die, OthersStay, KeepsRole
    <2> QED
      BY <1>7, <2>1, <2>2, <2>3 DEF Child
  <1>8. CASE TickReap \/ Evening
    <2>1. CASE ComposeUp
      BY <1>1, <2>1, ComposeGives DEF ComposeUp, KeepsRole
    <2>2. CASE TickReap \/ PipelineStart \/ PipelineLook \/ WindowEnds
      BY <1>1, <2>2 DEF TickReap, PipelineStart, PipelineLook, WindowEnds, KeepsRole
    <2> QED
      BY <1>8, <2>1, <2>2 DEF Evening
  <1> QED
    BY <1>1, <1>2, <1>3, <1>4, <1>5, <1>6, <1>7, <1>8 DEF Next, Starting

\* A process that is named and alive stops its role's ticks and its peer's
\* children.
LEMMA NamedSeen ==
    ASSUME TypeOK, NEW p \in Pids, Active(p), Named(p)
    PROVE  /\ OwnRunning(proc[p].role, NoPid)
           /\ \A q \in Pids : proc[q].role # proc[p].role => PeerRunning(proc[q].role, q)
           /\ \A q \in Pids : q # p /\ proc[q].role = proc[p].role =>
                                 OwnRunning(proc[p].role, q)
  <1>1. Alive(p) /\ p # NoPid
    BY DEF Active, Alive
  <1>2. proc[p].role \in Roles /\ \A q \in Pids : proc[q].role \in Roles
    BY Types DEF Child1
  <1>3. ASSUME NEW q \in Pids, proc[q].role # proc[p].role
        PROVE  PeerRunning(proc[q].role, q)
    <2>1. Peer(proc[q].role) = proc[p].role
      BY <1>2, <1>3 DEF Peer, Roles
    <2>2. p # q
      BY <1>3
    <2> QED
      BY <1>1, <2>1, <2>2 DEF PeerRunning, Named
  <1> QED
    BY <1>1, <1>3 DEF OwnRunning, Named

\* The two conjuncts about active children, process by process.
ChildKnown(p) ==
    Active(p) =>
       /\ \/ Named(p)
          \/ proc[p].pc \in {"born", "refused"} /\ AwaitsFiles(p)
       /\ LET s == starter[proc[p].role]
          IN  s.pc # "checked" /\ (s.pc \in {"spawned", "settle"} => s.child = p)

Known == \A p \in Pids : ChildKnown(p)

LEMMA KnownIs == ActiveNamed /\ OneChild <=> Known
BY DEF ActiveNamed, OneChild, Known, ChildKnown

LEMMA KnownStep ==
    ASSUME TypeOK, TicksOnly, Known, ~Overtaking, Next
    PROVE  Known'
  <1> USE DEF Starters
  <1>0. \A p \in Pids : proc[p] \in Child1 /\ proc[p].role \in Roles
    BY Types DEF Child1
  <1>1. CASE UNCHANGED <<proc, starter, pidfile, state>>
    BY <1>1 DEF Known, ChildKnown, Active, Named, AwaitsFiles
  <1>2. CASE TickReap
    <2>1. ~OwnRunning("engineer", NoPid) /\ UNCHANGED <<state, proc, starter>>
      BY <1>2 DEF TickReap
    <2>2. pidfile'["researcher"] = pidfile["researcher"]
      BY <1>2 DEF TickReap, TypeOK, Roles
    <2>3. ASSUME NEW p \in Pids PROVE ChildKnown(p)'
      <3>1. Active(p) /\ Named(p) => proc[p].role = "researcher"
        BY <1>0, <2>1, NamedSeen DEF Roles
      <3> QED
        BY <2>1, <2>2, <3>1 DEF Known, ChildKnown, Active, Named, AwaitsFiles
    <2> QED
      BY <2>3 DEF Known
  <1>3. CASE Reboot
    BY <1>3, RebootGives DEF Known, ChildKnown, Active
  <1>4. CASE ComposeUp
    <2>1. UNCHANGED <<starter, pidfile, state>>
      BY <1>4 DEF ComposeUp
    <2>2. ASSUME NEW p \in Pids PROVE ChildKnown(p)'
      BY <1>4, <2>1, ComposeGives DEF Known, ChildKnown, Active, Named, AwaitsFiles
    <2> QED
      BY <2>2 DEF Known
  <1>5. ASSUME NEW r \in Roles, TickStart(r) PROVE Known'
    <2>1. ~OwnRunning(r, NoPid) /\ UNCHANGED <<state, proc>>
      BY <1>5 DEF TickStart
    <2>2. /\ \A t \in Starters : t # r => starter'[t] = starter[t]
          /\ starter[r].pc = "idle"
          /\ \A q \in Roles : q # r => pidfile'[q] = pidfile[q]
      BY <1>5, TickGives
    <2>3. ASSUME NEW p \in Pids PROVE ChildKnown(p)'
      <3>1. Active(p) /\ Named(p) => proc[p].role # r
        BY <2>1, NamedSeen
      <3>2. Active(p) => proc[p].role # r
        BY <2>2, <3>1 DEF Known, ChildKnown, AwaitsFiles
      <3> QED
        BY <1>0, <2>1, <2>2, <3>2 DEF Known, ChildKnown, Active, Named, AwaitsFiles
    <2> QED
      BY <2>3 DEF Known
  <1>6. ASSUME NEW s \in Starters, Spawn(s) PROVE Known'
    <2>1. s \in Roles /\ starter[s].pc = "checked" /\ UNCHANGED <<pidfile, state>>
      BY <1>6, SpawnGives DEF Spawn
    <2>2. PICK p \in Pids :
             /\ proc[p].pc = "unborn" /\ OthersStay(p)
             /\ proc'[p].pc = "born" /\ proc'[p].role = s
             /\ \A t \in Starters : t # s => starter'[t] = starter[t]
             /\ starter'[s].pc = "spawned" /\ starter'[s].child = p
      BY <1>6, SpawnGives
    <2>3. ChildKnown(p)'
      BY <2>2 DEF ChildKnown, AwaitsFiles
    <2>4. ASSUME NEW q \in Pids, q # p PROVE ChildKnown(q)'
      <3>1. proc'[q] = proc[q]
        BY <2>2, <2>4 DEF OthersStay
      <3>2. Active(q) => proc[q].role # s
        BY <2>1 DEF Known, ChildKnown
      <3> QED
        BY <1>0, <2>1, <2>2, <3>1, <3>2 DEF Known, ChildKnown, Active, Named, AwaitsFiles
    <2> QED
      BY <2>3, <2>4 DEF Known
  <1>7. ASSUME NEW s \in Starters, WriteFiles(s) PROVE Known'
    <2>1. /\ s \in Roles /\ starter[s].pc = "spawned"
          /\ pidfile'[s] = starter[s].child /\ state'[s] = starter[s].child
          /\ \A r \in Roles : r # s => pidfile'[r] = pidfile[r] /\ state'[r] = state[r]
          /\ \A t \in Starters : t # s => starter'[t] = starter[t]
          /\ starter'[s].pc = "settle" /\ starter'[s].child = starter[s].child
      BY <1>7, WriteGives
    <2>2. UNCHANGED proc
      BY <1>7 DEF WriteFiles
    <2>3. ASSUME NEW p \in Pids PROVE ChildKnown(p)'
      <3>1. CASE proc[p].role = s
        BY <2>1, <2>2, <3>1 DEF Known, ChildKnown, Active, Named
      <3>2. CASE proc[p].role # s
        BY <1>0, <2>1, <2>2, <3>2 DEF Known, ChildKnown, Active, Named, AwaitsFiles
      <3> QED
        BY <3>1, <3>2
    <2> QED
      BY <2>3 DEF Known
  <1>8. ASSUME NEW s \in Starters, Settle(s) PROVE Known'
    <2>1. /\ s \in Roles /\ starter[s].pc = "settle"
          /\ \/ ~Active(starter[s].child)
             \/ pidfile'[s] = pidfile[s] /\ state'[s] = state[s]
          /\ \A r \in Roles : r # s => pidfile'[r] = pidfile[r] /\ state'[r] = state[r]
          /\ \A t \in Starters : t # s => starter'[t] = starter[t]
          /\ starter'[s].pc = "idle"
      BY <1>8, SettleGives
    <2>2. UNCHANGED proc
      BY <1>8 DEF Settle
    <2>3. ASSUME NEW p \in Pids PROVE ChildKnown(p)'
      <3>1. CASE proc[p].role = s
        <4>1. Active(p) => starter[s].child = p /\ Named(p)
          BY <2>1, <3>1 DEF Known, ChildKnown, AwaitsFiles
        <4> QED
          BY <2>1, <2>2, <3>1, <4>1 DEF ChildKnown, Active, Named
      <3>2. CASE proc[p].role # s
        BY <1>0, <2>1, <2>2, <3>2 DEF Known, ChildKnown, Active, Named, AwaitsFiles
      <3> QED
        BY <3>1, <3>2
    <2> QED
      BY <2>3 DEF Known
  <1>9. ASSUME NEW p \in Pids, Leave(p) PROVE Known'
    <2>1. /\ OthersStay(p) /\ proc[p].pc \in {"refused", "leaving"} /\ proc'[p].pc = "dead"
          /\ \A r \in Roles :
                \/ pidfile'[r] = pidfile[r] /\ state'[r] = state[r]
                \/ r = proc[p].role /\ (r = "researcher" \/ pidfile[r] = p \/ state[r] = p)
      BY <1>9, LeaveGives
    <2>2. UNCHANGED starter
      BY <1>9 DEF Leave
    <2>3. ASSUME NEW q \in Pids, q # p, Active(q) PROVE ChildKnown(q)'
      <3>1. proc'[q] = proc[q]
        BY <2>1, <2>3 DEF OthersStay
      <3>2. ~(proc[q].role = proc[p].role /\ Active(p))
        BY <2>3 DEF Known, ChildKnown, Named, AwaitsFiles
      <3>3. Named(q) => Named(q)'
        <4>1. CASE proc[q].role # proc[p].role
          BY <1>0, <2>1, <3>1, <4>1 DEF Named
        <4>2. CASE proc[q].role = proc[p].role /\ Named(q)
          <5>1. ~Active(p)
            BY <3>2, <4>2
          <5>2. proc[q].role = "engineer"
            BY <1>0, <2>1, <4>2, <5>1 DEF Active, Roles
          <5> QED
            BY <2>1, <2>3, <3>1, <4>2, <5>2 DEF Named, Roles
        <4> QED
          BY <4>1, <4>2
      <3> QED
        BY <2>2, <2>3, <3>1, <3>3 DEF Known, ChildKnown, Active, AwaitsFiles
    <2>4. ASSUME NEW q \in Pids PROVE ChildKnown(q)'
      <3>1. CASE q = p
        BY <2>1, <3>1 DEF ChildKnown, Active
      <3>2. CASE q # p /\ ~Active(q)
        BY <2>1, <3>2 DEF ChildKnown, Active, OthersStay
      <3> QED
        BY <2>3, <3>1, <3>2
    <2> QED
      BY <2>4 DEF Known
  <1>10. ASSUME NEW p \in Pids, Look(p) \/ Go(p) \/ Refuse(p) \/ Finish(p) \/ Die(p)
         PROVE  Known'
    <2>1. UNCHANGED <<pidfile, state, starter>>
      BY <1>10 DEF Look, Go, Refuse, Finish, Die
    <2>2. /\ OthersStay(p) /\ proc'[p].role = proc[p].role
          /\ \/ Look(p) /\ proc'[p].pc = "looked"
             \/ proc[p].pc \in {"looked", "running"} /\ proc'[p].pc \in {"running", "leaving"}
             \/ proc[p].pc \in {"born", "looked"} /\ proc'[p].pc = "refused"
             \/ proc'[p].pc = "dead"
      BY <1>10, StageGives DEF Look, Go, Refuse, Finish, Die
    <2>3. Look(p) => proc[p].pc = "born" /\ ~AwaitsFiles(p)
      BY <1>0 DEF Look, Written, AwaitsFiles
    <2>4. ASSUME NEW q \in Pids PROVE ChildKnown(q)'
      <3>1. CASE q = p
        BY <2>1, <2>2, <2>3, <3>1 DEF Known, ChildKnown, Active, Named, AwaitsFiles
      <3>2. CASE q # p
        BY <2>1, <2>2, <3>2 DEF Known, ChildKnown, Active, Named, AwaitsFiles, OthersStay
      <3> QED
        BY <3>1, <3>2
    <2> QED
      BY <2>4 DEF Known
  <1>11. CASE PipelineStart \/ PipelineLook \/ WindowEnds
    BY <1>1, <1>11 DEF PipelineStart, PipelineLook, WindowEnds
  <1> QED
    BY <1>2, <1>3, <1>4, <1>5, <1>6, <1>7, <1>8, <1>9, <1>10, <1>11
    DEF Next, Evening, Starting, Child

LEMMA PastNamed ==
    ASSUME Known, NEW p \in Pids, Past(p)
    PROVE  Active(p) /\ Named(p) /\ Alive(p)
BY DEF Known, ChildKnown, Past, Active, Alive

\* Only Look takes a child past its look, and only Go makes one run.
LEMMA StagesStep ==
    ASSUME TypeOK, TicksOnly, Next, NEW p \in Pids
    PROVE  /\ ~Past(p) /\ Past(p)' => Look(p) /\ OthersStay(p)
           /\ ~Running(p) /\ Running(p)' => ~window /\ UNCHANGED pipeline
  <1>1. CASE UNCHANGED proc
    <2>1. (Past(p)' <=> Past(p)) /\ (Running(p)' <=> Running(p))
      BY <1>1 DEF Past, Running
    <2> QED
      BY <2>1
  <1>2. CASE Reboot
    <2>1. ~Past(p)' /\ ~Running(p)'
      BY <1>2, RebootGives DEF Past, Running
    <2> QED
      BY <2>1
  <1>3. CASE ComposeUp
    <2>1. (Past(p)' => Past(p)) /\ (Running(p)' => Running(p))
      BY <1>3, ComposeGives DEF Past, Running
    <2> QED
      BY <2>1
  <1>4. CASE \E s \in Starters : Spawn(s)
    <2>1. PICK q \in Pids : OthersStay(q) /\ proc'[q].pc = "born"
      BY <1>4, SpawnGives
    <2>2. (Past(p)' => Past(p)) /\ (Running(p)' => Running(p))
      BY <2>1 DEF OthersStay, Past, Running
    <2> QED
      BY <2>2
  <1>5. CASE \E q \in Pids : Refuse(q) \/ Finish(q) \/ Leave(q) \/ Die(q)
    <2>1. PICK q \in Pids : OthersStay(q) /\ proc'[q].pc \in {"refused", "leaving", "dead"}
      BY <1>5, StageGives DEF Refuse, Finish, Leave, Die
    <2>2. (Past(p)' => Past(p)) /\ (Running(p)' => Running(p))
      BY <2>1 DEF OthersStay, Past, Running
    <2> QED
      BY <2>2
  <1>6. CASE \E q \in Pids : Look(q)
    <2>1. PICK q \in Pids : Look(q)
      BY <1>6
    <2>2. OthersStay(q) /\ proc'[q].pc = "looked"
      BY <2>1, StageGives DEF Look
    <2>3. (p # q => (Past(p)' <=> Past(p))) /\ (Running(p)' => Running(p))
      BY <2>2 DEF OthersStay, Past, Running
    <2> QED
      BY <2>1, <2>2, <2>3
  <1>7. CASE \E q \in Pids : Go(q)
    <2>1. PICK q \in Pids : Go(q)
      BY <1>7
    <2>2. OthersStay(q) /\ proc[q].pc = "looked" /\ ~window /\ UNCHANGED pipeline
      BY <2>1, StageGives DEF Go
    <2>3. Past(p)' => Past(p)
      BY <2>2 DEF OthersStay, Past
    <2> QED
      BY <2>2, <2>3
  <1>8. \/ UNCHANGED proc \/ Reboot \/ ComposeUp
        \/ \E s \in Starters : Spawn(s)
        \/ \E q \in Pids : Refuse(q) \/ Finish(q) \/ Leave(q) \/ Die(q)
        \/ \E q \in Pids : Look(q)
        \/ \E q \in Pids : Go(q)
    BY DEF Next, Evening, Starting, Child, TickReap, TickStart, WriteFiles, Settle,
       PipelineStart, PipelineLook, WindowEnds
  <1> QED
    BY <1>1, <1>2, <1>3, <1>4, <1>5, <1>6, <1>7, <1>8

LEMMA PastStep ==
    ASSUME TypeOK, TicksOnly, Known, OnePast, Next
    PROVE  OnePast'
  <1>1. ASSUME NEW p \in Pids, Look(p), NEW q \in Pids, q # p PROVE ~Past(q)
    <2>1. ~OwnRunning(proc[p].role, p) /\ ~PeerRunning(proc[p].role, p)
      BY <1>1 DEF Look
    <2> QED
      BY <1>1, <2>1, PastNamed, NamedSeen
  <1>2. ASSUME NEW p \in Pids, NEW q \in Pids, Past(p)', Past(q)', p # q PROVE FALSE
    <2>1. Past(p) \/ (Look(p) /\ OthersStay(p))
      BY <1>2, StagesStep
    <2>2. Past(q) \/ (Look(q) /\ OthersStay(q))
      BY <1>2, StagesStep
    <2>3. CASE Past(p) /\ Past(q)
      BY <1>2, <2>3 DEF OnePast
    <2>4. CASE Look(p) /\ OthersStay(p)
      BY <1>1, <1>2, <2>4 DEF OthersStay, Past
    <2>5. CASE Look(q) /\ OthersStay(q)
      BY <1>1, <1>2, <2>5 DEF OthersStay, Past
    <2> QED
      BY <2>1, <2>2, <2>3, <2>4, <2>5
  <1> QED
    BY <1>2 DEF OnePast

LEMMA EveningStep ==
    ASSUME TypeOK, TicksOnly, Known, NothingToTake, NoneKilled, Next
    PROVE  NothingToTake' /\ NoneKilled'
  <1>1. \A p \in Pids : ~Running(p) /\ Running(p)' => ~window /\ UNCHANGED pipeline
    BY StagesStep
  <1>2. CASE UNCHANGED <<window, pipeline, killed>>
    BY <1>1, <1>2 DEF NothingToTake, NoneKilled
  <1>3. CASE PipelineStart \/ WindowEnds
    BY <1>3 DEF PipelineStart, WindowEnds, NothingToTake, NoneKilled
  <1>4. CASE PipelineLook
    <2>1. /\ pipeline = "began" /\ UNCHANGED <<proc, window, killed>>
          /\ pipeline' = "recreate" => \A r \in Roles : ~Alive(pidfile[r])
          /\ pipeline' \in {"spare", "recreate"}
      BY <1>4 DEF PipelineLook
    <2>2. ASSUME NEW p \in Pids, Running(p) PROVE \E r \in Roles : Alive(pidfile[r])
      <3>1. Past(p)
        BY <2>2 DEF Past, Running
      <3> QED
        BY <3>1, PastNamed, Types DEF Named, Child1
    <2> QED
      BY <2>1, <2>2 DEF NothingToTake, NoneKilled, Running
  <1>5. CASE ComposeUp
    <2>1. \A p \in Pids : ~(pipeline = "recreate" /\ proc[p].pc = "running")
      BY DEF NothingToTake, Running
    <2> QED
      BY <1>5, <2>1 DEF ComposeUp, NothingToTake, NoneKilled
  <1>6. CASE Reboot
    BY <1>6 DEF Reboot, NothingToTake, NoneKilled
  <1> QED
    BY <1>2, <1>3, <1>4, <1>5, <1>6
    DEF Next, Evening, Starting, Child, TickReap, TickStart, Spawn, WriteFiles, Settle,
        Look, Go, Refuse, Finish, Leave, Die

-----------------------------------------------------------------------------
(* The theorems *)

LEMMA InvInit == Init => Inv
  <1> SUFFICES ASSUME Init PROVE Inv
    OBVIOUS
  <1>1. \A p \in Pids : proc[p].pc = "unborn"
    BY DEF Init
  <1>2. \A s \in Starters : /\ starter[s] \in Start1 /\ starter[s].pc = "idle"
                            /\ s \in Roles => starter[s].role = s
    BY DEF Init, Free, Start1, Roles
  <1>3. Typed
    <2>1. proc \in [Pids -> Child1]
      BY DEF Init, Child1, Roles
    <2>2. starter \in [Starters -> Start1]
      BY <1>2 DEF Init
    <2>3. 0 \in 0..MaxReboots
      OBVIOUS
    <2> QED
      BY <2>1, <2>2, <2>3 DEF Init, Typed
  <1>4. TicksOnly
    BY <1>2 DEF TicksOnly, Starters
  <1>5. ActiveNamed /\ OneChild /\ OnePast
    BY <1>1 DEF ActiveNamed, OneChild, OnePast, Active, Past
  <1>6. NothingToTake /\ NoneKilled
    BY DEF Init, NothingToTake, NoneKilled
  <1> QED
    BY <1>3, <1>4, <1>5, <1>6, TypedIs DEF Inv

LEMMA InvStep == ASSUME ~Overtaking PROVE Inv /\ [Next]_vars => Inv'
  <1> SUFFICES ASSUME Inv, [Next]_vars PROVE Inv'
    OBVIOUS
  <1>1. CASE Next
    <2>1. Known
      BY KnownIs DEF Inv
    <2>2. TypeOK' /\ TicksOnly' /\ Known' /\ OnePast' /\ NothingToTake' /\ NoneKilled'
      BY <1>1, <2>1, TypeStep, TicksStep, KnownStep, PastStep, EveningStep DEF Inv
    <2>3. ActiveNamed' /\ OneChild'
      BY <2>2, KnownIs, PTL
    <2> QED
      BY <2>2, <2>3 DEF Inv
  <1>2. CASE UNCHANGED vars
    BY <1>2 DEF vars, Inv, TypeOK, TicksOnly, ActiveNamed, OneChild, Active, Named, AwaitsFiles,
       OnePast, Past, NothingToTake, Running, NoneKilled
  <1> QED
    BY <1>1, <1>2

LEMMA Invariant == ASSUME ~Overtaking PROVE Spec => []Inv
BY InvInit, InvStep, PTL DEF Spec

\* For any number of processes, ticks, deaths and reboots, one experiment runs at
\* most, over both roles, as long as nobody starts one by hand and a child's files
\* are there before it looks (running_pid and peer_running, called by guards).
THEOREM OneExperimentHolds == ASSUME ~Overtaking PROVE Spec => []OneExperiment
  <1>1. Inv => OneExperiment
    BY DEF Inv, OnePast, OneExperiment, Past, Running
  <1> QED
    BY <1>1, Invariant, PTL

\* Under the same conditions the evening pipeline never recreates the container
\* under an experiment (full_pipeline_dd.sh, in_recreate_window).
THEOREM NoneKilledHolds == ASSUME ~Overtaking PROVE Spec => []NoneKilled
  <1>1. Inv => NoneKilled
    BY DEF Inv
  <1> QED
    BY <1>1, Invariant, PTL

\* Both files, the children and the ticks always have the values the scripts
\* give them, whatever overtakes what.
THEOREM TypesHold == Spec => []TypeOK
  <1>1. Init => TypeOK /\ TicksOnly
    BY InvInit DEF Inv
  <1>2. TypeOK /\ TicksOnly /\ [Next]_vars => TypeOK' /\ TicksOnly'
    <2>1. CASE UNCHANGED vars
      BY <2>1 DEF vars, TypeOK, TicksOnly
    <2> QED
      BY <2>1, TypeStep, TicksStep
  <1> QED
    BY <1>1, <1>2, PTL DEF Spec
=============================================================================
