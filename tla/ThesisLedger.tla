---------------------------- MODULE ThesisLedger ----------------------------
(***************************************************************************)
(* The ledger of investment theses (position_theses) and the two commands   *)
(* that write it: thesis_onboarding.py turns a drafted approval package     *)
(* into an active thesis, thesis_review.py closes a thesis or replaces it   *)
(* by a rewritten one. A package is a JSON file, a thesis a row of          *)
(* Postgres; no constraint of the table and no lock ties the two together,  *)
(* so their agreement rests on the order of the steps, on the guard         *)
(* status != 'exited' and on the row lock a rewrite holds while the         *)
(* language model writes its draft. theses is the committed table: what a   *)
(* transaction has not committed yet is in procs and holder.                *)
(***************************************************************************)
EXTENDS Integers, Sequences, FiniteSets

CONSTANTS
  Stocks, Procs, Nobody,    \* stock codes, commands that run at the same time, no process
  MaxPackages, MaxTheses,   \* bounds of the model
  MaxFaults                 \* failing statements, failing writes and deaths

ASSUME LedgerAssumption ==
  /\ Nobody \notin Procs
  /\ MaxPackages \in Nat /\ MaxTheses \in Nat /\ MaxFaults \in Nat

VARIABLES
  pkgs,      \* the files of APPROVALS_DIR, in the order of their ids
  theses,    \* the rows of position_theses, by id
  procs,     \* per process: its command, how far it is, and its argument
  holder,    \* per thesis: the process whose open transaction locks the row
  faults,
  raced,     \* history: stocks two approvals checked at the same time
  doubtful   \* history: packages with overlapping or interrupted commands

vars == <<pkgs, theses, procs, holder, faults, raced, doubtful>>

Idle == [cmd |-> "none", at |-> "idle", arg |-> 0, made |-> 0]
Package(s) == [stock |-> s, status |-> "pending", thesis |-> 0]
Entry(type, ref) == [type |-> type, ref |-> ref]
\* A thesis onboarded from package k, or written in the place of thesis t.
Onboarded(s, k) == [stock |-> s, status |-> "active", from |-> k, old |-> 0,
                    log |-> <<Entry("onboarding", 0)>>]
Rewritten(s, t) == [stock |-> s, status |-> "active", from |-> 0, old |-> t,
                    log |-> <<Entry("onboarding", t)>>]

Init ==
  /\ pkgs = <<>> /\ theses = <<>>
  /\ procs = [p \in Procs |-> Idle]
  /\ holder = <<>>
  /\ faults = 0 /\ raced = {} /\ doubtful = {}

(* Every step but the last of a command moves its process on; nothing that   *)
(* is not named here is written.                                             *)
Goes(p, at) == procs' = [procs EXCEPT ![p].at = at]
Ends(p) == procs' = [procs EXCEPT ![p] = Idle]
Starts(p, cmd, at, arg) ==
  /\ procs[p].at = "idle"
  /\ procs' = [procs EXCEPT ![p] = [cmd |-> cmd, at |-> at, arg |-> arg, made |-> 0]]
At(p, cmd, at) == procs[p].cmd = cmd /\ procs[p].at = at
Fault == faults < MaxFaults /\ faults' = faults + 1
InDoubt(k) == doubtful' = doubtful \cup {k}

(***************************************************************************)
(* thesis_onboarding.py                                                     *)
(***************************************************************************)
\* A stock with a pending or approved package is not drafted again; a file
\* that does not parse is no package.
HasPackage(s) ==
  \E k \in DOMAIN pkgs : pkgs[k].stock = s /\ pkgs[k].status \in {"pending", "approved"}

DraftLooks(p, s) ==
  /\ ~HasPackage(s) /\ Len(pkgs) < MaxPackages
  /\ Starts(p, "draft", "writing", s)
  /\ UNCHANGED <<pkgs, theses, holder, faults, raced, doubtful>>

\* save_approval, after the language model has answered.
DraftSaves(p) ==
  /\ At(p, "draft", "writing") /\ Len(pkgs) < MaxPackages
  /\ pkgs' = Append(pkgs, Package(procs[p].arg))
  /\ Ends(p)
  /\ UNCHANGED <<theses, holder, faults, raced, doubtful>>

OthersOn(p, k) ==
  \E q \in Procs \ {p} : procs[q].cmd \in {"approve", "reject"} /\ procs[q].arg = k

CheckingStock(p, s) ==
  \E q \in Procs \ {p} :
    /\ procs[q].cmd = "approve" /\ procs[q].at \in {"check", "insert"}
    /\ pkgs[procs[q].arg].stock = s

ApproveLoads(p, k) ==
  /\ pkgs[k].status = "pending"
  /\ Starts(p, "approve", "check", k)
  /\ raced' = IF CheckingStock(p, pkgs[k].stock) THEN raced \cup {pkgs[k].stock} ELSE raced
  /\ doubtful' = IF OthersOn(p, k) THEN doubtful \cup {k} ELSE doubtful
  /\ UNCHANGED <<pkgs, theses, holder, faults>>

RejectLoads(p, k) ==
  /\ pkgs[k].status # "torn"
  /\ Starts(p, "reject", "mark", k)
  /\ doubtful' = IF OthersOn(p, k) THEN doubtful \cup {k} ELSE doubtful
  /\ UNCHANGED <<pkgs, theses, holder, faults, raced>>

\* Mutant: the check reads rows of open transactions.
HasActiveDirty(s) ==
  \E t \in DOMAIN theses : theses[t].stock = s /\ theses[t].status = "active" /\ holder[t] = Nobody

\* The committed rows: the exit of an open rewrite is not seen.
HasActive(s) == \E t \in DOMAIN theses : theses[t].stock = s /\ theses[t].status = "active"

ApproveChecks(p) ==
  /\ At(p, "approve", "check")
  /\ IF HasActive(pkgs[procs[p].arg].stock) THEN Ends(p) ELSE Goes(p, "insert")
  /\ UNCHANGED <<pkgs, theses, holder, faults, raced, doubtful>>

NewRow(row) ==
  /\ Len(theses) < MaxTheses
  /\ theses' = Append(theses, row)
  /\ holder' = Append(holder, Nobody)

ApproveInserts(p) ==
  LET k == procs[p].arg IN
  /\ At(p, "approve", "insert")
  /\ NewRow(Onboarded(pkgs[k].stock, k))
  /\ procs' = [procs EXCEPT ![p].at = "mark", ![p].made = Len(theses) + 1]
  /\ UNCHANGED <<pkgs, faults, raced, doubtful>>

\* Mutant: the missing id of a failed INSERT is not noticed.
ApproveGoesOn(p) ==
  /\ At(p, "approve", "check") \/ At(p, "approve", "insert")
  /\ Fault /\ Goes(p, "mark")
  /\ UNCHANGED <<pkgs, theses, holder, raced, doubtful>>

\* A failed SELECT is taken for "no thesis", but it leaves the connection
\* aborted or lost, so the INSERT after it fails too; or the INSERT fails.
ApproveFails(p) ==
  /\ At(p, "approve", "check") \/ At(p, "approve", "insert")
  /\ Fault /\ Ends(p)
  /\ UNCHANGED <<pkgs, theses, holder, raced, doubtful>>

\* The server commits but the answer is lost: the package stays pending.
ApproveCommitLost(p) ==
  LET k == procs[p].arg IN
  /\ At(p, "approve", "insert")
  /\ Fault /\ Ends(p) /\ InDoubt(k)
  /\ NewRow(Onboarded(pkgs[k].stock, k))
  /\ UNCHANGED <<pkgs, raced>>

\* set_approval_status: from pending only; anything else is an exception, or
\* nothing at all when the file does not parse.
MarkLoads(p) ==
  LET k == procs[p].arg IN
  /\ procs[p].cmd \in {"approve", "reject"} /\ procs[p].at = "mark"
  /\ IF pkgs[k].status = "pending" THEN Goes(p, "write") ELSE Ends(p)
  /\ UNCHANGED <<pkgs, theses, holder, faults, raced, doubtful>>

Marked(p) ==
  [pkgs[procs[p].arg] EXCEPT
     !.status = IF procs[p].cmd = "approve" THEN "approved" ELSE "rejected",
     !.thesis = procs[p].made]

MarkWrites(p) ==
  /\ procs[p].at = "write"
  /\ pkgs' = [pkgs EXCEPT ![procs[p].arg] = Marked(p)]
  /\ Ends(p)
  /\ UNCHANGED <<theses, holder, faults, raced, doubtful>>

\* The file cannot be opened, or is left truncated.
MarkFails(p) ==
  /\ procs[p].at = "write"
  /\ Fault /\ Ends(p) /\ InDoubt(procs[p].arg)
  /\ \E torn \in BOOLEAN :
       pkgs' = IF torn THEN [pkgs EXCEPT ![procs[p].arg].status = "torn"] ELSE pkgs
  /\ UNCHANGED <<theses, holder, raced>>

(***************************************************************************)
(* thesis_review.py. An UPDATE waits for the transaction that holds the row *)
(* and then reads the row again (read committed).                           *)
(***************************************************************************)
ReviewLoads(p, cmd, t) ==
  /\ theses[t].status # "exited"
  /\ Starts(p, cmd, "update", t)
  /\ UNCHANGED <<pkgs, theses, holder, faults, raced, doubtful>>

\* Mutant: UPDATE ... WHERE id = t
MatchesAny(t) == theses[t].status \in {"active", "exited"}

\* UPDATE ... WHERE id = t AND status != 'exited'
Matches(t) == theses[t].status # "exited"

Closed(t, entries) ==
  [theses EXCEPT ![t].status = "exited", ![t].log = @ \o entries]

ExitUpdates(p) ==
  LET t == procs[p].arg IN
  /\ At(p, "exit", "update") /\ holder[t] = Nobody
  /\ theses' = IF Matches(t) THEN Closed(t, <<Entry("exit", 0)>>) ELSE theses
  /\ Ends(p)
  /\ UNCHANGED <<pkgs, holder, faults, raced, doubtful>>

ReviewFails(p) ==
  /\ procs[p].at = "update"
  /\ Fault /\ Ends(p)
  /\ UNCHANGED <<pkgs, theses, holder, raced, doubtful>>

\* _exit_append: the row is locked until the transaction ends.
RewriteUpdates(p) ==
  LET t == procs[p].arg IN
  /\ At(p, "rewrite", "update") /\ holder[t] = Nobody
  /\ IF Matches(t)
     THEN holder' = [holder EXCEPT ![t] = p] /\ Goes(p, "draft")
     ELSE holder' = holder /\ Ends(p)
  /\ UNCHANGED <<pkgs, theses, faults, raced, doubtful>>

\* Mutant: no rollback.
ReleasedNever(p) == [t \in DOMAIN holder |-> holder[t]]

Released(p) == [t \in DOMAIN holder |-> IF holder[t] = p THEN Nobody ELSE holder[t]]

\* No draft, which needs no fault, or a statement fails: rollback.
RewriteRollsBack(p) ==
  /\ At(p, "rewrite", "draft")
  /\ holder' = Released(p) /\ Ends(p)
  /\ UNCHANGED <<pkgs, theses, faults, raced, doubtful>>

\* The draft is inserted and linked, and everything commits at once.
RewriteCommits(p) ==
  LET t == procs[p].arg
      new == Len(theses) + 1 IN
  /\ At(p, "rewrite", "draft") /\ Len(theses) < MaxTheses
  /\ theses' = Append(Closed(t, <<Entry("rewrite", 0), Entry("rewrite_link", new)>>),
                      Rewritten(theses[t].stock, t))
  /\ holder' = Append(Released(p), Nobody)
  /\ Ends(p)
  /\ UNCHANGED <<pkgs, faults, raced, doubtful>>

\* A process that dies rolls back its transaction. One that dies while it
\* approves may leave a thesis whose package is pending or torn.
Die(p) ==
  LET k == procs[p].arg IN
  /\ procs[p].at # "idle"
  /\ Fault /\ Ends(p)
  /\ holder' = Released(p)
  /\ doubtful' = IF procs[p].at \in {"mark", "write"} THEN doubtful \cup {k} ELSE doubtful
  /\ pkgs' \in {pkgs} \cup
       IF procs[p].at = "write" THEN {[pkgs EXCEPT ![k].status = "torn"]} ELSE {}
  /\ UNCHANGED <<theses, raced>>

Onboard(p) ==
  \/ \E s \in Stocks : DraftLooks(p, s)
  \/ DraftSaves(p)
  \/ \E k \in DOMAIN pkgs : ApproveLoads(p, k) \/ RejectLoads(p, k)
  \/ ApproveChecks(p) \/ ApproveInserts(p) \/ ApproveFails(p) \/ ApproveCommitLost(p)
  \/ MarkLoads(p) \/ MarkWrites(p) \/ MarkFails(p)

Review(p) ==
  \/ \E t \in DOMAIN theses, cmd \in {"exit", "rewrite"} : ReviewLoads(p, cmd, t)
  \/ ExitUpdates(p) \/ ReviewFails(p)
  \/ RewriteUpdates(p) \/ RewriteRollsBack(p) \/ RewriteCommits(p)

Next == \E p \in Procs : Onboard(p) \/ Review(p) \/ Die(p)

Spec == Init /\ [][Next]_vars

-----------------------------------------------------------------------------
\* Packages, rows, commands and locks have the values the two scripts give them.
TypeOK ==
  /\ Len(pkgs) <= MaxPackages /\ Len(theses) <= MaxTheses /\ faults \in 0..MaxFaults
  /\ \A k \in DOMAIN pkgs :
       /\ pkgs[k].stock \in Stocks /\ pkgs[k].thesis \in 0..Len(theses)
       /\ pkgs[k].status \in {"pending", "approved", "rejected", "torn"}
  /\ \A t \in DOMAIN theses :
       /\ theses[t].stock \in Stocks /\ theses[t].status \in {"active", "exited"}
       /\ theses[t].from \in 0..Len(pkgs) /\ theses[t].old \in 0..(t - 1)
  /\ DOMAIN holder = DOMAIN theses
  /\ \A t \in DOMAIN holder :
       holder[t] # Nobody => At(holder[t], "rewrite", "draft") /\ procs[holder[t]].arg = t
  /\ raced \subseteq Stocks /\ doubtful \subseteq DOMAIN pkgs

Entries(t, types) == {i \in DOMAIN theses[t].log : theses[t].log[i].type \in types}

(* However exits and rewrites of one thesis overlap, it is closed once and   *)
(* replaced at most once: it is exited exactly when its log has its one      *)
(* closing entry, and the links of the log and the origins of the rewritten  *)
(* rows name each other, row for row, within one stock (exit_thesis,         *)
(* rewrite_thesis: one transaction, guarded by status != 'exited').          *)
Succession ==
  \A t \in DOMAIN theses :
    /\ Cardinality(Entries(t, {"exit", "rewrite"})) = IF theses[t].status = "exited" THEN 1 ELSE 0
    /\ Cardinality(Entries(t, {"rewrite_link"})) = Cardinality(Entries(t, {"rewrite"}))
    /\ {theses[t].log[i].ref : i \in Entries(t, {"rewrite_link"})} =
         {u \in DOMAIN theses : theses[u].old = t}
    /\ theses[t].old # 0 => theses[theses[t].old].stock = theses[t].stock

(* A stock has one active thesis at most, whatever rewrites and exits run    *)
(* beside an approval and whatever fails, as long as two approvals of the    *)
(* stock do not check at the same time: nothing but has_active_thesis before *)
(* the INSERT sees to it.                                                    *)
OneActive ==
  \A t, u \in DOMAIN theses :
    /\ t # u
    /\ theses[t].status = "active" /\ theses[u].status = "active"
    /\ theses[t].stock = theses[u].stock
    => theses[t].stock \in raced

(* A package says approved only of a thesis that was onboarded from it; and  *)
(* a thesis has its package approved, or the command that inserted it is     *)
(* about to do so, unless a command on the package overlapped another or was *)
(* cut short (_cmd_approve: INSERT and commit first, then the file).         *)
ApprovedIsRegistered ==
  /\ \A k \in DOMAIN pkgs : pkgs[k].status = "approved" =>
       pkgs[k].thesis # 0 /\ theses[pkgs[k].thesis].from = k
  /\ \A t \in DOMAIN theses :
       LET k == theses[t].from IN
       k # 0 =>
         \/ k \in doubtful
         \/ pkgs[k].status = "approved" /\ pkgs[k].thesis = t
         \/ \E p \in Procs : procs[p].cmd = "approve" /\ procs[p].made = t /\ procs[p].arg = k

=============================================================================
