------------------------- MODULE ThesisLedgerProofs -------------------------
(* The theses of a stock, and the agreement of the packages with the theses, *)
(* for any number of stocks, processes, packages, theses and failures.       *)
EXTENDS ThesisLedger, FiniteSetTheorems, SequenceTheorems, TLAPS

USE LedgerAssumption DEF LedgerAssumption

-----------------------------------------------------------------------------
(* The inductive invariant *)

PackageFile == [stock : Stocks, status : {"pending", "approved", "rejected", "torn"},
                thesis : Nat]
LogEntry == [type : {"onboarding", "exit", "rewrite", "rewrite_link"}, ref : Nat]
Row == [stock : Stocks, status : {"active", "exited"}, from : Nat, old : Nat,
        log : Seq(LogEntry)]
Work == [cmd : {"none", "draft", "approve", "reject", "exit", "rewrite"},
         at : {"idle", "writing", "check", "insert", "mark", "write", "update", "draft"},
         arg : Stocks \cup Nat, made : Nat]

\* What the argument of a command is, and where in its steps it can be.
Fits(w) ==
    \/ w.cmd = "none" /\ w.at = "idle" /\ w.made = 0
    \/ w.cmd = "draft" /\ w.at = "writing" /\ w.made = 0 /\ w.arg \in Stocks
    \/ w.cmd = "approve" /\ w.at \in {"check", "insert"} /\ w.made = 0 /\ w.arg \in 1..Len(pkgs)
    \/ /\ w.cmd = "approve" /\ w.at \in {"mark", "write"} /\ w.arg \in 1..Len(pkgs)
       /\ w.made \in 1..Len(theses) /\ theses[w.made].from = w.arg
    \/ w.cmd = "reject" /\ w.at \in {"mark", "write"} /\ w.made = 0 /\ w.arg \in 1..Len(pkgs)
    \/ w.cmd = "exit" /\ w.at = "update" /\ w.made = 0 /\ w.arg \in 1..Len(theses)
    \/ w.cmd = "rewrite" /\ w.at \in {"update", "draft"} /\ w.made = 0 /\ w.arg \in 1..Len(theses)

Types ==
    /\ pkgs \in Seq(PackageFile) /\ Len(pkgs) <= MaxPackages
    /\ theses \in Seq(Row) /\ Len(theses) <= MaxTheses
    /\ holder \in Seq(Procs \cup {Nobody}) /\ Len(holder) = Len(theses)
    /\ procs \in [Procs -> Work]
    /\ faults \in 0..MaxFaults
    /\ raced \subseteq Stocks /\ doubtful \subseteq 1..Len(pkgs)

\* What names a package or a thesis names one that exists.
RefersToExisting ==
    /\ \A k \in 1..Len(pkgs) : pkgs[k].thesis <= Len(theses)
    /\ \A t \in 1..Len(theses) : theses[t].from <= Len(pkgs) /\ theses[t].old < t

\* Every command is at a step of its own, with an argument of its kind.
WorkFits == \A p \in Procs : Fits(procs[p])

\* A row is locked by the rewrite that drafts its replacement, and only then,
\* and until that rewrite ends the row stays active.
Locked ==
    \A t \in 1..Len(theses), p \in Procs :
       /\ holder[t] = p <=> At(p, "rewrite", "draft") /\ procs[p].arg = t
       /\ holder[t] = p => theses[t].status = "active"

Checking(p) == procs[p].cmd = "approve" /\ procs[p].at \in {"check", "insert"}
Stock(p) == pkgs[procs[p].arg].stock

\* Two approvals of a stock that check at the same time are on record, ...
RacesKnown ==
    \A p, q \in Procs :
       p # q /\ Checking(p) /\ Checking(q) /\ Stock(p) = Stock(q) => Stock(p) \in raced

\* ... and one that has checked alone is still right.
CheckHolds ==
    \A p \in Procs :
       At(p, "approve", "insert") => Stock(p) \in raced \/ ~HasActive(Stock(p))

OnPackage(p) == procs[p].cmd \in {"approve", "reject"}

\* Two commands on one package are on record, ...
OverlapKnown ==
    \A p, q \in Procs :
       p # q /\ OnPackage(p) /\ OnPackage(q) /\ procs[p].arg = procs[q].arg
         => procs[p].arg \in doubtful

\* ... and what a command alone on its package has read of it still holds.
StillPending ==
    \A p \in Procs :
       procs[p].cmd = "approve" \/ procs[p].at = "write"
         => pkgs[procs[p].arg].status = "pending" \/ procs[p].arg \in doubtful

\* The log of a new row, of a row an exit closes, of a row a rewrite closes.
FirstLog(t) == <<Entry("onboarding", t)>>
ExitLog(log) == log \o <<Entry("exit", 0)>>
RewriteLog(log, u) == log \o <<Entry("rewrite", 0), Entry("rewrite_link", u)>>

\* A thesis is open with the one entry of its onboarding, closed by an exit, or
\* closed by the rewrite that made the one row that names it as its origin.
Heirs(t) == {u \in 1..Len(theses) : theses[u].old = t}

Open(t) ==
    /\ theses[t].status = "active" /\ Heirs(t) = {}
    /\ Len(theses[t].log) = 1 /\ theses[t].log[1].type = "onboarding"
Sold(t) ==
    /\ theses[t].status = "exited" /\ Heirs(t) = {}
    /\ Len(theses[t].log) = 2 /\ theses[t].log[1].type = "onboarding"
    /\ theses[t].log[2].type = "exit"
Replaced(t) ==
    /\ theses[t].status = "exited" /\ Heirs(t) = {theses[t].log[3].ref}
    /\ Len(theses[t].log) = 3 /\ theses[t].log[1].type = "onboarding"
    /\ theses[t].log[2].type = "rewrite" /\ theses[t].log[3].type = "rewrite_link"

LifeOf(t) == Open(t) \/ Sold(t) \/ Replaced(t)
Lives == \A t \in 1..Len(theses) : LifeOf(t)

SameStock ==
    \A t \in 1..Len(theses) :
       theses[t].old # 0 => theses[theses[t].old].stock = theses[t].stock

Inv ==
    /\ Types /\ RefersToExisting /\ WorkFits /\ Locked
    /\ RacesKnown /\ CheckHolds /\ OneActive
    /\ OverlapKnown /\ StillPending /\ ApprovedIsRegistered
    /\ Lives /\ SameStock

-----------------------------------------------------------------------------
(* What the steps do to the two sequences of records *)

LEMMA AppendGives ==
    ASSUME NEW S, NEW s \in Seq(S), NEW e \in S
    PROVE  /\ Append(s, e) \in Seq(S) /\ Len(Append(s, e)) = Len(s) + 1
           /\ Append(s, e)[Len(s) + 1] = e
           /\ \A i \in 1..Len(s) : Append(s, e)[i] = s[i]
BY AppendProperties

LEMMA UpdateGives ==
    ASSUME NEW S, NEW s \in Seq(S), NEW i \in 1..Len(s), NEW e \in S
    PROVE  /\ [s EXCEPT ![i] = e] \in Seq(S) /\ Len([s EXCEPT ![i] = e]) = Len(s)
           /\ [s EXCEPT ![i] = e][i] = e
           /\ \A j \in 1..Len(s) : j # i => [s EXCEPT ![i] = e][j] = s[j]
BY ExceptSeq

LEMMA Domains ==
    ASSUME Types
    PROVE  /\ DOMAIN pkgs = 1..Len(pkgs) /\ Len(pkgs) \in Nat
           /\ DOMAIN theses = 1..Len(theses) /\ Len(theses) \in Nat
           /\ DOMAIN holder = 1..Len(theses)
           /\ \A k \in 1..Len(pkgs) : pkgs[k] \in PackageFile
           /\ \A t \in 1..Len(theses) : theses[t] \in Row /\ holder[t] \in Procs \cup {Nobody}
           /\ \A p \in Procs : procs[p] \in Work
BY DEF Types

\* Rows only grow in number, and keep everything but their status and log; a
\* closed row stays closed.
RowsKeep ==
    /\ Len(theses) <= Len(theses')
    /\ \A t \in 1..Len(theses) :
          /\ theses'[t].stock = theses[t].stock
          /\ theses'[t].from = theses[t].from
          /\ theses'[t].old = theses[t].old
          /\ theses[t].status = "exited" => theses'[t].status = "exited"

\* Packages only grow in number, and keep their stock.
PackagesKeep ==
    /\ Len(pkgs) <= Len(pkgs')
    /\ \A k \in 1..Len(pkgs) : pkgs'[k].stock = pkgs[k].stock

\* The new row of an INSERT.
LEMMA NewRowGives ==
    ASSUME Types, NEW row \in Row, NewRow(row)
    PROVE  /\ theses' \in Seq(Row) /\ Len(theses') = Len(theses) + 1
           /\ Len(theses') <= MaxTheses
           /\ theses'[Len(theses) + 1] = row
           /\ \A t \in 1..Len(theses) : theses'[t] = theses[t]
           /\ holder' \in Seq(Procs \cup {Nobody}) /\ Len(holder') = Len(theses) + 1
           /\ holder'[Len(theses) + 1] = Nobody
           /\ \A t \in 1..Len(theses) : holder'[t] = holder[t]
  <1>1. theses \in Seq(Row) /\ holder \in Seq(Procs \cup {Nobody}) /\ Len(holder) = Len(theses)
    BY DEF Types
  <1>2. Len(theses) \in Nat /\ Len(theses) < MaxTheses
    BY <1>1, LenProperties DEF NewRow
  <1>3. theses' = Append(theses, row) /\ holder' = Append(holder, Nobody)
    BY DEF NewRow
  <1>4. Nobody \in Procs \cup {Nobody}
    OBVIOUS
  <1>5. /\ theses' \in Seq(Row) /\ Len(theses') = Len(theses) + 1
        /\ theses'[Len(theses) + 1] = row
        /\ \A t \in 1..Len(theses) : theses'[t] = theses[t]
    BY <1>1, <1>3, AppendGives
  <1>6. /\ holder' \in Seq(Procs \cup {Nobody}) /\ Len(holder') = Len(holder) + 1
        /\ holder'[Len(holder) + 1] = Nobody
        /\ \A t \in 1..Len(holder) : holder'[t] = holder[t]
    BY <1>1, <1>3, <1>4, AppendGives
  <1> QED
    BY <1>1, <1>2, <1>5, <1>6

LEMMA OnboardedIsRow ==
    ASSUME NEW s \in Stocks, NEW k \in Nat
    PROVE  /\ Onboarded(s, k) \in Row
           /\ Onboarded(s, k).stock = s /\ Onboarded(s, k).status = "active"
           /\ Onboarded(s, k).from = k /\ Onboarded(s, k).old = 0
           /\ Onboarded(s, k).log = FirstLog(0)
BY DEF FirstLog, Onboarded, Row, Entry, LogEntry

LEMMA RewrittenIsRow ==
    ASSUME NEW s \in Stocks, NEW t \in Nat
    PROVE  /\ Rewritten(s, t) \in Row
           /\ Rewritten(s, t).stock = s /\ Rewritten(s, t).status = "active"
           /\ Rewritten(s, t).from = 0 /\ Rewritten(s, t).old = t
           /\ Rewritten(s, t).log = FirstLog(t)
BY DEF FirstLog, Rewritten, Row, Entry, LogEntry

\* Closing a row.
LEMMA ClosedGives ==
    ASSUME Types, NEW t \in 1..Len(theses), NEW entries \in Seq(LogEntry)
    PROVE  /\ Closed(t, entries) \in Seq(Row) /\ Len(Closed(t, entries)) = Len(theses)
           /\ \A u \in 1..Len(theses) : u # t => Closed(t, entries)[u] = theses[u]
           /\ Closed(t, entries)[t].status = "exited"
           /\ Closed(t, entries)[t].stock = theses[t].stock
           /\ Closed(t, entries)[t].from = theses[t].from
           /\ Closed(t, entries)[t].old = theses[t].old
           /\ Closed(t, entries)[t].log = theses[t].log \o entries
  <1>1. theses \in Seq(Row) /\ theses[t] \in Row
    BY Domains DEF Types
  <1>2. theses[t].log \o entries \in Seq(LogEntry)
    BY <1>1, ConcatProperties DEF Row
  <1> DEFINE row == [theses[t] EXCEPT !.status = "exited", !.log = @ \o entries]
  <1>3. /\ row \in Row /\ row.status = "exited" /\ row.stock = theses[t].stock
        /\ row.from = theses[t].from /\ row.old = theses[t].old
        /\ row.log = theses[t].log \o entries
    BY <1>1, <1>2 DEF Row
  <1>4. Closed(t, entries) = [theses EXCEPT ![t] = row]
    BY DEF Closed
  <1> HIDE DEF row
  <1> QED
    BY <1>1, <1>3, <1>4, UpdateGives

\* Rolling back.
LEMMA ReleasedGives ==
    ASSUME Types, NEW p \in Procs
    PROVE  /\ Released(p) \in Seq(Procs \cup {Nobody}) /\ Len(Released(p)) = Len(theses)
           /\ \A t \in 1..Len(theses) :
                 Released(p)[t] = IF holder[t] = p THEN Nobody ELSE holder[t]
  <1>1. DOMAIN holder = 1..Len(theses) /\ Len(theses) \in Nat
    BY Domains
  <1>2. \A t \in 1..Len(theses) : holder[t] \in Procs \cup {Nobody}
    BY Domains
  <1>3. Released(p) = [t \in 1..Len(theses) |-> IF holder[t] = p THEN Nobody ELSE holder[t]]
    BY <1>1 DEF Released
  <1>4. Released(p) \in [1..Len(theses) -> Procs \cup {Nobody}]
    BY <1>2, <1>3
  <1>5. Released(p) \in Seq(Procs \cup {Nobody}) /\ Len(Released(p)) = Len(theses)
    BY <1>1, <1>4, <1>3, SeqDef, LenProperties
  <1> QED
    BY <1>3, <1>5

\* Writing a package.
LEMMA PackageWritten ==
    ASSUME Types, NEW k \in 1..Len(pkgs), NEW f \in PackageFile, f.stock = pkgs[k].stock,
           pkgs' = [pkgs EXCEPT ![k] = f]
    PROVE  /\ pkgs' \in Seq(PackageFile) /\ Len(pkgs') = Len(pkgs) /\ PackagesKeep
           /\ pkgs'[k] = f
           /\ \A j \in 1..Len(pkgs) : j # k => pkgs'[j] = pkgs[j]
  <1>1. pkgs \in Seq(PackageFile) /\ Len(pkgs) \in Nat
    BY Domains DEF Types
  <1>2. /\ pkgs' \in Seq(PackageFile) /\ Len(pkgs') = Len(pkgs) /\ pkgs'[k] = f
        /\ \A j \in 1..Len(pkgs) : j # k => pkgs'[j] = pkgs[j]
    BY <1>1, UpdateGives
  <1> QED
    BY <1>1, <1>2 DEF PackagesKeep

\* A step of p leaves the other processes where they are.
OthersStay(p) == \A q \in Procs \ {p} : procs'[q] = procs[q]

LEMMA GoesGives ==
    ASSUME Types, NEW p \in Procs, NEW at \in {"insert", "mark", "write", "draft"}, Goes(p, at)
    PROVE  /\ procs' \in [Procs -> Work] /\ OthersStay(p)
           /\ procs'[p].cmd = procs[p].cmd /\ procs'[p].at = at
           /\ procs'[p].arg = procs[p].arg /\ procs'[p].made = procs[p].made
BY DEF Types, Goes, Work, OthersStay

LEMMA EndsGives ==
    ASSUME Types, NEW p \in Procs, Ends(p)
    PROVE  /\ procs' \in [Procs -> Work] /\ OthersStay(p)
           /\ procs'[p].cmd = "none" /\ procs'[p].at = "idle"
           /\ procs'[p].arg = 0 /\ procs'[p].made = 0
BY DEF Types, Ends, Work, Idle, OthersStay

LEMMA StartsGives ==
    ASSUME Types, NEW p \in Procs,
           NEW cmd \in {"draft", "approve", "reject", "exit", "rewrite"},
           NEW at \in {"writing", "check", "mark", "update"},
           NEW arg \in Stocks \cup Nat, Starts(p, cmd, at, arg)
    PROVE  /\ procs' \in [Procs -> Work] /\ OthersStay(p)
           /\ procs'[p].cmd = cmd /\ procs'[p].at = at
           /\ procs'[p].arg = arg /\ procs'[p].made = 0
BY DEF Types, Starts, Work, OthersStay

LEMMA Unchanged ==
    ASSUME Types
    PROVE  /\ UNCHANGED theses => RowsKeep
           /\ UNCHANGED pkgs => PackagesKeep
BY Domains DEF RowsKeep, PackagesKeep

LEMMA InsertMoves ==
    ASSUME Types, NEW p \in Procs, ApproveInserts(p)
    PROVE  /\ procs' \in [Procs -> Work] /\ OthersStay(p)
           /\ procs'[p].cmd = "approve" /\ procs'[p].at = "mark"
           /\ procs'[p].arg = procs[p].arg /\ procs'[p].made = Len(theses) + 1
  <1> DEFINE v == [procs[p] EXCEPT !.at = "mark"]
             w == [v EXCEPT !.made = Len(theses) + 1]
  <1>1. procs[p] \in Work /\ Len(theses) \in Nat /\ procs[p].cmd = "approve"
    BY Domains DEF ApproveInserts, At
  <1>2. /\ v \in Work /\ v.cmd = "approve" /\ v.at = "mark" /\ v.arg = procs[p].arg
    BY <1>1 DEF Work
  <1>3. procs' = [procs EXCEPT ![p] = w]
    BY <1>1 DEF ApproveInserts, Types
  <1> HIDE DEF v
  <1>4. /\ w \in Work /\ w.cmd = "approve" /\ w.at = "mark"
        /\ w.arg = procs[p].arg /\ w.made = Len(theses) + 1
    BY <1>1, <1>2 DEF Work
  <1> HIDE DEF w
  <1> QED
    BY <1>3, <1>4 DEF Types, OthersStay

\* The row an approval inserts.
LEMMA InsertGives ==
    ASSUME Types, RefersToExisting, WorkFits, NEW p \in Procs, At(p, "approve", "insert"),
           NewRow(Onboarded(pkgs[procs[p].arg].stock, procs[p].arg))
    PROVE  /\ procs[p].arg \in 1..Len(pkgs)
           /\ theses' \in Seq(Row) /\ Len(theses') = Len(theses) + 1
           /\ Len(theses') <= MaxTheses /\ RowsKeep
           /\ \A t \in 1..Len(theses) : theses'[t] = theses[t]
           /\ theses'[Len(theses) + 1].stock = Stock(p)
           /\ theses'[Len(theses) + 1].status = "active"
           /\ theses'[Len(theses) + 1].from = procs[p].arg
           /\ theses'[Len(theses) + 1].old = 0
           /\ theses'[Len(theses) + 1].log = FirstLog(0)
           /\ holder' \in Seq(Procs \cup {Nobody}) /\ Len(holder') = Len(theses) + 1
           /\ holder'[Len(theses) + 1] = Nobody
           /\ \A t \in 1..Len(theses) : holder'[t] = holder[t]
  <1> DEFINE row == Onboarded(pkgs[procs[p].arg].stock, procs[p].arg)
  <1>1. procs[p].arg \in 1..Len(pkgs)
    BY DEF WorkFits, Fits, At
  <1>2. Stock(p) \in Stocks /\ procs[p].arg \in Nat
    BY <1>1, Domains DEF PackageFile, Stock
  <1>3. /\ row \in Row /\ row.stock = Stock(p) /\ row.status = "active"
        /\ row.from = procs[p].arg /\ row.old = 0
        /\ row.log = FirstLog(0)
    BY <1>2, OnboardedIsRow DEF Stock
  <1>4. NewRow(row)
    OBVIOUS
  <1> HIDE DEF row
  <1>5. /\ theses' \in Seq(Row) /\ Len(theses') = Len(theses) + 1
        /\ Len(theses') <= MaxTheses
        /\ theses'[Len(theses) + 1] = row
        /\ \A t \in 1..Len(theses) : theses'[t] = theses[t]
        /\ holder' \in Seq(Procs \cup {Nobody}) /\ Len(holder') = Len(theses) + 1
        /\ holder'[Len(theses) + 1] = Nobody
        /\ \A t \in 1..Len(theses) : holder'[t] = holder[t]
    BY <1>3, <1>4, NewRowGives
  <1>6. RowsKeep
    BY <1>5, Domains DEF RowsKeep
  <1> QED
    BY <1>1, <1>3, <1>5, <1>6

\* What a finished rewrite commits.
LEMMA CommitGives ==
    ASSUME Types, RefersToExisting, WorkFits, NEW p \in Procs, RewriteCommits(p)
    PROVE  /\ procs[p].arg \in 1..Len(theses)
           /\ theses' \in Seq(Row) /\ Len(theses') = Len(theses) + 1
           /\ Len(theses') <= MaxTheses /\ RowsKeep
           /\ \A t \in 1..Len(theses) : t # procs[p].arg => theses'[t] = theses[t]
           /\ theses'[procs[p].arg].status = "exited"
           /\ theses'[Len(theses) + 1].stock = theses[procs[p].arg].stock
           /\ theses'[Len(theses) + 1].status = "active"
           /\ theses'[Len(theses) + 1].from = 0
           /\ theses'[Len(theses) + 1].old = procs[p].arg
           /\ theses'[Len(theses) + 1].log = FirstLog(procs[p].arg)
           /\ theses'[procs[p].arg].log = RewriteLog(theses[procs[p].arg].log, Len(theses) + 1)
           /\ holder' \in Seq(Procs \cup {Nobody}) /\ Len(holder') = Len(theses) + 1
           /\ holder'[Len(theses) + 1] = Nobody
           /\ \A t \in 1..Len(theses) :
                 holder'[t] = IF holder[t] = p THEN Nobody ELSE holder[t]
  <1> DEFINE t == procs[p].arg
             new == Len(theses) + 1
             entries == <<Entry("rewrite", 0), Entry("rewrite_link", new)>>
             closed == Closed(t, entries)
             row == Rewritten(theses[t].stock, t)
  <1>1. procs[p].cmd = "rewrite" /\ procs[p].at = "draft" /\ Len(theses) < MaxTheses
    BY DEF RewriteCommits, At
  <1>2. t \in 1..Len(theses) /\ Len(theses) \in Nat
    BY <1>1, Domains DEF WorkFits, Fits
  <1>3. Entry("rewrite", 0) \in LogEntry /\ Entry("rewrite_link", new) \in LogEntry
    BY <1>2 DEF Entry, LogEntry
  <1>4. entries \in Seq(LogEntry)
    BY <1>3
  <1>5. theses[t].stock \in Stocks /\ t \in Nat
    BY <1>2, Domains DEF Row
  <1>6. /\ row \in Row /\ row.stock = theses[t].stock /\ row.status = "active"
        /\ row.from = 0 /\ row.old = t /\ row.log = FirstLog(t)
    BY <1>5, RewrittenIsRow
  <1>7. theses' = Append(closed, row) /\ holder' = Append(Released(p), Nobody)
    BY DEF RewriteCommits
  <1> HIDE DEF entries, row
  <1>8. /\ closed \in Seq(Row) /\ Len(closed) = Len(theses)
        /\ \A u \in 1..Len(theses) : u # t => closed[u] = theses[u]
        /\ closed[t].status = "exited" /\ closed[t].stock = theses[t].stock
        /\ closed[t].from = theses[t].from /\ closed[t].old = theses[t].old
        /\ closed[t].log = RewriteLog(theses[t].log, new)
    BY <1>2, <1>4, ClosedGives DEF RewriteLog, entries
  <1> HIDE DEF closed
  <1>9. /\ theses' \in Seq(Row) /\ Len(theses') = Len(theses) + 1
        /\ theses'[Len(theses) + 1] = row
        /\ \A u \in 1..Len(theses) : theses'[u] = closed[u]
    BY <1>6, <1>7, <1>8, AppendGives
  <1>10. Nobody \in Procs \cup {Nobody}
    OBVIOUS
  <1>11. /\ Released(p) \in Seq(Procs \cup {Nobody}) /\ Len(Released(p)) = Len(theses)
         /\ \A u \in 1..Len(theses) :
               Released(p)[u] = IF holder[u] = p THEN Nobody ELSE holder[u]
    BY ReleasedGives
  <1>12. /\ holder' \in Seq(Procs \cup {Nobody}) /\ Len(holder') = Len(theses) + 1
         /\ holder'[Len(theses) + 1] = Nobody
         /\ \A u \in 1..Len(theses) : holder'[u] = Released(p)[u]
    BY <1>7, <1>10, <1>11, AppendGives
  <1>13. Len(theses') <= MaxTheses
    BY <1>1, <1>2, <1>9
  <1>14. RowsKeep
    BY <1>2, <1>8, <1>9 DEF RowsKeep
  <1> QED
    BY <1>2, <1>6, <1>8, <1>9, <1>11, <1>12, <1>13, <1>14

\* What a finished exit commits.
LEMMA ExitGives ==
    ASSUME Types, RefersToExisting, WorkFits, NEW p \in Procs, ExitUpdates(p)
    PROVE  /\ procs[p].arg \in 1..Len(theses) /\ holder[procs[p].arg] = Nobody
           /\ theses' \in Seq(Row) /\ Len(theses') = Len(theses) /\ RowsKeep
           /\ \A t \in 1..Len(theses) : t # procs[p].arg => theses'[t] = theses[t]
           /\ IF theses[procs[p].arg].status = "exited" THEN UNCHANGED theses
              ELSE /\ theses'[procs[p].arg].status = "exited"
                   /\ theses'[procs[p].arg].log = ExitLog(theses[procs[p].arg].log)
  <1> DEFINE t == procs[p].arg
             entries == <<Entry("exit", 0)>>
  <1>1. t \in 1..Len(theses) /\ Len(theses) \in Nat
    BY Domains DEF ExitUpdates, At, WorkFits, Fits
  <1>2. Entry("exit", 0) \in LogEntry
    BY DEF Entry, LogEntry
  <1>3. entries \in Seq(LogEntry)
    BY <1>2
  <1>4. holder[t] = Nobody /\ theses' = IF Matches(t) THEN Closed(t, entries) ELSE theses
    BY DEF ExitUpdates
  <1> HIDE DEF entries
  <1>5. CASE Matches(t)
    <2>1. theses' = Closed(t, entries)
      BY <1>4, <1>5
    <2>2. /\ theses' \in Seq(Row) /\ Len(theses') = Len(theses)
          /\ \A u \in 1..Len(theses) : u # t => theses'[u] = theses[u]
          /\ theses'[t].status = "exited" /\ theses'[t].stock = theses[t].stock
          /\ theses'[t].from = theses[t].from /\ theses'[t].old = theses[t].old
          /\ theses'[t].log = ExitLog(theses[t].log)
      BY <1>1, <1>3, <2>1, ClosedGives DEF ExitLog, entries
    <2>3. RowsKeep
      BY <1>1, <2>2 DEF RowsKeep
    <2> QED
      BY <1>1, <1>4, <1>5, <2>2, <2>3 DEF Matches
  <1>6. CASE ~Matches(t)
    BY <1>1, <1>4, <1>6, Unchanged DEF Types, Matches
  <1> QED
    BY <1>5, <1>6

\* What a finished command writes into its package.
LEMMA MarkGives ==
    ASSUME Types, RefersToExisting, WorkFits, NEW p \in Procs, MarkWrites(p)
    PROVE  /\ procs[p].arg \in 1..Len(pkgs) /\ OnPackage(p)
           /\ pkgs' \in Seq(PackageFile) /\ Len(pkgs') = Len(pkgs) /\ PackagesKeep
           /\ \A k \in 1..Len(pkgs) : k # procs[p].arg => pkgs'[k] = pkgs[k]
           /\ pkgs'[procs[p].arg].status =
                 IF procs[p].cmd = "approve" THEN "approved" ELSE "rejected"
           /\ pkgs'[procs[p].arg].thesis = procs[p].made
  <1> DEFINE f == Marked(p)
  <1>1. procs[p].arg \in 1..Len(pkgs) /\ OnPackage(p) /\ procs[p].made \in Nat
    BY Domains DEF MarkWrites, WorkFits, Fits, OnPackage, Work
  <1>2. pkgs[procs[p].arg] \in PackageFile
    BY <1>1, Domains
  <1>3. /\ f \in PackageFile /\ f.stock = pkgs[procs[p].arg].stock
        /\ f.status = IF procs[p].cmd = "approve" THEN "approved" ELSE "rejected"
        /\ f.thesis = procs[p].made
    BY <1>1, <1>2 DEF Marked, PackageFile
  <1>4. pkgs' = [pkgs EXCEPT ![procs[p].arg] = f]
    BY DEF MarkWrites
  <1> HIDE DEF f
  <1> QED
    BY <1>1, <1>3, <1>4, PackageWritten

\* What a command that fails or dies while it writes leaves of its package.
LEMMA TornGives ==
    ASSUME Types, NEW k \in 1..Len(pkgs), pkgs' = [pkgs EXCEPT ![k].status = "torn"]
    PROVE  /\ pkgs' \in Seq(PackageFile) /\ Len(pkgs') = Len(pkgs) /\ PackagesKeep
           /\ \A j \in 1..Len(pkgs) : j # k => pkgs'[j] = pkgs[j]
           /\ pkgs'[k].status = "torn" /\ pkgs'[k].thesis = pkgs[k].thesis
  <1> DEFINE f == [pkgs[k] EXCEPT !.status = "torn"]
  <1>1. pkgs[k] \in PackageFile
    BY Domains
  <1>2. /\ f \in PackageFile /\ f.stock = pkgs[k].stock
        /\ f.status = "torn" /\ f.thesis = pkgs[k].thesis
    BY <1>1 DEF PackageFile
  <1>3. pkgs' = [pkgs EXCEPT ![k] = f]
    OBVIOUS
  <1> HIDE DEF f
  <1> QED
    BY <1>2, <1>3, PackageWritten

\* A write that fails or dies leaves its package as it was, or torn.
Tears(k) == pkgs' = pkgs \/ pkgs' = [pkgs EXCEPT ![k].status = "torn"]

LEMMA TearsGives ==
    ASSUME Types, NEW k \in 1..Len(pkgs), Tears(k)
    PROVE  /\ pkgs' \in Seq(PackageFile) /\ Len(pkgs') = Len(pkgs) /\ PackagesKeep
           /\ \A j \in 1..Len(pkgs) : j # k => pkgs'[j] = pkgs[j]
           /\ pkgs'[k].status \in {pkgs[k].status, "torn"}
           /\ pkgs'[k].thesis = pkgs[k].thesis
  <1>1. CASE pkgs' = pkgs
    BY <1>1, Unchanged DEF Types
  <1>2. CASE pkgs' = [pkgs EXCEPT ![k].status = "torn"]
    BY <1>2, TornGives
  <1> QED
    BY <1>1, <1>2 DEF Tears

LEMMA DieGives ==
    ASSUME Types, WorkFits, NEW p \in Procs, Die(p)
    PROVE  /\ pkgs' = pkgs
              \/ /\ OnPackage(p) /\ procs[p].at = "write" /\ procs[p].arg \in 1..Len(pkgs)
                 /\ Tears(procs[p].arg)
           /\ pkgs' \in Seq(PackageFile) /\ Len(pkgs') = Len(pkgs) /\ PackagesKeep
           /\ holder' \in Seq(Procs \cup {Nobody}) /\ Len(holder') = Len(theses)
           /\ \A t \in 1..Len(theses) :
                 holder'[t] = IF holder[t] = p THEN Nobody ELSE holder[t]
  <1>1. /\ pkgs' = pkgs
           \/ /\ OnPackage(p) /\ procs[p].at = "write" /\ procs[p].arg \in 1..Len(pkgs)
              /\ Tears(procs[p].arg)
    BY DEF Die, WorkFits, Fits, OnPackage, Tears
  <1>2. pkgs' \in Seq(PackageFile) /\ Len(pkgs') = Len(pkgs) /\ PackagesKeep
    BY <1>1, TearsGives, Unchanged DEF Types
  <1>3. holder' = Released(p)
    BY DEF Die
  <1> QED
    BY <1>1, <1>2, <1>3, ReleasedGives

-----------------------------------------------------------------------------
(* One step, conjunct by conjunct *)

StepOf(p) == Onboard(p) \/ Review(p) \/ Die(p)

\* Every step keeps the types, the rows, the packages and the other processes.
LEMMA KeepsStep ==
    ASSUME Types, RefersToExisting, WorkFits, NEW p \in Procs, StepOf(p)
    PROVE  Types' /\ RowsKeep /\ PackagesKeep /\ OthersStay(p)
  <1> USE Domains
  <1>1. CASE \E s \in Stocks : DraftLooks(p, s)
    BY <1>1, StartsGives, Unchanged DEF DraftLooks, Types
  <1>2. CASE DraftSaves(p)
    <2>1. Package(procs[p].arg) \in PackageFile
      BY <1>2 DEF DraftSaves, At, WorkFits, Fits, Package, PackageFile
    <2>2. pkgs' = Append(pkgs, Package(procs[p].arg)) /\ Len(pkgs) < MaxPackages
      BY <1>2 DEF DraftSaves
    <2>3. /\ pkgs' \in Seq(PackageFile) /\ Len(pkgs') = Len(pkgs) + 1
          /\ \A k \in 1..Len(pkgs) : pkgs'[k] = pkgs[k]
      BY <2>1, <2>2, AppendGives DEF Types
    <2>4. PackagesKeep
      BY <2>3 DEF PackagesKeep
    <2>5. procs' \in [Procs -> Work] /\ OthersStay(p)
      BY <1>2, EndsGives DEF DraftSaves
    <2> QED
      BY <1>2, <2>2, <2>3, <2>4, <2>5, Unchanged DEF DraftSaves, Types
  <1>3. CASE \E k \in DOMAIN pkgs : ApproveLoads(p, k)
    <2>1. PICK k \in 1..Len(pkgs) : ApproveLoads(p, k)
      BY <1>3
    <2>2. procs' \in [Procs -> Work] /\ OthersStay(p)
      BY <2>1, StartsGives DEF ApproveLoads
    <2>3. raced' \subseteq Stocks /\ doubtful' \subseteq 1..Len(pkgs)
      BY <2>1 DEF ApproveLoads, Types, PackageFile
    <2> QED
      BY <2>1, <2>2, <2>3, Unchanged DEF ApproveLoads, Types
  <1>4. CASE \E k \in DOMAIN pkgs : RejectLoads(p, k)
    <2>1. PICK k \in 1..Len(pkgs) : RejectLoads(p, k)
      BY <1>4
    <2>2. procs' \in [Procs -> Work] /\ OthersStay(p)
      BY <2>1, StartsGives DEF RejectLoads
    <2>3. doubtful' \subseteq 1..Len(pkgs)
      BY <2>1 DEF RejectLoads, Types
    <2> QED
      BY <2>1, <2>2, <2>3, Unchanged DEF RejectLoads, Types
  <1>5. CASE ApproveChecks(p)
    BY <1>5, GoesGives, EndsGives, Unchanged DEF ApproveChecks, Types
  <1>6. CASE ApproveInserts(p)
    <2>1. NewRow(Onboarded(pkgs[procs[p].arg].stock, procs[p].arg)) /\ At(p, "approve", "insert")
      BY <1>6 DEF ApproveInserts
    <2>2. procs' \in [Procs -> Work] /\ OthersStay(p)
      BY <1>6, InsertMoves
    <2> QED
      BY <1>6, <2>1, <2>2, InsertGives, Unchanged DEF ApproveInserts, Types
  <1>7. CASE ApproveFails(p)
    BY <1>7, EndsGives, Unchanged DEF ApproveFails, Fault, Types
  <1>8. CASE ApproveCommitLost(p)
    <2>1. NewRow(Onboarded(pkgs[procs[p].arg].stock, procs[p].arg)) /\ At(p, "approve", "insert")
      BY <1>8 DEF ApproveCommitLost
    <2>2. procs' \in [Procs -> Work] /\ OthersStay(p)
      BY <1>8, EndsGives DEF ApproveCommitLost
    <2>3. faults' \in 0..MaxFaults /\ doubtful' = doubtful \cup {procs[p].arg}
      BY <1>8 DEF ApproveCommitLost, Fault, InDoubt, Types
    <2> QED
      BY <1>8, <2>1, <2>2, <2>3, InsertGives, Unchanged DEF ApproveCommitLost, Types
  <1>9. CASE MarkLoads(p)
    BY <1>9, GoesGives, EndsGives, Unchanged DEF MarkLoads, Types
  <1>10. CASE MarkWrites(p)
    <2>1. procs' \in [Procs -> Work] /\ OthersStay(p)
      BY <1>10, EndsGives DEF MarkWrites
    <2> QED
      BY <1>10, <2>1, MarkGives, Unchanged DEF MarkWrites, Types
  <1>11. CASE MarkFails(p)
    <2>1. procs' \in [Procs -> Work] /\ OthersStay(p)
      BY <1>11, EndsGives DEF MarkFails
    <2>2. procs[p].arg \in 1..Len(pkgs) /\ Tears(procs[p].arg)
      BY <1>11 DEF MarkFails, WorkFits, Fits, Tears
    <2>3. faults' \in 0..MaxFaults /\ doubtful' = doubtful \cup {procs[p].arg}
      BY <1>11 DEF MarkFails, Fault, InDoubt, Types
    <2> QED
      BY <1>11, <2>1, <2>2, <2>3, TearsGives, Unchanged DEF MarkFails, Types
  <1>12. CASE \E t \in DOMAIN theses, cmd \in {"exit", "rewrite"} : ReviewLoads(p, cmd, t)
    <2>1. PICK t \in 1..Len(theses), cmd \in {"exit", "rewrite"} : ReviewLoads(p, cmd, t)
      BY <1>12
    <2>2. procs' \in [Procs -> Work] /\ OthersStay(p)
      BY <2>1, StartsGives DEF ReviewLoads
    <2> QED
      BY <2>1, <2>2, Unchanged DEF ReviewLoads, Types
  <1>13. CASE ExitUpdates(p)
    <2>1. procs' \in [Procs -> Work] /\ OthersStay(p)
      BY <1>13, EndsGives DEF ExitUpdates
    <2> QED
      BY <1>13, <2>1, ExitGives, Unchanged DEF ExitUpdates, Types
  <1>14. CASE ReviewFails(p)
    BY <1>14, EndsGives, Unchanged DEF ReviewFails, Fault, Types
  <1>15. CASE RewriteUpdates(p)
    <2>1. procs' \in [Procs -> Work] /\ OthersStay(p)
      BY <1>15, GoesGives, EndsGives DEF RewriteUpdates
    <2>2. procs[p].arg \in 1..Len(holder)
      BY <1>15 DEF RewriteUpdates, At, WorkFits, Fits, Types
    <2>3. p \in Procs \cup {Nobody} /\ holder \in Seq(Procs \cup {Nobody})
      BY DEF Types
    <2>4. [holder EXCEPT ![procs[p].arg] = p] \in Seq(Procs \cup {Nobody})
          /\ Len([holder EXCEPT ![procs[p].arg] = p]) = Len(holder)
      BY <2>2, <2>3, UpdateGives
    <2>5. holder' \in Seq(Procs \cup {Nobody}) /\ Len(holder') = Len(holder)
      BY <1>15, <2>3, <2>4 DEF RewriteUpdates
    <2> QED
      BY <1>15, <2>1, <2>5, Unchanged DEF RewriteUpdates, Types
  <1>16. CASE RewriteRollsBack(p)
    <2>1. procs' \in [Procs -> Work] /\ OthersStay(p)
      BY <1>16, EndsGives DEF RewriteRollsBack
    <2> QED
      BY <1>16, <2>1, ReleasedGives, Unchanged DEF RewriteRollsBack, Types
  <1>17. CASE RewriteCommits(p)
    <2>1. procs' \in [Procs -> Work] /\ OthersStay(p)
      BY <1>17, EndsGives DEF RewriteCommits
    <2> QED
      BY <1>17, <2>1, CommitGives, Unchanged DEF RewriteCommits, Types
  <1>18. CASE Die(p)
    <2>1. procs' \in [Procs -> Work] /\ OthersStay(p)
      BY <1>18, EndsGives DEF Die
    <2>2. faults' \in 0..MaxFaults /\ doubtful' \subseteq 1..Len(pkgs)
      BY <1>18 DEF Die, Fault, WorkFits, Fits, Types
    <2> QED
      BY <1>18, <2>1, <2>2, DieGives, Unchanged DEF Die, Types
  <1> QED
    BY <1>1, <1>2, <1>3, <1>4, <1>5, <1>6, <1>7, <1>8, <1>9, <1>10, <1>11, <1>12,
       <1>13, <1>14, <1>15, <1>16, <1>17, <1>18 DEF StepOf, Onboard, Review

Inserting(p) ==
    /\ At(p, "approve", "insert")
    /\ NewRow(Onboarded(pkgs[procs[p].arg].stock, procs[p].arg))

Tearing(p) ==
    /\ OnPackage(p) /\ procs[p].at = "write" /\ procs[p].arg \in 1..Len(pkgs)
    /\ Tears(procs[p].arg) /\ Ends(p) /\ doubtful' = doubtful \cup {procs[p].arg}

\* The few steps that write the table, ...
LEMMA RowWriters ==
    ASSUME NEW p \in Procs, StepOf(p)
    PROVE  \/ UNCHANGED theses
           \/ Inserting(p) /\ (ApproveInserts(p) \/ ApproveCommitLost(p))
           \/ ExitUpdates(p) \/ RewriteCommits(p)
  <1>1. CASE Onboard(p)
    BY <1>1 DEF Onboard, DraftLooks, DraftSaves, ApproveLoads, RejectLoads, ApproveChecks,
       ApproveInserts, ApproveFails, ApproveCommitLost, MarkLoads, MarkWrites, MarkFails,
       Inserting
  <1>2. CASE Review(p)
    BY <1>2 DEF Review, ReviewLoads, ReviewFails, RewriteUpdates, RewriteRollsBack
  <1>3. CASE Die(p)
    BY <1>3 DEF Die
  <1> QED
    BY <1>1, <1>2, <1>3 DEF StepOf

\* ... the packages, ...
LEMMA PackageWriters ==
    ASSUME WorkFits, NEW p \in Procs, StepOf(p)
    PROVE  \/ UNCHANGED pkgs
           \/ (DraftSaves(p) \/ MarkWrites(p) \/ Tearing(p)) /\ UNCHANGED <<theses, raced>>
  <1>1. CASE Onboard(p)
    BY <1>1 DEF Onboard, DraftLooks, DraftSaves, ApproveLoads, RejectLoads, ApproveChecks,
       ApproveInserts, ApproveFails, ApproveCommitLost, MarkLoads, MarkWrites, MarkFails,
       Tearing, Tears, OnPackage, WorkFits, Fits, InDoubt
  <1>2. CASE Review(p)
    BY <1>2 DEF Review, ReviewLoads, ReviewFails, RewriteUpdates, RewriteRollsBack, ExitUpdates,
       RewriteCommits
  <1>3. CASE Die(p)
    BY <1>3 DEF Die, Tearing, Tears, OnPackage, WorkFits, Fits
  <1> QED
    BY <1>1, <1>2, <1>3 DEF StepOf

LEMMA NewPackage ==
    ASSUME Types, WorkFits, NEW p \in Procs, DraftSaves(p)
    PROVE  /\ Len(pkgs') = Len(pkgs) + 1
           /\ \A k \in 1..Len(pkgs) : pkgs'[k] = pkgs[k]
           /\ pkgs'[Len(pkgs) + 1].status = "pending"
           /\ pkgs'[Len(pkgs) + 1].thesis = 0
  <1>1. Package(procs[p].arg) \in PackageFile
    BY DEF DraftSaves, At, WorkFits, Fits, Package, PackageFile
  <1>2. Package(procs[p].arg).status = "pending" /\ Package(procs[p].arg).thesis = 0
    BY DEF Package
  <1>3. pkgs' = Append(pkgs, Package(procs[p].arg))
    BY DEF DraftSaves
  <1> QED
    BY <1>1, <1>2, <1>3, AppendGives DEF Types

LEMMA RefersStep ==
    ASSUME Types, RefersToExisting, WorkFits, NEW p \in Procs, StepOf(p)
    PROVE  RefersToExisting'
  <1> USE Domains
  <1>1. RowsKeep /\ PackagesKeep /\ Types'
    BY KeepsStep
  <1>2. \A k \in 1..Len(pkgs') : pkgs'[k].thesis <= Len(theses')
    <2>1. Len(theses') \in Nat /\ Len(pkgs') \in Nat
      BY <1>1, LenProperties DEF Types
    <2>2. CASE UNCHANGED pkgs
      BY <1>1, <2>1, <2>2 DEF RowsKeep, RefersToExisting, PackageFile
    <2>3. CASE DraftSaves(p) /\ UNCHANGED theses
      BY <2>1, <2>3, NewPackage DEF RefersToExisting
    <2>4. CASE MarkWrites(p) /\ UNCHANGED theses
      <3>1. procs[p].made <= Len(theses)
        BY <2>4 DEF MarkWrites, WorkFits, Fits
      <3> QED
        BY <2>1, <2>4, <3>1, MarkGives DEF RefersToExisting
    <2>5. CASE Tearing(p) /\ UNCHANGED theses
      BY <2>1, <2>5, TearsGives DEF RefersToExisting, Tearing
    <2> QED
      BY <2>2, <2>3, <2>4, <2>5, PackageWriters
  <1>3. \A t \in 1..Len(theses') : theses'[t].from <= Len(pkgs') /\ theses'[t].old < t
    <2>0. Len(theses') \in Nat /\ Len(pkgs') \in Nat /\ Len(pkgs) <= Len(pkgs')
      BY <1>1, LenProperties DEF Types, PackagesKeep
    <2>1. ASSUME NEW t \in 1..Len(theses)
          PROVE  theses'[t].from <= Len(pkgs') /\ theses'[t].old < t
      <3>1. theses[t].from \in Nat /\ theses[t].old \in Nat
        BY DEF Row
      <3>2. theses[t].from <= Len(pkgs) /\ theses[t].old < t
        BY DEF RefersToExisting
      <3>3. theses'[t].from = theses[t].from /\ theses'[t].old = theses[t].old
        BY <1>1 DEF RowsKeep
      <3> QED
        BY <2>0, <3>1, <3>2, <3>3
    <2>2. CASE UNCHANGED theses
      BY <2>1, <2>2
    <2>3. CASE Inserting(p)
      <3>1. /\ Len(theses') = Len(theses) + 1 /\ procs[p].arg \in 1..Len(pkgs)
            /\ theses'[Len(theses) + 1].from = procs[p].arg
            /\ theses'[Len(theses) + 1].old = 0
        BY <2>3, InsertGives DEF Inserting
      <3> QED
        BY <2>0, <2>1, <3>1
    <2>4. CASE ExitUpdates(p)
      BY <2>1, <2>4, ExitGives
    <2>5. CASE RewriteCommits(p)
      <3>1. UNCHANGED pkgs
        BY <2>5 DEF RewriteCommits
      <3>2. /\ Len(theses') = Len(theses) + 1 /\ procs[p].arg \in 1..Len(theses)
            /\ theses'[Len(theses) + 1].from = 0
            /\ theses'[Len(theses) + 1].old = procs[p].arg
        BY <2>5, CommitGives
      <3> QED
        BY <2>1, <3>1, <3>2
    <2> QED
      BY <2>2, <2>3, <2>4, <2>5, RowWriters
  <1> QED
    BY <1>2, <1>3 DEF RefersToExisting

LEMMA FitsKeeps ==
    ASSUME Types, RowsKeep, PackagesKeep, Types', NEW q \in Procs,
           Fits(procs[q]), procs'[q] = procs[q]
    PROVE  Fits(procs[q])'
  <1>1. /\ Len(theses) \in Nat /\ Len(theses') \in Nat /\ Len(theses) <= Len(theses')
        /\ Len(pkgs) \in Nat /\ Len(pkgs') \in Nat /\ Len(pkgs) <= Len(pkgs')
    BY LenProperties DEF Types, RowsKeep, PackagesKeep
  <1>2. \A t \in 1..Len(theses) : theses'[t].from = theses[t].from
    BY DEF RowsKeep
  <1> QED
    BY <1>1, <1>2 DEF Fits

LEMMA FitsStep ==
    ASSUME Types, RefersToExisting, WorkFits, NEW p \in Procs, StepOf(p)
    PROVE  WorkFits'
  <1> USE Domains
  <1>1. Types' /\ RowsKeep /\ PackagesKeep /\ OthersStay(p)
    BY KeepsStep
  <1>2. \A q \in Procs \ {p} : Fits(procs[q])'
    BY <1>1, FitsKeeps DEF WorkFits, OthersStay
  <1>3. /\ Len(theses) \in Nat /\ Len(theses') \in Nat /\ Len(theses) <= Len(theses')
        /\ Len(pkgs) \in Nat /\ Len(pkgs') \in Nat /\ Len(pkgs) <= Len(pkgs')
    BY <1>1, LenProperties DEF Types, RowsKeep, PackagesKeep
  <1>4. Fits(procs[p])
    BY DEF WorkFits
  <1>5. Ends(p) => Fits(procs[p])'
    BY EndsGives DEF Fits
  <1>6. Fits(procs[p])'
    <2>1. CASE \E s \in Stocks : DraftLooks(p, s)
      <3>1. PICK s \in Stocks : DraftLooks(p, s)
        BY <2>1
      <3> QED
        BY <3>1, StartsGives DEF DraftLooks, Fits
    <2>2. CASE \E k \in DOMAIN pkgs : ApproveLoads(p, k)
      <3>1. PICK k \in 1..Len(pkgs) : ApproveLoads(p, k)
        BY <2>2
      <3> QED
        BY <1>3, <3>1, StartsGives DEF ApproveLoads, Fits
    <2>3. CASE \E k \in DOMAIN pkgs : RejectLoads(p, k)
      <3>1. PICK k \in 1..Len(pkgs) : RejectLoads(p, k)
        BY <2>3
      <3> QED
        BY <1>3, <3>1, StartsGives DEF RejectLoads, Fits
    <2>4. CASE ApproveChecks(p)
      BY <1>3, <1>4, <1>5, <2>4, GoesGives DEF ApproveChecks, At, Fits
    <2>5. CASE ApproveInserts(p)
      <3>1. Inserting(p)
        BY <2>5 DEF ApproveInserts, Inserting
      <3>2. /\ Len(theses') = Len(theses) + 1 /\ procs[p].arg \in 1..Len(pkgs)
            /\ theses'[Len(theses) + 1].from = procs[p].arg
        BY <3>1, InsertGives DEF Inserting
      <3> QED
        BY <1>3, <2>5, <3>2, InsertMoves DEF Fits
    <2>6. CASE MarkLoads(p)
      <3>1. CASE Goes(p, "write")
        <4>1. /\ procs[p].cmd \in {"approve", "reject"} /\ procs[p].at = "mark"
              /\ UNCHANGED <<pkgs, theses>>
          BY <2>6 DEF MarkLoads
        <4> QED
          BY <1>4, <3>1, <4>1, GoesGives DEF Fits
      <3> QED
        BY <1>5, <2>6, <3>1 DEF MarkLoads
    <2>7. CASE \E t \in DOMAIN theses, cmd \in {"exit", "rewrite"} : ReviewLoads(p, cmd, t)
      <3>1. PICK t \in 1..Len(theses), cmd \in {"exit", "rewrite"} : ReviewLoads(p, cmd, t)
        BY <2>7
      <3> QED
        BY <1>3, <3>1, StartsGives DEF ReviewLoads, Fits
    <2>8. CASE RewriteUpdates(p)
      <3>1. CASE Goes(p, "draft")
        <4>1. procs[p].cmd = "rewrite" /\ procs[p].at = "update" /\ UNCHANGED <<pkgs, theses>>
          BY <2>8 DEF RewriteUpdates, At
        <4> QED
          BY <1>4, <3>1, <4>1, GoesGives DEF Fits
      <3> QED
        BY <1>5, <2>8, <3>1 DEF RewriteUpdates
    <2>9. CASE Ends(p)
      BY <1>5, <2>9
    <2> QED
      BY <2>1, <2>2, <2>3, <2>4, <2>5, <2>6, <2>7, <2>8, <2>9
      DEF StepOf, Onboard, Review, Die, DraftSaves, ApproveFails, ApproveCommitLost, MarkWrites,
          MarkFails, ExitUpdates, ReviewFails, RewriteRollsBack, RewriteCommits
  <1> QED
    BY <1>2, <1>6 DEF WorkFits

LEMMA LockedStep ==
    ASSUME Types, RefersToExisting, WorkFits, Locked, NEW p \in Procs, StepOf(p)
    PROVE  Locked'
  <1> USE Domains
  <1>1. Types' /\ RowsKeep /\ PackagesKeep /\ OthersStay(p)
    BY KeepsStep
  <1>2. /\ Len(theses) \in Nat /\ Len(theses') \in Nat /\ Len(theses) <= Len(theses')
    BY <1>1, LenProperties DEF Types, RowsKeep
  <1> DEFINE Draws(q) == procs[q].cmd = "rewrite" /\ procs[q].at = "draft"
  <1>3. CASE UNCHANGED <<holder, theses>> /\ ~Draws(p) /\ ~Draws(p)'
    BY <1>1, <1>3 DEF Locked, At, OthersStay
  <1>4. CASE Inserting(p) /\ ~Draws(p)'
    <2>1. /\ Len(theses') = Len(theses) + 1 /\ holder'[Len(theses) + 1] = Nobody
          /\ \A t \in 1..Len(theses) : holder'[t] = holder[t] /\ theses'[t] = theses[t]
      BY <1>4, InsertGives DEF Inserting
    <2>2. \A q \in Procs : Draws(q)' => q # p /\ procs[q].arg \in 1..Len(theses)
      BY <1>1, <1>4 DEF OthersStay, WorkFits, Fits
    <2>3. ~Draws(p)
      BY <1>4 DEF Inserting, At
    <2>4. ASSUME NEW t \in 1..Len(theses'), NEW q \in Procs
          PROVE  /\ holder'[t] = q <=> At(q, "rewrite", "draft")' /\ procs'[q].arg = t
                 /\ holder'[t] = q => theses'[t].status = "active"
      <3>1. CASE t \in 1..Len(theses)
        BY <1>1, <1>4, <2>1, <2>3, <3>1 DEF Locked, At, OthersStay
      <3>2. CASE t = Len(theses) + 1
        BY <1>1, <1>2, <2>1, <2>2, <3>2 DEF At, OthersStay
      <3> QED
        BY <1>2, <2>1, <3>1, <3>2
    <2> QED
      BY <2>4 DEF Locked
  <1>5. CASE ExitUpdates(p)
    <2>1. /\ holder[procs[p].arg] = Nobody /\ Len(theses') = Len(theses)
          /\ \A t \in 1..Len(theses) : t # procs[p].arg => theses'[t] = theses[t]
      BY <1>5, ExitGives
    <2>2. ~Draws(p) /\ ~Draws(p)' /\ UNCHANGED holder
      BY <1>5, EndsGives DEF ExitUpdates, At
    <2> QED
      BY <1>1, <2>1, <2>2 DEF Locked, At, OthersStay
  <1>6. CASE RewriteUpdates(p) /\ ~UNCHANGED holder
    <2> DEFINE t0 == procs[p].arg
    <2>1. /\ At(p, "rewrite", "update") /\ holder[t0] = Nobody /\ Matches(t0)
          /\ holder' = [holder EXCEPT ![t0] = p] /\ Goes(p, "draft") /\ UNCHANGED theses
      BY <1>6 DEF RewriteUpdates
    <2>2. t0 \in 1..Len(theses)
      BY <2>1 DEF At, WorkFits, Fits
    <2>3. theses[t0].status = "active"
      BY <2>1, <2>2 DEF Matches, Row
    <2>4. /\ holder'[t0] = p
          /\ \A t \in 1..Len(theses) : t # t0 => holder'[t] = holder[t]
      BY <2>1, <2>2
    <2>5. procs'[p].cmd = "rewrite" /\ procs'[p].at = "draft" /\ procs'[p].arg = t0
      BY <2>1, GoesGives DEF At
    <2>6. ASSUME NEW t \in 1..Len(theses), NEW q \in Procs
          PROVE  /\ holder'[t] = q <=> At(q, "rewrite", "draft")' /\ procs'[q].arg = t
                 /\ holder'[t] = q => theses'[t].status = "active"
      <3>1. CASE q = p
        BY <2>1, <2>3, <2>4, <2>5, <3>1 DEF Locked, At
      <3>2. CASE q # p
        BY <1>1, <2>1, <2>2, <2>4, <3>2 DEF Locked, At, OthersStay
      <3> QED
        BY <3>1, <3>2
    <2> QED
      BY <2>1, <2>6 DEF Locked
  <1>7. CASE /\ Ends(p) /\ UNCHANGED theses
             /\ \A t \in 1..Len(theses) : holder'[t] = IF holder[t] = p THEN Nobody ELSE holder[t]
    <2>1. ~Draws(p)'
      BY <1>7, EndsGives
    <2> QED
      BY <1>1, <1>7, <2>1 DEF Locked, At, OthersStay
  <1>8. CASE RewriteCommits(p)
    <2>1. /\ Len(theses') = Len(theses) + 1 /\ holder'[Len(theses) + 1] = Nobody
          /\ \A t \in 1..Len(theses) : t # procs[p].arg => theses'[t] = theses[t]
          /\ \A t \in 1..Len(theses) : holder'[t] = IF holder[t] = p THEN Nobody ELSE holder[t]
      BY <1>8, CommitGives
    <2>2. ~Draws(p)'
      BY <1>8, EndsGives DEF RewriteCommits
    <2>3. procs[p].arg \in 1..Len(theses) /\ holder[procs[p].arg] = p
      BY <1>8 DEF RewriteCommits, Locked, WorkFits, Fits, At
    <2>4. \A q \in Procs : Draws(q)' => q # p /\ procs[q].arg \in 1..Len(theses)
      BY <1>1, <2>2 DEF OthersStay, WorkFits, Fits
    <2>5. ASSUME NEW t \in 1..Len(theses'), NEW q \in Procs
          PROVE  /\ holder'[t] = q <=> At(q, "rewrite", "draft")' /\ procs'[q].arg = t
                 /\ holder'[t] = q => theses'[t].status = "active"
      <3>1. CASE t \in 1..Len(theses)
        BY <1>1, <2>1, <2>2, <2>3, <3>1 DEF Locked, At, OthersStay
      <3>2. CASE t = Len(theses) + 1
        BY <1>1, <1>2, <2>1, <2>4, <3>2 DEF At, OthersStay
      <3> QED
        BY <1>2, <2>1, <3>1, <3>2
    <2> QED
      BY <2>5 DEF Locked
  <1>9. CASE Onboard(p)
    <2>1. CASE \E s \in Stocks : DraftLooks(p, s)
      BY <1>3, <2>1, StartsGives DEF DraftLooks, Starts
    <2>2. CASE \E k \in DOMAIN pkgs : ApproveLoads(p, k)
      BY <1>3, <2>2, StartsGives DEF ApproveLoads, Starts
    <2>3. CASE \E k \in DOMAIN pkgs : RejectLoads(p, k)
      BY <1>3, <2>3, StartsGives DEF RejectLoads, Starts
    <2>4. CASE ApproveChecks(p)
      BY <1>3, <2>4, GoesGives, EndsGives DEF ApproveChecks, At
    <2>5. CASE ApproveInserts(p)
      BY <1>4, <2>5, InsertMoves DEF ApproveInserts, Inserting
    <2>6. CASE ApproveCommitLost(p)
      BY <1>4, <2>6, EndsGives DEF ApproveCommitLost, Inserting
    <2>7. CASE DraftSaves(p) \/ ApproveFails(p)
      BY <1>3, <2>7, EndsGives DEF DraftSaves, ApproveFails, At
    <2>8. CASE MarkLoads(p)
      BY <1>3, <2>8, GoesGives, EndsGives DEF MarkLoads
    <2>9. CASE MarkWrites(p) \/ MarkFails(p)
      BY <1>3, <2>9, EndsGives DEF MarkWrites, MarkFails
    <2> QED
      BY <1>9, <2>1, <2>2, <2>3, <2>4, <2>5, <2>6, <2>7, <2>8, <2>9 DEF Onboard
  <1>10. CASE Review(p)
    <2>1. CASE \E t \in DOMAIN theses, cmd \in {"exit", "rewrite"} : ReviewLoads(p, cmd, t)
      BY <1>3, <2>1, StartsGives DEF ReviewLoads, Starts
    <2>2. CASE ReviewFails(p)
      BY <1>3, <2>2, EndsGives DEF ReviewFails
    <2>3. CASE RewriteUpdates(p) /\ UNCHANGED holder
      <3>1. CASE Ends(p)
        BY <1>3, <2>3, <3>1, EndsGives DEF RewriteUpdates, At
      <3>2. CASE holder' = [holder EXCEPT ![procs[p].arg] = p]
        <4>1. holder[procs[p].arg] = Nobody /\ procs[p].arg \in 1..Len(theses)
          BY <2>3 DEF RewriteUpdates, At, WorkFits, Fits
        <4> QED
          BY <2>3, <3>2, <4>1
      <3> QED
        BY <2>3, <3>1, <3>2 DEF RewriteUpdates
    <2>4. CASE RewriteRollsBack(p)
      BY <1>7, <2>4, ReleasedGives DEF RewriteRollsBack
    <2> QED
      BY <1>5, <1>6, <1>8, <1>10, <2>1, <2>2, <2>3, <2>4 DEF Review
  <1>11. CASE Die(p)
    BY <1>7, <1>11, DieGives DEF Die
  <1> QED
    BY <1>9, <1>10, <1>11 DEF StepOf

\* But for the load of its package, no step makes a process check.
LEMMA CheckingStays ==
    ASSUME Types, RefersToExisting, WorkFits, NEW p \in Procs, StepOf(p),
           ~ \E k \in DOMAIN pkgs : ApproveLoads(p, k)
    PROVE  /\ raced \subseteq raced'
           /\ \A q \in Procs : Checking(q)' => Checking(q) /\ Stock(q)' = Stock(q)
           /\ At(p, "approve", "insert")' =>
                 UNCHANGED theses /\ ~HasActive(Stock(p))
  <1> USE Domains
  <1>1. Types' /\ RowsKeep /\ PackagesKeep /\ OthersStay(p)
    BY KeepsStep
  <1>2. \A q \in Procs : q # p /\ Checking(q)' => Checking(q) /\ Stock(q)' = Stock(q)
    BY <1>1 DEF OthersStay, Checking, Stock, WorkFits, Fits, PackagesKeep
  <1>3. UNCHANGED raced
    BY DEF StepOf, Onboard, Review, Die, DraftLooks, DraftSaves, RejectLoads, ApproveChecks,
       ApproveInserts, ApproveFails, ApproveCommitLost, MarkLoads, MarkWrites, MarkFails,
       ReviewLoads, ExitUpdates, ReviewFails, RewriteUpdates, RewriteRollsBack, RewriteCommits
  <1>4. /\ Checking(p)' => Checking(p) /\ Stock(p)' = Stock(p)
        /\ At(p, "approve", "insert")' => UNCHANGED theses /\ ~HasActive(Stock(p))
    <2>1. CASE Ends(p)
      BY <2>1, EndsGives DEF Checking, At
    <2>2. CASE ApproveChecks(p) /\ Goes(p, "insert")
      <3>1. ~HasActive(Stock(p)) /\ UNCHANGED <<pkgs, theses>>
        BY <2>2, EndsGives, GoesGives DEF ApproveChecks, Stock
      <3>2. Checking(p) /\ procs'[p].arg = procs[p].arg
        BY <2>2, GoesGives DEF ApproveChecks, Checking, At
      <3> QED
        BY <3>1, <3>2 DEF Stock
    <2>3. CASE ApproveInserts(p)
      BY <2>3, InsertMoves DEF Checking, At
    <2>4. CASE (MarkLoads(p) /\ Goes(p, "write")) \/ (RewriteUpdates(p) /\ Goes(p, "draft"))
      BY <2>4, GoesGives DEF Checking, At
    <2>5. CASE \/ \E s \in Stocks : DraftLooks(p, s)
               \/ \E k \in DOMAIN pkgs : RejectLoads(p, k)
               \/ \E t \in DOMAIN theses, cmd \in {"exit", "rewrite"} : ReviewLoads(p, cmd, t)
      BY <2>5, StartsGives DEF DraftLooks, RejectLoads, ReviewLoads, Checking, At
    <2> QED
      BY <2>1, <2>2, <2>3, <2>4, <2>5
      DEF StepOf, Onboard, Review, Die, DraftSaves, ApproveChecks, ApproveFails, ApproveCommitLost,
          MarkLoads, MarkWrites, MarkFails, ExitUpdates, ReviewFails, RewriteUpdates,
          RewriteRollsBack, RewriteCommits
  <1> QED
    BY <1>2, <1>3, <1>4

LEMMA RacesStep ==
    ASSUME Types, RefersToExisting, WorkFits, RacesKnown, NEW p \in Procs, StepOf(p)
    PROVE  RacesKnown'
  <1> USE Domains
  <1>1. CASE ~ \E k \in DOMAIN pkgs : ApproveLoads(p, k)
    BY <1>1, CheckingStays DEF RacesKnown
  <1>2. CASE \E k \in DOMAIN pkgs : ApproveLoads(p, k)
    <2>1. PICK k \in 1..Len(pkgs) : ApproveLoads(p, k)
      BY <1>2
    <2>2. /\ OthersStay(p) /\ UNCHANGED pkgs /\ procs'[p].arg = k
          /\ raced' = IF CheckingStock(p, pkgs[k].stock) THEN raced \cup {pkgs[k].stock} ELSE raced
      BY <2>1, StartsGives DEF ApproveLoads
    <2>3. \A q \in Procs : q # p => (Checking(q)' <=> Checking(q)) /\ Stock(q)' = Stock(q)
      BY <2>2 DEF OthersStay, Checking, Stock
    <2>4. Stock(p)' = pkgs[k].stock
      BY <2>2 DEF Stock
    <2>5. ASSUME NEW q \in Procs, q # p, Checking(q), Stock(q) = pkgs[k].stock
          PROVE  pkgs[k].stock \in raced'
      BY <2>2, <2>5 DEF CheckingStock, Checking, Stock
    <2>6. ASSUME NEW q \in Procs, NEW r \in Procs, q # r,
                 Checking(q)', Checking(r)', Stock(q)' = Stock(r)'
          PROVE  Stock(q)' \in raced'
      <3>1. CASE q = p
        BY <2>3, <2>4, <2>5, <2>6, <3>1
      <3>2. CASE r = p
        BY <2>3, <2>4, <2>5, <2>6, <3>2
      <3>3. CASE q # p /\ r # p
        BY <2>2, <2>3, <2>6, <3>3 DEF RacesKnown
      <3> QED
        BY <3>1, <3>2, <3>3
    <2> QED
      BY <2>6 DEF RacesKnown
  <1> QED
    BY <1>1, <1>2

LEMMA RacedGrows ==
    ASSUME Types, RefersToExisting, WorkFits, NEW p \in Procs, StepOf(p)
    PROVE  raced \subseteq raced'
  <1>1. CASE \E k \in DOMAIN pkgs : ApproveLoads(p, k)
    BY <1>1 DEF ApproveLoads
  <1> QED
    BY <1>1, CheckingStays

\* What a step makes of the active theses of a stock.
LEMMA ActiveStep ==
    ASSUME Types, RefersToExisting, WorkFits, Locked, NEW p \in Procs, StepOf(p),
           NEW s \in Stocks, HasActive(s)'
    PROVE  HasActive(s) \/ (Inserting(p) /\ s = Stock(p))
  <1> USE Domains
  <1>1. Types' /\ RowsKeep
    BY KeepsStep
  <1>2. DOMAIN theses' = 1..Len(theses') /\ Len(theses') \in Nat
    BY <1>1, LenProperties DEF Types
  <1>3. PICK t \in 1..Len(theses') : theses'[t].stock = s /\ theses'[t].status = "active"
    BY <1>2 DEF HasActive
  <1>4. CASE t \in 1..Len(theses)
    <2>1. theses[t].stock = s /\ theses[t].status = "active"
      BY <1>1, <1>3, <1>4 DEF RowsKeep, Row
    <2> QED
      BY <1>4, <2>1 DEF HasActive
  <1>5. CASE t \notin 1..Len(theses)
    <2>1. CASE Inserting(p)
      <3>1. t = Len(theses) + 1
        BY <1>5, <2>1, InsertGives DEF Inserting
      <3> QED
        BY <1>3, <2>1, <3>1, InsertGives DEF Inserting
    <2>2. CASE RewriteCommits(p)
      <3>1. /\ t = Len(theses) + 1 /\ procs[p].arg \in 1..Len(theses)
            /\ theses[procs[p].arg].stock = s
        BY <1>3, <1>5, <2>2, CommitGives
      <3>2. theses[procs[p].arg].status = "active"
        BY <2>2, <3>1 DEF RewriteCommits, Locked
      <3> QED
        BY <3>1, <3>2 DEF HasActive
    <2>3. CASE UNCHANGED theses \/ ExitUpdates(p)
      BY <1>5, <2>3, ExitGives
    <2> QED
      BY <2>1, <2>2, <2>3, RowWriters
  <1> QED
    BY <1>4, <1>5

LEMMA ChecksStep ==
    ASSUME Types, RefersToExisting, WorkFits, Locked, RacesKnown, CheckHolds,
           NEW p \in Procs, StepOf(p)
    PROVE  CheckHolds'
  <1> USE Domains
  <1>1. Types' /\ PackagesKeep /\ OthersStay(p) /\ raced \subseteq raced'
    BY KeepsStep, RacedGrows
  <1>2. ASSUME NEW q \in Procs, At(q, "approve", "insert")'
        PROVE  Stock(q)' \in raced' \/ ~HasActive(Stock(q))'
    <2>1. CASE q = p
      <3>1. ~ \E k \in DOMAIN pkgs : ApproveLoads(p, k)
        BY <1>2, <2>1, StartsGives DEF ApproveLoads, At
      <3>2. UNCHANGED theses /\ ~HasActive(Stock(p)) /\ Stock(p)' = Stock(p)
        BY <1>2, <2>1, <3>1, CheckingStays DEF At, Checking
      <3> QED
        BY <2>1, <3>2 DEF HasActive
    <2>2. CASE q # p
      <3>1. At(q, "approve", "insert") /\ Checking(q)
        BY <1>1, <1>2, <2>2 DEF OthersStay, At, Checking
      <3>2. Stock(q)' = Stock(q) /\ Stock(q) \in Stocks
        BY <1>1, <2>2, <3>1 DEF OthersStay, Stock, PackagesKeep, WorkFits, Fits, At, PackageFile
      <3>3. ASSUME Stock(q) \notin raced', HasActive(Stock(q))'
            PROVE  FALSE
        <4>0. PICK s \in Stocks : s = Stock(q)
          BY <3>2
        <4>1. HasActive(s)'
          BY <3>2, <3>3, <4>0 DEF HasActive
        <4>2. s \notin raced /\ ~HasActive(s)
          BY <1>1, <3>1, <3>2, <3>3, <4>0 DEF CheckHolds
        <4>3. Inserting(p) /\ s = Stock(p)
          BY <4>1, <4>2, ActiveStep
        <4>4. Checking(p)
          BY <4>3 DEF Inserting, At, Checking
        <4> QED
          BY <2>2, <3>1, <4>0, <4>2, <4>3, <4>4 DEF RacesKnown
      <3> QED
        BY <3>2, <3>3
    <2> QED
      BY <2>1, <2>2
  <1> QED
    BY <1>2 DEF CheckHolds

LEMMA OneStep ==
    ASSUME Types, RefersToExisting, WorkFits, Locked, CheckHolds, OneActive,
           NEW p \in Procs, StepOf(p)
    PROVE  OneActive'
  <1> USE Domains
  <1>1. Types' /\ RowsKeep /\ raced \subseteq raced'
    BY KeepsStep, RacedGrows
  <1>2. DOMAIN theses' = 1..Len(theses') /\ Len(theses') \in Nat
    BY <1>1, LenProperties DEF Types
  <1> DEFINE Both(t, u) ==
               /\ t # u
               /\ theses[t].status = "active" /\ theses[u].status = "active"
               /\ theses[t].stock = theses[u].stock
  <1>3. \A t, u \in 1..Len(theses) : Both(t, u) => theses[t].stock \in raced
    BY DEF OneActive
  <1>4. \A t, u \in 1..Len(theses) : Both(t, u)' => Both(t, u)
    BY <1>1 DEF RowsKeep, Row
  <1>5. \A t, u \in 1..Len(theses) : Both(t, u)' => theses'[t].stock \in raced'
    BY <1>1, <1>3, <1>4 DEF RowsKeep
  <1>6. CASE UNCHANGED theses \/ ExitUpdates(p)
    <2>1. Len(theses') = Len(theses)
      BY <1>6, ExitGives
    <2> QED
      BY <1>2, <1>5, <2>1 DEF OneActive
  <1>7. CASE Inserting(p)
    <2>0. PICK new \in Nat : new = Len(theses) + 1
      OBVIOUS
    <2>1. /\ new = Len(theses') /\ theses'[new].stock = Stock(p)
          /\ \A t \in 1..Len(theses) : theses'[t] = theses[t]
      BY <1>7, <2>0, InsertGives DEF Inserting
    <2>2. Stock(p) \in raced \/ ~HasActive(Stock(p))
      BY <1>7 DEF CheckHolds, Inserting
    <2>3. \A t \in 1..Len(theses) : Both(t, new)' => theses'[t].stock \in raced'
      BY <1>1, <2>1, <2>2 DEF HasActive
    <2> QED
      BY <1>2, <1>5, <2>0, <2>1, <2>3 DEF OneActive
  <1>8. CASE RewriteCommits(p)
    <2>0. PICK new \in Nat, old \in {procs[p].arg} : new = Len(theses) + 1 /\ old = procs[p].arg
      OBVIOUS
    <2>1. /\ new = Len(theses') /\ old \in 1..Len(theses)
          /\ theses'[new].stock = theses[old].stock
          /\ theses'[old].status = "exited"
          /\ \A t \in 1..Len(theses) : t # old => theses'[t] = theses[t]
      BY <1>8, <2>0, CommitGives
    <2>2. theses[old].status = "active"
      BY <1>8, <2>0, <2>1 DEF RewriteCommits, Locked
    <2>3. \A t \in 1..Len(theses) : Both(t, new)' => theses'[t].stock \in raced'
      BY <1>1, <1>3, <2>1, <2>2
    <2> QED
      BY <1>2, <1>5, <2>0, <2>1, <2>3 DEF OneActive
  <1> QED
    BY <1>6, <1>7, <1>8, RowWriters

LEMMA DoubtfulGrows ==
    ASSUME NEW p \in Procs, StepOf(p)
    PROVE  doubtful \subseteq doubtful'
BY DEF StepOf, Onboard, Review, Die, DraftLooks, DraftSaves, ApproveLoads, RejectLoads,
   ApproveChecks, ApproveInserts, ApproveFails, ApproveCommitLost, MarkLoads, MarkWrites,
   MarkFails, ReviewLoads, ExitUpdates, ReviewFails, RewriteUpdates, RewriteRollsBack,
   RewriteCommits, InDoubt

\* But for the load of a package, no step puts a process on one.
LEMMA OnPackageStays ==
    ASSUME Types, RefersToExisting, WorkFits, NEW p \in Procs, StepOf(p),
           ~ \E k \in DOMAIN pkgs : ApproveLoads(p, k) \/ RejectLoads(p, k)
    PROVE  \A q \in Procs : OnPackage(q)' =>
              OnPackage(q) /\ procs'[q].cmd = procs[q].cmd /\ procs'[q].arg = procs[q].arg
  <1>1. OthersStay(p)
    BY KeepsStep
  <1>2. OnPackage(p)' =>
           OnPackage(p) /\ procs'[p].cmd = procs[p].cmd /\ procs'[p].arg = procs[p].arg
    <2>1. CASE Ends(p)
      BY <2>1, EndsGives DEF OnPackage
    <2>2. CASE \/ ApproveChecks(p) /\ Goes(p, "insert")
               \/ MarkLoads(p) /\ Goes(p, "write")
               \/ RewriteUpdates(p) /\ Goes(p, "draft")
      BY <2>2, GoesGives DEF OnPackage
    <2>3. CASE ApproveInserts(p)
      BY <2>3, InsertMoves DEF OnPackage, ApproveInserts, At
    <2>4. CASE \/ \E s \in Stocks : DraftLooks(p, s)
               \/ \E t \in DOMAIN theses, cmd \in {"exit", "rewrite"} : ReviewLoads(p, cmd, t)
      BY <2>4, StartsGives, Domains DEF DraftLooks, ReviewLoads, OnPackage
    <2> QED
      BY <2>1, <2>2, <2>3, <2>4
      DEF StepOf, Onboard, Review, Die, DraftSaves, ApproveChecks, ApproveFails, ApproveCommitLost,
          MarkLoads, MarkWrites, MarkFails, ExitUpdates, ReviewFails, RewriteUpdates,
          RewriteRollsBack, RewriteCommits
  <1> QED
    BY <1>1, <1>2 DEF OthersStay, OnPackage

LEMMA OverlapStep ==
    ASSUME Types, RefersToExisting, WorkFits, OverlapKnown, NEW p \in Procs, StepOf(p)
    PROVE  OverlapKnown'
  <1> USE Domains
  <1>1. CASE ~ \E k \in DOMAIN pkgs : ApproveLoads(p, k) \/ RejectLoads(p, k)
    BY <1>1, OnPackageStays, DoubtfulGrows DEF OverlapKnown
  <1>2. CASE \E k \in DOMAIN pkgs : ApproveLoads(p, k) \/ RejectLoads(p, k)
    <2>1. PICK k \in 1..Len(pkgs) : ApproveLoads(p, k) \/ RejectLoads(p, k)
      BY <1>2
    <2>2. /\ OthersStay(p) /\ procs'[p].arg = k
          /\ doubtful' = IF OthersOn(p, k) THEN doubtful \cup {k} ELSE doubtful
      BY <2>1, StartsGives DEF ApproveLoads, RejectLoads
    <2>3. ASSUME NEW q \in Procs, q # p, OnPackage(q), procs[q].arg = k
          PROVE  k \in doubtful'
      BY <2>2, <2>3 DEF OthersOn, OnPackage
    <2>4. ASSUME NEW q \in Procs, NEW r \in Procs, q # r,
                 OnPackage(q)', OnPackage(r)', procs'[q].arg = procs'[r].arg
          PROVE  procs'[q].arg \in doubtful'
      <3>1. CASE q = p
        BY <2>2, <2>3, <2>4, <3>1 DEF OthersStay, OnPackage
      <3>2. CASE r = p
        BY <2>2, <2>3, <2>4, <3>2 DEF OthersStay, OnPackage
      <3>3. CASE q # p /\ r # p
        BY <2>2, <2>4, <3>3 DEF OthersStay, OnPackage, OverlapKnown
      <3> QED
        BY <3>1, <3>2, <3>3
    <2> QED
      BY <2>4 DEF OverlapKnown
  <1> QED
    BY <1>1, <1>2

\* What p makes of package k.
LEMMA PackageStep ==
    ASSUME Types, RefersToExisting, WorkFits, NEW p \in Procs, StepOf(p), NEW k \in 1..Len(pkgs)
    PROVE  \/ pkgs'[k] = pkgs[k]
           \/ MarkWrites(p) /\ OnPackage(p) /\ procs[p].arg = k
           \/ Tearing(p) /\ k \in doubtful'
  <1>1. CASE UNCHANGED pkgs
    BY <1>1
  <1>2. CASE DraftSaves(p)
    BY <1>2, NewPackage
  <1>3. CASE MarkWrites(p)
    BY <1>3, MarkGives
  <1>4. CASE Tearing(p)
    BY <1>4, TearsGives DEF Tearing
  <1> QED
    BY <1>1, <1>2, <1>3, <1>4, PackageWriters

LEMMA PendingStep ==
    ASSUME Types, RefersToExisting, WorkFits, OverlapKnown, StillPending,
           NEW p \in Procs, StepOf(p)
    PROVE  StillPending'
  <1> USE Domains
  <1>1. OthersStay(p) /\ doubtful \subseteq doubtful'
    BY KeepsStep, DoubtfulGrows
  <1>2. ASSUME NEW q \in Procs, q # p, procs[q].cmd = "approve" \/ procs[q].at = "write"
        PROVE  pkgs'[procs[q].arg].status = "pending" \/ procs[q].arg \in doubtful'
    <2>1. OnPackage(q) /\ procs[q].arg \in 1..Len(pkgs)
      BY <1>2 DEF WorkFits, Fits, OnPackage
    <2>2. PICK k \in 1..Len(pkgs) : k = procs[q].arg
      BY <2>1
    <2>3. pkgs[k].status = "pending" \/ k \in doubtful
      BY <1>2, <2>2 DEF StillPending
    <2>4. CASE pkgs'[k] = pkgs[k]
      BY <1>1, <2>2, <2>3, <2>4
    <2>5. CASE OnPackage(p) /\ procs[p].arg = k
      BY <1>1, <1>2, <2>1, <2>2, <2>5 DEF OverlapKnown
    <2>6. CASE k \in doubtful'
      BY <2>2, <2>6
    <2> QED
      BY <2>4, <2>5, <2>6, PackageStep
  <1>3. ASSUME procs'[p].cmd = "approve" \/ procs'[p].at = "write"
        PROVE  pkgs'[procs'[p].arg].status = "pending" \/ procs'[p].arg \in doubtful'
    <2>1. ~Ends(p)
      BY <1>3, EndsGives
    <2>2. CASE \E k \in DOMAIN pkgs : ApproveLoads(p, k)
      <3>1. PICK k \in 1..Len(pkgs) : ApproveLoads(p, k)
        BY <2>2
      <3> QED
        BY <3>1, StartsGives DEF ApproveLoads
    <2>3. CASE \/ \E s \in Stocks : DraftLooks(p, s)
               \/ \E k \in DOMAIN pkgs : RejectLoads(p, k)
               \/ \E t \in DOMAIN theses, cmd \in {"exit", "rewrite"} : ReviewLoads(p, cmd, t)
      BY <1>3, <2>3, StartsGives DEF DraftLooks, RejectLoads, ReviewLoads
    <2>4. CASE ApproveChecks(p) /\ Goes(p, "insert")
      BY <1>1, <2>4, GoesGives DEF ApproveChecks, At, StillPending
    <2>5. CASE ApproveInserts(p)
      BY <1>1, <2>5, InsertMoves DEF ApproveInserts, At, StillPending
    <2>6. CASE MarkLoads(p) /\ Goes(p, "write")
      <3>1. pkgs[procs[p].arg].status = "pending" /\ UNCHANGED pkgs
        BY <2>1, <2>6 DEF MarkLoads
      <3> QED
        BY <2>6, <3>1, GoesGives
    <2>7. CASE RewriteUpdates(p) /\ Goes(p, "draft")
      BY <1>3, <2>7, GoesGives DEF RewriteUpdates, At
    <2> QED
      BY <2>1, <2>2, <2>3, <2>4, <2>5, <2>6, <2>7
      DEF StepOf, Onboard, Review, Die, DraftSaves, ApproveChecks, ApproveFails, ApproveCommitLost,
          MarkLoads, MarkWrites, MarkFails, ExitUpdates, ReviewFails, RewriteUpdates,
          RewriteRollsBack, RewriteCommits
  <1> QED
    BY <1>1, <1>2, <1>3 DEF StillPending, OthersStay

ApprovedHasThesis ==
    \A k \in 1..Len(pkgs) : pkgs[k].status = "approved" =>
       pkgs[k].thesis \in 1..Len(theses) /\ theses[pkgs[k].thesis].from = k

\* What is known of the package k a thesis t was onboarded from.
Registered(t, k) ==
    \/ k = 0
    \/ k \in doubtful
    \/ pkgs[k].status = "approved" /\ pkgs[k].thesis = t
    \/ \E p \in Procs : procs[p].cmd = "approve" /\ procs[p].made = t /\ procs[p].arg = k

AllRegistered == \A t \in 1..Len(theses) : Registered(t, theses[t].from)

LEMMA RegisteredMeans ==
    Types /\ RefersToExisting => (ApprovedIsRegistered <=> ApprovedHasThesis /\ AllRegistered)
  <1> SUFFICES ASSUME Types, RefersToExisting
               PROVE  ApprovedIsRegistered <=> ApprovedHasThesis /\ AllRegistered
    OBVIOUS
  <1> USE Domains
  <1>1. \A k \in 1..Len(pkgs) : pkgs[k].thesis \in Nat /\ pkgs[k].thesis <= Len(theses)
    BY DEF PackageFile, RefersToExisting
  <1>2. \A k \in 1..Len(pkgs) : pkgs[k].thesis # 0 <=> pkgs[k].thesis \in 1..Len(theses)
    BY <1>1
  <1>3. ApprovedHasThesis <=>
           \A k \in DOMAIN pkgs : pkgs[k].status = "approved" =>
              pkgs[k].thesis # 0 /\ theses[pkgs[k].thesis].from = k
    BY <1>2 DEF ApprovedHasThesis
  <1> QED
    BY <1>3 DEF ApprovedIsRegistered, AllRegistered, Registered

LEMMA ApprovedStep ==
    ASSUME Types, RefersToExisting, WorkFits, ApprovedHasThesis, NEW p \in Procs, StepOf(p)
    PROVE  ApprovedHasThesis'
  <1> USE Domains
  <1>1. RowsKeep /\ Types'
    BY KeepsStep
  <1>2. Len(theses) \in Nat /\ Len(theses') \in Nat /\ Len(theses) <= Len(theses')
    BY <1>1, LenProperties DEF RowsKeep, Types
  <1>3. CASE UNCHANGED pkgs
    BY <1>1, <1>2, <1>3 DEF ApprovedHasThesis, RowsKeep
  <1>4. CASE DraftSaves(p) /\ UNCHANGED theses
    BY <1>4, NewPackage DEF ApprovedHasThesis
  <1>5. CASE MarkWrites(p) /\ UNCHANGED theses
    <2>1. procs[p].cmd = "approve" =>
             procs[p].made \in 1..Len(theses) /\ theses[procs[p].made].from = procs[p].arg
      BY <1>5 DEF MarkWrites, WorkFits, Fits
    <2> QED
      BY <1>5, <2>1, MarkGives DEF ApprovedHasThesis
  <1>6. CASE Tearing(p) /\ UNCHANGED theses
    BY <1>6, TearsGives DEF ApprovedHasThesis, Tearing
  <1> QED
    BY <1>3, <1>4, <1>5, <1>6, PackageWriters

\* An approval that has made thesis t of package k: its next step keeps what is
\* known of the two.
LEMMA MakerStep ==
    ASSUME Types, RefersToExisting, WorkFits, StillPending, NEW p \in Procs, StepOf(p),
           procs[p].cmd = "approve", NEW t \in 1..Len(theses), NEW k \in 1..Len(pkgs),
           procs[p].made = t, procs[p].arg = k
    PROVE  Registered(t, k)'
  <1>1. Len(theses) \in Nat /\ procs[p].at \in {"mark", "write"}
    BY Domains DEF WorkFits, Fits
  <1>2. MarkLoads(p) \/ MarkWrites(p) \/ MarkFails(p) \/ Die(p)
    BY <1>1 DEF StepOf, Onboard, Review, DraftLooks, DraftSaves, ApproveLoads, RejectLoads,
       ApproveChecks, ApproveInserts, ApproveFails, ApproveCommitLost, ReviewLoads, ExitUpdates,
       ReviewFails, RewriteUpdates, RewriteRollsBack, RewriteCommits, Starts, At
  <1>3. CASE MarkLoads(p)
    <2>1. UNCHANGED doubtful
      BY <1>3 DEF MarkLoads
    <2>2. CASE Goes(p, "write")
      BY <2>2, GoesGives DEF Registered
    <2>3. CASE pkgs[k].status # "pending"
      BY <2>1, <2>3 DEF StillPending, Registered
    <2> QED
      BY <1>3, <2>2, <2>3 DEF MarkLoads
  <1>4. CASE MarkWrites(p)
    BY <1>4, MarkGives DEF Registered
  <1>5. CASE MarkFails(p) \/ Die(p)
    BY <1>1, <1>5 DEF MarkFails, Die, InDoubt, Registered
  <1> QED
    BY <1>2, <1>3, <1>4, <1>5

LEMMA RegisteredStep ==
    ASSUME Types, RefersToExisting, WorkFits, StillPending, OverlapKnown,
           NEW p \in Procs, StepOf(p), NEW t \in 1..Len(theses), Registered(t, theses[t].from)
    PROVE  Registered(t, theses[t].from)'
  <1> USE Domains
  <1>1. RowsKeep /\ PackagesKeep /\ OthersStay(p) /\ doubtful \subseteq doubtful'
    BY KeepsStep, DoubtfulGrows
  <1>2. theses'[t].from = theses[t].from /\ theses[t].from \in 0..Len(pkgs)
    BY <1>1 DEF RowsKeep, RefersToExisting, Row
  <1>3. PICK k \in 0..Len(pkgs) : k = theses[t].from
    BY <1>2
  <1>4. Registered(t, k)'
    <2>1. CASE k = 0 \/ k \in doubtful
      BY <1>1, <2>1 DEF Registered
    <2>2. CASE k \in 1..Len(pkgs) /\ pkgs[k].status = "approved" /\ pkgs[k].thesis = t
      <3>1. CASE pkgs'[k] = pkgs[k]
        BY <2>2, <3>1 DEF Registered
      <3>2. CASE MarkWrites(p) /\ procs[p].arg = k
        <4>1. k \in doubtful
          BY <2>2, <3>2 DEF MarkWrites, StillPending
        <4> QED
          BY <1>1, <4>1 DEF Registered
      <3>3. CASE k \in doubtful'
        BY <3>3 DEF Registered
      <3> QED
        BY <2>2, <3>1, <3>2, <3>3, PackageStep
    <2>3. CASE /\ k \in 1..Len(pkgs)
               /\ \E q \in Procs :
                     procs[q].cmd = "approve" /\ procs[q].made = t /\ procs[q].arg = k
      <3>1. PICK q \in Procs :
                     procs[q].cmd = "approve" /\ procs[q].made = t /\ procs[q].arg = k
        BY <2>3
      <3>2. CASE q = p
        BY <2>3, <3>1, <3>2, MakerStep
      <3>3. CASE q # p
        BY <1>1, <3>1, <3>3 DEF OthersStay, Registered
      <3> QED
        BY <3>2, <3>3
    <2> QED
      BY <1>3, <2>1, <2>2, <2>3 DEF Registered
  <1> QED
    BY <1>2, <1>3, <1>4 DEF Registered

LEMMA RegisteredAll ==
    ASSUME Types, RefersToExisting, WorkFits, StillPending, OverlapKnown, ApprovedIsRegistered,
           NEW p \in Procs, StepOf(p)
    PROVE  ApprovedIsRegistered'
  <1> USE Domains
  <1>1. Types' /\ RefersToExisting' /\ ApprovedHasThesis'
    BY KeepsStep, RefersStep, RegisteredMeans, ApprovedStep
  <1>2. \A t \in 1..Len(theses) : Registered(t, theses[t].from)'
    BY RegisteredMeans, RegisteredStep DEF AllRegistered
  <1>3. AllRegistered'
    <2>1. CASE UNCHANGED theses \/ ExitUpdates(p)
      BY <1>2, <2>1, ExitGives DEF AllRegistered
    <2>2. CASE Inserting(p) /\ (ApproveInserts(p) \/ ApproveCommitLost(p))
      <3>0. PICK new \in Nat : new = Len(theses) + 1
        OBVIOUS
      <3>1. Len(theses') = new /\ theses'[new].from = procs[p].arg
        BY <2>2, <3>0, InsertGives DEF Inserting
      <3>2. Registered(new, theses[new].from)'
        <4>1. CASE ApproveInserts(p)
          BY <3>0, <3>1, <4>1, InsertMoves DEF Registered
        <4>2. CASE ApproveCommitLost(p)
          BY <3>1, <4>2 DEF ApproveCommitLost, InDoubt, Registered
        <4> QED
          BY <2>2, <4>1, <4>2
      <3> QED
        BY <1>2, <3>0, <3>1, <3>2 DEF AllRegistered
    <2>3. CASE RewriteCommits(p)
      <3>0. PICK new \in Nat : new = Len(theses) + 1
        OBVIOUS
      <3>1. Len(theses') = new /\ theses'[new].from = 0
        BY <2>3, <3>0, CommitGives
      <3> QED
        BY <1>2, <3>0, <3>1 DEF AllRegistered, Registered
    <2> QED
      BY <2>1, <2>2, <2>3, RowWriters
  <1>4. Types' /\ RefersToExisting' =>
           (ApprovedIsRegistered' <=> ApprovedHasThesis' /\ AllRegistered')
    BY RegisteredMeans, PTL
  <1> QED
    BY <1>1, <1>3, <1>4

LEMMA FirstLogGives ==
    ASSUME NEW t \in Nat
    PROVE  Len(FirstLog(t)) = 1 /\ FirstLog(t)[1].type = "onboarding"
BY DEF FirstLog, Entry

LEMMA ExitLogGives ==
    ASSUME NEW log \in Seq(LogEntry), Len(log) = 1
    PROVE  /\ Len(ExitLog(log)) = 2 /\ ExitLog(log)[1] = log[1]
           /\ ExitLog(log)[2].type = "exit"
  <1> DEFINE more == <<Entry("exit", 0)>>
  <1>1. Entry("exit", 0) \in LogEntry
    BY DEF Entry, LogEntry
  <1>2. more \in Seq(LogEntry) /\ Len(more) = 1 /\ more[1] = Entry("exit", 0)
    BY <1>1
  <1>3. ExitLog(log) = log \o more
    BY DEF ExitLog
  <1> HIDE DEF more
  <1>4. /\ Len(log \o more) = Len(log) + Len(more)
        /\ \A i \in 1..Len(log) + Len(more) :
              (log \o more)[i] = IF i <= Len(log) THEN log[i] ELSE more[i - Len(log)]
    BY <1>2, ConcatProperties
  <1>5. Entry("exit", 0).type = "exit"
    BY DEF Entry
  <1> QED
    BY <1>2, <1>3, <1>4, <1>5

LEMMA RewriteLogGives ==
    ASSUME NEW log \in Seq(LogEntry), Len(log) = 1, NEW u \in Nat
    PROVE  /\ Len(RewriteLog(log, u)) = 3 /\ RewriteLog(log, u)[1] = log[1]
           /\ RewriteLog(log, u)[2].type = "rewrite"
           /\ RewriteLog(log, u)[3].type = "rewrite_link" /\ RewriteLog(log, u)[3].ref = u
  <1> DEFINE a == Entry("rewrite", 0)
             b == Entry("rewrite_link", u)
             more == <<a, b>>
  <1>1. /\ a \in LogEntry /\ a.type = "rewrite"
        /\ b \in LogEntry /\ b.type = "rewrite_link" /\ b.ref = u
    BY DEF Entry, LogEntry
  <1>2. RewriteLog(log, u) = log \o more
    BY DEF RewriteLog
  <1> HIDE DEF a, b
  <1>3. more \in Seq(LogEntry) /\ Len(more) = 2 /\ more[1] = a /\ more[2] = b
    BY <1>1
  <1> HIDE DEF more
  <1>4. /\ Len(log \o more) = Len(log) + Len(more)
        /\ \A i \in 1..Len(log) + Len(more) :
              (log \o more)[i] = IF i <= Len(log) THEN log[i] ELSE more[i - Len(log)]
    BY <1>3, ConcatProperties
  <1> QED
    BY <1>1, <1>2, <1>3, <1>4

LEMMA LivesStep ==
    ASSUME Types, RefersToExisting, WorkFits, Locked, Lives, NEW p \in Procs, StepOf(p)
    PROVE  Lives'
  <1> USE Domains
  <1>1. RowsKeep /\ Types'
    BY KeepsStep
  <1>2. CASE UNCHANGED theses
    BY <1>2 DEF Lives, LifeOf, Open, Sold, Replaced, Heirs
  <1>3. CASE Inserting(p)
    <2>0. PICK new \in Nat : new = Len(theses) + 1
      OBVIOUS
    <2>1. /\ Len(theses') = new
          /\ \A t \in 1..Len(theses) : theses'[t] = theses[t]
          /\ theses'[new].status = "active" /\ theses'[new].old = 0
          /\ theses'[new].log = FirstLog(0)
      BY <1>3, <2>0, InsertGives DEF Inserting
    <2>2. \A t \in 1..Len(theses) : Heirs(t)' = Heirs(t)
      BY <2>0, <2>1 DEF Heirs
    <2>3. \A t \in 1..Len(theses) : LifeOf(t)'
      BY <2>1, <2>2 DEF Lives, LifeOf, Open, Sold, Replaced
    <2>4. Heirs(new)' = {}
      BY <2>0, <2>1 DEF Heirs, RefersToExisting, Row
    <2>5. Open(new)'
      BY <2>1, <2>4, FirstLogGives DEF Open
    <2> QED
      BY <2>0, <2>1, <2>3, <2>5 DEF Lives, LifeOf
  <1>4. CASE ExitUpdates(p) /\ ~UNCHANGED theses
    <2>0. PICK t0 \in 1..Len(theses) : t0 = procs[p].arg
      BY <1>4, ExitGives
    <2>1. /\ Len(theses') = Len(theses)
          /\ \A t \in 1..Len(theses) : t # t0 => theses'[t] = theses[t]
          /\ theses[t0].status = "active" /\ theses'[t0].status = "exited"
          /\ theses'[t0].log = ExitLog(theses[t0].log)
      BY <1>4, <2>0, ExitGives DEF Row
    <2>2. \A t \in 1..Len(theses) : Heirs(t)' = Heirs(t)
      BY <1>1, <2>1 DEF Heirs, RowsKeep
    <2>3. \A t \in 1..Len(theses) : t # t0 => LifeOf(t)'
      BY <2>1, <2>2 DEF Lives, LifeOf, Open, Sold, Replaced
    <2>4. Open(t0)
      BY <2>1 DEF Lives, LifeOf, Sold, Replaced
    <2>5. theses[t0].log \in Seq(LogEntry)
      BY DEF Row
    <2>6. /\ Len(theses'[t0].log) = 2 /\ theses'[t0].log[1].type = "onboarding"
          /\ theses'[t0].log[2].type = "exit"
      BY <2>1, <2>4, <2>5, ExitLogGives DEF Open
    <2>7. Sold(t0)'
      BY <2>1, <2>2, <2>4, <2>6 DEF Open, Sold
    <2> QED
      BY <2>1, <2>3, <2>7 DEF Lives, LifeOf
  <1>5. CASE RewriteCommits(p)
    <2>0. PICK new \in Nat, t0 \in 1..Len(theses) : new = Len(theses) + 1 /\ t0 = procs[p].arg
      BY <1>5, CommitGives
    <2>1. /\ Len(theses') = new
          /\ \A t \in 1..Len(theses) : t # t0 => theses'[t] = theses[t]
          /\ theses'[t0].status = "exited"
          /\ theses'[t0].log = RewriteLog(theses[t0].log, new)
          /\ theses'[new].status = "active" /\ theses'[new].old = t0
          /\ theses'[new].log = FirstLog(t0)
      BY <1>5, <2>0, CommitGives
    <2>2. theses[t0].status = "active"
      BY <1>5, <2>0 DEF RewriteCommits, Locked
    <2>3. \A t \in 1..Len(theses) : theses'[t].old = theses[t].old
      BY <1>1 DEF RowsKeep
    <2>4. \A t \in 1..Len(theses) : t # t0 => Heirs(t)' = Heirs(t)
      BY <2>0, <2>1, <2>3 DEF Heirs
    <2>5. Open(t0)
      BY <2>2 DEF Lives, LifeOf, Sold, Replaced
    <2>6. Heirs(t0)' = {new}
      <3>1. \A u \in 1..Len(theses) : theses[u].old # t0
        BY <2>5 DEF Heirs, Open
      <3>2. \A u \in 1..Len(theses') : theses'[u].old = t0 <=> u = new
        BY <2>0, <2>1, <2>3, <3>1
      <3> QED
        BY <2>0, <2>1, <3>2 DEF Heirs
    <2>7. Heirs(new)' = {}
      <3>1. \A u \in 1..Len(theses) : theses[u].old < u
        BY DEF RefersToExisting
      <3>2. \A u \in 1..Len(theses) : theses[u].old \in Nat
        BY DEF Row
      <3>3. \A u \in 1..Len(theses') : theses'[u].old # new
        BY <2>0, <2>1, <2>3, <3>1, <3>2
      <3> QED
        BY <2>0, <3>3 DEF Heirs
    <2>8. \A t \in 1..Len(theses) : t # t0 => LifeOf(t)'
      BY <2>1, <2>4 DEF Lives, LifeOf, Open, Sold, Replaced
    <2>9. theses[t0].log \in Seq(LogEntry)
      BY DEF Row
    <2>10. /\ Len(theses'[t0].log) = 3 /\ theses'[t0].log[1].type = "onboarding"
           /\ theses'[t0].log[2].type = "rewrite"
           /\ theses'[t0].log[3].type = "rewrite_link" /\ theses'[t0].log[3].ref = new
      BY <2>0, <2>1, <2>5, <2>9, RewriteLogGives DEF Open
    <2>11. Replaced(t0)'
      BY <2>1, <2>6, <2>10 DEF Replaced
    <2>12. Open(new)'
      BY <2>1, <2>7, FirstLogGives DEF Open
    <2> QED
      BY <2>0, <2>1, <2>8, <2>11, <2>12 DEF Lives, LifeOf
  <1> QED
    BY <1>2, <1>3, <1>4, <1>5, RowWriters

LEMMA SameStockStep ==
    ASSUME Types, RefersToExisting, WorkFits, SameStock, NEW p \in Procs, StepOf(p)
    PROVE  SameStock'
  <1> USE Domains
  <1>1. RowsKeep /\ Types'
    BY KeepsStep
  <1>2. \A t \in 1..Len(theses) : theses[t].old \in 0..Len(theses)
    BY DEF Row, RefersToExisting
  <1>3. \A t \in 1..Len(theses) :
           theses'[t].old # 0 => theses'[theses'[t].old].stock = theses'[t].stock
    BY <1>1, <1>2 DEF RowsKeep, SameStock
  <1>4. CASE UNCHANGED theses \/ ExitUpdates(p)
    BY <1>3, <1>4, ExitGives DEF SameStock
  <1>5. CASE Inserting(p)
    <2>1. Len(theses') = Len(theses) + 1 /\ theses'[Len(theses) + 1].old = 0
      BY <1>5, InsertGives DEF Inserting
    <2> QED
      BY <1>3, <2>1 DEF SameStock
  <1>6. CASE RewriteCommits(p)
    <2>1. /\ Len(theses') = Len(theses) + 1 /\ procs[p].arg \in 1..Len(theses)
          /\ theses'[Len(theses) + 1].old = procs[p].arg
          /\ theses'[Len(theses) + 1].stock = theses[procs[p].arg].stock
      BY <1>6, CommitGives
    <2> QED
      BY <1>1, <1>3, <2>1 DEF SameStock, RowsKeep
  <1> QED
    BY <1>4, <1>5, <1>6, RowWriters

-----------------------------------------------------------------------------
(* The theorems *)

LEMMA InvInit == Init => Inv
  <1> SUFFICES ASSUME Init PROVE Inv
    OBVIOUS
  <1>1. Types
    BY EmptySeq DEF Init, Types, Work, Idle
  <1>2. /\ Len(pkgs) = 0 /\ Len(theses) = 0 /\ DOMAIN pkgs = {} /\ DOMAIN theses = {}
        /\ procs = [p \in Procs |-> Idle]
    BY DEF Init
  <1>3. \A p \in Procs : procs[p].cmd = "none" /\ procs[p].at = "idle" /\ procs[p].made = 0
    BY <1>2 DEF Idle
  <1>4. RefersToExisting /\ Locked /\ OneActive /\ ApprovedIsRegistered /\ Lives /\ SameStock
    BY <1>2 DEF RefersToExisting, Locked, OneActive, ApprovedIsRegistered, Lives, SameStock
  <1>5. WorkFits /\ RacesKnown /\ CheckHolds /\ OverlapKnown /\ StillPending
    BY <1>3 DEF WorkFits, Fits, RacesKnown, CheckHolds, OverlapKnown, StillPending, Checking,
       OnPackage, At
  <1> QED
    BY <1>1, <1>4, <1>5 DEF Inv

LEMMA InvStep == Inv /\ [Next]_vars => Inv'
  <1> SUFFICES ASSUME Inv, [Next]_vars PROVE Inv'
    OBVIOUS
  <1>1. CASE Next
    <2>1. PICK p \in Procs : StepOf(p)
      BY <1>1 DEF Next, StepOf
    <2> QED
      BY <2>1, KeepsStep, RefersStep, FitsStep, LockedStep, RacesStep, ChecksStep, OneStep,
         OverlapStep, PendingStep, RegisteredAll, LivesStep, SameStockStep DEF Inv
  <1>2. CASE UNCHANGED vars
    BY <1>2 DEF vars, Inv, Types, RefersToExisting, WorkFits, Fits, Locked, At, RacesKnown,
       Checking, Stock, CheckHolds, HasActive, OneActive, OverlapKnown, OnPackage, StillPending,
       ApprovedIsRegistered, Lives, LifeOf, Open, Sold, Replaced, Heirs, SameStock
  <1> QED
    BY <1>1, <1>2

LEMMA Invariant == Spec => []Inv
BY InvInit, InvStep, PTL DEF Spec

LEMMA InvTypes == Inv => TypeOK
  <1> SUFFICES ASSUME Inv PROVE TypeOK
    OBVIOUS
  <1> USE Domains DEF Inv
  <1>1. \A k \in DOMAIN pkgs :
           /\ pkgs[k].stock \in Stocks /\ pkgs[k].thesis \in 0..Len(theses)
           /\ pkgs[k].status \in {"pending", "approved", "rejected", "torn"}
    BY DEF PackageFile, RefersToExisting
  <1>2. \A t \in DOMAIN theses :
           /\ theses[t].stock \in Stocks /\ theses[t].status \in {"active", "exited"}
           /\ theses[t].from \in 0..Len(pkgs) /\ theses[t].old \in 0..(t - 1)
    BY DEF Row, RefersToExisting
  <1>3. \A t \in DOMAIN holder :
           holder[t] # Nobody => At(holder[t], "rewrite", "draft") /\ procs[holder[t]].arg = t
    BY DEF Locked
  <1> QED
    BY <1>1, <1>2, <1>3 DEF Types, TypeOK

LEMMA InvSuccession == Inv => Succession
  <1> SUFFICES ASSUME Inv, NEW t \in 1..Len(theses)
               PROVE  /\ Cardinality(Entries(t, {"exit", "rewrite"})) =
                            IF theses[t].status = "exited" THEN 1 ELSE 0
                      /\ Cardinality(Entries(t, {"rewrite_link"})) =
                            Cardinality(Entries(t, {"rewrite"}))
                      /\ {theses[t].log[i].ref : i \in Entries(t, {"rewrite_link"})} = Heirs(t)
                      /\ theses[t].old # 0 => theses[theses[t].old].stock = theses[t].stock
    BY Domains DEF Inv, Succession, Heirs
  <1> USE Domains DEF Inv
  <1>1. theses[t].log \in Seq(LogEntry) /\ DOMAIN theses[t].log = 1..Len(theses[t].log)
    BY LenProperties DEF Row
  <1>2. Cardinality({}) = 0 /\ Cardinality({2}) = 1 /\ Cardinality({3}) = 1
    BY FS_EmptySet, FS_Singleton
  <1>3. theses[t].old # 0 => theses[theses[t].old].stock = theses[t].stock
    BY DEF SameStock
  <1>4. CASE Open(t)
    <2>1. /\ Entries(t, {"exit", "rewrite"}) = {} /\ Entries(t, {"rewrite"}) = {}
          /\ Entries(t, {"rewrite_link"}) = {}
      BY <1>1, <1>4 DEF Open, Entries
    <2> QED
      BY <1>2, <1>3, <1>4, <2>1 DEF Open
  <1>5. CASE Sold(t)
    <2>1. /\ Entries(t, {"exit", "rewrite"}) = {2} /\ Entries(t, {"rewrite"}) = {}
          /\ Entries(t, {"rewrite_link"}) = {}
      BY <1>1, <1>5 DEF Sold, Entries
    <2> QED
      BY <1>2, <1>3, <1>5, <2>1 DEF Sold
  <1>6. CASE Replaced(t)
    <2>1. /\ Entries(t, {"exit", "rewrite"}) = {2} /\ Entries(t, {"rewrite"}) = {2}
          /\ Entries(t, {"rewrite_link"}) = {3}
      BY <1>1, <1>6 DEF Replaced, Entries
    <2> QED
      BY <1>2, <1>3, <1>6, <2>1 DEF Replaced
  <1> QED
    BY <1>4, <1>5, <1>6 DEF Lives, LifeOf

\* Packages, rows, commands and row locks always have the values the two
\* scripts give them, and nothing refers to a package or a thesis that is not there.
THEOREM TypesHold == Spec => []TypeOK
BY Invariant, InvTypes, PTL

\* Whatever approvals, exits and rewrites of a stock overlap, and whatever fails
\* or dies, the stock has one active thesis at most, unless two approvals of it
\* checked at the same time (has_active_thesis, then the INSERT).
THEOREM OneActiveHolds == Spec => []OneActive
  <1>1. Inv => OneActive
    BY DEF Inv
  <1> QED
    BY <1>1, Invariant, PTL

\* However exits and rewrites of a thesis overlap, fail or die, it is closed once,
\* replaced once at most, and its log and the origins of the rows name each other
\* (exit_thesis, rewrite_thesis: one transaction, status != 'exited').
THEOREM SuccessionHolds == Spec => []Succession
BY Invariant, InvSuccession, PTL

\* A package that says approved names a thesis onboarded from it, and a thesis has
\* its package approved, or about to be, unless a command on the package overlapped
\* another or was cut short (_cmd_approve: INSERT and commit, then the file).
THEOREM ApprovedIsRegisteredHolds == Spec => []ApprovedIsRegistered
  <1>1. Inv => ApprovedIsRegistered
    BY DEF Inv
  <1> QED
    BY <1>1, Invariant, PTL

=============================================================================
