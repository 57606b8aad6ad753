--------------------------- MODULE PanelBuildProofs ---------------------------
(* What a panel is made of, for any number of processes, pairs, edits and      *)
(* kills, as long as nothing of what the code has no guard against happens.    *)
EXTENDS PanelBuild, FiniteSetTheorems, WellFoundedInduction, TLAPS

USE PanelAssumption DEF PanelAssumption

-----------------------------------------------------------------------------
(* The inductive invariant *)

Building == {"sign", "build", "rows", "meta", "write", "sidecar", "drop", "dropped"}
Inside == {"open", "read"} \cup Building

\* A process that is past its lock holds it in its mode, and an exclusive
\* holder is the only one.
Locks ==
    /\ \A p \in Procs, m \in {"sh", "ex"} :
          p \in holders[m] <=> proc[p].pc \in Inside /\ proc[p].mode = m
    /\ \A p, q \in Procs :
          p \in holders["ex"] /\ q \in holders["sh"] \cup holders["ex"] => p = q

\* Whoever builds came for the lock when there was no panel; a panel that is
\* there stays as long as somebody has come for it.
ModeOf(p) ==
    /\ proc[p].pc \in Building => proc[p].mode = "ex"
    /\ proc[p].pc \in {"lock", "open"} /\ proc[p].mode = "sh" => panel # Nothing

\* The code a process has imported is the code on disk until it takes its
\* signature, which is the signature of its rows from then on.
CodeOf(p) ==
    /\ proc[p].pc \in {"choose", "lock", "open", "sign"} => proc[p].code = code
    /\ proc[p].pc = "sign" => proc[p].sig0 = code
    /\ proc[p].pc \in Building \ {"sign"} =>
          proc[p].sig = proc[p].code /\ proc[p].sig0 = proc[p].code

\* Rows of one code and one span, one for each of these pairs.
Made(rows, pairs, c, s) ==
    /\ \A j \in DOMAIN rows :
          rows[j].code = c /\ rows[j].span = s /\ rows[j].pair \in pairs
    /\ \A i, j \in DOMAIN rows : rows[i].pair = rows[j].pair => i = j
    /\ \A k \in pairs : \E j \in DOMAIN rows : rows[j].pair = k

MadeBy(p) == Made(proc[p].rows, proc[p].done \ proc[p].gaps, proc[p].code, proc[p].span)
AllMade(c, s) ==
    panel # Nothing /\ panel.whole /\ Made(panel.rows, (1..Pairs) \ panel.gaps, c, s)

\* What is built is what was asked for, and today's where that is left open.
Meets(s, req) ==
    /\ s.universe = req.universe /\ s.universe_opts = req.universe_opts
    /\ req.end_date # Nothing => s.end_date = req.end_date

\* A panel of span s answers a request that was found to be ok.
Answers(s, req) ==
    /\ s.universe = req.universe
    /\ req.universe_opts # Nothing => s.universe_opts = req.universe_opts
    /\ req.end_date # Nothing /\ sidecar.req.end_date # Nothing => s.end_date = req.end_date

\* What a builder has in memory and what it has left on disk so far.
BuildOf(p) ==
    /\ proc[p].pc \in {"build", "rows", "meta", "write"} => MadeBy(p)
    /\ proc[p].pc \in {"sign", "build", "rows", "meta"} => panel = Nothing
    /\ proc[p].pc \in {"sign", "build", "rows", "meta", "write", "sidecar"} =>
          sidecar = Nothing
    /\ proc[p].pc \in {"choose", "lock", "open", "sign"} =>
          proc[p].rows = <<>> /\ proc[p].done = {} /\ proc[p].gaps = {}
    /\ proc[p].pc = "meta" => ckRows = proc[p].rows
    /\ proc[p].pc = "write" => Left(p) = {}
    /\ proc[p].pc = "sidecar" => AllMade(proc[p].code, proc[p].span)
    /\ proc[p].pc \in Building => Meets(proc[p].span, proc[p].req)

\* What a reader was told of the panel.
ReadOf(p) ==
    proc[p].pc = "read" =>
       /\ panel # Nothing
       /\ proc[p].verdict = "ok" =>
             \E s \in Span : AllMade(proc[p].code, s) /\ Answers(s, proc[p].req)

ProcInv(p) == ModeOf(p) /\ CodeOf(p) /\ BuildOf(p) /\ ReadOf(p)

\* Between two saves the files of the checkpoint belong together, ...
Checkpoint ==
    (\A p \in Procs : proc[p].pc # "meta") /\ ckRows # Nothing /\ ckMeta # Nothing
       => Made(ckRows, ckMeta.done \ ckMeta.gaps, ckMeta.sig, ckMeta.span)

\* ... a panel has all its rows or none yet, ...
PanelMade ==
    panel # Nothing =>
       \/ ~panel.whole /\ panel.rows = <<>>
       \/ \E c \in Sigs, s \in Span : AllMade(c, s)

\* ... and a sidecar tells the truth.
SidecarTrue ==
    sidecar # Nothing =>
       /\ sidecar.sig \in Sigs
       /\ \E s \in Span : AllMade(sidecar.sig, s) /\ Meets(s, sidecar.req)

\* A process that is not idle asks for something, and one that builds knows what.
Asks(n) ==
    /\ n.pc # "idle" => n.req \in Requests
    /\ n.pc \in Building => n.span \in Span
Typed == TypeOK /\ \A p \in Procs : Asks(proc[p])

Inv ==
    /\ Typed /\ Locks
    /\ \A p \in Procs : ProcInv(p)
    /\ Checkpoint /\ PanelMade /\ SidecarTrue

-----------------------------------------------------------------------------
(* Types *)

Proc1 == [pc : {"idle", "choose", "lock", "open", "read", "sign", "build",
                "rows", "meta", "write", "sidecar", "drop", "dropped"},
          req : Requests \cup {Nothing}, code : Sigs, mode : {"sh", "ex"},
          sig0 : SigsRead, sig : SigsRead, span : Span \cup {Nothing},
          rows : Rows, done : Marks, gaps : Marks, since : 0..Every,
          verdict : {"ok", "missing", "mismatch", "code_changed"}]

LEMMA Types ==
    ASSUME TypeOK
    PROVE  /\ proc \in [Procs -> Proc1] /\ code \in Sigs /\ today \in Days
           /\ panel = Nothing \/ panel \in Panel
           /\ sidecar = Nothing \/ sidecar \in Sidecar
           /\ ckRows = Nothing \/ ckRows \in Rows
           /\ ckMeta = Nothing \/ ckMeta \in CkMeta
           /\ holders \in [{"sh", "ex"} -> SUBSET Procs]
BY DEF TypeOK, Proc1

LEMMA TypesBack ==
    ASSUME proc \in [Procs -> Proc1], code \in Sigs, today \in Days,
           panel = Nothing \/ panel \in Panel,
           sidecar = Nothing \/ sidecar \in Sidecar,
           ckRows = Nothing \/ ckRows \in Rows,
           ckMeta = Nothing \/ ckMeta \in CkMeta,
           holders \in [{"sh", "ex"} -> SUBSET Procs],
           mishaps \in Mishaps
    PROVE  TypeOK
BY DEF TypeOK, Proc1

\* A set of numbers that is not empty has a least one: CHOOSE has something to
\* choose in Next1.
LEMMA Least ==
    ASSUME NEW S \in SUBSET Nat, S # {}
    PROVE  \E x \in S : \A y \in S : x <= y
<1> DEFINE R == OpToRel(<, Nat)
<1>1. IsWellFoundedOn(R, Nat)
  BY NatLessThanWellFounded
<1>2. \A x, y \in Nat : x < y => <<x, y>> \in R
  BY DEF OpToRel
<1> HIDE DEF R
<1>3. PICK x \in S : \A y \in S : ~ (<<y, x>> \in R)
  BY <1>1, WFMin
<1>4. \A y \in S : ~ (y < x)
  BY <1>2, <1>3
<1>5. \A y \in S : x <= y
  BY <1>4
<1> QED
  BY <1>5

LEMMA NextLeft ==
    ASSUME NEW p \in Procs, Left(p) # {}
    PROVE  Next1(Left(p)) \in (1..Pairs) \ (proc[p].done \cup proc[p].gaps)
<1>1. Left(p) \in SUBSET Nat
  BY DEF Left
<1>2. \E x \in Left(p) : \A y \in Left(p) : x <= y
  BY <1>1, Least
<1>3. Next1(Left(p)) \in Left(p)
  BY <1>2 DEF Next1
<1> QED
  BY <1>3 DEF Left

LEMMA MishapGives ==
    ASSUME mishaps \in Mishaps, NEW unread \in BOOLEAN, Mishap(unread)
    PROVE  mishaps' \in Mishaps /\ mishaps'.unread = (mishaps.unread \/ unread)
<1>1. mishaps.count + 1 \in 0..MaxMishaps
  BY PanelAssumption DEF Mishap, Mishaps
<1>2. (mishaps.unread \/ unread) \in BOOLEAN
  OBVIOUS
<1> QED
  BY <1>1, <1>2 DEF Mishap, Mishaps

LEMMA MishapKeeps ==
    ASSUME mishaps \in Mishaps, Mishap(FALSE)
    PROVE  mishaps'.unread = mishaps.unread
<1>1. mishaps.unread \in BOOLEAN
  BY DEF Mishaps
<1>2. mishaps'.unread = (mishaps.unread \/ FALSE)
  BY MishapGives
<1> QED
  BY <1>1, <1>2

\* A signature that is read is the code's or none, and the code's unless the
\* reading may fail.
LEMMA Read ==
    ASSUME code \in Sigs
    PROVE  SigRead \subseteq SigsRead /\ (Unguarded = {} => SigRead = {code})
BY DEF SigRead, SigsRead

\* The numbers are none of them Nothing.
LEMMA Known ==
    ASSUME NEW a \in Sigs, NEW b \in Sigs
    PROVE  a # Nothing /\ (Changed(a, b) <=> a # b)
BY DEF Sigs, Changed

\* One process takes a step, and the record it ends up with is n.
Becomes(p, n) ==
    /\ proc' = [proc EXCEPT ![p] = n]
    /\ n \in Proc1 /\ Asks(n)

LEMMA BecomesGives ==
    ASSUME TypeOK, NEW p \in Procs, NEW n, Becomes(p, n)
    PROVE  /\ proc' \in [Procs -> Proc1]
           /\ proc'[p] = n /\ \A q \in Procs \ {p} : proc'[q] = proc[q]
           /\ Typed => \A q \in Procs : Asks(proc'[q])
BY Types DEF Becomes, Typed

LEMMA GotoBecomes ==
    ASSUME Typed, NEW p \in Procs, proc[p].pc # "idle", NEW pc,
           pc \in {"open", "rows", "meta", "build", "write", "sidecar", "drop", "dropped"},
           pc # "open" => proc[p].pc \in Building,
           Goto(p, pc)
    PROVE  Becomes(p, [proc[p] EXCEPT !.pc = pc])
<1>1. proc \in [Procs -> Proc1] /\ proc[p] \in Proc1 /\ Asks(proc[p])
  BY Types DEF Typed
<1> DEFINE n == [proc[p] EXCEPT !.pc = pc]
<1>2. n \in Proc1 /\ n.pc = pc /\ n.req = proc[p].req /\ n.span = proc[p].span
  BY <1>1 DEF Proc1
<1>3. Asks(n)
  <2> HIDE DEF n
  <2> QED
    BY <1>1, <1>2 DEF Asks, Building
<1> QED
  BY <1>2, <1>3 DEF Becomes, Goto

LEMMA IdleTyped == Idle \in Proc1 /\ Idle.pc = "idle" /\ Asks(Idle)
<1>1. <<>> \in Rows /\ 0 \in Sigs /\ 0 \in SigsRead /\ 0 \in 0..Every /\ {} \in Marks
  BY DEF Rows, Sigs, SigsRead, Marks
<1>2. Idle \in Proc1
  BY <1>1 DEF Idle, Proc1
<1> QED
  BY <1>2 DEF Idle, Asks, Building

LEMMA EndBecomes ==
    ASSUME Typed, NEW p \in Procs, proc' = [proc EXCEPT ![p] = Idle]
    PROVE  Becomes(p, Idle)
BY IdleTyped DEF Becomes

-----------------------------------------------------------------------------
(* What the steps make of a process *)

LEMMA StartGives ==
    ASSUME Typed, NEW p \in Procs, Start(p)
    PROVE  \E r \in Requests :
              Becomes(p, [Idle EXCEPT !.pc = "choose", !.req = r, !.code = code])
<1>1. code \in Sigs
  BY Types DEF Typed
<1>2. PICK r \in Requests :
         proc' = [proc EXCEPT ![p] = [Idle EXCEPT !.pc = "choose", !.req = r, !.code = code]]
  BY DEF Start
<1> DEFINE n == [Idle EXCEPT !.pc = "choose", !.req = r, !.code = code]
<1>3. n \in Proc1 /\ n.pc = "choose" /\ n.req = r
  BY <1>1, IdleTyped DEF Proc1
<1>4. Asks(n)
  <2> HIDE DEF n
  <2> QED
    BY <1>3 DEF Asks, Building
<1> QED
  BY <1>2, <1>3, <1>4 DEF Becomes

LEMMA ChooseGives ==
    ASSUME Typed, NEW p \in Procs, Choose(p)
    PROVE  Becomes(p, [proc[p] EXCEPT !.pc = "lock",
                                      !.mode = IF panel # Nothing THEN "sh" ELSE "ex"])
<1> DEFINE n == [proc[p] EXCEPT !.pc = "lock",
                                !.mode = IF panel # Nothing THEN "sh" ELSE "ex"]
<1>1. proc[p] \in Proc1 /\ proc[p].req \in Requests
  BY Types DEF Typed, Choose, At, Asks
<1>2. n \in Proc1 /\ n.pc = "lock" /\ n.req = proc[p].req
  BY <1>1 DEF Proc1
<1>3. proc' = [proc EXCEPT ![p] = n]
  BY DEF Choose
<1> HIDE DEF n
<1>4. Becomes(p, n)
  BY <1>1, <1>2, <1>3 DEF Becomes, Asks, Building
<1> QED
  BY <1>4 DEF n

LEMMA ReuseGives ==
    ASSUME Typed, NEW p \in Procs, Reuse(p)
    PROVE  \E now \in SigRead :
           Becomes(p, [proc[p] EXCEPT !.pc = "read", !.verdict = Verify(proc[p].req, now)])
<1>1. proc[p] \in Proc1 /\ proc[p].req \in Requests
  BY Types DEF Typed, Reuse, At, Asks
<1>2. PICK now \in SigRead :
         proc' = [proc EXCEPT ![p].pc = "read", ![p].verdict = Verify(proc[p].req, now)]
  BY DEF Reuse
<1>3. Verify(proc[p].req, now) \in {"ok", "missing", "mismatch", "code_changed"}
  BY DEF Verify
<1> DEFINE n == [proc[p] EXCEPT !.pc = "read", !.verdict = Verify(proc[p].req, now)]
<1>4. n \in Proc1 /\ n.pc = "read" /\ n.req = proc[p].req
  BY <1>1, <1>3 DEF Proc1
<1>5. proc' = [proc EXCEPT ![p] = n]
  BY <1>2
<1> HIDE DEF n
<1>6. Becomes(p, n)
  BY <1>1, <1>4, <1>5 DEF Becomes, Asks, Building
<1> QED
  BY <1>6 DEF n

\* What is asked for, with a day to go up to.
LEMMA Spanned ==
    ASSUME today \in Days, NEW r \in Requests
    PROVE  SpanOf(r) \in Span /\ Meets(SpanOf(r), r)
<1>1. r \in Request
  OBVIOUS
<1> QED
  BY <1>1 DEF SpanOf, Span, Request, Meets

LEMMA BuildGives ==
    ASSUME Typed, NEW p \in Procs, Build(p)
    PROVE  \E now \in SigRead :
           Becomes(p, [proc[p] EXCEPT !.pc = "sign", !.sig0 = now,
                                      !.span = SpanOf(proc[p].req)])
<1>1. proc[p] \in Proc1 /\ proc[p].req \in Requests /\ code \in Sigs /\ today \in Days
  BY Types DEF Typed, Build, At, Asks
<1>2. PICK now \in SigRead :
         proc' = [proc EXCEPT ![p].pc = "sign", ![p].sig0 = now, ![p].span = SpanOf(proc[p].req)]
  BY DEF Build
<1> DEFINE s == SpanOf(proc[p].req)
           n == [proc[p] EXCEPT !.pc = "sign", !.sig0 = now, !.span = s]
<1>3. s \in Span /\ now \in SigsRead
  BY <1>1, Spanned, Read
<1>4. proc' = [proc EXCEPT ![p] = n]
  BY <1>2
<1> HIDE DEF s
<1>5. n \in Proc1 /\ n.pc = "sign" /\ n.req = proc[p].req /\ n.span = s
  BY <1>1, <1>3 DEF Proc1
<1> HIDE DEF n
<1>6. Becomes(p, n)
  BY <1>1, <1>3, <1>4, <1>5 DEF Becomes, Asks
<1> QED
  BY <1>6 DEF n, s

LEMMA ResumeGives ==
    ASSUME Typed, NEW p \in Procs, Resume(p)
    PROVE  \E now \in SigRead :
           /\ Resumable(proc[p].span, now)
           /\ Becomes(p, [proc[p] EXCEPT !.pc = "build", !.sig = now, !.rows = ckRows,
                                         !.done = ckMeta.done, !.gaps = ckMeta.gaps])
<1>1. proc[p] \in Proc1 /\ Asks(proc[p]) /\ proc[p].pc = "sign" /\ code \in Sigs
  BY Types DEF Typed, Resume, At
<1>2. PICK now \in SigRead :
         /\ Resumable(proc[p].span, now)
         /\ proc' = [proc EXCEPT ![p].pc = "build", ![p].sig = now, ![p].rows = ckRows,
                                 ![p].done = ckMeta.done, ![p].gaps = ckMeta.gaps]
  BY DEF Resume, SavedRows, SavedDone
<1> DEFINE n == [proc[p] EXCEPT !.pc = "build", !.sig = now, !.rows = ckRows,
                                !.done = ckMeta.done, !.gaps = ckMeta.gaps]
<1>3. now \in SigsRead /\ ckRows \in Rows /\ ckMeta.done \in Marks /\ ckMeta.gaps \in Marks
  BY <1>1, <1>2, Read, Types DEF Typed, Resumable, CkMeta
<1>4. proc' = [proc EXCEPT ![p] = n]
  BY <1>2
<1>5. n \in Proc1 /\ n.pc = "build" /\ n.req = proc[p].req /\ n.span = proc[p].span
  BY <1>1, <1>3 DEF Proc1
<1> HIDE DEF n
<1>6. Becomes(p, n)
  BY <1>1, <1>4, <1>5 DEF Becomes, Asks, Building
<1> QED
  BY <1>2, <1>6 DEF n

LEMMA ScratchGives ==
    ASSUME Typed, NEW p \in Procs, FromScratch(p)
    PROVE  \E now \in SigRead : Becomes(p, [proc[p] EXCEPT !.pc = "build", !.sig = now])
<1>1. proc[p] \in Proc1 /\ Asks(proc[p]) /\ proc[p].pc = "sign" /\ code \in Sigs
  BY Types DEF Typed, FromScratch, At
<1>2. PICK now \in SigRead : proc' = [proc EXCEPT ![p].pc = "build", ![p].sig = now]
  BY DEF FromScratch
<1> DEFINE n == [proc[p] EXCEPT !.pc = "build", !.sig = now]
<1>3. now \in SigsRead
  BY <1>1, Read
<1>4. proc' = [proc EXCEPT ![p] = n]
  BY <1>2
<1>5. n \in Proc1 /\ n.pc = "build" /\ n.req = proc[p].req /\ n.span = proc[p].span
  BY <1>1, <1>3 DEF Proc1
<1> HIDE DEF n
<1>6. Becomes(p, n)
  BY <1>1, <1>4, <1>5 DEF Becomes, Asks, Building
<1> QED
  BY <1>6 DEF n

\* A pair that is gone through, and what becomes of the pairs that are done, the
\* gaps and the rows.
Through(p, rows, done, gaps) ==
    \E pc \in {"rows", "build"}, since \in 0..Every :
       Becomes(p, [proc[p] EXCEPT !.rows = rows, !.done = done, !.gaps = gaps,
                                  !.since = since, !.pc = pc])

LEMMA ThroughGives ==
    ASSUME Typed, NEW p \in Procs, proc[p].pc = "build",
           NEW rows \in Rows, NEW done \in Marks, NEW gaps \in Marks,
           NEW pc \in {"rows", "build"}, NEW since \in 0..Every,
           proc' = [proc EXCEPT ![p].rows = rows, ![p].done = done, ![p].gaps = gaps,
                                ![p].since = since, ![p].pc = pc]
    PROVE  Through(p, rows, done, gaps)
<1>1. proc[p] \in Proc1 /\ Asks(proc[p])
  BY Types DEF Typed
<1> DEFINE n == [proc[p] EXCEPT !.rows = rows, !.done = done, !.gaps = gaps,
                                !.since = since, !.pc = pc]
<1>2. proc' = [proc EXCEPT ![p] = n]
  OBVIOUS
<1>3. n \in Proc1 /\ n.pc = pc /\ n.req = proc[p].req /\ n.span = proc[p].span
  BY <1>1 DEF Proc1
<1> HIDE DEF n
<1>4. Becomes(p, n)
  BY <1>1, <1>2, <1>3 DEF Becomes, Asks, Building
<1> QED
  BY <1>4 DEF Through, n

LEMMA CountTyped ==
    ASSUME Typed, NEW p \in Procs
    PROVE  Counted(p) \in 0..Every /\ Counting(p) \in {"rows", "build"}
<1>1. proc[p].since \in 0..Every
  BY Types DEF Typed, Proc1
<1> QED
  BY <1>1 DEF Counted, Counting, Due

\* The three ways a pair can go: a row, too few features, an exception.
LEMMA PairGives ==
    ASSUME Typed, NEW p \in Procs, Pair(p) \/ Thin(p) \/ Fails(p)
    PROVE  \E k \in (1..Pairs) \ (proc[p].done \cup proc[p].gaps) :
           LET row == [pair |-> k, code |-> proc[p].code, span |-> proc[p].span] IN
           \/ Through(p, Append(proc[p].rows, row), proc[p].done \cup {k}, proc[p].gaps)
           \/ \E done \in {proc[p].done, proc[p].done \cup {k}} :
                 Through(p, proc[p].rows, done, proc[p].gaps \cup {k})
<1> DEFINE k == Next1(Left(p))
           row == [pair |-> k, code |-> proc[p].code, span |-> proc[p].span]
<1>1. proc \in [Procs -> Proc1] /\ proc[p] \in Proc1 /\ proc[p].span \in Span
      /\ proc[p].pc = "build"
  BY Types DEF Typed, Pair, Thin, Fails, Going, At, Asks, Building
<1>2. k \in (1..Pairs) \ (proc[p].done \cup proc[p].gaps)
  BY NextLeft DEF Pair, Thin, Fails, Going
<1>3. /\ proc[p].rows \in Rows /\ proc[p].done \in Marks /\ proc[p].gaps \in Marks
      /\ proc[p].since \in 0..Every /\ proc[p].code \in Sigs
  BY <1>1 DEF Proc1
<1>4. proc[p].done \cup {k} \in Marks /\ proc[p].gaps \cup {k} \in Marks
  BY <1>2, <1>3 DEF Marks
<1>5. Append(proc[p].rows, row) \in Rows
  <2>1. row \in Row
    BY <1>1, <1>2, <1>3 DEF Row
  <2> HIDE DEF row
  <2> QED
    BY <1>3, <2>1 DEF Rows
<1>6. Counted(p) \in 0..Every /\ Counting(p) \in {"rows", "build"}
  BY CountTyped
<1> HIDE DEF k, row
<1>7. CASE Pair(p)
  <2>1. proc' = [proc EXCEPT ![p].rows = Append(@, row), ![p].done = @ \cup {k},
                             ![p].since = Counted(p), ![p].pc = Counting(p)]
    BY <1>7 DEF Pair, k, row
  <2>2. proc' = [proc EXCEPT ![p].rows = Append(proc[p].rows, row),
                             ![p].done = proc[p].done \cup {k}, ![p].gaps = proc[p].gaps,
                             ![p].since = Counted(p), ![p].pc = Counting(p)]
    <3> DEFINE more == Append(proc[p].rows, row)
    <3>1. proc' = [proc EXCEPT ![p] = [proc[p] EXCEPT !.rows = more, !.done = @ \cup {k},
                                         !.since = Counted(p), !.pc = Counting(p)]]
      BY <2>1
    <3> HIDE DEF more
    <3>2. [proc[p] EXCEPT !.rows = more, !.done = @ \cup {k}, !.since = Counted(p),
                          !.pc = Counting(p)]
        = [proc[p] EXCEPT !.rows = more, !.done = proc[p].done \cup {k},
                          !.gaps = proc[p].gaps, !.since = Counted(p), !.pc = Counting(p)]
      BY <1>1 DEF Proc1
    <3> QED
      BY <3>1, <3>2 DEF more
  <2>3. Through(p, Append(proc[p].rows, row), proc[p].done \cup {k}, proc[p].gaps)
    BY <1>1, <1>3, <1>4, <1>5, <1>6, <2>2, ThroughGives
  <2> QED
    BY <1>2, <2>3 DEF row
<1>8. CASE Thin(p)
  <2>1. proc' = [proc EXCEPT ![p].done = @ \cup {k}, ![p].gaps = @ \cup {k},
                             ![p].since = Counted(p), ![p].pc = Counting(p)]
    BY <1>8 DEF Thin, k
  <2>2. proc' = [proc EXCEPT ![p].rows = proc[p].rows,
                             ![p].done = proc[p].done \cup {k}, ![p].gaps = proc[p].gaps \cup {k},
                             ![p].since = Counted(p), ![p].pc = Counting(p)]
    BY <1>1, <2>1 DEF Proc1
  <2>3. Through(p, proc[p].rows, proc[p].done \cup {k}, proc[p].gaps \cup {k})
    BY <1>1, <1>3, <1>4, <1>6, <2>2, ThroughGives
  <2> QED
    BY <1>2, <2>3
<1>9. CASE Fails(p)
  <2>1. proc' = [proc EXCEPT ![p].gaps = @ \cup {k}]
    BY <1>9 DEF Fails, k
  <2>2. proc' = [proc EXCEPT ![p].rows = proc[p].rows,
                             ![p].done = proc[p].done, ![p].gaps = proc[p].gaps \cup {k},
                             ![p].since = proc[p].since, ![p].pc = "build"]
    <3>1. proc' = [proc EXCEPT ![p] = [proc[p] EXCEPT !.gaps = @ \cup {k}]]
      BY <2>1
    <3>2. [proc[p] EXCEPT !.gaps = @ \cup {k}]
        = [proc[p] EXCEPT !.rows = proc[p].rows, !.done = proc[p].done,
                          !.gaps = proc[p].gaps \cup {k}, !.since = proc[p].since,
                          !.pc = "build"]
      BY <1>1 DEF Proc1
    <3> QED
      BY <3>1, <3>2
  <2>3. Through(p, proc[p].rows, proc[p].done, proc[p].gaps \cup {k})
    BY <1>1, <1>3, <1>4, <2>2, ThroughGives
  <2> QED
    BY <1>2, <2>3
<1> QED
  BY <1>7, <1>8, <1>9

-----------------------------------------------------------------------------
(* Every step keeps the types *)

LEMMA TypedStep == Typed /\ [Next]_vars => Typed'
<1> SUFFICES ASSUME Typed, [Next]_vars PROVE Typed'
  OBVIOUS
<1>0. TypeOK /\ holders \in [{"sh", "ex"} -> SUBSET Procs]
      /\ mishaps \in Mishaps
  BY DEF Typed, TypeOK
<1> DEFINE Filed == /\ panel' = Nothing \/ panel' \in Panel
                    /\ sidecar' = Nothing \/ sidecar' \in Sidecar
                    /\ ckRows' = Nothing \/ ckRows' \in Rows
                    /\ ckMeta' = Nothing \/ ckMeta' \in CkMeta
           Around == /\ holders' \in [{"sh", "ex"} -> SUBSET Procs]
                     /\ mishaps' \in Mishaps
<1>1. UNCHANGED files => Filed
  BY <1>0, Types DEF files
<1>2. \A p \in Procs : holders' = Released(p) => holders' \in [{"sh", "ex"} -> SUBSET Procs]
  BY <1>0 DEF Released
<1>3. ASSUME NEW p \in Procs, NEW n, Becomes(p, n), Filed, Around,
             code' = code, today' = today
      PROVE  Typed'
  <2>1. proc' \in [Procs -> Proc1] /\ code' \in Sigs /\ today' \in Days
        /\ \A q \in Procs : Asks(proc'[q])
    BY <1>0, <1>3, BecomesGives, Types
  <2>2. TypeOK'
    BY <1>3, <2>1 DEF TypeOK, Proc1
  <2> QED
    BY <2>1, <2>2 DEF Typed, Asks
<1>4. ASSUME NEW p \in Procs, Start(p) PROVE Typed'
  BY <1>0, <1>1, <1>3, <1>4, StartGives DEF Start
<1>5. ASSUME NEW p \in Procs, Choose(p) PROVE Typed'
  BY <1>0, <1>1, <1>3, <1>5, ChooseGives DEF Choose
<1>6. ASSUME NEW p \in Procs, Lock(p) PROVE Typed'
  <2>1. Becomes(p, [proc[p] EXCEPT !.pc = "open"])
    BY <1>6, GotoBecomes DEF Lock, At
  <2>2. proc[p].mode \in {"sh", "ex"}
    BY <1>0, Types DEF Proc1
  <2>3. Around
    BY <1>0, <1>6, <2>2 DEF Lock
  <2> QED
    BY <1>1, <1>3, <1>6, <2>1, <2>3 DEF Lock
<1>7. ASSUME NEW p \in Procs, Busy(p) \/ Refuse(p) \/ ReadEnd(p) \/ TooFew(p)
      PROVE  Typed'
  <2>1. Becomes(p, Idle) /\ UNCHANGED <<code, today, files, mishaps>> /\ holders' = Released(p)
    BY <1>7, EndBecomes DEF Busy, Refuse, ReadEnd, TooFew, End
  <2> QED
    BY <1>0, <1>1, <1>2, <1>3, <2>1
<1>8. ASSUME NEW p \in Procs, Reuse(p) PROVE Typed'
  BY <1>0, <1>1, <1>3, <1>8, ReuseGives DEF Reuse
<1>9. ASSUME NEW p \in Procs, Build(p) PROVE Typed'
  BY <1>0, <1>1, <1>3, <1>9, BuildGives DEF Build
<1>10. ASSUME NEW p \in Procs, Resume(p) \/ FromScratch(p) PROVE Typed'
  <2>1. \E n : Becomes(p, n)
    BY <1>10, ResumeGives, ScratchGives
  <2>2. mishaps' \in Mishaps
    BY <1>0, <1>10, MishapGives DEF Resume, FromScratch
  <2> QED
    BY <1>0, <1>1, <1>3, <1>10, <2>1, <2>2 DEF Resume, FromScratch
<1>11. ASSUME NEW p \in Procs, Pair(p) \/ Thin(p) \/ Fails(p) PROVE Typed'
  <2>1. \E n : Becomes(p, n)
    BY <1>11, PairGives DEF Through
  <2>2. mishaps' \in Mishaps
    BY <1>0, <1>11, MishapGives DEF Pair, Thin, Fails
  <2> QED
    BY <1>0, <1>1, <1>3, <1>11, <2>1, <2>2 DEF Pair, Thin, Fails
<1>12. ASSUME NEW p \in Procs, SaveRows(p) PROVE Typed'
  <2>1. Becomes(p, [proc[p] EXCEPT !.pc = "meta"])
    BY <1>12, GotoBecomes DEF SaveRows, At, Building
  <2>2. proc[p].rows \in Rows
    BY <1>0, Types DEF Proc1
  <2>3. Filed /\ Around
    BY <1>0, <1>12, <2>2, Types DEF SaveRows
  <2> QED
    BY <1>3, <1>12, <2>1, <2>3 DEF SaveRows
<1>13. ASSUME NEW p \in Procs, SaveMeta(p) PROVE Typed'
  <2>1. Becomes(p, [proc[p] EXCEPT !.pc = "build"])
    BY <1>13, GotoBecomes DEF SaveMeta, At, Building
  <2>2. ckMeta' \in CkMeta
    <3>1. proc[p] \in Proc1 /\ proc[p].span \in Span
      BY <1>13, Types DEF Typed, SaveMeta, At, Asks, Building
    <3>2. proc[p].gaps \cap proc[p].done \in Marks
      BY <3>1 DEF Proc1, Marks
    <3>3. proc[p].done \in Marks /\ proc[p].sig \in SigsRead
      BY <3>1 DEF Proc1
    <3> QED
      BY <1>13, <3>1, <3>2, <3>3 DEF SaveMeta, CkMeta
  <2>3. Filed /\ Around
    BY <1>0, <1>13, <2>2, Types DEF SaveMeta
  <2> QED
    BY <1>3, <1>13, <2>1, <2>3 DEF SaveMeta
<1>14. ASSUME NEW p \in Procs, SaveFails(p) \/ Spoiled(p) PROVE Typed'
  <2>1. \E pc \in {"build", "drop"} : Becomes(p, [proc[p] EXCEPT !.pc = pc])
    BY <1>14, GotoBecomes DEF SaveFails, Spoiled, At, Building
  <2> QED
    BY <1>0, <1>1, <1>3, <1>14, <2>1 DEF SaveFails, Spoiled
<1>15. ASSUME NEW p \in Procs, WriteBegin(p) \/ WriteEnd(p) PROVE Typed'
  <2>1. \E pc \in {"write", "sidecar"} : Becomes(p, [proc[p] EXCEPT !.pc = pc])
    BY <1>15, GotoBecomes DEF WriteBegin, WriteEnd, At, Building
  <2>2. panel' \in Panel
    <3>1. <<>> \in Rows /\ proc[p].rows \in Rows /\ {} \in Marks /\ proc[p].gaps \in Marks
      BY <1>0, Types DEF Proc1, Rows, Marks
    <3>2. \A w \in BOOLEAN, rows \in Rows, gaps \in Marks :
             [whole |-> w, rows |-> rows, gaps |-> gaps] \in Panel
      BY Zenon DEF Panel
    <3> QED
      BY <1>15, <3>1, <3>2 DEF WriteBegin, WriteEnd
  <2>3. Filed /\ Around
    BY <1>0, <1>15, <2>2, Types DEF WriteBegin, WriteEnd
  <2> QED
    BY <1>3, <1>15, <2>1, <2>3 DEF WriteBegin, WriteEnd
<1>16. ASSUME NEW p \in Procs, WriteMeta(p) PROVE Typed'
  <2>1. Becomes(p, [proc[p] EXCEPT !.pc = "drop"])
    BY <1>16, GotoBecomes DEF WriteMeta, At, Building
  <2>2. [req |-> proc[p].req, sig |-> proc[p].sig0] \in Sidecar
    BY <1>0, <1>16, Types DEF WriteMeta, Proc1, Sidecar, Typed, At, Asks
  <2>3. Filed /\ Around
    BY <1>0, <1>16, <2>2, Types DEF WriteMeta
  <2> QED
    BY <1>3, <1>16, <2>1, <2>3 DEF WriteMeta
<1>17. ASSUME NEW p \in Procs, DropRows(p) PROVE Typed'
  <2>1. Becomes(p, [proc[p] EXCEPT !.pc = "dropped"])
    BY <1>17, GotoBecomes DEF DropRows, At, Building
  <2>2. Filed /\ Around
    BY <1>0, <1>17, Types DEF DropRows
  <2> QED
    BY <1>3, <1>17, <2>1, <2>2 DEF DropRows
<1>18. ASSUME NEW p \in Procs, DropMeta(p) PROVE Typed'
  <2>1. Becomes(p, Idle) /\ holders' = Released(p)
    BY <1>18, EndBecomes DEF DropMeta, End
  <2>2. Filed
    BY <1>0, <1>18, Types DEF DropMeta
  <2> QED
    BY <1>0, <1>2, <1>3, <1>18, <2>1, <2>2 DEF DropMeta
<1>19. ASSUME NEW p \in Procs, Kill(p) PROVE Typed'
  <2>1. Becomes(p, Idle) /\ holders' = Released(p)
    BY <1>19, EndBecomes DEF Kill, End
  <2>2. mishaps' \in Mishaps
    BY <1>0, <1>19, MishapGives DEF Kill
  <2> QED
    BY <1>1, <1>2, <1>3, <1>19, <2>1, <2>2 DEF Kill
<1>20. CASE Edit
  <2>1. code' \in Sigs
    BY <1>0, <1>20 DEF Edit, Sigs, TypeOK
  <2> QED
    BY <1>0, <1>20, <2>1 DEF Edit, Typed, TypeOK, files, Asks
<1>21. CASE Remove
  <2>1. mishaps' \in Mishaps
    BY <1>0, <1>21, MishapGives DEF Remove
  <2> QED
    BY <1>0, <1>21, <2>1 DEF Remove, Typed, TypeOK, Asks
<1>22. CASE UNCHANGED vars
  BY <1>22 DEF vars, files, Typed, TypeOK, Asks
<1>23. CASE Midnight
  <2>1. today' \in Days
    BY <1>0, <1>23 DEF Midnight, Days, TypeOK
  <2> QED
    BY <1>0, <1>23, <2>1 DEF Midnight, Typed, TypeOK, files, Asks
<1> QED
  BY <1>4, <1>5, <1>6, <1>7, <1>8, <1>9, <1>10, <1>11, <1>12, <1>13, <1>14, <1>15,
     <1>16, <1>17, <1>18, <1>19, <1>20, <1>21, <1>22, <1>23 DEF Next, Step

-----------------------------------------------------------------------------
(* The locks, and what the others see of a step *)

\* A builder is alone behind the lock.
LEMMA Alone ==
    ASSUME Inv, NEW p \in Procs, NEW q \in Procs, proc[p].pc \in Building,
           proc[q].pc \in Inside
    PROVE  p = q
<1>1. proc[q].mode \in {"sh", "ex"} /\ proc[p].mode = "ex"
  BY Types DEF Inv, Typed, Proc1, ProcInv, ModeOf
<1>2. p \in holders["ex"] /\ q \in holders[proc[q].mode]
  BY <1>1 DEF Inv, Locks, Inside
<1> QED
  BY <1>1, <1>2 DEF Inv, Locks

LEMMA LocksStay ==
    ASSUME Inv, NEW p \in Procs, NEW n, Becomes(p, n), holders' = holders,
           n.pc \in Inside <=> proc[p].pc \in Inside,
           n.pc \in Inside => n.mode = proc[p].mode
    PROVE  Locks'
<1>1. proc'[p] = n /\ \A q \in Procs \ {p} : proc'[q] = proc[q]
  BY BecomesGives DEF Inv, Typed
<1>2. ASSUME NEW q \in Procs, NEW m \in {"sh", "ex"}
      PROVE  (q \in holders[m]) <=> (proc'[q].pc \in Inside /\ proc'[q].mode = m)
  BY <1>1 DEF Inv, Locks
<1> QED
  BY <1>2 DEF Inv, Locks

LEMMA LocksEnd ==
    ASSUME Inv, NEW p \in Procs, Becomes(p, Idle), holders' = Released(p)
    PROVE  Locks'
<1>1. proc'[p] = Idle /\ \A q \in Procs \ {p} : proc'[q] = proc[q]
  BY BecomesGives DEF Inv, Typed
<1>2. \A m \in {"sh", "ex"} : holders'[m] = holders[m] \ {p}
  BY DEF Released
<1>3. ASSUME NEW q \in Procs, NEW m \in {"sh", "ex"}
      PROVE  (q \in holders'[m]) <=> (proc'[q].pc \in Inside /\ proc'[q].mode = m)
  <2>1. CASE q = p
    BY <1>1, <1>2, <2>1 DEF Idle, Inside, Building
  <2>2. CASE q # p
    BY <1>1, <1>2, <2>2 DEF Inv, Locks
  <2> QED
    BY <2>1, <2>2
<1> QED
  BY <1>2, <1>3 DEF Inv, Locks

\* A step that leaves the files alone and saves no half checkpoint: what is left
\* to see to is the process that takes it.
LEMMA QuietKeeps ==
    ASSUME Inv, Typed', NEW p \in Procs, NEW n, Becomes(p, n), Locks',
           proc[p].pc # "meta", UNCHANGED <<code, files>>, ProcInv(p)'
    PROVE  Inv'
<1>1. proc'[p] = n /\ \A q \in Procs \ {p} : proc'[q] = proc[q]
  BY BecomesGives DEF Inv, Typed
<1>2. UNCHANGED <<panel, sidecar, ckRows, ckMeta>>
  BY DEF files
<1>3. ASSUME NEW q \in Procs, q # p
      PROVE  ProcInv(q)'
  <2>1. proc'[q] = proc[q] /\ ProcInv(q)
    BY <1>1, <1>3 DEF Inv
  <2>2. ModeOf(q)' /\ CodeOf(q)'
    BY <1>2, <2>1 DEF ProcInv, ModeOf, CodeOf
  <2>3. BuildOf(q)'
    BY <1>2, <2>1 DEF ProcInv, BuildOf, MadeBy, AllMade, Left
  <2>4. ReadOf(q)'
    BY <1>2, <2>1 DEF ProcInv, ReadOf, AllMade, Answers
  <2> QED
    BY <2>2, <2>3, <2>4 DEF ProcInv
<1>4. Checkpoint'
  BY <1>1, <1>2 DEF Inv, Checkpoint
<1>5. PanelMade' /\ SidecarTrue'
  BY <1>2 DEF Inv, PanelMade, SidecarTrue, AllMade
<1> QED
  BY <1>3, <1>4, <1>5 DEF Inv

\* A builder's step: the others are outside, and only care that a panel that is
\* there stays.
LEMMA BuilderKeeps ==
    ASSUME Inv, Typed', NEW p \in Procs, NEW n, Becomes(p, n),
           proc[p].pc \in Building, code' = code, holders' = holders,
           n.pc \in Building, n.mode = proc[p].mode,
           panel # Nothing => panel' # Nothing,
           ProcInv(p)', Checkpoint', PanelMade', SidecarTrue'
    PROVE  Inv'
<1>1. proc'[p] = n /\ \A q \in Procs \ {p} : proc'[q] = proc[q]
  BY BecomesGives DEF Inv, Typed
<1>2. Locks'
  BY LocksStay DEF Inside
<1>3. ASSUME NEW q \in Procs, q # p
      PROVE  ProcInv(q)'
  <2>1. proc'[q] = proc[q] /\ ProcInv(q) /\ proc[q].pc \notin Inside
    BY <1>1, <1>3, Alone DEF Inv
  <2> QED
    BY <2>1 DEF ProcInv, ModeOf, CodeOf, BuildOf, ReadOf, Inside, Building
<1> QED
  BY <1>2, <1>3 DEF Inv

-----------------------------------------------------------------------------
(* The steps *)

\* The record of a process that is where it says and has asked for something.
LEMMA Asked ==
    ASSUME Inv, NEW p \in Procs
    PROVE  /\ Typed /\ TypeOK /\ proc \in [Procs -> Proc1] /\ proc[p] \in Proc1
           /\ ProcInv(p)
BY Types DEF Inv, Typed

LEMMA StartKeeps ==
    ASSUME Inv, Typed', NEW p \in Procs, Start(p)
    PROVE  Inv'
<1>1. PICK r \in Requests :
         Becomes(p, [Idle EXCEPT !.pc = "choose", !.req = r, !.code = code])
  BY StartGives DEF Inv
<1> DEFINE n == [Idle EXCEPT !.pc = "choose", !.req = r, !.code = code]
<1>2. n.pc = "choose" /\ n.code = code /\ n.rows = <<>> /\ n.done = {} /\ n.gaps = {}
  BY DEF Idle
<1>3. proc[p].pc = "idle" /\ UNCHANGED <<code, files, holders>>
  BY DEF Start, At
<1> HIDE DEF n
<1>4. proc'[p] = n
  BY <1>1, BecomesGives, Asked DEF n
<1>5. Locks'
  BY <1>1, <1>2, <1>3, LocksStay DEF n, Inside, Building
<1>6. ProcInv(p)'
  BY <1>2, <1>3, <1>4 DEF ProcInv, ModeOf, CodeOf, BuildOf, ReadOf, Building
<1> QED
  BY <1>1, <1>3, <1>5, <1>6, QuietKeeps DEF n

LEMMA ChooseKeeps ==
    ASSUME Inv, Typed', NEW p \in Procs, Choose(p)
    PROVE  Inv'
<1> DEFINE n == [proc[p] EXCEPT !.pc = "lock",
                                !.mode = IF panel # Nothing THEN "sh" ELSE "ex"]
<1>1. Becomes(p, n)
  BY ChooseGives DEF Inv
<1>2. /\ n.pc = "lock" /\ n.code = proc[p].code /\ (n.mode = "sh" => panel # Nothing)
      /\ n.rows = proc[p].rows /\ n.done = proc[p].done /\ n.gaps = proc[p].gaps
  BY Asked DEF Proc1
<1>3. proc[p].pc = "choose" /\ UNCHANGED <<code, files, holders>>
  BY DEF Choose, At
<1> HIDE DEF n
<1>4. proc'[p] = n /\ panel' = panel
  BY <1>1, <1>3, BecomesGives, Asked DEF files
<1>5. Locks'
  BY <1>1, <1>2, <1>3, LocksStay DEF Inside, Building
<1>6. ProcInv(p)'
  BY <1>2, <1>3, <1>4, Asked DEF ProcInv, ModeOf, CodeOf, BuildOf, ReadOf, Building
<1> QED
  BY <1>1, <1>3, <1>5, <1>6, QuietKeeps

LEMMA LockKeeps ==
    ASSUME Inv, Typed', NEW p \in Procs, Lock(p)
    PROVE  Inv'
<1> DEFINE n == [proc[p] EXCEPT !.pc = "open"]
           m == proc[p].mode
<1>1. proc[p].pc = "lock" /\ UNCHANGED <<code, files>> /\ Compatible(m)
      /\ holders' = [holders EXCEPT ![m] = @ \cup {p}]
  BY DEF Lock, At
<1>2. Becomes(p, n)
  BY <1>1, GotoBecomes, Asked DEF Lock
<1>3. /\ n.pc = "open" /\ n.code = proc[p].code /\ n.mode = m /\ m \in {"sh", "ex"}
      /\ n.rows = proc[p].rows /\ n.done = proc[p].done /\ n.gaps = proc[p].gaps
  BY Asked DEF Proc1
<1> HIDE DEF n, m
<1>4. proc'[p] = n /\ panel' = panel /\ \A q \in Procs \ {p} : proc'[q] = proc[q]
  BY <1>1, <1>2, BecomesGives, Asked DEF files
<1>5. Locks'
  <2>1. holders \in [{"sh", "ex"} -> SUBSET Procs]
    BY Asked, Types
  <2>2. \A k \in {"sh", "ex"} : holders'[k] = IF k = m THEN holders[k] \cup {p} ELSE holders[k]
    BY <1>1, <1>3, <2>1
  <2>3. ASSUME NEW q \in Procs, NEW k \in {"sh", "ex"}
        PROVE  q \in holders'[k] <=> proc'[q].pc \in Inside /\ proc'[q].mode = k
    <3>1. CASE q = p
      <4>1. p \notin holders["sh"] /\ p \notin holders["ex"]
        BY <1>1 DEF Inv, Locks, Inside, Building
      <4> QED
        BY <1>3, <1>4, <2>2, <3>1, <4>1 DEF Inside
    <3>2. CASE q # p
      BY <1>4, <2>2, <3>2 DEF Inv, Locks
    <3> QED
      BY <3>1, <3>2
  <2>4. ASSUME NEW q \in Procs, NEW k \in Procs, q \in holders'["ex"],
               k \in holders'["sh"] \cup holders'["ex"]
        PROVE  q = k
    <3>1. holders["ex"] = {} /\ (m = "ex" => holders["sh"] = {})
      BY <1>1 DEF Compatible
    <3> QED
      BY <1>3, <2>2, <2>4, <3>1
  <2> QED
    BY <2>3, <2>4 DEF Locks
<1>6. ProcInv(p)'
  BY <1>1, <1>3, <1>4, Asked DEF ProcInv, ModeOf, CodeOf, BuildOf, ReadOf, Building, m
<1> QED
  BY <1>1, <1>2, <1>5, <1>6, QuietKeeps

\* A process that gives up, has read or is killed.
LEMMA LeaveKeeps ==
    ASSUME Inv, Typed', NEW p \in Procs, Becomes(p, Idle), holders' = Released(p),
           proc[p].pc # "meta", UNCHANGED <<code, files>>
    PROVE  Inv'
<1>1. proc'[p] = Idle /\ Locks'
  BY BecomesGives, LocksEnd, Asked
<1>2. ProcInv(p)'
  BY <1>1 DEF Idle, ProcInv, ModeOf, CodeOf, BuildOf, ReadOf, Building
<1> QED
  BY <1>1, <1>2, QuietKeeps

LEMMA ReuseKeeps ==
    ASSUME Inv, Typed', Unguarded = {}, NEW p \in Procs, Reuse(p)
    PROVE  Inv'
<1>1. Becomes(p, [proc[p] EXCEPT !.pc = "read", !.verdict = Verify(proc[p].req, code)])
  BY ReuseGives, Read, Types DEF Inv, Typed
<1> DEFINE n == [proc[p] EXCEPT !.pc = "read", !.verdict = Verify(proc[p].req, code)]
<1>2. /\ n.pc = "read" /\ n.verdict = Verify(proc[p].req, code) /\ n.mode = proc[p].mode
      /\ n.code = proc[p].code /\ n.req = proc[p].req
  BY Asked DEF Proc1
<1>3. /\ proc[p].pc = "open" /\ UNCHANGED <<code, files, holders>> /\ panel # Nothing
  BY DEF Reuse, At
<1> HIDE DEF n
<1>4. proc'[p] = n
  BY <1>1, BecomesGives, Asked DEF n
<1>5. Locks'
  BY <1>1, <1>2, <1>3, LocksStay DEF Inside, n
<1>6. ReadOf(p)'
  <2>1. UNCHANGED <<panel, sidecar>>
    BY <1>3 DEF files
  <2>2. ASSUME n.verdict = "ok"
        PROVE  \E s \in Span : AllMade(n.code, s) /\ Answers(s, n.req)
    <3>1. sidecar # Nothing /\ ~Differs(proc[p].req) /\ ~Changed(sidecar.sig, code)
      BY <1>2, <2>2 DEF Verify
    <3>2. PICK s \in Span : AllMade(sidecar.sig, s) /\ Meets(s, sidecar.req)
      BY <3>1 DEF Inv, SidecarTrue
    <3>3. proc[p].code = code /\ sidecar.sig = code
      BY <1>3, <3>1, Asked, Known, Types DEF Inv, SidecarTrue, ProcInv, CodeOf, Typed
    <3>4. Answers(s, proc[p].req)
      <4>1. proc[p].req \in Request /\ sidecar.req \in Request
        BY <1>3, <3>1, Asked, Types DEF Typed, Asks, Sidecar
      <4>2. DOMAIN proc[p].req = {"universe", "end_date", "universe_opts"}
            /\ proc[p].req.universe # Nothing /\ sidecar.req.universe # Nothing
        BY <4>1 DEF Request
      <4>3. /\ sidecar.req.universe = proc[p].req.universe
            /\ proc[p].req.universe_opts # Nothing =>
                  sidecar.req.universe_opts = proc[p].req.universe_opts
            /\ proc[p].req.end_date # Nothing /\ sidecar.req.end_date # Nothing =>
                  sidecar.req.end_date = proc[p].req.end_date
        BY <3>1, <4>2 DEF Differs
      <4> QED
        BY <3>2, <4>3 DEF Meets, Answers
    <3> QED
      BY <1>2, <3>2, <3>3, <3>4
  <2> QED
    BY <1>3, <1>4, <2>1, <2>2 DEF ReadOf, AllMade, Answers
<1>7. ProcInv(p)'
  BY <1>2, <1>4, <1>6 DEF ProcInv, ModeOf, CodeOf, BuildOf, Building
<1> QED
  BY <1>1, <1>3, <1>5, <1>7, QuietKeeps DEF n

LEMMA BuildKeeps ==
    ASSUME Inv, Typed', Unguarded = {}, NEW p \in Procs, Build(p)
    PROVE  Inv'
<1> DEFINE s == SpanOf(proc[p].req)
           n == [proc[p] EXCEPT !.pc = "sign", !.sig0 = code, !.span = s]
<1>1. Becomes(p, n)
  BY BuildGives, Read, Types DEF Inv, Typed
<1>2. proc[p].pc = "open" /\ UNCHANGED <<code, files, holders>> /\ panel = Nothing
  BY DEF Build, At
<1>3. Meets(s, proc[p].req)
  BY <1>2, Spanned, Asked, Types DEF Typed, Asks
<1> HIDE DEF s
<1>4. /\ n.pc = "sign" /\ n.sig0 = code /\ n.mode = proc[p].mode /\ n.code = proc[p].code
      /\ n.span = s /\ n.req = proc[p].req /\ proc[p].mode \in {"sh", "ex"}
      /\ n.rows = proc[p].rows /\ n.done = proc[p].done /\ n.gaps = proc[p].gaps
  BY Asked DEF Proc1
<1>5. sidecar = Nothing /\ UNCHANGED <<panel, sidecar>>
  BY <1>2 DEF Inv, SidecarTrue, AllMade, files
<1> HIDE DEF n
<1>6. proc'[p] = n
  BY <1>1, BecomesGives, Asked
<1>7. Locks'
  BY <1>1, <1>2, <1>4, LocksStay DEF Inside, Building
<1>8. n.mode = "ex" /\ n.code = code /\ n.rows = <<>> /\ n.done = {} /\ n.gaps = {}
  BY <1>2, <1>4, Asked DEF ProcInv, ModeOf, CodeOf, BuildOf
<1>9. ProcInv(p)'
  BY <1>2, <1>3, <1>4, <1>5, <1>6, <1>8
  DEF ProcInv, ModeOf, CodeOf, BuildOf, ReadOf, Building
<1> QED
  BY <1>1, <1>2, <1>7, <1>9, QuietKeeps

\* A build that starts with rows of its own code and span.
LEMMA BeginKeeps ==
    ASSUME Inv, Typed', NEW p \in Procs, proc[p].pc = "sign",
           NEW rows, NEW done, NEW gaps,
           Made(rows, done \ gaps, code, proc[p].span),
           NEW n, Becomes(p, n),
           n.pc = "build", n.sig = code, n.rows = rows, n.done = done, n.gaps = gaps,
           n.mode = proc[p].mode, n.code = proc[p].code, n.req = proc[p].req,
           n.sig0 = proc[p].sig0, n.span = proc[p].span,
           UNCHANGED <<code, files, holders>>
    PROVE  Inv'
<1>1. proc'[p] = n /\ UNCHANGED <<panel, sidecar>>
  BY BecomesGives, Asked DEF files
<1>2. Locks'
  BY LocksStay DEF Inside, Building
<1>3. /\ proc[p].mode = "ex" /\ proc[p].code = code /\ proc[p].sig0 = code
      /\ panel = Nothing /\ sidecar = Nothing /\ Meets(proc[p].span, proc[p].req)
  BY Asked DEF ProcInv, ModeOf, CodeOf, BuildOf, Building
<1>4. ModeOf(p)' /\ CodeOf(p)' /\ ReadOf(p)'
  BY <1>1, <1>3 DEF ModeOf, CodeOf, ReadOf, Building
<1>5. BuildOf(p)'
  BY <1>1, <1>3 DEF BuildOf, MadeBy
<1>6. ProcInv(p)'
  BY <1>4, <1>5 DEF ProcInv
<1> QED
  BY <1>2, <1>6, QuietKeeps

LEMMA ResumeKeeps ==
    ASSUME Inv, Typed', Unguarded = {}, NEW p \in Procs, Resume(p)
    PROVE  Inv'
<1> DEFINE n == [proc[p] EXCEPT !.pc = "build", !.sig = code, !.rows = ckRows,
                                !.done = ckMeta.done, !.gaps = ckMeta.gaps]
<1>1. Becomes(p, n) /\ Resumable(proc[p].span, code)
  BY ResumeGives, Read, Types DEF Inv, Typed
<1>2. proc[p].pc = "sign" /\ UNCHANGED <<code, files, holders>>
  BY DEF Resume, At
<1>3. Made(ckRows, ckMeta.done \ ckMeta.gaps, code, proc[p].span)
  <2>1. \A q \in Procs : proc[q].pc # "meta"
    BY <1>2, Alone DEF Inside, Building
  <2> QED
    BY <1>1, <2>1 DEF Inv, Checkpoint, Resumable
<1>4. /\ n.pc = "build" /\ n.sig = code /\ n.rows = ckRows
      /\ n.done = ckMeta.done /\ n.gaps = ckMeta.gaps
      /\ n.mode = proc[p].mode /\ n.code = proc[p].code /\ n.req = proc[p].req
      /\ n.sig0 = proc[p].sig0 /\ n.span = proc[p].span
  BY Asked DEF Proc1
<1> HIDE DEF n
<1> QED
  BY <1>1, <1>2, <1>3, <1>4, BeginKeeps

LEMMA ScratchKeeps ==
    ASSUME Inv, Typed', Unguarded = {}, NEW p \in Procs, FromScratch(p)
    PROVE  Inv'
<1> DEFINE n == [proc[p] EXCEPT !.pc = "build", !.sig = code]
<1>1. Becomes(p, n)
  BY ScratchGives, Read, Types DEF Inv, Typed
<1>2. proc[p].pc = "sign" /\ UNCHANGED <<code, files, holders>>
  BY DEF FromScratch, At
<1>3. Made(proc[p].rows, proc[p].done \ proc[p].gaps, code, proc[p].span)
  BY <1>2, Asked DEF ProcInv, BuildOf, Made
<1>4. /\ n.pc = "build" /\ n.sig = code /\ n.rows = proc[p].rows
      /\ n.done = proc[p].done /\ n.gaps = proc[p].gaps
      /\ n.mode = proc[p].mode /\ n.code = proc[p].code /\ n.req = proc[p].req
      /\ n.sig0 = proc[p].sig0 /\ n.span = proc[p].span
  BY Asked DEF Proc1
<1> HIDE DEF n
<1> QED
  BY <1>1, <1>2, <1>3, <1>4, BeginKeeps

\* One more row, for a pair that had none.
LEMMA MadeMore ==
    ASSUME NEW rows \in Rows, NEW pairs \in SUBSET (1..Pairs), NEW c, NEW s,
           Made(rows, pairs, c, s), NEW k \in (1..Pairs) \ pairs,
           NEW row, row = [pair |-> k, code |-> c, span |-> s], row \in Row
    PROVE  Made(Append(rows, row), pairs \cup {k}, c, s)
<1> DEFINE more == Append(rows, row)
<1>1. /\ rows \in Seq(Row) /\ Len(rows) \in Nat /\ DOMAIN rows = 1..Len(rows)
      /\ DOMAIN more = 1..(Len(rows) + 1)
      /\ \A j \in 1..Len(rows) : more[j] = rows[j]
      /\ more[Len(rows) + 1] = row
  BY DEF Rows
<1>2. row.pair = k /\ row.code = c /\ row.span = s
  OBVIOUS
<1> HIDE DEF more
<1>3. \A j \in DOMAIN more : j \in DOMAIN rows \/ j = Len(rows) + 1
  BY <1>1
<1>4. \A j \in DOMAIN more :
         more[j].code = c /\ more[j].span = s /\ more[j].pair \in pairs \cup {k}
  BY <1>1, <1>2, <1>3 DEF Made
<1>5. \A i, j \in DOMAIN more : more[i].pair = more[j].pair => i = j
  <2>1. \A j \in DOMAIN rows : more[j].pair \in pairs /\ more[j] = rows[j]
    BY <1>1 DEF Made
  <2> QED
    BY <1>1, <1>2, <1>3, <2>1 DEF Made
<1>6. \A l \in pairs \cup {k} : \E j \in DOMAIN more : more[j].pair = l
  <2>1. Len(rows) + 1 \in DOMAIN more /\ \A j \in DOMAIN rows : j \in DOMAIN more
    BY <1>1
  <2> QED
    BY <1>1, <1>2, <2>1 DEF Made
<1> QED
  BY <1>4, <1>5, <1>6 DEF Made, more

\* A pair that is gone through leaves rows, done and gaps as they belong together.
LEMMA ThroughKeeps ==
    ASSUME Inv, Typed', NEW p \in Procs, proc[p].pc = "build",
           NEW rows, NEW done, NEW gaps, Through(p, rows, done, gaps),
           Made(rows, done \ gaps, proc[p].code, proc[p].span),
           UNCHANGED <<code, files, holders>>
    PROVE  Inv'
<1>1. PICK pc \in {"rows", "build"}, since \in 0..Every :
         Becomes(p, [proc[p] EXCEPT !.rows = rows, !.done = done, !.gaps = gaps,
                                    !.since = since, !.pc = pc])
  BY DEF Through
<1> DEFINE n == [proc[p] EXCEPT !.rows = rows, !.done = done, !.gaps = gaps,
                                !.since = since, !.pc = pc]
<1>2. /\ n.pc = pc /\ n.sig = proc[p].sig /\ n.mode = proc[p].mode
      /\ n.rows = rows /\ n.done = done /\ n.gaps = gaps /\ n.span = proc[p].span
      /\ n.code = proc[p].code /\ n.req = proc[p].req /\ n.sig0 = proc[p].sig0
  BY Asked DEF Proc1
<1>3. Becomes(p, n)
  BY <1>1
<1> HIDE DEF n
<1>4. proc'[p] = n /\ UNCHANGED <<panel, sidecar>>
  BY <1>3, BecomesGives, Asked DEF files
<1>5. Locks'
  BY <1>2, <1>3, LocksStay DEF Inside, Building
<1>6. ModeOf(p)' /\ CodeOf(p)' /\ ReadOf(p)'
  BY <1>2, <1>4, Asked DEF ProcInv, ModeOf, CodeOf, ReadOf, Building
<1>7. BuildOf(p)'
  BY <1>2, <1>4, Asked DEF ProcInv, BuildOf, MadeBy, Building
<1>8. ProcInv(p)'
  BY <1>6, <1>7 DEF ProcInv
<1> QED
  BY <1>3, <1>5, <1>8, QuietKeeps

LEMMA PairKeeps ==
    ASSUME Inv, Typed', NEW p \in Procs, Pair(p) \/ Thin(p) \/ Fails(p)
    PROVE  Inv'
<1>1. PICK k \in (1..Pairs) \ (proc[p].done \cup proc[p].gaps) :
         LET row == [pair |-> k, code |-> proc[p].code, span |-> proc[p].span] IN
         \/ Through(p, Append(proc[p].rows, row), proc[p].done \cup {k}, proc[p].gaps)
         \/ \E done \in {proc[p].done, proc[p].done \cup {k}} :
               Through(p, proc[p].rows, done, proc[p].gaps \cup {k})
  BY PairGives DEF Inv
<1> DEFINE row == [pair |-> k, code |-> proc[p].code, span |-> proc[p].span]
<1>2. proc[p].pc = "build" /\ UNCHANGED <<code, files, holders>>
  BY DEF Pair, Thin, Fails, Going, At
<1>3. /\ proc[p].rows \in Rows /\ proc[p].done \in SUBSET (1..Pairs)
      /\ proc[p].code \in Sigs /\ proc[p].span \in Span /\ MadeBy(p)
  BY <1>2, Asked DEF Proc1, Marks, Typed, Asks, Building, ProcInv, BuildOf
<1>4. row \in Row
  BY <1>3 DEF Row
<1>5. CASE Through(p, Append(proc[p].rows, row), proc[p].done \cup {k}, proc[p].gaps)
  <2>1. Made(Append(proc[p].rows, row), (proc[p].done \ proc[p].gaps) \cup {k},
             proc[p].code, proc[p].span)
    BY <1>3, <1>4, MadeMore DEF MadeBy
  <2>2. (proc[p].done \cup {k}) \ proc[p].gaps = (proc[p].done \ proc[p].gaps) \cup {k}
    BY <1>1
  <2> HIDE DEF row
  <2> QED
    BY <1>2, <1>5, <2>1, <2>2, ThroughKeeps
<1>6. ASSUME NEW done \in {proc[p].done, proc[p].done \cup {k}},
             Through(p, proc[p].rows, done, proc[p].gaps \cup {k})
      PROVE  Inv'
  <2>1. done \ (proc[p].gaps \cup {k}) = proc[p].done \ proc[p].gaps
    BY <1>1
  <2> QED
    BY <1>2, <1>3, <1>6, <2>1, ThroughKeeps DEF MadeBy
<1> QED
  BY <1>1, <1>5, <1>6

\* A builder goes from one place to the next with the same rows.
LEMMA GotoGives ==
    ASSUME Inv, NEW p \in Procs, proc[p].pc # "idle", NEW pc,
           pc \in Building \ {"sign"}, proc[p].pc \in Building, Goto(p, pc)
    PROVE  \E n : /\ Becomes(p, n) /\ n = proc'[p]
                  /\ n.pc = pc /\ n.mode = proc[p].mode /\ n.sig = proc[p].sig
                  /\ n.rows = proc[p].rows /\ n.done = proc[p].done
                  /\ n.gaps = proc[p].gaps /\ n.span = proc[p].span
                  /\ n.code = proc[p].code /\ n.req = proc[p].req
                  /\ n.sig0 = proc[p].sig0
<1> DEFINE n == [proc[p] EXCEPT !.pc = pc]
<1>1. Becomes(p, n)
  BY GotoBecomes, Asked DEF Building
<1>2. proc'[p] = n
  BY <1>1, BecomesGives, Asked
<1>3. /\ n.pc = pc /\ n.mode = proc[p].mode /\ n.sig = proc[p].sig
      /\ n.rows = proc[p].rows /\ n.done = proc[p].done
      /\ n.gaps = proc[p].gaps /\ n.span = proc[p].span
      /\ n.code = proc[p].code /\ n.req = proc[p].req
      /\ n.sig0 = proc[p].sig0
  BY Asked DEF Proc1
<1> QED
  BY <1>1, <1>2, <1>3

LEMMA SaveRowsKeeps ==
    ASSUME Inv, Typed', NEW p \in Procs, SaveRows(p)
    PROVE  Inv'
<1>1. /\ proc[p].pc = "rows" /\ UNCHANGED <<code, panel, sidecar, holders>>
      /\ ckRows' = proc[p].rows /\ Goto(p, "meta")
  BY DEF SaveRows, At
<1>2. PICK n : /\ Becomes(p, n) /\ n = proc'[p]
               /\ n.pc = "meta" /\ n.mode = proc[p].mode /\ n.sig = proc[p].sig
               /\ n.rows = proc[p].rows /\ n.done = proc[p].done
               /\ n.gaps = proc[p].gaps /\ n.span = proc[p].span
               /\ n.code = proc[p].code /\ n.req = proc[p].req
               /\ n.sig0 = proc[p].sig0
  BY <1>1, GotoGives DEF Building
<1>3. ProcInv(p)'
  BY <1>1, <1>2, Asked DEF ProcInv, ModeOf, CodeOf, BuildOf, MadeBy, ReadOf, Building
<1>4. Checkpoint' /\ PanelMade' /\ SidecarTrue'
  BY <1>1, <1>2 DEF Inv, Checkpoint, PanelMade, SidecarTrue, AllMade
<1> QED
  BY <1>1, <1>2, <1>3, <1>4, BuilderKeeps DEF Building

LEMMA SaveMetaKeeps ==
    ASSUME Inv, Typed', NEW p \in Procs, SaveMeta(p)
    PROVE  Inv'
<1>1. /\ proc[p].pc = "meta" /\ UNCHANGED <<code, panel, sidecar, ckRows, holders>>
      /\ ckMeta' = [span |-> proc[p].span, sig |-> proc[p].sig, done |-> proc[p].done,
                    gaps |-> proc[p].gaps \cap proc[p].done]
      /\ Goto(p, "build")
  BY DEF SaveMeta, At
<1>2. PICK n : /\ Becomes(p, n) /\ n = proc'[p]
               /\ n.pc = "build" /\ n.mode = proc[p].mode /\ n.sig = proc[p].sig
               /\ n.rows = proc[p].rows /\ n.done = proc[p].done
               /\ n.gaps = proc[p].gaps /\ n.span = proc[p].span
               /\ n.code = proc[p].code /\ n.req = proc[p].req
               /\ n.sig0 = proc[p].sig0
  BY <1>1, GotoGives DEF Building
<1>3. ProcInv(p)'
  BY <1>1, <1>2, Asked DEF ProcInv, ModeOf, CodeOf, BuildOf, MadeBy, ReadOf, Building
<1>4. Checkpoint'
  <2>1. MadeBy(p) /\ ckRows = proc[p].rows /\ proc[p].sig = proc[p].code
    BY <1>1, Asked DEF ProcInv, CodeOf, BuildOf, Building
  <2>2. proc[p].done \ (proc[p].gaps \cap proc[p].done) = proc[p].done \ proc[p].gaps
    OBVIOUS
  <2>3. Made(ckRows', ckMeta'.done \ ckMeta'.gaps, ckMeta'.sig, ckMeta'.span)
    BY <1>1, <2>1, <2>2 DEF MadeBy
  <2> QED
    BY <2>3 DEF Checkpoint
<1>5. PanelMade' /\ SidecarTrue'
  BY <1>1 DEF Inv, PanelMade, SidecarTrue, AllMade
<1> QED
  BY <1>1, <1>2, <1>3, <1>4, <1>5, BuilderKeeps DEF Building

\* The save that fails here is that of the rows.
LEMMA PassKeeps ==
    ASSUME Inv, Typed', Unguarded = {}, NEW p \in Procs, SaveFails(p) \/ Spoiled(p)
    PROVE  Inv'
<1>1. PICK pc \in {"build", "drop"} :
         /\ Goto(p, pc) /\ (pc = "build" => proc[p].pc = "rows")
         /\ proc[p].pc \in {"rows", "build"}
         /\ UNCHANGED <<code, files, holders>>
  BY DEF SaveFails, Spoiled, At
<1>2. PICK n : /\ Becomes(p, n) /\ n = proc'[p]
               /\ n.pc = pc /\ n.mode = proc[p].mode /\ n.sig = proc[p].sig
               /\ n.rows = proc[p].rows /\ n.done = proc[p].done
               /\ n.gaps = proc[p].gaps /\ n.span = proc[p].span
               /\ n.code = proc[p].code /\ n.req = proc[p].req
               /\ n.sig0 = proc[p].sig0
  BY <1>1, GotoGives DEF Building
<1>3. UNCHANGED <<panel, sidecar>>
  BY <1>1 DEF files
<1>4. ProcInv(p)'
  BY <1>1, <1>2, <1>3, Asked
  DEF ProcInv, ModeOf, CodeOf, BuildOf, MadeBy, ReadOf, Building
<1>5. Locks'
  BY <1>1, <1>2, LocksStay DEF Inside, Building
<1> QED
  BY <1>1, <1>2, <1>4, <1>5, QuietKeeps

LEMMA WriteBeginKeeps ==
    ASSUME Inv, Typed', NEW p \in Procs, WriteBegin(p)
    PROVE  Inv'
<1>1. /\ proc[p].pc = "build" /\ UNCHANGED <<code, sidecar, ckRows, ckMeta, holders>>
      /\ panel' = [whole |-> FALSE, rows |-> <<>>, gaps |-> {}]
      /\ Left(p) = {} /\ Goto(p, "write")
  BY DEF WriteBegin, At
<1>2. PICK n : /\ Becomes(p, n) /\ n = proc'[p]
               /\ n.pc = "write" /\ n.mode = proc[p].mode /\ n.sig = proc[p].sig
               /\ n.rows = proc[p].rows /\ n.done = proc[p].done
               /\ n.gaps = proc[p].gaps /\ n.span = proc[p].span
               /\ n.code = proc[p].code /\ n.req = proc[p].req
               /\ n.sig0 = proc[p].sig0
  BY <1>1, GotoGives DEF Building
<1>3. panel' # Nothing
  <2>1. <<>> \in Rows /\ {} \in Marks
    BY DEF Rows, Marks
  <2>2. panel' \in Panel
    BY <1>1, <2>1, Zenon DEF Panel
  <2> QED
    BY <2>2, NothingAssumption
<1>4. Left(p)' = {}
  BY <1>1, <1>2 DEF Left
<1>5. sidecar' = Nothing /\ MadeBy(p)
  BY <1>1, Asked DEF ProcInv, BuildOf
<1>6. ProcInv(p)'
  BY <1>1, <1>2, <1>4, <1>5, Asked
  DEF ProcInv, ModeOf, CodeOf, BuildOf, MadeBy, ReadOf, Building
<1>7. Checkpoint'
  <2>1. \A q \in Procs : proc[q].pc # "meta"
    BY <1>1, Alone DEF Inside, Building
  <2> QED
    BY <1>1, <2>1 DEF Inv, Checkpoint
<1>8. PanelMade' /\ SidecarTrue'
  BY <1>1, <1>5 DEF PanelMade, SidecarTrue
<1> QED
  BY <1>1, <1>2, <1>3, <1>6, <1>7, <1>8, BuilderKeeps DEF Building

LEMMA WriteEndKeeps ==
    ASSUME Inv, Typed', NEW p \in Procs, WriteEnd(p)
    PROVE  Inv'
<1>1. /\ proc[p].pc = "write" /\ UNCHANGED <<code, sidecar, ckRows, ckMeta, holders>>
      /\ panel' = [whole |-> TRUE, rows |-> proc[p].rows, gaps |-> proc[p].gaps]
      /\ Goto(p, "sidecar")
  BY DEF WriteEnd, At
<1>2. PICK n : /\ Becomes(p, n) /\ n = proc'[p]
               /\ n.pc = "sidecar" /\ n.mode = proc[p].mode /\ n.sig = proc[p].sig
               /\ n.rows = proc[p].rows /\ n.done = proc[p].done
               /\ n.gaps = proc[p].gaps /\ n.span = proc[p].span
               /\ n.code = proc[p].code /\ n.req = proc[p].req
               /\ n.sig0 = proc[p].sig0
  BY <1>1, GotoGives DEF Building
<1>3. panel' # Nothing
  <2>1. proc[p].rows \in Rows /\ proc[p].gaps \in Marks
    BY Asked DEF Proc1
  <2>2. panel' \in Panel
    BY <1>1, <2>1, Zenon DEF Panel
  <2> QED
    BY <2>2, NothingAssumption
<1>4. sidecar' = Nothing /\ AllMade(proc[p].code, proc[p].span)'
  <2>1. sidecar = Nothing /\ MadeBy(p) /\ Left(p) = {} /\ proc[p].done \in SUBSET (1..Pairs)
    BY <1>1, Asked DEF ProcInv, BuildOf, Proc1, Marks
  <2>2. proc[p].done \ proc[p].gaps = (1..Pairs) \ proc[p].gaps
    BY <2>1 DEF Left
  <2> QED
    BY <1>1, <1>2, <1>3, <2>1, <2>2 DEF MadeBy, AllMade
<1>5. ProcInv(p)'
  BY <1>1, <1>2, <1>4, Asked DEF ProcInv, ModeOf, CodeOf, BuildOf, ReadOf, Building
<1>6. Checkpoint'
  <2>1. \A q \in Procs : proc[q].pc # "meta"
    BY <1>1, Alone DEF Inside, Building
  <2> QED
    BY <1>1, <2>1 DEF Inv, Checkpoint
<1>7. PanelMade' /\ SidecarTrue'
  <2>1. proc'[p].code \in Sigs /\ proc'[p].span \in Span
    BY <1>1, <1>2, Asked DEF Proc1, Typed, Asks, Building
  <2> QED
    BY <1>4, <2>1 DEF PanelMade, SidecarTrue, AllMade
<1> QED
  BY <1>1, <1>2, <1>3, <1>5, <1>6, <1>7, BuilderKeeps DEF Building

LEMMA WriteMetaKeeps ==
    ASSUME Inv, Typed', NEW p \in Procs, WriteMeta(p)
    PROVE  Inv'
<1>1. /\ proc[p].pc = "sidecar" /\ UNCHANGED <<code, panel, ckRows, ckMeta, holders>>
      /\ sidecar' \in {sidecar, [req |-> proc[p].req, sig |-> proc[p].sig0]}
      /\ Goto(p, "drop")
  BY DEF WriteMeta, At
<1>2. PICK n : /\ Becomes(p, n) /\ n = proc'[p]
               /\ n.pc = "drop" /\ n.mode = proc[p].mode /\ n.sig = proc[p].sig
               /\ n.rows = proc[p].rows /\ n.done = proc[p].done
               /\ n.gaps = proc[p].gaps /\ n.span = proc[p].span
               /\ n.code = proc[p].code /\ n.req = proc[p].req
               /\ n.sig0 = proc[p].sig0
  BY <1>1, GotoGives DEF Building
<1>3. ProcInv(p)'
  BY <1>1, <1>2, Asked DEF ProcInv, ModeOf, CodeOf, BuildOf, ReadOf, Building
<1>4. Checkpoint'
  <2>1. \A q \in Procs : proc[q].pc # "meta"
    BY <1>1, Alone DEF Inside, Building
  <2> QED
    BY <1>1, <2>1 DEF Inv, Checkpoint
<1>5. PanelMade'
  BY <1>1 DEF Inv, PanelMade, AllMade
<1>6. SidecarTrue'
  <2>1. /\ AllMade(proc[p].code, proc[p].span) /\ proc[p].sig0 = proc[p].code
        /\ sidecar = Nothing /\ Meets(proc[p].span, proc[p].req)
        /\ proc[p].code \in Sigs /\ proc[p].span \in Span
    BY <1>1, Asked DEF ProcInv, BuildOf, CodeOf, Building, Proc1, Typed, Asks
  <2>2. sidecar' # Nothing => sidecar' = [req |-> proc[p].req, sig |-> proc[p].sig0]
    BY <1>1, <2>1
  <2>3. sidecar' # Nothing => sidecar'.req = proc[p].req /\ sidecar'.sig = proc[p].code
    BY <2>1, <2>2
  <2>4. \A c, s : AllMade(c, s) => panel' # Nothing /\ panel'.whole
                    /\ Made(panel'.rows, (1..Pairs) \ panel'.gaps, c, s)
    BY <1>1 DEF AllMade
  <2> QED
    BY <2>1, <2>3, <2>4 DEF SidecarTrue, AllMade
<1> QED
  BY <1>1, <1>2, <1>3, <1>4, <1>5, <1>6, BuilderKeeps DEF Building

LEMMA DropRowsKeeps ==
    ASSUME Inv, Typed', NEW p \in Procs, DropRows(p)
    PROVE  Inv'
<1>1. /\ proc[p].pc = "drop" /\ UNCHANGED <<code, panel, sidecar, ckMeta, holders>>
      /\ ckRows' = Nothing /\ Goto(p, "dropped")
  BY DEF DropRows, At
<1>2. PICK n : /\ Becomes(p, n) /\ n = proc'[p]
               /\ n.pc = "dropped" /\ n.mode = proc[p].mode /\ n.sig = proc[p].sig
               /\ n.rows = proc[p].rows /\ n.done = proc[p].done
               /\ n.gaps = proc[p].gaps /\ n.span = proc[p].span
               /\ n.code = proc[p].code /\ n.req = proc[p].req
               /\ n.sig0 = proc[p].sig0
  BY <1>1, GotoGives DEF Building
<1>3. ProcInv(p)'
  BY <1>1, <1>2, Asked DEF ProcInv, ModeOf, CodeOf, BuildOf, ReadOf, Building
<1>4. Checkpoint' /\ PanelMade' /\ SidecarTrue'
  BY <1>1 DEF Inv, Checkpoint, PanelMade, SidecarTrue, AllMade
<1> QED
  BY <1>1, <1>2, <1>3, <1>4, BuilderKeeps DEF Building

LEMMA DropMetaKeeps ==
    ASSUME Inv, Typed', NEW p \in Procs, DropMeta(p)
    PROVE  Inv'
<1>1. /\ proc[p].pc = "dropped" /\ UNCHANGED <<code, panel, sidecar, ckRows>>
      /\ ckMeta' = Nothing /\ Becomes(p, Idle) /\ holders' = Released(p)
  BY EndBecomes, Asked DEF DropMeta, At, End
<1>2. proc'[p] = Idle /\ Locks' /\ \A q \in Procs \ {p} : proc'[q] = proc[q]
  BY <1>1, BecomesGives, LocksEnd, Asked
<1>3. ProcInv(p)'
  BY <1>2 DEF Idle, ProcInv, ModeOf, CodeOf, BuildOf, ReadOf, Building
<1>4. ASSUME NEW q \in Procs, q # p
      PROVE  ProcInv(q)'
  <2>1. proc'[q] = proc[q] /\ ProcInv(q) /\ proc[q].pc \notin Inside
    BY <1>1, <1>2, <1>4, Alone DEF Inv, Building
  <2> QED
    BY <1>1, <2>1 DEF ProcInv, ModeOf, CodeOf, BuildOf, ReadOf, Inside, Building
<1>5. Checkpoint' /\ PanelMade' /\ SidecarTrue'
  BY <1>1 DEF Inv, Checkpoint, PanelMade, SidecarTrue, AllMade
<1> QED
  BY <1>2, <1>3, <1>4, <1>5 DEF Inv

LEMMA EditKeeps ==
    ASSUME Inv, Typed', Unguarded = {}, Edit
    PROVE  Inv'
<1>1. /\ UNCHANGED <<panel, sidecar, ckRows, ckMeta, holders, proc>>
      /\ \A p \in Procs : proc[p].pc \notin {"choose", "lock", "open", "sign"}
  BY DEF Edit, files
<1>2. ASSUME NEW p \in Procs PROVE ProcInv(p)'
  BY <1>1, <1>2, Asked
  DEF ProcInv, ModeOf, CodeOf, BuildOf, ReadOf, MadeBy, AllMade, Answers, Left
<1> QED
  BY <1>1, <1>2 DEF Inv, Locks, Checkpoint, PanelMade, SidecarTrue, AllMade

LEMMA RemoveKeeps ==
    ASSUME Inv, Typed', Unguarded = {}, Remove
    PROVE  Inv'
<1>1. /\ UNCHANGED <<code, ckRows, ckMeta, holders, proc>>
      /\ panel' = Nothing /\ sidecar' = Nothing
      /\ \A p \in Procs : proc[p].pc = "idle"
  BY DEF Remove, At
<1>2. ASSUME NEW p \in Procs PROVE ProcInv(p)'
  BY <1>1, <1>2 DEF ProcInv, ModeOf, CodeOf, BuildOf, ReadOf, Building
<1> QED
  BY <1>1, <1>2 DEF Inv, Locks, Checkpoint, PanelMade, SidecarTrue

-----------------------------------------------------------------------------
(* What a checkpoint has of a build, the builds that follow have too *)

Computing == {"build", "rows", "meta"}
Same(m, n) == m.span = n.span /\ m.sig = n.sig

\* Whoever computes has done all that a checkpoint of the same build has, ...
KeptOf(p) ==
    /\ proc[p].pc \in Computing /\ ~mishaps.unread
    /\ ckMeta # Nothing /\ Same(ckMeta, proc[p])
    => ckMeta.done \subseteq proc[p].done

\* ... and a checkpoint that is not being removed has its rows.
HasRows ==
    ckMeta # Nothing /\ (\A p \in Procs : proc[p].pc # "dropped") => ckRows # Nothing

Kept == HasRows /\ \A p \in Procs : KeptOf(p)

\* A step that leaves the checkpoint alone, by a process that does not turn back.
LEMMA KeptQuiet ==
    ASSUME Inv, Kept, NEW p \in Procs, NEW n, Becomes(p, n),
           UNCHANGED <<ckRows, ckMeta>>, mishaps'.unread = mishaps.unread,
           proc[p].pc # "dropped",
           n.pc \in Computing =>
              /\ proc[p].pc \in Computing /\ Same(proc[p], n)
              /\ proc[p].done \subseteq n.done
    PROVE  Kept'
<1>1. proc'[p] = n /\ \A q \in Procs \ {p} : proc'[q] = proc[q]
  BY BecomesGives DEF Inv, Typed
<1>2. KeptOf(p)'
  <2> SUFFICES ASSUME n.pc \in Computing, ~mishaps.unread,
                      ckMeta # Nothing, Same(ckMeta, n)
               PROVE  ckMeta.done \subseteq n.done
    BY <1>1 DEF KeptOf, Same
  <2>1. Same(ckMeta, proc[p])
    BY DEF Same
  <2> QED
    BY <2>1 DEF Kept, KeptOf
<1>3. ASSUME NEW q \in Procs, q # p
      PROVE  KeptOf(q)'
  BY <1>1, <1>3 DEF Kept, KeptOf, Same
<1>4. HasRows'
  BY <1>1 DEF Kept, HasRows
<1> QED
  BY <1>2, <1>3, <1>4 DEF Kept

\* A builder's step: nobody else computes.
LEMMA KeptBuilder ==
    ASSUME Inv, Inv', NEW p \in Procs, proc'[p].pc \in Building, HasRows', KeptOf(p)'
    PROVE  Kept'
<1>1. ASSUME NEW q \in Procs, q # p
      PROVE  proc'[q].pc \notin Inside
  <2>1. proc'[q].mode \in {"sh", "ex"} /\ proc'[p].mode = "ex"
    <3>1. proc' \in [Procs -> Proc1]
      <4>1. TypeOK'
        BY DEF Inv, Typed
      <4> QED
        BY <4>1 DEF TypeOK, Proc1
    <3> QED
      BY <3>1 DEF Inv, Proc1, ProcInv, ModeOf
  <2> QED
    BY <1>1, <2>1 DEF Inv, Locks, Inside
<1>2. ASSUME NEW q \in Procs, q # p
      PROVE  KeptOf(q)'
  BY <1>1, <1>2 DEF KeptOf, Computing, Inside, Building
<1> QED
  BY <1>2 DEF Kept

LEMMA KeptSign ==
    ASSUME Inv, Inv', Kept, Unguarded = {}, NEW p \in Procs, Resume(p) \/ FromScratch(p)
    PROVE  Kept'
<1>1. proc[p].pc = "sign" /\ UNCHANGED <<ckRows, ckMeta>>
      /\ code \in Sigs /\ SigRead = {code} /\ proc[p] \in Proc1
  BY Asked, Types, Read DEF Resume, FromScratch, At, files
<1>2. \A q \in Procs : proc[q].pc # "dropped"
  BY <1>1, Alone DEF Inside, Building
<1>3. CASE Resume(p)
  <2> DEFINE n == [proc[p] EXCEPT !.pc = "build", !.sig = code, !.rows = ckRows,
                                  !.done = ckMeta.done, !.gaps = ckMeta.gaps]
  <2>1. Becomes(p, n)
    BY <1>1, <1>3, ResumeGives DEF Inv
  <2>2. n.pc = "build" /\ n.done = ckMeta.done
    BY <1>1 DEF Proc1
  <2> HIDE DEF n
  <2>3. proc'[p] = n /\ \A q \in Procs \ {p} : proc'[q] = proc[q]
    BY <2>1, BecomesGives, Asked
  <2>4. HasRows'
    BY <1>1, <1>2 DEF Kept, HasRows
  <2>5. KeptOf(p)'
    BY <1>1, <2>2, <2>3 DEF KeptOf
  <2> QED
    BY <2>2, <2>3, <2>4, <2>5, KeptBuilder DEF Building
<1>4. CASE FromScratch(p)
  <2> DEFINE n == [proc[p] EXCEPT !.pc = "build", !.sig = code]
  <2>1. Becomes(p, n)
    BY <1>1, <1>4, ScratchGives DEF Inv
  <2>2. n.pc = "build" /\ n.sig = code /\ n.span = proc[p].span
    BY <1>1 DEF Proc1
  <2> HIDE DEF n
  <2>3. proc'[p] = n /\ \A q \in Procs \ {p} : proc'[q] = proc[q]
    BY <2>1, BecomesGives, Asked
  <2>4. HasRows'
    BY <1>1, <1>2 DEF Kept, HasRows
  <2>5. KeptOf(p)'
    <3>1. mishaps \in Mishaps
      BY DEF Inv, Typed, TypeOK
    <3>2. CASE Resumable(proc[p].span, code)
      <4>1. Mishap(TRUE)
        BY <1>1, <1>4, <3>2 DEF FromScratch
      <4>2. mishaps'.unread
        BY <3>1, <4>1, MishapGives
      <4> QED
        BY <4>2 DEF KeptOf
    <3>3. CASE ~Resumable(proc[p].span, code)
      <4>1. ckMeta = Nothing \/ ~Same(ckMeta, n)
        BY <1>2, <2>2, <3>3 DEF Kept, HasRows, Resumable, Same
      <4> QED
        BY <1>1, <2>3, <4>1 DEF KeptOf, Same
    <3> QED
      BY <3>2, <3>3
  <2> QED
    BY <2>2, <2>3, <2>4, <2>5, KeptBuilder DEF Building
<1> QED
  BY <1>3, <1>4

\* A pair that is gone through is done or not, and what was done stays.
LEMMA KeptPair ==
    ASSUME Inv, Kept, NEW p \in Procs, Pair(p) \/ Thin(p) \/ Fails(p)
    PROVE  Kept'
<1>1. \E rows, done, gaps :
         proc[p].done \subseteq done /\ Through(p, rows, done, gaps)
  BY PairGives DEF Inv
<1>2. PICK rows, done, gaps :
         proc[p].done \subseteq done /\ Through(p, rows, done, gaps)
  BY <1>1
<1>3. PICK pc \in {"rows", "build"}, since \in 0..Every :
         Becomes(p, [proc[p] EXCEPT !.rows = rows, !.done = done, !.gaps = gaps,
                                    !.since = since, !.pc = pc])
  BY <1>2 DEF Through
<1> DEFINE n == [proc[p] EXCEPT !.rows = rows, !.done = done, !.gaps = gaps,
                                !.since = since, !.pc = pc]
<1>4. n.done = done /\ n.sig = proc[p].sig /\ n.span = proc[p].span
  BY Asked DEF Proc1
<1>5. Becomes(p, n)
  BY <1>3
<1> HIDE DEF n
<1>6. proc[p].pc = "build" /\ UNCHANGED <<ckRows, ckMeta>>
  BY DEF Pair, Thin, Fails, Going, At, files
<1>7. mishaps'.unread = mishaps.unread
  <2>1. mishaps \in Mishaps
    BY DEF Inv, Typed, TypeOK
  <2>2. mishaps' = mishaps \/ Mishap(FALSE)
    BY DEF Pair, Thin, Fails
  <2> QED
    BY <2>1, <2>2, MishapKeeps
<1> QED
  BY <1>2, <1>4, <1>5, <1>6, <1>7, KeptQuiet DEF Computing, Same

\* The builder's other steps.
LEMMA KeptGoto ==
    ASSUME Inv, Inv', Kept, Unguarded = {}, NEW p \in Procs,
           \/ SaveRows(p) \/ SaveMeta(p) \/ SaveFails(p) \/ Spoiled(p)
           \/ WriteBegin(p) \/ WriteEnd(p) \/ WriteMeta(p) \/ DropRows(p)
    PROVE  Kept' /\ (ckMeta' # ckMeta => KeepsDone)
<1>1. PICK pc \in Building \ {"sign"} :
         /\ Goto(p, pc) /\ proc[p].pc \in Building \ {"dropped"} /\ mishaps' = mishaps
         /\ pc \in Computing => proc[p].pc \in Computing
  BY DEF SaveRows, SaveMeta, SaveFails, Spoiled, WriteBegin, WriteEnd, WriteMeta,
         DropRows, At, Building, Computing
<1>2. PICK n : /\ Becomes(p, n) /\ n = proc'[p]
               /\ n.pc = pc /\ n.mode = proc[p].mode /\ n.sig = proc[p].sig
               /\ n.rows = proc[p].rows /\ n.done = proc[p].done
               /\ n.gaps = proc[p].gaps /\ n.span = proc[p].span
               /\ n.code = proc[p].code /\ n.req = proc[p].req
               /\ n.sig0 = proc[p].sig0
  BY <1>1, GotoGives DEF Building
<1>3. CASE UNCHANGED <<ckRows, ckMeta>>
  BY <1>1, <1>2, <1>3, KeptQuiet DEF Same
<1>4. CASE SaveRows(p)
  <2>1. ckRows' # Nothing /\ ckMeta' = ckMeta /\ proc[p].pc = "rows"
    <3>1. proc[p].rows \in Rows
      BY Asked DEF Proc1
    <3> QED
      BY <1>4, <3>1, NothingAssumption DEF SaveRows, At
  <2>2. KeptOf(p)'
    BY <1>1, <1>2, <2>1 DEF Kept, KeptOf, Same, Computing
  <2> QED
    BY <1>1, <1>2, <2>1, <2>2, KeptBuilder DEF HasRows
<1>5. CASE SaveMeta(p)
  <2>1. /\ proc[p].pc = "meta" /\ ckRows' = ckRows
        /\ ckMeta' = [span |-> proc[p].span, sig |-> proc[p].sig, done |-> proc[p].done,
                      gaps |-> proc[p].gaps \cap proc[p].done]
    BY <1>5 DEF SaveMeta, At
  <2>2. ckRows # Nothing
    <3>1. ckRows = proc[p].rows /\ proc[p].rows \in Rows
      BY <2>1, Asked DEF ProcInv, BuildOf, Proc1
    <3> QED
      BY <3>1, NothingAssumption
  <2>3. KeptOf(p)'
    BY <1>2, <2>1 DEF KeptOf
  <2>4. KeepsDone
    BY <2>1 DEF KeepsDone, Kept, KeptOf, Same, Computing
  <2> QED
    BY <1>1, <1>2, <2>1, <2>2, <2>3, <2>4, KeptBuilder DEF HasRows
<1>6. CASE DropRows(p)
  <2>1. proc'[p].pc = "dropped" /\ ckMeta' = ckMeta
    BY <1>6, Asked DEF DropRows, Goto
  <2> QED
    BY <2>1, KeptBuilder DEF HasRows, KeptOf, Computing, Building
<1>7. SaveFails(p) \/ Spoiled(p) \/ WriteBegin(p) \/ WriteEnd(p) \/ WriteMeta(p)
      => UNCHANGED <<ckRows, ckMeta>>
  BY DEF SaveFails, Spoiled, WriteBegin, WriteEnd, WriteMeta, files
<1> QED
  BY <1>3, <1>4, <1>5, <1>6, <1>7

LEMMA KeptDropMeta ==
    ASSUME Inv, Kept, NEW p \in Procs, DropMeta(p)
    PROVE  Kept' /\ KeepsDone
BY DEF DropMeta, Kept, KeptOf, HasRows, KeepsDone

LEMMA KeptStep ==
    ASSUME Inv, Inv', Kept, [Next]_vars, Unguarded = {}
    PROVE  Kept' /\ [KeepsDone]_ckMeta
<1>0. mishaps \in Mishaps
  BY DEF Inv, Typed, TypeOK
<1>1. ASSUME NEW p \in Procs,
             \/ Start(p) \/ Choose(p) \/ Lock(p) \/ Reuse(p) \/ Build(p)
             \/ Busy(p) \/ Refuse(p) \/ ReadEnd(p) \/ TooFew(p) \/ Kill(p)
      PROVE  Kept' /\ ckMeta' = ckMeta
  <2>1. \E n : Becomes(p, n) /\ n.pc \notin Computing
    <3>1. proc[p] \in Proc1 /\ Typed
      BY Asked
    <3>2. CASE Start(p) \/ Choose(p) \/ Reuse(p) \/ Build(p)
      <4>1. CASE Start(p)
        <5>1. PICK r \in Requests :
                 Becomes(p, [Idle EXCEPT !.pc = "choose", !.req = r, !.code = code])
          BY <3>1, <4>1, StartGives
        <5>2. [Idle EXCEPT !.pc = "choose", !.req = r, !.code = code].pc = "choose"
          BY DEF Idle
        <5> QED
          BY <5>1, <5>2 DEF Computing
      <4>2. CASE Choose(p)
        <5> DEFINE n == [proc[p] EXCEPT !.pc = "lock",
                                        !.mode = IF panel # Nothing THEN "sh" ELSE "ex"]
        <5>1. Becomes(p, n)
          BY <3>1, <4>2, ChooseGives
        <5>2. n.pc = "lock"
          BY <3>1 DEF Proc1
        <5> QED
          BY <5>1, <5>2 DEF Computing
      <4>3. CASE Reuse(p)
        <5>1. PICK now \in SigRead :
                 Becomes(p, [proc[p] EXCEPT !.pc = "read", !.verdict = Verify(proc[p].req, now)])
          BY <3>1, <4>3, ReuseGives
        <5>2. [proc[p] EXCEPT !.pc = "read", !.verdict = Verify(proc[p].req, now)].pc = "read"
          BY <3>1 DEF Proc1
        <5> QED
          BY <5>1, <5>2 DEF Computing
      <4>4. CASE Build(p)
        <5>1. PICK now \in SigRead :
                 Becomes(p, [proc[p] EXCEPT !.pc = "sign", !.sig0 = now,
                                            !.span = SpanOf(proc[p].req)])
          BY <3>1, <4>4, BuildGives
        <5>2. [proc[p] EXCEPT !.pc = "sign", !.sig0 = now,
                              !.span = SpanOf(proc[p].req)].pc = "sign"
          BY <3>1 DEF Proc1
        <5> QED
          BY <5>1, <5>2 DEF Computing
      <4> QED
        BY <3>2, <4>1, <4>2, <4>3, <4>4
    <3>3. CASE Lock(p)
      <4>1. Becomes(p, [proc[p] EXCEPT !.pc = "open"])
        BY <3>1, <3>3, GotoBecomes DEF Lock, At
      <4> QED
        BY <3>1, <4>1 DEF Proc1, Computing
    <3>4. CASE Busy(p) \/ Refuse(p) \/ ReadEnd(p) \/ TooFew(p) \/ Kill(p)
      BY <3>1, <3>4, EndBecomes, IdleTyped
      DEF Busy, Refuse, ReadEnd, TooFew, Kill, End, Computing
    <3> QED
      BY <1>1, <3>2, <3>3, <3>4
  <2>2. proc[p].pc # "dropped" /\ UNCHANGED <<ckRows, ckMeta>>
    BY <1>1 DEF Start, Choose, Lock, Reuse, Build, Busy, Refuse, ReadEnd, TooFew, Kill,
                At, files
  <2>3. mishaps'.unread = mishaps.unread
    <3>1. mishaps' = mishaps \/ Mishap(FALSE)
      BY <1>1 DEF Start, Choose, Lock, Reuse, Build, Busy, Refuse, ReadEnd, TooFew, Kill
    <3> QED
      BY <1>0, <3>1, MishapKeeps
  <2> QED
    BY <2>1, <2>2, <2>3, KeptQuiet
<1>2. ASSUME NEW p \in Procs, Start(p) \/ Step(p) \/ Kill(p)
      PROVE  Kept' /\ [KeepsDone]_ckMeta
  <2>1. CASE Resume(p) \/ FromScratch(p) \/ Pair(p) \/ Thin(p) \/ Fails(p)
    <3>1. ckMeta' = ckMeta
      BY <2>1 DEF Resume, FromScratch, Pair, Thin, Fails, files
    <3> QED
      BY <2>1, <3>1, KeptSign, KeptPair
  <2>2. CASE \/ SaveRows(p) \/ SaveMeta(p) \/ SaveFails(p) \/ Spoiled(p)
             \/ WriteBegin(p) \/ WriteEnd(p) \/ WriteMeta(p) \/ DropRows(p)
    BY <2>2, KeptGoto
  <2>3. CASE DropMeta(p)
    BY <2>3, KeptDropMeta
  <2> QED
    BY <1>1, <1>2, <2>1, <2>2, <2>3 DEF Step
<1>3. CASE Edit \/ Midnight \/ Remove \/ UNCHANGED vars
  <2>1. UNCHANGED <<proc, ckRows, ckMeta>>
    BY <1>3 DEF Edit, Midnight, Remove, vars, files
  <2>2. mishaps'.unread = mishaps.unread
    <3>1. mishaps' = mishaps \/ Mishap(FALSE)
      BY <1>3 DEF Edit, Midnight, Remove, vars
    <3> QED
      BY <1>0, <3>1, MishapKeeps
  <2> QED
    BY <2>1, <2>2 DEF Kept, KeptOf, HasRows, Same
<1> QED
  BY <1>2, <1>3 DEF Next

-----------------------------------------------------------------------------
(* The theorems *)

LEMMA TypedInit == Init => Typed
<1> SUFFICES ASSUME Init PROVE Typed
  OBVIOUS
<1>1. 0 \in Sigs /\ 0 \in Days
  BY DEF Sigs, Days
<1>2. proc \in [Procs -> Proc1] /\ \A p \in Procs : Asks(proc[p])
  BY IdleTyped DEF Init
<1>3. holders \in [{"sh", "ex"} -> SUBSET Procs] /\ mishaps \in Mishaps
  BY DEF Init, Mishaps
<1>4. TypeOK
  BY <1>1, <1>2, <1>3, TypesBack DEF Init
<1> QED
  BY <1>2, <1>4 DEF Typed

LEMMA InvInit == Init => Inv
<1> SUFFICES ASSUME Init PROVE Inv
  OBVIOUS
<1>1. \A p \in Procs : proc[p].pc = "idle"
  BY DEF Init, Idle
<1>2. \A p \in Procs : ProcInv(p)
  BY <1>1 DEF ProcInv, ModeOf, CodeOf, BuildOf, ReadOf, Building
<1>3. Locks
  BY <1>1 DEF Init, Locks, Inside, Building
<1> QED
  BY <1>2, <1>3, TypedInit DEF Init, Inv, Checkpoint, PanelMade, SidecarTrue

LEMMA InvStep ==
    ASSUME Inv, [Next]_vars, Unguarded = {}
    PROVE  Inv'
<1>0. Typed'
  BY TypedStep DEF Inv
<1>1. ASSUME NEW p \in Procs,
             Busy(p) \/ Refuse(p) \/ ReadEnd(p) \/ TooFew(p) \/ Kill(p)
      PROVE  Inv'
  <2>1. Becomes(p, Idle) /\ holders' = Released(p) /\ UNCHANGED <<code, files>>
    BY <1>1, EndBecomes, Asked DEF Busy, Refuse, ReadEnd, TooFew, Kill, End
  <2>2. proc[p].pc # "meta"
    BY <1>1 DEF Busy, Refuse, ReadEnd, TooFew, Kill, At
  <2> QED
    BY <1>0, <2>1, <2>2, LeaveKeeps
<1>2. ASSUME NEW p \in Procs, Start(p) \/ Step(p)
      PROVE  Inv'
  BY <1>0, <1>1, <1>2, StartKeeps, ChooseKeeps, LockKeeps, ReuseKeeps, BuildKeeps,
     ResumeKeeps, ScratchKeeps, PairKeeps, SaveRowsKeeps, SaveMetaKeeps, PassKeeps, WriteBeginKeeps,
     WriteEndKeeps, WriteMetaKeeps, DropRowsKeeps, DropMetaKeeps DEF Step
<1>3. CASE UNCHANGED vars \/ Midnight
  <2>1. UNCHANGED <<code, panel, sidecar, ckRows, ckMeta, holders, proc>>
    BY <1>3 DEF vars, files, Midnight
  <2>2. ASSUME NEW p \in Procs PROVE ProcInv(p)'
    BY <2>1, <2>2, Asked
    DEF ProcInv, ModeOf, CodeOf, BuildOf, ReadOf, MadeBy, AllMade, Answers, Left
  <2> QED
    BY <1>0, <2>1, <2>2 DEF Inv, Locks, Checkpoint, PanelMade, SidecarTrue, AllMade
<1> QED
  BY <1>0, <1>1, <1>2, <1>3, EditKeeps, RemoveKeeps DEF Next

\* Types, whatever happens: wf_wave.py build_panel, the checkpoint and the locks.
THEOREM TypesHold == Spec => []TypeOK
<1>1. Typed => TypeOK
  BY DEF Typed
<1> QED
  BY <1>1, TypedInit, TypedStep, PTL DEF Spec

LEMMA Invariant ==
    ASSUME Unguarded = {}
    PROVE  Spec => []Inv
<1>1. Inv /\ [Next]_vars => Inv'
  BY InvStep
<1> QED
  BY <1>1, InvInit, PTL DEF Spec

\* While a process builds the panel nobody else builds or reads it (build_panel,
\* PanelLock).
THEOREM BuildsAloneHolds ==
    ASSUME Unguarded = {}
    PROVE  Spec => []BuildsAlone
<1>1. Inv => BuildsAlone
  <2> SUFFICES ASSUME Inv, NEW p \in Procs, NEW q \in Procs, proc[p].pc \in Building,
                      proc[q].pc \notin {"idle", "choose", "lock"}
               PROVE  p = q
    BY DEF BuildsAlone, Building
  <2>1. proc[q].pc \in Inside
    BY Types DEF Inv, Typed, Proc1, Inside, Building
  <2> QED
    BY <2>1, Alone
<1> QED
  BY <1>1, Invariant, PTL

\* A panel that is whole has one row for each pair, whatever kills and resumes it
\* took, but for the pairs that gave none when they were last computed
\* (build_training_features, _save_checkpoint).
THEOREM CompleteHolds ==
    ASSUME Unguarded = {}
    PROVE  Spec => []Complete
<1>1. Inv => Complete
  <2> SUFFICES ASSUME Inv, panel # Nothing, panel.whole, NEW k \in 1..Pairs
               PROVE  Cardinality({j \in DOMAIN panel.rows : panel.rows[j].pair = k})
                         = IF k \in panel.gaps THEN 0 ELSE 1
    BY DEF Complete
  <2>1. PICK c, s : Made(panel.rows, (1..Pairs) \ panel.gaps, c, s)
    BY DEF Inv, PanelMade, AllMade
  <2>2. CASE k \in panel.gaps
    <3>1. {j \in DOMAIN panel.rows : panel.rows[j].pair = k} = {}
      BY <2>1, <2>2 DEF Made
    <3> QED
      BY <2>2, <3>1, FS_EmptySet
  <2>3. CASE k \notin panel.gaps
    <3>1. PICK j \in DOMAIN panel.rows : panel.rows[j].pair = k
      BY <2>1, <2>3 DEF Made
    <3>2. {i \in DOMAIN panel.rows : panel.rows[i].pair = k} = {j}
      BY <2>1, <3>1 DEF Made
    <3> QED
      BY <2>3, <3>2, FS_Singleton
  <2> QED
    BY <2>2, <2>3
<1> QED
  BY <1>1, Invariant, PTL

\* The rows of a panel were all computed by the same code and for the same universe
\* and days (_assert_code_unchanged, the signature of a checkpoint).
THEOREM UnmixedHolds ==
    ASSUME Unguarded = {}
    PROVE  Spec => []Unmixed
<1>1. Inv => Unmixed
  BY DEF Inv, PanelMade, AllMade, Made, Unmixed
<1> QED
  BY <1>1, Invariant, PTL

\* A reader that is told its panel is ok reads rows made by the code it has
\* imported, and of every key that its request sets and that is compared
\* (panel_meta.verify).
THEOREM OkIsTrueHolds ==
    ASSUME Unguarded = {}
    PROVE  Spec => []OkIsTrue
<1>1. Inv => OkIsTrue
  <2> SUFFICES ASSUME Inv, NEW p \in Procs, At(p, "read"), proc[p].verdict = "ok",
                      NEW j \in DOMAIN panel.rows
               PROVE  panel.rows[j].code = proc[p].code
                      /\ Answers(panel.rows[j].span, proc[p].req)
    BY DEF OkIsTrue, Answers
  <2>1. PICK s \in Span : AllMade(proc[p].code, s) /\ Answers(s, proc[p].req)
    BY DEF Inv, ProcInv, ReadOf, At
  <2>2. panel.rows[j].code = proc[p].code /\ panel.rows[j].span = s
    BY <2>1 DEF AllMade, Made
  <2> QED
    BY <2>1, <2>2
<1> QED
  BY <1>1, Invariant, PTL

\* What a checkpoint says is done stays done in the checkpoints of the same build by
\* the same code, kill after kill, unless one cannot be read (build_panel resumes,
\* wf_wave.py 343-346).
THEOREM ProgressKeptHolds ==
    ASSUME Unguarded = {}
    PROVE  Spec => ProgressKept
<1>1. Init => Kept
  BY DEF Init, Idle, Kept, KeptOf, HasRows, Computing
<1>2. Inv /\ Inv' /\ Kept /\ [Next]_vars => Kept' /\ [KeepsDone]_ckMeta
  BY KeptStep
<1> QED
  BY <1>1, <1>2, Invariant, PTL DEF Spec, ProgressKept
=============================================================================
