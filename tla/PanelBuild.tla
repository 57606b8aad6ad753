----------------------------- MODULE PanelBuild -----------------------------
(* The panel of features an experiment works on: one npz file a path, which   *)
(* scripts/wf_wave.py build_panel reuses when it is there and builds when it  *)
(* is not.  A build takes hours, is killed now and then, and resumes from a   *)
(* checkpoint of two files (xgboost-ml feature_pipeline.py); readers share    *)
(* and a builder excludes, by flock (scripts/panel_meta.py); a sidecar says   *)
(* what the panel was built from; and while all this goes on, people edit the *)
(* feature code.                                                              *)
EXTENDS Naturals, Sequences, FiniteSets

CONSTANTS
    Procs,       \* processes that ask for the panel of this path
    Universes,   \* universe with its seed, the limit and the days: always set
    Options,     \* universe_opts that are not empty
    Requests,    \* what the processes ask for
    Pairs,       \* the stocks and dates of a panel are 1..Pairs
    Every,       \* PANEL_CK_EVERY
    MinRows,     \* a panel of fewer rows is not one
    Nothing,     \* a file that is not there, a field not set
    Unguarded,   \* what the code has no guard against and may happen; see below
    MaxEdits, MaxDays, MaxMishaps   \* bounds

\* "unseen": the feature code is edited after a process has imported it and
\*           before it takes the signature its checkpoints carry
\* "torn":   a process is killed between the two files of a checkpoint, or
\*           between the removal of the one and of the other, or the second
\*           of them cannot be saved
\* "cut":    a process is killed while it writes the npz
\* "half":   people remove the npz and leave its sidecar
\* "blind":  the signature of the code cannot be read (a file of the package
\*           goes away between the listing and the look at its mtime)
\* "removed": people remove the npz between a process's look at it and its lock
Hazards == {"unseen", "torn", "cut", "half", "blind", "removed"}

Days == 0..MaxDays

\* end_date and universe_opts may be left out.
Request == [universe : Universes, end_date : Days \cup {Nothing},
            universe_opts : Options \cup {Nothing}]

ASSUME PanelAssumption ==
    /\ Pairs \in Nat \ {0} /\ Every \in Nat \ {0}
    /\ MinRows \in Nat \ {0}
    /\ Requests \subseteq Request /\ Unguarded \subseteq Hazards
    /\ Nothing \notin Universes \cup Options \cup Nat
    /\ MaxEdits \in Nat /\ MaxDays \in Nat /\ MaxMishaps \in Nat

VARIABLES
    code,     \* the feature code on disk; the signature is its newest mtime
    today,    \* the date, up to which a request without end_date goes
    panel,    \* the npz
    sidecar,  \* its build_meta.json
    ckRows,   \* checkpoint: rows.pkl
    ckMeta,   \* checkpoint: meta.json
    holders,  \* who holds the lock file, by mode
    proc,     \* the processes
    mishaps   \* kills, removals, pairs without a row, checkpoints not read: how
              \* many, and whether a checkpoint was not read

files == <<panel, sidecar, ckRows, ckMeta>>
vars == <<code, today, files, holders, proc, mishaps>>

Sigs == 0..MaxEdits
SigsRead == Sigs \cup {Nothing}
Marks == SUBSET (1..Pairs)

\* What a build is of: a request whose end_date is set.
Span == [universe : Universes, end_date : Days, universe_opts : Options \cup {Nothing}]
Row == [pair : 1..Pairs, code : Sigs, span : Span]
Rows == Seq(Row)

\* gaps, here and below, is not in the files: it remembers the pairs that were
\* computed and gave no row.
Panel == [whole : BOOLEAN, rows : Rows, gaps : Marks]
Sidecar == [req : Requests, sig : SigsRead]
CkMeta == [span : Span, sig : SigsRead, done : Marks, gaps : Marks]
Mishaps == [count : 0..MaxMishaps, unread : BOOLEAN]

\* A file that is there is not one that is not.
ASSUME NothingAssumption == Nothing \notin Panel /\ Nothing \notin Rows

Idle == [pc |-> "idle", req |-> Nothing, code |-> 0, mode |-> "sh", sig0 |-> 0, sig |-> 0,
         span |-> Nothing, rows |-> <<>>, done |-> {}, gaps |-> {}, since |-> 0,
         verdict |-> "missing"]

TypeOK ==
    /\ code \in Sigs /\ today \in Days
    /\ panel = Nothing \/ panel \in Panel
    /\ sidecar = Nothing \/ sidecar \in Sidecar
    /\ ckRows = Nothing \/ ckRows \in Rows
    /\ ckMeta = Nothing \/ ckMeta \in CkMeta
    /\ holders \in [{"sh", "ex"} -> SUBSET Procs]
    /\ proc \in [Procs -> [pc : {"idle", "choose", "lock", "open", "read", "sign", "build",
                                 "rows", "meta", "write", "sidecar", "drop", "dropped"},
                           req : Requests \cup {Nothing}, code : Sigs, mode : {"sh", "ex"},
                           sig0 : SigsRead, sig : SigsRead, span : Span \cup {Nothing},
                           rows : Rows, done : Marks, gaps : Marks, since : 0..Every,
                           verdict : {"ok", "missing", "mismatch", "code_changed"}]]
    /\ mishaps \in Mishaps

Init ==
    /\ code = 0 /\ today = 0
    /\ panel = Nothing /\ sidecar = Nothing /\ ckRows = Nothing /\ ckMeta = Nothing
    /\ holders = [m \in {"sh", "ex"} |-> {}]
    /\ proc = [p \in Procs |-> Idle]
    /\ mishaps = [count |-> 0, unread |-> FALSE]

-----------------------------------------------------------------------------
(* panel_meta: the lock and the sidecar *)

\* Mutant: no lock, as on a system without fcntl.
CompatibleAlways(mode) == TRUE
\* flock: shared holders get on with each other, an exclusive one with nobody.
Compatible(mode) == holders["ex"] = {} /\ (mode = "ex" => holders["sh"] = {})

Released(p) == [m \in {"sh", "ex"} |-> holders[m] \ {p}]

\* _feature_code_sig: the signature of the code, or None.
SigRead == IF "blind" \in Unguarded THEN {code, Nothing} ELSE {code}

\* Two signatures that are both known and not the same.
Changed(old, now) == old # Nothing /\ now # Nothing /\ old # now

\* What a request says and the sidecar says otherwise.  A key that one of them
\* leaves out is not compared, but for the options: a sidecar always has them,
\* if only as none, so asking for some against none is a difference.
Differs(req) ==
    \E k \in DOMAIN req :
        /\ req[k] # Nothing
        /\ sidecar.req[k] # Nothing \/ k = "universe_opts"
        /\ sidecar.req[k] # req[k]

\* Mutant: only the code is compared.
VerifyCode(req, now) ==
    CASE sidecar = Nothing          -> "missing"
      [] Changed(sidecar.sig, now)  -> "code_changed"
      [] OTHER                      -> "ok"
\* verify: the request first (hard), then the feature code (soft).
Verify(req, now) ==
    CASE sidecar = Nothing          -> "missing"
      [] Differs(req)               -> "mismatch"
      [] Changed(sidecar.sig, now)  -> "code_changed"
      [] OTHER                      -> "ok"

-----------------------------------------------------------------------------
(* build_panel: lock, and reuse what is there *)

\* One more thing goes wrong.
Mishap(unread) ==
    /\ mishaps.count < MaxMishaps
    /\ mishaps' = [count |-> mishaps.count + 1, unread |-> mishaps.unread \/ unread]

At(p, pc) == proc[p].pc = pc
Goto(p, pc) == proc' = [proc EXCEPT ![p].pc = pc]
End(p) == proc' = [proc EXCEPT ![p] = Idle] /\ holders' = Released(p)

\* A process imports the feature code as it is on the disk.
Start(p) ==
    /\ At(p, "idle")
    /\ \E r \in Requests :
          proc' = [proc EXCEPT ![p] = [Idle EXCEPT !.pc = "choose", !.req = r, !.code = code]]
    /\ UNCHANGED <<code, today, files, holders, mishaps>>

\* The mode is chosen before the lock is held.
Choose(p) ==
    /\ At(p, "choose")
    /\ proc' = [proc EXCEPT ![p].pc = "lock",
                            ![p].mode = IF panel # Nothing THEN "sh" ELSE "ex"]
    /\ UNCHANGED <<code, today, files, holders, mishaps>>

\* With PANEL_LOCK_WAIT the process may wait for this, up to its deadline.
Lock(p) ==
    LET m == proc[p].mode
    IN  /\ At(p, "lock") /\ Compatible(m)
        /\ holders' = [holders EXCEPT ![m] = @ \cup {p}]
        /\ Goto(p, "open")
        /\ UNCHANGED <<code, today, files, mishaps>>

\* PanelLockBusy
Busy(p) ==
    /\ At(p, "lock") /\ ~Compatible(proc[p].mode)
    /\ End(p)
    /\ UNCHANGED <<code, today, files, mishaps>>

\* A panel that is there is loaded and its conditions are compared; a mismatch
\* is a warning, or an error with PANEL_META_STRICT.
Reuse(p) ==
    /\ At(p, "open") /\ panel # Nothing /\ panel.whole
    /\ \E now \in SigRead :
          proc' = [proc EXCEPT ![p].pc = "read", ![p].verdict = Verify(proc[p].req, now)]
    /\ UNCHANGED <<code, today, files, holders, mishaps>>

Refuse(p) ==
    /\ At(p, "open") /\ panel # Nothing
    /\ ~panel.whole \/ Verify(proc[p].req, code) = "mismatch"
    /\ End(p)
    /\ UNCHANGED <<code, today, files, mishaps>>

ReadEnd(p) ==
    /\ At(p, "read")
    /\ End(p)
    /\ UNCHANGED <<code, today, files, mishaps>>

-----------------------------------------------------------------------------
(* build_panel and build_training_features: build what is not there *)

\* end: the day asked for, or the day the build starts on.
SpanOf(req) == [req EXCEPT !.end_date = IF @ = Nothing THEN today ELSE @]

\* sig_at_start, and the stocks and dates of this build.
Build(p) ==
    /\ At(p, "open") /\ panel = Nothing
    /\ \E now \in SigRead :
          proc' = [proc EXCEPT ![p].pc = "sign", ![p].sig0 = now,
                               ![p].span = SpanOf(proc[p].req)]
    /\ UNCHANGED <<code, today, files, holders, mishaps>>

\* Mutant: a checkpoint is resumed whatever code its rows are from.
ResumableStale(span, sig) ==
    /\ ckRows # Nothing /\ ckMeta # Nothing
    /\ ckMeta.span = span
Resumable(span, sig) ==
    /\ ckRows # Nothing /\ ckMeta # Nothing
    /\ ckMeta.span = span /\ ckMeta.sig = sig

\* Mutant: the rows of a checkpoint have lost their columns.
SavedBare == [j \in DOMAIN ckRows |-> [pair |-> ckRows[j].pair]]
SavedRows == ckRows
\* Mutant: the pairs that are done are not taken over with the rows.
SavedDoneNone == {}
SavedDone == ckMeta.done

\* The build takes its own signature and resumes a checkpoint that agrees.
Resume(p) ==
    /\ At(p, "sign")
    /\ \E now \in SigRead :
          /\ Resumable(proc[p].span, now)
          /\ proc' = [proc EXCEPT ![p].pc = "build", ![p].sig = now, ![p].rows = SavedRows,
                                  ![p].done = SavedDone, ![p].gaps = ckMeta.gaps]
    /\ UNCHANGED <<code, today, files, holders, mishaps>>

\* One that does not agree, or cannot be read, is left: from the first pair.
FromScratch(p) ==
    /\ At(p, "sign")
    /\ \E now \in SigRead :
          /\ proc' = [proc EXCEPT ![p].pc = "build", ![p].sig = now]
          /\ IF Resumable(proc[p].span, now)
             THEN Mishap(TRUE)
             ELSE UNCHANGED mishaps
    /\ UNCHANGED <<code, today, files, holders>>

\* Pairs this run has still to go through: not done, and not failed in it.
Left(p) == (1..Pairs) \ (proc[p].done \cup proc[p].gaps)
Next1(S) == CHOOSE x \in S : \A y \in S : x <= y

\* The loop goes on: one pair a stock, and before every stock the code is
\* looked at.
Going(p) == At(p, "build") /\ Left(p) # {} /\ \E now \in SigRead : ~Changed(proc[p].sig, now)

\* Every so many pairs the checkpoint is saved.
Due(p) == proc[p].since + 1 >= Every
Counted(p) == IF Due(p) THEN 0 ELSE proc[p].since + 1
Counting(p) == IF Due(p) THEN "rows" ELSE "build"

\* A pair that is computed: a row, and it is done.
Pair(p) ==
    LET k == Next1(Left(p))
    IN  /\ Going(p)
        /\ proc' = [proc EXCEPT
                      ![p].rows = Append(@, [pair |-> k, code |-> proc[p].code,
                                             span |-> proc[p].span]),
                      ![p].done = @ \cup {k},
                      ![p].since = Counted(p), ![p].pc = Counting(p)]
        /\ UNCHANGED <<code, today, files, holders, mishaps>>

\* Fewer than 10 features: no row, and the pair is done all the same.
Thin(p) ==
    LET k == Next1(Left(p))
    IN  /\ Going(p)
        /\ proc' = [proc EXCEPT
                      ![p].done = @ \cup {k}, ![p].gaps = @ \cup {k},
                      ![p].since = Counted(p), ![p].pc = Counting(p)]
        /\ Mishap(FALSE)
        /\ UNCHANGED <<code, today, files, holders>>

\* An exception: no row, the pair is not done, and the loop goes on to the next.
Fails(p) ==
    /\ Going(p)
    /\ proc' = [proc EXCEPT ![p].gaps = @ \cup {Next1(Left(p))}]
    /\ Mishap(FALSE)
    /\ UNCHANGED <<code, today, files, holders>>

\* "panel build failed": the checkpoint stays.
Enough(p) == Len(proc[p].rows) >= MinRows
TooFew(p) ==
    /\ At(p, "build") /\ Left(p) = {} /\ ~Enough(p)
    /\ End(p)
    /\ UNCHANGED <<code, today, files, mishaps>>

SaveRows(p) ==
    /\ At(p, "rows")
    /\ ckRows' = proc[p].rows
    /\ Goto(p, "meta")
    /\ UNCHANGED <<code, today, panel, sidecar, ckMeta, holders, mishaps>>

\* The pairs that failed are not done: the run that resumes tries them again.
\* Mutant: the pairs are recorded as all done.
SaveMetaAll(p) ==
    /\ At(p, "meta")
    /\ ckMeta' = [span |-> proc[p].span, sig |-> proc[p].sig, done |-> 1..Pairs, gaps |-> {}]
    /\ Goto(p, "build")
    /\ UNCHANGED <<code, today, panel, sidecar, ckRows, holders, mishaps>>

SaveMeta(p) ==
    /\ At(p, "meta")
    /\ ckMeta' = [span |-> proc[p].span, sig |-> proc[p].sig, done |-> proc[p].done,
                  gaps |-> proc[p].gaps \cap proc[p].done]
    /\ Goto(p, "build")
    /\ UNCHANGED <<code, today, panel, sidecar, ckRows, holders, mishaps>>

\* A checkpoint that cannot be saved is logged, and the build goes on.
SaveFails(p) ==
    /\ At(p, "rows") \/ (At(p, "meta") /\ "torn" \in Unguarded)
    /\ Goto(p, "build")
    /\ UNCHANGED <<code, today, files, holders, mishaps>>

\* The code has changed under the build, by its signature or, at the end, by the
\* caller's: nothing is saved and the checkpoint is removed.
Spoiled(p) ==
    /\ At(p, "build")
    /\ \E now \in SigRead : \/ Changed(proc[p].sig, now)
                            \/ Left(p) = {} /\ Enough(p) /\ Changed(proc[p].sig0, now)
    /\ Goto(p, "drop")
    /\ UNCHANGED <<code, today, files, holders, mishaps>>

\* np.savez_compressed opens the file and writes it in place.
WriteBegin(p) ==
    /\ At(p, "build") /\ Left(p) = {} /\ Enough(p)
    /\ \E now \in SigRead : ~Changed(proc[p].sig0, now)
    /\ panel' = [whole |-> FALSE, rows |-> <<>>, gaps |-> {}]
    /\ Goto(p, "write")
    /\ UNCHANGED <<code, today, sidecar, ckRows, ckMeta, holders, mishaps>>

WriteEnd(p) ==
    /\ At(p, "write")
    /\ panel' = [whole |-> TRUE, rows |-> proc[p].rows, gaps |-> proc[p].gaps]
    /\ Goto(p, "sidecar")
    /\ UNCHANGED <<code, today, sidecar, ckRows, ckMeta, holders, mishaps>>

\* A sidecar that cannot be written is logged and passed over.
WriteMeta(p) ==
    /\ At(p, "sidecar")
    /\ sidecar' \in {sidecar, [req |-> proc[p].req, sig |-> proc[p].sig0]}
    /\ Goto(p, "drop")
    /\ UNCHANGED <<code, today, panel, ckRows, ckMeta, holders, mishaps>>

DropRows(p) ==
    /\ At(p, "drop")
    /\ ckRows' = Nothing
    /\ Goto(p, "dropped")
    /\ UNCHANGED <<code, today, panel, sidecar, ckMeta, holders, mishaps>>

DropMeta(p) ==
    /\ At(p, "dropped")
    /\ ckMeta' = Nothing
    /\ End(p)
    /\ UNCHANGED <<code, today, panel, sidecar, ckRows, mishaps>>

-----------------------------------------------------------------------------
(* What goes on around it *)

\* People edit the feature code; the newest mtime is a new one.
Edit ==
    /\ code < MaxEdits
    /\ "unseen" \in Unguarded
       \/ \A p \in Procs : proc[p].pc \notin {"choose", "lock", "open", "sign"}
    /\ code' = code + 1
    /\ UNCHANGED <<today, files, holders, proc, mishaps>>

Midnight ==
    /\ today < MaxDays
    /\ today' = today + 1
    /\ UNCHANGED <<code, files, holders, proc, mishaps>>

\* SIGKILL, when the container is recreated, or an exception that nobody catches
\* (the database, the disk); the kernel releases the lock.
Kill(p) ==
    /\ ~At(p, "idle")
    /\ proc[p].pc \in {"meta", "dropped"} => "torn" \in Unguarded
    /\ At(p, "write") => "cut" \in Unguarded
    /\ End(p)
    /\ Mishap(FALSE)
    /\ UNCHANGED <<code, today, files>>

\* People remove a panel to have it built again, while nobody uses it.
Remove ==
    /\ panel # Nothing
    /\ \A p \in Procs : At(p, "idle") \/ ("removed" \in Unguarded /\ At(p, "lock"))
    /\ panel' = Nothing
    /\ sidecar' = IF "half" \in Unguarded THEN sidecar ELSE Nothing
    /\ Mishap(FALSE)
    /\ UNCHANGED <<code, today, ckRows, ckMeta, holders, proc>>

Step(p) ==
    \/ Choose(p) \/ Lock(p) \/ Busy(p) \/ Reuse(p) \/ Refuse(p) \/ ReadEnd(p)
    \/ Build(p) \/ Resume(p) \/ FromScratch(p) \/ Pair(p) \/ Thin(p) \/ Fails(p) \/ TooFew(p)
    \/ SaveRows(p) \/ SaveMeta(p) \/ SaveFails(p)
    \/ Spoiled(p) \/ WriteBegin(p) \/ WriteEnd(p) \/ WriteMeta(p) \/ DropRows(p) \/ DropMeta(p)

Next ==
    \/ \E p \in Procs : Start(p) \/ Step(p) \/ Kill(p)
    \/ Edit \/ Midnight \/ Remove

\* Experiments keep asking for the panel, and a process that runs goes on.
Spec == Init /\ [][Next]_vars /\ \A p \in Procs : WF_vars(Start(p)) /\ WF_vars(Step(p))

-----------------------------------------------------------------------------
(* Properties *)

\* While a process builds the panel nobody else builds or reads it, although the
\* mode of the lock was chosen before it was held (build_panel, 265-270).
BuildsAlone ==
    \A p, q \in Procs :
        /\ proc[p].pc \in {"sign", "build", "rows", "meta", "write", "sidecar", "drop", "dropped"}
        /\ proc[q].pc \notin {"idle", "choose", "lock"}
        => p = q

\* A panel that is whole has one row for each pair, whatever kills and resumes
\* it took to build it, and lacks none but those that gave no row when they were
\* last computed: too few features, or an exception (_save_checkpoint, 545-562;
\* build_training_features, 479-504).
Complete ==
    panel # Nothing /\ panel.whole =>
        \A k \in 1..Pairs :
            Cardinality({j \in DOMAIN panel.rows : panel.rows[j].pair = k})
                = IF k \in panel.gaps THEN 0 ELSE 1

\* The rows of a panel were all computed by the same feature code, and for the
\* same universe and days (wf_wave.py 358-370; _assert_code_unchanged).
Unmixed ==
    panel # Nothing =>
        \A i, j \in DOMAIN panel.rows :
            /\ panel.rows[i].code = panel.rows[j].code
            /\ panel.rows[i].span = panel.rows[j].span

\* A reader that is told its panel is ok reads rows made by the code it has
\* imported itself, and of what its request sets: the universe, its options when
\* it asks for some, and its last day when the builder was asked for one too.
\* What a request leaves out is not compared (verify, 155-177).
OkIsTrue ==
    \A p \in Procs : At(p, "read") /\ proc[p].verdict = "ok" =>
        \A j \in DOMAIN panel.rows :
            LET asked == proc[p].req
                made == panel.rows[j].span
            IN  /\ panel.rows[j].code = proc[p].code
                /\ made.universe = asked.universe
                /\ asked.universe_opts # Nothing => made.universe_opts = asked.universe_opts
                /\ asked.end_date # Nothing /\ sidecar.req.end_date # Nothing =>
                      made.end_date = asked.end_date

\* Differing options are always brought up ("hard": universe, limit, days,
\* end_date, opts, panel_meta.py 19-20): a reader told ok has the options of its
\* panel.  A request without options is not compared with a panel that has some.
OptionsCompared ==
    \A p \in Procs : At(p, "read") /\ proc[p].verdict = "ok" =>
        \A j \in DOMAIN panel.rows :
            panel.rows[j].span.universe_opts = proc[p].req.universe_opts

KeepsDone ==
    ckMeta # Nothing /\ ckMeta' # Nothing /\ ~mishaps.unread
       /\ ckMeta'.span = ckMeta.span /\ ckMeta'.sig = ckMeta.sig
    => ckMeta.done \subseteq ckMeta'.done

\* A run takes over what the checkpoint has of the same build by the same code:
\* the pairs that are done never become fewer, kill after kill (wf_wave.py
\* 343-346), unless a checkpoint could not be read.
ProgressKept == [][KeepsDone]_ckMeta

\* However often builds are killed, spoiled by an edit, or asked for again, some
\* run takes the build over and brings it to an end (wf_wave.py 343-346), unless
\* runs go through all the pairs and have too few rows.
Finished == []<>(\/ panel # Nothing /\ panel.whole
                 \/ \E p \in Procs : At(p, "build") /\ Left(p) = {} /\ ~Enough(p))
=============================================================================
