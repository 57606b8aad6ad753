---------------------------- MODULE SignalStream ----------------------------
(* The two Redis Streams that carry trade signals and the one consumer group *)
(* the executor holds on each, as services/shared/redis_streams.py drives     *)
(* them.  An entry is named by its stream and its position in the whole       *)
(* history of the stream, as a Redis entry id is never used twice.            *)
EXTENDS Integers, Sequences

CONSTANTS Signals,   \* the payloads a publisher may append
          StreamCap  \* xadd's maxlen: entries a stream retains

ASSUME StreamAssumption == StreamCap \in Nat \ {0}

VARIABLES log,     \* per stream, every entry ever appended
          cursor,  \* per stream, the group's last-delivered position, or NoGroup
          pel      \* ids delivered to the consumer and not acknowledged

streamVars == <<log, cursor, pel>>

Streams == {"trading:signals", "strategy:signals"}
NoGroup == -1
EntryIds == Streams \X (Nat \ {0})

StreamTypeOK ==
    /\ log \in [Streams -> Seq(Signals)]
    /\ cursor \in [Streams -> Nat \cup {NoGroup}]
    /\ pel \in SUBSET EntryIds

StreamInit ==
    /\ log = [st \in Streams |-> <<>>]
    /\ cursor = [st \in Streams |-> NoGroup]
    /\ pel = {}

-----------------------------------------------------------------------------
Payload(id) == log[id[1]][id[2]]

\* Positions that MAXLEN trimming has left in the stream.
Retained(st) == {i \in 1..Len(log[st]) : i + StreamCap > Len(log[st])}

\* What the special id ">" selects: entries after the group's cursor.
Undelivered(st) == {i \in Retained(st) : i > cursor[st]}

\* XADD with maxlen: the entry is appended, the oldest ones stop being retained.
XAdd(st, m) ==
    /\ log' = [log EXCEPT ![st] = Append(@, m)]
    /\ UNCHANGED <<cursor, pel>>

\* XGROUP CREATE id="$" on the streams where the call succeeds: a new group
\* starts after the newest entry; BUSYGROUP leaves an existing group as it is.
CreateGroups(made) ==
    /\ cursor' = [st \in Streams |->
                    IF st \in made /\ cursor[st] = NoGroup
                    THEN Len(log[st]) ELSE cursor[st]]
    /\ UNCHANGED <<log, pel>>

\* Mutant: a group read with NOACK delivers without making anything pending.
XReadGroupNoAck(st) ==
    /\ cursor' = [cursor EXCEPT ![st] = Len(log[st])]
    /\ UNCHANGED <<log, pel>>

\* The server's side of XREADGROUP ">": every new entry becomes pending.
XReadGroup(st) ==
    /\ cursor' = [cursor EXCEPT ![st] = Len(log[st])]
    /\ pel' = pel \cup ({st} \X Undelivered(st))
    /\ UNCHANGED log

\* XACK; a failed call (ok = FALSE) is logged and swallowed by the wrapper.
XAck(id, ok) ==
    /\ pel' = IF ok THEN pel \ {id} ELSE pel
    /\ UNCHANGED <<log, cursor>>
=============================================================================
