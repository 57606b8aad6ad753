---------------------------- MODULE TradeExecutor ----------------------------
(* services/trade-executor: one process that reads signed trade signals from *)
(* Redis Streams, vets each against the risk limits, sends orders to the      *)
(* Creon broker, reports to the stream of results and keeps the positions.    *)
(* The process may die between any two of its external calls.                 *)
EXTENDS SignalStream, PositionBook

CONSTANTS MaxDaily,        \* MAX_DAILY_TRADE
          MaxPosition,     \* MAX_POSITION_SIZE
          MaxOrderQty,     \* MAX_ORDER_QUANTITY
          RefPrice,        \* MARKET_ORDER_REF_PRICE
          Balances,        \* withdrawable amounts the broker may report
          MaxMessages,     \* bound: entries published
          MaxDay,          \* bound: trading days
          MaxFailures      \* bound: failed external calls, and deaths of the process

Sources == {"strategy", "predictor", "manual"}
Actions == {"buy", "sell", "hold"}

ASSUME ExecutorAssumption ==
    /\ Signals \subseteq [source : Sources, action : Actions, stock : Stocks,
                          qty : Int, price : Int]
    /\ MaxDaily \in Nat /\ MaxPosition \in Nat /\ MaxOrderQty \in Nat
    /\ RefPrice \in Nat \ {0}
    /\ Balances \subseteq Nat
    /\ MaxMessages \in Nat /\ MaxDay \in Nat /\ MaxFailures \in Nat

VARIABLES
    pc,        \* where the single consumer thread stands
    turn,      \* the stream the polling loop reads next
    batch,     \* ids of the current batch still to be handled
    cur,       \* the id whose handler is running, or NoId
    accepted,  \* what the broker call for cur reported: result.success
    daily, resetDay,   \* _daily_trade_amount, _reset_day
    day,       \* the date on the clock
    failures,  \* calls that failed so far, and deaths of the process
    \* outside the process
    results,   \* stream:trade:orders: what was reported about each id
    orders,    \* ids of the orders the broker took, in that order
    holdings,  \* shares the broker holds per stock
    \* history
    spent,     \* amount the broker took from this process on this date
    done,      \* ids whose handler ran to its end
    faults     \* kinds of failure met that the book can suffer from

procVars == <<pc, turn, batch, cur, accepted, daily, resetDay>>
brokerVars == <<orders, holdings, spent>>
vars == <<streamVars, bookVars, procVars, day, failures, results,
          brokerVars, done, faults>>

NoId == <<"none", 0>>
NoBalance == -1
Steps == {"down", "deaf", "read", "handle", "order", "record", "book", "ack"}
FaultKinds == {"sync", "persist", "misreport", "crash"}

TypeOK ==
    /\ StreamTypeOK
    /\ BookTypeOK
    /\ pc \in Steps
    /\ turn \in Streams
    /\ batch \in SUBSET EntryIds
    /\ cur \in EntryIds \cup {NoId}
    /\ accepted \in BOOLEAN
    /\ daily \in Nat
    /\ resetDay \in Nat
    /\ day \in Nat
    /\ failures \in Nat
    /\ results \in SUBSET (EntryIds \X {"success", "failure", "rejected"})
    /\ orders \in Seq(EntryIds)
    /\ holdings \in [Stocks -> Int]
    /\ spent \in Nat
    /\ done \in SUBSET EntryIds
    /\ faults \in SUBSET FaultKinds

Init ==
    /\ StreamInit
    /\ BookInit
    /\ pc = "down"
    /\ turn = "trading:signals"
    /\ batch = {}
    /\ cur = NoId
    /\ accepted = FALSE
    /\ daily = 0
    /\ resetDay = 1
    /\ day = 1
    /\ failures = 0
    /\ results = {}
    /\ orders = <<>>
    /\ holdings = [s \in Stocks |-> 0]
    /\ spent = 0
    /\ done = {}
    /\ faults = {}

-----------------------------------------------------------------------------
\* A step in which n external calls fail.
Failing(n) ==
    /\ failures + n <= MaxFailures
    /\ failures' = failures + n

(* Publishers *)

StreamOf(m) == IF m.source = "strategy" THEN "strategy:signals"
                                        ELSE "trading:signals"

\* The consumer reads the field "data" of an entry and checks the signature
\* inside it.  RedisStorage and Predictor append the signed signal as flat
\* fields of the entry, so "data" defaults to "{}", which carries no signature;
\* only scripts/test_mock_signal.py wraps the signed signal in "data".
Verified(m) == m.source = "manual"

Publish(m) ==
    /\ Len(log["trading:signals"]) + Len(log["strategy:signals"]) < MaxMessages
    /\ XAdd(StreamOf(m), m)
    /\ UNCHANGED <<bookVars, procVars, day, failures, results, brokerVars,
                   done, faults>>

-----------------------------------------------------------------------------
(* The process starts, dies and polls *)

\* create_group may fail on a stream: logged, never tried again by this process.
\* Without a connection subscribe_streams returns at once, and the main thread
\* sleeps on with nobody reading the streams.
Start ==
    /\ pc = "down"
    /\ \/ \E made \in SUBSET Streams :
             /\ CreateGroups(made)
             /\ Failing(Cardinality(Streams \ made))
             /\ pc' = "read"
       \/ /\ Failing(1)
          /\ pc' = "deaf"
          /\ UNCHANGED streamVars
    /\ resetDay' = day
    /\ UNCHANGED <<bookVars, turn, batch, cur, accepted, daily, day, results,
                   brokerVars, done, faults>>

\* The memory goes with the process: the batch, the positions, the daily amount.
Crash ==
    /\ pc # "down"
    /\ Failing(1)
    /\ pc' = "down"
    /\ turn' = "trading:signals"
    /\ batch' = {}
    /\ cur' = NoId
    /\ accepted' = FALSE
    /\ daily' = 0
    /\ ForgetLocal
    /\ spent' = 0
    /\ faults' = IF pc \in {"record", "book"} /\ accepted
                 THEN faults \cup {"crash"} ELSE faults
    /\ UNCHANGED <<streamVars, db, resetDay, day, results, orders, holdings, done>>

Other(st) == CHOOSE other \in Streams : other # st

\* xreadgroup returns the new entries of one stream, or nothing.
ReadStream(st) ==
    /\ pc = "read" /\ turn = st
    /\ turn' = Other(st)
    /\ IF cursor[st] = NoGroup \/ Undelivered(st) = {}
       THEN UNCHANGED <<streamVars, pc, batch>>
       ELSE /\ XReadGroup(st)
            /\ batch' = {st} \X Undelivered(st)
            /\ pc' = "handle"
    /\ UNCHANGED <<bookVars, cur, accepted, daily, resetDay, day,
                   failures, results, brokerVars, done, faults>>

\* The server served the read but the reply was lost: the wrapper logs the
\* error and returns [], and the entries stay pending.
LoseReply(st) ==
    /\ pc = "read" /\ turn = st
    /\ cursor[st] # NoGroup /\ Undelivered(st) # {}
    /\ Failing(1)
    /\ turn' = Other(st)
    /\ XReadGroup(st)
    /\ UNCHANGED <<bookVars, pc, batch, cur, accepted, daily, resetDay, day,
                   results, brokerVars, done, faults>>

\* _process_pending asks xpending(stream, group, consumer=..., idle=...).  In
\* the pinned redis-py 5.2.1 xpending takes the stream and the group only, so
\* the call raises a TypeError, which is logged: no entry is ever listed.
XPendingListed(st) == {id[2] : id \in {e \in pel : e[1] = st}}   \* mutant: it works
XPending(st) == {}

\* What the loop does with the list, every 30 s between two rounds of reading:
\* entries still in the stream are handled like new ones.
ProcessPending ==
    /\ pc = "read" /\ turn = "trading:signals"
    /\ batch' = {id \in pel : id[2] \in XPending(id[1]) \cap Retained(id[1])}
    /\ pc' = IF batch' = {} THEN "read" ELSE "handle"
    /\ UNCHANGED <<streamVars, bookVars, turn, cur, accepted, daily, resetDay,
                   day, failures, results, brokerVars, done, faults>>

-----------------------------------------------------------------------------
(* process_signal *)

\* Mutant: the entries of a batch are handled in any order.
IsAny(id) == pc = "handle" /\ id \in batch

\* The batch is handled in the order of the stream.
IsNext(id) ==
    /\ pc = "handle"
    /\ id \in batch
    /\ \A other \in batch : other[1] = id[1] => id[2] <= other[2]

RiskPrice(m) == IF m.price > 0 THEN m.price ELSE RefPrice
Amount(m) == m.qty * RiskPrice(m)

\* _reset_daily_limits: the amount that counts against today's limit.
DailyNow == IF resetDay # day THEN 0 ELSE daily
ResetDailyLimits == daily' = DailyNow /\ resetDay' = day

ValidQuantity(m) == m.qty > 0 /\ m.qty <= MaxOrderQty

\* check_buyable with withdrawable amount w: get_balance returns a fresh amount
\* or one up to 30 s old, either of Balances, or nothing, which rejects the buy.
Withdrawable == Balances \cup {NoBalance}
Buyable(m, w) ==
    m.action = "buy" => w # NoBalance /\ Amount(m) <= MaxPosition /\ Amount(m) <= w

WithinDailyLimit(m) == DailyNow + Amount(m) <= MaxDaily

\* An answer is appended to the results, or the xadd fails and is swallowed.
Report(id, kind, lost) ==
    results' = IF lost = 1 THEN results ELSE results \cup {<<id, kind>>}

Begin(id) ==
    /\ cur' = id
    /\ batch' = batch \ {id}
    /\ UNCHANGED <<streamVars, db, turn, accepted, day, brokerVars, done>>

Drop(id) ==
    /\ IsNext(id) /\ ~Verified(Payload(id))
    /\ Begin(id)
    /\ pc' = "ack"
    /\ UNCHANGED <<known, local, daily, resetDay, failures, results, faults>>

Reject(id) ==
    \E lost \in 0..1 :
       /\ ResetDailyLimits
       /\ Begin(id)
       /\ Report(id, "rejected", lost)
       /\ Failing(lost)
       /\ pc' = "ack"
       /\ UNCHANGED <<known, local, faults>>

\* Outside the market hours, or with a quantity out of range.  The clock may say
\* "closed" at any call, so every verified signal may end here; one with a bad
\* quantity must.
RejectEarly(id) ==
    /\ IsNext(id) /\ Verified(Payload(id))
    /\ Reject(id)

RejectAmount(id) ==
    LET m == Payload(id) IN
    /\ IsNext(id) /\ Verified(m) /\ ValidQuantity(m)
    /\ (\E w \in Withdrawable : ~Buyable(m, w)) \/ ~WithinDailyLimit(m)
    /\ Reject(id)

\* The checks that precede check_position_limit pass; it synchronises first,
\* and a failing query (failed = 1) is logged only.
Checked(id, failed) ==
    LET m == Payload(id) IN
    /\ IsNext(id) /\ Verified(m) /\ ValidQuantity(m)
    /\ \E w \in Withdrawable : Buyable(m, w)
    /\ WithinDailyLimit(m)
    /\ ResetDailyLimits
    /\ Begin(id)
    /\ SyncPositions(failed = 0)
    /\ faults' = IF failed = 1 THEN faults \cup {"sync"} ELSE faults

RejectPosition(id) ==
    LET m == Payload(id) IN
    \E failed, lost \in 0..1 :
       /\ Checked(id, failed)
       /\ \/ ~WithinPositionLimit(failed = 0, m.stock, m.qty, RiskPrice(m))
          \/ m.action \notin {"buy", "sell"}
       /\ Report(id, "rejected", lost)
       /\ Failing(failed + lost)
       /\ pc' = "ack"

Admit(id) ==
    LET m == Payload(id) IN
    \E failed \in 0..1 :
       /\ Checked(id, failed)
       /\ WithinPositionLimit(failed = 0, m.stock, m.qty, RiskPrice(m))
       /\ m.action \in {"buy", "sell"}
       /\ Failing(failed)
       /\ pc' = "order"
       /\ UNCHANGED results

\* OrderManager and CreonExecutor.  A negative price never reaches the broker.
\* The broker sells only what it holds.  An exception after BlockRequest took
\* the order (reading a header, a broken COM connection) reports a failure.
BrokerTakes(m) == m.price >= 0 /\ (m.action = "sell" => m.qty <= holdings[m.stock])

PlaceOrder ==
    LET m == Payload(cur) IN
    /\ pc = "order"
    /\ pc' = "record"
    /\ \/ /\ accepted' = FALSE
          /\ UNCHANGED <<brokerVars, failures, faults>>
       \/ /\ BrokerTakes(m)
          /\ orders' = Append(orders, cur)
          /\ holdings' = [holdings EXCEPT ![m.stock] =
                            IF m.action = "buy" THEN @ + m.qty ELSE @ - m.qty]
          /\ spent' = spent + Amount(m)
          /\ \/ /\ accepted' = TRUE
                /\ UNCHANGED <<failures, faults>>
             \/ /\ accepted' = FALSE
                /\ Failing(1)
                /\ faults' = faults \cup {"misreport"}
    /\ UNCHANGED <<streamVars, bookVars, turn, batch, cur, daily, resetDay,
                   day, results, done>>

\* Mutant: only an accepted order counts, though a misreported one was taken.
RecordAccepted ==
    /\ pc = "record"
    /\ daily' = IF accepted THEN daily + Amount(Payload(cur)) ELSE daily
    /\ \E lost \in 0..1 :
          /\ Report(cur, IF accepted THEN "success" ELSE "failure", lost)
          /\ Failing(lost)
    /\ pc' = IF accepted THEN "book" ELSE "ack"
    /\ UNCHANGED <<streamVars, bookVars, turn, batch, cur, accepted, resetDay,
                   day, brokerVars, done, faults>>

\* Mutant: the answer is "success" whatever the broker said.
RecordSuccess ==
    /\ pc = "record"
    /\ daily' = daily + Amount(Payload(cur))
    /\ \E lost \in 0..1 : Report(cur, "success", lost) /\ Failing(lost)
    /\ pc' = IF accepted THEN "book" ELSE "ack"
    /\ UNCHANGED <<streamVars, bookVars, turn, batch, cur, accepted, resetDay,
                   day, brokerVars, done, faults>>

\* Whatever the order's outcome, its amount counts against the daily limit.
RecordResult ==
    /\ pc = "record"
    /\ daily' = daily + Amount(Payload(cur))
    /\ \E lost \in 0..1 :
          /\ Report(cur, IF accepted THEN "success" ELSE "failure", lost)
          /\ Failing(lost)
    /\ pc' = IF accepted THEN "book" ELSE "ack"
    /\ UNCHANGED <<streamVars, bookVars, turn, batch, cur, accepted, resetDay,
                   day, brokerVars, done, faults>>

RecordPosition ==
    LET m == Payload(cur) IN
    /\ pc = "book"
    /\ \E failed \in 0..1 :
          /\ UpdatePosition(m.stock, m.action, m.qty, failed = 0)
          /\ Failing(failed)
          /\ faults' = IF failed = 1 THEN faults \cup {"persist"} ELSE faults
    /\ pc' = "ack"
    /\ UNCHANGED <<streamVars, turn, batch, cur, accepted, daily, resetDay,
                   day, results, brokerVars, done>>

\* The finally clause: the entry is acknowledged whatever became of it.
Acknowledge ==
    /\ pc = "ack"
    /\ \E failed \in 0..1 : XAck(cur, failed = 0) /\ Failing(failed)
    /\ done' = done \cup {cur}
    /\ cur' = NoId
    /\ accepted' = FALSE
    /\ pc' = IF batch = {} THEN "read" ELSE "handle"
    /\ UNCHANGED <<bookVars, turn, batch, daily, resetDay, day, results,
                   brokerVars, faults>>

-----------------------------------------------------------------------------
(* Time *)

\* Orders are admitted between 09:00 and 15:30 only, so none is under way at
\* midnight.
NextDay ==
    /\ pc \in {"down", "deaf", "read", "handle"} /\ day < MaxDay
    /\ day' = day + 1
    /\ spent' = 0
    /\ UNCHANGED <<streamVars, bookVars, procVars, failures, results, orders,
                   holdings, done, faults>>

-----------------------------------------------------------------------------
Poll == \E st \in Streams : ReadStream(st)

Vet == \E id \in batch :
          \/ Drop(id) \/ RejectEarly(id) \/ RejectAmount(id)
          \/ RejectPosition(id) \/ Admit(id)

Next ==
    \/ \E m \in Signals : Publish(m)
    \/ Start \/ Crash
    \/ Poll \/ (\E st \in Streams : LoseReply(st)) \/ ProcessPending
    \/ Vet \/ PlaceOrder \/ RecordResult \/ RecordPosition \/ Acknowledge
    \/ NextDay

Spec == Init /\ [][Next]_vars

\* The thread keeps running while its process is up, looks at the pending
\* entries again and again, and a dead process is started again.
FairSpec ==
    /\ Spec
    /\ WF_vars(Start)
    /\ WF_vars(Poll) /\ SF_vars(ProcessPending)
    /\ WF_vars(Vet)
    /\ WF_vars(PlaceOrder) /\ WF_vars(RecordResult)
    /\ WF_vars(RecordPosition) /\ WF_vars(Acknowledge)
-----------------------------------------------------------------------------
(* Properties *)

\* Of the entries of one stream, no two orders are the same entry and no later
\* order is of an earlier entry: the handler, the acknowledgement in "finally"
\* and the dead process's memory never bring a signal back to process_signal.
BrokerFollowsStream ==
    \A j, k \in DOMAIN orders :
        j < k /\ orders[j][1] = orders[k][1] => orders[j][2] < orders[k][2]

\* What one process sends to the broker on one date stays within
\* MAX_DAILY_TRADE, although the amount is checked in process_signal before the
\* order and added to _daily_trade_amount only after the broker has answered.
DailyLimit == spent <= MaxDaily

\* An order whose handler did not run to its end is still in the pending list:
\* after a death between the order and the bookkeeping, XPENDING names it.
UnfinishedIsPending ==
    \A k \in DOMAIN orders : orders[k] \in done \cup pel

\* The results stream tells the truth: no id is answered twice, a success is an
\* order the broker took, and a rejected signal never became one.
AnswersAreTrue ==
    /\ \A r, t \in results : r[1] = t[1] => r = t
    /\ \A r \in results : r[2] = "success" => \E k \in DOMAIN orders : orders[k] = r[1]
    /\ \A r \in results : r[2] = "rejected" => \A k \in DOMAIN orders : orders[k] # r[1]

\* Between two signals the positions table holds exactly what the orders add up
\* to, as long as no query failed, no order was misreported and no process died
\* between an order and its bookkeeping.
BookMatchesBroker ==
    faults = {} /\ pc \notin {"record", "book"} =>
        \A s \in Stocks : db[s].qty = holdings[s]

\* The table never holds more distinct stocks than max_positions, whatever else
\* fails, as long as every _sync_positions before a check succeeded.
PositionCount == "sync" \notin faults => Cardinality(Held) <= MaxPositions

\* The executor implements at-most-once, in-order execution of the streams: what
\* is unread, in the batch or about to be ordered may still be executed.
Unread(st) == {i \in 1..Len(log[st]) : i > cursor[st]}
Live == batch \cup (IF pc = "order" THEN {cur} ELSE {})
        \cup UNION {{st} \X Unread(st) : st \in Streams}

Abstract == INSTANCE OrderedExecution
                WITH published <- [st \in Streams |-> Len(log[st])], live <- Live
ExecutesInOrder == Abstract!Spec

\* README.md:410 says of the streams that no message is lost when the
\* subscription is interrupted: a signal appended while its group exists is
\* handled to its end sooner or later.
NoSignalLost ==
    \A st \in Streams : \A i \in 1..MaxMessages :
        (cursor[st] # NoGroup /\ cursor[st] < i /\ Len(log[st]) = i)
            ~> (<<st, i>> \in done)

\* main.py:3 of the executor, and lines 36-37 of the roadmap in docs/, say that
\* it listens for the signals the strategy agents send: they reach the order
\* path, that is, none of them is dropped unverified.
StrategySignalsReachExecution ==
    [][\A id \in batch : Payload(id).source = "strategy" => ~Drop(id)]_vars

\* position_checker.py:46, "no single stock > 20% of portfolio": with every
\* share worth the same, an admitted buy keeps its stock within a fifth of what
\* is held.
NoConcentration ==
    [][\A id \in batch :
         LET m == Payload(id)
             total == MapThenSumSet(LAMBDA s : holdings[s], Stocks)
         IN  Admit(id) /\ m.action = "buy" /\ total > 0
             => 5 * (holdings[m.stock] + m.qty) <= total]_vars
=============================================================================
