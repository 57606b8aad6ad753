------------------------ MODULE TradeExecutorProofs ------------------------
(* Theorems about TradeExecutor, for every set of signals, every limit and    *)
(* every bound.                                                               *)
EXTENDS TradeExecutor, FiniteSetTheorems, TLAPS

USE StreamAssumption, PositionAssumption, ExecutorAssumption
    DEF StreamAssumption, PositionAssumption, ExecutorAssumption

\* The program counter values at which a handler is running.
Handling == {"order", "record", "book", "ack"}

\* Where the ids of the batch, of the handler and of the orders stand in the
\* streams.
PlacesOK ==
    /\ \A st \in Streams : cursor[st] <= Len(log[st])
    /\ \A id \in batch : id[2] <= cursor[id[1]]
    /\ pc \in {"down", "deaf", "read"} => batch = {}
    /\ pc \in Handling => /\ cur \in EntryIds
                          /\ cur[2] <= cursor[cur[1]]
                          /\ \A id \in batch : id[1] = cur[1] => cur[2] < id[2]

\* What vetting leaves to the steps after it.
VettedOK ==
    pc \in {"order", "record", "book"} =>
        /\ Payload(cur) \in Signals
        /\ ValidQuantity(Payload(cur))

TypeInv == TypeOK /\ PlacesOK /\ VettedOK

-----------------------------------------------------------------------------
(* Facts about the operators of the model *)

LEMMA EntryIdType ==
    ASSUME NEW id \in EntryIds
    PROVE  id[1] \in Streams /\ id[2] \in Nat \ {0} /\ id = <<id[1], id[2]>>
BY DEF EntryIds

LEMMA SignalType ==
    ASSUME NEW m \in Signals
    PROVE  /\ m.source \in Sources /\ m.action \in Actions /\ m.stock \in Stocks
           /\ m.qty \in Int /\ m.price \in Int
BY DEF Sources, Actions

LEMMA AmountType ==
    ASSUME NEW m \in Signals, m.qty > 0
    PROVE  Amount(m) \in Nat
<1>1. m.qty \in Nat /\ RiskPrice(m) \in Nat
  BY SignalType DEF RiskPrice
<1>2. \A x, y \in Nat : x * y \in Nat
  OBVIOUS
<1> QED
  BY <1>1, <1>2 DEF Amount

LEMMA PayloadType ==
    ASSUME TypeOK, NEW id \in EntryIds, id[2] <= Len(log[id[1]])
    PROVE  Payload(id) \in Signals
<1>1. id[1] \in Streams /\ id[2] \in Nat \ {0}
  BY EntryIdType
<1>2. log[id[1]] \in Seq(Signals)
  BY <1>1 DEF TypeOK, StreamTypeOK
<1>3. id[2] \in 1..Len(log[id[1]])
  BY <1>1, <1>2
<1> QED
  BY <1>2, <1>3 DEF Payload

LEMMA CursorType ==
    ASSUME TypeOK
    PROVE  \A st \in Streams : cursor[st] \in Int /\ Len(log[st]) \in Nat
BY DEF TypeOK, StreamTypeOK, NoGroup

LEMMA StreamsFinite ==
    ASSUME NEW S \in SUBSET Streams
    PROVE  IsFiniteSet(S) /\ Cardinality(S) \in Nat
<1>1. IsFiniteSet({} \cup {"trading:signals"})
  BY FS_EmptySet, FS_AddElement
<1>2. IsFiniteSet({} \cup {"trading:signals"} \cup {"strategy:signals"})
  BY <1>1, FS_AddElement
<1>3. Streams = {} \cup {"trading:signals"} \cup {"strategy:signals"}
  BY DEF Streams
<1> QED
  BY <1>2, <1>3, FS_Subset, FS_CardinalityType

LEMMA UndeliveredRange ==
    ASSUME TypeOK, NEW st \in Streams
    PROVE  /\ Undelivered(st) \in SUBSET (Nat \ {0})
           /\ \A i \in Undelivered(st) : cursor[st] < i /\ i <= Len(log[st])
BY DEF Undelivered, Retained, TypeOK, StreamTypeOK

LEMMA QuotientType ==
    ASSUME NEW n \in Nat, NEW d \in Nat, d > 0
    PROVE  n \div d \in Nat
OBVIOUS

-----------------------------------------------------------------------------
(* Type correctness, with the places of the ids *)

LEMMA InitTypes == Init => TypeInv
<1> SUFFICES ASSUME Init PROVE TypeInv
  OBVIOUS
<1>1. StreamTypeOK /\ BookTypeOK
  BY DEF Init, StreamInit, BookInit, StreamTypeOK, BookTypeOK, NoPosition, NoRow,
         Position, Row
<1>2. orders \in Seq(EntryIds) /\ holdings \in [Stocks -> Int]
  BY DEF Init
<1>3. pc \in Steps /\ turn \in Streams /\ accepted \in BOOLEAN
  BY DEF Init, Steps, Streams
<1>4. batch \in SUBSET EntryIds /\ results = {} /\ done \in SUBSET EntryIds
      /\ faults \in SUBSET FaultKinds /\ cur = NoId
  BY DEF Init
<1>5. daily \in Nat /\ resetDay \in Nat /\ day \in Nat /\ failures \in Nat
      /\ spent \in Nat
  BY DEF Init
<1>6. TypeOK
  BY <1>1, <1>2, <1>3, <1>4, <1>5 DEF TypeOK
<1>7. PlacesOK /\ VettedOK
  BY DEF Init, StreamInit, PlacesOK, VettedOK, Handling, NoGroup
<1> QED
  BY <1>6, <1>7 DEF TypeInv

\* Payloads and places survive an append.
LEMMA PublishTypes ==
    ASSUME TypeInv, NEW m \in Signals, Publish(m)
    PROVE  TypeInv'
<1> DEFINE st == StreamOf(m)
<1>1. st \in Streams
  BY DEF StreamOf, Streams
<1>2. /\ log' = [log EXCEPT ![st] = Append(@, m)]
      /\ UNCHANGED <<cursor, pel, bookVars, procVars, day, failures, results,
                     brokerVars, done, faults>>
  BY DEF Publish, XAdd
<1>3. log' \in [Streams -> Seq(Signals)]
  BY <1>1, <1>2 DEF TypeInv, TypeOK, StreamTypeOK
<1>4. \A s \in Streams : /\ Len(log[s]) \in Nat
                         /\ Len(log'[s]) >= Len(log[s])
                         /\ \A i \in 1..Len(log[s]) : log'[s][i] = log[s][i]
  BY <1>1, <1>2 DEF TypeInv, TypeOK, StreamTypeOK
<1>5. TypeOK'
  BY <1>2, <1>3 DEF TypeInv, TypeOK, StreamTypeOK, BookTypeOK, bookVars, procVars,
                    brokerVars
<1>6. PlacesOK'
  <2>1. \A s \in Streams : cursor'[s] <= Len(log'[s])
    <3> SUFFICES ASSUME NEW s \in Streams PROVE cursor[s] <= Len(log'[s])
      BY <1>2
    <3>1. cursor[s] \in Int /\ cursor[s] <= Len(log[s])
      BY CursorType DEF TypeInv, PlacesOK
    <3>2. Len(log'[s]) \in Nat
      BY <1>3
    <3> QED
      BY <3>1, <3>2, <1>4
  <2> QED
    BY <2>1, <1>2 DEF TypeInv, PlacesOK, procVars
<1>7. VettedOK'
  <2> SUFFICES ASSUME pc \in {"order", "record", "book"}
               PROVE  Payload(cur)' = Payload(cur)
    BY <1>2 DEF TypeInv, VettedOK, procVars, ValidQuantity
  <2>1. cur \in EntryIds /\ cur[2] <= cursor[cur[1]]
    BY DEF TypeInv, PlacesOK, Handling
  <2>2. cur[1] \in Streams /\ cur[2] \in Nat \ {0}
    BY <2>1, EntryIdType
  <2>3. cursor[cur[1]] \in Int /\ cursor[cur[1]] <= Len(log[cur[1]])
    BY <2>2, CursorType DEF TypeInv, PlacesOK
  <2>4. cur[2] \in 1..Len(log[cur[1]])
    BY <2>1, <2>2, <2>3, <1>4
  <2> QED
    BY <2>2, <2>4, <1>2, <1>4 DEF Payload, procVars
<1> QED
  BY <1>5, <1>6, <1>7 DEF TypeInv

LEMMA StartTypes ==
    ASSUME TypeInv, Start
    PROVE  TypeInv'
<1>1. /\ failures' \in Nat
      /\ cursor' \in [Streams -> Nat \cup {NoGroup}]
      /\ \A st \in Streams : cursor'[st] <= Len(log[st])
      /\ UNCHANGED <<log, pel>>
  <2>1. CASE Failing(1) /\ UNCHANGED streamVars
    BY <2>1 DEF Failing, TypeInv, TypeOK, StreamTypeOK, PlacesOK, streamVars
  <2>2. ASSUME NEW made \in SUBSET Streams, CreateGroups(made),
               Failing(Cardinality(Streams \ made))
        PROVE  /\ failures' \in Nat
               /\ cursor' \in [Streams -> Nat \cup {NoGroup}]
               /\ \A st \in Streams : cursor'[st] <= Len(log[st])
               /\ UNCHANGED <<log, pel>>
    <3>1. /\ failures \in Nat /\ cursor \in [Streams -> Nat \cup {NoGroup}]
          /\ log \in [Streams -> Seq(Signals)]
          /\ \A st \in Streams : cursor[st] <= Len(log[st])
      BY DEF TypeInv, TypeOK, StreamTypeOK, PlacesOK
    <3>2. Cardinality(Streams \ made) \in Nat
      BY StreamsFinite
    <3>3. failures' \in Nat
      BY <2>2, <3>1, <3>2 DEF Failing
    <3>4. \A st \in Streams : Len(log[st]) \in Nat
      BY <3>1
    <3>5. cursor' \in [Streams -> Nat \cup {NoGroup}] /\ UNCHANGED <<log, pel>>
      BY <2>2, <3>1 DEF CreateGroups
    <3>6. ASSUME NEW st \in Streams PROVE cursor'[st] <= Len(log[st])
      BY <2>2, <3>1, <3>4 DEF CreateGroups
    <3> QED
      BY <3>3, <3>5, <3>6
  <2> QED
    BY <2>1, <2>2 DEF Start
<1>4. TypeOK'
  BY <1>1 DEF Start, TypeInv, TypeOK, StreamTypeOK, BookTypeOK, bookVars,
                    brokerVars, Steps
<1>5. PlacesOK' /\ VettedOK'
  BY <1>1 DEF Start, TypeInv, PlacesOK, VettedOK, Handling
<1> QED
  BY <1>4, <1>5 DEF TypeInv

LEMMA CrashTypes ==
    ASSUME TypeInv, Crash
    PROVE  TypeInv'
<1>1. BookTypeOK'
  BY DEF Crash, ForgetLocal, TypeInv, TypeOK, BookTypeOK, NoPosition, Position
<1>2. StreamTypeOK'
  BY DEF Crash, TypeInv, TypeOK, StreamTypeOK, streamVars
<1>3. faults' \in SUBSET FaultKinds /\ failures' \in Nat
  BY DEF Crash, Failing, TypeInv, TypeOK, FaultKinds
<1>4. pc' \in Steps /\ turn' \in Streams /\ accepted' \in BOOLEAN
  BY DEF Crash, Steps, Streams
<1>5. TypeOK'
  BY <1>1, <1>2, <1>3, <1>4 DEF Crash, TypeInv, TypeOK
<1>6. PlacesOK' /\ VettedOK'
  BY DEF Crash, TypeInv, PlacesOK, VettedOK, Handling, streamVars
<1> QED
  BY <1>5, <1>6 DEF TypeInv

\* The server's side of a read moves the cursor to the end of the stream.
LEMMA ReadGroup ==
    ASSUME TypeInv, NEW st \in Streams, XReadGroup(st)
    PROVE  /\ StreamTypeOK'
           /\ \A s \in Streams : cursor'[s] <= Len(log[s]) /\ cursor[s] <= cursor'[s]
           /\ \A i \in Undelivered(st) : i <= cursor'[st]
           /\ UNCHANGED log
<1>1. Undelivered(st) \in SUBSET (Nat \ {0})
      /\ \A i \in Undelivered(st) : i <= Len(log[st])
  BY UndeliveredRange DEF TypeInv
<1>2. pel' \in SUBSET EntryIds
  BY <1>1 DEF XReadGroup, TypeInv, TypeOK, StreamTypeOK, EntryIds
<1>3. Len(log[st]) \in Nat
  BY DEF TypeInv, TypeOK, StreamTypeOK
<1>4. cursor' \in [Streams -> Nat \cup {NoGroup}]
  BY <1>3 DEF XReadGroup, TypeInv, TypeOK, StreamTypeOK
<1>5. \A s \in Streams : cursor'[s] <= Len(log[s]) /\ cursor[s] <= cursor'[s]
  <2> SUFFICES ASSUME NEW s \in Streams
               PROVE  cursor'[s] <= Len(log[s]) /\ cursor[s] <= cursor'[s]
    OBVIOUS
  <2>1. cursor[s] \in Int /\ Len(log[s]) \in Nat /\ cursor[s] <= Len(log[s])
    BY CursorType DEF TypeInv, PlacesOK
  <2>2. cursor'[s] = IF s = st THEN Len(log[st]) ELSE cursor[s]
    BY DEF XReadGroup, TypeInv, TypeOK, StreamTypeOK
  <2> QED
    BY <2>1, <2>2
<1> QED
  BY <1>1, <1>2, <1>4, <1>5 DEF XReadGroup, TypeInv, TypeOK, StreamTypeOK

LEMMA OtherType == ASSUME NEW st \in Streams PROVE Other(st) \in Streams
<1>1. \E other \in Streams : other # st
  BY DEF Streams
<1> QED
  BY <1>1 DEF Other

LEMMA ReadTypes ==
    ASSUME TypeInv, NEW st \in Streams, ReadStream(st)
    PROVE  TypeInv'
<1>1. Other(st) \in Streams
  BY OtherType
<1>2. CASE cursor[st] = NoGroup \/ Undelivered(st) = {}
  <2>1. TypeOK'
    BY <1>1, <1>2 DEF ReadStream, TypeInv, TypeOK, StreamTypeOK, BookTypeOK,
                      streamVars, bookVars, brokerVars
  <2> QED
    BY <1>2, <2>1 DEF ReadStream, TypeInv, PlacesOK, VettedOK, Handling, streamVars
<1>3. CASE ~(cursor[st] = NoGroup \/ Undelivered(st) = {})
  <2>1. /\ XReadGroup(st) /\ batch' = {st} \X Undelivered(st) /\ pc' = "handle"
        /\ turn' = Other(st)
        /\ UNCHANGED <<bookVars, cur, accepted, daily, resetDay, day, failures,
                       results, brokerVars, done, faults>>
    BY <1>3 DEF ReadStream
  <2>2. Undelivered(st) \in SUBSET (Nat \ {0})
    BY UndeliveredRange DEF TypeInv
  <2>3. batch' \in SUBSET EntryIds
    BY <2>1, <2>2 DEF EntryIds
  <2>4. StreamTypeOK' /\ UNCHANGED log
        /\ (\A s \in Streams : cursor'[s] <= Len(log[s]))
        /\ (\A i \in Undelivered(st) : i <= cursor'[st])
    BY <2>1, ReadGroup
  <2>5. TypeOK'
    BY <1>1, <2>1, <2>3, <2>4 DEF TypeInv, TypeOK, BookTypeOK, bookVars, brokerVars,
                                  Steps
  <2>6. \A id \in batch' : id[2] <= cursor'[id[1]]
    BY <2>1, <2>4
  <2>7. PlacesOK'
    BY <2>1, <2>4, <2>6 DEF PlacesOK, Handling
  <2>8. VettedOK'
    BY <2>1 DEF VettedOK
  <2> QED
    BY <2>5, <2>7, <2>8 DEF TypeInv
<1> QED
  BY <1>2, <1>3

LEMMA LoseReplyTypes ==
    ASSUME TypeInv, NEW st \in Streams, LoseReply(st)
    PROVE  TypeInv'
<1>1. StreamTypeOK' /\ UNCHANGED log
      /\ (\A s \in Streams : cursor'[s] <= Len(log[s]))
  BY ReadGroup DEF LoseReply
<1>2. TypeOK'
  BY <1>1, OtherType DEF LoseReply, Failing, TypeInv, TypeOK, BookTypeOK, bookVars,
                         brokerVars
<1>3. PlacesOK' /\ VettedOK'
  BY <1>1 DEF LoseReply, TypeInv, PlacesOK, VettedOK, Handling
<1> QED
  BY <1>2, <1>3 DEF TypeInv

LEMMA PendingTypes ==
    ASSUME TypeInv, ProcessPending
    PROVE  TypeInv' /\ batch' = {}
<1>1. batch' = {}
  BY DEF ProcessPending, XPending
<1>2. TypeOK'
  BY <1>1 DEF ProcessPending, TypeInv, TypeOK, StreamTypeOK, BookTypeOK, streamVars,
              bookVars, brokerVars, Steps
<1>3. PlacesOK' /\ VettedOK'
  BY <1>1 DEF ProcessPending, TypeInv, PlacesOK, VettedOK, Handling, streamVars
<1> QED
  BY <1>1, <1>2, <1>3 DEF TypeInv

-----------------------------------------------------------------------------
(* Vetting: what its five outcomes share *)

LEMMA NextIdType ==
    ASSUME TypeInv, NEW id, IsNext(id)
    PROVE  /\ id \in EntryIds /\ id[2] <= cursor[id[1]]
           /\ id[2] <= Len(log[id[1]]) /\ Payload(id) \in Signals
           /\ \A other \in batch \ {id} : other[1] = id[1] => id[2] < other[2]
<1>1. id \in batch /\ id \in EntryIds
  BY DEF IsNext, TypeInv, TypeOK
<1>2. id[1] \in Streams /\ id[2] \in Nat \ {0}
  BY <1>1, EntryIdType
<1>3. id[2] <= cursor[id[1]] /\ id[2] <= Len(log[id[1]])
  <2>1. id[2] <= cursor[id[1]] /\ cursor[id[1]] <= Len(log[id[1]])
    BY <1>1, <1>2 DEF TypeInv, PlacesOK
  <2>2. cursor[id[1]] \in Int /\ Len(log[id[1]]) \in Nat
    BY <1>2, CursorType DEF TypeInv
  <2> QED
    BY <2>1, <2>2, <1>2
<1>4. ASSUME NEW other \in batch \ {id}, other[1] = id[1]
      PROVE  id[2] < other[2]
  <2>1. other \in EntryIds
    BY DEF TypeInv, TypeOK
  <2>2. other[2] \in Nat /\ other = <<other[1], other[2]>> /\ id = <<id[1], id[2]>>
    BY <1>1, <2>1, EntryIdType
  <2>3. id[2] <= other[2]
    BY <1>4 DEF IsNext
  <2>4. id[2] # other[2]
    BY <1>4, <2>2
  <2> QED
    BY <1>2, <2>2, <2>3, <2>4
<1> QED
  BY <1>1, <1>3, <1>4, PayloadType DEF TypeInv

LEMMA VettedTypes ==
    ASSUME TypeInv, NEW id, IsNext(id), Begin(id),
           pc' = "ack" \/ (pc' = "order" /\ ValidQuantity(Payload(id))),
           known' \in SUBSET Stocks, local' \in [Stocks -> Position],
           daily' \in Nat, resetDay' \in Nat, failures' \in Nat,
           results' \in SUBSET (EntryIds \X {"success", "failure", "rejected"}),
           faults' \in SUBSET FaultKinds
    PROVE  TypeInv'
<1>1. /\ id \in EntryIds /\ id[2] <= cursor[id[1]] /\ Payload(id) \in Signals
      /\ \A other \in batch \ {id} : other[1] = id[1] => id[2] < other[2]
  BY NextIdType
<1>2. cur' = id /\ batch' = batch \ {id}
      /\ UNCHANGED <<log, cursor, pel, db, turn, accepted, day, orders, holdings,
                     spent, done>>
  BY DEF Begin, streamVars, brokerVars
<1>3. StreamTypeOK' /\ BookTypeOK'
  BY <1>2 DEF TypeInv, TypeOK, StreamTypeOK, BookTypeOK
<1>4. TypeOK'
  BY <1>1, <1>2, <1>3 DEF TypeInv, TypeOK, Steps
<1>5. PlacesOK'
  BY <1>1, <1>2 DEF TypeInv, PlacesOK, Handling
<1>6. VettedOK'
  BY <1>1, <1>2 DEF VettedOK, Payload, ValidQuantity
<1> QED
  BY <1>4, <1>5, <1>6 DEF TypeInv

LEMMA DropTypes ==
    ASSUME TypeInv, NEW id, Drop(id)
    PROVE  TypeInv'
<1>1. IsNext(id) /\ Begin(id) /\ pc' = "ack"
      /\ UNCHANGED <<known, local, daily, resetDay, failures, results, faults>>
  BY DEF Drop
<1>2. known' \in SUBSET Stocks /\ local' \in [Stocks -> Position]
  BY <1>1 DEF TypeInv, TypeOK, BookTypeOK
<1>3. daily' \in Nat /\ resetDay' \in Nat /\ failures' \in Nat
      /\ results' \in SUBSET (EntryIds \X {"success", "failure", "rejected"})
      /\ faults' \in SUBSET FaultKinds
  BY <1>1 DEF TypeInv, TypeOK
<1> QED
  BY <1>1, <1>2, <1>3, VettedTypes

LEMMA ReportType ==
    ASSUME TypeInv, NEW id \in EntryIds, NEW lost,
           NEW kind \in {"success", "failure", "rejected"}, Report(id, kind, lost)
    PROVE  results' \in SUBSET (EntryIds \X {"success", "failure", "rejected"})
BY DEF TypeInv, TypeOK, Report

LEMMA ResetType ==
    ASSUME TypeInv, ResetDailyLimits
    PROVE  daily' \in Nat /\ resetDay' \in Nat
BY DEF TypeInv, TypeOK, ResetDailyLimits, DailyNow

LEMMA RejectTypes ==
    ASSUME TypeInv, NEW id, IsNext(id), Reject(id)
    PROVE  TypeInv'
<1>1. PICK lost \in 0..1 :
         /\ ResetDailyLimits /\ Begin(id) /\ Report(id, "rejected", lost)
         /\ Failing(lost) /\ pc' = "ack" /\ UNCHANGED <<known, local, faults>>
  BY DEF Reject
<1>2. id \in EntryIds
  BY NextIdType
<1>3. known' \in SUBSET Stocks /\ local' \in [Stocks -> Position]
  BY <1>1 DEF TypeInv, TypeOK, BookTypeOK
<1>4. failures' \in Nat /\ faults' \in SUBSET FaultKinds
  BY <1>1 DEF TypeInv, TypeOK, Failing
<1> QED
  BY <1>1, <1>2, <1>3, <1>4, ReportType, ResetType, VettedTypes

LEMMA SyncTypes ==
    ASSUME TypeInv, NEW ok \in BOOLEAN, SyncPositions(ok)
    PROVE  known' \in SUBSET Stocks /\ local' \in [Stocks -> Position]
<1>1. \A x, y \in Nat : x * y \in Nat
  OBVIOUS
<1>2. \A s \in Stocks : db[s].qty \in Nat /\ db[s].avg \in Nat /\ db[s].price \in Nat
                        /\ local[s] \in Position
  BY DEF TypeInv, TypeOK, BookTypeOK, Row
<1>3. \A s \in Stocks : [qty |-> db[s].qty, avg |-> db[s].avg,
                         value |-> db[s].qty * db[s].price] \in Position
  BY <1>1, <1>2 DEF Position
<1>4. SyncedLocal(ok) \in [Stocks -> Position]
  BY <1>2, <1>3 DEF SyncedLocal
<1> QED
  BY <1>4 DEF SyncPositions, SyncedKnown, Held, TypeInv, TypeOK, BookTypeOK

LEMMA CheckedTypes ==
    ASSUME TypeInv, NEW id, NEW failed \in 0..1, Checked(id, failed)
    PROVE  /\ IsNext(id) /\ Begin(id) /\ ValidQuantity(Payload(id)) /\ id \in EntryIds
           /\ known' \in SUBSET Stocks /\ local' \in [Stocks -> Position]
           /\ daily' \in Nat /\ resetDay' \in Nat /\ faults' \in SUBSET FaultKinds
<1>1. IsNext(id) /\ Begin(id) /\ ValidQuantity(Payload(id)) /\ ResetDailyLimits
      /\ SyncPositions(failed = 0)
      /\ faults' = IF failed = 1 THEN faults \cup {"sync"} ELSE faults
  BY DEF Checked
<1>2. faults' \in SUBSET FaultKinds
  BY <1>1 DEF TypeInv, TypeOK, FaultKinds
<1>3. (failed = 0) \in BOOLEAN
  OBVIOUS
<1> QED
  BY <1>1, <1>2, <1>3, NextIdType, ResetType, SyncTypes

LEMMA RejectPositionTypes ==
    ASSUME TypeInv, NEW id, RejectPosition(id)
    PROVE  TypeInv'
<1>1. PICK failed \in 0..1, lost \in 0..1 :
         /\ Checked(id, failed) /\ Report(id, "rejected", lost)
         /\ Failing(failed + lost) /\ pc' = "ack"
  BY DEF RejectPosition
<1>2. failures' \in Nat
  BY <1>1 DEF Failing, TypeInv, TypeOK
<1> QED
  BY <1>1, <1>2, CheckedTypes, ReportType, VettedTypes

LEMMA AdmitTypes ==
    ASSUME TypeInv, NEW id, Admit(id)
    PROVE  TypeInv'
<1>1. PICK failed \in 0..1 :
         /\ Checked(id, failed) /\ Failing(failed) /\ pc' = "order"
         /\ UNCHANGED results
  BY DEF Admit
<1>2. failures' \in Nat
      /\ results' \in SUBSET (EntryIds \X {"success", "failure", "rejected"})
  BY <1>1 DEF Failing, TypeInv, TypeOK
<1> QED
  BY <1>1, <1>2, CheckedTypes, VettedTypes

LEMMA VetTypes ==
    ASSUME TypeInv, Vet
    PROVE  TypeInv'
<1>1. PICK id \in batch : \/ Drop(id) \/ RejectEarly(id) \/ RejectAmount(id)
                          \/ RejectPosition(id) \/ Admit(id)
  BY DEF Vet
<1>2. CASE RejectEarly(id) \/ RejectAmount(id)
  BY <1>2, RejectTypes DEF RejectEarly, RejectAmount
<1> QED
  BY <1>1, <1>2, DropTypes, RejectPositionTypes, AdmitTypes

-----------------------------------------------------------------------------
(* The steps of a handler *)

\* While a handler runs its id names a retained signal with a valid quantity.
LEMMA CurType ==
    ASSUME TypeInv, pc \in {"order", "record", "book"}
    PROVE  /\ cur \in EntryIds /\ Payload(cur) \in Signals
           /\ Payload(cur).qty \in Nat /\ Payload(cur).qty > 0
           /\ Payload(cur).stock \in Stocks /\ Amount(Payload(cur)) \in Nat
<1>1. Payload(cur) \in Signals /\ ValidQuantity(Payload(cur)) /\ cur \in EntryIds
  BY DEF TypeInv, PlacesOK, VettedOK, Handling
<1>2. Payload(cur).qty \in Int /\ Payload(cur).stock \in Stocks
  BY <1>1, SignalType
<1> QED
  BY <1>1, <1>2, AmountType DEF ValidQuantity

LEMMA OrderTypes ==
    ASSUME TypeInv, PlaceOrder
    PROVE  TypeInv'
<1>1. /\ pc = "order" /\ pc' = "record"
      /\ UNCHANGED <<log, cursor, pel, known, local, db, turn, batch, cur, daily,
                     resetDay, day, results, done>>
  BY DEF PlaceOrder, streamVars, bookVars
<1>2. cur \in EntryIds /\ Payload(cur).qty \in Nat /\ Amount(Payload(cur)) \in Nat
  BY <1>1, CurType
<1>3. orders' = orders \/ orders' = Append(orders, cur)
  BY DEF PlaceOrder, brokerVars
<1>4. /\ holdings' = holdings
         \/ \E n \in Int : holdings' = [holdings EXCEPT ![Payload(cur).stock] = n]
      /\ spent' = spent \/ spent' = spent + Amount(Payload(cur))
  <2>1. holdings[Payload(cur).stock] \in Int
    BY <1>1, CurType DEF TypeInv, TypeOK
  <2>2. holdings[Payload(cur).stock] + Payload(cur).qty \in Int
        /\ holdings[Payload(cur).stock] - Payload(cur).qty \in Int
    BY <1>2, <2>1
  <2> QED
    BY <2>2 DEF PlaceOrder, brokerVars
<1>5. /\ accepted' \in BOOLEAN
      /\ failures' = failures \/ failures' = failures + 1
      /\ faults' = faults \/ faults' = faults \cup {"misreport"}
  BY DEF PlaceOrder, Failing
<1>6. StreamTypeOK' /\ BookTypeOK'
  BY <1>1 DEF TypeInv, TypeOK, StreamTypeOK, BookTypeOK
<1>7. orders' \in Seq(EntryIds) /\ holdings' \in [Stocks -> Int] /\ spent' \in Nat
  <2>1. orders \in Seq(EntryIds) /\ holdings \in [Stocks -> Int] /\ spent \in Nat
    BY DEF TypeInv, TypeOK
  <2>2. orders' \in Seq(EntryIds)
    BY <1>2, <1>3, <2>1
  <2>3. holdings' \in [Stocks -> Int]
    BY <1>4, <2>1
  <2>4. spent' \in Nat
    BY <1>2, <1>4, <2>1
  <2> QED
    BY <2>2, <2>3, <2>4
<1>8. failures' \in Nat /\ faults' \in SUBSET FaultKinds
  <2>1. failures \in Nat /\ faults \in SUBSET FaultKinds
    BY DEF TypeInv, TypeOK
  <2>2. failures' \in Nat
    BY <1>5, <2>1
  <2>3. faults' \in SUBSET FaultKinds
    BY <1>5, <2>1 DEF FaultKinds
  <2> QED
    BY <2>2, <2>3
<1>9. TypeOK'
  BY <1>1, <1>5, <1>6, <1>7, <1>8 DEF TypeInv, TypeOK, Steps
<1>10. PlacesOK' /\ VettedOK'
  BY <1>1 DEF TypeInv, PlacesOK, VettedOK, Handling, Payload
<1> QED
  BY <1>9, <1>10 DEF TypeInv

LEMMA RecordTypes ==
    ASSUME TypeInv, RecordResult
    PROVE  TypeInv'
<1>1. /\ pc = "record" /\ pc' \in {"book", "ack"}
      /\ daily' = daily + Amount(Payload(cur))
      /\ UNCHANGED <<log, cursor, pel, known, local, db, turn, batch, cur, accepted,
                     resetDay, day, orders, holdings, spent, done, faults>>
  BY DEF RecordResult, streamVars, bookVars, brokerVars
<1>2. PICK lost \in 0..1 :
         Report(cur, IF accepted THEN "success" ELSE "failure", lost) /\ Failing(lost)
  BY DEF RecordResult
<1>3. cur \in EntryIds /\ Amount(Payload(cur)) \in Nat
  BY <1>1, CurType
<1>4. results' \in SUBSET (EntryIds \X {"success", "failure", "rejected"})
  BY <1>2, <1>3, ReportType
<1>5. daily' \in Nat /\ failures' \in Nat
  BY <1>1, <1>2, <1>3 DEF Failing, TypeInv, TypeOK
<1>6. StreamTypeOK' /\ BookTypeOK'
  BY <1>1 DEF TypeInv, TypeOK, StreamTypeOK, BookTypeOK
<1>7. TypeOK'
  BY <1>1, <1>4, <1>5, <1>6 DEF TypeInv, TypeOK, Steps
<1>8. PlacesOK' /\ VettedOK'
  BY <1>1 DEF TypeInv, PlacesOK, VettedOK, Handling, Payload
<1> QED
  BY <1>7, <1>8 DEF TypeInv

\* A buy adds shares and spreads the cost over them; a sell stops at zero.
LEMMA BookedType ==
    ASSUME NEW p \in Position, NEW q \in Nat, q > 0
    PROVE  Bought(p, q) \in Position /\ Sold(p, q) \in Position
<1>1. p.qty \in Nat /\ p.avg \in Nat
  BY DEF Position
<1>2. \A x, y \in Nat : x * y \in Nat
  OBVIOUS
<1>3. Bought(p, q) \in Position
  <2> DEFINE total == p.qty + q
             avg == (p.avg * p.qty) \div total
  <2>1. total \in Nat /\ total > 0
    BY <1>1
  <2>2. p.avg * p.qty \in Nat
    BY <1>1, <1>2
  <2> HIDE DEF total
  <2>3. avg \in Nat
    BY <2>1, <2>2, QuotientType
  <2>4. total * avg \in Nat
    BY <1>2, <2>1, <2>3
  <2>5. Bought(p, q) = [qty |-> total, avg |-> avg, value |-> total * avg]
    BY <2>1 DEF Bought, total
  <2> HIDE DEF avg
  <2> QED
    BY <2>1, <2>3, <2>4, <2>5 DEF Position
<1>4. Sold(p, q) \in Position
  <2> DEFINE left == IF p.qty > q THEN p.qty - q ELSE 0
             avg == IF left = 0 THEN 0 ELSE p.avg
  <2>1. left \in Nat /\ avg \in Nat
    BY <1>1
  <2>2. Sold(p, q) = [qty |-> left, avg |-> avg, value |-> left * avg]
    BY DEF Sold
  <2> HIDE DEF left, avg
  <2>3. left * avg \in Nat
    BY <1>2, <2>1
  <2> QED
    BY <2>1, <2>2, <2>3 DEF Position
<1> QED
  BY <1>3, <1>4

LEMMA PositionTypes ==
    ASSUME TypeInv, RecordPosition
    PROVE  TypeInv'
<1> DEFINE m == Payload(cur)
           pos == IF m.action = "buy" THEN Bought(local[m.stock], m.qty)
                                      ELSE Sold(local[m.stock], m.qty)
<1>1. /\ pc = "book" /\ pc' = "ack"
      /\ UNCHANGED <<log, cursor, pel, turn, batch, cur, accepted, daily, resetDay,
                     day, results, orders, holdings, spent, done>>
  BY DEF RecordPosition, streamVars, brokerVars
<1>2. m.stock \in Stocks /\ m.qty \in Nat /\ m.qty > 0
  BY <1>1, CurType
<1>3. local[m.stock] \in Position
  BY <1>2 DEF TypeInv, TypeOK, BookTypeOK
<1>4. pos \in Position
  BY <1>2, <1>3, BookedType
<1>5. [qty |-> pos.qty, avg |-> pos.avg, price |-> pos.value] \in Row
  BY <1>4 DEF Position, Row
<1>6. PICK failed \in 0..1 :
         /\ UpdatePosition(m.stock, m.action, m.qty, failed = 0)
         /\ Failing(failed)
         /\ faults' = IF failed = 1 THEN faults \cup {"persist"} ELSE faults
  BY DEF RecordPosition
<1>7. /\ known' = known \cup {m.stock}
      /\ local' = [local EXCEPT ![m.stock] = pos]
      /\ db' = db \/ db' = [db EXCEPT ![m.stock] =
                              [qty |-> pos.qty, avg |-> pos.avg, price |-> pos.value]]
  BY <1>6 DEF UpdatePosition
<1> HIDE DEF pos, m
<1>8. BookTypeOK'
  BY <1>2, <1>4, <1>5, <1>7 DEF TypeInv, TypeOK, BookTypeOK
<1>9. failures' \in Nat /\ faults' \in SUBSET FaultKinds
  BY <1>6 DEF Failing, TypeInv, TypeOK, FaultKinds
<1>10. TypeOK'
  BY <1>1, <1>8, <1>9 DEF TypeInv, TypeOK, StreamTypeOK, Steps
<1>11. PlacesOK' /\ VettedOK'
  BY <1>1 DEF TypeInv, PlacesOK, VettedOK, Handling, Payload
<1> QED
  BY <1>10, <1>11 DEF TypeInv

LEMMA AcknowledgeTypes ==
    ASSUME TypeInv, Acknowledge
    PROVE  TypeInv'
<1>1. PICK failed \in 0..1 : XAck(cur, failed = 0) /\ Failing(failed)
  BY DEF Acknowledge
<1>2. pel' \in SUBSET EntryIds /\ UNCHANGED <<log, cursor>> /\ failures' \in Nat
  BY <1>1 DEF XAck, Failing, TypeInv, TypeOK, StreamTypeOK
<1>3. cur \in EntryIds
  BY DEF Acknowledge, TypeInv, PlacesOK, Handling
<1>4. TypeOK'
  BY <1>2, <1>3 DEF Acknowledge, TypeInv, TypeOK, StreamTypeOK, BookTypeOK,
                    bookVars, brokerVars, Steps
<1>5. PlacesOK' /\ VettedOK'
  BY <1>2 DEF Acknowledge, TypeInv, PlacesOK, VettedOK, Handling
<1> QED
  BY <1>4, <1>5 DEF TypeInv

LEMMA NextDayTypes ==
    ASSUME TypeInv, NextDay
    PROVE  TypeInv'
<1>1. TypeOK'
  BY DEF NextDay, TypeInv, TypeOK, StreamTypeOK, BookTypeOK, streamVars, bookVars,
         procVars
<1>2. PlacesOK' /\ VettedOK'
  BY DEF NextDay, TypeInv, PlacesOK, VettedOK, Handling, streamVars, procVars, Payload
<1> QED
  BY <1>1, <1>2 DEF TypeInv

LEMMA StutterTypes ==
    ASSUME TypeInv, UNCHANGED vars
    PROVE  TypeInv'
<1>1. TypeOK'
  BY DEF vars, TypeInv, TypeOK, StreamTypeOK, BookTypeOK, streamVars, bookVars,
         procVars, brokerVars
<1>2. PlacesOK' /\ VettedOK'
  BY DEF vars, TypeInv, PlacesOK, VettedOK, streamVars, procVars, Payload
<1> QED
  BY <1>1, <1>2 DEF TypeInv

LEMMA NextTypes ==
    ASSUME TypeInv, [Next]_vars
    PROVE  TypeInv'
<1>1. CASE \E m \in Signals : Publish(m)
  BY <1>1, PublishTypes
<1>2. CASE Poll \/ \E st \in Streams : LoseReply(st)
  BY <1>2, ReadTypes, LoseReplyTypes DEF Poll
<1>3. CASE Start \/ Crash \/ ProcessPending
  BY <1>3, StartTypes, CrashTypes, PendingTypes
<1>4. CASE Vet
  BY <1>4, VetTypes
<1>5. CASE PlaceOrder \/ RecordResult \/ RecordPosition \/ Acknowledge
  BY <1>5, OrderTypes, RecordTypes, PositionTypes, AcknowledgeTypes
<1>6. CASE NextDay \/ UNCHANGED vars
  BY <1>6, NextDayTypes, StutterTypes
<1> QED
  BY <1>1, <1>2, <1>3, <1>4, <1>5, <1>6 DEF Next

\* The types of the state hold in every behaviour, and with them the places of
\* the ids: a batch lies behind the group's cursor and after the running id.
THEOREM TypeCorrect == Spec => [](TypeOK /\ PlacesOK /\ VettedOK)
<1>1. Init => TypeInv
  BY InitTypes
<1>2. TypeInv /\ [Next]_vars => TypeInv'
  BY NextTypes
<1>3. TypeInv => TypeOK /\ PlacesOK /\ VettedOK
  BY DEF TypeInv
<1> QED
  BY <1>1, <1>2, <1>3, PTL DEF Spec

-----------------------------------------------------------------------------
(* Orders follow the streams, and answers are true *)

\* An id the executor is through with: behind the cursor and before the batch.
Behind(id) ==
    /\ id \in EntryIds
    /\ id[2] <= cursor[id[1]]
    /\ \A b \in batch : b[1] = id[1] => id[2] < b[2]

BeforeCur(id) == cur[1] = id[1] => id[2] < cur[2]

OrdersBehind ==
    \A k \in DOMAIN orders : Behind(orders[k]) /\ (pc = "order" => BeforeCur(orders[k]))

AnswersBehind ==
    \A r \in results : Behind(r[1]) /\ (pc \in {"order", "record"} => BeforeCur(r[1]))

AcceptedIsOrdered ==
    pc = "record" /\ accepted => \E k \in DOMAIN orders : orders[k] = cur

\* How an action that is not an order moves the places: no cursor goes back, no
\* id returns to the batch, and a handler starts on an id of the batch.
Forward ==
    /\ \A st \in Streams : cursor[st] <= cursor'[st]
    /\ \A b \in batch' : b \in batch \/ cursor[b[1]] < b[2]
    /\ pc' = "order" => (pc = "order" /\ cur' = cur) \/ cur' \in batch
    /\ pc' = "record" => pc = "record" /\ cur' = cur

LEMMA BehindStays ==
    ASSUME TypeInv, TypeInv', NEW id, Behind(id), Forward
    PROVE  Behind(id)'
<1>1. id[1] \in Streams /\ id[2] \in Nat
  BY EntryIdType DEF Behind
<1>2. cursor[id[1]] \in Int /\ cursor'[id[1]] \in Int
  <2>1. cursor \in [Streams -> Nat \cup {NoGroup}]
        /\ cursor' \in [Streams -> Nat \cup {NoGroup}]
    BY DEF TypeInv, TypeOK, StreamTypeOK
  <2> QED
    BY <1>1, <2>1 DEF NoGroup
<1>3. id[2] <= cursor'[id[1]]
  BY <1>1, <1>2 DEF Behind, Forward
<1>4. ASSUME NEW b \in batch', b[1] = id[1]
      PROVE  id[2] < b[2]
  <2>1. b[2] \in Nat
    BY EntryIdType DEF TypeInv, TypeOK
  <2>2. CASE b \in batch
    BY <1>4, <2>2 DEF Behind
  <2>3. CASE cursor[b[1]] < b[2]
    BY <1>1, <1>2, <1>4, <2>1, <2>3 DEF Behind
  <2> QED
    BY <2>2, <2>3 DEF Forward
<1> QED
  BY <1>3, <1>4 DEF Behind

\* The id a handler starts on comes after everything the executor is through with.
LEMMA BatchAfter ==
    ASSUME NEW id, NEW b \in batch, Behind(id)
    PROVE  b[1] = id[1] => id[2] < b[2]
BY DEF Behind

LEMMA OrdersStay ==
    ASSUME TypeInv, TypeInv', OrdersBehind, Forward, UNCHANGED orders
    PROVE  OrdersBehind'
<1> SUFFICES ASSUME NEW k \in DOMAIN orders
             PROVE  Behind(orders[k])' /\ (pc' = "order" => BeforeCur(orders[k])')
  BY DEF OrdersBehind
<1>1. Behind(orders[k]) /\ (pc = "order" => BeforeCur(orders[k]))
  BY DEF OrdersBehind
<1>2. Behind(orders[k])'
  BY <1>1, BehindStays
<1> QED
  BY <1>1, <1>2, BatchAfter DEF Forward, BeforeCur

LEMMA AnswersStay ==
    ASSUME TypeInv, TypeInv', AnswersBehind, Forward,
           \A r \in results' : \/ r \in results
                               \/ Behind(r[1])' /\ pc' \notin {"order", "record"}
    PROVE  AnswersBehind'
<1> SUFFICES ASSUME NEW r \in results
             PROVE  /\ Behind(r[1])'
                    /\ pc' \in {"order", "record"} => BeforeCur(r[1])'
  BY DEF AnswersBehind
<1>1. Behind(r[1]) /\ (pc \in {"order", "record"} => BeforeCur(r[1]))
  BY DEF AnswersBehind
<1>2. Behind(r[1])'
  BY <1>1, BehindStays
<1> QED
  BY <1>1, <1>2, BatchAfter DEF Forward, BeforeCur

LEMMA CursorKept ==
    ASSUME TypeInv, UNCHANGED cursor
    PROVE  \A st \in Streams : cursor[st] <= cursor'[st]
BY CursorType DEF TypeInv

LEMMA VetForward ==
    ASSUME TypeInv, NEW id, IsNext(id), Begin(id), pc' \in {"ack", "order"}
    PROVE  Forward
<1>1. id \in batch /\ cur' = id /\ batch' = batch \ {id} /\ UNCHANGED cursor
  BY DEF IsNext, Begin, streamVars
<1> QED
  BY <1>1, CursorKept DEF Forward

\* What every vetting step is made of, seen from the streams.
LEMMA VetBegins ==
    ASSUME TypeInv, NEW id,
           Drop(id) \/ RejectEarly(id) \/ RejectAmount(id) \/ RejectPosition(id)
           \/ Admit(id)
    PROVE  IsNext(id) /\ Begin(id) /\ pc' \in {"ack", "order"}
<1>1. CASE Drop(id)
  BY <1>1 DEF Drop
<1>2. CASE RejectEarly(id) \/ RejectAmount(id)
  BY <1>2 DEF RejectEarly, RejectAmount, Reject
<1>3. CASE RejectPosition(id)
  BY <1>3 DEF RejectPosition, Checked
<1>4. CASE Admit(id)
  BY <1>4 DEF Admit, Checked
<1> QED
  BY <1>1, <1>2, <1>3, <1>4

\* Every step but an order and the steps of its handler goes forward.
LEMMA StepsForward ==
    ASSUME TypeInv, [Next]_vars, ~PlaceOrder
    PROVE  Forward
<1>1. CASE (\E m \in Signals : Publish(m)) \/ NextDay \/ UNCHANGED vars
  <2>1. UNCHANGED <<cursor, batch, pc, cur>>
    BY <1>1 DEF Publish, XAdd, NextDay, vars, streamVars, procVars
  <2> QED
    BY <2>1, CursorKept DEF Forward
<1>2. CASE Start
  <2>1. (\E made \in SUBSET Streams : CreateGroups(made)) \/ UNCHANGED cursor
    BY <1>2 DEF Start, streamVars
  <2>2. \A st \in Streams : cursor[st] <= cursor'[st]
    <3> SUFFICES ASSUME NEW st \in Streams PROVE cursor[st] <= cursor'[st]
      OBVIOUS
    <3>1. cursor'[st] = cursor[st] \/ cursor'[st] = Len(log[st])
      BY <2>1 DEF CreateGroups
    <3>2. cursor[st] \in Int /\ Len(log[st]) \in Nat /\ cursor[st] <= Len(log[st])
      BY CursorType DEF TypeInv, PlacesOK
    <3> QED
      BY <3>1, <3>2
  <2> QED
    BY <1>2, <2>2 DEF Start, Forward
<1>3. CASE Crash
  BY <1>3, CursorKept DEF Crash, streamVars, Forward
<1>4. CASE ProcessPending
  BY <1>4, CursorKept, PendingTypes DEF ProcessPending, streamVars, Forward
<1>5. CASE Poll
  <2>1. PICK st \in Streams : ReadStream(st)
    BY <1>5 DEF Poll
  <2>2. CASE cursor[st] = NoGroup \/ Undelivered(st) = {}
    BY <2>1, <2>2, CursorKept DEF ReadStream, streamVars, Forward
  <2>3. CASE ~(cursor[st] = NoGroup \/ Undelivered(st) = {})
    <3>1. XReadGroup(st) /\ batch' = {st} \X Undelivered(st) /\ pc' = "handle"
      BY <2>1, <2>3 DEF ReadStream
    <3>2. \A s \in Streams : cursor[s] <= cursor'[s]
      BY <3>1, ReadGroup
    <3>3. \A b \in batch' : cursor[b[1]] < b[2]
      BY <3>1, UndeliveredRange DEF TypeInv
    <3> QED
      BY <3>1, <3>2, <3>3 DEF Forward
  <2> QED
    BY <2>2, <2>3
<1>6. CASE \E st \in Streams : LoseReply(st)
  <2>1. PICK st \in Streams : LoseReply(st)
    BY <1>6
  <2>2. \A s \in Streams : cursor[s] <= cursor'[s]
    BY <2>1, ReadGroup DEF LoseReply
  <2> QED
    BY <2>1, <2>2 DEF LoseReply, Forward
<1>7. CASE Vet
  BY <1>7, VetBegins, VetForward DEF Vet
<1>8. CASE RecordResult \/ RecordPosition \/ Acknowledge
  <2>1. UNCHANGED <<cursor, batch>> /\ pc' \notin {"order", "record"}
    BY <1>8 DEF RecordResult, RecordPosition, Acknowledge, XAck, streamVars
  <2> QED
    BY <2>1, CursorKept DEF Forward
<1> QED
  BY <1>1, <1>2, <1>3, <1>4, <1>5, <1>6, <1>7, <1>8 DEF Next

\* Only PlaceOrder touches the orders.
LEMMA OrdersKept ==
    ASSUME [Next]_vars, ~PlaceOrder
    PROVE  UNCHANGED orders
<1>1. CASE Vet
  BY <1>1 DEF Vet, Drop, RejectEarly, RejectAmount, Reject, RejectPosition, Admit,
              Checked, Begin, brokerVars
<1>2. CASE ~Vet
  BY <1>2 DEF Next, Publish, Start, Crash, Poll, ReadStream, LoseReply,
              ProcessPending, RecordResult, RecordPosition, Acknowledge, NextDay,
              vars, brokerVars
<1> QED
  BY <1>1, <1>2

LEMMA OrderBehind ==
    ASSUME TypeInv, TypeInv', OrdersBehind, PlaceOrder
    PROVE  OrdersBehind' /\ (orders' = orders \/ orders' = Append(orders, cur))
<1>1. /\ pc = "order" /\ pc' = "record" /\ UNCHANGED <<cursor, batch, cur>>
      /\ orders' = orders \/ orders' = Append(orders, cur)
  BY DEF PlaceOrder, brokerVars, streamVars
<1>2. Behind(cur)
  BY <1>1 DEF TypeInv, PlacesOK, Handling, Behind
<1>3. \A k \in DOMAIN orders' : orders'[k] = cur \/ \E j \in DOMAIN orders : orders'[k] = orders[j]
  <2>1. orders \in Seq(EntryIds) /\ cur \in EntryIds
    BY <1>2 DEF TypeInv, TypeOK, Behind
  <2> QED
    BY <1>1, <2>1
<1>4. \A k \in DOMAIN orders' : Behind(orders'[k])
  BY <1>2, <1>3 DEF OrdersBehind
<1> QED
  BY <1>1, <1>4 DEF OrdersBehind, Behind

OrderInv == TypeInv /\ OrdersBehind /\ BrokerFollowsStream

LEMMA OrderInvStep ==
    ASSUME OrderInv, [Next]_vars
    PROVE  OrderInv'
<1>1. TypeInv /\ TypeInv' /\ OrdersBehind
  BY NextTypes DEF OrderInv
<1>2. CASE ~PlaceOrder
  BY <1>1, <1>2, StepsForward, OrdersKept, OrdersStay DEF OrderInv, BrokerFollowsStream
<1>3. CASE PlaceOrder
  <2>1. OrdersBehind' /\ (orders' = orders \/ orders' = Append(orders, cur))
    BY <1>1, <1>3, OrderBehind
  <2>2. \A k \in DOMAIN orders : orders[k][1] = cur[1] => orders[k][2] < cur[2]
    BY <1>1, <1>3 DEF PlaceOrder, OrdersBehind, BeforeCur
  <2>3. orders \in Seq(EntryIds) /\ cur \in EntryIds
    BY <1>1, <1>3 DEF PlaceOrder, TypeInv, TypeOK, PlacesOK, Handling
  <2>4. BrokerFollowsStream'
    <3>1. CASE orders' = orders
      BY <3>1 DEF OrderInv, BrokerFollowsStream
    <3>2. CASE orders' = Append(orders, cur)
      <4> SUFFICES ASSUME NEW j \in DOMAIN orders', NEW k \in DOMAIN orders',
                          j < k, orders'[j][1] = orders'[k][1]
                   PROVE  orders'[j][2] < orders'[k][2]
        BY DEF BrokerFollowsStream
      <4>1. DOMAIN orders = 1..Len(orders) /\ Len(orders) \in Nat
            /\ DOMAIN orders' = 1..(Len(orders) + 1)
            /\ orders'[Len(orders) + 1] = cur
            /\ \A i \in DOMAIN orders : orders'[i] = orders[i]
        BY <2>3, <3>2
      <4>2. j \in DOMAIN orders /\ orders'[j] = orders[j]
        BY <4>1
      <4>3. CASE k \in DOMAIN orders
        BY <4>1, <4>2, <4>3 DEF OrderInv, BrokerFollowsStream
      <4>4. CASE k = Len(orders) + 1
        BY <2>2, <4>1, <4>2, <4>4
      <4> QED
        BY <4>1, <4>3, <4>4
    <3> QED
      BY <2>1, <3>1, <3>2
  <2> QED
    BY <1>1, <2>1, <2>4 DEF OrderInv
<1> QED
  BY <1>2, <1>3

\* The broker never gets an entry twice, nor an entry after a later one of the
\* same stream: redis_client.py acknowledges in "finally", never re-reads, and
\* its handler finishes one id before it starts the next.
THEOREM FollowsStream == Spec => []BrokerFollowsStream
<1>1. Init => OrderInv
  <2>1. Init => TypeInv
    BY InitTypes
  <2>2. Init => orders = <<>>
    BY DEF Init
  <2> QED
    BY <2>1, <2>2 DEF OrderInv, OrdersBehind, BrokerFollowsStream
<1>2. OrderInv /\ [Next]_vars => OrderInv'
  BY OrderInvStep
<1>3. OrderInv => BrokerFollowsStream
  BY DEF OrderInv
<1> QED
  BY <1>1, <1>2, <1>3, PTL DEF Spec

-----------------------------------------------------------------------------
(* The daily limit *)

\* What process_signal and the broker hold against the limit of the day.  An
\* amount that was ordered and not yet recorded is still the running id's.
Ordered == IF pc = "record" THEN Amount(Payload(cur)) ELSE 0

DailyInv ==
    /\ TypeInv
    /\ resetDay <= day
    /\ pc = "down" => daily = 0
    /\ spent <= DailyNow + Ordered
    /\ DailyNow <= MaxDaily
    /\ pc \in {"order", "record"} => /\ resetDay = day
                                     /\ daily + Amount(Payload(cur)) <= MaxDaily

LEMMA DailyTypes ==
    ASSUME DailyInv
    PROVE  /\ daily \in Nat /\ resetDay \in Nat /\ day \in Nat /\ spent \in Nat
           /\ DailyNow \in Nat
           /\ pc \in {"order", "record"} => Amount(Payload(cur)) \in Nat
<1>1. daily \in Nat /\ resetDay \in Nat /\ day \in Nat /\ spent \in Nat /\ TypeInv
  BY DEF DailyInv, TypeInv, TypeOK
<1>2. DailyNow \in Nat
  BY <1>1 DEF DailyNow
<1>3. pc \in {"order", "record"} => Amount(Payload(cur)) \in Nat
  BY <1>1, CurType
<1> QED
  BY <1>1, <1>2, <1>3

\* Appending to a stream leaves the running signal as it is.
LEMMA PayloadKept ==
    ASSUME TypeInv, NEW m \in Signals, Publish(m), pc \in {"order", "record", "book"}
    PROVE  Payload(cur)' = Payload(cur)
<1>1. StreamOf(m) \in Streams /\ cur' = cur
      /\ log' = [log EXCEPT ![StreamOf(m)] = Append(@, m)]
  BY DEF Publish, XAdd, StreamOf, Streams, procVars
<1>2. cur \in EntryIds /\ cur[2] <= cursor[cur[1]]
  BY DEF TypeInv, PlacesOK, Handling
<1>3. cur[1] \in Streams /\ cur[2] \in Nat \ {0}
  BY <1>2, EntryIdType
<1>4. cursor[cur[1]] \in Int /\ Len(log[cur[1]]) \in Nat
      /\ cursor[cur[1]] <= Len(log[cur[1]])
  BY <1>3, CursorType DEF TypeInv, PlacesOK
<1>5. log \in [Streams -> Seq(Signals)]
  BY DEF TypeInv, TypeOK, StreamTypeOK
<1>6. cur[2] \in 1..Len(log[cur[1]])
  BY <1>2, <1>3, <1>4
<1>7. log'[cur[1]][cur[2]] = log[cur[1]][cur[2]]
  BY <1>1, <1>3, <1>5, <1>6
<1> QED
  BY <1>1, <1>7 DEF Payload

\* Steps that leave the amounts, the dates and the running signal alone.
LEMMA DailyStays ==
    ASSUME DailyInv, TypeInv', UNCHANGED <<daily, resetDay, day, spent>>,
           pc' # "record", pc' = "down" => pc = "down", pc # "record",
           pc' = "order" => pc = "order" /\ Payload(cur)' = Payload(cur)
    PROVE  DailyInv'
<1>1. DailyNow' = DailyNow
  BY DEF DailyNow
<1>2. Ordered = 0 /\ Ordered' = 0
  BY DEF Ordered
<1>3. Amount(Payload(cur))' = Amount(Payload(cur)) \/ pc' # "order"
  BY DEF Amount, RiskPrice
<1> QED
  BY <1>1, <1>2, <1>3 DEF DailyInv

LEMMA DailyPublish ==
    ASSUME DailyInv, NEW m \in Signals, Publish(m)
    PROVE  DailyInv'
<1>1. TypeInv /\ TypeInv'
  BY PublishTypes DEF DailyInv
<1>2. UNCHANGED <<pc, cur, daily, resetDay, day, spent>>
  BY DEF Publish, procVars, brokerVars
<1>3. pc \in {"order", "record"} => Amount(Payload(cur))' = Amount(Payload(cur))
  BY <1>1, PayloadKept DEF Amount, RiskPrice
<1>4. DailyNow' = DailyNow /\ Ordered' = Ordered
  BY <1>2, <1>3 DEF DailyNow, Ordered
<1> QED
  BY <1>1, <1>2, <1>3, <1>4 DEF DailyInv

LEMMA DailyStart ==
    ASSUME DailyInv, Start
    PROVE  DailyInv'
<1>1. TypeInv' /\ daily' = 0 /\ daily = 0 /\ resetDay' = day' /\ pc = "down"
      /\ pc' \in {"read", "deaf"} /\ UNCHANGED spent
  BY StartTypes DEF DailyInv, Start, brokerVars
<1>2. spent = 0
  BY <1>1, DailyTypes DEF DailyInv, DailyNow, Ordered
<1> QED
  BY <1>1, <1>2, DailyTypes DEF DailyInv, DailyNow, Ordered, Start

LEMMA DailyCrash ==
    ASSUME DailyInv, Crash
    PROVE  DailyInv'
<1>1. TypeInv' /\ daily' = 0 /\ spent' = 0 /\ pc' = "down" /\ UNCHANGED <<resetDay, day>>
  BY CrashTypes DEF DailyInv, Crash
<1> QED
  BY <1>1, DailyTypes DEF DailyInv, DailyNow, Ordered

\* The limits are reset, then the amount is checked against what is left.
LEMMA DailyVet ==
    ASSUME DailyInv, Vet
    PROVE  DailyInv'
<1>1. TypeInv /\ TypeInv'
  BY VetTypes DEF DailyInv
<1>2. PICK id \in batch : Drop(id) \/ RejectEarly(id) \/ RejectAmount(id)
                          \/ RejectPosition(id) \/ Admit(id)
  BY DEF Vet
<1>3. pc = "handle" /\ cur' = id /\ UNCHANGED <<log, day, spent>>
  BY <1>1, <1>2, VetBegins DEF IsNext, Begin, streamVars, brokerVars
<1>4. CASE Drop(id)
  BY <1>1, <1>3, <1>4, DailyStays DEF Drop
<1>5. CASE ResetDailyLimits /\ pc' = "ack"
  <2>1. DailyNow' = DailyNow /\ resetDay' = day'
    BY <1>3, <1>5 DEF ResetDailyLimits, DailyNow
  <2>2. Ordered = 0 /\ Ordered' = 0
    BY <1>3, <1>5 DEF Ordered
  <2> QED
    BY <1>1, <1>3, <1>5, <2>1, <2>2, DailyTypes DEF DailyInv
<1>6. CASE Admit(id)
  <2>1. ResetDailyLimits /\ pc' = "order" /\ WithinDailyLimit(Payload(id))
    BY <1>6 DEF Admit, Checked
  <2>2. DailyNow' = DailyNow /\ resetDay' = day' /\ daily' = DailyNow
    BY <1>3, <2>1 DEF ResetDailyLimits, DailyNow
  <2>3. Ordered = 0 /\ Ordered' = 0
    BY <1>3, <2>1 DEF Ordered
  <2>4. Amount(Payload(cur))' = Amount(Payload(id))
    BY <1>3 DEF Payload, Amount, RiskPrice
  <2>5. daily' + Amount(Payload(cur))' <= MaxDaily
    BY <2>1, <2>2, <2>4 DEF WithinDailyLimit
  <2> QED
    BY <1>1, <1>3, <2>1, <2>2, <2>3, <2>5, DailyTypes DEF DailyInv
<1>7. RejectEarly(id) \/ RejectAmount(id) \/ RejectPosition(id)
      => ResetDailyLimits /\ pc' = "ack"
  BY DEF RejectEarly, RejectAmount, Reject, RejectPosition, Checked
<1> QED
  BY <1>2, <1>4, <1>5, <1>6, <1>7

LEMMA DailyOrder ==
    ASSUME DailyInv, PlaceOrder
    PROVE  DailyInv'
<1>1. TypeInv /\ TypeInv' /\ pc = "order" /\ pc' = "record"
      /\ UNCHANGED <<log, cur, daily, resetDay, day>>
      /\ (spent' = spent \/ spent' = spent + Amount(Payload(cur)))
  BY OrderTypes DEF DailyInv, PlaceOrder, streamVars, brokerVars
<1>2. DailyNow' = DailyNow /\ Ordered = 0 /\ Ordered' = Amount(Payload(cur))
      /\ Amount(Payload(cur))' = Amount(Payload(cur))
  BY <1>1 DEF DailyNow, Ordered, Payload, Amount, RiskPrice
<1>3. Amount(Payload(cur)) \in Nat /\ spent \in Nat /\ DailyNow \in Nat
  BY <1>1, DailyTypes
<1> HIDE DEF Ordered, DailyNow
<1>4. spent' <= DailyNow' + Ordered'
  BY <1>1, <1>2, <1>3 DEF DailyInv
<1> QED
  BY <1>1, <1>2, <1>4 DEF DailyInv

\* What was ordered becomes what is recorded.
LEMMA DailyRecord ==
    ASSUME DailyInv, RecordResult
    PROVE  DailyInv'
<1>1. TypeInv /\ TypeInv' /\ pc = "record" /\ pc' \in {"book", "ack"}
      /\ daily' = daily + Amount(Payload(cur)) /\ UNCHANGED <<resetDay, day, spent>>
  BY RecordTypes DEF DailyInv, RecordResult, brokerVars
<1>2. resetDay = day /\ daily + Amount(Payload(cur)) <= MaxDaily
      /\ spent <= DailyNow + Ordered
  BY <1>1 DEF DailyInv
<1>3. DailyNow' = daily' /\ DailyNow = daily /\ Ordered = Amount(Payload(cur))
      /\ Ordered' = 0
  BY <1>1, <1>2 DEF DailyNow, Ordered
<1>4. Amount(Payload(cur)) \in Nat /\ spent \in Nat /\ daily \in Nat
  BY <1>1, DailyTypes
<1>5. spent' <= DailyNow' + Ordered' /\ DailyNow' <= MaxDaily
  BY <1>1, <1>2, <1>3, <1>4
<1> QED
  BY <1>1, <1>2, <1>5 DEF DailyInv

\* At midnight the broker's day starts at zero; the amount of the past day stays
\* in memory, and resetDay no longer matches.
LEMMA DailyMidnight ==
    ASSUME DailyInv, NextDay
    PROVE  DailyInv'
<1>1. TypeInv' /\ pc \in {"down", "deaf", "read", "handle"} /\ day' = day + 1 /\ spent' = 0
      /\ UNCHANGED <<pc, daily, resetDay>>
  BY NextDayTypes DEF DailyInv, NextDay, procVars
<1>2. resetDay \in Nat /\ day \in Nat /\ resetDay <= day
  BY DailyTypes DEF DailyInv
<1>3. DailyNow' = 0 /\ Ordered' = 0
  BY <1>1, <1>2 DEF DailyNow, Ordered
<1>4. MaxDaily \in Nat
  OBVIOUS
<1> QED
  BY <1>1, <1>2, <1>3, <1>4 DEF DailyInv

LEMMA DailyInvStep ==
    ASSUME DailyInv, [Next]_vars
    PROVE  DailyInv'
<1>1. TypeInv /\ TypeInv'
  BY NextTypes DEF DailyInv
<1>2. CASE Poll \/ (\E st \in Streams : LoseReply(st)) \/ ProcessPending
  <2>1. UNCHANGED <<daily, resetDay, day, spent>> /\ pc = "read"
        /\ pc' \in {"read", "handle"}
    BY <1>2 DEF Poll, ReadStream, LoseReply, ProcessPending, brokerVars
  <2> QED
    BY <1>1, <2>1, DailyStays
<1>3. CASE RecordPosition \/ Acknowledge
  <2>1. UNCHANGED <<daily, resetDay, day, spent>> /\ pc \in {"book", "ack"}
        /\ pc' \in {"ack", "read", "handle"}
    BY <1>3 DEF RecordPosition, Acknowledge, brokerVars
  <2> QED
    BY <1>1, <2>1, DailyStays
<1>4. CASE UNCHANGED vars
  <2>1. UNCHANGED <<pc, cur, log, daily, resetDay, day, spent>>
    BY <1>4 DEF vars, streamVars, procVars, brokerVars
  <2>2. DailyNow' = DailyNow /\ Ordered' = Ordered
        /\ Amount(Payload(cur))' = Amount(Payload(cur))
    BY <2>1 DEF DailyNow, Ordered, Payload, Amount, RiskPrice
  <2> QED
    BY <1>1, <2>1, <2>2 DEF DailyInv
<1>5. CASE \E m \in Signals : Publish(m)
  BY <1>5, DailyPublish
<1> QED
  BY <1>2, <1>3, <1>4, <1>5, DailyStart, DailyCrash, DailyVet, DailyOrder, DailyRecord,
     DailyMidnight DEF Next

\* A process never sends the broker more than MAX_DAILY_TRADE on one date: every
\* amount is checked with what is recorded, and recorded before the next check.
THEOREM DailyLimitHolds == Spec => []DailyLimit
<1>1. Init => DailyInv
  <2>1. Init => TypeInv
    BY InitTypes
  <2>2. MaxDaily \in Nat
    OBVIOUS
  <2> QED
    BY <2>1, <2>2 DEF Init, DailyInv, DailyNow, Ordered
<1>2. DailyInv /\ [Next]_vars => DailyInv'
  BY DailyInvStep
<1>3. DailyInv => DailyLimit
  <2> SUFFICES ASSUME DailyInv PROVE spent <= MaxDaily
    BY DEF DailyLimit
  <2>1. spent \in Nat /\ DailyNow \in Nat /\ daily \in Nat /\ MaxDaily \in Nat
    BY DailyTypes
  <2>2. CASE pc = "record"
    <3>1. Amount(Payload(cur)) \in Nat
      BY <2>2, DailyTypes
    <3> QED
      BY <2>1, <2>2, <3>1 DEF DailyInv, Ordered, DailyNow
  <2>3. CASE pc # "record"
    <3>1. spent <= DailyNow + 0 /\ DailyNow <= MaxDaily
      BY <2>3 DEF DailyInv, Ordered
    <3> QED
      BY <2>1, <3>1
  <2> QED
    BY <2>2, <2>3
<1> QED
  BY <1>1, <1>2, <1>3, PTL DEF Spec

-----------------------------------------------------------------------------
(* What is not finished is pending *)

PendingInv ==
    /\ TypeInv
    /\ batch \subseteq pel
    /\ pc \in Handling => cur \in pel
    /\ UnfinishedIsPending

LEMMA PendingStep ==
    ASSUME PendingInv, [Next]_vars
    PROVE  PendingInv'
<1>1. TypeInv /\ TypeInv'
  BY NextTypes DEF PendingInv
<1>2. CASE (\E m \in Signals : Publish(m)) \/ Start \/ NextDay \/ UNCHANGED vars
  <2>1. UNCHANGED <<pel, batch, cur, orders, done>> /\ (pc' = pc \/ pc' \in {"read", "deaf"})
    BY <1>2 DEF Publish, XAdd, Start, CreateGroups, NextDay, vars, streamVars,
                procVars, brokerVars
  <2> QED
    BY <1>1, <2>1 DEF PendingInv, UnfinishedIsPending, Handling
<1>3. CASE Crash \/ ProcessPending
  <2>1. batch' = {} /\ UNCHANGED <<pel, orders, done>> /\ pc' \notin Handling
    BY <1>1, <1>3, PendingTypes DEF Crash, ProcessPending, streamVars, brokerVars,
                                    Handling
  <2> QED
    BY <1>1, <2>1 DEF PendingInv, UnfinishedIsPending
<1>4. CASE Poll \/ \E st \in Streams : LoseReply(st)
  <2>1. pel \subseteq pel' /\ UNCHANGED <<orders, done>> /\ pc' \notin Handling
    BY <1>4 DEF Poll, ReadStream, LoseReply, XReadGroup, streamVars, brokerVars, Handling
  <2>2. batch' \subseteq pel'
    BY <1>4 DEF Poll, ReadStream, LoseReply, XReadGroup, streamVars, PendingInv
  <2> QED
    BY <1>1, <2>1, <2>2 DEF PendingInv, UnfinishedIsPending
<1>5. CASE Vet
  <2>1. PICK id \in batch : Drop(id) \/ RejectEarly(id) \/ RejectAmount(id)
                            \/ RejectPosition(id) \/ Admit(id)
    BY <1>5 DEF Vet
  <2>2. cur' = id /\ batch' = batch \ {id} /\ UNCHANGED <<pel, orders, done>>
    BY <1>1, <2>1, VetBegins DEF Begin, streamVars, brokerVars
  <2> QED
    BY <1>1, <2>2 DEF PendingInv, UnfinishedIsPending
<1>6. CASE PlaceOrder
  <2>1. cur \in pel /\ UNCHANGED <<pel, batch, cur, done>>
    BY <1>6 DEF PlaceOrder, PendingInv, Handling, streamVars
  <2>2. \A k \in DOMAIN orders' : orders'[k] \in done \cup pel
    <3>1. orders \in Seq(EntryIds) /\ cur \in EntryIds
      BY <1>1, <1>6 DEF PlaceOrder, TypeInv, TypeOK, PlacesOK, Handling
    <3>2. orders' = orders \/ orders' = Append(orders, cur)
      BY <1>6 DEF PlaceOrder, brokerVars
    <3> QED
      BY <2>1, <3>1, <3>2 DEF PendingInv, UnfinishedIsPending
  <2> QED
    BY <1>1, <2>1, <2>2 DEF PendingInv, UnfinishedIsPending
<1>7. CASE RecordResult \/ RecordPosition
  <2>1. UNCHANGED <<pel, batch, cur, orders, done>> /\ pc \in Handling
    BY <1>7 DEF RecordResult, RecordPosition, streamVars, brokerVars, Handling
  <2> QED
    BY <1>1, <2>1 DEF PendingInv, UnfinishedIsPending
<1>8. CASE Acknowledge
  <2>1. /\ UNCHANGED <<batch, orders>> /\ pc' \notin Handling
        /\ pel' = pel \/ pel' = pel \ {cur}
        /\ done' = done \cup {cur}
    BY <1>8 DEF Acknowledge, XAck, brokerVars, Handling
  <2>2. cur \notin batch
    <3>1. cur \in EntryIds /\ \A b \in batch : b[1] = cur[1] => cur[2] < b[2]
      BY <1>1, <1>8 DEF Acknowledge, TypeInv, PlacesOK, Handling
    <3> QED
      BY <3>1, EntryIdType
  <2> QED
    BY <1>1, <2>1, <2>2 DEF PendingInv, UnfinishedIsPending
<1> QED
  BY <1>2, <1>3, <1>4, <1>5, <1>6, <1>7, <1>8 DEF Next

\* An order whose handler was cut short by a death can be found: its entry is in
\* the group's pending list until a handler has run to its end.
THEOREM UnfinishedPending == Spec => []UnfinishedIsPending
<1>1. Init => PendingInv
  <2>1. Init => TypeInv
    BY InitTypes
  <2> QED
    BY <2>1 DEF Init, PendingInv, UnfinishedIsPending, Handling
<1>2. PendingInv /\ [Next]_vars => PendingInv'
  BY PendingStep
<1>3. PendingInv => UnfinishedIsPending
  BY DEF PendingInv
<1> QED
  BY <1>1, <1>2, <1>3, PTL DEF Spec

-----------------------------------------------------------------------------
(* The results stream tells the truth *)

AnswerInv ==
    /\ TypeInv
    /\ OrdersBehind
    /\ AnswersBehind
    /\ AcceptedIsOrdered
    /\ AnswersAreTrue

\* Nothing was ordered or answered for an id that is not behind.
LEMMA FreshId ==
    ASSUME AnswerInv, NEW id, pc \in {"handle", "record"},
           IsNext(id) \/ (pc = "record" /\ id = cur)
    PROVE  /\ \A r \in results : r[1] # id
           /\ IsNext(id) => \A k \in DOMAIN orders : orders[k] # id
<1>1. CASE IsNext(id)
  <2>1. id \in batch /\ id \in EntryIds
    BY <1>1, NextIdType DEF IsNext, AnswerInv
  <2>2. \A other : Behind(other) => other # id
    BY <2>1, EntryIdType DEF Behind
  <2> QED
    BY <2>2 DEF AnswerInv, OrdersBehind, AnswersBehind
<1>2. CASE pc = "record" /\ id = cur
  <2>1. cur \in EntryIds
    BY <1>2 DEF AnswerInv, TypeInv, PlacesOK, Handling
  <2>2. cur[2] \in Nat
    BY <2>1, EntryIdType
  <2> QED
    BY <1>2, <2>2 DEF AnswerInv, AnswersBehind, BeforeCur, IsNext
<1> QED
  BY <1>1, <1>2

\* Steps that answer nothing and order nothing.
LEMMA AnswersKept ==
    ASSUME AnswerInv, TypeInv', Forward, UNCHANGED <<orders, results>>,
           pc' = "record" => pc = "record" /\ UNCHANGED <<cur, accepted>>
    PROVE  AnswerInv'
<1>1. OrdersBehind' /\ AnswersBehind'
  BY OrdersStay, AnswersStay DEF AnswerInv
<1> QED
  BY <1>1 DEF AnswerInv, AcceptedIsOrdered, AnswersAreTrue

\* A vetting step answers at most its own id, and then it rejects it.
LEMMA AnswerVet ==
    ASSUME AnswerInv, NEW id \in batch,
           Drop(id) \/ RejectEarly(id) \/ RejectAmount(id) \/ RejectPosition(id)
           \/ Admit(id)
    PROVE  AnswerInv'
<1>1. TypeInv /\ TypeInv'
  BY VetTypes DEF Vet, AnswerInv
<1>2. IsNext(id) /\ Begin(id) /\ pc' \in {"ack", "order"} /\ UNCHANGED orders /\ Forward
  BY <1>1, VetBegins, VetForward DEF Begin, brokerVars
<1>3. \/ results' = results
      \/ pc' = "ack" /\ results' = results \cup {<<id, "rejected">>}
  BY DEF Drop, RejectEarly, RejectAmount, Reject, RejectPosition, Admit, Report
<1>4. CASE results' = results
  BY <1>1, <1>2, <1>4, AnswersKept
<1>5. CASE pc' = "ack" /\ results' = results \cup {<<id, "rejected">>}
  <2>1. Behind(id)'
    BY <1>1, <1>2, NextIdType DEF Begin, Behind, streamVars
  <2>2. OrdersBehind' /\ AnswersBehind'
    BY <1>1, <1>2, <1>5, <2>1, OrdersStay, AnswersStay DEF AnswerInv
  <2>3. (\A r \in results : r[1] # id) /\ \A k \in DOMAIN orders : orders[k] # id
    BY <1>2, FreshId DEF IsNext
  <2>4. AnswersAreTrue'
    BY <1>2, <1>5, <2>3 DEF AnswerInv, AnswersAreTrue
  <2> QED
    BY <1>1, <1>5, <2>2, <2>4 DEF AnswerInv, AcceptedIsOrdered
<1> QED
  BY <1>3, <1>4, <1>5

LEMMA AnswerOrder ==
    ASSUME AnswerInv, PlaceOrder
    PROVE  AnswerInv'
<1>1. TypeInv /\ TypeInv' /\ OrdersBehind
  BY OrderTypes DEF AnswerInv
<1>2. /\ pc = "order" /\ pc' = "record" /\ UNCHANGED <<cursor, batch, cur, results>>
      /\ accepted' => orders' = Append(orders, cur)
  BY DEF PlaceOrder, streamVars
<1>3. OrdersBehind' /\ (orders' = orders \/ orders' = Append(orders, cur))
  BY <1>1, OrderBehind
<1>4. orders \in Seq(EntryIds) /\ cur \in EntryIds
  BY <1>1, <1>2 DEF TypeInv, TypeOK, PlacesOK, Handling
<1>5. AnswersBehind'
  BY <1>2 DEF AnswerInv, AnswersBehind, Behind, BeforeCur
<1>6. /\ \A k \in DOMAIN orders : k \in DOMAIN orders' /\ orders'[k] = orders[k]
      /\ \A k \in DOMAIN orders' : orders'[k] = cur
                                   \/ \E j \in DOMAIN orders : orders'[k] = orders[j]
  BY <1>3, <1>4
<1>7. AcceptedIsOrdered'
  <2> SUFFICES ASSUME accepted' PROVE \E k \in DOMAIN orders' : orders'[k] = cur
    BY <1>2 DEF AcceptedIsOrdered
  <2>1. Len(orders) + 1 \in DOMAIN orders' /\ orders'[Len(orders) + 1] = cur
    BY <1>2, <1>4
  <2> QED
    BY <2>1
<1>8. \A r \in results : r[1] # cur
  <2>1. cur[2] \in Nat
    BY <1>4, EntryIdType
  <2> QED
    BY <1>2, <2>1 DEF AnswerInv, AnswersBehind, BeforeCur
<1>9. AnswersAreTrue'
  BY <1>2, <1>6, <1>8 DEF AnswerInv, AnswersAreTrue
<1> QED
  BY <1>1, <1>3, <1>5, <1>7, <1>9 DEF AnswerInv

LEMMA AnswerRecord ==
    ASSUME AnswerInv, RecordResult
    PROVE  AnswerInv'
<1> DEFINE kind == IF accepted THEN "success" ELSE "failure"
<1>1. TypeInv /\ TypeInv' /\ OrdersBehind
  BY RecordTypes DEF AnswerInv
<1>2. /\ pc = "record" /\ pc' \in {"book", "ack"}
      /\ UNCHANGED <<cursor, batch, cur, accepted, orders>>
      /\ results' = results \/ results' = results \cup {<<cur, kind>>}
  BY DEF RecordResult, Report, streamVars, brokerVars
<1>3. Forward
  BY <1>1, <1>2, CursorKept DEF Forward
<1>4. Behind(cur)'
  BY <1>1, <1>2 DEF TypeInv, PlacesOK, Handling, Behind
<1>5. OrdersBehind' /\ AnswersBehind'
  BY <1>1, <1>2, <1>3, <1>4, OrdersStay, AnswersStay DEF AnswerInv
<1>6. \A r \in results : r[1] # cur
  BY <1>2, FreshId
<1>7. accepted => \E k \in DOMAIN orders : orders[k] = cur
  BY <1>2 DEF AnswerInv, AcceptedIsOrdered
<1>8. AnswersAreTrue'
  BY <1>2, <1>6, <1>7 DEF AnswerInv, AnswersAreTrue
<1> QED
  BY <1>1, <1>2, <1>5, <1>8 DEF AnswerInv, AcceptedIsOrdered

LEMMA AnswerStep ==
    ASSUME AnswerInv, [Next]_vars
    PROVE  AnswerInv'
<1>1. TypeInv /\ TypeInv'
  BY NextTypes DEF AnswerInv
<1>2. CASE Vet
  BY <1>2, AnswerVet DEF Vet
<1>3. CASE ~(Vet \/ PlaceOrder \/ RecordResult)
  <2>1. Forward /\ UNCHANGED orders
    BY <1>1, <1>3, StepsForward, OrdersKept
  <2>2. UNCHANGED results
        /\ (pc' = "record" => pc = "record" /\ UNCHANGED <<cur, accepted>>)
    BY <1>3 DEF Next, Publish, Start, Crash, Poll, ReadStream, LoseReply,
                ProcessPending, RecordPosition, Acknowledge, NextDay, vars, procVars
  <2> QED
    BY <1>1, <2>1, <2>2, AnswersKept
<1> QED
  BY <1>2, <1>3, AnswerOrder, AnswerRecord

\* What the results stream says of an id is what became of it: one answer at
\* most, no "success" without an order and no order for a "rejected".
THEOREM AnswersTrue == Spec => []AnswersAreTrue
<1>1. Init => AnswerInv
  <2>1. Init => TypeInv
    BY InitTypes
  <2>2. Init => orders = <<>> /\ results = {} /\ pc = "down"
    BY DEF Init
  <2> QED
    BY <2>1, <2>2 DEF AnswerInv, OrdersBehind, AnswersBehind, AcceptedIsOrdered,
                      AnswersAreTrue
<1>2. AnswerInv /\ [Next]_vars => AnswerInv'
  BY AnswerStep
<1>3. AnswerInv => AnswersAreTrue
  BY DEF AnswerInv
<1> QED
  BY <1>1, <1>2, <1>3, PTL DEF Spec
-----------------------------------------------------------------------------
(* The number of positions *)

\* The keys of the dict run ahead of the rows of the table: empty after a start,
\* and at least the stocks held from the first synchronisation on.
CountInv ==
    /\ TypeInv
    /\ "sync" \notin faults =>
         /\ known = {} \/ Held \subseteq known
         /\ Cardinality(known) <= MaxPositions
         /\ Cardinality(Held) <= MaxPositions
         /\ pc \in {"order", "record", "book"} =>
              Held \subseteq known /\ RoomForStock(known, Payload(cur).stock)

LEMMA KnownCount ==
    ASSUME TypeOK
    PROVE  /\ IsFiniteSet(known) /\ Cardinality(known) \in Nat
           /\ IsFiniteSet(Held) /\ Cardinality(Held) \in Nat
           /\ Held \subseteq known => Cardinality(Held) <= Cardinality(known)
<1>1. known \subseteq Stocks /\ Held \subseteq Stocks /\ IsFiniteSet(Stocks)
  BY DEF TypeOK, BookTypeOK, Held
<1>2. IsFiniteSet(known) /\ IsFiniteSet(Held)
  BY <1>1, FS_Subset
<1> QED
  BY <1>2, FS_CardinalityType, FS_Subset

\* No step takes a failure back.
LEMMA FaultsGrow ==
    ASSUME [Next]_vars
    PROVE  faults \subseteq faults'
<1>1. CASE Vet
  BY <1>1 DEF Vet, Drop, RejectEarly, RejectAmount, Reject, RejectPosition, Admit, Checked
<1>2. CASE ~Vet
  BY <1>2 DEF Next, Publish, Start, Crash, Poll, ReadStream, LoseReply,
              ProcessPending, PlaceOrder, RecordResult, RecordPosition, Acknowledge,
              NextDay, vars
<1> QED
  BY <1>1, <1>2

\* Steps that leave the book alone and start no handler.
LEMMA CountStays ==
    ASSUME CountInv, TypeInv', [Next]_vars, UNCHANGED <<known, db>>,
           pc' \in {"order", "record", "book"} =>
               pc \in {"order", "record", "book"} /\ Payload(cur)' = Payload(cur)
    PROVE  CountInv'
<1>1. Held' = Held
  BY DEF Held
<1>2. "sync" \notin faults' => "sync" \notin faults
  BY FaultsGrow
<1> QED
  BY <1>1, <1>2 DEF CountInv, RoomForStock

\* The check synchronises first, and admits a stock there is room for.
LEMMA CountCheck ==
    ASSUME CountInv, TypeInv', NEW id, NEW failed \in 0..1, Checked(id, failed),
           \/ pc' = "ack"
           \/ /\ pc' = "order"
              /\ RoomForStock(SyncedKnown(failed = 0), Payload(id).stock)
    PROVE  CountInv'
<1>1. /\ cur' = id /\ UNCHANGED <<db, log>>
      /\ known' = SyncedKnown(failed = 0)
      /\ faults' = IF failed = 1 THEN faults \cup {"sync"} ELSE faults
  BY DEF Checked, Begin, SyncPositions, streamVars
<1>2. Held' = Held /\ Payload(cur)' = Payload(id)
  BY <1>1 DEF Held, Payload
<1>3. CASE failed = 1
  BY <1>1, <1>3 DEF CountInv
<1>4. CASE failed = 0 /\ "sync" \notin faults
  <2>1. known' = known \cup Held
    BY <1>1, <1>4 DEF SyncedKnown
  <2>2. known' = Held \/ known' = known
    BY <1>4, <2>1 DEF CountInv
  <2>3. Cardinality(known') <= MaxPositions
    BY <1>4, <2>2 DEF CountInv
  <2> QED
    BY <1>1, <1>2, <1>4, <2>1, <2>3 DEF CountInv
<1> QED
  BY <1>1, <1>3, <1>4 DEF CountInv

LEMMA CountVet ==
    ASSUME CountInv, Vet
    PROVE  CountInv'
<1>1. TypeInv /\ TypeInv' /\ [Next]_vars
  BY VetTypes DEF CountInv, Next
<1>2. PICK id \in batch : Drop(id) \/ RejectEarly(id) \/ RejectAmount(id)
                          \/ RejectPosition(id) \/ Admit(id)
  BY DEF Vet
<1>3. CASE Drop(id) \/ RejectEarly(id) \/ RejectAmount(id)
  <2>1. UNCHANGED <<known, db>> /\ pc' = "ack"
    BY <1>3 DEF Drop, RejectEarly, RejectAmount, Reject, Begin
  <2> QED
    BY <1>1, <2>1, CountStays
<1>4. CASE RejectPosition(id)
  BY <1>1, <1>4, CountCheck DEF RejectPosition
<1>5. CASE Admit(id)
  BY <1>1, <1>5, CountCheck DEF Admit, WithinPositionLimit
<1> QED
  BY <1>2, <1>3, <1>4, <1>5

\* A filled order adds its stock, which is a key already or finds room.
LEMMA CountBook ==
    ASSUME CountInv, RecordPosition
    PROVE  CountInv'
<1> DEFINE stock == Payload(cur).stock
<1>1. TypeInv /\ TypeInv' /\ TypeOK /\ TypeOK' /\ [Next]_vars
  BY PositionTypes DEF CountInv, Next, TypeInv
<1>2. pc = "book" /\ pc' = "ack"
  BY DEF RecordPosition
<1>3. stock \in Stocks
  BY <1>1, <1>2, CurType
<1>4. /\ known' = known \cup {stock}
      /\ \A s \in Stocks \ {stock} : db'[s] = db[s]
  BY <1>1, <1>3 DEF RecordPosition, UpdatePosition, TypeOK, BookTypeOK
<1> HIDE DEF stock
<1>5. Held' \subseteq Held \cup {stock}
  BY <1>4 DEF Held
<1>6. ASSUME "sync" \notin faults'
      PROVE  /\ Held' \subseteq known'
             /\ Cardinality(known') <= MaxPositions
  <2>1. "sync" \notin faults
    BY <1>1, <1>6, FaultsGrow
  <2>2. Held \subseteq known /\ RoomForStock(known, stock)
        /\ Cardinality(known) <= MaxPositions
    BY <1>2, <2>1 DEF CountInv, stock
  <2>3. CASE stock \in known
    BY <1>4, <1>5, <2>2, <2>3
  <2>4. CASE stock \notin known
    <3>1. Cardinality(known') = Cardinality(known) + 1
      BY <1>1, <1>4, <2>4, KnownCount, FS_AddElement
    <3>2. Cardinality(known) < MaxPositions /\ Cardinality(known) \in Nat
      BY <1>1, <2>2, <2>4, KnownCount DEF RoomForStock
    <3> QED
      BY <1>4, <1>5, <2>2, <3>1, <3>2
  <2> QED
    BY <2>3, <2>4
<1>7. /\ Cardinality(known') \in Nat /\ Cardinality(Held') \in Nat
      /\ Held' \subseteq known' => Cardinality(Held') <= Cardinality(known')
  <2>1. known' \subseteq Stocks /\ Held' \subseteq Stocks /\ IsFiniteSet(Stocks)
    BY <1>1 DEF TypeOK, BookTypeOK, Held
  <2>2. IsFiniteSet(known') /\ IsFiniteSet(Held')
    BY <2>1, FS_Subset
  <2> QED
    BY <2>2, FS_CardinalityType, FS_Subset
<1>8. ASSUME "sync" \notin faults'
      PROVE  Cardinality(Held') <= MaxPositions
  BY <1>6, <1>7, <1>8
<1> QED
  BY <1>1, <1>2, <1>6, <1>8 DEF CountInv

LEMMA CountStep ==
    ASSUME CountInv, [Next]_vars
    PROVE  CountInv'
<1>1. TypeInv /\ TypeInv'
  BY NextTypes DEF CountInv
<1>2. CASE \E m \in Signals : Publish(m)
  <2>1. PICK m \in Signals : Publish(m)
    BY <1>2
  <2>2. UNCHANGED <<pc, known, db>>
    BY <2>1 DEF Publish, procVars, bookVars
  <2> QED
    BY <1>1, <2>1, <2>2, PayloadKept, CountStays
<1>3. CASE Start \/ Poll \/ (\E st \in Streams : LoseReply(st)) \/ ProcessPending
           \/ Acknowledge \/ NextDay
  <2>1. UNCHANGED <<known, db>> /\ pc' \notin {"order", "record", "book"}
    BY <1>3 DEF Start, Poll, ReadStream, LoseReply, ProcessPending, Acknowledge, NextDay,
                bookVars, procVars
  <2> QED
    BY <1>1, <2>1, CountStays
<1>4. CASE PlaceOrder \/ RecordResult \/ UNCHANGED vars
  <2>1. UNCHANGED <<known, db, cur, log>>
    BY <1>4 DEF PlaceOrder, RecordResult, vars, bookVars, streamVars, procVars
  <2>2. pc' \in {"order", "record", "book"} => pc \in {"order", "record", "book"}
    BY <1>4 DEF PlaceOrder, RecordResult, vars, procVars
  <2>3. Payload(cur)' = Payload(cur)
    BY <2>1 DEF Payload
  <2> QED
    BY <1>1, <2>1, <2>2, <2>3, CountStays
<1>5. CASE Crash
  <2>1. known' = {} /\ Held' = Held /\ pc' = "down"
    BY <1>5 DEF Crash, ForgetLocal, Held
  <2>2. "sync" \notin faults' => "sync" \notin faults
    BY FaultsGrow
  <2>3. Cardinality({}) = 0 /\ MaxPositions \in Nat
    BY FS_EmptySet
  <2> QED
    BY <1>1, <2>1, <2>2, <2>3 DEF CountInv
<1> QED
  BY <1>2, <1>3, <1>4, <1>5, CountVet, CountBook DEF Next

\* The table never counts more stocks than max_positions as long as the query
\* before each check succeeds, although the check counts the keys of the dict
\* and not the rows, and a death empties the dict.
THEOREM PositionCountHolds == Spec => []PositionCount
<1>1. Init => CountInv
  <2>1. Init => TypeInv
    BY InitTypes
  <2>2. Init => known = {} /\ Held = {} /\ pc = "down"
    BY DEF Init, BookInit, Held, NoRow
  <2>3. Cardinality({}) = 0 /\ MaxPositions \in Nat
    BY FS_EmptySet
  <2> QED
    BY <2>1, <2>2, <2>3 DEF CountInv
<1>2. CountInv /\ [Next]_vars => CountInv'
  BY CountStep
<1>3. CountInv => PositionCount
  BY DEF CountInv, PositionCount
<1> QED
  BY <1>1, <1>2, <1>3, PTL DEF Spec

-----------------------------------------------------------------------------
(* The book agrees with the broker *)

\* Shares of s the broker has taken or given and the book has not yet counted.
Unbooked(s) ==
    LET m == Payload(cur)
    IN  IF pc \in {"record", "book"} /\ accepted /\ m.stock = s
        THEN IF m.action = "buy" THEN m.qty ELSE -m.qty
        ELSE 0

\* Undisturbed, a local position is forgotten or that of the table; while a
\* signal is handled past its checks it is that of the table.
BookInv ==
    /\ TypeInv
    /\ pc \in {"order", "record", "book"} => Payload(cur).action \in {"buy", "sell"}
    /\ faults = {} =>
         /\ \A s \in Stocks : local[s].qty \in {0, db[s].qty}
         /\ \A s \in Stocks : holdings[s] \in Nat
                              /\ holdings[s] = db[s].qty + Unbooked(s)
         /\ pc \in {"order", "record", "book"} =>
              \A s \in Stocks : local[s].qty = db[s].qty
         /\ pc = "book" => accepted

\* Steps that leave the book and the holdings alone and start no handler.
LEMMA BookStays ==
    ASSUME BookInv, TypeInv', [Next]_vars, UNCHANGED <<local, db, holdings>>,
           pc' \in {"order", "record", "book"} =>
               /\ pc \in {"order", "record", "book"}
               /\ UNCHANGED accepted /\ Payload(cur)' = Payload(cur),
           pc' = "book" => pc = "book" \/ accepted,
           pc \in {"record", "book"} /\ accepted => pc' \in {"record", "book"},
           pc = "order" => pc' = "order"
    PROVE  BookInv'
<1>1. faults' = {} => faults = {}
  BY FaultsGrow
<1>2. pc' \in {"record", "book"} => pc \in {"record", "book"}
  OBVIOUS
<1>3. \A s \in Stocks : Unbooked(s)' = Unbooked(s)
  BY <1>2 DEF Unbooked
<1> QED
  BY <1>1, <1>3 DEF BookInv

\* A synchronisation that succeeds makes every local position that of the table.
LEMMA BookCheck ==
    ASSUME BookInv, TypeInv', NEW id, NEW failed \in 0..1, Checked(id, failed),
           pc' = "ack" \/ (pc' = "order" /\ Payload(id).action \in {"buy", "sell"})
    PROVE  BookInv'
<1>1. /\ pc = "handle" /\ UNCHANGED <<db, holdings>> /\ Payload(cur)' = Payload(id)
      /\ local' = SyncedLocal(failed = 0)
      /\ faults' = IF failed = 1 THEN faults \cup {"sync"} ELSE faults
  BY DEF Checked, IsNext, Begin, SyncPositions, brokerVars, streamVars, Payload
<1>2. CASE failed = 1
  BY <1>1, <1>2 DEF BookInv
<1>3. CASE failed = 0 /\ faults = {}
  <2>1. \A s \in Stocks : local'[s].qty = db'[s].qty
    <3> SUFFICES ASSUME NEW s \in Stocks PROVE local'[s].qty = db[s].qty
      BY <1>1
    <3>1. db[s].qty \in Nat
      BY DEF BookInv, TypeInv, TypeOK, BookTypeOK, Row
    <3>2. CASE s \in Held
      BY <1>1, <1>3, <3>2 DEF SyncedLocal
    <3>3. CASE s \notin Held
      <4>1. db[s].qty = 0 /\ local[s].qty = 0
        BY <1>3, <3>1, <3>3 DEF Held, BookInv
      <4>2. local'[s] = local[s]
        BY <1>1, <1>3, <3>3 DEF SyncedLocal
      <4> QED
        BY <4>1, <4>2
    <3> QED
      BY <3>2, <3>3
  <2>2. \A s \in Stocks : Unbooked(s) = 0 /\ Unbooked(s)' = 0
    BY <1>1 DEF Unbooked
  <2> QED
    BY <1>1, <1>3, <2>1, <2>2 DEF BookInv
<1> QED
  BY <1>1, <1>2, <1>3 DEF BookInv

LEMMA BookVet ==
    ASSUME BookInv, Vet
    PROVE  BookInv'
<1>1. TypeInv /\ TypeInv' /\ [Next]_vars
  BY VetTypes DEF BookInv, Next
<1>2. PICK id \in batch : Drop(id) \/ RejectEarly(id) \/ RejectAmount(id)
                          \/ RejectPosition(id) \/ Admit(id)
  BY DEF Vet
<1>3. CASE Drop(id) \/ RejectEarly(id) \/ RejectAmount(id)
  <2>1. UNCHANGED <<local, db, holdings>> /\ pc = "handle" /\ pc' = "ack"
    BY <1>3 DEF Drop, RejectEarly, RejectAmount, Reject, IsNext, Begin, brokerVars
  <2> QED
    BY <1>1, <2>1, BookStays
<1>4. CASE RejectPosition(id) \/ Admit(id)
  BY <1>1, <1>4, BookCheck DEF RejectPosition, Admit
<1> QED
  BY <1>2, <1>3, <1>4

\* What the broker takes is what is not yet booked, and it sells only what it holds.
LEMMA BookOrder ==
    ASSUME BookInv, PlaceOrder
    PROVE  BookInv'
<1> DEFINE m == Payload(cur)
<1>1. TypeInv /\ TypeInv' /\ TypeOK
  BY OrderTypes DEF BookInv, TypeInv
<1>2. pc = "order" /\ pc' = "record" /\ UNCHANGED <<cur, log, local, db>>
  BY DEF PlaceOrder, streamVars, bookVars
<1>3. Payload(cur)' = Payload(cur)
  BY <1>2 DEF Payload
<1>4. \A s \in Stocks : Unbooked(s) = 0
  BY <1>2 DEF Unbooked
<1>5. CASE accepted' = FALSE /\ UNCHANGED <<holdings, faults>>
  <2>1. \A s \in Stocks : Unbooked(s)' = 0
    BY <1>5 DEF Unbooked
  <2> QED
    BY <1>1, <1>2, <1>3, <1>4, <1>5, <2>1 DEF BookInv
<1>6. CASE /\ accepted' = TRUE /\ UNCHANGED faults /\ BrokerTakes(m)
           /\ holdings' = [holdings EXCEPT ![m.stock] =
                             IF m.action = "buy" THEN @ + m.qty ELSE @ - m.qty]
  <2>1. m.stock \in Stocks /\ m.qty \in Nat
    BY <1>1, <1>2, CurType
  <2>2. m.action = "buy" \/ (m.action = "sell" /\ m.qty <= holdings[m.stock])
    BY <1>2, <1>6 DEF BookInv, BrokerTakes
  <2>3. holdings \in [Stocks -> Int]
    BY <1>1 DEF TypeOK
  <2>4. ASSUME NEW s \in Stocks, faults = {}
        PROVE  holdings'[s] \in Nat /\ holdings'[s] = db[s].qty + Unbooked(s)'
    <3>1. holdings[s] \in Nat /\ holdings[s] = db[s].qty + 0 /\ db[s].qty \in Nat
      BY <1>1, <1>4, <2>4 DEF BookInv, BookTypeOK, TypeOK, Row
    <3>2. CASE m.stock # s
      <4>1. Unbooked(s)' = 0 /\ holdings'[s] = holdings[s]
        BY <1>3, <1>6, <2>3, <3>2 DEF Unbooked
      <4> QED
        BY <3>1, <4>1
    <3>3. CASE m.stock = s
      <4>1. Unbooked(s)' = IF m.action = "buy" THEN m.qty ELSE -m.qty
        BY <1>2, <1>3, <1>6, <3>3 DEF Unbooked
      <4>2. holdings'[s] = IF m.action = "buy" THEN holdings[s] + m.qty
                                               ELSE holdings[s] - m.qty
        BY <1>6, <2>3, <3>3
      <4> HIDE DEF m
      <4> QED
        BY <2>1, <2>2, <3>1, <3>3, <4>1, <4>2
    <3> QED
      BY <3>2, <3>3
  <2> QED
    BY <1>1, <1>2, <1>3, <1>6, <2>4 DEF BookInv
<1>7. CASE faults' = faults \cup {"misreport"}
  BY <1>1, <1>2, <1>3, <1>7 DEF BookInv
<1> QED
  BY <1>5, <1>6, <1>7 DEF PlaceOrder, brokerVars, m

\* A filled order is booked as it was taken: no sell is cut off.
LEMMA BookBooks ==
    ASSUME BookInv, RecordPosition
    PROVE  BookInv'
<1> DEFINE m == Payload(cur)
           pos == IF m.action = "buy" THEN Bought(local[m.stock], m.qty)
                                      ELSE Sold(local[m.stock], m.qty)
<1>1. TypeInv /\ TypeInv' /\ TypeOK
  BY PositionTypes DEF BookInv, TypeInv
<1>2. pc = "book" /\ pc' = "ack" /\ UNCHANGED holdings
  BY DEF RecordPosition, brokerVars
<1>3. m.stock \in Stocks /\ m.qty \in Nat
  BY <1>1, <1>2, CurType
<1>4. CASE "persist" \in faults'
  BY <1>1, <1>2, <1>4 DEF BookInv
<1>5. CASE /\ UNCHANGED faults /\ faults = {}
           /\ local' = [local EXCEPT ![m.stock] = pos]
           /\ db' = [db EXCEPT ![m.stock] =
                       [qty |-> pos.qty, avg |-> pos.avg, price |-> pos.value]]
  <2>1. ASSUME NEW s \in Stocks
        PROVE  /\ local[s].qty = db[s].qty /\ db[s].qty \in Nat
               /\ holdings[s] \in Nat
               /\ holdings[s] = db[s].qty
                    + (IF m.stock = s THEN IF m.action = "buy" THEN m.qty ELSE -m.qty
                                      ELSE 0)
    BY <1>1, <1>2, <1>5 DEF BookInv, Unbooked, TypeOK, BookTypeOK, Row
  <2>2. pos.qty = holdings[m.stock]
    <3>1. m.action = "buy" => pos.qty = local[m.stock].qty + m.qty
      BY DEF Bought
    <3>2. m.action # "buy" =>
            pos.qty = IF local[m.stock].qty > m.qty THEN local[m.stock].qty - m.qty ELSE 0
      BY DEF Sold
    <3> HIDE DEF m, pos
    <3> QED
      BY <1>3, <2>1, <3>1, <3>2
  <2> HIDE DEF m, pos
  <2>3. ASSUME NEW s \in Stocks
        PROVE  local'[s].qty = holdings[s] /\ db'[s].qty = holdings[s]
    <3>1. local \in [Stocks -> Position] /\ db \in [Stocks -> Row]
      BY <1>1 DEF TypeOK, BookTypeOK
    <3>2. CASE s = m.stock
      BY <1>5, <2>2, <3>1, <3>2
    <3>3. CASE s # m.stock
      BY <1>5, <2>1, <3>1, <3>3
    <3> QED
      BY <3>2, <3>3
  <2>4. \A s \in Stocks : Unbooked(s)' = 0
    BY <1>2 DEF Unbooked
  <2> QED
    BY <1>1, <1>2, <1>5, <2>1, <2>3, <2>4 DEF BookInv
<1>6. CASE UNCHANGED faults /\ faults # {}
  BY <1>1, <1>2, <1>6 DEF BookInv
<1> QED
  BY <1>4, <1>5, <1>6 DEF RecordPosition, UpdatePosition, m, pos

LEMMA BookStep ==
    ASSUME BookInv, [Next]_vars
    PROVE  BookInv'
<1>1. TypeInv /\ TypeInv'
  BY NextTypes DEF BookInv
<1>2. CASE \E m \in Signals : Publish(m)
  <2>1. PICK m \in Signals : Publish(m)
    BY <1>2
  <2>2. UNCHANGED <<pc, accepted, local, db, holdings>>
    BY <2>1 DEF Publish, procVars, bookVars, brokerVars
  <2> QED
    BY <1>1, <2>1, <2>2, PayloadKept, BookStays
<1>3. CASE Start \/ Poll \/ (\E st \in Streams : LoseReply(st)) \/ ProcessPending
           \/ Acknowledge \/ NextDay
  <2>1. /\ UNCHANGED <<local, db, holdings>>
        /\ pc \notin {"order", "record", "book"} /\ pc' \notin {"order", "record", "book"}
    BY <1>3 DEF Start, Poll, ReadStream, LoseReply, ProcessPending, Acknowledge, NextDay,
                bookVars, brokerVars, procVars
  <2> QED
    BY <1>1, <2>1, BookStays
<1>4. CASE RecordResult \/ UNCHANGED vars
  <2>1. UNCHANGED <<local, db, holdings, accepted, cur, log>>
    BY <1>4 DEF RecordResult, vars, bookVars, streamVars, procVars, brokerVars
  <2>2. \/ pc' = pc
        \/ pc = "record" /\ pc' = IF accepted THEN "book" ELSE "ack"
    BY <1>4 DEF RecordResult, vars, procVars
  <2>3. Payload(cur)' = Payload(cur)
    BY <2>1 DEF Payload
  <2> QED
    BY <1>1, <2>1, <2>2, <2>3, BookStays
<1>5. CASE Crash
  <2>1. /\ UNCHANGED <<db, holdings>> /\ pc' = "down"
        /\ \A s \in Stocks : local'[s].qty = 0
        /\ faults' = {} => faults = {} /\ ~(pc \in {"record", "book"} /\ accepted)
    BY <1>5 DEF Crash, ForgetLocal, NoPosition
  <2>2. faults' = {} => \A s \in Stocks : Unbooked(s) = 0
    BY <2>1 DEF Unbooked
  <2>3. \A s \in Stocks : Unbooked(s)' = 0
    BY <2>1 DEF Unbooked
  <2> QED
    BY <1>1, <2>1, <2>2, <2>3 DEF BookInv
<1> QED
  BY <1>2, <1>3, <1>4, <1>5, BookVet, BookOrder, BookBooks DEF Next

\* Between two signals the table holds what the broker holds, through any number
\* of deaths of the process: a start forgets the positions, and the check reads
\* them back before the next order is booked on them.
THEOREM BookMatchesHolds == Spec => []BookMatchesBroker
<1>1. Init => BookInv
  <2>1. Init => TypeInv
    BY InitTypes
  <2> QED
    BY <2>1 DEF Init, BookInit, NoRow, NoPosition, BookInv, Unbooked
<1>2. BookInv /\ [Next]_vars => BookInv'
  BY BookStep
<1>3. BookInv => BookMatchesBroker
  <2> SUFFICES ASSUME BookInv, faults = {}, pc \notin {"record", "book"}, NEW s \in Stocks
               PROVE  db[s].qty = holdings[s]
    BY DEF BookMatchesBroker
  <2>1. Unbooked(s) = 0
    BY DEF Unbooked
  <2>2. db[s].qty \in Nat
    BY DEF BookInv, TypeInv, TypeOK, BookTypeOK, Row
  <2> QED
    BY <2>1, <2>2 DEF BookInv
<1> QED
  BY <1>1, <1>2, <1>3, PTL DEF Spec

-----------------------------------------------------------------------------
(* TradeExecutor implements OrderedExecution: whatever dies, fails or is       *)
(* appended, a signal becomes an order at most once and in its turn.           *)

LEMMA PairIn ==
    ASSUME NEW x, NEW a, NEW S
    PROVE  x \in {a} \X S <=> \E i \in S : x = <<a, i>>
OBVIOUS

LEMMA LiveMember ==
    ASSUME NEW x
    PROVE  x \in Live <=> \/ \E st \in Streams : \E i \in Unread(st) : x = <<st, i>>
                          \/ x \in batch
                          \/ pc = "order" /\ x = cur
<1>1. x \in UNION {{st} \X Unread(st) : st \in Streams}
      <=> \E st \in Streams : x \in {st} \X Unread(st)
  OBVIOUS
<1>2. \A st \in Streams : x \in {st} \X Unread(st)
                          <=> \E i \in Unread(st) : x = <<st, i>>
  BY PairIn
<1>3. x \in (IF pc = "order" THEN {cur} ELSE {}) <=> pc = "order" /\ x = cur
  OBVIOUS
<1> QED
  BY <1>1, <1>2, <1>3 DEF Live

LEMMA LiveMemberNext ==
    ASSUME NEW x
    PROVE  x \in Live' <=> \/ \E st \in Streams : \E i \in Unread(st)' : x = <<st, i>>
                           \/ x \in batch'
                           \/ pc' = "order" /\ x = cur'
<1>1. x \in UNION {{st} \X Unread(st)' : st \in Streams}
      <=> \E st \in Streams : x \in {st} \X Unread(st)'
  OBVIOUS
<1>2. \A st \in Streams : x \in {st} \X Unread(st)'
                          <=> \E i \in Unread(st)' : x = <<st, i>>
  BY PairIn
<1>3. x \in (IF pc' = "order" THEN {cur'} ELSE {}) <=> pc' = "order" /\ x = cur'
  OBVIOUS
<1> QED
  BY <1>1, <1>2, <1>3 DEF Live

\* Steps that publish nothing and order nothing only give signals up: nothing
\* new is unread, and what enters the batch or a handler was live before.
LEMMA GivesUp ==
    ASSUME UNCHANGED <<log, orders>>,
           \A st \in Streams : \A i \in Unread(st)' : i \in Unread(st),
           \A b \in batch' : b \in Live,
           pc' = "order" => cur' \in Live
    PROVE  Abstract!Next
<1>1. Live' \in SUBSET Live
  <2> SUFFICES ASSUME NEW x \in Live' PROVE x \in Live
    OBVIOUS
  <2>1. \/ \E st \in Streams : \E i \in Unread(st)' : x = <<st, i>>
        \/ x \in batch'
        \/ pc' = "order" /\ x = cur'
    BY LiveMemberNext
  <2> QED
    BY <2>1, LiveMember
<1>2. [st \in Streams |-> Len(log[st])]' = [st \in Streams |-> Len(log[st])]
  OBVIOUS
<1> QED
  BY <1>1, <1>2 DEF Abstract!Next, Abstract!GiveUp

\* A cursor that does not go back leaves nothing unread that was read.
LEMMA UnreadShrinks ==
    ASSUME TypeInv, TypeInv', UNCHANGED log,
           \A st \in Streams : cursor[st] <= cursor'[st]
    PROVE  \A st \in Streams : \A i \in Unread(st)' : i \in Unread(st)
<1> SUFFICES ASSUME NEW st \in Streams, NEW i \in Unread(st)' PROVE i \in Unread(st)
  OBVIOUS
<1>1. cursor \in [Streams -> Nat \cup {NoGroup}]
      /\ cursor' \in [Streams -> Nat \cup {NoGroup}]
  BY DEF TypeInv, TypeOK, StreamTypeOK
<1>2. cursor[st] \in Int /\ cursor'[st] \in Int
  BY <1>1 DEF NoGroup
<1>3. i \in 1..Len(log[st]) /\ i > cursor'[st]
  BY DEF Unread
<1> QED
  BY <1>2, <1>3 DEF Unread

LEMMA PublishRefines ==
    ASSUME TypeInv, NEW m \in Signals, Publish(m)
    PROVE  Abstract!Next
<1> DEFINE st == StreamOf(m)
           n == Len(log[st])
<1>1. st \in Streams /\ log' = [log EXCEPT ![st] = Append(@, m)]
      /\ UNCHANGED <<cursor, batch, pc, cur, orders>>
  BY DEF Publish, XAdd, StreamOf, Streams, procVars, brokerVars
<1>2. log \in [Streams -> Seq(Signals)]
  BY DEF TypeInv, TypeOK, StreamTypeOK
<1>3. n \in Nat /\ Len(log'[st]) = n + 1
      /\ \A s \in Streams : s # st => log'[s] = log[s]
  BY <1>1, <1>2
<1>4. cursor[st] \in Int /\ cursor[st] <= n
  BY <1>1, CursorType DEF TypeInv, PlacesOK
<1>5. Unread(st)' = Unread(st) \cup {n + 1}
  BY <1>1, <1>3, <1>4 DEF Unread
<1>6. \A s \in Streams : s # st => Unread(s)' = Unread(s)
  BY <1>1, <1>3 DEF Unread
<1>7. Live' = Live \cup {<<st, n + 1>>}
  <2>1. ASSUME NEW x
        PROVE  x \in Live' <=> x \in Live \/ x = <<st, n + 1>>
    <3>1. x \in Live' <=> \/ \E s \in Streams : \E i \in Unread(s)' : x = <<s, i>>
                          \/ x \in batch'
                          \/ pc' = "order" /\ x = cur'
      BY LiveMemberNext
    <3>2. (\E s \in Streams : \E i \in Unread(s)' : x = <<s, i>>)
          <=> \/ \E s \in Streams : \E i \in Unread(s) : x = <<s, i>>
              \/ x = <<st, n + 1>>
      BY <1>1, <1>5, <1>6
    <3> QED
      BY <1>1, <3>1, <3>2, LiveMember
  <2> QED
    BY <2>1
<1>8. [s \in Streams |-> Len(log[s])]'
      = [[s \in Streams |-> Len(log[s])] EXCEPT ![st] = @ + 1]
  <2>1. \A s \in Streams : Len(log'[s]) = IF s = st THEN n + 1 ELSE Len(log[s])
    BY <1>3
  <2> QED
    BY <1>1, <2>1
<1>9. Abstract!Publish(st)
  BY <1>1, <1>7, <1>8 DEF Abstract!Publish
<1> QED
  BY <1>1, <1>9 DEF Abstract!Next

\* Everything live in the stream of the running id comes after it.
LEMMA OrderRefines ==
    ASSUME TypeInv, PlaceOrder, orders' # orders
    PROVE  Abstract!Next
<1>1. /\ pc = "order" /\ pc' = "record" /\ UNCHANGED <<log, cursor, batch, cur>>
      /\ orders' = Append(orders, cur)
  BY DEF PlaceOrder, streamVars, brokerVars
<1>2. cur \in EntryIds /\ cur[2] <= cursor[cur[1]]
      /\ \A b \in batch : b[1] = cur[1] => cur[2] < b[2]
  BY <1>1 DEF TypeInv, PlacesOK, Handling
<1>3. cur[1] \in Streams /\ cur[2] \in Nat /\ cur = <<cur[1], cur[2]>>
  BY <1>2, EntryIdType
<1>4. cursor[cur[1]] \in Int
  BY <1>3, CursorType DEF TypeInv
<1>5. cur \in Live
  BY <1>1, LiveMember
<1>6. Live' = {x \in Live : x[1] = cur[1] => x[2] > cur[2]}
  <2>1. ASSUME NEW x
        PROVE  x \in Live' <=> x \in Live /\ (x[1] = cur[1] => x[2] > cur[2])
    <3>1. x \in Live' <=> \/ \E st \in Streams : \E i \in Unread(st) : x = <<st, i>>
                          \/ x \in batch
      BY <1>1, LiveMemberNext DEF Unread
    <3>2. ASSUME NEW st \in Streams, NEW i \in Unread(st), x = <<st, i>>, x[1] = cur[1]
          PROVE  x[2] > cur[2]
      <4>1. i \in Int /\ i > cursor[cur[1]]
        BY <3>2 DEF Unread
      <4> QED
        BY <1>2, <1>3, <1>4, <3>2, <4>1
    <3>3. ASSUME x \in batch, x[1] = cur[1]
          PROVE  x[2] > cur[2]
      <4>1. x[2] \in Nat
        BY <3>3, EntryIdType DEF TypeInv, TypeOK
      <4> QED
        BY <1>2, <1>3, <3>3, <4>1
    <3>4. ~(cur[2] > cur[2])
      BY <1>3
    <3> QED
      BY <3>1, <3>2, <3>3, <3>4, LiveMember
  <2> QED
    BY <2>1
<1>7. Abstract!Execute(cur)
  BY <1>1, <1>6 DEF Abstract!Execute
<1> QED
  BY <1>5, <1>7 DEF Abstract!Next

\* A signal under vetting leaves the batch for good.
LEMMA VetRefines ==
    ASSUME TypeInv, Vet
    PROVE  Abstract!Next
<1>1. PICK id \in batch : Drop(id) \/ RejectEarly(id) \/ RejectAmount(id)
                          \/ RejectPosition(id) \/ Admit(id)
  BY DEF Vet
<1>2. Begin(id)
  BY <1>1 DEF Drop, RejectEarly, RejectAmount, Reject, RejectPosition, Admit, Checked
<1>3. cur' = id /\ batch' = batch \ {id} /\ UNCHANGED <<log, cursor, orders>>
  BY <1>2 DEF Begin, streamVars, brokerVars
<1>4. \A st \in Streams : \A i \in Unread(st)' : i \in Unread(st)
  BY <1>3 DEF Unread
<1> QED
  BY <1>3, <1>4, LiveMember, GivesUp

LEMMA ReadRefines ==
    ASSUME TypeInv, NEW st \in Streams, ReadStream(st) \/ LoseReply(st)
    PROVE  Abstract!Next
<1>1. TypeInv' /\ UNCHANGED orders /\ pc = "read" /\ pc' # "order"
  BY ReadTypes, LoseReplyTypes DEF ReadStream, LoseReply, brokerVars
<1>2. CASE UNCHANGED <<log, cursor, batch>>
  <2>1. \A s \in Streams : \A i \in Unread(s)' : i \in Unread(s)
    BY <1>2 DEF Unread
  <2> QED
    BY <1>1, <1>2, <2>1, LiveMember, GivesUp
<1>3. CASE XReadGroup(st)
  <2>1. UNCHANGED log /\ \A s \in Streams : cursor[s] <= cursor'[s]
    BY <1>3, ReadGroup
  <2>2. \A s \in Streams : \A i \in Unread(s)' : i \in Unread(s)
    BY <1>1, <2>1, UnreadShrinks
  <2>3. \A i \in Undelivered(st) : i \in Unread(st)
    BY DEF Undelivered, Retained, Unread
  <2>4. batch' = batch \/ batch' = {st} \X Undelivered(st)
    BY DEF ReadStream, LoseReply
  <2>5. \A b \in batch' : b \in Live
    BY <2>3, <2>4, PairIn, LiveMember
  <2> QED
    BY <1>1, <2>1, <2>2, <2>5, GivesUp
<1>4. UNCHANGED <<log, cursor, batch>> \/ XReadGroup(st)
  BY DEF ReadStream, LoseReply, streamVars
<1> QED
  BY <1>2, <1>3, <1>4

LEMMA StartRefines ==
    ASSUME TypeInv, Start
    PROVE  Abstract!Next
<1>1. TypeInv' /\ UNCHANGED <<log, orders, batch>> /\ pc' \in {"read", "deaf"}
  BY StartTypes DEF Start, CreateGroups, brokerVars, streamVars
<1>2. (\E made \in SUBSET Streams : CreateGroups(made)) \/ UNCHANGED cursor
  BY DEF Start, streamVars
<1>3. ASSUME NEW st \in Streams
      PROVE  cursor[st] <= cursor'[st]
  <2>1. cursor'[st] = cursor[st] \/ cursor'[st] = Len(log[st])
    BY <1>2 DEF CreateGroups
  <2>2. cursor[st] \in Int /\ Len(log[st]) \in Nat /\ cursor[st] <= Len(log[st])
    BY CursorType DEF TypeInv, PlacesOK
  <2> QED
    BY <2>1, <2>2
<1> QED
  BY <1>1, <1>3, UnreadShrinks, LiveMember, GivesUp

LEMMA QuietRefines ==
    ASSUME TypeInv,
           Crash \/ ProcessPending \/ RecordResult \/ RecordPosition \/ Acknowledge
           \/ NextDay
    PROVE  Abstract!Next
<1>1. UNCHANGED <<log, cursor, orders>>
  BY DEF Crash, ProcessPending, RecordResult, RecordPosition, Acknowledge, XAck,
         NextDay, streamVars, brokerVars
<1>2. (batch' = {} \/ UNCHANGED batch) /\ pc' # "order"
  BY PendingTypes DEF Crash, ProcessPending, RecordResult, RecordPosition, Acknowledge,
                      NextDay, procVars
<1>3. \A st \in Streams : \A i \in Unread(st)' : i \in Unread(st)
  BY <1>1 DEF Unread
<1> QED
  BY <1>1, <1>2, <1>3, LiveMember, GivesUp

LEMMA StepRefines ==
    ASSUME TypeInv, [Next]_vars
    PROVE  [Abstract!Next]_(Abstract!vars)
<1>1. CASE UNCHANGED vars
  BY <1>1 DEF vars, Abstract!vars, Live, Unread, streamVars, procVars, brokerVars
<1>2. CASE PlaceOrder
  <2>1. CASE orders' # orders
    BY <1>2, <2>1, OrderRefines
  <2>2. CASE UNCHANGED orders
    <3>1. UNCHANGED <<log, cursor, batch>> /\ pc' = "record"
      BY <1>2 DEF PlaceOrder, streamVars
    <3>2. \A st \in Streams : \A i \in Unread(st)' : i \in Unread(st)
      BY <3>1 DEF Unread
    <3> QED
      BY <2>2, <3>1, <3>2, LiveMember, GivesUp
  <2> QED
    BY <2>1, <2>2
<1>3. CASE \E m \in Signals : Publish(m)
  BY <1>3, PublishRefines
<1>4. CASE Poll \/ \E st \in Streams : LoseReply(st)
  BY <1>4, ReadRefines DEF Poll
<1> QED
  BY <1>1, <1>2, <1>3, <1>4, VetRefines, StartRefines, QuietRefines DEF Next

\* The executor implements at-most-once, in-order execution, through the deaths
\* of the process, failed calls, trimming and re-reads of the pending list.
THEOREM ImplementsOrderedExecution == Spec => ExecutesInOrder
<1>1. Init => Abstract!Init
  <2> SUFFICES ASSUME Init PROVE Abstract!Init
    OBVIOUS
  <2>1. log = [st \in Streams |-> <<>>] /\ batch = {} /\ pc = "down" /\ orders = <<>>
    BY DEF Init, StreamInit
  <2>2. \A st \in Streams : Len(log[st]) = 0 /\ Unread(st) = {}
    BY <2>1 DEF Unread
  <2>3. Live = {}
    BY <2>1, <2>2, LiveMember
  <2> QED
    BY <2>1, <2>2, <2>3 DEF Abstract!Init
<1>2. Init => TypeInv
  BY InitTypes
<1>3. TypeInv /\ [Next]_vars => TypeInv'
  BY NextTypes
<1>4. TypeInv /\ [Next]_vars => [Abstract!Next]_(Abstract!vars)
  BY StepRefines
<1> QED
  BY <1>1, <1>2, <1>3, <1>4, PTL DEF Spec, ExecutesInOrder, Abstract!Spec
=============================================================================
