---------------------------- MODULE PositionBook ----------------------------
(* risk_management/position_checker.py: the executor's in-memory positions   *)
(* and the PostgreSQL table "positions" they are synchronised with.          *)
EXTENDS Integers, FiniteSets, FiniteSetsExt

CONSTANTS Stocks, MaxPositions   \* max_positions = 20 in the code

ASSUME PositionAssumption == IsFiniteSet(Stocks) /\ MaxPositions \in Nat

VARIABLES known,  \* keys of the dict self._positions
          local,  \* its values; NoPosition for a stock that is not a key
          db      \* rows of the table; NoRow (quantity 0) when there is none

bookVars == <<known, local, db>>

Position == [qty : Nat, avg : Nat, value : Nat]
Row == [qty : Nat, avg : Nat, price : Nat]
NoPosition == [qty |-> 0, avg |-> 0, value |-> 0]
NoRow == [qty |-> 0, avg |-> 0, price |-> 0]

BookTypeOK ==
    /\ known \in SUBSET Stocks
    /\ local \in [Stocks -> Position]
    /\ db \in [Stocks -> Row]

ForgetLocal ==
    /\ known' = {}
    /\ local' = [s \in Stocks |-> NoPosition]

BookInit ==
    /\ known = {}
    /\ local = [s \in Stocks |-> NoPosition]
    /\ db = [s \in Stocks |-> NoRow]

-----------------------------------------------------------------------------
Held == {s \in Stocks : db[s].qty > 0}

\* _sync_positions: rows with quantity > 0 overwrite the local entry and no
\* local entry is ever removed; a failing query (ok = FALSE) changes nothing.
SyncedKnown(ok) == IF ok THEN known \cup Held ELSE known
SyncedLocalNever(ok) == local   \* mutant: the rows are read and not used
SyncedLocal(ok) ==
    [s \in Stocks |->
       IF ok /\ s \in Held
       THEN [qty |-> db[s].qty, avg |-> db[s].avg,
             value |-> db[s].qty * db[s].price]
       ELSE local[s]]

SyncPositions(ok) ==
    /\ known' = SyncedKnown(ok)
    /\ local' = SyncedLocal(ok)

\* The two limits of check_position_limit, over the synchronised positions.
PortfolioValue(book) ==
    MapThenSumSet(LAMBDA s : book[s].value, {s \in Stocks : book[s].qty > 0})

\* Mutant: the limit is compared with <=, which lets one stock too many in.
RoomForOneMore(keys, s) == s \in keys \/ Cardinality(keys) <= MaxPositions
RoomForStock(keys, s) == s \in keys \/ Cardinality(keys) < MaxPositions

Concentrated(book, s, q, price) ==
    LET total == PortfolioValue(book)
    IN  total > 0 /\ 5 * (book[s].value + q * price) > total

WithinPositionLimit(ok, s, q, price) ==
    /\ RoomForStock(SyncedKnown(ok), s)
    /\ ~Concentrated(SyncedLocal(ok), s, q, price)

\* update_position as main.py calls it, with no price: a buy adds nothing to
\* the cost, a sell is cut off at zero, and the value is quantity * average.
\* The average is a float in the code; the integer quotient agrees with it on
\* every reachable state, where the cost of a position is 0: the table starts
\* empty and main.py:154 never passes a price.
Bought(p, q) ==
    LET total == p.qty + q
        avg == IF total > 0 THEN (p.avg * p.qty) \div total ELSE 0
    IN  [qty |-> total, avg |-> avg, value |-> total * avg]

\* Mutant: a sell of more shares than the position counts is not cut off.
SoldUncut(p, q) ==
    LET left == p.qty - q
    IN  [qty |-> left, avg |-> p.avg, value |-> left * p.avg]

Sold(p, q) ==
    LET left == IF p.qty > q THEN p.qty - q ELSE 0
        avg == IF left = 0 THEN 0 ELSE p.avg
    IN  [qty |-> left, avg |-> avg, value |-> left * avg]

\* The upsert writes the position's value into the column current_price.
\* It may fail, which is logged and leaves the table as it was.
UpdatePosition(s, action, q, persisted) ==
    LET pos == IF action = "buy" THEN Bought(local[s], q) ELSE Sold(local[s], q)
    IN  /\ known' = known \cup {s}
        /\ local' = [local EXCEPT ![s] = pos]
        /\ db' = IF persisted
                 THEN [db EXCEPT ![s] =
                         [qty |-> pos.qty, avg |-> pos.avg, price |-> pos.value]]
                 ELSE db
=============================================================================
