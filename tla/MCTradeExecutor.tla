--------------------------- MODULE MCTradeExecutor ---------------------------
(* TradeExecutor on a small instance: two stocks, room for one position, a     *)
(* limit two of the orders exceed together, and streams trimmed to two.        *)
EXTENDS TradeExecutor

CONSTANTS a, b

Signal(source, action, stock, qty, price) ==
    [source |-> source, action |-> action, stock |-> stock,
     qty |-> qty, price |-> price]

\* A limit buy, a market buy (priced at the reference price), a sell, a signal
\* of the strategy agents, and one whose quantity is above the order limit.
MCSignals == {Signal("manual", "buy", a, 2, 1), Signal("manual", "buy", b, 1, 0),
              Signal("manual", "sell", a, 1, 1), Signal("manual", "hold", a, 1, 1),
              Signal("strategy", "buy", a, 1, 1), Signal("manual", "buy", a, 9, 1)}

\* One buy is enough to lose a signal, one strategy signal to drop one, and two
\* equal buys to concentrate.
OneBuy == {Signal("manual", "buy", a, 2, 1)}
OneStrategySignal == {Signal("strategy", "buy", a, 2, 1)}
=============================================================================
