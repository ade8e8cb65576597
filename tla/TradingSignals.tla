--------------------------- MODULE TradingSignals ---------------------------
(***************************************************************************)
(* The callbacks of TradingEngine (src/trading_engine/trading_engine.cpp)  *)
(* and what they call, in order: PositionKeeper, FeatureEngine and the     *)
(* algorithm, which asks OrderManager for prices.  One FeatureEngine, with *)
(* one price and one ratio, serves all instruments.                        *)
(*                                                                         *)
(* The best bid and offer of an instrument is any that TradingOrderBook    *)
(* may show, stale and crossed ones included, which it does show once a    *)
(* recovery has cleared the book under it.  Fills come from the exchange   *)
(* at any price.  What becomes of the prices is TradingOrders.             *)
(***************************************************************************)
EXTENDS PositionKeeper

CONSTANTS
    Tickers, Algos,
    Bbos,              \* best bids and offers of an instrument
    FillPrices, Qtys,  \* of fills and trades
    Threshold,         \* TradeEngineCfg
    Garbage,           \* what open_vwap_ may start with
    MaxFills, MaxBookUpdates    \* bounds

ASSUME SignalsAssumption ==
    /\ Algos \subseteq {"MAKER", "TAKER"}
    /\ Bbos \subseteq [Sides -> [price : Nat, qty : Nat]]
    /\ \A b \in Bbos : \A s \in Sides : b[s].price # INVALID => b[s].qty > 0
    /\ FillPrices \subseteq Nat \ {0} /\ Qtys \subseteq Nat \ {0}
    /\ Threshold \in Nat
    /\ Garbage \subseteq [Sides -> Int]
    /\ MaxFills \in Nat /\ MaxBookUpdates \in Nat

VARIABLES
    algo,              \* which algorithm is installed
    bbo_,              \* of the books, by ticker
    ticker_position_,
    mkt_price_, agg_trade_qty_ratio_,
    asked,             \* the last callback's call of MoveOrders, if any, with
                       \* the feature and the traded quantity it was based on
    garbage,           \* history: what open_vwap_ started with
    cash, mark,        \* history: money paid and received, and last price an
                       \* instrument was valued at
    opened,            \* history: side of an instrument's first fill
    fills, book_updates

historyVars == <<garbage, cash, mark, opened>>
vars == <<algo, bbo_, ticker_position_, mkt_price_, agg_trade_qty_ratio_, asked,
          garbage, cash, mark, opened, fills, book_updates>>

Unset == [price |-> INVALID, qty |-> INVALID]
Nothing == [ticker |-> INVALID]

\* A quotient of doubles; FEATURE_INVALID is not a number.
Quotient(n, d) == [num |-> n, den |-> d]
FEATURE_INVALID == Quotient(0, 0)
IsNumber(x) == x.den # 0

\* x >= n, which is false when x is not a number.
AtLeast(x, n) == IsNumber(x) /\ x.num >= n * x.den
AtMost(x, n) == IsNumber(x) /\ x.num <= n * x.den

Init ==
    /\ algo \in Algos
    /\ bbo_ = [t \in Tickers |-> [s \in Sides |-> Unset]]
    /\ garbage \in Garbage
    /\ ticker_position_ = [t \in Tickers |-> NewPosition(garbage)]
    /\ mkt_price_ = FEATURE_INVALID /\ agg_trade_qty_ratio_ = FEATURE_INVALID
    /\ asked = Nothing
    /\ cash = [t \in Tickers |-> 0] /\ mark = [t \in Tickers |-> 0]
    /\ opened = [t \in Tickers |-> "INVALID"]
    /\ fills = 0 /\ book_updates = 0

-----------------------------------------------------------------------------
(* The feature engine and the algorithms.  Both test a feature with        *)
(* "!= FEATURE_INVALID", which is true of every value, not-a-number too.   *)

\* Mutant: one valid side is enough.
OneSided(b) == \E s \in Sides : b[s].price # INVALID

TwoSided(b) == \A s \in Sides : b[s].price # INVALID

\* FeatureEngine::OnOrderBookUpdate: each price weighted with the quantity on
\* the other side.
MktPrice(b) ==
    IF TwoSided(b)
    THEN Quotient(b["BUY"].price * b["SELL"].qty + b["SELL"].price * b["BUY"].qty,
                  b["BUY"].qty + b["SELL"].qty)
    ELSE mkt_price_

\* FeatureEngine::OnTradeUpdate: how much of the other side the trade took.
AggTradeQtyRatio(b, s, qty) ==
    IF TwoSided(b) THEN Quotient(qty, b[Opposite(s)].qty) ELSE agg_trade_qty_ratio_

\* MarketMaker::OnOrderBookUpdate: at the best prices, or one tick behind a
\* price that is too close to the fair one.
MakerAsks(t, b, fair) ==
    IF algo = "MAKER" /\ TwoSided(b)
    THEN [ticker |-> t, feature |-> fair, traded |-> 0,
          bid |-> b["BUY"].price -
                    IF AtLeast(fair, b["BUY"].price + Threshold) THEN 0 ELSE 1,
          ask |-> b["SELL"].price +
                    IF AtMost(fair, b["SELL"].price - Threshold) THEN 0 ELSE 1]
    ELSE Nothing

\* LiquidityTaker::OnTradeUpdate: follows a large trade across the spread.
TakerAsks(t, b, s, qty, ratio) ==
    IF algo = "TAKER" /\ TwoSided(b) /\ AtLeast(ratio, Threshold)
    THEN [ticker |-> t, feature |-> ratio, traded |-> qty,
          bid |-> IF s = "BUY" THEN b["SELL"].price ELSE INVALID,
          ask |-> IF s = "BUY" THEN INVALID ELSE b["BUY"].price]
    ELSE Nothing

-----------------------------------------------------------------------------
(* The callbacks of the trading engine.                                    *)

\* Mutant: the algorithm is called before the features are brought up to date.
OnOrderBookUpdateAlgoFirst(t, b) ==
    /\ book_updates < MaxBookUpdates /\ book_updates' = book_updates + 1
    /\ bbo_' = [bbo_ EXCEPT ![t] = b]
    /\ ticker_position_' = [ticker_position_ EXCEPT ![t] = UpdateBbo(@, b)]
    /\ mark' = IF Marks(ticker_position_[t], b)
               THEN [mark EXCEPT ![t] = MidPrice(b)] ELSE mark
    /\ mkt_price_' = MktPrice(b)
    /\ asked' = MakerAsks(t, b, mkt_price_)
    /\ UNCHANGED <<algo, agg_trade_qty_ratio_, garbage, cash, opened, fills>>

OnOrderBookUpdate(t, b) ==
    /\ book_updates < MaxBookUpdates /\ book_updates' = book_updates + 1
    /\ bbo_' = [bbo_ EXCEPT ![t] = b]
    /\ ticker_position_' = [ticker_position_ EXCEPT ![t] = UpdateBbo(@, b)]
    /\ mark' = IF Marks(ticker_position_[t], b)
               THEN [mark EXCEPT ![t] = MidPrice(b)] ELSE mark
    /\ mkt_price_' = MktPrice(b)
    /\ asked' = MakerAsks(t, b, MktPrice(b))
    /\ UNCHANGED <<algo, agg_trade_qty_ratio_, garbage, cash, opened, fills>>

OnTradeUpdate(t, s, qty) ==
    LET ratio == AggTradeQtyRatio(bbo_[t], s, qty)
    IN  /\ agg_trade_qty_ratio_' = ratio
        /\ asked' = TakerAsks(t, bbo_[t], s, qty, ratio)
        /\ UNCHANGED <<algo, bbo_, ticker_position_, mkt_price_, historyVars,
                       fills, book_updates>>

\* OnOrderUpdate for a FILLED response; others leave all of this alone.
OnOrderUpdate(t, s, price, qty) ==
    /\ fills < MaxFills /\ fills' = fills + 1
    /\ ticker_position_' = [ticker_position_ EXCEPT ![t] =
                               AddFill(@, s, price * Scale, qty)]
    /\ cash' = [cash EXCEPT ![t] = @ - SideToValue(s) * price * qty * Scale]
    /\ mark' = [mark EXCEPT ![t] = price * Scale]
    /\ opened' = [opened EXCEPT ![t] = IF @ = "INVALID" THEN s ELSE @]
    /\ asked' = Nothing
    /\ UNCHANGED <<algo, bbo_, mkt_price_, agg_trade_qty_ratio_, garbage, book_updates>>

Next ==
    \E t \in Tickers :
        \/ \E b \in Bbos : OnOrderBookUpdate(t, b)
        \/ \E s \in Sides, qty \in Qtys : OnTradeUpdate(t, s, qty)
        \/ \E s \in Sides, price \in FillPrices, qty \in Qtys :
              OnOrderUpdate(t, s, price, qty)

Spec == Init /\ [][Next]_vars

TypeOK ==
    /\ algo \in Algos /\ garbage \in Garbage
    /\ bbo_ \in [Tickers -> Bbos \cup {[s \in Sides |-> Unset]}]
    /\ ticker_position_ \in [Tickers -> PositionInfo]
    /\ mkt_price_ \in [num : Nat, den : Nat]
    /\ agg_trade_qty_ratio_ \in [num : Nat, den : Nat]
    /\ asked \in [ticker : Tickers, feature : [num : Nat, den : Nat], traded : Nat,
                  bid : Nat, ask : Nat] \cup {Nothing}
    /\ fills \in 0 .. MaxFills /\ book_updates \in 0 .. MaxBookUpdates

-----------------------------------------------------------------------------
(* Properties.                                                             *)

(* The total of an instrument is what a liquidation at the price it was    *)
(* last valued at would leave: money received less money paid, plus the    *)
(* position at that price, through opening, adding, reducing, turning      *)
(* round and being flat.  What open_vwap_ started with on the side of the  *)
(* first fill stays in it for good (position_keeper.hpp:20, 36-69).        *)
PnlIsCashAndMark ==
    \A t \in Tickers :
        LET info  == ticker_position_[t]
            error == IF opened[t] = "INVALID" THEN 0
                     ELSE SideToValue(opened[t]) * garbage[opened[t]]
        IN  info.total_pnl_ = cash[t] + info.position_ * mark[t] - error

(* The algorithm never asks for prices on a feature of another instrument, *)
(* of an earlier book, or that was never computed, though there is one     *)
(* feature for all, and the test for an invalid one never fires            *)
(* (market_maker.hpp:41, liquidity_taker.hpp:47).  Both sides of the       *)
(* instrument's best bid and offer are set; the fair price is the one they *)
(* give now, the ratio that of the trade just seen to the side it took.    *)
AsksOnOwnFeature ==
    asked # Nothing =>
        LET bid   == bbo_[asked.ticker]["BUY"]
            ask   == bbo_[asked.ticker]["SELL"]
            taken == IF asked.ask = INVALID THEN ask ELSE bid
        IN  /\ bid.price # INVALID /\ ask.price # INVALID
            /\ asked.feature =
                   IF algo = "MAKER"
                   THEN Quotient(bid.price * ask.qty + ask.price * bid.qty, bid.qty + ask.qty)
                   ELSE Quotient(asked.traded, taken.qty)
=============================================================================
