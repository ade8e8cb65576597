--------------------------- MODULE PositionKeeper ---------------------------
(***************************************************************************)
(* PositionInfo (src/include/trading_engine/position_keeper.hpp): position *)
(* and profit and loss of an instrument.  The code computes in double;     *)
(* here amounts of money are exact, in units of 1/Scale of a price tick.   *)
(***************************************************************************)
EXTENDS Integers, MarketUpdates

CONSTANT Scale

\* Divisible by two, for the price half-way between bid and offer.
ASSUME ScaleAssumption == Scale \in Nat \ {0} /\ Scale % 2 = 0

SideToValue(s) == IF s = "BUY" THEN 1 ELSE -1
Abs(n) == IF n < 0 THEN -n ELSE n

PositionInfo == [position_ : Int, real_pnl_ : Int, unreal_pnl_ : Int,
                 total_pnl_ : Int, open_vwap_ : [Sides -> Int], volume_ : Nat]

\* open_vwap_ has no initializer: it starts as whatever the memory held.
NewPosition(garbage) ==
    [position_ |-> 0, real_pnl_ |-> 0, unreal_pnl_ |-> 0, total_pnl_ |-> 0,
     open_vwap_ |-> garbage, volume_ |-> 0]

\* What the open position has gained at a price (in money).
Unrealized(position, open_vwap, price) ==
    CASE position = 0 -> 0
      [] position > 0 -> price * position - open_vwap["BUY"]
      [] position < 0 -> open_vwap["SELL"] - price * Abs(position)

\* Mutant: a position that is turned round keeps the price of the old one.
OpenVwapUnturned(info, s, price, qty) ==
    LET old == info.position_
        new == old + qty * SideToValue(s)
        opp == Opposite(s)
    IN  IF new = 0 THEN [r \in Sides |-> 0]
        ELSE IF old * SideToValue(s) >= 0
        THEN [info.open_vwap_ EXCEPT ![s] = @ + price * qty]
        ELSE [info.open_vwap_ EXCEPT ![opp] = (@ \div Abs(old)) * Abs(new)]

\* open_vwap_ after a fill: price times quantity of what is open, by side.
OpenVwap(info, s, price, qty) ==
    LET old == info.position_
        new == old + qty * SideToValue(s)
        opp == Opposite(s)
    IN  IF new = 0 THEN [r \in Sides |-> 0]
        ELSE IF old * SideToValue(s) >= 0
        THEN [info.open_vwap_ EXCEPT ![s] = @ + price * qty]
        ELSE IF new * old < 0
        THEN [info.open_vwap_ EXCEPT ![s] = price * Abs(new), ![opp] = 0]
        ELSE [info.open_vwap_ EXCEPT ![opp] = (@ \div Abs(old)) * Abs(new)]

\* What a fill against the position realizes.
Realized(info, s, price, qty) ==
    LET old == info.position_
        vwap == info.open_vwap_[Opposite(s)] \div Abs(old)
        closed == IF qty < Abs(old) THEN qty ELSE Abs(old)
    IN  IF old * SideToValue(s) >= 0 THEN 0
        ELSE closed * (vwap - price) * SideToValue(s)

\* PositionInfo::AddFill; price in money.
AddFill(info, s, price, qty) ==
    LET new    == info.position_ + qty * SideToValue(s)
        open   == OpenVwap(info, s, price, qty)
        real   == info.real_pnl_ + Realized(info, s, price, qty)
        unreal == Unrealized(new, open, price)
    IN  [position_ |-> new, real_pnl_ |-> real, unreal_pnl_ |-> unreal,
         total_pnl_ |-> real + unreal, open_vwap_ |-> open,
         volume_ |-> info.volume_ + qty]

\* PositionInfo::UpdateBbo: marks an open position half-way between the two
\* prices, when there are two.
Marks(info, bbo) ==
    info.position_ # 0 /\ \A s \in Sides : bbo[s].price # INVALID

MidPrice(bbo) == (bbo["BUY"].price + bbo["SELL"].price) * (Scale \div 2)

UpdateBbo(info, bbo) ==
    LET unreal == Unrealized(info.position_, info.open_vwap_, MidPrice(bbo))
    IN  IF Marks(info, bbo)
        THEN [info EXCEPT !.unreal_pnl_ = unreal,
                          !.total_pnl_ = unreal + info.real_pnl_]
        ELSE info
=============================================================================
