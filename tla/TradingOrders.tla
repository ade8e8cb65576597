---------------------------- MODULE TradingOrders ----------------------------
(***************************************************************************)
(* The orders of one trading client on one instrument: TradingEngine::Run, *)
(* the market maker and the liquidity taker, OrderManager, the pre-trade   *)
(* risk check and the position of PositionKeeper (src/trading_engine/).    *)
(*                                                                         *)
(* The exchange and the gateways between are external here: two first-in   *)
(* first-out channels (OrderGateway), and an exchange that accepts every   *)
(* new order, fills what rests in any parts, and answers a cancel by       *)
(* whether the order still rests (ExchangeOrderBook).                      *)
(***************************************************************************)
EXTENDS Integers, Sequences

CONSTANTS
    Algos,             \* the algorithms a client may be started with
    Prices, PRICE_INVALID,
    Clip,              \* TradeEngineCfg: the quantity of every order
    MaxOrderSize, MaxPosition,          \* RiskCfg
    MaxUpdates         \* bound on the market updates

Sides == {"BUY", "SELL"}

(***************************************************************************)
(* Quantities are uint32_t, a position is int32_t, and the risk check adds *)
(* the two before it compares: the sum must not overflow.                  *)
(***************************************************************************)
ASSUME TradingAssumption ==
    /\ Algos \subseteq {"MAKER", "TAKER"}
    /\ PRICE_INVALID \notin Prices
    /\ Clip \in Nat \ {0} /\ MaxOrderSize \in Nat /\ MaxPosition \in Nat
    /\ MaxPosition + Clip <= 2147483647
    /\ MaxUpdates \in Nat

VARIABLES
    algo,              \* algo_type of the engine
    phase,             \* the loop Run is in, "responses" or "updates"
    order,             \* ticker_side_order_ of the instrument, by side
    next_order_id_,
    position_,
    updates,           \* incoming_md_updates_: how many are unread
    published,         \* market updates so far
    requests,          \* from outgoing_ogw_requests_ to the matching engine
    responses,         \* from the matching engine to incoming_ogw_responses_
    resting            \* the client's orders in the exchange's book, by side

engineVars == <<algo, phase, order, next_order_id_, position_>>
vars == <<algo, phase, order, next_order_id_, position_, updates, published,
          requests, responses, resting>>

States == {"INVALID", "PENDING_NEW", "LIVE", "PENDING_CANCEL", "DEAD"}

Pending == {"PENDING_NEW", "PENDING_CANCEL"}

OMOrder == [order_id : Nat, price : Prices \cup {PRICE_INVALID}, qty : Nat,
            state : States]
Request == [type : {"NEW", "CANCEL"}, side : Sides, order_id : Nat,
            price : Prices, qty : Nat]
Response == [type : {"ACCEPTED", "CANCELED", "FILLED", "CANCEL_REJECTED"},
             side : Sides \cup {"INVALID"}, order_id : Nat,
             exec : Nat, leaves : Nat]

NoOrder == [order_id |-> 0, price |-> PRICE_INVALID, qty |-> 0,
            state |-> "INVALID"]
Nothing == [order_id |-> 0, leaves |-> 0]

Init ==
    /\ algo \in Algos
    /\ phase = "responses"
    /\ order = [s \in Sides |-> NoOrder]
    /\ next_order_id_ = 1
    /\ position_ = 0
    /\ updates = 0 /\ published = 0
    /\ requests = <<>> /\ responses = <<>>
    /\ resting = [s \in Sides |-> Nothing]

-----------------------------------------------------------------------------
(* Responses: OnOrderUpdate of the engine, then of the order manager.      *)

SideToValue(s) == IF s = "BUY" THEN 1 ELSE -1

\* PositionInfo::AddFill, as far as the position goes.
AddFill(r) == position_ + SideToValue(r.side) * r.exec

\* Defects: any fill ends the order, a partial one too; a fill never does.
OnOrderUpdateAnyFill(r) ==
    CASE r.type = "ACCEPTED" -> [order EXCEPT ![r.side].state = "LIVE"]
      [] r.type \in {"CANCELED", "FILLED"} ->
            [order EXCEPT ![r.side].qty = r.leaves, ![r.side].state = "DEAD"]
      [] r.type = "CANCEL_REJECTED" -> order

OnOrderUpdateFillLeaves(r) ==
    CASE r.type = "ACCEPTED" -> [order EXCEPT ![r.side].state = "LIVE"]
      [] r.type = "CANCELED" -> [order EXCEPT ![r.side].state = "DEAD"]
      [] r.type = "FILLED" -> [order EXCEPT ![r.side].qty = r.leaves]
      [] r.type = "CANCEL_REJECTED" -> order

\* OrderManager::OnOrderUpdate: the order of the response's side, whichever
\* order the response names.
OnOrderUpdate(r) ==
    CASE r.type = "ACCEPTED" -> [order EXCEPT ![r.side].state = "LIVE"]
      [] r.type = "CANCELED" -> [order EXCEPT ![r.side].state = "DEAD"]
      [] r.type = "FILLED" ->
            [order EXCEPT ![r.side].qty = r.leaves,
                          ![r.side].state = IF r.leaves = 0 THEN "DEAD" ELSE @]
      [] r.type = "CANCEL_REJECTED" -> order

\* One round of the first loop of TradingEngine::Run.
ProcessResponse ==
    /\ phase = "responses" /\ responses # <<>>
    /\ LET r == Head(responses)
       IN  /\ position_' = IF r.type = "FILLED" THEN AddFill(r) ELSE position_
           /\ order' = OnOrderUpdate(r)
    /\ responses' = Tail(responses)
    /\ UNCHANGED <<algo, phase, next_order_id_, updates, published, requests, resting>>

\* Each loop of Run ends when its queue is empty, and Run goes on to the other.
NextLoop ==
    /\ \/ phase = "responses" /\ responses = <<>> /\ phase' = "updates"
       \/ phase = "updates" /\ updates = 0 /\ phase' = "responses"
    /\ UNCHANGED <<algo, order, next_order_id_, position_, updates, published,
                   requests, responses, resting>>

-----------------------------------------------------------------------------
(* Market updates: the algorithm's callback and OrderManager::MoveOrders.  *)

Abs(n) == IF n < 0 THEN -n ELSE n

\* Defect: the check forgets the order that is about to be sent.
CheckPreTradeRiskPositionOnly(s, qty, lossOk) ==
    /\ qty <= MaxOrderSize
    /\ Abs(position_) <= MaxPosition
    /\ lossOk

\* RiskInfo::CheckPreTradeRisk.  lossOk: total_pnl_ is not below max_loss_.
CheckPreTradeRisk(s, qty, lossOk) ==
    /\ qty <= MaxOrderSize
    /\ Abs(position_ + SideToValue(s) * qty) <= MaxPosition
    /\ lossOk

\* Defects: an order whose cancel is not answered yet is replaced; an order is
\* opened where the algorithm wants none.
OpensBeforeCanceled(s, price, lossOk) ==
    /\ order[s].state \in {"INVALID", "DEAD", "PENDING_CANCEL"}
    /\ price # PRICE_INVALID
    /\ CheckPreTradeRisk(s, Clip, lossOk)

OpensAtAnyPrice(s, price, lossOk) ==
    /\ order[s].state \in {"INVALID", "DEAD"}
    /\ CheckPreTradeRisk(s, Clip, lossOk)

\* OrderManager::MoveOrder cancels a live order at another price, and opens
\* an order where there is none.
Cancels(s, price) == order[s].state = "LIVE" /\ order[s].price # price

Opens(s, price, lossOk) ==
    /\ order[s].state \in {"INVALID", "DEAD"}
    /\ price # PRICE_INVALID
    /\ CheckPreTradeRisk(s, Clip, lossOk)

\* OrderManager::NewOrder and OrderManager::CancelOrder: the order of side s
\* after MoveOrder, and the request that went out.
MoveOrder(s, price, lossOk, id) ==
    IF Cancels(s, price) THEN [order[s] EXCEPT !.state = "PENDING_CANCEL"]
    ELSE IF Opens(s, price, lossOk)
         THEN [order_id |-> id, price |-> price, qty |-> Clip,
               state |-> "PENDING_NEW"]
         ELSE order[s]

Sent(s, price, lossOk, id) ==
    IF Cancels(s, price)
    THEN <<[type |-> "CANCEL", side |-> s, order_id |-> order[s].order_id,
            price |-> order[s].price, qty |-> order[s].qty]>>
    ELSE IF Opens(s, price, lossOk)
         THEN <<[type |-> "NEW", side |-> s, order_id |-> id, price |-> price,
                 qty |-> Clip]>>
         ELSE <<>>

\* OrderManager::MoveOrders: the buy order first.
MoveOrders(bid, ask, lossOk) ==
    LET askId == IF Opens("BUY", bid, lossOk) THEN next_order_id_ + 1
                                              ELSE next_order_id_
    IN  /\ order' = [s \in Sides |->
                        IF s = "BUY"
                        THEN MoveOrder("BUY", bid, lossOk, next_order_id_)
                        ELSE MoveOrder("SELL", ask, lossOk, askId)]
        /\ requests' = requests \o Sent("BUY", bid, lossOk, next_order_id_)
                                \o Sent("SELL", ask, lossOk, askId)
        /\ next_order_id_' = IF Opens("SELL", ask, lossOk) THEN askId + 1 ELSE askId

ProcessUpdate ==
    /\ phase = "updates" /\ updates > 0
    /\ updates' = updates - 1
    /\ UNCHANGED <<algo, phase, position_, published, responses, resting>>

\* An update that the algorithm lets pass: not the kind it trades on, one side
\* of the book is empty, or the trade was not large enough.
Pass == ProcessUpdate /\ UNCHANGED <<order, next_order_id_, requests>>

\* MarketMaker::OnOrderBookUpdate: both prices from the best bid and offer.
MakerOnOrderBookUpdate ==
    /\ algo = "MAKER" /\ ProcessUpdate
    /\ \E bid, ask \in Prices, lossOk \in BOOLEAN : MoveOrders(bid, ask, lossOk)

\* LiquidityTaker::OnTradeUpdate: follows the trade's side, and wants no order
\* on the other.
TakerOnTradeUpdate ==
    /\ algo = "TAKER" /\ ProcessUpdate
    /\ \E price \in Prices, lossOk \in BOOLEAN :
          \/ MoveOrders(price, PRICE_INVALID, lossOk)
          \/ MoveOrders(PRICE_INVALID, price, lossOk)

-----------------------------------------------------------------------------
(* External: the market data consumer, and the exchange's answers.         *)

Publish ==
    /\ published < MaxUpdates
    /\ published' = published + 1 /\ updates' = updates + 1
    /\ UNCHANGED <<engineVars, requests, responses, resting>>

Respond(type, s, id, exec, leaves) ==
    responses' = Append(responses, [type |-> type, side |-> s, order_id |-> id,
                                    exec |-> exec, leaves |-> leaves])

ExchangeAdd ==
    /\ requests # <<>> /\ Head(requests).type = "NEW"
    /\ LET r == Head(requests)
       IN  /\ Respond("ACCEPTED", r.side, r.order_id, 0, r.qty)
           /\ resting' = [resting EXCEPT ![r.side] =
                             [order_id |-> r.order_id, leaves |-> r.qty]]
    /\ requests' = Tail(requests)
    /\ UNCHANGED <<engineVars, updates, published>>

ExchangeCancel ==
    /\ requests # <<>> /\ Head(requests).type = "CANCEL"
    /\ LET r == Head(requests)
       IN  \/ /\ resting[r.side].order_id = r.order_id
              /\ Respond("CANCELED", r.side, r.order_id, 0, resting[r.side].leaves)
              /\ resting' = [resting EXCEPT ![r.side] = Nothing]
           \/ /\ resting[r.side].order_id # r.order_id
              /\ Respond("CANCEL_REJECTED", "INVALID", r.order_id, 0, 0)
              /\ resting' = resting
    /\ requests' = Tail(requests)
    /\ UNCHANGED <<engineVars, updates, published>>

ExchangeFill ==
    \E s \in Sides : \E qty \in 1 .. resting[s].leaves :
        LET leaves == resting[s].leaves - qty
        IN  /\ Respond("FILLED", s, resting[s].order_id, qty, leaves)
            /\ resting' = [resting EXCEPT ![s] =
                              IF leaves = 0 THEN Nothing
                                            ELSE [@ EXCEPT !.leaves = leaves]]
            /\ UNCHANGED <<engineVars, updates, published, requests>>

-----------------------------------------------------------------------------
Run == ProcessResponse \/ NextLoop \/ Pass \/ MakerOnOrderBookUpdate
          \/ TakerOnTradeUpdate
Exchange == ExchangeAdd \/ ExchangeCancel

Next == Run \/ Exchange \/ ExchangeFill \/ Publish

Spec == Init /\ [][Next]_vars

\* The engine's thread spins; the exchange answers every request it is sent.
\* No fill and no market update need ever happen.
FairSpec == Spec /\ WF_vars(Run) /\ WF_vars(Exchange)

TypeOK ==
    /\ algo \in Algos /\ phase \in {"responses", "updates"}
    /\ order \in [Sides -> OMOrder]
    /\ next_order_id_ \in Nat /\ position_ \in Int
    /\ updates \in Nat /\ published \in 0 .. MaxUpdates
    /\ requests \in Seq(Request) /\ responses \in Seq(Response)
    /\ resting \in [Sides -> [order_id : Nat, leaves : Nat]]

-----------------------------------------------------------------------------
(* A response is applied to the order of its side, and its order id is not *)
(* compared: every response under way is about the order that is in the    *)
(* slot, never about one the slot held before (order_manager.hpp:27).      *)
AnswersMatchSlot ==
    \A i \in DOMAIN responses :
        LET r == responses[i]
        IN  r.side \in Sides => r.order_id = order[r.side].order_id

\* What the orders of side s can still add to the position: sent, resting,
\* and filled in responses under way.
Total(qtys) ==
    LET sum[n \in 0 .. Len(qtys)] == IF n = 0 THEN 0 ELSE sum[n - 1] + qtys[n]
    IN  sum[Len(qtys)]

SentQtys(s) ==
    [i \in DOMAIN requests |->
        IF requests[i].side = s /\ requests[i].type = "NEW" THEN requests[i].qty ELSE 0]

FilledQtys(s) ==
    [i \in DOMAIN responses |-> IF responses[i].side = s THEN responses[i].exec ELSE 0]

Exposure(s) == Total(SentQtys(s)) + resting[s].leaves + Total(FilledQtys(s))

(* The quantity in a slot covers all that can still be filled on its side, *)
(* fills under way included: an order the engine holds for dead can do     *)
(* nothing any more, and there is one order per side                       *)
(* (order_manager.hpp:4, "only allows a single order on each side").       *)
SlotCoversExposure ==
    \A s \in Sides :
        Exposure(s) <= IF order[s].state \in {"INVALID", "DEAD"} THEN 0
                                                                 ELSE order[s].qty

(* The position stays within the limit, though the risk check reads it     *)
(* while fills of both sides are under way (risk_manager.hpp:50).          *)
PositionWithinLimit == Abs(position_) <= MaxPosition

(* No order stays in a pending state, in which MoveOrder leaves it alone:  *)
(* the response that ends the state comes, whatever fills cross the cancel *)
(* (order_manager.hpp:83).                                                 *)
PendingResolves ==
    \A s \in Sides :
        order[s].state \in Pending ~> order[s].state \notin Pending
=============================================================================
