------------------------ MODULE TradingSignalsProofs ------------------------
(***************************************************************************)
(* Profit and loss, and the features the algorithms act on, for every set  *)
(* of instruments, books, prices and quantities.                           *)
(***************************************************************************)
EXTENDS TradingSignals, TLAPS

-----------------------------------------------------------------------------
(* PositionInfo.                                                           *)

\* What the open position has cost, with its sign.
Held(info) ==
    IF info.position_ > 0 THEN -info.open_vwap_["BUY"]
    ELSE IF info.position_ < 0 THEN info.open_vwap_["SELL"]
    ELSE 0

\* The average price of the open position is a whole number of money units.
Exact(info) ==
    info.position_ # 0 =>
        info.open_vwap_[IF info.position_ > 0 THEN "BUY" ELSE "SELL"]
            % Abs(info.position_) = 0

\* Products of integers.
LEMMA Products ==
    ASSUME NEW a \in Int, NEW b \in Int, NEW c \in Int
    PROVE  /\ a * b \in Int /\ a * b = b * a
           /\ (a + b) * c = a * c + b * c /\ (a - b) * c = a * c - b * c
           /\ (-a) * c = -(a * c) /\ 1 * a = a /\ (-1) * a = -a /\ a * 0 = 0
           /\ a * (b * c) = (a * b) * c
  OBVIOUS

\* An exact average price times the quantity gives back what was paid.
LEMMA ExactDivision ==
    ASSUME NEW v \in Int, NEW n \in Nat \ {0}, v % n = 0
    PROVE  (v \div n) \in Int /\ (v \div n) * n = v
  OBVIOUS

\* PositionInfo::AddFill on a long position that a sale reduces, on a short
\* one that a purchase reduces, and so on: what a fill realizes and what it
\* leaves open together change by the price paid.
LEMMA FillKeepsCost ==
    ASSUME NEW info \in PositionInfo, NEW s \in Sides, NEW price \in Int,
           NEW qty \in Nat \ {0}, info.position_ * SideToValue(s) < 0 => Exact(info)
    PROVE  LET j == AddFill(info, s, price, qty)
           IN  /\ j \in PositionInfo
               /\ j.real_pnl_ + Held(j) =
                    info.real_pnl_ + Held(info) - SideToValue(s) * (price * qty)
                      - IF info.position_ = 0 THEN SideToValue(s) * info.open_vwap_[s]
                                              ELSE 0
               /\ j.total_pnl_ = j.real_pnl_ + j.position_ * price + Held(j)
               /\ j.position_ = 0 => j.open_vwap_ = [r \in Sides |-> 0]
  <1> DEFINE old  == info.position_
             open == info.open_vwap_
             sg   == SideToValue(s)
             opp  == Opposite(s)
             new  == old + qty * sg
             V    == open[opp]
             vw   == V \div Abs(old)
             nopen == OpenVwap(info, s, price, qty)
             rz   == Realized(info, s, price, qty)
             j    == AddFill(info, s, price, qty)
  <1>1. /\ old \in Int /\ open \in [Sides -> Int] /\ info.real_pnl_ \in Int
        /\ info.volume_ \in Nat
    BY DEF PositionInfo
  <1>2. /\ opp \in Sides /\ opp # s /\ V \in Int /\ open[s] \in Int
        /\ \A r \in Sides : r = s \/ r = opp
        /\ \/ s = "BUY" /\ opp = "SELL" /\ sg = 1
           \/ s = "SELL" /\ opp = "BUY" /\ sg = -1
    BY <1>1 DEF Sides, Opposite, SideToValue
  <1>3. /\ new \in Int /\ qty \in Nat /\ qty > 0
        /\ s = "BUY" => new = old + qty
        /\ s = "SELL" => new = old - qty
    BY <1>1, <1>2
  <1>4. /\ j.position_ = new /\ j.real_pnl_ = info.real_pnl_ + rz
        /\ j.open_vwap_ = nopen /\ j.unreal_pnl_ = Unrealized(new, nopen, price)
        /\ j.total_pnl_ = info.real_pnl_ + rz + Unrealized(new, nopen, price)
        /\ j.volume_ = info.volume_ + qty
        /\ j = [position_ |-> new, real_pnl_ |-> info.real_pnl_ + rz,
                unreal_pnl_ |-> Unrealized(new, nopen, price),
                total_pnl_ |-> info.real_pnl_ + rz + Unrealized(new, nopen, price),
                open_vwap_ |-> nopen, volume_ |-> info.volume_ + qty]
    BY DEF AddFill
  <1> HIDE DEF j
  <1>5. ASSUME nopen \in [Sides -> Int]
        PROVE  /\ Unrealized(new, nopen, price) \in Int
               /\ Unrealized(new, nopen, price) = new * price + Held(j)
               /\ Held(j) \in Int
    <2>1. nopen["BUY"] \in Int /\ nopen["SELL"] \in Int
      BY <1>5 DEF Sides
    <2> HIDE DEF nopen, new
    <2>2. CASE new = 0
      BY <1>3, <1>4, <2>2 DEF Unrealized, Held
    <2>3. CASE new > 0
      BY <1>3, <1>4, <2>1, <2>3 DEF Unrealized, Held
    <2>4. CASE new < 0
      <3>1. Unrealized(new, nopen, price) = nopen["SELL"] - price * (-new)
        BY <1>3, <2>4 DEF Unrealized, Abs
      <3> QED BY <1>3, <1>4, <2>1, <2>4, <3>1 DEF Held
    <2> QED BY <1>3, <2>2, <2>3, <2>4
  <1> DEFINE before == IF old = 0 THEN sg * open[s] ELSE 0
  <1> SUFFICES /\ nopen \in [Sides -> Int] /\ rz \in Int
               /\ rz + Held(j) = Held(info) - sg * (price * qty) - before
               /\ new = 0 => nopen = [r \in Sides |-> 0]
               /\ Held(info) \in Int
    <2>1. /\ Unrealized(new, nopen, price) \in Int
          /\ Unrealized(new, nopen, price) = new * price + Held(j)
          /\ Held(j) \in Int
      BY <1>5
    <2>2. sg * (price * qty) \in Int /\ before \in Int /\ new * price \in Int
      BY <1>2, <1>3
    <2> HIDE DEF nopen, rz, new, sg, before, old
    <2>3. j \in PositionInfo
      BY <1>1, <1>3, <1>4, <2>1 DEF PositionInfo
    <2>4. j.real_pnl_ + Held(j) = info.real_pnl_ + Held(info) - sg * (price * qty) - before
      BY <1>1, <1>4, <2>1, <2>2
    <2>5. j.total_pnl_ = j.real_pnl_ + j.position_ * price + Held(j)
      BY <1>1, <1>4, <2>1, <2>2
    <2> QED BY <1>4, <2>3, <2>4, <2>5 DEF j, before, old, sg
  <1>6. Held(info) \in Int
    <2>1. open["BUY"] \in Int /\ open["SELL"] \in Int
      BY <1>1 DEF Sides
    <2> QED BY <2>1 DEF Held
  <1>7. CASE s = "BUY"
    <2>0. opp = "SELL" /\ sg = 1 /\ new = old + qty
      BY <1>2, <1>3, <1>7
    <2>1. CASE old >= 0
      <3>1. new > 0 /\ old * sg >= 0
        BY <1>1, <1>3, <2>0, <2>1
      <3>2. nopen = [open EXCEPT ![s] = @ + price * qty] /\ rz = 0
        BY <1>3, <3>1 DEF OpenVwap, Realized
      <3>3. nopen \in [Sides -> Int] /\ nopen["BUY"] = open["BUY"] + price * qty
        BY <1>1, <1>2, <1>7, <3>2
      <3>4. Held(j) = -nopen["BUY"]
        BY <1>3, <1>4, <3>1 DEF Held
      <3>5. Held(info) - before = -open["BUY"]
        BY <1>1, <1>2, <1>7, <2>0, <2>1 DEF Held
      <3>6. sg * (price * qty) = price * qty /\ price * qty \in Int
        BY <2>0
      <3>7. open["BUY"] \in Int /\ before \in Int
        BY <1>1, <1>2, <1>7, <2>0
      <3> HIDE DEF before, nopen, rz, new, sg, open, old
      <3> QED BY <1>3, <1>6, <3>1, <3>2, <3>3, <3>4, <3>5, <3>6, <3>7
    <2>2. CASE old < 0
      <3>1. /\ Abs(old) = -old /\ -old \in Nat \ {0} /\ old # 0
            /\ ~(old * sg >= 0) /\ Exact(info)
        BY <1>1, <2>0, <2>2 DEF Abs
      <3>2. V % (-old) = 0
        BY <1>1, <2>0, <2>2, <3>1 DEF Exact
      <3>3. vw = V \div (-old) /\ vw \in Int /\ vw * (-old) = V
        BY <1>2, <3>1, <3>2, ExactDivision
      <3>4. Held(info) = V /\ before = 0
        BY <1>1, <2>0, <2>2, <3>1 DEF Held
      <3>5. rz = (IF qty < -old THEN qty ELSE -old) * (vw - price) * sg
        BY <3>1 DEF Realized
      <3>6. sg * (price * qty) = price * qty /\ price * qty \in Int
        BY <2>0
      <3> HIDE DEF before, vw
      <3>7. CASE new = 0
        <4>1. nopen = [r \in Sides |-> 0] /\ Held(j) = 0
          BY <1>4, <3>7 DEF OpenVwap, Held
        <4>2. qty = -old /\ rz = (vw - price) * qty
          <5>1. qty = -old /\ ~(qty < -old)
            BY <1>1, <1>3, <2>0, <3>7
          <5>2. rz = qty * (vw - price) * 1
            BY <2>0, <3>5, <5>1
          <5> HIDE DEF rz, old
          <5> QED BY <1>3, <3>3, <5>1, <5>2
        <4>3. (vw - price) * qty = V - price * qty /\ V \in Int
          BY <1>1, <1>2, <1>3, <3>3, <4>2
        <4> HIDE DEF nopen, rz, new, sg, open, old, V
        <4> QED BY <1>6, <3>4, <3>6, <4>1, <4>2, <4>3
      <3>8. CASE new > 0
        <4>1. new * old < 0
          BY <1>1, <1>3, <2>2, <3>8
        <4>2. nopen = [open EXCEPT ![s] = price * new, ![opp] = 0]
          BY <1>1, <1>3, <3>1, <3>8, <4>1 DEF OpenVwap, Abs
        <4>3. nopen \in [Sides -> Int] /\ nopen["BUY"] = price * new
          BY <1>1, <1>2, <1>3, <1>7, <4>2
        <4>4. Held(j) = -(price * new)
          BY <1>3, <1>4, <3>8, <4>3 DEF Held
        <4>5. ~(qty < -old) /\ qty = (-old) + (new)
          BY <1>1, <1>3, <2>0, <3>8
        <4>6. rz = ((vw - price) * (-old))
          BY <1>1, <2>0, <3>3, <3>5, <4>5
        <4>7. (vw - price) * (-old) = V - price * (-old) /\ V \in Int
          <5>1. vw \in Int /\ -old \in Int /\ vw * (-old) = V /\ V \in Int
            BY <1>1, <1>2, <3>3
          <5> HIDE DEF old, V
          <5> QED BY <5>1, Products
        <4>8. price * qty = price * (-old) + price * new
          <5>1. qty = (-old) + new /\ -old \in Int /\ new \in Int
            BY <1>1, <1>3, <4>5
          <5> HIDE DEF old, new
          <5> QED BY <5>1, Products
        <4>9. price * (-old) \in Int /\ price * new \in Int
          BY <1>1, <1>3
        <4> HIDE DEF nopen, rz, new, sg, open, old, V
        <4> QED BY <1>6, <3>4, <3>6, <3>8, <4>3, <4>4, <4>6, <4>7, <4>8, <4>9
      <3>9. CASE new < 0
        <4>1. ~(new * old < 0)
          BY <1>1, <1>3, <2>2, <3>9
        <4>2. nopen = [open EXCEPT ![opp] = vw * (-new)]
          BY <1>1, <1>3, <3>1, <3>9, <4>1 DEF OpenVwap, Abs, vw
        <4>3. nopen \in [Sides -> Int] /\ nopen["SELL"] = vw * (-new)
          BY <1>1, <1>2, <1>3, <2>0, <3>3, <4>2
        <4>4. Held(j) = (vw * (-new))
          BY <1>3, <1>4, <3>9, <4>3 DEF Held
        <4>5. qty < -old /\ -old = qty + (-new)
          BY <1>1, <1>3, <2>0, <3>9
        <4>6. rz = (vw - price) * qty
          BY <1>1, <1>3, <2>0, <3>3, <3>5, <4>5
        <4>7. (vw - price) * qty = vw * qty - price * qty /\ V \in Int
          BY <1>2, <1>3, <3>3
        <4>8. V = vw * qty + vw * (-new)
          BY <1>1, <1>3, <3>3, <4>5
        <4>9. vw * qty \in Int /\ vw * (-new) \in Int
          BY <1>1, <1>3, <3>3
        <4> HIDE DEF nopen, rz, new, sg, open, old, V
        <4> QED BY <1>6, <3>4, <3>6, <3>9, <4>3, <4>4, <4>6, <4>7, <4>8, <4>9
      <3> QED BY <1>3, <3>7, <3>8, <3>9
    <2> QED BY <1>1, <2>1, <2>2
  <1>8. CASE s = "SELL"
    <2>0. opp = "BUY" /\ sg = -1 /\ new = old - qty
      BY <1>2, <1>3, <1>8
    <2>1. CASE old <= 0
      <3>1. new < 0 /\ old * sg >= 0
        BY <1>1, <1>3, <2>0, <2>1
      <3>2. nopen = [open EXCEPT ![s] = @ + price * qty] /\ rz = 0
        BY <1>3, <3>1 DEF OpenVwap, Realized
      <3>3. nopen \in [Sides -> Int] /\ nopen["SELL"] = open["SELL"] + price * qty
        BY <1>1, <1>2, <1>8, <3>2
      <3>4. Held(j) = nopen["SELL"]
        BY <1>3, <1>4, <3>1 DEF Held
      <3>5. Held(info) - before = open["SELL"]
        BY <1>1, <1>2, <1>8, <2>0, <2>1 DEF Held
      <3>6. sg * (price * qty) = -(price * qty) /\ price * qty \in Int
        BY <2>0
      <3>7. open["SELL"] \in Int /\ before \in Int
        BY <1>1, <1>2, <1>8, <2>0
      <3> HIDE DEF before, nopen, rz, new, sg, open, old
      <3> QED BY <1>3, <1>6, <3>1, <3>2, <3>3, <3>4, <3>5, <3>6, <3>7
    <2>2. CASE old > 0
      <3>1. /\ Abs(old) = old /\ old \in Nat \ {0} /\ old # 0
            /\ ~(old * sg >= 0) /\ Exact(info)
        BY <1>1, <2>0, <2>2 DEF Abs
      <3>2. V % (old) = 0
        BY <1>1, <2>0, <2>2, <3>1 DEF Exact
      <3>3. vw = V \div (old) /\ vw \in Int /\ vw * old = V
        BY <1>2, <3>1, <3>2, ExactDivision
      <3>4. Held(info) = -V /\ before = 0
        BY <1>1, <2>0, <2>2, <3>1 DEF Held
      <3>5. rz = (IF qty < old THEN qty ELSE old) * (vw - price) * sg
        BY <3>1 DEF Realized
      <3>6. sg * (price * qty) = -(price * qty) /\ price * qty \in Int
        BY <2>0
      <3> HIDE DEF before, vw
      <3>7. CASE new = 0
        <4>1. nopen = [r \in Sides |-> 0] /\ Held(j) = 0
          BY <1>4, <3>7 DEF OpenVwap, Held
        <4>2. qty = old /\ rz = -((vw - price) * qty)
          <5>1. qty = old /\ ~(qty < old)
            BY <1>1, <1>3, <2>0, <3>7
          <5>2. rz = qty * (vw - price) * (-1)
            BY <2>0, <3>5, <5>1
          <5> HIDE DEF rz, old
          <5> QED BY <1>3, <3>3, <5>1, <5>2
        <4>3. (vw - price) * qty = V - price * qty /\ V \in Int
          BY <1>1, <1>2, <1>3, <3>3, <4>2
        <4> HIDE DEF nopen, rz, new, sg, open, old, V
        <4> QED BY <1>6, <3>4, <3>6, <4>1, <4>2, <4>3
      <3>8. CASE new < 0
        <4>1. new * old < 0
          BY <1>1, <1>3, <2>2, <3>8
        <4>2. nopen = [open EXCEPT ![s] = price * (-new), ![opp] = 0]
          BY <1>1, <1>3, <3>1, <3>8, <4>1 DEF OpenVwap, Abs
        <4>3. nopen \in [Sides -> Int] /\ nopen["SELL"] = price * (-new)
          BY <1>1, <1>2, <1>3, <1>8, <4>2
        <4>4. Held(j) = (price * (-new))
          BY <1>3, <1>4, <3>8, <4>3 DEF Held
        <4>5. ~(qty < old) /\ qty = (old) + (-new)
          BY <1>1, <1>3, <2>0, <3>8
        <4>6. rz = -((vw - price) * old)
          BY <1>1, <2>0, <3>3, <3>5, <4>5
        <4>7. (vw - price) * old = V - price * old /\ V \in Int
          <5>1. vw \in Int /\ old \in Int /\ vw * old = V /\ V \in Int
            BY <1>1, <1>2, <3>3
          <5> HIDE DEF old, V
          <5> QED BY <5>1, Products
        <4>8. price * qty = price * old + price * (-new)
          <5>1. qty = old + (-new) /\ old \in Int /\ -new \in Int
            BY <1>1, <1>3, <4>5
          <5> HIDE DEF old, new
          <5> QED BY <5>1, Products
        <4>9. price * old \in Int /\ price * (-new) \in Int
          BY <1>1, <1>3
        <4> HIDE DEF nopen, rz, new, sg, open, old, V
        <4> QED BY <1>6, <3>4, <3>6, <3>8, <4>3, <4>4, <4>6, <4>7, <4>8, <4>9
      <3>9. CASE new > 0
        <4>1. ~(new * old < 0)
          BY <1>1, <1>3, <2>2, <3>9
        <4>2. nopen = [open EXCEPT ![opp] = vw * (new)]
          BY <1>1, <1>3, <3>1, <3>9, <4>1 DEF OpenVwap, Abs, vw
        <4>3. nopen \in [Sides -> Int] /\ nopen["BUY"] = vw * (new)
          BY <1>1, <1>2, <1>3, <2>0, <3>3, <4>2
        <4>4. Held(j) = -(vw * (new))
          BY <1>3, <1>4, <3>9, <4>3 DEF Held
        <4>5. qty < old /\ old = qty + (new)
          BY <1>1, <1>3, <2>0, <3>9
        <4>6. rz = -((vw - price) * qty)
          BY <1>1, <1>3, <2>0, <3>3, <3>5, <4>5
        <4>7. (vw - price) * qty = vw * qty - price * qty /\ V \in Int
          BY <1>2, <1>3, <3>3
        <4>8. V = vw * qty + vw * (new)
          BY <1>1, <1>3, <3>3, <4>5
        <4>9. vw * qty \in Int /\ vw * (new) \in Int
          BY <1>1, <1>3, <3>3
        <4> HIDE DEF nopen, rz, new, sg, open, old, V
        <4> QED BY <1>6, <3>4, <3>6, <3>9, <4>3, <4>4, <4>6, <4>7, <4>8, <4>9
      <3> QED BY <1>3, <3>7, <3>8, <3>9
    <2> QED BY <1>1, <2>1, <2>2
  <1> QED BY <1>2, <1>7, <1>8

\* PositionInfo::AddFill keeps the types, whether or not the average price is
\* a whole number.
LEMMA FillTypes ==
    ASSUME NEW info \in PositionInfo, NEW s \in Sides, NEW price \in Int,
           NEW qty \in Nat \ {0}
    PROVE  AddFill(info, s, price, qty) \in PositionInfo
  <1> DEFINE old  == info.position_
             open == info.open_vwap_
             sg   == SideToValue(s)
             opp  == Opposite(s)
             new  == old + qty * sg
             q    == open[opp] \div Abs(old)
             nopen == OpenVwap(info, s, price, qty)
             rz   == Realized(info, s, price, qty)
             un   == Unrealized(new, nopen, price)
  <1>1. /\ old \in Int /\ open \in [Sides -> Int] /\ info.real_pnl_ \in Int
        /\ info.volume_ \in Nat /\ sg \in {1, -1} /\ opp \in Sides
        /\ open[opp] \in Int /\ open[s] \in Int
    BY DEF PositionInfo, Sides, Opposite, SideToValue
  <1>2. new \in Int /\ Abs(new) \in Int /\ Abs(old) \in Nat /\ price * qty \in Int
    BY <1>1 DEF Abs
  <1>3. ~(old * sg >= 0) => Abs(old) > 0
    BY <1>1 DEF Abs
  <1>4. ~(old * sg >= 0) => q \in Int
    BY <1>1, <1>2, <1>3
  <1> HIDE DEF q
  <1>5. nopen \in [Sides -> Int]
    <2>1. CASE new = 0
      BY <2>1 DEF OpenVwap
    <2>2. CASE new # 0 /\ old * sg >= 0
      <3>1. nopen = [open EXCEPT ![s] = @ + price * qty]
        BY <2>2 DEF OpenVwap
      <3>2. open[s] + price * qty \in Int
        BY <1>1, <1>2
      <3> QED BY <1>1, <3>1, <3>2
    <2>3. CASE new # 0 /\ ~(old * sg >= 0) /\ new * old < 0
      <3>1. nopen = [open EXCEPT ![s] = price * Abs(new), ![opp] = 0]
        BY <2>3 DEF OpenVwap
      <3>2. price * Abs(new) \in Int
        BY <1>2
      <3> QED BY <1>1, <3>1, <3>2
    <2>4. CASE new # 0 /\ ~(old * sg >= 0) /\ ~(new * old < 0)
      <3>1. nopen = [open EXCEPT ![opp] = q * Abs(new)]
        BY <2>4 DEF OpenVwap, q
      <3>2. q * Abs(new) \in Int
        BY <1>2, <1>4, <2>4
      <3> QED BY <1>1, <3>1, <3>2
    <2> QED BY <2>1, <2>2, <2>3, <2>4
  <1>6. rz \in Int
    <2>1. CASE old * sg >= 0
      BY <2>1 DEF Realized
    <2>2. CASE ~(old * sg >= 0)
      <3>1. rz = (IF qty < Abs(old) THEN qty ELSE Abs(old)) * (q - price) * sg
        BY <2>2 DEF Realized, q
      <3>2. (IF qty < Abs(old) THEN qty ELSE Abs(old)) \in Int /\ q - price \in Int
        BY <1>2, <1>4, <2>2
      <3> HIDE DEF rz, sg
      <3> QED BY <1>1, <3>1, <3>2
    <2> QED BY <2>1, <2>2
  <1>7. un \in Int
    <2>1. nopen["BUY"] \in Int /\ nopen["SELL"] \in Int
      BY <1>5 DEF Sides
    <2>2. price * new \in Int /\ price * Abs(new) \in Int
      BY <1>2
    <2> HIDE DEF nopen, new
    <2> QED BY <1>2, <2>1, <2>2 DEF Unrealized
  <1>8. AddFill(info, s, price, qty) =
            [position_ |-> new, real_pnl_ |-> info.real_pnl_ + rz, unreal_pnl_ |-> un,
             total_pnl_ |-> info.real_pnl_ + rz + un, open_vwap_ |-> nopen,
             volume_ |-> info.volume_ + qty]
    BY DEF AddFill
  <1> HIDE DEF new, rz, un, nopen
  <1>9. /\ info.real_pnl_ + rz \in Int /\ info.real_pnl_ + rz + un \in Int
        /\ info.volume_ + qty \in Nat
    BY <1>1, <1>6, <1>7
  <1> QED BY <1>2, <1>5, <1>7, <1>8, <1>9 DEF PositionInfo

\* PositionInfo::UpdateBbo changes what the position is valued at, and not
\* what it has cost.
LEMMA BboKeepsCost ==
    ASSUME NEW info \in PositionInfo, NEW bbo \in [Sides -> [price : Nat, qty : Nat]]
    PROVE  LET j == UpdateBbo(info, bbo)
           IN  /\ MidPrice(bbo) \in Nat /\ j \in PositionInfo
               /\ j.position_ = info.position_ /\ j.open_vwap_ = info.open_vwap_
               /\ j.real_pnl_ = info.real_pnl_ /\ Held(j) = Held(info)
               /\ Marks(info, bbo) =>
                    j.total_pnl_ = j.real_pnl_ + j.position_ * MidPrice(bbo) + Held(j)
               /\ ~Marks(info, bbo) => j = info
  <1> DEFINE m == MidPrice(bbo)
             u == Unrealized(info.position_, info.open_vwap_, m)
             j == UpdateBbo(info, bbo)
  <1>1. m \in Nat
    <2>1. /\ bbo["BUY"].price \in Nat /\ bbo["SELL"].price \in Nat
          /\ Scale \in Nat /\ (Scale \div 2) \in Nat
      BY ScaleAssumption DEF Sides
    <2> QED BY <2>1 DEF MidPrice
  <1>2. /\ info.position_ \in Int /\ info.real_pnl_ \in Int
        /\ info.open_vwap_["BUY"] \in Int /\ info.open_vwap_["SELL"] \in Int
    BY DEF PositionInfo, Sides
  <1> HIDE DEF m
  <1>3. u \in Int /\ u = info.position_ * m + Held(info) /\ Held(info) \in Int
    <2>1. CASE info.position_ = 0
      BY <1>1, <1>2, <2>1 DEF Unrealized, Held
    <2>2. CASE info.position_ > 0
      BY <1>1, <1>2, <2>2 DEF Unrealized, Held
    <2>3. CASE info.position_ < 0
      <3>1. u = info.open_vwap_["SELL"] - m * (-info.position_)
        BY <1>2, <2>3 DEF Unrealized, Abs
      <3> QED BY <1>1, <1>2, <2>3, <3>1 DEF Held
    <2> QED BY <1>2, <2>1, <2>2, <2>3
  <1> HIDE DEF u
  <1>4. CASE Marks(info, bbo)
    <2>1. j = [info EXCEPT !.unreal_pnl_ = u, !.total_pnl_ = u + info.real_pnl_]
      BY <1>4 DEF UpdateBbo, u, m
    <2>2. /\ j \in PositionInfo /\ j.total_pnl_ = u + info.real_pnl_
          /\ j.position_ = info.position_ /\ j.open_vwap_ = info.open_vwap_
          /\ j.real_pnl_ = info.real_pnl_
      <3>1. u + info.real_pnl_ \in Int
        BY <1>2, <1>3
      <3>2. ASSUME NEW v \in Int, NEW w \in Int
            PROVE  LET k == [info EXCEPT !.unreal_pnl_ = v, !.total_pnl_ = w]
                   IN  /\ k \in PositionInfo /\ k.total_pnl_ = w
                       /\ k.position_ = info.position_
                       /\ k.open_vwap_ = info.open_vwap_
                       /\ k.real_pnl_ = info.real_pnl_
        BY DEF PositionInfo
      <3> HIDE DEF j
      <3>3. j = [info EXCEPT !.unreal_pnl_ = u, !.total_pnl_ = u + info.real_pnl_]
              /\ u \in Int
        BY <1>3, <2>1
      <3> QED BY <3>1, <3>2, <3>3, Zenon
    <2>3. Held(j) = Held(info)
      BY <2>2 DEF Held
    <2>4. info.position_ * m \in Int
      BY <1>1, <1>2
    <2> HIDE DEF j
    <2>5. j.total_pnl_ = j.real_pnl_ + j.position_ * m + Held(j)
      BY <1>2, <1>3, <2>2, <2>3, <2>4
    <2> QED BY <1>1, <1>4, <2>2, <2>3, <2>5 DEF j, m
  <1>5. CASE ~Marks(info, bbo)
    BY <1>1, <1>5 DEF UpdateBbo, m
  <1> QED BY <1>4, <1>5

-----------------------------------------------------------------------------
(* Types, and the features an algorithm asks on.                           *)

\* A best bid and offer, unset or one of Bbos, is a pair of prices and
\* quantities.
LEMMA BboShape ==
    ASSUME NEW b \in Bbos \cup {[s \in Sides |-> Unset]}
    PROVE  /\ b \in [Sides -> [price : Nat, qty : Nat]]
           /\ TwoSided(b) =>
                /\ b["BUY"].price \in Nat \ {0} /\ b["SELL"].price \in Nat \ {0}
                /\ b["BUY"].qty \in Nat \ {0} /\ b["SELL"].qty \in Nat \ {0}
  <1>1. CASE b \in Bbos
    <2>1. /\ b \in [Sides -> [price : Nat, qty : Nat]]
          /\ \A s \in Sides : b[s].price # INVALID => b[s].qty > 0
      BY <1>1, SignalsAssumption
    <2> QED BY <2>1 DEF TwoSided, Sides, INVALID
  <1>2. CASE b = [s \in Sides |-> Unset]
    BY <1>2 DEF Unset, INVALID, TwoSided, Sides
  <1> QED BY <1>1, <1>2

Feature == [num : Nat, den : Nat]
Asks == [ticker : Tickers, feature : Feature, traded : Nat, bid : Nat, ask : Nat]
            \cup {Nothing}

\* FeatureEngine::OnOrderBookUpdate and MarketMaker::OnOrderBookUpdate.
LEMMA MakerTypes ==
    ASSUME TypeOK, NEW t \in Tickers, NEW b \in Bbos
    PROVE  MktPrice(b) \in Feature /\ MakerAsks(t, b, MktPrice(b)) \in Asks
  <1>1. mkt_price_ \in Feature
    BY DEF TypeOK, Feature
  <1>2. CASE TwoSided(b)
    <2>1. /\ b["BUY"].price \in Nat \ {0} /\ b["SELL"].price \in Nat \ {0}
          /\ b["BUY"].qty \in Nat \ {0} /\ b["SELL"].qty \in Nat \ {0}
      BY <1>2, BboShape
    <2>2. MktPrice(b) \in Feature
      BY <1>2, <2>1 DEF MktPrice, Quotient, Feature
    <2>3. CASE algo = "MAKER"
      <3> DEFINE x == MakerAsks(t, b, MktPrice(b))
      <3>1. \E p \in Nat, q \in Nat :
                x = [ticker |-> t, feature |-> MktPrice(b), traded |-> 0, bid |-> p, ask |-> q]
        <4> DEFINE p == b["BUY"].price -
                      IF AtLeast(MktPrice(b), b["BUY"].price + Threshold) THEN 0 ELSE 1
                   q == b["SELL"].price +
                      IF AtMost(MktPrice(b), b["SELL"].price - Threshold) THEN 0 ELSE 1
        <4>1. p \in Nat /\ q \in Nat
          BY <2>1
        <4>2. x = [ticker |-> t, feature |-> MktPrice(b), traded |-> 0, bid |-> p, ask |-> q]
          BY <1>2, <2>3 DEF MakerAsks
        <4> HIDE DEF p, q, x
        <4> QED BY <4>1, <4>2
      <3> HIDE DEF x
      <3>2. x \in Asks
        BY <2>2, <3>1 DEF Asks
      <3> QED BY <2>2, <3>2 DEF x
    <2>4. CASE algo # "MAKER"
      BY <2>2, <2>4 DEF MakerAsks, Asks
    <2> QED BY <2>3, <2>4
  <1>3. CASE ~TwoSided(b)
    BY <1>1, <1>3 DEF MktPrice, MakerAsks, Asks
  <1> QED BY <1>2, <1>3

\* FeatureEngine::OnTradeUpdate and LiquidityTaker::OnTradeUpdate.
LEMMA TakerTypes ==
    ASSUME TypeOK, NEW t \in Tickers, NEW s \in Sides, NEW qty \in Qtys
    PROVE  LET ratio == AggTradeQtyRatio(bbo_[t], s, qty)
           IN  ratio \in Feature /\ TakerAsks(t, bbo_[t], s, qty, ratio) \in Asks
  <1> DEFINE b == bbo_[t]
             ratio == AggTradeQtyRatio(b, s, qty)
  <1>1. /\ agg_trade_qty_ratio_ \in Feature /\ qty \in Nat
        /\ b \in Bbos \cup {[r \in Sides |-> Unset]}
    BY SignalsAssumption DEF TypeOK, Feature
  <1> HIDE DEF b
  <1>2. CASE TwoSided(b)
    <2>1. /\ b["BUY"].price \in Nat \ {0} /\ b["SELL"].price \in Nat \ {0}
          /\ b["BUY"].qty \in Nat \ {0} /\ b["SELL"].qty \in Nat \ {0}
      BY <1>1, <1>2, BboShape
    <2>2. ratio \in Feature
      BY <1>1, <1>2, <2>1 DEF AggTradeQtyRatio, Quotient, Feature, Opposite
    <2> HIDE DEF ratio
    <2>3. TakerAsks(t, b, s, qty, ratio) \in Asks
      BY <1>1, <1>2, <2>1, <2>2 DEF TakerAsks, Asks, INVALID
    <2> QED BY <2>2, <2>3 DEF b, ratio
  <1>3. CASE ~TwoSided(b)
    BY <1>1, <1>3 DEF AggTradeQtyRatio, TakerAsks, Asks, b
  <1> QED BY <1>2, <1>3

\* Every step keeps the types.
LEMMA StepTypeOK == TypeOK /\ [Next]_vars => TypeOK'
  <1> SUFFICES ASSUME TypeOK, [Next]_vars PROVE TypeOK'
    OBVIOUS
  <1>1. /\ algo \in Algos /\ garbage \in Garbage
        /\ bbo_ \in [Tickers -> Bbos \cup {[s \in Sides |-> Unset]}]
        /\ ticker_position_ \in [Tickers -> PositionInfo]
        /\ mkt_price_ \in Feature /\ agg_trade_qty_ratio_ \in Feature
        /\ asked \in Asks
        /\ fills \in 0 .. MaxFills /\ book_updates \in 0 .. MaxBookUpdates
        /\ MaxFills \in Nat /\ MaxBookUpdates \in Nat
    BY SignalsAssumption DEF TypeOK, Feature, Asks
  <1>2. ASSUME NEW t \in Tickers, NEW b \in Bbos, OnOrderBookUpdate(t, b)
        PROVE  TypeOK'
    <2>1. MktPrice(b) \in Feature /\ MakerAsks(t, b, MktPrice(b)) \in Asks
      BY MakerTypes
    <2>2. UpdateBbo(ticker_position_[t], b) \in PositionInfo
      BY <1>1, BboShape, BboKeepsCost
    <2>3. ticker_position_' \in [Tickers -> PositionInfo]
      BY <1>1, <1>2, <2>2 DEF OnOrderBookUpdate
    <2>4. bbo_' \in [Tickers -> Bbos \cup {[s \in Sides |-> Unset]}]
      BY <1>1, <1>2 DEF OnOrderBookUpdate
    <2>5. book_updates' \in 0 .. MaxBookUpdates
      BY <1>1, <1>2 DEF OnOrderBookUpdate
    <2> QED BY <1>1, <1>2, <2>1, <2>3, <2>4, <2>5
            DEF OnOrderBookUpdate, TypeOK, Feature, Asks
  <1>3. ASSUME NEW t \in Tickers, NEW s \in Sides, NEW qty \in Qtys,
               OnTradeUpdate(t, s, qty)
        PROVE  TypeOK'
    <2> DEFINE ratio == AggTradeQtyRatio(bbo_[t], s, qty)
    <2>1. ratio \in Feature /\ TakerAsks(t, bbo_[t], s, qty, ratio) \in Asks
      BY TakerTypes
    <2> QED BY <1>1, <1>3, <2>1 DEF OnTradeUpdate, historyVars, TypeOK, Feature, Asks
  <1>4. ASSUME NEW t \in Tickers, NEW s \in Sides, NEW price \in FillPrices,
               NEW qty \in Qtys, OnOrderUpdate(t, s, price, qty)
        PROVE  TypeOK'
    <2>1. price * Scale \in Int /\ qty \in Nat \ {0}
      BY SignalsAssumption, ScaleAssumption
    <2>2. AddFill(ticker_position_[t], s, price * Scale, qty) \in PositionInfo
      BY <1>1, <2>1, FillTypes
    <2>3. ticker_position_' \in [Tickers -> PositionInfo]
      BY <1>1, <1>4, <2>2 DEF OnOrderUpdate
    <2>4. fills' \in 0 .. MaxFills
      BY <1>1, <1>4 DEF OnOrderUpdate
    <2> QED BY <1>1, <1>4, <2>3, <2>4 DEF OnOrderUpdate, TypeOK, Feature, Asks
  <1>5. CASE UNCHANGED vars
    BY <1>5 DEF vars, TypeOK
  <1> QED BY <1>2, <1>3, <1>4, <1>5 DEF Next

\* The variables keep their types; a price that is asked for is never below
\* zero, and the denominator of a feature is a quantity.
THEOREM TypeCorrect == Spec => []TypeOK
  <1>1. Init => TypeOK
    <2> SUFFICES ASSUME Init PROVE TypeOK
      OBVIOUS
    <2>1. garbage \in [Sides -> Int]
      BY SignalsAssumption DEF Init
    <2>2. NewPosition(garbage) \in PositionInfo
      BY <2>1 DEF NewPosition, PositionInfo
    <2>3. FEATURE_INVALID \in [num : Nat, den : Nat]
      BY DEF FEATURE_INVALID, Quotient
    <2> QED BY <2>2, <2>3, SignalsAssumption DEF Init, TypeOK
  <1> QED BY <1>1, StepTypeOK, PTL DEF Spec

\* MarketMaker and LiquidityTaker act on exactly the feature that their
\* instrument's best bid and offer, both set, and the trade just seen give,
\* whatever the bests are, though the test for an invalid feature never fires
\* and all instruments share one feature.
THEOREM OwnFeature == Spec => []AsksOnOwnFeature
  <1>1. Init => AsksOnOwnFeature
    BY DEF Init, AsksOnOwnFeature
  <1>2. TypeOK /\ AsksOnOwnFeature /\ [Next]_vars => AsksOnOwnFeature'
    <2> SUFFICES ASSUME TypeOK, AsksOnOwnFeature, [Next]_vars PROVE AsksOnOwnFeature'
      OBVIOUS
    <2>0. bbo_ \in [Tickers -> Bbos \cup {[s \in Sides |-> Unset]}]
      BY DEF TypeOK
    <2>1. ASSUME NEW t \in Tickers, NEW b \in Bbos, OnOrderBookUpdate(t, b)
          PROVE  AsksOnOwnFeature'
      <3>1. /\ asked' = MakerAsks(t, b, MktPrice(b)) /\ bbo_'[t] = b /\ algo' = algo
        BY <2>0, <2>1 DEF OnOrderBookUpdate
      <3>2. CASE algo = "MAKER" /\ TwoSided(b)
        <4>1. b["BUY"].price # INVALID /\ b["SELL"].price # INVALID
          BY <3>2 DEF TwoSided, Sides
        <4>2. asked'.ticker = t /\ asked'.feature = MktPrice(b)
          BY <3>1, <3>2 DEF MakerAsks
        <4>3. MktPrice(b) = Quotient(b["BUY"].price * b["SELL"].qty +
                                         b["SELL"].price * b["BUY"].qty,
                                     b["BUY"].qty + b["SELL"].qty)
          BY <3>2 DEF MktPrice
        <4> QED BY <3>1, <3>2, <4>1, <4>2, <4>3 DEF AsksOnOwnFeature
      <3>3. CASE ~(algo = "MAKER" /\ TwoSided(b))
        BY <3>1, <3>3 DEF MakerAsks, AsksOnOwnFeature
      <3> QED BY <3>2, <3>3
    <2>2. ASSUME NEW t \in Tickers, NEW s \in Sides, NEW qty \in Qtys,
                 OnTradeUpdate(t, s, qty)
          PROVE  AsksOnOwnFeature'
      <3> DEFINE b == bbo_[t]
                 ratio == AggTradeQtyRatio(b, s, qty)
      <3>1. asked' = TakerAsks(t, b, s, qty, ratio) /\ bbo_'[t] = b /\ algo' = algo
        BY <2>2 DEF OnTradeUpdate
      <3>2. CASE algo = "TAKER" /\ TwoSided(b) /\ AtLeast(ratio, Threshold)
        <4>1. b["BUY"].price # INVALID /\ b["SELL"].price # INVALID
          BY <3>2 DEF TwoSided, Sides
        <4>2. ratio = Quotient(qty, b[Opposite(s)].qty)
          BY <3>2 DEF AggTradeQtyRatio
        <4>3. /\ asked'.ticker = t /\ asked'.feature = ratio /\ asked'.traded = qty
              /\ asked'.ask = IF s = "BUY" THEN INVALID ELSE b["BUY"].price
          BY <3>1, <3>2 DEF TakerAsks
        <4>4. (IF asked'.ask = INVALID THEN b["SELL"] ELSE b["BUY"]) = b[Opposite(s)]
          BY <4>1, <4>3 DEF Opposite, Sides
        <4>5. algo' # "MAKER"
          BY <3>1, <3>2
        <4> QED BY <3>1, <3>2, <4>1, <4>2, <4>3, <4>4, <4>5 DEF AsksOnOwnFeature
      <3>3. CASE ~(algo = "TAKER" /\ TwoSided(b) /\ AtLeast(ratio, Threshold))
        BY <3>1, <3>3 DEF TakerAsks, AsksOnOwnFeature
      <3> QED BY <3>2, <3>3
    <2>3. ASSUME NEW t \in Tickers, NEW s \in Sides, NEW price \in FillPrices,
                 NEW qty \in Qtys, OnOrderUpdate(t, s, price, qty)
          PROVE  AsksOnOwnFeature'
      BY <2>3 DEF OnOrderUpdate, AsksOnOwnFeature
    <2>4. CASE UNCHANGED vars
      BY <2>4 DEF vars, AsksOnOwnFeature
    <2> QED BY <2>1, <2>2, <2>3, <2>4 DEF Next
  <1> QED BY <1>1, <1>2, TypeCorrect, PTL DEF Spec

-----------------------------------------------------------------------------
(* Profit and loss.                                                        *)

\* The code divides what a position has cost by its size when a fill goes
\* against it, in double; here the quotient is to be a whole number.
GoesAgainst(t) ==
    LET p == ticker_position_[t].position_
        q == ticker_position_'[t].position_
    IN  (p > 0 /\ q < p) \/ (p < 0 /\ q > p)

ExactDivisions ==
    [][\A t \in Tickers : GoesAgainst(t) => Exact(ticker_position_[t])]_vars

Error(t) ==
    IF opened[t] = "INVALID" THEN 0 ELSE SideToValue(opened[t]) * garbage[opened[t]]

\* What an instrument has realized and what its open position has cost add up
\* to the money received less the money paid; the total is that and the
\* position at the last price.  open_vwap_ holds what the memory held until
\* the first fill, and nothing whenever the position is flat again.
MoneyInv ==
    /\ cash \in [Tickers -> Int] /\ mark \in [Tickers -> Int]
    /\ opened \in [Tickers -> Sides \cup {"INVALID"}]
    /\ \A t \in Tickers :
         LET info == ticker_position_[t]
         IN  /\ opened[t] = "INVALID" => info.position_ = 0 /\ info.open_vwap_ = garbage
             /\ opened[t] # "INVALID" /\ info.position_ = 0 =>
                  info.open_vwap_ = [r \in Sides |-> 0]
             /\ info.real_pnl_ + Held(info) = cash[t] - Error(t)
             /\ info.total_pnl_ =
                  info.real_pnl_ + info.position_ * mark[t] + Held(info)

\* A fill pays price times quantity, in units of money.
LEMMA Paid ==
    ASSUME NEW s \in Sides, NEW price \in Nat, NEW qty \in Nat
    PROVE  /\ SideToValue(s) * price * qty * Scale =
                SideToValue(s) * ((price * Scale) * qty)
           /\ SideToValue(s) * ((price * Scale) * qty) \in Int
  <1>1. Scale \in Nat
    BY ScaleAssumption
  <1>2. SideToValue(s) = 1 \/ SideToValue(s) = -1
    BY DEF SideToValue
  <1> QED BY <1>1, <1>2

\* A fill, an update of the book and a trade keep the accounts straight.
LEMMA StepMoneyInv ==
    ASSUME TypeOK, MoneyInv, [Next]_vars,
           [\A t \in Tickers : GoesAgainst(t) => Exact(ticker_position_[t])]_vars
    PROVE  MoneyInv'
  <1>1. /\ ticker_position_ \in [Tickers -> PositionInfo]
        /\ garbage \in [Sides -> Int] /\ cash \in [Tickers -> Int]
        /\ mark \in [Tickers -> Int] /\ opened \in [Tickers -> Sides \cup {"INVALID"}]
    BY SignalsAssumption DEF TypeOK, MoneyInv
  <1>2. \A t \in Tickers : Error(t) \in Int /\ Held(ticker_position_[t]) \in Int
    <2> SUFFICES ASSUME NEW t \in Tickers
                 PROVE  Error(t) \in Int /\ Held(ticker_position_[t]) \in Int
      OBVIOUS
    <2>1. \A s \in Sides : SideToValue(s) * garbage[s] \in Int
      BY <1>1 DEF SideToValue
    <2>2. /\ ticker_position_[t].open_vwap_["BUY"] \in Int
          /\ ticker_position_[t].open_vwap_["SELL"] \in Int
          /\ ticker_position_[t].position_ \in Int
      BY <1>1 DEF PositionInfo, Sides
    <2> QED BY <1>1, <2>1, <2>2 DEF Error, Held
  <1>3. ASSUME NEW t \in Tickers, NEW b \in Bbos, OnOrderBookUpdate(t, b)
        PROVE  MoneyInv'
    <2> DEFINE info == ticker_position_[t]
               j == UpdateBbo(info, b)
    <2>1. /\ MidPrice(b) \in Nat /\ j \in PositionInfo
          /\ j.position_ = info.position_ /\ j.open_vwap_ = info.open_vwap_
          /\ j.real_pnl_ = info.real_pnl_ /\ Held(j) = Held(info)
          /\ Marks(info, b) =>
               j.total_pnl_ = j.real_pnl_ + j.position_ * MidPrice(b) + Held(j)
          /\ ~Marks(info, b) => j = info
      BY <1>1, BboShape, BboKeepsCost
    <2>2. /\ ticker_position_'[t] = j
          /\ \A z \in Tickers : z # t => ticker_position_'[z] = ticker_position_[z]
      BY <1>1, <1>3 DEF OnOrderBookUpdate
    <2>3. /\ mark' \in [Tickers -> Int]
          /\ mark'[t] = IF Marks(info, b) THEN MidPrice(b) ELSE mark[t]
          /\ \A z \in Tickers : z # t => mark'[z] = mark[z]
      <3>1. CASE Marks(info, b)
        BY <1>1, <1>3, <2>1, <3>1 DEF OnOrderBookUpdate
      <3>2. CASE ~Marks(info, b)
        BY <1>1, <1>3, <3>2 DEF OnOrderBookUpdate
      <3> QED BY <3>1, <3>2
    <2>4. cash' = cash /\ opened' = opened /\ garbage' = garbage
      BY <1>3 DEF OnOrderBookUpdate
    <2>5. \A z \in Tickers : Error(z)' = Error(z)
      BY <2>4 DEF Error
    <2> HIDE DEF j
    <2>6. ASSUME NEW z \in Tickers
          PROVE  LET i == ticker_position_'[z]
                 IN  /\ opened[z] = "INVALID" =>
                          i.position_ = 0 /\ i.open_vwap_ = garbage
                     /\ opened[z] # "INVALID" /\ i.position_ = 0 =>
                          i.open_vwap_ = [r \in Sides |-> 0]
                     /\ i.real_pnl_ + Held(i) = cash[z] - Error(z)
                     /\ i.total_pnl_ = i.real_pnl_ + i.position_ * mark'[z] + Held(i)
      <3>1. CASE z # t
        BY <2>2, <2>3, <3>1 DEF MoneyInv
      <3>2. CASE z = t
        BY <2>1, <2>2, <2>3, <3>2 DEF MoneyInv
      <3> QED BY <3>1, <3>2
    <2> QED BY <1>1, <2>3, <2>4, <2>5, <2>6 DEF MoneyInv
  <1>4. ASSUME NEW t \in Tickers, NEW s \in Sides, NEW qty \in Qtys,
               OnTradeUpdate(t, s, qty)
        PROVE  MoneyInv'
    BY <1>4 DEF OnTradeUpdate, historyVars, MoneyInv, Error
  <1>5. ASSUME NEW t \in Tickers, NEW s \in Sides, NEW price \in FillPrices,
               NEW qty \in Qtys, OnOrderUpdate(t, s, price, qty)
        PROVE  MoneyInv'
    <2> DEFINE info == ticker_position_[t]
               P == price * Scale
               j == AddFill(info, s, P, qty)
               paid == SideToValue(s) * (P * qty)
    <2>1. /\ price \in Nat /\ P \in Int /\ qty \in Nat \ {0} /\ info \in PositionInfo
          /\ info.position_ \in Int /\ info.real_pnl_ \in Int
          /\ info.open_vwap_ \in [Sides -> Int]
      BY <1>1, SignalsAssumption, ScaleAssumption DEF PositionInfo
    <2>2. /\ ticker_position_'[t] = j
          /\ \A z \in Tickers : z # t => ticker_position_'[z] = ticker_position_[z]
          /\ ticker_position_' # ticker_position_
      <3>1. ticker_position_' = [ticker_position_ EXCEPT ![t] = j]
        BY <1>5 DEF OnOrderUpdate
      <3>2. j.position_ = info.position_ + qty * SideToValue(s)
        BY DEF AddFill
      <3>3. j.position_ # info.position_
        BY <2>1, <3>2 DEF SideToValue
      <3> HIDE DEF j
      <3> QED BY <1>1, <3>1, <3>3
    <2>3. info.position_ * SideToValue(s) < 0 => Exact(info)
      <3> SUFFICES ASSUME info.position_ * SideToValue(s) < 0 PROVE Exact(info)
        OBVIOUS
      <3>1. ticker_position_'[t].position_ = info.position_ + qty * SideToValue(s)
        BY <2>2 DEF AddFill
      <3>2. s = "BUY" \/ s = "SELL"
        BY DEF Sides
      <3>3. GoesAgainst(t)
        <4> DEFINE p == info.position_
        <4>1. CASE s = "BUY"
          <5>1. SideToValue(s) = 1
            BY <4>1 DEF SideToValue
          <5>2. p \in Int /\ p < 0 /\ p + qty * 1 > p
            BY <2>1, <5>1
          <5> QED BY <3>1, <5>1, <5>2 DEF GoesAgainst
        <4>2. CASE s = "SELL"
          <5>1. SideToValue(s) = -1
            BY <4>2 DEF SideToValue
          <5>2. p \in Int /\ p > 0 /\ p + qty * (-1) < p
            BY <2>1, <5>1
          <5> QED BY <3>1, <5>1, <5>2 DEF GoesAgainst
        <4> QED BY <3>2, <4>1, <4>2
      <3>4. vars' # vars
        BY <2>2 DEF vars
      <3> QED BY <3>3, <3>4
    <2>4. /\ j \in PositionInfo
          /\ j.real_pnl_ + Held(j) =
               info.real_pnl_ + Held(info) - paid
                 - IF info.position_ = 0 THEN SideToValue(s) * info.open_vwap_[s] ELSE 0
          /\ j.total_pnl_ = j.real_pnl_ + j.position_ * P + Held(j)
          /\ j.position_ = 0 => j.open_vwap_ = [r \in Sides |-> 0]
      BY <2>1, <2>3, FillKeepsCost
    <2>5. /\ cash'[t] = cash[t] - paid /\ mark'[t] = P /\ cash' \in [Tickers -> Int]
          /\ mark' \in [Tickers -> Int]
          /\ \A z \in Tickers : z # t => cash'[z] = cash[z] /\ mark'[z] = mark[z]
      <3> DEFINE a == SideToValue(s) * price * qty * Scale
      <3>1. a = paid /\ paid \in Int
        BY <2>1, Paid
      <3>2. cash' = [cash EXCEPT ![t] = @ - a] /\ mark' = [mark EXCEPT ![t] = P]
        BY <1>5 DEF OnOrderUpdate
      <3> HIDE DEF paid, P, a
      <3>3. cash' = [cash EXCEPT ![t] = cash[t] - paid] /\ cash[t] - paid \in Int
        BY <1>1, <3>1, <3>2
      <3> QED BY <1>1, <2>1, <3>2, <3>3
    <2>6. /\ opened' \in [Tickers -> Sides \cup {"INVALID"}] /\ garbage' = garbage
          /\ opened'[t] = IF opened[t] = "INVALID" THEN s ELSE opened[t]
          /\ opened'[t] # "INVALID"
          /\ \A z \in Tickers : z # t => opened'[z] = opened[z]
      <3>1. "INVALID" \notin Sides
        BY DEF Sides
      <3> QED BY <1>1, <1>5, <3>1 DEF OnOrderUpdate
    <2>7. \A z \in Tickers : z # t => Error(z)' = Error(z)
      BY <2>6 DEF Error
    <2>8. Error(t)' = Error(t) +
              IF info.position_ = 0 THEN SideToValue(s) * info.open_vwap_[s] ELSE 0
      <3>1. CASE opened[t] = "INVALID"
        <4>1. Error(t) = 0 /\ Error(t)' = SideToValue(s) * garbage[s]
          BY <2>6, <3>1 DEF Error, Sides
        <4>2. info.position_ = 0 /\ info.open_vwap_[s] = garbage[s]
          BY <3>1 DEF MoneyInv
        <4>3. SideToValue(s) * garbage[s] \in Int
          BY <1>1 DEF SideToValue
        <4> QED BY <4>1, <4>2, <4>3
      <3>2. CASE opened[t] # "INVALID"
        <4>1. Error(t)' = Error(t)
          BY <2>6, <3>2 DEF Error
        <4>2. info.position_ = 0 => info.open_vwap_[s] = 0
          BY <3>2 DEF MoneyInv
        <4>3. SideToValue(s) * 0 = 0
          BY DEF SideToValue
        <4> QED BY <1>2, <4>1, <4>2, <4>3
      <3> QED BY <3>1, <3>2
    <2>9. j.real_pnl_ + Held(j) = cash'[t] - Error(t)'
      <3>1. info.real_pnl_ + Held(info) = cash[t] - Error(t)
        BY DEF MoneyInv
      <3>2. /\ paid \in Int /\ cash[t] \in Int /\ Error(t) \in Int /\ Held(info) \in Int
            /\ (IF info.position_ = 0 THEN SideToValue(s) * info.open_vwap_[s] ELSE 0) \in Int
        <4>1. paid \in Int
          BY <2>1, Paid
        <4>2. SideToValue(s) * info.open_vwap_[s] \in Int
          BY <2>1 DEF SideToValue
        <4> QED BY <1>1, <1>2, <4>1, <4>2
      <3> DEFINE e == IF info.position_ = 0 THEN SideToValue(s) * info.open_vwap_[s] ELSE 0
                 a == j.real_pnl_ + Held(j)
                 c == Error(t)'
      <3>3. /\ a = info.real_pnl_ + Held(info) - paid - e /\ c = Error(t) + e
            /\ cash'[t] = cash[t] - paid /\ e \in Int
        BY <2>4, <2>5, <2>8, <3>2
      <3>4. a = cash'[t] - c
        <4> HIDE DEF a, c, e, paid, info
        <4> QED BY <2>1, <3>1, <3>2, <3>3
      <3> QED BY <3>4
    <2> HIDE DEF j
    <2>10. ASSUME NEW z \in Tickers
           PROVE  LET i == ticker_position_'[z]
                  IN  /\ opened'[z] = "INVALID" =>
                           i.position_ = 0 /\ i.open_vwap_ = garbage
                      /\ opened'[z] # "INVALID" /\ i.position_ = 0 =>
                           i.open_vwap_ = [r \in Sides |-> 0]
                      /\ i.real_pnl_ + Held(i) = cash'[z] - Error(z)'
                      /\ i.total_pnl_ = i.real_pnl_ + i.position_ * mark'[z] + Held(i)
      <3>1. CASE z # t
        BY <2>2, <2>5, <2>6, <2>7, <3>1 DEF MoneyInv
      <3>2. CASE z = t
        <4> HIDE DEF P
        <4> QED BY <2>2, <2>4, <2>5, <2>6, <2>9, <3>2
      <3> QED BY <3>1, <3>2
    <2> QED BY <2>5, <2>6, <2>10 DEF MoneyInv
  <1>6. CASE UNCHANGED vars
    BY <1>6 DEF vars, MoneyInv, Error
  <1> QED BY <1>3, <1>4, <1>5, <1>6 DEF Next

\* PositionInfo's total is what a liquidation would leave, through opening,
\* adding, reducing, turning round and being flat, for all prices and
\* quantities whose average prices are exact: the running averages of AddFill
\* and the updates of the book in between never lose or invent money, except
\* what open_vwap_ started with on the side of the first fill.
THEOREM AccountsBalance == Spec /\ ExactDivisions => []PnlIsCashAndMark
  <1>1. Init => MoneyInv
    <2> SUFFICES ASSUME Init PROVE MoneyInv
      OBVIOUS
    <2>1. \A t \in Tickers :
              /\ ticker_position_[t] = NewPosition(garbage)
              /\ cash[t] = 0 /\ mark[t] = 0 /\ opened[t] = "INVALID"
      BY DEF Init
    <2>2. /\ NewPosition(garbage).position_ = 0 /\ NewPosition(garbage).real_pnl_ = 0
          /\ NewPosition(garbage).total_pnl_ = 0
          /\ NewPosition(garbage).open_vwap_ = garbage
      BY DEF NewPosition
    <2>3. Held(NewPosition(garbage)) = 0
      BY <2>2 DEF Held
    <2>4. \A t \in Tickers : Error(t) = 0
      BY <2>1 DEF Error
    <2> QED BY <2>1, <2>2, <2>3, <2>4 DEF Init, MoneyInv
  <1>2. TypeOK /\ MoneyInv => PnlIsCashAndMark
    <2> SUFFICES ASSUME TypeOK, MoneyInv, NEW t \in Tickers
                 PROVE  ticker_position_[t].total_pnl_ =
                          cash[t] + ticker_position_[t].position_ * mark[t] - Error(t)
      BY DEF PnlIsCashAndMark, Error
    <2> DEFINE info == ticker_position_[t]
    <2>1. /\ info.real_pnl_ \in Int /\ info.position_ \in Int /\ cash[t] \in Int
          /\ info.open_vwap_["BUY"] \in Int /\ info.open_vwap_["SELL"] \in Int
          /\ mark[t] \in Int /\ garbage \in [Sides -> Int]
          /\ opened[t] \in Sides \cup {"INVALID"}
      BY SignalsAssumption DEF TypeOK, MoneyInv, PositionInfo, Sides
    <2>2. Held(info) \in Int
      BY <2>1 DEF Held
    <2>3. Error(t) \in Int
      <3>1. \A s \in Sides : SideToValue(s) * garbage[s] \in Int
        BY <2>1 DEF SideToValue
      <3> QED BY <2>1, <3>1 DEF Error
    <2>4. info.position_ * mark[t] \in Int
      BY <2>1
    <2>5. /\ info.real_pnl_ + Held(info) = cash[t] - Error(t)
          /\ info.total_pnl_ = info.real_pnl_ + info.position_ * mark[t] + Held(info)
      BY DEF MoneyInv
    <2> HIDE DEF info
    <2>6. info.total_pnl_ = cash[t] + info.position_ * mark[t] - Error(t)
      BY <2>1, <2>2, <2>3, <2>4, <2>5
    <2> QED BY <2>6 DEF info
  <1> DEFINE D == \A t \in Tickers : GoesAgainst(t) => Exact(ticker_position_[t])
  <1>3. TypeOK /\ MoneyInv /\ [Next]_vars /\ [D]_vars => MoneyInv'
    BY StepMoneyInv
  <1> QED BY <1>1, <1>2, <1>3, TypeCorrect, PTL DEF Spec, ExactDivisions
=============================================================================
