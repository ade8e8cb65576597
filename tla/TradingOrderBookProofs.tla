----------------------- MODULE TradingOrderBookProofs -----------------------
(***************************************************************************)
(* The circular lists, maps and pools of a trading client's book show the  *)
(* exchange's book, for pools of any size, any prices and any updates that *)
(* keep it uncrossed.                                                      *)
(***************************************************************************)
EXTENDS TradingOrderBook, FiniteSetTheorems, WellFoundedInduction, TLAPS

\* Different prices have different levels.
PricesApart == \A p, q \in Prices : PriceToIndex(p) = PriceToIndex(q) => p = q

OrderBlocks == 1 .. ME_MAX_ORDER_IDS
LevelBlocks == 1 .. ME_MAX_PRICE_LEVELS

-----------------------------------------------------------------------------
(* The invariant.                                                          *)

\* r is a list that closes: next leads from each block to the one after it,
\* prev back.
After(k, n) == IF k = n THEN 1 ELSE k + 1
Chain(obj, r, n) ==
    /\ n >= 1
    /\ \A k \in 1 .. n : /\ obj[r[k]].next = r[After(k, n)]
                          /\ obj[r[After(k, n)]].prev = r[k]
    /\ \A j, k \in 1 .. n : j # k => r[j] # r[k]
Cycle(obj, r) == Chain(obj, r, Len(r))

InList(x, r) == \E k \in 1 .. Len(r) : r[k] = x

\* The levels lv, of which those in ul are in use: R[s] is the list of side s
\* from the best one on, and the map pm finds each by its price.
Listed(lv, ul, r, n, s, first) ==
    /\ n = 0 <=> first = nullptr
    /\ n # 0 => Chain(lv, r, n) /\ r[1] = first
    /\ \A k \in 1 .. n : r[k] \in ul /\ lv[r[k]].side_ = s
    /\ \A j, k \in 1 .. n : j < k => Better(s, lv[r[j]].price_, lv[r[k]].price_)
Filed(lv, ul, R, pm) ==
    /\ \A l \in ul : /\ lv[l].side_ \in Sides /\ lv[l].price_ \in Prices
                     /\ InList(l, R[lv[l].side_])
                     /\ pm[PriceToIndex(lv[l].price_)] = l
    /\ \A i \in DOMAIN pm : pm[i] # nullptr =>
           pm[i] \in ul /\ PriceToIndex(lv[pm[i]].price_) = i
LevelsOk(lv, ul, R, bs, pm) ==
    /\ \A s \in Sides : Listed(lv, ul, R[s], Len(R[s]), s, bs[s])
    /\ Filed(lv, ul, R, pm)

\* The orders ob, of which those in uo are in use: Q[l] is the list of level
\* l, by age, and the map om finds each by its id.
Queued(ob, uo, q, n, v) ==
    /\ Chain(ob, q, n) /\ q[1] = v.first_mkt_order_
    /\ \A k \in 1 .. n : /\ q[k] \in uo
                         /\ ob[q[k]].price_ = v.price_ /\ ob[q[k]].side_ = v.side_
    /\ \A j, k \in 1 .. n : j < k => ob[q[j]].order_id_ < ob[q[k]].order_id_
Known(ob, uo, om, bk) ==
    /\ \A b \in uo :
           LET id == ob[b].order_id_
           IN  /\ id \in DOMAIN bk /\ om[id] = b
               /\ bk[id] = [side |-> ob[b].side_, price |-> ob[b].price_, qty |-> ob[b].qty_]
    /\ \A id \in DOMAIN om : om[id] # nullptr => id \in DOMAIN bk
    /\ \A id \in DOMAIN bk : om[id] \in uo /\ ob[om[id]].order_id_ = id
OrdersOk(ob, uo, lv, ul, Q) ==
    /\ \A l \in ul : Queued(ob, uo, Q[l], Len(Q[l]), lv[l])
    /\ \A b \in uo : \E l \in ul : InList(b, Q[l])

\* The lists that there are.
ListsOk(ob, uo, lv, ul, bs, pm) ==
    \E R \in [Sides -> Seq(LevelBlocks)], Q \in [LevelBlocks -> Seq(OrderBlocks)] :
        LevelsOk(lv, ul, R, bs, pm) /\ OrdersOk(ob, uo, lv, ul, Q)

\* The book of the updates.
BookOrder == [side : Sides, price : Prices, qty : 1 .. NewQty]
BookOk(ob, uo, om, bk, last) ==
    /\ bk \in [DOMAIN bk -> BookOrder]
    /\ DOMAIN bk \subseteq 1 .. last
    /\ DOMAIN bk \subseteq DOMAIN om
    /\ Known(ob, uo, om, bk)

\* The pools with their next block free, the maps and the two lists' heads.
Good(op, om, lp, pm, bs, bk, last) ==
    /\ op \in Pools(ME_MAX_ORDER_IDS, TradingOrder) /\ op.next_free_index_ \in Free(op)
    /\ lp \in Pools(ME_MAX_PRICE_LEVELS, TradingOrdersAtPrice)
    /\ lp.next_free_index_ \in Free(lp)
    /\ om \in [1 .. ME_MAX_ORDER_IDS - 1 -> 0 .. ME_MAX_ORDER_IDS]
    /\ pm \in [0 .. ME_MAX_PRICE_LEVELS - 1 -> 0 .. ME_MAX_PRICE_LEVELS]
    /\ bs \in [Sides -> 0 .. ME_MAX_PRICE_LEVELS]
    /\ last \in 0 .. ME_MAX_ORDER_IDS
    /\ BookOk(op.object_, InUse(op), om, bk, last)
    /\ ListsOk(op.object_, InUse(op), lp.object_, InUse(lp), bs, pm)

\* What every step keeps.
IInv ==
    /\ Good(order_pool_, oid_to_order_, orders_at_price_pool_, price_orders_at_price_,
            best, book, last_id)
    /\ bbo_ \in [Sides -> BBO] /\ running \in BOOLEAN
    /\ BboExactOrUnset /\ EndsOnlyAtItsLimits

-----------------------------------------------------------------------------
(* Numbers and functions defined by recursion.                             *)

\* A set of naturals that is not empty has a least element.
LEMMA Least ==
    ASSUME NEW T, T \subseteq Nat, T # {}
    PROVE  \E x \in T : \A y \in T : x <= y
  <1>1. PICK x \in T : \A y \in T : ~(<<y, x>> \in OpToRel(<, Nat))
    BY NatLessThanWellFounded, WFMin
  <1>2. \A y \in T : <<y, x>> \in OpToRel(<, Nat) <=> y < x
    BY DEF OpToRel
  <1>3. \A y \in T : ~(y < x)
    BY <1>1, <1>2
  <1> QED BY <1>3

\* The size of an interval.
LEMMA Interval ==
    ASSUME NEW b \in Nat
    PROVE  IsFiniteSet(1 .. b) /\ Cardinality(1 .. b) = b
  <1>1. 1 \in Int /\ b \in Int /\ 1 <= b + 1
    OBVIOUS
  <1>2. IsFiniteSet(1 .. b) /\ Cardinality(1 .. b) = b - 1 + 1
    BY <1>1, FS_Interval
  <1> QED BY <1>2

\* A function on 1 .. n is a sequence.
LEMMA SequenceOf ==
    ASSUME NEW E, NEW n \in Nat, NEW f \in [1 .. n -> E]
    PROVE  f \in Seq(E) /\ Len(f) = n /\ DOMAIN f = 1 .. n
  OBVIOUS

\* f is what the step functions g make of x.
Runs(f, S, x, g, n) ==
    f \in [0 .. n -> S] /\ f[0] = x /\ \A k \in 1 .. n : f[k] = g[k][f[k - 1]]

\* Step functions can be applied one after the other.
LEMMA Repeated ==
    ASSUME NEW S, NEW x \in S, NEW n \in Nat, NEW g \in [1 .. n -> [S -> S]]
    PROVE  \E f : Runs(f, S, x, g, n)
  <1> DEFINE Reaches(m) ==
                 \E f \in [0 .. m -> S] : f[0] = x /\ \A k \in 1 .. m : f[k] = g[k][f[k - 1]]
             T == {m \in 0 .. n : ~Reaches(m)}
  <1>1. Reaches(0)
    <2> DEFINE z == [k \in 0 .. 0 |-> x]
    <2>1. z \in [0 .. 0 -> S] /\ z[0] = x
      OBVIOUS
    <2>2. \A k \in 1 .. 0 : z[k] = g[k][z[k - 1]]
      OBVIOUS
    <2> HIDE DEF z
    <2> QED BY <2>1, <2>2
  <1>2. ASSUME NEW m \in 0 .. n, m + 1 \in 0 .. n, Reaches(m) PROVE Reaches(m + 1)
    <2>1. PICK f \in [0 .. m -> S] : f[0] = x /\ \A k \in 1 .. m : f[k] = g[k][f[k - 1]]
      BY <1>2
    <2>2. g[m + 1] \in [S -> S] /\ f[m] \in S
      BY <1>2
    <2>3. PICK y \in S : y = g[m + 1][f[m]]
      BY <2>2
    <2> DEFINE h == [k \in 0 .. m + 1 |-> IF k = m + 1 THEN y ELSE f[k]]
    <2>4. h \in [0 .. m + 1 -> S]
      OBVIOUS
    <2>5. h[0] = x
      BY <2>1
    <2>6. ASSUME NEW k \in 1 .. m + 1 PROVE h[k] = g[k][h[k - 1]]
      <3>1. CASE k = m + 1
        <4>1. h[k] = y /\ k - 1 = m /\ h[k - 1] = f[m]
          BY <3>1
        <4> QED BY <3>1, <4>1, <2>3
      <3>2. CASE k # m + 1
        <4>1. k \in 1 .. m /\ h[k] = f[k] /\ h[k - 1] = f[k - 1]
          BY <3>2
        <4> QED BY <4>1, <2>1
      <3> QED BY <3>1, <3>2
    <2> HIDE DEF h
    <2> QED BY <2>4, <2>5, <2>6
  <1>3. T = {}
    <2> SUFFICES ASSUME T # {} PROVE FALSE
      OBVIOUS
    <2>1. PICK m \in T : \A y \in T : m <= y
      <3>1. T \subseteq Nat
        OBVIOUS
      <3> HIDE DEF T
      <3> QED BY <3>1, Least
    <2>2. m # 0
      BY <1>1
    <2>3. m - 1 \in 0 .. n /\ m \in 0 .. n /\ m - 1 \notin T /\ (m - 1) + 1 = m
      <3>1. m \in 0 .. n
        OBVIOUS
      <3> HIDE DEF T
      <3> QED BY <2>1, <2>2, <3>1
    <2>4. Reaches(m - 1)
      <3> HIDE DEF Reaches
      <3> QED BY <2>3
    <2>5. Reaches((m - 1) + 1)
      <3> HIDE DEF Reaches
      <3> QED BY <1>2, <2>3, <2>4
    <2>6. ~Reaches(m)
      OBVIOUS
    <2> HIDE DEF Reaches
    <2> QED BY <2>3, <2>5, <2>6
  <1>4. n \in 0 .. n
    OBVIOUS
  <1>5. Reaches(n)
    BY <1>3, <1>4
  <1> QED BY <1>5 DEF Runs

\* Total is the last of the partial sums, a natural number.
LEMMA TotalIsNat ==
    ASSUME NEW q \in Seq(Nat)
    PROVE  Total(q) \in Nat
  <1> DEFINE n == Len(q)
             Sum(f) == f = [k \in 0 .. n |-> IF k = 0 THEN 0 ELSE f[k - 1] + q[k]]
             g == [k \in 1 .. n |-> [x \in Nat |-> x + q[k]]]
  <1>1. n \in Nat /\ \A k \in 1 .. n : q[k] \in Nat
    OBVIOUS
  <1>2. g \in [1 .. n -> [Nat -> Nat]]
    BY <1>1
  <1>3. PICK f \in [0 .. n -> Nat] : f[0] = 0 /\ \A k \in 1 .. n : f[k] = g[k][f[k - 1]]
    <2>1. 0 \in Nat /\ n \in Nat
      BY <1>1
    <2> HIDE DEF g, n
    <2>2. \E h : Runs(h, Nat, 0, g, n)
      BY <1>2, <2>1, Repeated, Zenon
    <2> QED BY <2>2 DEF Runs
  <1>4. \A k \in 1 .. n : f[k] = f[k - 1] + q[k]
    <2> TAKE k \in 1 .. n
    <2>0. k - 1 \in 0 .. n
      BY <1>1
    <2>1. f[k] = g[k][f[k - 1]] /\ f[k - 1] \in Nat
      BY <1>3, <2>0
    <2> QED BY <2>1
  <1>5. Sum(f)
    BY <1>1, <1>3, <1>4
  <1> DEFINE s == CHOOSE h : Sum(h)
  <1>6. Sum(s)
    BY <1>5
  <1>7. Total(q) = s[n]
    BY DEF Total
  <1> HIDE DEF s
  <1> DEFINE T == {k \in 0 .. n : s[k] \notin Nat}
  <1>8. s[0] = 0 /\ \A k \in 1 .. n : s[k] = s[k - 1] + q[k]
    BY <1>1, <1>6
  <1>9. T = {}
    <2> SUFFICES ASSUME T # {} PROVE FALSE
      OBVIOUS
    <2>1. PICK m \in T : \A y \in T : m <= y
      <3>1. T \subseteq Nat
        BY <1>1
      <3> HIDE DEF T
      <3> QED BY <3>1, Least
    <2>2. m \in 1 .. n /\ m - 1 \in 0 .. n /\ m - 1 \notin T
      BY <2>1, <1>1, <1>8
    <2>3. s[m - 1] \in Nat /\ s[m] = s[m - 1] + q[m] /\ q[m] \in Nat
      BY <2>2, <1>1, <1>8
    <2>4. s[m] \notin Nat
      OBVIOUS
    <2> QED BY <2>3, <2>4
  <1>10. n \in 0 .. n
    BY <1>1
  <1> QED BY <1>7, <1>9, <1>10

-----------------------------------------------------------------------------
(* Circular lists.                                                         *)

\* A list without repetition is no longer than there are blocks.
LEMMA NoLonger ==
    ASSUME NEW n \in Nat, NEW r \in Seq(1 .. n),
           \A j, k \in 1 .. Len(r) : j # k => r[j] # r[k]
    PROVE  Len(r) <= n
  <1>1. Len(r) \in Nat /\ r \in [1 .. Len(r) -> 1 .. n]
    OBVIOUS
  <1>2. r \in Injection(1 .. Len(r), 1 .. n)
    BY <1>1 DEF Injection, IsInjective
  <1>3. IsFiniteSet(1 .. n) /\ Cardinality(1 .. n) = n /\ Cardinality(1 .. Len(r)) = Len(r)
    BY <1>1, Interval
  <1>4. Cardinality(1 .. Len(r)) <= Cardinality(1 .. n)
    BY <1>2, <1>3, FS_Injection
  <1> QED BY <1>3, <1>4

\* Walking from the first block of a list finds the list.
LEMMA RingIs ==
    ASSUME NEW n \in Nat, NEW obj, DOMAIN obj = 1 .. n, NEW r \in Seq(1 .. n), Cycle(obj, r)
    PROVE  Ring(obj, r[1]) = r
  <1> DEFINE b == r[1]
             S == {r[k] : k \in 1 .. Len(r)}
             g == [k \in 1 .. n |-> [x \in S |-> obj[x].next]]
             Walk(h) == h = [m \in {0} \cup DOMAIN obj |-> IF m = 0 THEN b ELSE obj[h[m - 1]].next]
  <1>1. PICK L \in Nat : L = Len(r) /\ L >= 1
    BY DEF Cycle, Chain
  <1>2. /\ \A j, k \in 1 .. L : j # k => r[j] # r[k]
        /\ \A k \in 1 .. L : k # L => obj[r[k]].next = r[k + 1]
        /\ obj[r[L]].next = r[1]
    BY <1>1 DEF Cycle, Chain, After
  <1>3. L <= n
    BY <1>1, <1>2, NoLonger
  <1>4. \A x \in S : obj[x].next \in S
    <2> TAKE x \in S
    <2>1. PICK k \in 1 .. L : x = r[k]
      BY <1>1
    <2>2. obj[x].next = r[1] \/ (k + 1 \in 1 .. L /\ obj[x].next = r[k + 1])
      BY <2>1, <1>1, <1>2
    <2> QED BY <2>2, <1>1
  <1>5. b \in S
    BY <1>1
  <1>6. g \in [1 .. n -> [S -> S]]
    BY <1>4
  <1>7. PICK f : Runs(f, S, b, g, n)
    <2> HIDE DEF S, g, b
    <2> QED BY <1>5, <1>6, Repeated
  <1>8. f \in [0 .. n -> S] /\ f[0] = b /\ \A k \in 1 .. n : f[k] = g[k][f[k - 1]]
    BY <1>7 DEF Runs
  <1>9. \A k \in 1 .. n : f[k] = obj[f[k - 1]].next
    <2> TAKE k \in 1 .. n
    <2>1. k - 1 \in 0 .. n
      OBVIOUS
    <2>2. f[k - 1] \in S /\ f[k] = g[k][f[k - 1]]
      BY <1>8, <2>1
    <2> HIDE DEF S
    <2> QED BY <2>2
  <1>10. Walk(f)
    <2>1. {0} \cup DOMAIN obj = 0 .. n
      OBVIOUS
    <2>2. f = [m \in 0 .. n |-> IF m = 0 THEN b ELSE obj[f[m - 1]].next]
      <3> HIDE DEF S, b, g
      <3> QED BY <1>8, <1>9
    <2> HIDE DEF b
    <2> QED BY <2>1, <2>2
  <1> DEFINE at == CHOOSE h : Walk(h)
             Back(m) == at[m] = b /\ \A j \in 1 .. m - 1 : at[j] # b
             len == CHOOSE m \in DOMAIN obj : Back(m)
  <1>11. Walk(at)
    <2> HIDE DEF Walk
    <2> QED BY <1>10
  <1>12. Ring(obj, r[1]) = [k \in 1 .. len |-> at[k - 1]]
    BY DEF Ring
  <1>13. at[0] = b /\ \A m \in 1 .. n : at[m] = obj[at[m - 1]].next
    <2> HIDE DEF at
    <2> QED BY <1>11
  <1> HIDE DEF at, Walk, S, g
  <1> DEFINE T == {k \in 1 .. L : at[k - 1] # r[k]}
  <1>14. T = {}
    <2> SUFFICES ASSUME T # {} PROVE FALSE
      OBVIOUS
    <2>1. PICK k \in T : \A y \in T : k <= y
      <3>1. T \subseteq Nat
        OBVIOUS
      <3> HIDE DEF T
      <3> QED BY <3>1, Least
    <2>2. k \in 1 .. L /\ at[k - 1] # r[k]
      OBVIOUS
    <2>3. k # 1
      BY <2>2, <1>13
    <2>4. k - 1 \in 1 .. L /\ k - 1 \notin T
      <3> HIDE DEF T
      <3> QED BY <2>1, <2>2, <2>3
    <2>5. at[(k - 1) - 1] = r[k - 1]
      BY <2>4
    <2>6. k - 1 \in 1 .. n /\ k - 1 # L /\ (k - 1) + 1 = k
      BY <2>2, <2>4, <1>3
    <2>7. at[k - 1] = obj[r[k - 1]].next
      BY <2>5, <2>6, <1>13
    <2>8. obj[r[k - 1]].next = r[k]
      BY <2>4, <2>6, <1>2
    <2> QED BY <2>2, <2>7, <2>8
  <1>15. \A k \in 1 .. L : at[k - 1] = r[k]
    BY <1>14
  <1>16. at[L] = b
    <2>1. L \in 1 .. L /\ L \in 1 .. n
      BY <1>1, <1>3
    <2>2. at[L] = obj[at[L - 1]].next /\ at[L - 1] = r[L]
      BY <2>1, <1>13, <1>15
    <2> QED BY <2>2, <1>2
  <1>17. ASSUME NEW m \in 1 .. L - 1 PROVE at[m] # b
    <2>1. m + 1 \in 1 .. L /\ (m + 1) - 1 = m /\ m + 1 # 1 /\ 1 \in 1 .. L
      BY <1>1
    <2>2. at[(m + 1) - 1] = r[m + 1]
      BY <2>1, <1>15
    <2> QED BY <2>1, <2>2, <1>2
  <1>18. len = L
    <2>1. L \in DOMAIN obj /\ Back(L)
      BY <1>1, <1>3, <1>16, <1>17
    <2>2. ASSUME NEW m \in DOMAIN obj, Back(m) PROVE m = L
      <3>1. m \notin 1 .. L - 1
        BY <2>2, <1>17
      <3>2. L \notin 1 .. m - 1
        BY <2>2, <1>16
      <3>3. m \in Nat /\ m >= 1
        OBVIOUS
      <3> QED BY <3>1, <3>2, <3>3, <1>1
    <2>3. len \in DOMAIN obj /\ Back(len)
      <3> HIDE DEF Back
      <3> QED BY <2>1
    <2> HIDE DEF len, Back
    <2> QED BY <2>2, <2>3
  <1>19. r = [k \in 1 .. L |-> r[k]]
    BY <1>1
  <1>20. [k \in 1 .. L |-> at[k - 1]] = [k \in 1 .. L |-> r[k]]
    BY <1>15
  <1> HIDE DEF len
  <1> QED BY <1>12, <1>18, <1>19, <1>20

\* p is the list r of n blocks with x put at place k; d is r without place k.
IsPlaced(p, r, n, k, x) ==
    /\ p[k] = x
    /\ \A i \in 1 .. n + 1 : (i < k => p[i] = r[i]) /\ (i > k => p[i] = r[i - 1])
IsDropped(d, r, n, k) ==
    \A i \in 1 .. n - 1 : (i < k => d[i] = r[i]) /\ (i >= k => d[i] = r[i + 1])

\* The links after LinkBefore, and after Unlink.
LinkedTo(ob2, obj, n, new, target) ==
    \A c \in 1 .. n :
        /\ ob2[c].prev = IF c = target THEN new
                         ELSE IF c = new THEN obj[target].prev ELSE obj[c].prev
        /\ ob2[c].next = IF c = obj[target].prev THEN new
                         ELSE IF c = new THEN target ELSE obj[c].next
Unlinked(ob2, obj, n, b) ==
    \A c \in 1 .. n :
        /\ ob2[c].prev = IF c = b THEN nullptr
                         ELSE IF c = obj[b].next THEN obj[b].prev ELSE obj[c].prev
        /\ ob2[c].next = IF c = b THEN nullptr
                         ELSE IF c = obj[b].prev THEN obj[b].next ELSE obj[c].next

\* The links of a chain, one after the other and from the last to the first.
LEMMA ChainLinks ==
    ASSUME NEW obj, NEW r, NEW L \in Nat, Chain(obj, r, L)
    PROVE  /\ L >= 1
           /\ \A i, j \in 1 .. L : i # j => r[i] # r[j]
           /\ \A i, j \in 1 .. L : j = i + 1 => obj[r[i]].next = r[j] /\ obj[r[j]].prev = r[i]
           /\ obj[r[L]].next = r[1] /\ obj[r[1]].prev = r[L]
  BY DEF Chain, After

\* A chain is known by its links.
LEMMA ChainOf ==
    ASSUME NEW obj, NEW r, NEW L \in Nat, L >= 1,
           \A i, j \in 1 .. L : i # j => r[i] # r[j],
           \A i, j \in 1 .. L : j = i + 1 => obj[r[i]].next = r[j] /\ obj[r[j]].prev = r[i],
           obj[r[L]].next = r[1] /\ obj[r[1]].prev = r[L]
    PROVE  Chain(obj, r, L)
  BY DEF Chain, After

\* A list stays one when none of its links changes.
LEMMA ChainFrame ==
    ASSUME NEW obj, NEW ob2, NEW r, NEW L \in Nat, Chain(obj, r, L),
           \A k \in 1 .. L : ob2[r[k]].next = obj[r[k]].next /\ ob2[r[k]].prev = obj[r[k]].prev
    PROVE  Chain(ob2, r, L)
  <1>1. \A k \in 1 .. L : After(k, L) \in 1 .. L
    BY DEF After
  <1> QED BY <1>1 DEF Chain

\* A block linked before another one is in the list there; before the first one
\* is as well after the last one.
LEMMA ChainPlaced ==
    ASSUME NEW n \in Nat, NEW obj, NEW ob2, NEW r, NEW p, NEW L \in Nat, Chain(obj, r, L),
           NEW new \in 1 .. n, \A i \in 1 .. L : r[i] \in 1 .. n /\ r[i] # new,
           NEW k \in 1 .. L + 1, IsPlaced(p, r, L, k, new),
           NEW target, target = IF k = L + 1 THEN r[1] ELSE r[k],
           LinkedTo(ob2, obj, n, new, target)
    PROVE  Chain(ob2, p, L + 1)
  <1>1. /\ L >= 1
        /\ \A i, j \in 1 .. L : i # j => r[i] # r[j]
        /\ \A i, j \in 1 .. L : j = i + 1 => obj[r[i]].next = r[j] /\ obj[r[j]].prev = r[i]
        /\ obj[r[L]].next = r[1] /\ obj[r[1]].prev = r[L]
    BY ChainLinks
  <1>2. /\ p[k] = new
        /\ \A i \in 1 .. L + 1 : i < k => i \in 1 .. L /\ p[i] = r[i]
        /\ \A i \in 1 .. L + 1 : i > k => i - 1 \in 1 .. L /\ p[i] = r[i - 1]
    BY DEF IsPlaced
  <1>3. \A i \in 1 .. L + 1 : p[i] \in 1 .. n /\ (i # k => p[i] # new)
    <2> TAKE i \in 1 .. L + 1
    <2>1. CASE i = k
      BY <2>1, <1>2
    <2>2. CASE i < k
      BY <2>2, <1>2
    <2>3. CASE i > k
      BY <2>3, <1>2
    <2> QED BY <2>1, <2>2, <2>3
  <1>4. ASSUME NEW i \in 1 .. L + 1, NEW j \in 1 .. L + 1, i < j PROVE p[i] # p[j]
    <2>1. CASE i = k \/ j = k
      BY <2>1, <1>2, <1>3, <1>4
    <2>2. CASE i < k /\ j < k
      BY <2>2, <1>1, <1>2, <1>4
    <2>3. CASE i < k /\ j > k
      <3>1. i # j - 1
        BY <2>3
      <3> QED BY <2>3, <3>1, <1>1, <1>2
    <2>4. CASE i > k /\ j > k
      <3>1. i - 1 # j - 1
        BY <1>4
      <3> QED BY <2>4, <3>1, <1>1, <1>2
    <2> QED BY <2>1, <2>2, <2>3, <2>4, <1>4
  <1>5. \A i, j \in 1 .. L + 1 : i # j => p[i] # p[j]
    BY <1>4
  <1>6. PICK behind \in 1 .. L + 1 :
            behind # k /\ p[behind] = target /\ (IF k = L + 1 THEN behind = 1 ELSE behind = k + 1)
    <2>1. CASE k = L + 1
      <3>1. 1 \in 1 .. L + 1 /\ 1 < k
        BY <2>1, <1>1
      <3> QED BY <2>1, <3>1, <1>2
    <2>2. CASE k # L + 1
      <3>1. k + 1 \in 1 .. L + 1 /\ k + 1 > k /\ (k + 1) - 1 = k
        BY <2>2
      <3> QED BY <2>2, <3>1, <1>2
    <2> QED BY <2>1, <2>2
  <1>7. PICK before \in 1 .. L + 1 :
            before # k /\ p[before] = obj[target].prev
            /\ (IF k = 1 THEN before = L + 1 ELSE before = k - 1)
    <2>1. CASE k = 1
      <3>1. target = r[1] /\ L + 1 \in 1 .. L + 1 /\ L + 1 > k /\ (L + 1) - 1 = L
        BY <2>1, <1>1
      <3> QED BY <2>1, <3>1, <1>1, <1>2
    <2>2. CASE k = L + 1
      <3>1. target = r[1]
        BY <2>2
      <3>2. L = k - 1 /\ L \in 1 .. L + 1 /\ L < k /\ k # 1
        BY ONLY L \in Nat, <2>2, <1>1
      <3> QED BY <3>1, <3>2, <1>1, <1>2
    <2>3. CASE k # 1 /\ k # L + 1
      <3>1. target = r[k] /\ k - 1 < k /\ k - 1 \in 1 .. L /\ k \in 1 .. L /\ k = (k - 1) + 1
        BY <2>3, <1>1
      <3>2. obj[r[k]].prev = r[k - 1]
        BY <3>1, <1>1
      <3>3. k - 1 \in 1 .. L + 1 /\ k - 1 # k
        BY <3>1
      <3> QED BY <2>3, <3>1, <3>2, <3>3, <1>2
    <2> QED BY <2>1, <2>2, <2>3
  <1>8. ASSUME NEW i \in 1 .. L + 1, NEW j \in 1 .. L + 1,
               i = k => j = behind, j = k => i = before,
               i # k /\ j # k => i # before /\ j # behind
                                 /\ obj[p[i]].next = p[j] /\ obj[p[j]].prev = p[i]
        PROVE  ob2[p[i]].next = p[j] /\ ob2[p[j]].prev = p[i]
    <2>1. CASE i = k
      <3>1. p[i] = new /\ p[j] = target /\ p[i] # obj[target].prev
        BY <2>1, <1>2, <1>5, <1>6, <1>7, <1>8
      <3> QED BY <3>1, <1>3 DEF LinkedTo
    <2>2. CASE j = k
      <3>1. p[j] = new /\ p[i] = obj[target].prev /\ p[j] # target
        BY <2>2, <1>2, <1>5, <1>6, <1>7, <1>8
      <3> QED BY <3>1, <1>3 DEF LinkedTo
    <2>3. CASE i # k /\ j # k
      <3>1. p[i] # new /\ p[j] # new /\ p[i] # obj[target].prev /\ p[j] # target
        BY <2>3, <1>3, <1>5, <1>6, <1>7, <1>8
      <3>2. ob2[p[i]].next = obj[p[i]].next /\ ob2[p[j]].prev = obj[p[j]].prev
        BY <3>1, <1>3 DEF LinkedTo
      <3> QED BY <2>3, <3>2, <1>8
    <2> QED BY <2>1, <2>2, <2>3
  <1>9. ASSUME NEW i \in 1 .. L + 1, NEW j \in 1 .. L + 1, j = i + 1
        PROVE  ob2[p[i]].next = p[j] /\ ob2[p[j]].prev = p[i]
    <2>1. i = k => j = behind
      BY <1>9, <1>6
    <2>2. j = k => i = before
      BY <1>9, <1>7
    <2>3. i # k /\ j # k => i # before /\ j # behind
      BY <1>9, <1>6, <1>7
    <2>4. ASSUME i # k, j # k PROVE obj[p[i]].next = p[j] /\ obj[p[j]].prev = p[i]
      <3>1. CASE i < k
        <4>1. j < k
          BY <2>4, <3>1, <1>9
        <4>2. p[i] = r[i] /\ p[j] = r[j] /\ i \in 1 .. L /\ j \in 1 .. L
          BY <3>1, <4>1, <1>2
        <4> QED BY <4>2, <1>1, <1>9
      <3>2. CASE i > k
        <4>1. j > k /\ j - 1 = (i - 1) + 1
          BY <3>2, <1>9
        <4>2. p[i] = r[i - 1] /\ p[j] = r[j - 1] /\ i - 1 \in 1 .. L /\ j - 1 \in 1 .. L
          BY <3>2, <4>1, <1>2
        <4> QED BY <4>1, <4>2, <1>1
      <3> QED BY <2>4, <3>1, <3>2
    <2> QED BY <2>1, <2>2, <2>3, <2>4, <1>8
  <1>10. ob2[p[L + 1]].next = p[1] /\ ob2[p[1]].prev = p[L + 1]
    <2>0. L + 1 \in 1 .. L + 1 /\ 1 \in 1 .. L + 1
      BY <1>1
    <2>1. L + 1 = k => 1 = behind
      BY <1>6
    <2>2. 1 = k => L + 1 = before
      BY <1>7
    <2>3. L + 1 # k /\ 1 # k => L + 1 # before /\ 1 # behind
      BY <1>6, <1>7
    <2>4. ASSUME L + 1 # k, 1 # k
          PROVE  obj[p[L + 1]].next = p[1] /\ obj[p[1]].prev = p[L + 1]
      <3>1. 1 < k /\ L + 1 > k /\ (L + 1) - 1 = L
        BY <2>4
      <3>2. p[1] = r[1] /\ p[L + 1] = r[L]
        BY <3>1, <2>0, <1>2
      <3> QED BY <3>2, <1>1
    <2> QED BY <2>0, <2>1, <2>2, <2>3, <2>4, <1>8
  <1>11. L + 1 \in Nat /\ L + 1 >= 1
    OBVIOUS
  <1> QED BY <1>5, <1>9, <1>10, <1>11, ChainOf

\* The list without a block that is unlinked.
LEMMA ChainDropped ==
    ASSUME NEW n \in Nat, NEW obj, NEW ob2, NEW r, NEW d, NEW L \in Nat, Chain(obj, r, L),
           L >= 2, \A i \in 1 .. L : r[i] \in 1 .. n,
           NEW k \in 1 .. L, IsDropped(d, r, L, k), Unlinked(ob2, obj, n, r[k])
    PROVE  Chain(ob2, d, L - 1)
  <1>0. PICK M \in Nat : M = L - 1 /\ M >= 1
    OBVIOUS
  <1>1. /\ \A i, j \in 1 .. L : i # j => r[i] # r[j]
        /\ \A i, j \in 1 .. L : j = i + 1 => obj[r[i]].next = r[j] /\ obj[r[j]].prev = r[i]
        /\ obj[r[L]].next = r[1] /\ obj[r[1]].prev = r[L]
    BY ChainLinks
  <1>2. /\ \A i \in 1 .. M : i < k => i \in 1 .. L /\ d[i] = r[i]
        /\ \A i \in 1 .. M : i >= k => i + 1 \in 1 .. L /\ d[i] = r[i + 1]
    BY <1>0 DEF IsDropped
  <1>3. ASSUME NEW i \in 1 .. M PROVE d[i] \in 1 .. n /\ d[i] # r[k]
    <2>1. CASE i < k
      BY <2>1, <1>1, <1>2
    <2>2. CASE i >= k
      <3>1. i + 1 # k
        BY <2>2
      <3> QED BY <2>2, <3>1, <1>1, <1>2
    <2> QED BY <2>1, <2>2
  <1>4. ASSUME NEW i \in 1 .. M, NEW j \in 1 .. M, i < j PROVE d[i] # d[j]
    <2>1. CASE i < k /\ j < k
      BY <2>1, <1>1, <1>2, <1>4
    <2>2. CASE i < k /\ j >= k
      <3>1. i # j + 1
        BY <2>2
      <3> QED BY <2>2, <3>1, <1>1, <1>2
    <2>3. CASE i >= k /\ j >= k
      <3>1. i + 1 # j + 1
        BY <1>4
      <3> QED BY <2>3, <3>1, <1>1, <1>2
    <2> QED BY <2>1, <2>2, <2>3, <1>4
  <1>5. \A i, j \in 1 .. M : i # j => d[i] # d[j]
    BY <1>4
  <1>6. PICK before \in 1 .. M :
            d[before] = obj[r[k]].prev /\ (IF k = 1 THEN before = M ELSE before = k - 1)
    <2>1. CASE k = 1
      <3>1. M \in 1 .. M /\ M >= k /\ M + 1 = L
        BY <2>1, <1>0
      <3> QED BY <2>1, <3>1, <1>1, <1>2
    <2>2. CASE k # 1
      <3>1. k - 1 < k /\ k - 1 \in 1 .. L /\ k - 1 \in 1 .. M /\ k = (k - 1) + 1
        BY <2>2, <1>0
      <3> QED BY <2>2, <3>1, <1>1, <1>2
    <2> QED BY <2>1, <2>2
  <1>7. PICK behind \in 1 .. M :
            d[behind] = obj[r[k]].next /\ (IF k = L THEN behind = 1 ELSE behind = k)
    <2>1. CASE k = L
      <3>1. 1 \in 1 .. M /\ 1 < k
        BY <2>1, <1>0
      <3> QED BY <2>1, <3>1, <1>1, <1>2
    <2>2. CASE k # L
      <3>1. k + 1 \in 1 .. L /\ k \in 1 .. M /\ k >= k
        BY <2>2, <1>0
      <3> QED BY <2>2, <3>1, <1>1, <1>2
    <2> QED BY <2>1, <2>2
  <1>8. ASSUME NEW i \in 1 .. M, NEW j \in 1 .. M, i = before <=> j = behind,
               i # before => obj[d[i]].next = d[j] /\ obj[d[j]].prev = d[i]
        PROVE  ob2[d[i]].next = d[j] /\ ob2[d[j]].prev = d[i]
    <2>1. CASE i = before
      <3>1. d[i] = obj[r[k]].prev /\ d[j] = obj[r[k]].next
        BY <2>1, <1>6, <1>7, <1>8
      <3> QED BY <3>1, <1>3 DEF Unlinked
    <2>2. CASE i # before
      <3>1. d[i] # obj[r[k]].prev /\ d[j] # obj[r[k]].next
        BY <2>2, <1>5, <1>6, <1>7, <1>8
      <3>2. ob2[d[i]].next = obj[d[i]].next /\ ob2[d[j]].prev = obj[d[j]].prev
        BY <3>1, <1>3 DEF Unlinked
      <3> QED BY <2>2, <3>2, <1>8
    <2> QED BY <2>1, <2>2
  <1>9. ASSUME NEW i \in 1 .. M, NEW j \in 1 .. M, j = i + 1
        PROVE  ob2[d[i]].next = d[j] /\ ob2[d[j]].prev = d[i]
    <2>1. i = before <=> j = behind
      BY ONLY k \in 1 .. L, L \in Nat, i \in 1 .. M, j \in 1 .. M, before \in 1 .. M, behind \in 1 .. M,
              <1>0, <1>6, <1>7, <1>9
    <2>2. ASSUME i # before PROVE obj[d[i]].next = d[j] /\ obj[d[j]].prev = d[i]
      <3>1. CASE i < k
        <4>1. j < k
          BY <2>2, <3>1, <1>6, <1>9
        <4>2. d[i] = r[i] /\ d[j] = r[j] /\ i \in 1 .. L /\ j \in 1 .. L
          BY <3>1, <4>1, <1>2
        <4> QED BY <4>2, <1>1, <1>9
      <3>2. CASE i >= k
        <4>1. j >= k /\ j + 1 = (i + 1) + 1
          BY <3>2, <1>9
        <4>2. d[i] = r[i + 1] /\ d[j] = r[j + 1] /\ i + 1 \in 1 .. L /\ j + 1 \in 1 .. L
          BY <3>2, <4>1, <1>2
        <4> QED BY <4>1, <4>2, <1>1
      <3> QED BY <3>1, <3>2
    <2> QED BY <2>1, <2>2, <1>8
  <1>10. ob2[d[M]].next = d[1] /\ ob2[d[1]].prev = d[M]
    <2>0. M \in 1 .. M /\ 1 \in 1 .. M
      BY <1>0
    <2>1. M = before <=> 1 = behind
      BY ONLY k \in 1 .. L, L \in Nat, M \in Nat, before \in 1 .. M, behind \in 1 .. M,
              <1>0, <1>6, <1>7
    <2>2. ASSUME M # before PROVE obj[d[M]].next = d[1] /\ obj[d[1]].prev = d[M]
      <3>1. k # 1 /\ k # L
        BY <2>2, <1>0, <1>6
      <3>2. 1 < k /\ M >= k /\ M + 1 = L
        BY <3>1, <1>0
      <3>3. d[1] = r[1] /\ d[M] = r[L]
        BY <3>2, <2>0, <1>2
      <3> QED BY <3>3, <1>1
    <2> QED BY <2>0, <2>1, <2>2, <1>8
  <1>11. Chain(ob2, d, M)
    BY <1>0, <1>5, <1>9, <1>10, ChainOf
  <1> QED BY <1>0, <1>11

-----------------------------------------------------------------------------
(* The pools.                                                              *)

\* The pool after it: of the type, with the objects obs, the blocks used in use,
\* and a free block next.
PoolIs(pool, n, T, obs, used) ==
    /\ pool \in Pools(n, T) /\ pool.object_ = obs /\ InUse(pool) = used
    /\ pool.next_free_index_ \in Free(pool)

\* The blocks of a pool are free or in use.
LEMMA PoolBlocks ==
    ASSUME NEW n \in Nat, NEW T, NEW pool \in Pools(n, T)
    PROVE  /\ pool.object_ \in [1 .. n -> T] /\ pool.is_free_ \in [1 .. n -> BOOLEAN]
           /\ pool.next_free_index_ \in 1 .. n
           /\ Free(pool) = {c \in 1 .. n : pool.is_free_[c]}
           /\ InUse(pool) = {c \in 1 .. n : ~pool.is_free_[c]}
  <1>1. /\ pool.object_ \in [1 .. n -> T] /\ pool.is_free_ \in [1 .. n -> BOOLEAN]
        /\ pool.next_free_index_ \in 1 .. n
    BY DEF Pools
  <1>2. DOMAIN pool.is_free_ = 1 .. n
    BY <1>1
  <1>3. Free(pool) = {c \in 1 .. n : pool.is_free_[c]}
    BY <1>2 DEF Free
  <1>4. InUse(pool) = {c \in 1 .. n : ~pool.is_free_[c]}
    BY <1>2, <1>3 DEF InUse
  <1> QED BY <1>1, <1>3, <1>4

\* A function to the truth values is the set where it is true.
LEMMA Marked ==
    ASSUME NEW S, NEW g \in [S -> BOOLEAN], NEW free, \A c \in S : g[c] <=> c \in free
    PROVE  g = [c \in S |-> c \in free]
  <1>1. \A c \in S : g[c] = (c \in free)
    <2> TAKE c \in S
    <2>1. g[c] \in BOOLEAN
      OBVIOUS
    <2>2. g[c] <=> c \in free
      OBVIOUS
    <2> QED BY <2>1, <2>2
  <1> QED BY <1>1

\* A pool made of its three parts.
LEMMA PoolOf ==
    ASSUME NEW n \in Nat, NEW T, NEW obs \in [1 .. n -> T], NEW free \in SUBSET (1 .. n),
           NEW next \in free, NEW pool,
           pool = [object_ |-> obs, is_free_ |-> [c \in 1 .. n |-> c \in free],
                   next_free_index_ |-> next]
    PROVE  PoolIs(pool, n, T, obs, (1 .. n) \ free)
  <1>1. /\ pool.object_ = obs /\ pool.next_free_index_ = next
        /\ pool.is_free_ = [c \in 1 .. n |-> c \in free]
    OBVIOUS
  <1>2. [c \in 1 .. n |-> c \in free] \in [1 .. n -> BOOLEAN]
    OBVIOUS
  <1>3. next \in 1 .. n
    OBVIOUS
  <1>4. pool \in Pools(n, T)
    BY <1>2, <1>3 DEF Pools
  <1>5. Free(pool) = {c \in 1 .. n : pool.is_free_[c]}
        /\ InUse(pool) = {c \in 1 .. n : ~pool.is_free_[c]}
    BY <1>4, PoolBlocks
  <1>6. \A c \in 1 .. n : pool.is_free_[c] <=> c \in free
    BY <1>1
  <1>7. Free(pool) = free /\ InUse(pool) = (1 .. n) \ free
    BY <1>5, <1>6
  <1> QED BY <1>1, <1>4, <1>7 DEF PoolIs

\* Blocks of a pool as a set.
LEMMA PoolIsOf ==
    ASSUME NEW n \in Nat, NEW T, NEW pool \in Pools(n, T)
    PROVE  /\ pool.is_free_ = [c \in 1 .. n |-> c \in Free(pool)]
           /\ Free(pool) \subseteq 1 .. n /\ InUse(pool) = (1 .. n) \ Free(pool)
           /\ DOMAIN pool.is_free_ = 1 .. n
  <1>1. pool.is_free_ \in [1 .. n -> BOOLEAN] /\ Free(pool) = {c \in 1 .. n : pool.is_free_[c]}
        /\ InUse(pool) = {c \in 1 .. n : ~pool.is_free_[c]}
    BY PoolBlocks
  <1>2. \A c \in 1 .. n : pool.is_free_[c] <=> c \in Free(pool)
    BY <1>1
  <1>3. pool.is_free_ = [c \in 1 .. n |-> c \in Free(pool)]
    BY <1>1, <1>2, Marked
  <1> QED BY <1>1, <1>3

\* The search for the next block finds a free one.
LEMMA NextIsFree ==
    ASSUME NEW n \in Nat, NEW free \in SUBSET (1 .. n), free # {}, NEW b \in 1 .. n
    PROVE  UpdateNextFreeIndex(free, b) \in free
  <1> DEFINE later == {c \in free : c > b}
             among == IF later = {} THEN free ELSE later
  <1>1. among \subseteq free /\ among # {} /\ among \subseteq Nat
    <2>1. free \subseteq Nat
      OBVIOUS
    <2>2. CASE later = {}
      BY <2>1, <2>2
    <2>3. CASE later # {}
      BY <2>1, <2>3
    <2> QED BY <2>2, <2>3
  <1>2. UpdateNextFreeIndex(free, b) = CHOOSE c \in among : \A d \in among : c <= d
    BY DEF UpdateNextFreeIndex
  <1> HIDE DEF among
  <1>3. \E c \in among : \A d \in among : c <= d
    BY <1>1, Least
  <1> QED BY <1>1, <1>2, <1>3

\* An allocation takes a block that was free.
LEMMA Allocated ==
    ASSUME NEW n \in Nat, NEW T, NEW pool \in Pools(n, T), CanAllocate(pool), NEW object,
           NEW obs \in [1 .. n -> T], NEW pool2,
           pool2 = [Allocate(pool, object) EXCEPT !.object_ = obs]
    PROVE  /\ pool.next_free_index_ \in (1 .. n) \ InUse(pool)
           /\ PoolIs(pool2, n, T, obs, InUse(pool) \cup {pool.next_free_index_})
  <1>1. PICK b : b = pool.next_free_index_
    OBVIOUS
  <1>2. PICK free : free = Free(pool)
    OBVIOUS
  <1>3. /\ b \in 1 .. n /\ free \subseteq 1 .. n /\ InUse(pool) = (1 .. n) \ free
        /\ pool.is_free_ = [c \in 1 .. n |-> c \in free]
    BY <1>1, <1>2, PoolBlocks, PoolIsOf
  <1>4. b \in free /\ free # {b}
    BY <1>1, <1>2 DEF CanAllocate
  <1>5. PICK next : next = UpdateNextFreeIndex(free \ {b}, b)
    OBVIOUS
  <1>6. free \ {b} # {} /\ free \ {b} \in SUBSET (1 .. n)
    BY <1>3, <1>4
  <1>7. next \in free \ {b}
    BY <1>3, <1>5, <1>6, NextIsFree
  <1>8. [pool.is_free_ EXCEPT ![b] = FALSE] = [c \in 1 .. n |-> c \in free \ {b}]
    <2>1. PICK g : g = [pool.is_free_ EXCEPT ![b] = FALSE]
      OBVIOUS
    <2>2. pool.is_free_ \in [1 .. n -> BOOLEAN]
      BY PoolBlocks
    <2>3. g \in [1 .. n -> BOOLEAN]
      BY <2>1, <2>2
    <2>4. \A c \in 1 .. n : pool.is_free_[c] <=> c \in free
      BY <1>3
    <2>5. \A c \in 1 .. n : g[c] <=> c \in free \ {b}
      BY <2>1, <2>2, <2>4
    <2>6. PICK rest : rest = free \ {b}
      OBVIOUS
    <2>7. \A c \in 1 .. n : g[c] <=> c \in rest
      BY <2>5, <2>6
    <2>8. g = [c \in 1 .. n |-> c \in rest]
      BY ONLY <2>3, <2>7, Marked
    <2> QED BY ONLY <2>1, <2>6, <2>8
  <1>9. pool2 = [object_ |-> obs, is_free_ |-> [c \in 1 .. n |-> c \in free \ {b}],
                 next_free_index_ |-> next]
    BY <1>1, <1>2, <1>5, <1>8 DEF Allocate
  <1>10. PoolIs(pool2, n, T, obs, (1 .. n) \ (free \ {b}))
    BY ONLY n \in Nat, obs \in [1 .. n -> T], <1>6, <1>7, <1>9, PoolOf
  <1>11. (1 .. n) \ (free \ {b}) = InUse(pool) \cup {b}
    BY <1>3
  <1> QED BY <1>1, <1>3, <1>4, <1>10, <1>11

\* A deallocation gives a block back.
LEMMA Deallocated ==
    ASSUME NEW n \in Nat, NEW T, NEW pool \in Pools(n, T),
           pool.next_free_index_ \in Free(pool), NEW blocks,
           NEW obs \in [1 .. n -> T], NEW pool2,
           pool2 = Deallocate([pool EXCEPT !.object_ = obs], blocks)
    PROVE  PoolIs(pool2, n, T, obs, InUse(pool) \ blocks)
  <1>2. PICK free : free = Free(pool)
    OBVIOUS
  <1>3. /\ free \subseteq 1 .. n /\ InUse(pool) = (1 .. n) \ free
        /\ pool.is_free_ = [c \in 1 .. n |-> c \in free]
    BY <1>2, PoolIsOf
  <1>4. PICK next : next = pool.next_free_index_
    OBVIOUS
  <1>5. PICK more : more = {c \in 1 .. n : c \in free \/ c \in blocks}
    OBVIOUS
  <1>6. next \in more /\ more \in SUBSET (1 .. n)
    BY <1>2, <1>3, <1>4, <1>5
  <1>7. pool2 = [[pool EXCEPT !.object_ = obs] EXCEPT !.is_free_ =
                    [c \in DOMAIN pool.is_free_ |-> pool.is_free_[c] \/ c \in blocks]]
    BY DEF Deallocate, Pools
  <1>8. [c \in DOMAIN pool.is_free_ |-> pool.is_free_[c] \/ c \in blocks]
            = [c \in 1 .. n |-> c \in more]
    <2>1. PICK g : g = [c \in DOMAIN pool.is_free_ |-> pool.is_free_[c] \/ c \in blocks]
      OBVIOUS
    <2>2. DOMAIN pool.is_free_ = 1 .. n
      BY <1>3
    <2>3. g \in [1 .. n -> BOOLEAN]
      BY <2>1, <2>2
    <2>4. \A c \in 1 .. n : pool.is_free_[c] <=> c \in free
      BY <1>3
    <2>5. \A c \in 1 .. n : g[c] <=> c \in more
      BY <2>1, <2>2, <2>4, <1>5
    <2>6. g = [c \in 1 .. n |-> c \in more]
      BY ONLY <2>3, <2>5, Marked
    <2> QED BY ONLY <2>1, <2>6
  <1>9. pool2 = [object_ |-> obs, is_free_ |-> [c \in 1 .. n |-> c \in more],
                 next_free_index_ |-> next]
    BY <1>4, <1>7, <1>8 DEF Pools
  <1>10. PoolIs(pool2, n, T, obs, (1 .. n) \ more)
    BY ONLY n \in Nat, obs \in [1 .. n -> T], <1>6, <1>9, PoolOf
  <1>11. (1 .. n) \ more = InUse(pool) \ blocks
    BY <1>3, <1>5
  <1> QED BY <1>10, <1>11

\* Changing the objects changes nothing else.
LEMMA Rewritten ==
    ASSUME NEW n \in Nat, NEW T, NEW pool \in Pools(n, T),
           pool.next_free_index_ \in Free(pool),
           NEW obs \in [1 .. n -> T], NEW pool2, pool2 = [pool EXCEPT !.object_ = obs]
    PROVE  PoolIs(pool2, n, T, obs, InUse(pool))
  <1>3. /\ Free(pool) \subseteq 1 .. n /\ InUse(pool) = (1 .. n) \ Free(pool)
        /\ pool.is_free_ = [c \in 1 .. n |-> c \in Free(pool)]
    BY PoolIsOf
  <1>4. PICK next \in Free(pool) : next = pool.next_free_index_
    OBVIOUS
  <1>9. pool2 = [object_ |-> obs, is_free_ |-> [c \in 1 .. n |-> c \in Free(pool)],
                 next_free_index_ |-> next]
    BY <1>3, <1>4 DEF Pools
  <1>10. PoolIs(pool2, n, T, obs, (1 .. n) \ Free(pool))
    BY <1>3, <1>9, PoolOf
  <1> QED BY <1>3, <1>10

-----------------------------------------------------------------------------
(* Lists with an element more or less.                                     *)

\* An element can be put at any place.
LEMMA Places ==
    ASSUME NEW E, NEW r \in Seq(E), NEW L \in Nat, L = Len(r), NEW k \in 1 .. L + 1, NEW x \in E
    PROVE  \E p \in Seq(E) : Len(p) = L + 1 /\ IsPlaced(p, r, L, k, x)
  <1> DEFINE p == [i \in 1 .. L + 1 |-> IF i < k THEN r[i] ELSE IF i = k THEN x ELSE r[i - 1]]
  <1>1. \A i \in 1 .. L : r[i] \in E
    OBVIOUS
  <1>2. \A i \in 1 .. L + 1 :
            /\ i < k => p[i] = r[i] /\ i \in 1 .. L
            /\ i = k => p[i] = x
            /\ i > k => p[i] = r[i - 1] /\ i - 1 \in 1 .. L
    OBVIOUS
  <1>3. p \in [1 .. L + 1 -> E]
    <2>1. \A i \in 1 .. L + 1 : i < k \/ i = k \/ i > k
      OBVIOUS
    <2>2. \A i \in 1 .. L + 1 : p[i] \in E
      BY <2>1, <1>1, <1>2
    <2>3. p = [i \in 1 .. L + 1 |-> p[i]]
      OBVIOUS
    <2> HIDE DEF p
    <2> QED BY <2>2, <2>3
  <1>4. L + 1 \in Nat
    OBVIOUS
  <1> HIDE DEF p
  <1>5. p \in Seq(E) /\ Len(p) = L + 1
    BY <1>3, <1>4, SequenceOf
  <1>6. IsPlaced(p, r, L, k, x)
    BY <1>2 DEF IsPlaced
  <1> QED BY <1>5, <1>6

\* And taken from any place.
LEMMA Drops ==
    ASSUME NEW E, NEW r \in Seq(E), NEW L \in Nat, L = Len(r), NEW k \in 1 .. L
    PROVE  \E d \in Seq(E) : Len(d) = L - 1 /\ IsDropped(d, r, L, k)
  <1> DEFINE d == [i \in 1 .. L - 1 |-> IF i < k THEN r[i] ELSE r[i + 1]]
  <1>1. \A i \in 1 .. L : r[i] \in E
    OBVIOUS
  <1>2. \A i \in 1 .. L - 1 :
            /\ i < k => d[i] = r[i] /\ i \in 1 .. L
            /\ i >= k => d[i] = r[i + 1] /\ i + 1 \in 1 .. L
    OBVIOUS
  <1>3. d \in [1 .. L - 1 -> E]
    <2>1. \A i \in 1 .. L - 1 : i < k \/ i >= k
      OBVIOUS
    <2>2. \A i \in 1 .. L - 1 : d[i] \in E
      BY <2>1, <1>1, <1>2
    <2>3. d = [i \in 1 .. L - 1 |-> d[i]]
      OBVIOUS
    <2> HIDE DEF d
    <2> QED BY <2>2, <2>3
  <1>4. L - 1 \in Nat
    OBVIOUS
  <1> HIDE DEF d
  <1>5. d \in Seq(E) /\ Len(d) = L - 1
    BY <1>3, <1>4, SequenceOf
  <1>6. IsDropped(d, r, L, k)
    BY <1>2 DEF IsDropped
  <1> QED BY <1>5, <1>6

\* What is in a list with x put into it.
LEMMA InPlaced ==
    ASSUME NEW r, NEW p, NEW L \in Nat, L = Len(r), Len(p) = L + 1,
           NEW k \in 1 .. L + 1, NEW x, IsPlaced(p, r, L, k, x)
    PROVE  /\ InList(x, p) /\ \A y : InList(y, r) => InList(y, p)
           /\ \A i \in 1 .. L + 1 : p[i] = x \/ \E j \in 1 .. L : p[i] = r[j]
  <1>1. InList(x, p)
    BY DEF InList, IsPlaced
  <1>2. ASSUME NEW y, InList(y, r) PROVE InList(y, p)
    <2>1. PICK j \in 1 .. L : r[j] = y
      BY <1>2 DEF InList
    <2>2. CASE j < k
      <3>1. j \in 1 .. L + 1 /\ p[j] = r[j]
        BY <2>2 DEF IsPlaced
      <3> QED BY <2>1, <3>1 DEF InList
    <2>3. CASE j >= k
      <3>1. j + 1 \in 1 .. L + 1 /\ j + 1 > k /\ (j + 1) - 1 = j
        BY <2>3
      <3>2. p[j + 1] = r[j]
        BY <3>1 DEF IsPlaced
      <3> QED BY <2>1, <3>1, <3>2 DEF InList
    <2> QED BY <2>2, <2>3
  <1>3. ASSUME NEW i \in 1 .. L + 1 PROVE p[i] = x \/ \E j \in 1 .. L : p[i] = r[j]
    <2>1. CASE i = k
      BY <2>1 DEF IsPlaced
    <2>2. CASE i < k
      <3>1. i \in 1 .. L /\ p[i] = r[i]
        BY <2>2 DEF IsPlaced
      <3> QED BY <3>1
    <2>3. CASE i > k
      <3>1. i - 1 \in 1 .. L /\ p[i] = r[i - 1]
        BY <2>3 DEF IsPlaced
      <3> QED BY <3>1
    <2> QED BY <2>1, <2>2, <2>3
  <1> QED BY <1>1, <1>2, <1>3

\* What is in a list without what was at place k.
LEMMA InDropped ==
    ASSUME NEW r, NEW d, NEW L \in Nat, L = Len(r), Len(d) = L - 1,
           NEW k \in 1 .. L, IsDropped(d, r, L, k)
    PROVE  /\ \A y : InList(y, r) /\ y # r[k] => InList(y, d)
           /\ \A i \in 1 .. L - 1 : \E j \in 1 .. L : j # k /\ d[i] = r[j]
  <1>1. ASSUME NEW y, InList(y, r), y # r[k] PROVE InList(y, d)
    <2>1. PICK j \in 1 .. L : r[j] = y
      BY <1>1 DEF InList
    <2>2. CASE j < k
      <3>1. j \in 1 .. L - 1 /\ d[j] = r[j]
        BY <2>2 DEF IsDropped
      <3> QED BY <2>1, <3>1 DEF InList
    <2>3. CASE j > k
      <3>1. j - 1 \in 1 .. L - 1 /\ j - 1 >= k /\ (j - 1) + 1 = j
        BY <2>3
      <3>2. d[j - 1] = r[j]
        BY <3>1 DEF IsDropped
      <3> QED BY <2>1, <3>1, <3>2 DEF InList
    <2> QED BY <2>1, <2>2, <2>3, <1>1
  <1>2. ASSUME NEW i \in 1 .. L - 1 PROVE \E j \in 1 .. L : j # k /\ d[i] = r[j]
    <2>1. CASE i < k
      <3>1. i \in 1 .. L /\ d[i] = r[i]
        BY <2>1 DEF IsDropped
      <3> QED BY <2>1, <3>1
    <2>2. CASE i >= k
      <3>1. i + 1 \in 1 .. L /\ d[i] = r[i + 1] /\ i + 1 # k
        BY <2>2 DEF IsDropped
      <3> QED BY <3>1
    <2> QED BY <2>1, <2>2
  <1> QED BY <1>1, <1>2

-----------------------------------------------------------------------------
(* The levels.                                                             *)

\* Prices are ordered, from the best of a side on.
LEMMA BetterIsOrder ==
    ASSUME NEW s, NEW p \in Nat, NEW q \in Nat, NEW t \in Nat
    PROVE  /\ ~Better(s, p, p)
           /\ Better(s, p, q) => ~Better(s, q, p)
           /\ Better(s, p, q) /\ Better(s, q, t) => Better(s, p, t)
           /\ p = q \/ Better(s, p, q) \/ Better(s, q, p)
  BY DEF Better

\* Two versions of a level with the same label, and with the same links too.
SameLabel(v, w) == v.side_ = w.side_ /\ v.price_ = w.price_
SameLinks(v, w) == v.next = w.next /\ v.prev = w.prev
Labels(lv2, lv, n) == \A c \in 1 .. n : SameLabel(lv2[c], lv[c])

\* Only the object in block b has changed.
Beside(ob2, ob, n, b) == \A c \in 1 .. n : c # b => ob2[c] = ob[c]

\* Where a price belongs in the list of a side.
Belongs(lv, r, L, s, price, k) ==
    \A i \in 1 .. L : /\ i < k => Better(s, lv[r[i]].price_, price)
                      /\ i >= k => Better(s, price, lv[r[i]].price_)

\* The list of a side is one still when its levels have not changed.
LEMMA ListedFrame ==
    ASSUME NEW lv, NEW lv2, NEW ul, NEW ul2, NEW r, NEW L \in Nat, NEW s, NEW first,
           Listed(lv, ul, r, L, s, first),
           \A k \in 1 .. L : /\ r[k] \in ul2 /\ SameLabel(lv2[r[k]], lv[r[k]])
                             /\ SameLinks(lv2[r[k]], lv[r[k]])
    PROVE  Listed(lv2, ul2, r, L, s, first)
  <1>1. L = 0 <=> first = nullptr
    BY DEF Listed
  <1>2. ASSUME L # 0 PROVE Chain(lv2, r, L) /\ r[1] = first
    <2>1. Chain(lv, r, L) /\ r[1] = first
      BY <1>2 DEF Listed
    <2> QED BY <2>1, ChainFrame DEF SameLinks
  <1>3. \A k \in 1 .. L : lv2[r[k]].side_ = s
    BY DEF Listed, SameLabel
  <1>4. \A j, k \in 1 .. L : j < k => Better(s, lv2[r[j]].price_, lv2[r[k]].price_)
    BY DEF Listed, SameLabel
  <1> QED BY <1>1, <1>2, <1>3, <1>4 DEF Listed

\* The list with a level put where its price belongs.
LEMMA ListedPlaced ==
    ASSUME NEW n \in Nat, NEW lv, NEW lv1, NEW lv2, NEW ul, ul \subseteq 1 .. n,
           NEW r, NEW p, NEW L \in Nat, L >= 1, NEW s, NEW first,
           Listed(lv, ul, r, L, s, first),
           NEW l \in 1 .. n, l \notin ul, Beside(lv1, lv, n, l),
           NEW k \in 1 .. L + 1, IsPlaced(p, r, L, k, l),
           NEW target, target = IF k = L + 1 THEN r[1] ELSE r[k],
           LinkedTo(lv2, lv1, n, l, target),
           Labels(lv2, lv1, n), lv1[l].side_ = s, NEW price, lv1[l].price_ = price,
           Belongs(lv, r, L, s, price, k)
    PROVE  Listed(lv2, ul \cup {l}, p, L + 1, s, p[1])
  <1>1. /\ Chain(lv, r, L)
        /\ \A i \in 1 .. L : r[i] \in ul /\ r[i] \in 1 .. n /\ r[i] # l /\ lv[r[i]].side_ = s
        /\ \A i, j \in 1 .. L : i < j => Better(s, lv[r[i]].price_, lv[r[j]].price_)
    <2>1. L # 0
      OBVIOUS
    <2>2. /\ Chain(lv, r, L)
          /\ \A i \in 1 .. L : r[i] \in ul /\ lv[r[i]].side_ = s
      BY <2>1 DEF Listed
    <2>3. \A i, j \in 1 .. L : i < j => Better(s, lv[r[i]].price_, lv[r[j]].price_)
      BY DEF Listed
    <2> QED BY <2>2, <2>3
  <1>2. Chain(lv1, r, L)
    BY <1>1, ChainFrame DEF Beside
  <1>3. Chain(lv2, p, L + 1)
    BY <1>1, <1>2, ChainPlaced
  <1>4. /\ p[k] = l
        /\ \A i \in 1 .. L + 1 : i < k => i \in 1 .. L /\ p[i] = r[i]
        /\ \A i \in 1 .. L + 1 : i > k => i - 1 \in 1 .. L /\ p[i] = r[i - 1] /\ i - 1 >= k
    BY DEF IsPlaced
  <1>5. /\ lv2[l].side_ = s /\ lv2[l].price_ = price
        /\ \A i \in 1 .. L : lv2[r[i]].side_ = s /\ lv2[r[i]].price_ = lv[r[i]].price_
    BY <1>1 DEF SameLabel, Labels, Beside
  <1>6. ASSUME NEW i \in 1 .. L + 1
        PROVE  p[i] \in ul \cup {l} /\ p[i] \in 1 .. n /\ lv2[p[i]].side_ = s
    <2>1. CASE i = k
      BY <2>1, <1>4, <1>5
    <2>2. CASE i < k
      BY <2>2, <1>1, <1>4, <1>5
    <2>3. CASE i > k
      BY <2>3, <1>1, <1>4, <1>5
    <2> QED BY <2>1, <2>2, <2>3
  <1>7. ASSUME NEW i \in 1 .. L + 1, NEW j \in 1 .. L + 1, i < j
        PROVE  Better(s, lv2[p[i]].price_, lv2[p[j]].price_)
    <2>1. CASE i < k /\ j < k
      BY <2>1, <1>1, <1>4, <1>5, <1>7
    <2>2. CASE i < k /\ j = k
      BY <2>2, <1>4, <1>5 DEF Belongs
    <2>3. CASE i < k /\ j > k
      <3>1. i < j - 1
        BY <2>3
      <3> QED BY <2>3, <3>1, <1>1, <1>4, <1>5
    <2>4. CASE i = k /\ j > k
      BY <2>4, <1>4, <1>5 DEF Belongs
    <2>5. CASE i > k /\ j > k
      <3>1. i - 1 < j - 1
        BY <1>7
      <3> QED BY <2>5, <3>1, <1>1, <1>4, <1>5
    <2> QED BY <2>1, <2>2, <2>3, <2>4, <2>5, <1>7
  <1>8. p[1] # nullptr
    <2>1. 1 \in 1 .. L + 1
      OBVIOUS
    <2> QED BY <2>1, <1>6 DEF nullptr
  <1>9. L + 1 # 0
    OBVIOUS
  <1> QED BY <1>3, <1>6, <1>7, <1>8, <1>9 DEF Listed

\* The list without a level that is unlinked.
LEMMA ListedDropped ==
    ASSUME NEW n \in Nat, NEW lv, NEW lv2, NEW ul, ul \subseteq 1 .. n,
           NEW r, NEW d, NEW L \in Nat, L >= 2, NEW s, NEW first,
           Listed(lv, ul, r, L, s, first),
           NEW k \in 1 .. L, IsDropped(d, r, L, k), Unlinked(lv2, lv, n, r[k]),
           Labels(lv2, lv, n)
    PROVE  Listed(lv2, ul \ {r[k]}, d, L - 1, s, d[1])
  <1>0. PICK M \in Nat : M = L - 1 /\ M >= 1
    OBVIOUS
  <1>1. /\ Chain(lv, r, L)
        /\ \A i \in 1 .. L : r[i] \in ul /\ r[i] \in 1 .. n /\ lv[r[i]].side_ = s
        /\ \A i, j \in 1 .. L : i < j => Better(s, lv[r[i]].price_, lv[r[j]].price_)
    <2>1. L # 0
      OBVIOUS
    <2>2. /\ Chain(lv, r, L)
          /\ \A i \in 1 .. L : r[i] \in ul /\ lv[r[i]].side_ = s
      BY <2>1 DEF Listed
    <2>3. \A i, j \in 1 .. L : i < j => Better(s, lv[r[i]].price_, lv[r[j]].price_)
      BY DEF Listed
    <2> QED BY <2>2, <2>3
  <1>2. Chain(lv2, d, L - 1)
    BY <1>1, ChainDropped
  <1>3. /\ \A i \in 1 .. M : i < k => i \in 1 .. L /\ d[i] = r[i]
        /\ \A i \in 1 .. M : i >= k => i + 1 \in 1 .. L /\ d[i] = r[i + 1]
    BY <1>0 DEF IsDropped
  <1>4. \A i, j \in 1 .. L : i # j => r[i] # r[j]
    BY <1>1, ChainLinks
  <1>5. \A i \in 1 .. L : lv2[r[i]].side_ = s /\ lv2[r[i]].price_ = lv[r[i]].price_
    BY <1>1 DEF SameLabel, Labels
  <1>6. ASSUME NEW i \in 1 .. M
        PROVE  d[i] \in ul \ {r[k]} /\ d[i] \in 1 .. n /\ lv2[d[i]].side_ = s
    <2>1. CASE i < k
      BY <2>1, <1>1, <1>3, <1>4, <1>5
    <2>2. CASE i >= k
      <3>1. i + 1 # k
        BY <2>2
      <3> QED BY <2>2, <3>1, <1>1, <1>3, <1>4, <1>5
    <2> QED BY <2>1, <2>2
  <1>7. ASSUME NEW i \in 1 .. M, NEW j \in 1 .. M, i < j
        PROVE  Better(s, lv2[d[i]].price_, lv2[d[j]].price_)
    <2>1. CASE i < k /\ j < k
      BY <2>1, <1>1, <1>3, <1>5, <1>7
    <2>2. CASE i < k /\ j >= k
      <3>1. i < j + 1
        BY <2>2
      <3> QED BY <2>2, <3>1, <1>1, <1>3, <1>5
    <2>3. CASE i >= k /\ j >= k
      <3>1. i + 1 < j + 1
        BY <1>7
      <3> QED BY <2>3, <3>1, <1>1, <1>3, <1>5
    <2> QED BY <2>1, <2>2, <2>3, <1>7
  <1>8. d[1] # nullptr
    <2>1. 1 \in 1 .. M
      BY <1>0
    <2> QED BY <2>1, <1>6 DEF nullptr
  <1>9. M # 0 /\ Chain(lv2, d, M)
    BY <1>0, <1>2
  <1>10. Listed(lv2, ul \ {r[k]}, d, M, s, d[1])
    BY <1>6, <1>7, <1>8, <1>9 DEF Listed
  <1> QED BY <1>0, <1>10

\* The least of a set, and the place in the list that goes with a level before
\* which a new one is put.
LeastOf(T) == CHOOSE k \in T : \A j \in T : k <= j
HasPlace(lv, r, L, s, price, target) ==
    \E k \in 1 .. L + 1 : /\ target = IF k = L + 1 THEN r[1] ELSE r[k]
                          /\ Belongs(lv, r, L, s, price, k)

\* The level that AddOrdersAtPrice looks for is the one there.
LEMMA Insertion ==
    ASSUME NEW lv, NEW r, NEW L \in Nat, L >= 1, NEW s, NEW price \in Nat,
           \A i \in 1 .. L : lv[r[i]].price_ \in Nat /\ lv[r[i]].price_ # price,
           \A i, j \in 1 .. L : i < j => Better(s, lv[r[i]].price_, lv[r[j]].price_),
           NEW worse, worse = {k \in 1 .. L : ~Better(s, lv[r[k]].price_, price)},
           NEW target, target = IF worse = {} THEN r[1]
                                ELSE r[LeastOf(worse)]
    PROVE  HasPlace(lv, r, L, s, price, target)
  <1>1. CASE worse = {}
    <2>1. \A i \in 1 .. L : Better(s, lv[r[i]].price_, price)
      BY <1>1
    <2>2. Belongs(lv, r, L, s, price, L + 1)
      BY <2>1 DEF Belongs
    <2>3. L + 1 \in 1 .. L + 1
      OBVIOUS
    <2> QED BY <1>1, <2>2, <2>3 DEF HasPlace
  <1>2. CASE worse # {}
    <2>1. worse \subseteq Nat
      OBVIOUS
    <2>2. PICK k \in worse : k = LeastOf(worse) /\ \A j \in worse : k <= j
      <3>1. \E i \in worse : \A j \in worse : i <= j
        BY <1>2, <2>1, Least
      <3> QED BY <3>1 DEF LeastOf
    <2>3. k \in 1 .. L /\ ~Better(s, lv[r[k]].price_, price)
      OBVIOUS
    <2>4. ASSUME NEW i \in 1 .. L, i < k PROVE Better(s, lv[r[i]].price_, price)
      <3>1. i \notin worse
        <4>1. ~(k <= i)
          BY <2>3, <2>4
        <4> QED BY ONLY <4>1, <2>2
      <3> QED BY <3>1
    <2>5. Better(s, price, lv[r[k]].price_)
      BY <2>3, BetterIsOrder
    <2>6. ASSUME NEW i \in 1 .. L, i >= k PROVE Better(s, price, lv[r[i]].price_)
      <3>1. CASE i = k
        BY <3>1, <2>5
      <3>2. CASE i # k
        <4>1. Better(s, lv[r[k]].price_, lv[r[i]].price_)
          BY <3>2, <2>3, <2>6
        <4>2. lv[r[k]].price_ \in Nat /\ lv[r[i]].price_ \in Nat
          BY <2>3
        <4>3. PICK x \in Nat : x = lv[r[k]].price_
          BY <4>2
        <4>4. PICK y \in Nat : y = lv[r[i]].price_
          BY <4>2
        <4>5. Better(s, price, x) /\ Better(s, x, y)
          BY <4>1, <4>3, <4>4, <2>5
        <4>6. Better(s, price, y)
          BY ONLY <4>5, price \in Nat, x \in Nat, y \in Nat, BetterIsOrder
        <4> QED BY <4>4, <4>6
      <3> QED BY <3>1, <3>2
    <2>7. Belongs(lv, r, L, s, price, k)
      BY <2>4, <2>6 DEF Belongs
    <2>8. target = r[k]
      BY ONLY <1>2, <2>2,
              target = IF worse = {} THEN r[1] ELSE r[LeastOf(worse)]
    <2>9. k # L + 1 /\ k \in 1 .. L + 1
      BY <2>3
    <2> QED BY <2>7, <2>8, <2>9 DEF HasPlace
  <1> QED BY <1>1, <1>2

\* A price has its place in the map.
LEMMA IndexIs ==
    ASSUME NEW p \in Prices
    PROVE  p \in Nat /\ PriceToIndex(p) \in 0 .. ME_MAX_PRICE_LEVELS - 1
  BY TradingBookAssumption DEF PriceToIndex

\* The map with a level more.
LEMMA FiledAdded ==
    ASSUME NEW lv, NEW lv2, NEW ul, ul \subseteq LevelBlocks, NEW R, NEW R2,
           NEW pm \in [0 .. ME_MAX_PRICE_LEVELS - 1 -> 0 .. ME_MAX_PRICE_LEVELS],
           Filed(lv, ul, R, pm), NEW l \in LevelBlocks, l \notin ul,
           NEW s \in Sides, NEW price \in Prices, NEW i0, i0 = PriceToIndex(price),
           pm[i0] = nullptr, lv2[l].side_ = s, lv2[l].price_ = price,
           \A c \in ul : SameLabel(lv2[c], lv[c]), InList(l, R2[s]),
           \A t \in Sides : \A y : InList(y, R[t]) => InList(y, R2[t])
    PROVE  Filed(lv2, ul \cup {l}, R2, [pm EXCEPT ![i0] = l])
  <1>1. PICK pm2 : pm2 = [pm EXCEPT ![i0] = l]
    OBVIOUS
  <1>2. /\ i0 \in DOMAIN pm /\ DOMAIN pm2 = DOMAIN pm /\ pm2[i0] = l
        /\ \A i \in DOMAIN pm : i # i0 => pm2[i] = pm[i]
    BY <1>1, IndexIs
  <1>3. \A c \in LevelBlocks : c # nullptr
    BY DEF LevelBlocks, nullptr
  <1>4. ASSUME NEW c \in ul \cup {l}
        PROVE  /\ lv2[c].side_ \in Sides /\ lv2[c].price_ \in Prices
               /\ InList(c, R2[lv2[c].side_]) /\ pm2[PriceToIndex(lv2[c].price_)] = c
    <2>1. CASE c = l
      BY <2>1, <1>2
    <2>2. CASE c \in ul
      <3>1. /\ lv[c].side_ \in Sides /\ lv[c].price_ \in Prices
            /\ InList(c, R[lv[c].side_]) /\ pm[PriceToIndex(lv[c].price_)] = c
        BY <2>2 DEF Filed
      <3>2. lv2[c].side_ = lv[c].side_ /\ lv2[c].price_ = lv[c].price_
        BY <2>2 DEF SameLabel
      <3>3. PriceToIndex(lv[c].price_) \in DOMAIN pm /\ PriceToIndex(lv[c].price_) # i0
        BY <2>2, <3>1, <1>3, IndexIs
      <3> QED BY <3>1, <3>2, <3>3, <1>2
    <2> QED BY <2>1, <2>2
  <1>5. ASSUME NEW i \in DOMAIN pm2, pm2[i] # nullptr
        PROVE  pm2[i] \in ul \cup {l} /\ PriceToIndex(lv2[pm2[i]].price_) = i
    <2>1. CASE i = i0
      BY <2>1, <1>2
    <2>2. CASE i # i0
      <3>1. pm2[i] = pm[i] /\ pm[i] \in ul /\ PriceToIndex(lv[pm[i]].price_) = i
        BY <2>2, <1>2, <1>5 DEF Filed
      <3>2. lv2[pm[i]].price_ = lv[pm[i]].price_
        BY <3>1 DEF SameLabel
      <3> QED BY <3>1, <3>2
    <2> QED BY <2>1, <2>2
  <1> QED BY <1>1, <1>4, <1>5 DEF Filed

\* The map with a level less.
LEMMA FiledRemoved ==
    ASSUME NEW lv, NEW lv2, NEW ul, ul \subseteq LevelBlocks, NEW R, NEW R2,
           NEW pm \in [0 .. ME_MAX_PRICE_LEVELS - 1 -> 0 .. ME_MAX_PRICE_LEVELS],
           Filed(lv, ul, R, pm), NEW l \in ul, NEW i0, i0 = PriceToIndex(lv[l].price_),
           \A c \in ul : SameLabel(lv2[c], lv[c]),
           \A t \in Sides : \A y : InList(y, R[t]) /\ y # l => InList(y, R2[t])
    PROVE  Filed(lv2, ul \ {l}, R2, [pm EXCEPT ![i0] = nullptr])
  <1>1. PICK pm2 : pm2 = [pm EXCEPT ![i0] = nullptr]
    OBVIOUS
  <1>2. lv[l].price_ \in Prices /\ pm[i0] = l
    BY DEF Filed
  <1>3. /\ i0 \in DOMAIN pm /\ DOMAIN pm2 = DOMAIN pm /\ pm2[i0] = nullptr
        /\ \A i \in DOMAIN pm : i # i0 => pm2[i] = pm[i]
    BY <1>1, <1>2, IndexIs
  <1>4. ASSUME NEW c \in ul \ {l}
        PROVE  /\ lv2[c].side_ \in Sides /\ lv2[c].price_ \in Prices
               /\ InList(c, R2[lv2[c].side_]) /\ pm2[PriceToIndex(lv2[c].price_)] = c
    <2>1. /\ lv[c].side_ \in Sides /\ lv[c].price_ \in Prices
          /\ InList(c, R[lv[c].side_]) /\ pm[PriceToIndex(lv[c].price_)] = c
      BY DEF Filed
    <2>2. lv2[c].side_ = lv[c].side_ /\ lv2[c].price_ = lv[c].price_
      BY DEF SameLabel
    <2>3. PriceToIndex(lv[c].price_) \in DOMAIN pm /\ PriceToIndex(lv[c].price_) # i0
      BY <2>1, <1>2, IndexIs
    <2>4. InList(c, R2[lv[c].side_])
      BY <2>1
    <2> QED BY <2>1, <2>2, <2>3, <2>4, <1>3
  <1>5. ASSUME NEW i \in DOMAIN pm2, pm2[i] # nullptr
        PROVE  pm2[i] \in ul \ {l} /\ PriceToIndex(lv2[pm2[i]].price_) = i
    <2>1. i # i0
      BY <1>3, <1>5
    <2>2. pm2[i] = pm[i] /\ pm[i] \in ul /\ PriceToIndex(lv[pm[i]].price_) = i
      BY <2>1, <1>3, <1>5 DEF Filed
    <2>3. lv2[pm[i]].price_ = lv[pm[i]].price_
      BY <2>2 DEF SameLabel
    <2>4. pm[i] # l
      BY <2>1, <2>2
    <2> QED BY <2>2, <2>3, <2>4
  <1> QED BY <1>1, <1>4, <1>5 DEF Filed

\* Somewhere in the first L of r.
Among(x, r, L) == \E i \in 1 .. L : r[i] = x

\* Neighbours in a list are in the list.
LEMMA ChainClosed ==
    ASSUME NEW obj, NEW r, NEW L \in Nat, Chain(obj, r, L), NEW j \in 1 .. L
    PROVE  Among(obj[r[j]].next, r, L) /\ Among(obj[r[j]].prev, r, L)
  <1>1. /\ L >= 1
        /\ \A i, k \in 1 .. L : k = i + 1 => obj[r[i]].next = r[k] /\ obj[r[k]].prev = r[i]
        /\ obj[r[L]].next = r[1] /\ obj[r[1]].prev = r[L]
    BY ChainLinks
  <1>2. \E i \in 1 .. L : r[i] = obj[r[j]].next
    <2>1. CASE j = L
      BY <2>1, <1>1
    <2>2. CASE j # L
      <3>1. j + 1 \in 1 .. L
        BY <2>2
      <3> QED BY <3>1, <1>1
    <2> QED BY <2>1, <2>2
  <1>3. \E i \in 1 .. L : r[i] = obj[r[j]].prev
    <2>1. CASE j = 1
      BY <2>1, <1>1
    <2>2. CASE j # 1
      <3>1. j - 1 \in 1 .. L /\ j = (j - 1) + 1
        BY <2>2
      <3> QED BY <3>1, <1>1
    <2> QED BY <2>1, <2>2
  <1> QED BY <1>2, <1>3 DEF Among

\* There are lists that show the levels.
LevelsMove(lv2, ul2, bs2, pm2) ==
    \E R2 \in [Sides -> Seq(LevelBlocks)] : LevelsOk(lv2, ul2, R2, bs2, pm2)

\* Where level l is put into the list of a side that has others.
Aimed(lv2, lv1, lv, r, L, bs, s, price, l, k, target) ==
    /\ k \in 1 .. L + 1 /\ target = IF k = L + 1 THEN r[1] ELSE r[k]
    /\ bs[s] # nullptr => /\ LinkedTo(lv2, lv1, ME_MAX_PRICE_LEVELS, l, target)
                          /\ Belongs(lv, r, L, s, price, k)

\* The best levels with l added, and the map with it.
Headed(bs, lv, s, price, l) ==
    IF bs[s] = nullptr \/ Better(s, price, lv[bs[s]].price_) THEN [bs EXCEPT ![s] = l] ELSE bs
Put(pm, i, l) == [pm EXCEPT ![i] = l]

\* A level added to its side.
LEMMA LevelAdded ==
    ASSUME NEW lv, NEW lv1, NEW lv2, NEW ul, ul \subseteq LevelBlocks,
           NEW R \in [Sides -> Seq(LevelBlocks)], NEW bs \in [Sides -> 0 .. ME_MAX_PRICE_LEVELS],
           NEW pm \in [0 .. ME_MAX_PRICE_LEVELS - 1 -> 0 .. ME_MAX_PRICE_LEVELS],
           LevelsOk(lv, ul, R, bs, pm),
           NEW l \in LevelBlocks, l \notin ul, NEW s \in Sides, NEW price \in Prices,
           NEW i0, i0 = PriceToIndex(price), pm[i0] = nullptr,
           Beside(lv1, lv, ME_MAX_PRICE_LEVELS, l), Labels(lv2, lv1, ME_MAX_PRICE_LEVELS),
           lv1[l].side_ = s, lv1[l].price_ = price, lv1[l].next = l, lv1[l].prev = l,
           bs[s] = nullptr => lv2 = lv1,
           NEW r, NEW L \in Nat, r = R[s], L = Len(r), NEW k, NEW target,
           Aimed(lv2, lv1, lv, r, L, bs, s, price, l, k, target),
           NEW bs2, bs2 = Headed(bs, lv, s, price, l)
    PROVE  LevelsMove(lv2, ul \cup {l}, bs2, Put(pm, i0, l))
  <1> DEFINE N == ME_MAX_PRICE_LEVELS
  <1>0. /\ N \in Nat /\ LevelBlocks = 1 .. N /\ l # nullptr
        /\ r \in Seq(LevelBlocks) /\ l \in 1 .. N /\ ul \subseteq 1 .. N
    BY TradingBookAssumption DEF LevelBlocks, nullptr
  <1> /\ k \in 1 .. L + 1 /\ target = IF k = L + 1 THEN r[1] ELSE r[k]
      /\ bs[s] # nullptr => LinkedTo(lv2, lv1, N, l, target) /\ Belongs(lv, r, L, s, price, k)
      /\ bs2 = IF bs[s] = nullptr \/ Better(s, price, lv[bs[s]].price_)
               THEN [bs EXCEPT ![s] = l] ELSE bs
    BY DEF Aimed, Headed
  <1>1. Filed(lv, ul, R, pm) /\ Listed(lv, ul, r, L, s, bs[s])
    BY DEF LevelsOk
  <1>2. PICK p \in Seq(LevelBlocks) :
            /\ Listed(lv2, ul \cup {l}, p, Len(p), s, bs2[s])
            /\ InList(l, p) /\ \A y : InList(y, r) => InList(y, p)
    <2>1. CASE bs[s] = nullptr
      <3>1. L = 0
        BY <2>1, <1>1 DEF Listed
      <3>2. \A y : ~InList(y, r)
        BY <3>1 DEF InList
      <3>3. <<l>> \in Seq(LevelBlocks) /\ Len(<<l>>) = 1 /\ <<l>>[1] = l
        OBVIOUS
      <3>4. InList(l, <<l>>)
        BY <3>3 DEF InList
      <3>5. bs2[s] = l
        BY <2>1
      <3>6. Chain(lv2, <<l>>, 1)
        BY <2>1, <3>3 DEF Chain, After
      <3>7. \A i \in 1 .. 1 : <<l>>[i] = l
        BY <3>3
      <3>8. lv2[l].side_ = s
        BY <2>1
      <3>9. Listed(lv2, ul \cup {l}, <<l>>, 1, s, l)
        BY <3>3, <3>6, <3>7, <3>8, <1>0 DEF Listed
      <3>10. Listed(lv2, ul \cup {l}, <<l>>, Len(<<l>>), s, bs2[s])
        BY <3>3, <3>5, <3>9
      <3> QED BY <3>2, <3>3, <3>4, <3>10
    <2>2. CASE bs[s] # nullptr
      <3>1. L >= 1 /\ r[1] = bs[s]
        BY <2>2, <1>1 DEF Listed
      <3>2. PICK p \in Seq(LevelBlocks) : Len(p) = L + 1 /\ IsPlaced(p, r, L, k, l)
        BY <1>0, Places
      <3>3. InList(l, p) /\ \A y : InList(y, r) => InList(y, p)
        BY <3>2, InPlaced
      <3>4. LinkedTo(lv2, lv1, N, l, target) /\ Belongs(lv, r, L, s, price, k)
        BY <2>2
      <3>5. Listed(lv2, ul \cup {l}, p, L + 1, s, p[1])
        <4>1. Beside(lv1, lv, N, l) /\ Labels(lv2, lv1, N) /\ lv1[l].side_ = s
              /\ lv1[l].price_ = price /\ l \notin ul
          OBVIOUS
        <4>2. k \in 1 .. L + 1 /\ L \in Nat /\ target = IF k = L + 1 THEN r[1] ELSE r[k]
          OBVIOUS
        <4> HIDE DEF N
        <4> QED BY ONLY <1>0, <1>1, <3>1, <3>2, <3>4, <4>1, <4>2, ListedPlaced
      <3>6. p[1] = bs2[s]
        <4>0. 1 \in 1 .. L /\ 1 \in 1 .. L + 1
          BY <3>1
        <4>1. CASE k = 1
          <5>1. p[1] = l /\ Better(s, price, lv[r[1]].price_)
            BY <4>0, <4>1, <3>2, <3>4 DEF IsPlaced, Belongs
          <5> QED BY <5>1, <3>1
        <4>2. CASE k # 1
          <5>0. 1 < k
            BY <4>2
          <5>1. p[1] = r[1]
            BY <4>0, <5>0, <3>2 DEF IsPlaced
          <5>2. Better(s, lv[r[1]].price_, price)
            BY <4>0, <5>0, <3>4 DEF Belongs
          <5>3. r[1] \in ul
            BY <4>0, <1>1 DEF Listed
          <5>4. lv[r[1]].price_ \in Prices
            BY <5>3, <1>1 DEF Filed
          <5>5. PICK x \in Nat : x = lv[r[1]].price_
            BY <5>4, IndexIs
          <5>6. price \in Nat
            BY IndexIs
          <5>7. ~Better(s, price, x)
            <6>1. Better(s, x, price)
              BY <5>2, <5>5
            <6> QED BY ONLY <6>1, x \in Nat, <5>6, BetterIsOrder
          <5>8. ~Better(s, price, lv[bs[s]].price_)
            BY <5>5, <5>7, <3>1
          <5> QED BY <5>1, <5>8, <2>2, <3>1
        <4> QED BY <4>1, <4>2
      <3>7. Listed(lv2, ul \cup {l}, p, Len(p), s, bs2[s])
        BY <3>2, <3>5, <3>6
      <3> QED BY <3>3, <3>7
    <2> QED BY <2>1, <2>2
  <1>3. PICK R2 : R2 = [R EXCEPT ![s] = p]
    OBVIOUS
  <1>4. /\ R2 \in [Sides -> Seq(LevelBlocks)] /\ R2[s] = p
        /\ \A t \in Sides : t # s => R2[t] = R[t]
    BY <1>3
  <1>5. ASSUME NEW t \in Sides, t # s
        PROVE  Listed(lv2, ul \cup {l}, R2[t], Len(R2[t]), t, bs2[t])
    <2>1. PICK q \in Seq(LevelBlocks) : q = R[t]
      OBVIOUS
    <2>2. PICK M \in Nat : M = Len(q)
      OBVIOUS
    <2>3. Listed(lv, ul, q, M, t, bs[t])
      BY <2>1, <2>2 DEF LevelsOk
    <2>4. \A i \in 1 .. M : q[i] \in ul /\ q[i] \in LevelBlocks /\ q[i] # l /\ lv[q[i]].side_ = t
      BY <2>3 DEF Listed
    <2>5. ASSUME NEW i \in 1 .. M PROVE SameLinks(lv2[q[i]], lv[q[i]])
      <3>1. lv1[q[i]] = lv[q[i]]
        BY <2>4, <1>0 DEF Beside
      <3>2. CASE bs[s] = nullptr
        BY <3>1, <3>2 DEF SameLinks
      <3>3. CASE bs[s] # nullptr
        <4>1. L # 0 /\ Chain(lv, r, L) /\ \A j \in 1 .. L : r[j] \in ul /\ lv[r[j]].side_ = s
          BY <3>3, <1>1 DEF Listed
        <4>2. PICK j \in 1 .. L : target = r[j]
          <5>1. CASE k = L + 1
            BY <5>1, <4>1
          <5>2. CASE k # L + 1
            <6>1. k \in 1 .. L
              <7>1. k \in 1 .. L + 1 /\ L \in Nat
                OBVIOUS
              <7> QED BY ONLY <7>1, <5>2
            <6>2. target = r[k]
              BY <5>2
            <6> QED BY <6>1, <6>2
          <5> QED BY <5>1, <5>2
        <4>3. PICK m \in 1 .. L : lv[target].prev = r[m]
          <5>1. Among(lv[r[j]].prev, r, L)
            <6>1. Chain(lv, r, L) /\ L \in Nat /\ j \in 1 .. L
              BY <4>1
            <6> QED BY ONLY <6>1, ChainClosed
          <5> QED BY <5>1, <4>2 DEF Among
        <4>4. target \in ul /\ target # l /\ target \in LevelBlocks
          BY <4>1, <4>2
        <4>5. q[i] # target /\ q[i] # lv[target].prev
          <5>1. lv[target].side_ = s /\ lv[lv[target].prev].side_ = s /\ lv[q[i]].side_ = t
            BY <4>1, <4>2, <4>3, <2>4
          <5> QED BY ONLY <5>1, <1>5
        <4>6. lv1[target] = lv[target]
          BY <4>4, <1>0 DEF Beside
        <4>7. q[i] \in 1 .. N
          BY <2>4, <1>0
        <4>8. LinkedTo(lv2, lv1, N, l, target)
          BY <3>3
        <4>9. lv2[q[i]].prev = lv1[q[i]].prev /\ lv2[q[i]].next = lv1[q[i]].next
          <5>1. q[i] # l
            BY <2>4
          <5> QED BY ONLY <5>1, <4>5, <4>6, <4>7, <4>8 DEF LinkedTo
        <4> QED BY <3>1, <4>9 DEF SameLinks
      <3> QED BY <3>2, <3>3
    <2>6. \A i \in 1 .. M : SameLabel(lv2[q[i]], lv[q[i]])
      BY <2>4, <1>0 DEF Beside, Labels
    <2>7. Listed(lv2, ul \cup {l}, q, M, t, bs[t])
      BY <2>3, <2>4, <2>5, <2>6, ListedFrame
    <2>8. bs2[t] = bs[t]
      BY <1>5
    <2> QED BY <2>1, <2>2, <2>7, <2>8, <1>4, <1>5
  <1>6. Filed(lv2, ul \cup {l}, R2, [pm EXCEPT ![i0] = l])
    <2>1. \A c \in ul : SameLabel(lv2[c], lv[c])
      <3> TAKE c \in ul
      <3>1. c \in 1 .. N /\ lv1[c] = lv[c]
        BY <1>0 DEF Beside
      <3> QED BY <3>1 DEF Labels
    <2>2. InList(l, R2[s]) /\ \A t \in Sides : \A y : InList(y, R[t]) => InList(y, R2[t])
      BY <1>2, <1>4
    <2>3. lv2[l].side_ = s /\ lv2[l].price_ = price
      BY <1>0 DEF Labels, SameLabel
    <2> QED BY <1>1, <2>1, <2>2, <2>3, FiledAdded
  <1>7. \A t \in Sides : Listed(lv2, ul \cup {l}, R2[t], Len(R2[t]), t, bs2[t])
    BY <1>2, <1>4, <1>5
  <1> QED BY <1>4, <1>6, <1>7 DEF LevelsOk, LevelsMove, Put

\* A block that is its own neighbour is alone.
LEMMA ChainAlone ==
    ASSUME NEW obj, NEW r, NEW L \in Nat, Chain(obj, r, L), NEW k \in 1 .. L
    PROVE  (obj[r[k]].next = r[k] <=> L = 1) /\ (obj[r[k]].prev = r[k] <=> L = 1)
  <1>1. /\ L >= 1
        /\ \A i, j \in 1 .. L : i # j => r[i] # r[j]
        /\ \A i, j \in 1 .. L : j = i + 1 => obj[r[i]].next = r[j] /\ obj[r[j]].prev = r[i]
        /\ obj[r[L]].next = r[1] /\ obj[r[1]].prev = r[L]
    BY ChainLinks
  <1>2. CASE L = 1
    <2>1. k = 1
      BY <1>2
    <2> QED BY <1>1, <1>2, <2>1
  <1>3. CASE L # 1
    <2>1. 1 \in 1 .. L /\ L \in 1 .. L /\ L # 1
      BY <1>1, <1>3
    <2>2. obj[r[k]].next # r[k]
      <3>1. CASE k = L
        BY <3>1, <2>1, <1>1
      <3>2. CASE k # L
        <4>1. k + 1 \in 1 .. L /\ k + 1 # k
          BY <3>2
        <4> QED BY <4>1, <1>1
      <3> QED BY <3>1, <3>2
    <2>3. obj[r[k]].prev # r[k]
      <3>1. CASE k = 1
        BY <3>1, <2>1, <1>1
      <3>2. CASE k # 1
        <4>1. k - 1 \in 1 .. L /\ k - 1 # k /\ k = (k - 1) + 1
          BY <3>2
        <4> QED BY <4>1, <1>1
      <3> QED BY <3>1, <3>2
    <2> QED BY <1>3, <2>2, <2>3
  <1> QED BY <1>2, <1>3

\* The best levels but for l.
Heads(bs2, bs, l) == \A t \in Sides : bs[t] # nullptr /\ bs[t] # l => bs2[t] = bs[t]

\* The best levels with l taken from its side.
Beheaded(bs, lv, s, l) ==
    IF lv[l].next = l THEN [bs EXCEPT ![s] = nullptr]
    ELSE IF l = bs[s] THEN [bs EXCEPT ![s] = lv[l].next] ELSE bs

\* A level taken from its side.
LEMMA LevelRemoved ==
    ASSUME NEW lv, NEW lv2, NEW ul, ul \subseteq LevelBlocks,
           NEW R \in [Sides -> Seq(LevelBlocks)], NEW bs \in [Sides -> 0 .. ME_MAX_PRICE_LEVELS],
           NEW pm \in [0 .. ME_MAX_PRICE_LEVELS - 1 -> 0 .. ME_MAX_PRICE_LEVELS],
           LevelsOk(lv, ul, R, bs, pm),
           NEW l \in ul, NEW s, s = lv[l].side_, NEW i0, i0 = PriceToIndex(lv[l].price_),
           Labels(lv2, lv, ME_MAX_PRICE_LEVELS),
           lv[l].next = l => lv2 = lv,
           lv[l].next # l => Unlinked(lv2, lv, ME_MAX_PRICE_LEVELS, l),
           NEW bs2, bs2 = Beheaded(bs, lv, s, l)
    PROVE  LevelsMove(lv2, ul \ {l}, bs2, Put(pm, i0, nullptr)) /\ Heads(bs2, bs, l)
  <1> DEFINE N == ME_MAX_PRICE_LEVELS
  <1> bs2 = IF lv[l].next = l THEN [bs EXCEPT ![s] = nullptr]
            ELSE IF l = bs[s] THEN [bs EXCEPT ![s] = lv[l].next] ELSE bs
    BY DEF Beheaded
  <1>0. N \in Nat /\ LevelBlocks = 1 .. N /\ ul \subseteq 1 .. N
    BY TradingBookAssumption DEF LevelBlocks
  <1>1. Filed(lv, ul, R, pm) /\ s \in Sides /\ InList(l, R[s])
    BY DEF LevelsOk, Filed
  <1>2. PICK r \in Seq(LevelBlocks) : r = R[s]
    BY <1>1
  <1>3. PICK L \in Nat : L = Len(r)
    BY ONLY r \in Seq(LevelBlocks)
  <1>4. PICK k \in 1 .. L : l = r[k]
    BY <1>1, <1>2, <1>3 DEF InList
  <1>5. Listed(lv, ul, r, L, s, bs[s])
    BY <1>1, <1>2, <1>3 DEF LevelsOk
  <1>6. /\ L >= 1 /\ Chain(lv, r, L) /\ r[1] = bs[s]
        /\ \A i \in 1 .. L : r[i] \in ul /\ lv[r[i]].side_ = s
    <2>1. L # 0
      OBVIOUS
    <2> QED BY <1>5, <2>1 DEF Listed
  <1>7. lv[l].next = l <=> L = 1
    <2>1. Chain(lv, r, L) /\ L \in Nat /\ k \in 1 .. L
      BY <1>6
    <2>2. lv[r[k]].next = r[k] <=> L = 1
      BY ONLY <2>1, ChainAlone
    <2> QED BY <2>2, <1>4
  <1>8. PICK p \in Seq(LevelBlocks) :
            /\ Listed(lv2, ul \ {l}, p, Len(p), s, bs2[s])
            /\ \A y : InList(y, r) /\ y # l => InList(y, p)
    <2>1. CASE L = 1
      <3>1. bs2[s] = nullptr
        BY <2>1, <1>1, <1>7
      <3>2. <<>> \in Seq(LevelBlocks) /\ Len(<<>>) = 0
        OBVIOUS
      <3>3. Listed(lv2, ul \ {l}, <<>>, 0, s, bs2[s])
        BY <3>1 DEF Listed
      <3>4. \A y : InList(y, r) => y = l
        <4>1. k = 1
          BY <2>1
        <4>2. ASSUME NEW y, InList(y, r) PROVE y = l
          <5>1. PICK i \in 1 .. L : r[i] = y
            BY <4>2, <1>3 DEF InList
          <5>2. i = 1
            BY <2>1
          <5> QED BY <5>1, <5>2, <4>1, <1>4
        <4> QED BY <4>2
      <3> QED BY <3>2, <3>3, <3>4
    <2>2. CASE L # 1
      <3>1. L >= 2
        BY <2>2, <1>6
      <3>2. PICK d \in Seq(LevelBlocks) : Len(d) = L - 1 /\ IsDropped(d, r, L, k)
        BY <1>3, Drops
      <3>3. \A y : InList(y, r) /\ y # l => InList(y, d)
        BY <3>2, <1>3, <1>4, InDropped
      <3>4. Unlinked(lv2, lv, N, r[k])
        BY <2>2, <1>4, <1>7
      <3>5. Listed(lv2, ul \ {r[k]}, d, L - 1, s, d[1])
        <4>1. L \in Nat /\ k \in 1 .. L /\ Labels(lv2, lv, N)
          OBVIOUS
        <4> HIDE DEF N
        <4> QED BY ONLY <1>0, <1>5, <3>1, <3>2, <3>4, <4>1, ListedDropped
      <3>6. d[1] = bs2[s]
        <4>0. 1 \in 1 .. L - 1 /\ 1 \in 1 .. L /\ 2 \in 1 .. L /\ 2 = 1 + 1
          BY <3>1
        <4>1. CASE k = 1
          <5>1. d[1] = r[2]
            BY <4>0, <4>1, <3>2 DEF IsDropped
          <5>2. lv[r[1]].next = r[2]
            <6>1. Chain(lv, r, L) /\ L \in Nat
              BY <1>6
            <6>2. After(1, L) = 2
              BY <3>1 DEF After
            <6> QED BY ONLY <6>1, <6>2, <4>0 DEF Chain
          <5>3. l = bs[s]
            BY <4>1, <1>4, <1>6
          <5>4. bs2[s] = lv[l].next
            BY <5>3, <2>2, <1>1, <1>7
          <5> QED BY <5>1, <5>2, <5>4, <4>1, <1>4
        <4>2. CASE k # 1
          <5>0. 1 < k
            BY <4>2
          <5>1. d[1] = r[1]
            BY <4>0, <5>0, <3>2 DEF IsDropped
          <5>2. l # bs[s]
            <6>1. Chain(lv, r, L) /\ L \in Nat
              BY <1>6
            <6>2. r[k] # r[1]
              BY ONLY <6>1, <4>0, <4>2, k \in 1 .. L DEF Chain
            <6> QED BY <6>2, <1>4, <1>6
          <5>3. bs2[s] = bs[s]
            BY <5>2, <2>2, <1>7
          <5> QED BY <5>1, <5>3, <1>6
        <4> QED BY <4>1, <4>2
      <3>7. Listed(lv2, ul \ {l}, d, Len(d), s, bs2[s])
        BY <3>2, <3>5, <3>6, <1>4
      <3> QED BY <3>3, <3>7
    <2> QED BY <2>1, <2>2
  <1>9. PICK R2 : R2 = [R EXCEPT ![s] = p]
    OBVIOUS
  <1>10. /\ R2 \in [Sides -> Seq(LevelBlocks)] /\ R2[s] = p
         /\ \A t \in Sides : t # s => R2[t] = R[t]
    BY <1>1, <1>9
  <1>11. ASSUME NEW t \in Sides, t # s
         PROVE  Listed(lv2, ul \ {l}, R2[t], Len(R2[t]), t, bs2[t])
    <2>1. PICK q \in Seq(LevelBlocks) : q = R[t]
      OBVIOUS
    <2>2. PICK M \in Nat : M = Len(q)
      OBVIOUS
    <2>3. Listed(lv, ul, q, M, t, bs[t])
      BY <2>1, <2>2 DEF LevelsOk
    <2>4. \A i \in 1 .. M : q[i] \in ul /\ q[i] \in 1 .. N /\ lv[q[i]].side_ = t
      BY <2>3, <1>0 DEF Listed
    <2>5. \A i \in 1 .. M : q[i] # l
      BY <2>4, <1>11
    <2>6. ASSUME NEW i \in 1 .. M PROVE SameLinks(lv2[q[i]], lv[q[i]])
      <3>1. CASE L = 1
        BY <3>1, <1>7 DEF SameLinks
      <3>2. CASE L # 1
        <4>1. Among(lv[l].next, r, L) /\ Among(lv[l].prev, r, L)
          <5>1. Chain(lv, r, L) /\ L \in Nat /\ k \in 1 .. L
            BY <1>6
          <5>2. Among(lv[r[k]].next, r, L) /\ Among(lv[r[k]].prev, r, L)
            BY ONLY <5>1, ChainClosed
          <5> QED BY <5>2, <1>4
        <4>2. lv[lv[l].next].side_ = s /\ lv[lv[l].prev].side_ = s
          BY <4>1, <1>6 DEF Among
        <4>3. q[i] # lv[l].next /\ q[i] # lv[l].prev
          BY ONLY <4>2, <2>4, <1>11, i \in 1 .. M
        <4>4. Unlinked(lv2, lv, N, l) /\ q[i] \in 1 .. N /\ q[i] # l
          BY <3>2, <2>4, <2>5, <1>7
        <4>5. lv2[q[i]].prev = lv[q[i]].prev /\ lv2[q[i]].next = lv[q[i]].next
          BY ONLY <4>3, <4>4 DEF Unlinked
        <4> QED BY <4>5 DEF SameLinks
      <3> QED BY <3>1, <3>2
    <2>7. \A i \in 1 .. M : SameLabel(lv2[q[i]], lv[q[i]])
      BY <2>4 DEF Labels
    <2>8. Listed(lv2, ul \ {l}, q, M, t, bs[t])
      BY <2>3, <2>4, <2>5, <2>6, <2>7, ListedFrame
    <2>9. bs2[t] = bs[t]
      BY <1>11
    <2> QED BY <2>1, <2>2, <2>8, <2>9, <1>10, <1>11
  <1>12. Filed(lv2, ul \ {l}, R2, [pm EXCEPT ![i0] = nullptr])
    <2>1. \A c \in ul : SameLabel(lv2[c], lv[c])
      BY <1>0 DEF Labels
    <2>2. \A t \in Sides : \A y : InList(y, R[t]) /\ y # l => InList(y, R2[t])
      BY <1>2, <1>8, <1>10
    <2> QED BY <1>1, <2>1, <2>2, FiledRemoved
  <1>13. \A t \in Sides : Listed(lv2, ul \ {l}, R2[t], Len(R2[t]), t, bs2[t])
    BY <1>8, <1>10, <1>11
  <1>14. ASSUME NEW t \in Sides, bs[t] # nullptr, bs[t] # l PROVE bs2[t] = bs[t]
    <2>1. CASE L = 1
      <3>1. r[1] = l
        BY <2>1, <1>4
      <3>2. t # s
        BY <3>1, <1>6, <1>14
      <3> QED BY <3>2
    <2>2. CASE L # 1
      <3>1. t = s => l # bs[s]
        BY <1>14
      <3> QED BY <3>1, <2>2, <1>7
    <2> QED BY <2>1, <2>2
  <1> QED BY <1>10, <1>12, <1>13, <1>14 DEF LevelsOk, LevelsMove, Heads, Put

\* Levels whose labels and links have not changed.
LEMMA LevelsFrame ==
    ASSUME NEW lv, NEW lv2, NEW ul, ul \subseteq LevelBlocks,
           NEW R \in [Sides -> Seq(LevelBlocks)], NEW bs, NEW pm, LevelsOk(lv, ul, R, bs, pm),
           \A c \in ul : SameLabel(lv2[c], lv[c]) /\ SameLinks(lv2[c], lv[c])
    PROVE  LevelsOk(lv2, ul, R, bs, pm)
  <1>1. ASSUME NEW t \in Sides PROVE Listed(lv2, ul, R[t], Len(R[t]), t, bs[t])
    <2>1. PICK q \in Seq(LevelBlocks) : q = R[t]
      OBVIOUS
    <2>2. PICK M \in Nat : M = Len(q)
      OBVIOUS
    <2>3. Listed(lv, ul, q, M, t, bs[t])
      BY <2>1, <2>2 DEF LevelsOk
    <2>4. \A i \in 1 .. M : q[i] \in ul
      BY <2>3 DEF Listed
    <2>5. Listed(lv2, ul, q, M, t, bs[t])
      BY <2>3, <2>4, ListedFrame
    <2> QED BY <2>1, <2>2, <2>5
  <1>2. Filed(lv, ul, R, pm)
    BY DEF LevelsOk
  <1>3. Filed(lv2, ul, R, pm)
    BY <1>2 DEF Filed, SameLabel
  <1> QED BY <1>1, <1>3 DEF LevelsOk

-----------------------------------------------------------------------------
(* The orders of a level.                                                  *)

\* Two versions of an order, but for its links and quantity; two of a level,
\* but for its links.
SameOrder(o, p) == o.order_id_ = p.order_id_ /\ o.side_ = p.side_ /\ o.price_ = p.price_
SameQueue(v, w) == SameLabel(v, w) /\ v.first_mkt_order_ = w.first_mkt_order_
Orderly(ob2, ob, n) == \A c \in 1 .. n : SameOrder(ob2[c], ob[c])

\* The list of a level is one still when its orders have not changed.
LEMMA QueuedFrame ==
    ASSUME NEW ob, NEW ob2, NEW uo, NEW uo2, NEW q, NEW M \in Nat, NEW v, NEW v2,
           Queued(ob, uo, q, M, v), SameQueue(v2, v),
           \A k \in 1 .. M : /\ q[k] \in uo2 /\ SameOrder(ob2[q[k]], ob[q[k]])
                             /\ SameLinks(ob2[q[k]], ob[q[k]])
    PROVE  Queued(ob2, uo2, q, M, v2)
  <1>1. Chain(ob, q, M) /\ q[1] = v.first_mkt_order_
    BY DEF Queued
  <1>2. Chain(ob2, q, M)
    BY <1>1, ChainFrame DEF SameLinks
  <1>3. \A k \in 1 .. M : ob[q[k]].price_ = v.price_ /\ ob[q[k]].side_ = v.side_
    BY DEF Queued
  <1>4. \A k \in 1 .. M : ob2[q[k]].price_ = v2.price_ /\ ob2[q[k]].side_ = v2.side_
    BY <1>3 DEF SameOrder, SameQueue, SameLabel
  <1>5. \A j, k \in 1 .. M : j < k => ob[q[j]].order_id_ < ob[q[k]].order_id_
    BY DEF Queued
  <1>6. \A j, k \in 1 .. M : j < k => ob2[q[j]].order_id_ < ob2[q[k]].order_id_
    BY <1>5 DEF SameOrder
  <1>7. q[1] = v2.first_mkt_order_
    BY <1>1 DEF SameQueue
  <1> QED BY <1>2, <1>4, <1>6, <1>7 DEF Queued

\* The list with a younger order at its end.
LEMMA QueuedAppended ==
    ASSUME NEW n \in Nat, NEW ob, NEW ob1, NEW ob2, NEW uo, uo \subseteq 1 .. n,
           NEW q, NEW p, NEW M \in Nat, NEW v, Queued(ob, uo, q, M, v),
           NEW b \in 1 .. n, b \notin uo, Beside(ob1, ob, n, b), IsPlaced(p, q, M, M + 1, b),
           LinkedTo(ob2, ob1, n, b, q[1]), Orderly(ob2, ob1, n),
           ob1[b].price_ = v.price_, ob1[b].side_ = v.side_,
           \A c \in uo : ob[c].order_id_ < ob1[b].order_id_
    PROVE  Queued(ob2, uo \cup {b}, p, M + 1, v)
  <1>1. /\ Chain(ob, q, M) /\ q[1] = v.first_mkt_order_
        /\ \A k \in 1 .. M : q[k] \in uo /\ ob[q[k]].price_ = v.price_ /\ ob[q[k]].side_ = v.side_
    BY DEF Queued
  <1>2. \A j, k \in 1 .. M : j < k => ob[q[j]].order_id_ < ob[q[k]].order_id_
    BY DEF Queued
  <1>3. M >= 1
    BY <1>1 DEF Chain
  <1>4. \A k \in 1 .. M : q[k] \in 1 .. n /\ q[k] # b /\ ob1[q[k]] = ob[q[k]]
    BY <1>1 DEF Beside
  <1>5. Chain(ob1, q, M)
    BY <1>1, <1>4, ChainFrame
  <1>6. Chain(ob2, p, M + 1)
    <2>1. M + 1 \in 1 .. M + 1 /\ q[1] = IF M + 1 = M + 1 THEN q[1] ELSE q[M + 1]
      BY <1>3
    <2>2. \A i \in 1 .. M : q[i] \in 1 .. n /\ q[i] # b
      BY <1>4
    <2> QED BY <1>5, <2>1, <2>2, ChainPlaced
  <1>7. p[M + 1] = b /\ \A i \in 1 .. M : p[i] = q[i]
    BY DEF IsPlaced
  <1>8. /\ ob2[b].price_ = v.price_ /\ ob2[b].side_ = v.side_
        /\ ob2[b].order_id_ = ob1[b].order_id_
    BY DEF Orderly, SameOrder
  <1>9. \A k \in 1 .. M : /\ ob2[q[k]].price_ = v.price_ /\ ob2[q[k]].side_ = v.side_
                          /\ ob2[q[k]].order_id_ = ob[q[k]].order_id_
    BY <1>1, <1>4 DEF Orderly, SameOrder
  <1>10. \A i \in 1 .. M + 1 : i \in 1 .. M \/ i = M + 1
    OBVIOUS
  <1>11. \A i \in 1 .. M + 1 : /\ p[i] \in uo \cup {b}
                               /\ ob2[p[i]].price_ = v.price_ /\ ob2[p[i]].side_ = v.side_
    BY <1>1, <1>7, <1>8, <1>9, <1>10
  <1>12. ASSUME NEW i \in 1 .. M + 1, NEW j \in 1 .. M + 1, i < j
         PROVE  ob2[p[i]].order_id_ < ob2[p[j]].order_id_
    <2>1. i \in 1 .. M
      BY <1>12
    <2>2. CASE j \in 1 .. M
      BY <2>1, <2>2, <1>2, <1>7, <1>9, <1>12
    <2>3. CASE j = M + 1
      <3>1. ob[q[i]].order_id_ < ob1[b].order_id_
        BY <2>1, <1>1
      <3>2. ob2[p[i]].order_id_ = ob[q[i]].order_id_ /\ ob2[p[j]].order_id_ = ob1[b].order_id_
        BY <2>1, <2>3, <1>7, <1>8, <1>9
      <3> QED BY ONLY <3>1, <3>2
    <2> QED BY <2>2, <2>3, <1>10
  <1>13. p[1] = v.first_mkt_order_
    BY <1>1, <1>3, <1>7
  <1> QED BY <1>6, <1>11, <1>12, <1>13 DEF Queued

\* The list without an order that is unlinked.
LEMMA QueuedDropped ==
    ASSUME NEW n \in Nat, NEW ob, NEW ob2, NEW uo, uo \subseteq 1 .. n,
           NEW q, NEW d, NEW M \in Nat, M >= 2, NEW v, NEW v2, Queued(ob, uo, q, M, v),
           NEW k \in 1 .. M, IsDropped(d, q, M, k), Unlinked(ob2, ob, n, q[k]),
           Orderly(ob2, ob, n), SameLabel(v2, v), v2.first_mkt_order_ = d[1]
    PROVE  Queued(ob2, uo \ {q[k]}, d, M - 1, v2)
  <1>0. PICK K \in Nat : K = M - 1 /\ K >= 1
    OBVIOUS
  <1>1. /\ Chain(ob, q, M)
        /\ \A i \in 1 .. M : q[i] \in uo /\ ob[q[i]].price_ = v.price_ /\ ob[q[i]].side_ = v.side_
    BY DEF Queued
  <1>2. \A i, j \in 1 .. M : i < j => ob[q[i]].order_id_ < ob[q[j]].order_id_
    BY DEF Queued
  <1>3. \A i \in 1 .. M : q[i] \in 1 .. n
    BY <1>1
  <1>4. Chain(ob2, d, M - 1)
    BY <1>1, <1>3, ChainDropped
  <1>5. /\ \A i \in 1 .. K : i < k => i \in 1 .. M /\ d[i] = q[i]
        /\ \A i \in 1 .. K : i >= k => i + 1 \in 1 .. M /\ d[i] = q[i + 1]
    BY <1>0 DEF IsDropped
  <1>6. \A i, j \in 1 .. M : i # j => q[i] # q[j]
    BY <1>1 DEF Chain
  <1>7. \A i \in 1 .. M : /\ ob2[q[i]].price_ = v2.price_ /\ ob2[q[i]].side_ = v2.side_
                          /\ ob2[q[i]].order_id_ = ob[q[i]].order_id_
    BY <1>1, <1>3 DEF Orderly, SameOrder, SameLabel
  <1>8. ASSUME NEW i \in 1 .. K
        PROVE  /\ d[i] \in uo \ {q[k]}
               /\ ob2[d[i]].price_ = v2.price_ /\ ob2[d[i]].side_ = v2.side_
    <2>1. CASE i < k
      BY <2>1, <1>1, <1>5, <1>6, <1>7
    <2>2. CASE i >= k
      <3>1. i + 1 # k
        BY <2>2
      <3> QED BY <2>2, <3>1, <1>1, <1>5, <1>6, <1>7
    <2> QED BY <2>1, <2>2
  <1>9. ASSUME NEW i \in 1 .. K, NEW j \in 1 .. K, i < j
        PROVE  ob2[d[i]].order_id_ < ob2[d[j]].order_id_
    <2>0. \A a, c \in 1 .. M : a < c => ob2[q[a]].order_id_ < ob2[q[c]].order_id_
      BY <1>2, <1>7
    <2>1. CASE i < k /\ j < k
      BY <2>1, <2>0, <1>5, <1>9
    <2>2. CASE i < k /\ j >= k
      <3>1. i < j + 1
        BY <2>2
      <3> QED BY <2>2, <3>1, <2>0, <1>5
    <2>3. CASE i >= k /\ j >= k
      <3>1. i + 1 < j + 1
        BY <1>9
      <3> QED BY <2>3, <3>1, <2>0, <1>5
    <2> QED BY <2>1, <2>2, <2>3, <1>9
  <1>10. Chain(ob2, d, K)
    BY <1>0, <1>4
  <1>11. Queued(ob2, uo \ {q[k]}, d, K, v2)
    BY <1>8, <1>9, <1>10 DEF Queued
  <1> QED BY <1>0, <1>11

\* No two levels have the same price.
Apart(lv, ul) == \A l, m \in ul : lv[l].price_ = lv[m].price_ => l = m

\* The map has one level for a price.
LEMMA FiledApart ==
    ASSUME NEW lv, NEW ul, NEW R, NEW bs, NEW pm, LevelsOk(lv, ul, R, bs, pm)
    PROVE  Apart(lv, ul)
  BY DEF LevelsOk, Filed, Apart

\* An order is in one list.
OneEach(Q, ul) == \A l, m \in ul : \A b : InList(b, Q[l]) /\ InList(b, Q[m]) => l = m

\* Lists of different levels have different prices.
LEMMA OneQueue ==
    ASSUME NEW ob, NEW uo, NEW lv, NEW ul, NEW Q, OrdersOk(ob, uo, lv, ul, Q), Apart(lv, ul)
    PROVE  OneEach(Q, ul)
  <1> SUFFICES ASSUME NEW l \in ul, NEW m \in ul, NEW b, InList(b, Q[l]), InList(b, Q[m])
               PROVE  l = m
    BY DEF OneEach
  <1>1. PICK i \in 1 .. Len(Q[l]) : Q[l][i] = b
    BY DEF InList
  <1>2. PICK j \in 1 .. Len(Q[m]) : Q[m][j] = b
    BY DEF InList
  <1>3. Queued(ob, uo, Q[l], Len(Q[l]), lv[l]) /\ Queued(ob, uo, Q[m], Len(Q[m]), lv[m])
    BY DEF OrdersOk
  <1>4. ob[b].price_ = lv[l].price_
    BY <1>1, <1>3 DEF Queued
  <1>5. ob[b].price_ = lv[m].price_
    BY <1>2, <1>3 DEF Queued
  <1> QED BY <1>4, <1>5 DEF Apart

\* The list of a level, its length and what is in it.
HasQueue(ob, uo, lv, Q, l) ==
    \E q \in Seq(OrderBlocks), M \in Nat :
        /\ q = Q[l] /\ M = Len(q) /\ M >= 1 /\ Queued(ob, uo, q, M, lv[l])
        /\ Chain(ob, q, M) /\ q[1] = lv[l].first_mkt_order_
        /\ \A k \in 1 .. M : q[k] \in uo /\ InList(q[k], Q[l])

\* A level in use has one.
LEMMA QueueOf ==
    ASSUME NEW ob, NEW uo, NEW lv, NEW ul, ul \subseteq LevelBlocks,
           NEW Q \in [LevelBlocks -> Seq(OrderBlocks)],
           OrdersOk(ob, uo, lv, ul, Q), NEW l \in ul
    PROVE  HasQueue(ob, uo, lv, Q, l)
  <1>1. PICK q \in Seq(OrderBlocks) : q = Q[l]
    OBVIOUS
  <1>2. PICK M \in Nat : M = Len(q)
    OBVIOUS
  <1>3. Queued(ob, uo, q, M, lv[l])
    BY <1>1, <1>2 DEF OrdersOk
  <1>4. Chain(ob, q, M) /\ q[1] = lv[l].first_mkt_order_ /\ \A k \in 1 .. M : q[k] \in uo
    BY <1>3 DEF Queued
  <1>5. M >= 1
    BY <1>4 DEF Chain
  <1>6. \A k \in 1 .. M : InList(q[k], Q[l])
    BY <1>1, <1>2 DEF InList
  <1> QED BY <1>1, <1>2, <1>3, <1>4, <1>5, <1>6 DEF HasQueue

\* The other lists keep their orders.
Kept(Q2, Q, ul, l) == \A m \in ul : m # l => Q2[m] = Q[m]
OrdersMove(ob2, uo2, lv2, ul2, Q, l) ==
    \E Q2 \in [LevelBlocks -> Seq(OrderBlocks)] :
        OrdersOk(ob2, uo2, lv2, ul2, Q2) /\ Kept(Q2, Q, ul2, l)

\* An order added to a level that is there.
LEMMA OrderAppended ==
    ASSUME NEW ob, NEW ob1, NEW ob2, NEW uo, uo \subseteq OrderBlocks, NEW lv,
           NEW ul, ul \subseteq LevelBlocks, NEW Q \in [LevelBlocks -> Seq(OrderBlocks)],
           OrdersOk(ob, uo, lv, ul, Q), Apart(lv, ul), NEW l \in ul,
           NEW b \in OrderBlocks, b \notin uo, Beside(ob1, ob, ME_MAX_ORDER_IDS, b),
           LinkedTo(ob2, ob1, ME_MAX_ORDER_IDS, b, lv[l].first_mkt_order_),
           Orderly(ob2, ob1, ME_MAX_ORDER_IDS),
           ob1[b].price_ = lv[l].price_, ob1[b].side_ = lv[l].side_,
           \A c \in uo : ob[c].order_id_ < ob1[b].order_id_
    PROVE  OrdersMove(ob2, uo \cup {b}, lv, ul, Q, l)
  <1> DEFINE N == ME_MAX_ORDER_IDS
  <1>0. N \in Nat /\ OrderBlocks = 1 .. N /\ uo \subseteq 1 .. N /\ b \in 1 .. N
    BY TradingBookAssumption DEF OrderBlocks
  <1>1. PICK q \in Seq(OrderBlocks), M \in Nat :
            /\ q = Q[l] /\ M = Len(q) /\ M >= 1 /\ Queued(ob, uo, q, M, lv[l])
            /\ Chain(ob, q, M) /\ q[1] = lv[l].first_mkt_order_
            /\ \A k \in 1 .. M : q[k] \in uo /\ InList(q[k], Q[l])
    BY QueueOf DEF HasQueue
  <1>2. PICK p \in Seq(OrderBlocks) : Len(p) = M + 1 /\ IsPlaced(p, q, M, M + 1, b)
    <2>1. M + 1 \in 1 .. M + 1
      OBVIOUS
    <2> QED BY <1>1, <2>1, Places
  <1>3. Queued(ob2, uo \cup {b}, p, M + 1, lv[l])
    <2>1. /\ b \notin uo /\ Beside(ob1, ob, N, b) /\ Orderly(ob2, ob1, N)
          /\ ob1[b].price_ = lv[l].price_ /\ ob1[b].side_ = lv[l].side_
          /\ LinkedTo(ob2, ob1, N, b, q[1]) /\ M \in Nat
      BY <1>1
    <2>2. \A c \in uo : ob[c].order_id_ < ob1[b].order_id_
      OBVIOUS
    <2>3. Queued(ob, uo, q, M, lv[l]) /\ IsPlaced(p, q, M, M + 1, b)
      BY <1>1, <1>2
    <2> HIDE DEF N
    <2> QED BY ONLY <1>0, <2>1, <2>2, <2>3, QueuedAppended
  <1>4. InList(b, p) /\ \A y : InList(y, q) => InList(y, p)
    <2>1. M + 1 \in 1 .. M + 1
      OBVIOUS
    <2> QED BY <1>1, <1>2, <2>1, InPlaced
  <1>5. PICK Q2 : Q2 = [Q EXCEPT ![l] = p]
    OBVIOUS
  <1>6. /\ Q2 \in [LevelBlocks -> Seq(OrderBlocks)] /\ Q2[l] = p
        /\ \A m \in ul : m # l => Q2[m] = Q[m]
    BY <1>5
  <1>7. ASSUME NEW m \in ul, m # l
        PROVE  Queued(ob2, uo \cup {b}, Q2[m], Len(Q2[m]), lv[m])
    <2>1. PICK t \in Seq(OrderBlocks), K \in Nat :
              /\ t = Q[m] /\ K = Len(t) /\ K >= 1 /\ Queued(ob, uo, t, K, lv[m])
              /\ Chain(ob, t, K) /\ t[1] = lv[m].first_mkt_order_
              /\ \A k \in 1 .. K : t[k] \in uo /\ InList(t[k], Q[m])
      BY QueueOf DEF HasQueue
    <2>2. ASSUME NEW k \in 1 .. K
          PROVE  /\ SameOrder(ob2[t[k]], ob[t[k]]) /\ SameLinks(ob2[t[k]], ob[t[k]])
      <3>1. t[k] \in 1 .. N /\ t[k] # b /\ ob1[t[k]] = ob[t[k]]
        BY <2>1, <1>0 DEF Beside
      <3>2. \A j \in 1 .. M : t[k] # q[j]
        <4> SUFFICES ASSUME NEW j \in 1 .. M, t[k] = q[j] PROVE FALSE
          OBVIOUS
        <4>1. InList(t[k], Q[l]) /\ InList(t[k], Q[m])
          BY <1>1, <2>1
        <4>2. OneEach(Q, ul)
          BY OneQueue
        <4>3. l = m
          BY <4>1, <4>2 DEF OneEach
        <4> QED BY <4>3, <1>7
      <3>3. Among(ob[q[1]].prev, q, M)
        <4>1. Chain(ob, q, M) /\ M \in Nat /\ 1 \in 1 .. M
          BY <1>1
        <4> QED BY ONLY <4>1, ChainClosed
      <3>4. t[k] # q[1] /\ t[k] # ob[q[1]].prev
        BY <3>2, <3>3, <1>1 DEF Among
      <3>5. ob1[q[1]] = ob[q[1]]
        <4>1. q[1] \in uo
          BY <1>1
        <4> QED BY <4>1, <1>0 DEF Beside
      <3>6. LinkedTo(ob2, ob1, N, b, q[1])
        BY <1>1
      <3>7. ob2[t[k]].prev = ob1[t[k]].prev /\ ob2[t[k]].next = ob1[t[k]].next
        BY ONLY <3>1, <3>4, <3>5, <3>6 DEF LinkedTo
      <3>8. SameOrder(ob2[t[k]], ob1[t[k]])
        BY <3>1 DEF Orderly
      <3> QED BY <3>1, <3>7, <3>8 DEF SameLinks
    <2>3. SameQueue(lv[m], lv[m])
      BY DEF SameQueue, SameLabel
    <2>4. \A k \in 1 .. K : t[k] \in uo \cup {b}
      BY <2>1
    <2>5. Queued(ob2, uo \cup {b}, t, K, lv[m])
      BY <2>1, <2>2, <2>3, <2>4, QueuedFrame
    <2> QED BY <2>1, <2>5, <1>6, <1>7
  <1>8. \A m \in ul : Queued(ob2, uo \cup {b}, Q2[m], Len(Q2[m]), lv[m])
    BY <1>2, <1>3, <1>6, <1>7
  <1>9. ASSUME NEW c \in uo \cup {b} PROVE \E m \in ul : InList(c, Q2[m])
    <2>1. CASE c = b
      BY <2>1, <1>4, <1>6
    <2>2. CASE c \in uo
      <3>1. PICK m \in ul : InList(c, Q[m])
        BY <2>2 DEF OrdersOk
      <3>2. InList(c, Q2[m])
        <4>1. CASE m = l
          BY <3>1, <4>1, <1>1, <1>4, <1>6
        <4>2. CASE m # l
          BY <3>1, <4>2, <1>6
        <4> QED BY <4>1, <4>2
      <3> QED BY <3>2
    <2> QED BY <2>1, <2>2
  <1> QED BY <1>6, <1>8, <1>9 DEF OrdersMove, OrdersOk, Kept

\* An order added with a level for it.
LEMMA OrderAlone ==
    ASSUME NEW ob, NEW ob2, NEW uo, uo \subseteq OrderBlocks, NEW lv, NEW lv2,
           NEW ul, ul \subseteq LevelBlocks, NEW Q \in [LevelBlocks -> Seq(OrderBlocks)],
           OrdersOk(ob, uo, lv, ul, Q), NEW l \in LevelBlocks, l \notin ul,
           NEW b \in OrderBlocks, b \notin uo, Beside(ob2, ob, ME_MAX_ORDER_IDS, b),
           ob2[b].next = b, ob2[b].prev = b, lv2[l].first_mkt_order_ = b,
           ob2[b].price_ = lv2[l].price_, ob2[b].side_ = lv2[l].side_,
           \A m \in ul : SameQueue(lv2[m], lv[m])
    PROVE  OrdersMove(ob2, uo \cup {b}, lv2, ul \cup {l}, Q, l)
  <1>1. PICK p \in Seq(OrderBlocks) : p = <<b>>
    <2>1. <<b>> \in Seq(OrderBlocks)
      OBVIOUS
    <2> QED BY <2>1
  <1>2. Len(p) = 1 /\ p[1] = b /\ \A i \in 1 .. 1 : p[i] = b
    BY <1>1
  <1>3. Chain(ob2, p, 1)
    BY <1>2 DEF Chain, After
  <1>4. Queued(ob2, uo \cup {b}, p, 1, lv2[l])
    BY <1>2, <1>3 DEF Queued
  <1>5. InList(b, p)
    BY <1>2 DEF InList
  <1>6. PICK Q2 : Q2 = [Q EXCEPT ![l] = p]
    OBVIOUS
  <1>7. /\ Q2 \in [LevelBlocks -> Seq(OrderBlocks)] /\ Q2[l] = p
        /\ \A m \in ul : m # l => Q2[m] = Q[m]
    BY <1>6
  <1>8. ASSUME NEW m \in ul PROVE Queued(ob2, uo \cup {b}, Q2[m], Len(Q2[m]), lv2[m])
    <2>1. PICK t \in Seq(OrderBlocks), K \in Nat :
              /\ t = Q[m] /\ K = Len(t) /\ K >= 1 /\ Queued(ob, uo, t, K, lv[m])
              /\ Chain(ob, t, K) /\ t[1] = lv[m].first_mkt_order_
              /\ \A k \in 1 .. K : t[k] \in uo /\ InList(t[k], Q[m])
      BY QueueOf DEF HasQueue
    <2>2. \A k \in 1 .. K : t[k] \in uo \cup {b} /\ ob2[t[k]] = ob[t[k]]
      BY <2>1 DEF Beside, OrderBlocks
    <2>3. \A k \in 1 .. K : SameOrder(ob2[t[k]], ob[t[k]]) /\ SameLinks(ob2[t[k]], ob[t[k]])
      BY <2>2 DEF SameOrder, SameLinks
    <2>4. Queued(ob2, uo \cup {b}, t, K, lv2[m])
      BY <2>1, <2>2, <2>3, QueuedFrame
    <2> QED BY <2>1, <2>4, <1>7
  <1>9. ASSUME NEW c \in uo \cup {b} PROVE \E m \in ul \cup {l} : InList(c, Q2[m])
    <2>1. CASE c = b
      BY <2>1, <1>5, <1>7
    <2>2. CASE c \in uo
      <3>1. PICK m \in ul : InList(c, Q[m])
        BY <2>2 DEF OrdersOk
      <3> QED BY <3>1, <1>7
    <2> QED BY <2>1, <2>2
  <1>10. \A m \in ul \cup {l} : Queued(ob2, uo \cup {b}, Q2[m], Len(Q2[m]), lv2[m])
    BY <1>2, <1>4, <1>7, <1>8
  <1> QED BY <1>7, <1>9, <1>10 DEF OrdersMove, OrdersOk, Kept

\* An order that was not alone taken from its level.
LEMMA OrderDropped ==
    ASSUME NEW ob, NEW ob2, NEW uo, uo \subseteq OrderBlocks, NEW lv, NEW lv2,
           NEW ul, ul \subseteq LevelBlocks, NEW Q \in [LevelBlocks -> Seq(OrderBlocks)],
           OrdersOk(ob, uo, lv, ul, Q), Apart(lv, ul), NEW l \in ul, NEW b, InList(b, Q[l]),
           ob[b].prev # b, Unlinked(ob2, ob, ME_MAX_ORDER_IDS, b),
           Orderly(ob2, ob, ME_MAX_ORDER_IDS),
           \A m \in ul : m # l => SameQueue(lv2[m], lv[m]), SameLabel(lv2[l], lv[l]),
           lv2[l].first_mkt_order_ =
               IF lv[l].first_mkt_order_ # b THEN lv[l].first_mkt_order_ ELSE ob[b].next
    PROVE  OrdersMove(ob2, uo \ {b}, lv2, ul, Q, l)
  <1> DEFINE N == ME_MAX_ORDER_IDS
  <1>0. N \in Nat /\ OrderBlocks = 1 .. N /\ uo \subseteq 1 .. N
    BY TradingBookAssumption DEF OrderBlocks
  <1>1. PICK q \in Seq(OrderBlocks), M \in Nat :
            /\ q = Q[l] /\ M = Len(q) /\ M >= 1 /\ Queued(ob, uo, q, M, lv[l])
            /\ Chain(ob, q, M) /\ q[1] = lv[l].first_mkt_order_
            /\ \A k \in 1 .. M : q[k] \in uo /\ InList(q[k], Q[l])
    BY QueueOf DEF HasQueue
  <1>2. PICK k \in 1 .. M : q[k] = b
    BY <1>1 DEF InList
  <1>3. Chain(ob, q, M) /\ M \in Nat /\ k \in 1 .. M
    BY <1>1
  <1>4. M # 1
    <2>1. ob[q[k]].prev = q[k] <=> M = 1
      BY ONLY <1>3, ChainAlone
    <2> QED BY <2>1, <1>2
  <1>5. M >= 2
    <2>1. M \in Nat /\ M >= 1
      BY <1>1
    <2> QED BY ONLY <2>1, <1>4
  <1>6. PICK d \in Seq(OrderBlocks) : Len(d) = M - 1 /\ IsDropped(d, q, M, k)
    BY <1>1, Drops
  <1>7. d[1] = lv2[l].first_mkt_order_
    <2>0. 1 \in 1 .. M - 1 /\ 1 \in 1 .. M /\ 2 \in 1 .. M /\ 2 = 1 + 1
      BY <1>5
    <2>1. CASE k = 1
      <3>1. d[1] = q[2]
        BY <2>0, <2>1, <1>6 DEF IsDropped
      <3>2. After(1, M) = 2
        BY <1>5 DEF After
      <3>3. ob[q[1]].next = q[2]
        BY ONLY <1>3, <3>2, <2>0 DEF Chain
      <3> QED BY <3>1, <3>3, <2>1, <1>1, <1>2
    <2>2. CASE k # 1
      <3>0. 1 < k
        BY <2>2
      <3>1. d[1] = q[1]
        BY <2>0, <3>0, <1>6 DEF IsDropped
      <3>2. q[k] # q[1]
        BY ONLY <1>3, <2>0, <2>2 DEF Chain
      <3> QED BY <3>1, <3>2, <1>1, <1>2
    <2> QED BY <2>1, <2>2
  <1>8. Queued(ob2, uo \ {q[k]}, d, M - 1, lv2[l])
    <2>1. /\ Orderly(ob2, ob, N) /\ Unlinked(ob2, ob, N, q[k]) /\ SameLabel(lv2[l], lv[l])
          /\ lv2[l].first_mkt_order_ = d[1] /\ M \in Nat /\ k \in 1 .. M
          /\ Queued(ob, uo, q, M, lv[l]) /\ IsDropped(d, q, M, k)
      BY <1>1, <1>2, <1>6, <1>7
    <2> HIDE DEF N
    <2> QED BY ONLY <1>0, <1>5, <2>1, QueuedDropped
  <1>9. \A y : InList(y, q) /\ y # b => InList(y, d)
    BY <1>1, <1>2, <1>6, InDropped
  <1>10. PICK Q2 : Q2 = [Q EXCEPT ![l] = d]
    OBVIOUS
  <1>11. /\ Q2 \in [LevelBlocks -> Seq(OrderBlocks)] /\ Q2[l] = d
         /\ \A m \in ul : m # l => Q2[m] = Q[m]
    BY <1>10
  <1>12. ASSUME NEW m \in ul, m # l
         PROVE  Queued(ob2, uo \ {b}, Q2[m], Len(Q2[m]), lv2[m])
    <2>1. PICK t \in Seq(OrderBlocks), K \in Nat :
              /\ t = Q[m] /\ K = Len(t) /\ K >= 1 /\ Queued(ob, uo, t, K, lv[m])
              /\ Chain(ob, t, K) /\ t[1] = lv[m].first_mkt_order_
              /\ \A j \in 1 .. K : t[j] \in uo /\ InList(t[j], Q[m])
      BY QueueOf DEF HasQueue
    <2>2. ASSUME NEW j \in 1 .. K
          PROVE  /\ SameOrder(ob2[t[j]], ob[t[j]]) /\ SameLinks(ob2[t[j]], ob[t[j]])
                 /\ t[j] \in uo \ {b}
      <3>1. t[j] \in 1 .. N /\ t[j] \in uo
        BY <2>1, <1>0
      <3>2. \A i \in 1 .. M : t[j] # q[i]
        <4> SUFFICES ASSUME NEW i \in 1 .. M, t[j] = q[i] PROVE FALSE
          OBVIOUS
        <4>1. InList(t[j], Q[l]) /\ InList(t[j], Q[m])
          BY <1>1, <2>1
        <4>2. OneEach(Q, ul)
          BY OneQueue
        <4>3. l = m
          BY <4>1, <4>2 DEF OneEach
        <4> QED BY <4>3, <1>12
      <3>3. Among(ob[q[k]].next, q, M) /\ Among(ob[q[k]].prev, q, M)
        BY ONLY <1>3, ChainClosed
      <3>4. t[j] # b /\ t[j] # ob[b].next /\ t[j] # ob[b].prev
        BY <3>2, <3>3, <1>2 DEF Among
      <3>5. Unlinked(ob2, ob, N, b)
        OBVIOUS
      <3>6. ob2[t[j]].prev = ob[t[j]].prev /\ ob2[t[j]].next = ob[t[j]].next
        BY ONLY <3>1, <3>4, <3>5 DEF Unlinked
      <3>7. SameOrder(ob2[t[j]], ob[t[j]])
        BY <3>1 DEF Orderly
      <3> QED BY <3>1, <3>4, <3>6, <3>7 DEF SameLinks
    <2>3. SameQueue(lv2[m], lv[m])
      BY <1>12
    <2>4. Queued(ob2, uo \ {b}, t, K, lv2[m])
      BY <2>1, <2>2, <2>3, QueuedFrame
    <2> QED BY <2>1, <2>4, <1>11, <1>12
  <1>13. \A m \in ul : Queued(ob2, uo \ {b}, Q2[m], Len(Q2[m]), lv2[m])
    BY <1>2, <1>6, <1>8, <1>11, <1>12
  <1>14. ASSUME NEW c \in uo \ {b} PROVE \E m \in ul : InList(c, Q2[m])
    <2>1. PICK m \in ul : InList(c, Q[m])
      BY DEF OrdersOk
    <2>2. CASE m = l
      BY <2>1, <2>2, <1>1, <1>9, <1>11
    <2>3. CASE m # l
      BY <2>1, <2>3, <1>11
    <2> QED BY <2>2, <2>3
  <1> QED BY <1>11, <1>13, <1>14 DEF OrdersMove, OrdersOk, Kept

\* The only order of a level taken, and the level with it.
LEMMA OrderLast ==
    ASSUME NEW ob, NEW uo, uo \subseteq OrderBlocks, NEW lv, NEW lv2,
           NEW ul, ul \subseteq LevelBlocks, NEW Q \in [LevelBlocks -> Seq(OrderBlocks)],
           OrdersOk(ob, uo, lv, ul, Q), Apart(lv, ul), NEW l \in ul, NEW b, InList(b, Q[l]),
           ob[b].prev = b, \A m \in ul : m # l => SameQueue(lv2[m], lv[m])
    PROVE  OrdersOk(ob, uo \ {b}, lv2, ul \ {l}, Q)
  <1>1. PICK q \in Seq(OrderBlocks), M \in Nat :
            /\ q = Q[l] /\ M = Len(q) /\ M >= 1 /\ Queued(ob, uo, q, M, lv[l])
            /\ Chain(ob, q, M) /\ q[1] = lv[l].first_mkt_order_
            /\ \A k \in 1 .. M : q[k] \in uo /\ InList(q[k], Q[l])
    BY QueueOf DEF HasQueue
  <1>2. PICK k \in 1 .. M : q[k] = b
    BY <1>1 DEF InList
  <1>3. M = 1
    <2>1. Chain(ob, q, M) /\ M \in Nat /\ k \in 1 .. M
      BY <1>1
    <2>2. ob[q[k]].prev = q[k] <=> M = 1
      BY ONLY <2>1, ChainAlone
    <2> QED BY <2>2, <1>2
  <1>4. ASSUME NEW c, InList(c, Q[l]) PROVE c = b
    <2>1. PICK i \in 1 .. M : q[i] = c
      BY <1>1, <1>4 DEF InList
    <2>2. i = 1 /\ k = 1
      BY <1>3
    <2> QED BY <2>1, <2>2, <1>2
  <1>5. ASSUME NEW m \in ul, m # l PROVE Queued(ob, uo \ {b}, Q[m], Len(Q[m]), lv2[m])
    <2>1. PICK t \in Seq(OrderBlocks), K \in Nat :
              /\ t = Q[m] /\ K = Len(t) /\ K >= 1 /\ Queued(ob, uo, t, K, lv[m])
              /\ Chain(ob, t, K) /\ t[1] = lv[m].first_mkt_order_
              /\ \A j \in 1 .. K : t[j] \in uo /\ InList(t[j], Q[m])
      BY QueueOf DEF HasQueue
    <2>2. ASSUME NEW j \in 1 .. K PROVE t[j] \in uo \ {b}
      <3> SUFFICES ASSUME t[j] = b PROVE FALSE
        BY <2>1
      <3>1. InList(b, Q[m]) /\ InList(b, Q[l])
        BY <2>1
      <3>2. OneEach(Q, ul)
        BY OneQueue
      <3>3. l = m
        BY <3>1, <3>2 DEF OneEach
      <3> QED BY <3>3, <1>5
    <2>3. \A j \in 1 .. K : SameOrder(ob[t[j]], ob[t[j]]) /\ SameLinks(ob[t[j]], ob[t[j]])
      BY DEF SameOrder, SameLinks
    <2>4. SameQueue(lv2[m], lv[m])
      BY <1>5
    <2>5. Queued(ob, uo \ {b}, t, K, lv2[m])
      BY <2>1, <2>2, <2>3, <2>4, QueuedFrame
    <2> QED BY <2>1, <2>5
  <1>6. ASSUME NEW c \in uo \ {b} PROVE \E m \in ul \ {l} : InList(c, Q[m])
    <2>1. PICK m \in ul : InList(c, Q[m])
      BY DEF OrdersOk
    <2>2. m # l
      BY <2>1, <1>4
    <2> QED BY <2>1, <2>2
  <1>7. \A m \in ul \ {l} : Queued(ob, uo \ {b}, Q[m], Len(Q[m]), lv2[m])
    BY <1>5
  <1> QED BY <1>6, <1>7 DEF OrdersOk

\* Orders of which only quantities have changed.
LEMMA OrdersFrame ==
    ASSUME NEW ob, NEW ob2, NEW uo, uo \subseteq OrderBlocks, NEW lv,
           NEW ul, ul \subseteq LevelBlocks, NEW Q \in [LevelBlocks -> Seq(OrderBlocks)],
           OrdersOk(ob, uo, lv, ul, Q),
           \A c \in uo : SameOrder(ob2[c], ob[c]) /\ SameLinks(ob2[c], ob[c])
    PROVE  OrdersOk(ob2, uo, lv, ul, Q)
  <1>1. ASSUME NEW m \in ul PROVE Queued(ob2, uo, Q[m], Len(Q[m]), lv[m])
    <2>1. PICK t \in Seq(OrderBlocks), K \in Nat :
              /\ t = Q[m] /\ K = Len(t) /\ K >= 1 /\ Queued(ob, uo, t, K, lv[m])
              /\ Chain(ob, t, K) /\ t[1] = lv[m].first_mkt_order_
              /\ \A j \in 1 .. K : t[j] \in uo /\ InList(t[j], Q[m])
      BY QueueOf DEF HasQueue
    <2>2. SameQueue(lv[m], lv[m])
      BY DEF SameQueue, SameLabel
    <2>3. Queued(ob2, uo, t, K, lv[m])
      BY <2>1, <2>2, QueuedFrame
    <2> QED BY <2>1, <2>3
  <1> QED BY <1>1 DEF OrdersOk

-----------------------------------------------------------------------------
(* What LinkBefore and Unlink do to the objects of a pool.                 *)

SameStock(o, p) == SameOrder(o, p) /\ o.qty_ = p.qty_

\* Orders linked and unlinked.
LEMMA OrdersLinked ==
    ASSUME NEW ob \in [OrderBlocks -> TradingOrder],
           NEW b \in OrderBlocks, NEW target \in OrderBlocks
    PROVE  /\ LinkBefore(ob, b, target) \in [OrderBlocks -> TradingOrder]
           /\ LinkedTo(LinkBefore(ob, b, target), ob, ME_MAX_ORDER_IDS, b, target)
           /\ \A c \in OrderBlocks : SameStock(LinkBefore(ob, b, target)[c], ob[c])
  <1>1. PICK t : t = ob[target].prev
    OBVIOUS
  <1>2. t \in 0 .. ME_MAX_ORDER_IDS
    BY <1>1 DEF TradingOrder
  <1> DEFINE p(c) == IF c = target THEN b ELSE IF c = b THEN t ELSE ob[c].prev
             x(c) == IF c = t THEN b ELSE IF c = b THEN target ELSE ob[c].next
             o(c) == [ob[c] EXCEPT !.prev = p(c), !.next = x(c)]
  <1>3. LinkBefore(ob, b, target) = [c \in OrderBlocks |-> o(c)]
    BY <1>1 DEF LinkBefore, TradingOrder
  <1>4. ASSUME NEW c \in OrderBlocks
        PROVE  p(c) \in 0 .. ME_MAX_ORDER_IDS /\ x(c) \in 0 .. ME_MAX_ORDER_IDS
    BY <1>2, TradingBookAssumption DEF TradingOrder, OrderBlocks
  <1> HIDE DEF p, x
  <1>5. ASSUME NEW c \in OrderBlocks
        PROVE  /\ o(c) \in TradingOrder /\ o(c).prev = p(c) /\ o(c).next = x(c)
               /\ SameStock(o(c), ob[c])
    BY <1>4 DEF TradingOrder, SameStock, SameOrder
  <1> HIDE DEF o
  <1>6. [c \in OrderBlocks |-> o(c)] \in [OrderBlocks -> TradingOrder]
    BY <1>5
  <1>7. LinkedTo([c \in OrderBlocks |-> o(c)], ob, ME_MAX_ORDER_IDS, b, target)
    BY <1>1, <1>5 DEF LinkedTo, OrderBlocks, p, x
  <1> QED BY <1>3, <1>5, <1>6, <1>7

\* The same for an order unlinked.
LEMMA OrdersUnlinked ==
    ASSUME NEW ob \in [OrderBlocks -> TradingOrder], NEW b \in OrderBlocks
    PROVE  /\ Unlink(ob, b) \in [OrderBlocks -> TradingOrder]
           /\ Unlinked(Unlink(ob, b), ob, ME_MAX_ORDER_IDS, b)
           /\ \A c \in OrderBlocks : SameStock(Unlink(ob, b)[c], ob[c])
  <1>1. PICK t, u : t = ob[b].prev /\ u = ob[b].next
    OBVIOUS
  <1>2. t \in 0 .. ME_MAX_ORDER_IDS /\ u \in 0 .. ME_MAX_ORDER_IDS
    BY <1>1 DEF TradingOrder
  <1> DEFINE p(c) == IF c = b THEN nullptr ELSE IF c = u THEN t ELSE ob[c].prev
             x(c) == IF c = b THEN nullptr ELSE IF c = t THEN u ELSE ob[c].next
             o(c) == [ob[c] EXCEPT !.prev = p(c), !.next = x(c)]
  <1>3. Unlink(ob, b) = [c \in OrderBlocks |-> o(c)]
    BY <1>1 DEF Unlink, TradingOrder
  <1>4. ASSUME NEW c \in OrderBlocks
        PROVE  p(c) \in 0 .. ME_MAX_ORDER_IDS /\ x(c) \in 0 .. ME_MAX_ORDER_IDS
    BY <1>2, TradingBookAssumption DEF TradingOrder, OrderBlocks, nullptr
  <1> HIDE DEF p, x
  <1>5. ASSUME NEW c \in OrderBlocks
        PROVE  /\ o(c) \in TradingOrder /\ o(c).prev = p(c) /\ o(c).next = x(c)
               /\ SameStock(o(c), ob[c])
    BY <1>4 DEF TradingOrder, SameStock, SameOrder
  <1> HIDE DEF o
  <1>6. [c \in OrderBlocks |-> o(c)] \in [OrderBlocks -> TradingOrder]
    BY <1>5
  <1>7. Unlinked([c \in OrderBlocks |-> o(c)], ob, ME_MAX_ORDER_IDS, b)
    BY <1>1, <1>5 DEF Unlinked, OrderBlocks, p, x
  <1> QED BY <1>3, <1>5, <1>6, <1>7

\* Levels linked.
LEMMA LevelsLinked ==
    ASSUME NEW lv \in [LevelBlocks -> TradingOrdersAtPrice],
           NEW b \in LevelBlocks, NEW target \in LevelBlocks
    PROVE  /\ LinkBefore(lv, b, target) \in [LevelBlocks -> TradingOrdersAtPrice]
           /\ LinkedTo(LinkBefore(lv, b, target), lv, ME_MAX_PRICE_LEVELS, b, target)
           /\ \A c \in LevelBlocks : SameQueue(LinkBefore(lv, b, target)[c], lv[c])
  <1>1. PICK t : t = lv[target].prev
    OBVIOUS
  <1>2. t \in 0 .. ME_MAX_PRICE_LEVELS
    BY <1>1 DEF TradingOrdersAtPrice
  <1> DEFINE p(c) == IF c = target THEN b ELSE IF c = b THEN t ELSE lv[c].prev
             x(c) == IF c = t THEN b ELSE IF c = b THEN target ELSE lv[c].next
             o(c) == [lv[c] EXCEPT !.prev = p(c), !.next = x(c)]
  <1>3. LinkBefore(lv, b, target) = [c \in LevelBlocks |-> o(c)]
    BY <1>1 DEF LinkBefore, TradingOrdersAtPrice
  <1>4. ASSUME NEW c \in LevelBlocks
        PROVE  p(c) \in 0 .. ME_MAX_PRICE_LEVELS /\ x(c) \in 0 .. ME_MAX_PRICE_LEVELS
    BY <1>2, TradingBookAssumption DEF TradingOrdersAtPrice, LevelBlocks
  <1> HIDE DEF p, x
  <1>5. ASSUME NEW c \in LevelBlocks
        PROVE  /\ o(c) \in TradingOrdersAtPrice /\ o(c).prev = p(c) /\ o(c).next = x(c)
               /\ SameQueue(o(c), lv[c])
    BY <1>4 DEF TradingOrdersAtPrice, SameQueue, SameLabel
  <1> HIDE DEF o
  <1>6. [c \in LevelBlocks |-> o(c)] \in [LevelBlocks -> TradingOrdersAtPrice]
    BY <1>5
  <1>7. LinkedTo([c \in LevelBlocks |-> o(c)], lv, ME_MAX_PRICE_LEVELS, b, target)
    BY <1>1, <1>5 DEF LinkedTo, LevelBlocks, p, x
  <1> QED BY <1>3, <1>5, <1>6, <1>7

\* A level unlinked.
LEMMA LevelsUnlinked ==
    ASSUME NEW lv \in [LevelBlocks -> TradingOrdersAtPrice], NEW b \in LevelBlocks
    PROVE  /\ Unlink(lv, b) \in [LevelBlocks -> TradingOrdersAtPrice]
           /\ Unlinked(Unlink(lv, b), lv, ME_MAX_PRICE_LEVELS, b)
           /\ \A c \in LevelBlocks : SameQueue(Unlink(lv, b)[c], lv[c])
  <1>1. PICK t, u : t = lv[b].prev /\ u = lv[b].next
    OBVIOUS
  <1>2. t \in 0 .. ME_MAX_PRICE_LEVELS /\ u \in 0 .. ME_MAX_PRICE_LEVELS
    BY <1>1 DEF TradingOrdersAtPrice
  <1> DEFINE p(c) == IF c = b THEN nullptr ELSE IF c = u THEN t ELSE lv[c].prev
             x(c) == IF c = b THEN nullptr ELSE IF c = t THEN u ELSE lv[c].next
             o(c) == [lv[c] EXCEPT !.prev = p(c), !.next = x(c)]
  <1>3. Unlink(lv, b) = [c \in LevelBlocks |-> o(c)]
    BY <1>1 DEF Unlink, TradingOrdersAtPrice
  <1>4. ASSUME NEW c \in LevelBlocks
        PROVE  p(c) \in 0 .. ME_MAX_PRICE_LEVELS /\ x(c) \in 0 .. ME_MAX_PRICE_LEVELS
    BY <1>2, TradingBookAssumption DEF TradingOrdersAtPrice, LevelBlocks, nullptr
  <1> HIDE DEF p, x
  <1>5. ASSUME NEW c \in LevelBlocks
        PROVE  /\ o(c) \in TradingOrdersAtPrice /\ o(c).prev = p(c) /\ o(c).next = x(c)
               /\ SameQueue(o(c), lv[c])
    BY <1>4 DEF TradingOrdersAtPrice, SameQueue, SameLabel
  <1> HIDE DEF o
  <1>6. [c \in LevelBlocks |-> o(c)] \in [LevelBlocks -> TradingOrdersAtPrice]
    BY <1>5
  <1>7. Unlinked([c \in LevelBlocks |-> o(c)], lv, ME_MAX_PRICE_LEVELS, b)
    BY <1>1, <1>5 DEF Unlinked, LevelBlocks, p, x
  <1> QED BY <1>3, <1>5, <1>6, <1>7

-----------------------------------------------------------------------------
(* The book of the updates and the map of its orders.                      *)

\* The orders in uo are as they were.
Stock(ob2, ob, uo) == \A c \in uo : SameStock(ob2[c], ob[c])

\* An order more.
LEMMA BookAdded ==
    ASSUME NEW ob, NEW ob2, NEW uo, uo \subseteq OrderBlocks,
           NEW om \in [1 .. ME_MAX_ORDER_IDS - 1 -> 0 .. ME_MAX_ORDER_IDS],
           NEW bk, NEW last \in Nat, BookOk(ob, uo, om, bk, last),
           NEW id \in DOMAIN om, id > last, NEW s \in Sides, NEW price \in Prices,
           NEW b \in OrderBlocks, b \notin uo, Stock(ob2, ob, uo),
           ob2[b].order_id_ = id, ob2[b].side_ = s, ob2[b].price_ = price, ob2[b].qty_ = NewQty
    PROVE  BookOk(ob2, uo \cup {b}, [om EXCEPT ![id] = b],
                  With(bk, id, [side |-> s, price |-> price, qty |-> NewQty]), id)
  <1>1. PICK v : v = [side |-> s, price |-> price, qty |-> NewQty]
    OBVIOUS
  <1>2. v \in BookOrder
    BY <1>1, TradingBookAssumption DEF BookOrder
  <1>3. PICK bk2 : bk2 = With(bk, id, v)
    OBVIOUS
  <1>4. PICK om2 : om2 = [om EXCEPT ![id] = b]
    OBVIOUS
  <1>5. /\ bk \in [DOMAIN bk -> BookOrder] /\ DOMAIN bk \subseteq 1 .. last
        /\ DOMAIN bk \subseteq DOMAIN om /\ Known(ob, uo, om, bk)
    BY DEF BookOk
  <1>6. id \in Nat /\ id \notin DOMAIN bk
    BY <1>5, TradingBookAssumption
  <1>7. /\ DOMAIN bk2 = DOMAIN bk \cup {id} /\ bk2[id] = v
        /\ \A i \in DOMAIN bk : bk2[i] = bk[i]
    BY <1>3, <1>6 DEF With
  <1>8. bk2 \in [DOMAIN bk2 -> BookOrder]
    <2>1. bk2 = [i \in DOMAIN bk \cup {id} |-> bk2[i]]
      BY <1>3 DEF With
    <2>2. \A i \in DOMAIN bk \cup {id} : bk2[i] \in BookOrder
      BY <1>2, <1>5, <1>7
    <2> QED BY <2>1, <2>2, <1>7
  <1>9. DOMAIN bk2 \subseteq 1 .. id
    <2>1. id \in 1 .. id /\ 1 .. last \subseteq 1 .. id
      BY <1>6, TradingBookAssumption
    <2> QED BY <2>1, <1>5, <1>7
  <1>10. /\ DOMAIN om2 = DOMAIN om /\ om2[id] = b
         /\ \A i \in DOMAIN om : i # id => om2[i] = om[i]
    BY <1>4
  <1>11. Known(ob2, uo \cup {b}, om2, bk2)
    <2>1. ASSUME NEW c \in uo \cup {b}
          PROVE  /\ ob2[c].order_id_ \in DOMAIN bk2 /\ om2[ob2[c].order_id_] = c
                 /\ bk2[ob2[c].order_id_] =
                        [side |-> ob2[c].side_, price |-> ob2[c].price_, qty |-> ob2[c].qty_]
      <3>1. CASE c = b
        BY <3>1, <1>1, <1>7, <1>10
      <3>2. CASE c \in uo
        <4>1. PICK i : i = ob[c].order_id_
          OBVIOUS
        <4>2. /\ i \in DOMAIN bk /\ om[i] = c
              /\ bk[i] = [side |-> ob[c].side_, price |-> ob[c].price_, qty |-> ob[c].qty_]
          BY <3>2, <4>1, <1>5 DEF Known
        <4>3. /\ ob2[c].order_id_ = i /\ ob2[c].side_ = ob[c].side_
              /\ ob2[c].price_ = ob[c].price_ /\ ob2[c].qty_ = ob[c].qty_
          BY <3>2, <4>1 DEF Stock, SameStock, SameOrder
        <4>4. i \in DOMAIN om /\ i # id
          BY <4>2, <1>5, <1>6
        <4> QED BY <4>2, <4>3, <4>4, <1>7, <1>10
      <3> QED BY <3>1, <3>2
    <2>2. ASSUME NEW i \in DOMAIN om2, om2[i] # nullptr PROVE i \in DOMAIN bk2
      <3>1. CASE i = id
        BY <3>1, <1>7
      <3>2. CASE i # id
        <4>1. om[i] # nullptr /\ i \in DOMAIN om
          BY <3>2, <2>2, <1>10
        <4>2. i \in DOMAIN bk
          BY <4>1, <1>5 DEF Known
        <4> QED BY <4>2, <1>7
      <3> QED BY <3>1, <3>2
    <2>3. ASSUME NEW i \in DOMAIN bk2 PROVE om2[i] \in uo \cup {b} /\ ob2[om2[i]].order_id_ = i
      <3>1. CASE i = id
        BY <3>1, <1>10
      <3>2. CASE i # id
        <4>1. i \in DOMAIN bk /\ i \in DOMAIN om
          BY <3>2, <1>5, <1>7
        <4>2. om[i] \in uo /\ ob[om[i]].order_id_ = i
          BY <4>1, <1>5 DEF Known
        <4>3. ob2[om[i]].order_id_ = i
          BY <4>2 DEF Stock, SameStock, SameOrder
        <4> QED BY <3>2, <4>1, <4>2, <4>3, <1>10
      <3> QED BY <3>1, <3>2
    <2> QED BY <2>1, <2>2, <2>3 DEF Known
  <1>12. DOMAIN bk2 \subseteq DOMAIN om2
    BY <1>5, <1>7, <1>10
  <1>13. BookOk(ob2, uo \cup {b}, om2, bk2, id)
    BY <1>8, <1>9, <1>11, <1>12 DEF BookOk
  <1> QED BY <1>1, <1>3, <1>4, <1>13

\* An order less.
LEMMA BookCanceled ==
    ASSUME NEW ob, NEW ob2, NEW uo, uo \subseteq OrderBlocks,
           NEW om \in [1 .. ME_MAX_ORDER_IDS - 1 -> 0 .. ME_MAX_ORDER_IDS],
           NEW bk, NEW last, BookOk(ob, uo, om, bk, last),
           NEW id \in DOMAIN bk, NEW b, b = om[id], Stock(ob2, ob, uo)
    PROVE  BookOk(ob2, uo \ {b}, [om EXCEPT ![id] = nullptr], Without(bk, id), last)
  <1>3. PICK bk2 : bk2 = Without(bk, id)
    OBVIOUS
  <1>4. PICK om2 : om2 = [om EXCEPT ![id] = nullptr]
    OBVIOUS
  <1>5. /\ bk \in [DOMAIN bk -> BookOrder] /\ DOMAIN bk \subseteq 1 .. last
        /\ DOMAIN bk \subseteq DOMAIN om /\ Known(ob, uo, om, bk)
    BY DEF BookOk
  <1>6. id \in DOMAIN om /\ b \in uo /\ ob[b].order_id_ = id
    BY <1>5 DEF Known
  <1>7. /\ DOMAIN bk2 = DOMAIN bk \ {id}
        /\ \A i \in DOMAIN bk : i # id => bk2[i] = bk[i]
    BY <1>3 DEF Without
  <1>8. bk2 \in [DOMAIN bk2 -> BookOrder]
    <2>1. bk2 = [i \in DOMAIN bk \ {id} |-> bk2[i]]
      BY <1>3 DEF Without
    <2>2. \A i \in DOMAIN bk \ {id} : bk2[i] \in BookOrder
      BY <1>5, <1>7
    <2> QED BY <2>1, <2>2, <1>7
  <1>10. /\ DOMAIN om2 = DOMAIN om /\ om2[id] = nullptr
         /\ \A i \in DOMAIN om : i # id => om2[i] = om[i]
    BY <1>4, <1>6
  <1>11. Known(ob2, uo \ {b}, om2, bk2)
    <2>1. ASSUME NEW c \in uo \ {b}
          PROVE  /\ ob2[c].order_id_ \in DOMAIN bk2 /\ om2[ob2[c].order_id_] = c
                 /\ bk2[ob2[c].order_id_] =
                        [side |-> ob2[c].side_, price |-> ob2[c].price_, qty |-> ob2[c].qty_]
      <3>1. PICK i : i = ob[c].order_id_
        OBVIOUS
      <3>2. /\ i \in DOMAIN bk /\ om[i] = c
            /\ bk[i] = [side |-> ob[c].side_, price |-> ob[c].price_, qty |-> ob[c].qty_]
        BY <3>1, <1>5 DEF Known
      <3>3. /\ ob2[c].order_id_ = i /\ ob2[c].side_ = ob[c].side_
            /\ ob2[c].price_ = ob[c].price_ /\ ob2[c].qty_ = ob[c].qty_
        BY <3>1 DEF Stock, SameStock, SameOrder
      <3>4. i \in DOMAIN om /\ i # id
        BY <3>2, <1>5
      <3> QED BY <3>2, <3>3, <3>4, <1>7, <1>10
    <2>2. ASSUME NEW i \in DOMAIN om2, om2[i] # nullptr PROVE i \in DOMAIN bk2
      <3>1. i # id /\ om[i] # nullptr /\ i \in DOMAIN om
        BY <2>2, <1>10
      <3>2. i \in DOMAIN bk
        BY <3>1, <1>5 DEF Known
      <3> QED BY <3>1, <3>2, <1>7
    <2>3. ASSUME NEW i \in DOMAIN bk2 PROVE om2[i] \in uo \ {b} /\ ob2[om2[i]].order_id_ = i
      <3>1. i \in DOMAIN bk /\ i \in DOMAIN om /\ i # id
        BY <1>5, <1>7
      <3>2. om[i] \in uo /\ ob[om[i]].order_id_ = i
        BY <3>1, <1>5 DEF Known
      <3>3. ob2[om[i]].order_id_ = i
        BY <3>2 DEF Stock, SameStock, SameOrder
      <3> QED BY <3>1, <3>2, <3>3, <1>6, <1>10
    <2> QED BY <2>1, <2>2, <2>3 DEF Known
  <1>12. DOMAIN bk2 \subseteq DOMAIN om2 /\ DOMAIN bk2 \subseteq 1 .. last
    BY <1>5, <1>7, <1>10
  <1>13. BookOk(ob2, uo \ {b}, om2, bk2, last)
    BY <1>8, <1>11, <1>12 DEF BookOk
  <1> QED BY <1>3, <1>4, <1>13

\* An order with another quantity.
LEMMA BookModified ==
    ASSUME NEW ob, NEW ob2, NEW uo, NEW om, NEW bk, NEW last, BookOk(ob, uo, om, bk, last),
           NEW id \in DOMAIN bk, NEW b, b = om[id], NEW qty \in 1 .. NewQty,
           Stock(ob2, ob, uo \ {b}), SameOrder(ob2[b], ob[b]), ob2[b].qty_ = qty
    PROVE  BookOk(ob2, uo, om, [bk EXCEPT ![id].qty = qty], last)
  <1>1. /\ bk \in [DOMAIN bk -> BookOrder] /\ DOMAIN bk \subseteq 1 .. last
        /\ DOMAIN bk \subseteq DOMAIN om /\ Known(ob, uo, om, bk)
    BY DEF BookOk
  <1>2. b \in uo /\ ob[b].order_id_ = id
    BY <1>1 DEF Known
  <1>3. PICK v : v = [bk[id] EXCEPT !.qty = qty]
    OBVIOUS
  <1>4. bk[id] \in BookOrder
    BY <1>1
  <1>5. v \in BookOrder /\ v = [side |-> bk[id].side, price |-> bk[id].price, qty |-> qty]
    BY <1>3, <1>4 DEF BookOrder
  <1>6. PICK bk2 : bk2 = [bk EXCEPT ![id].qty = qty]
    OBVIOUS
  <1>7. bk2 = [bk EXCEPT ![id] = v]
    BY <1>3, <1>6
  <1>8. /\ DOMAIN bk2 = DOMAIN bk /\ bk2[id] = v /\ bk2 \in [DOMAIN bk2 -> BookOrder]
        /\ \A i \in DOMAIN bk : i # id => bk2[i] = bk[i]
    BY <1>1, <1>5, <1>7
  <1>9. Known(ob2, uo, om, bk2)
    <2>1. ASSUME NEW c \in uo
          PROVE  /\ ob2[c].order_id_ \in DOMAIN bk2 /\ om[ob2[c].order_id_] = c
                 /\ bk2[ob2[c].order_id_] =
                        [side |-> ob2[c].side_, price |-> ob2[c].price_, qty |-> ob2[c].qty_]
      <3>1. PICK i : i = ob[c].order_id_
        OBVIOUS
      <3>2. /\ i \in DOMAIN bk /\ om[i] = c
            /\ bk[i] = [side |-> ob[c].side_, price |-> ob[c].price_, qty |-> ob[c].qty_]
        BY <3>1, <1>1 DEF Known
      <3>3. CASE c = b
        <4>1. i = id
          BY <3>1, <3>3, <1>2
        <4>2. ob2[b].order_id_ = id /\ ob2[b].side_ = ob[b].side_ /\ ob2[b].price_ = ob[b].price_
          BY <1>2 DEF SameOrder
        <4>3. bk[id].side = ob[b].side_ /\ bk[id].price = ob[b].price_
          BY <3>2, <3>3, <4>1
        <4> QED BY <3>2, <3>3, <4>1, <4>2, <4>3, <1>5, <1>8
      <3>4. CASE c # b
        <4>1. /\ ob2[c].order_id_ = i /\ ob2[c].side_ = ob[c].side_
              /\ ob2[c].price_ = ob[c].price_ /\ ob2[c].qty_ = ob[c].qty_
          BY <3>1, <3>4 DEF Stock, SameStock, SameOrder
        <4>2. i # id
          BY <3>2, <3>4
        <4> QED BY <3>2, <4>1, <4>2, <1>8
      <3> QED BY <3>3, <3>4
    <2>2. \A i \in DOMAIN om : om[i] # nullptr => i \in DOMAIN bk2
      BY <1>1, <1>8 DEF Known
    <2>3. ASSUME NEW i \in DOMAIN bk2 PROVE om[i] \in uo /\ ob2[om[i]].order_id_ = i
      <3>1. om[i] \in uo /\ ob[om[i]].order_id_ = i
        BY <1>1, <1>8 DEF Known
      <3>2. ob2[om[i]].order_id_ = ob[om[i]].order_id_
        <4>1. CASE om[i] = b
          BY <4>1 DEF SameOrder
        <4>2. CASE om[i] # b
          BY <3>1, <4>2 DEF Stock, SameStock, SameOrder
        <4> QED BY <4>1, <4>2
      <3> QED BY <3>1, <3>2
    <2> QED BY <2>1, <2>2, <2>3 DEF Known
  <1>10. DOMAIN bk2 \subseteq 1 .. last /\ DOMAIN bk2 \subseteq DOMAIN om
    BY <1>1, <1>8
  <1>11. BookOk(ob2, uo, om, bk2, last)
    BY <1>8, <1>9, <1>10 DEF BookOk
  <1> QED BY <1>6, <1>11

-----------------------------------------------------------------------------
(* What the lists show.                                                    *)

\* Walking from the first order of a level shows Q.
Shown(ob, lv, Q, ul) == \A m \in ul : Ring(ob, lv[m].first_mkt_order_) = Q[m]

\* The orders of a level are its list.
LEMMA OrdersAre ==
    ASSUME NEW ob, DOMAIN ob = OrderBlocks, NEW uo, NEW lv, NEW ul, ul \subseteq LevelBlocks,
           NEW Q \in [LevelBlocks -> Seq(OrderBlocks)],
           OrdersOk(ob, uo, lv, ul, Q)
    PROVE  Shown(ob, lv, Q, ul)
  <1> SUFFICES ASSUME NEW m \in ul PROVE Ring(ob, lv[m].first_mkt_order_) = Q[m]
    BY DEF Shown
  <1>1. PICK t \in Seq(OrderBlocks), K \in Nat :
            /\ t = Q[m] /\ K = Len(t) /\ K >= 1 /\ Queued(ob, uo, t, K, lv[m])
            /\ Chain(ob, t, K) /\ t[1] = lv[m].first_mkt_order_
            /\ \A j \in 1 .. K : t[j] \in uo /\ InList(t[j], Q[m])
    BY QueueOf DEF HasQueue
  <1>2. PICK n \in Nat : n = ME_MAX_ORDER_IDS
    BY TradingBookAssumption
  <1>3. DOMAIN ob = 1 .. n /\ t \in Seq(1 .. n) /\ Cycle(ob, t)
    BY <1>1, <1>2 DEF OrderBlocks, Cycle
  <1>4. Ring(ob, t[1]) = t
    BY <1>3, RingIs
  <1> QED BY <1>1, <1>4

\* Walking from the best level of side s shows r.
HeadOf(lv, ul, r, bs, s) ==
    /\ bs[s] = nullptr => r = <<>>
    /\ bs[s] # nullptr => /\ Ring(lv, bs[s]) = r /\ Len(r) >= 1 /\ r[1] = bs[s]
                          /\ bs[s] \in ul /\ lv[bs[s]].side_ = s
                          /\ lv[bs[s]].price_ \in Prices

\* The levels of a side are its list, the first of them its best.
LEMMA LevelsAre ==
    ASSUME NEW lv, DOMAIN lv = LevelBlocks, NEW ul, ul \subseteq LevelBlocks,
           NEW R \in [Sides -> Seq(LevelBlocks)], NEW bs, NEW pm, LevelsOk(lv, ul, R, bs, pm),
           NEW s \in Sides
    PROVE  HeadOf(lv, ul, R[s], bs, s)
  <1>1. PICK r \in Seq(LevelBlocks) : r = R[s]
    OBVIOUS
  <1>2. PICK L \in Nat : L = Len(r)
    OBVIOUS
  <1>3. Listed(lv, ul, r, L, s, bs[s]) /\ Filed(lv, ul, R, pm)
    BY <1>1, <1>2 DEF LevelsOk
  <1>4. ASSUME bs[s] = nullptr PROVE R[s] = <<>>
    <2>1. L = 0
      BY <1>3, <1>4 DEF Listed
    <2>2. r \in Seq(LevelBlocks) /\ Len(r) = 0
      BY <1>2, <2>1
    <2>3. r = <<>>
      BY ONLY <2>2
    <2> QED BY <1>1, <2>3
  <1>5. ASSUME bs[s] # nullptr
        PROVE  /\ Ring(lv, bs[s]) = R[s] /\ L >= 1 /\ R[s][1] = bs[s]
               /\ bs[s] \in ul /\ lv[bs[s]].side_ = s /\ lv[bs[s]].price_ \in Prices
    <2>1. L # 0 /\ Chain(lv, r, L) /\ r[1] = bs[s] /\ \A k \in 1 .. L : r[k] \in ul /\ lv[r[k]].side_ = s
      BY <1>3, <1>5 DEF Listed
    <2>2. L >= 1 /\ 1 \in 1 .. L
      BY <2>1
    <2>3. PICK n \in Nat : n = ME_MAX_PRICE_LEVELS
      BY TradingBookAssumption
    <2>4. DOMAIN lv = 1 .. n /\ r \in Seq(1 .. n) /\ Cycle(lv, r)
      BY <2>1, <2>3, <1>2 DEF LevelBlocks, Cycle
    <2>5. Ring(lv, r[1]) = r
      BY <2>4, RingIs
    <2>6. lv[bs[s]].price_ \in Prices
      BY <2>1, <2>2, <1>3 DEF Filed
    <2> QED BY <2>1, <2>2, <2>5, <2>6, <1>1
  <1> QED BY <1>1, <1>2, <1>4, <1>5 DEF HeadOf

\* Best, of the pools' objects.
BestIn(ob, lv, bs, s) ==
    IF bs[s] = nullptr THEN Unset
    ELSE LET os == Ring(ob, lv[bs[s]].first_mkt_order_)
         IN  [price |-> lv[bs[s]].price_, qty |-> Total([k \in 1 .. Len(os) |-> ob[os[k]].qty_])]

\* It has its type.
LEMMA BestIsBBO ==
    ASSUME NEW ob \in [OrderBlocks -> TradingOrder], NEW uo, NEW ul, ul \subseteq LevelBlocks,
           NEW lv, DOMAIN lv = LevelBlocks,
           NEW R \in [Sides -> Seq(LevelBlocks)], NEW bs, NEW pm, LevelsOk(lv, ul, R, bs, pm),
           NEW Q \in [LevelBlocks -> Seq(OrderBlocks)], OrdersOk(ob, uo, lv, ul, Q),
           NEW s \in Sides
    PROVE  BestIn(ob, lv, bs, s) \in BBO
  <1>1. CASE bs[s] = nullptr
    BY <1>1 DEF BestIn, BBO, Unset, INVALID
  <1>2. CASE bs[s] # nullptr
    <2>1. bs[s] \in ul /\ lv[bs[s]].price_ \in Prices
      BY <1>2, LevelsAre DEF HeadOf
    <2>2. PICK os : os = Ring(ob, lv[bs[s]].first_mkt_order_)
      OBVIOUS
    <2>3. os = Q[bs[s]]
      <3>1. DOMAIN ob = OrderBlocks
        OBVIOUS
      <3>2. Shown(ob, lv, Q, ul)
        BY <3>1, OrdersAre
      <3> QED BY <2>1, <2>2, <3>2 DEF Shown
    <2>4. os \in Seq(OrderBlocks)
      BY <2>1, <2>3
    <2>5. Len(os) \in Nat /\ \A k \in 1 .. Len(os) : os[k] \in OrderBlocks
      BY <2>4
    <2>6. \A k \in 1 .. Len(os) : ob[os[k]].qty_ \in Nat
      BY <2>5, TradingBookAssumption DEF TradingOrder
    <2>7. PICK qs : qs = [k \in 1 .. Len(os) |-> ob[os[k]].qty_]
      OBVIOUS
    <2>8. qs \in [1 .. Len(os) -> Nat]
      BY <2>6, <2>7
    <2>9. qs \in Seq(Nat)
      BY <2>5, <2>8, SequenceOf
    <2>10. Total(qs) \in Nat
      BY <2>9, TotalIsNat
    <2>11. BestIn(ob, lv, bs, s) = [price |-> lv[bs[s]].price_, qty |-> Total(qs)]
      BY <1>2, <2>2, <2>7 DEF BestIn
    <2> QED BY <2>1, <2>10, <2>11 DEF BBO
  <1> QED BY <1>1, <1>2

\* Away from level l, which best level there is decides what Best is.
SameBest(ob2, lv2, bs2, ob, lv, bs, l) ==
    \A t \in Sides : bs[t] # nullptr /\ bs[t] # l /\ bs2[t] = bs[t]
                         => BestIn(ob2, lv2, bs2, t) = BestIn(ob, lv, bs, t)
SamePrices(lv2, lv, ul, l) == \A m \in ul : m # l => lv2[m].price_ = lv[m].price_
SameQtys(ob2, ob, Q, ul, l) ==
    \A m \in ul : m # l => \A k \in 1 .. Len(Q[m]) : ob2[Q[m][k]].qty_ = ob[Q[m][k]].qty_

\* Orders that are as they were have their quantities.
LEMMA StockHasQtys ==
    ASSUME NEW ob, NEW ob2, NEW uo, NEW ul, ul \subseteq LevelBlocks, NEW lv, NEW l,
           NEW Q \in [LevelBlocks -> Seq(OrderBlocks)], OrdersOk(ob, uo, lv, ul, Q),
           Stock(ob2, ob, uo)
    PROVE  SameQtys(ob2, ob, Q, ul, l)
  <1> SUFFICES ASSUME NEW m \in ul, NEW k \in 1 .. Len(Q[m])
               PROVE  ob2[Q[m][k]].qty_ = ob[Q[m][k]].qty_
    BY DEF SameQtys
  <1>1. Queued(ob, uo, Q[m], Len(Q[m]), lv[m])
    BY DEF OrdersOk
  <1>2. Q[m][k] \in uo
    BY <1>1 DEF Queued
  <1> QED BY <1>2 DEF Stock, SameStock

\* Best is what it was.
LEMMA SameBestIs ==
    ASSUME NEW ob, DOMAIN ob = OrderBlocks, NEW ob2, DOMAIN ob2 = OrderBlocks, NEW uo, NEW uo2,
           NEW ul, ul \subseteq LevelBlocks, NEW ul2, ul2 \subseteq LevelBlocks,
           NEW lv, DOMAIN lv = LevelBlocks, NEW lv2,
           NEW R \in [Sides -> Seq(LevelBlocks)], NEW bs, NEW pm, LevelsOk(lv, ul, R, bs, pm),
           NEW Q \in [LevelBlocks -> Seq(OrderBlocks)], OrdersOk(ob, uo, lv, ul, Q),
           NEW Q2 \in [LevelBlocks -> Seq(OrderBlocks)], OrdersOk(ob2, uo2, lv2, ul2, Q2),
           NEW bs2, NEW l, ul \ {l} \subseteq ul2, Kept(Q2, Q, ul2, l),
           SamePrices(lv2, lv, ul, l), SameQtys(ob2, ob, Q, ul, l)
    PROVE  SameBest(ob2, lv2, bs2, ob, lv, bs, l)
  <1> SUFFICES ASSUME NEW t \in Sides, bs[t] # nullptr, bs[t] # l, bs2[t] = bs[t]
               PROVE  BestIn(ob2, lv2, bs2, t) = BestIn(ob, lv, bs, t)
    BY DEF SameBest
  <1>1. bs[t] \in ul
    BY LevelsAre DEF HeadOf
  <1>2. PICK m \in ul : m = bs[t] /\ m # l /\ m # nullptr /\ m \in ul2
    BY <1>1
  <1>3. /\ Q2[m] = Q[m] /\ lv2[m].price_ = lv[m].price_
        /\ \A k \in 1 .. Len(Q[m]) : ob2[Q[m][k]].qty_ = ob[Q[m][k]].qty_
    BY <1>2 DEF Kept, SamePrices, SameQtys
  <1>4. Shown(ob, lv, Q, ul)
    BY OrdersAre
  <1>5. Shown(ob2, lv2, Q2, ul2)
    BY OrdersAre
  <1>6. PICK q : q = Q[m]
    OBVIOUS
  <1>7. Ring(ob, lv[m].first_mkt_order_) = q /\ Ring(ob2, lv2[m].first_mkt_order_) = q
    BY <1>2, <1>3, <1>4, <1>5, <1>6 DEF Shown
  <1>8. PICK x, y : /\ x = [k \in 1 .. Len(q) |-> ob[q[k]].qty_]
                    /\ y = [k \in 1 .. Len(q) |-> ob2[q[k]].qty_]
    OBVIOUS
  <1>9. x = y
    BY <1>3, <1>6, <1>8
  <1>10. BestIn(ob, lv, bs, t) = [price |-> lv[m].price_, qty |-> Total(x)]
    BY <1>2, <1>7, <1>8 DEF BestIn
  <1>11. BestIn(ob2, lv2, bs2, t) = [price |-> lv2[m].price_, qty |-> Total(y)]
    BY <1>2, <1>7, <1>8 DEF BestIn
  <1> QED BY <1>3, <1>9, <1>10, <1>11

-----------------------------------------------------------------------------
(* What the updates do.                                                    *)

\* The parts of a state.
LEMMA GoodParts ==
    ASSUME NEW op, NEW om, NEW lp, NEW pm, NEW bs, NEW bk, NEW last,
           Good(op, om, lp, pm, bs, bk, last)
    PROVE  /\ op.object_ \in [OrderBlocks -> TradingOrder] /\ InUse(op) \subseteq OrderBlocks
           /\ DOMAIN op.object_ = OrderBlocks /\ DOMAIN lp.object_ = LevelBlocks
           /\ lp.object_ \in [LevelBlocks -> TradingOrdersAtPrice]
           /\ InUse(lp) \subseteq LevelBlocks
           /\ ME_MAX_ORDER_IDS \in Nat /\ ME_MAX_PRICE_LEVELS \in Nat /\ last \in Nat
           /\ BookOk(op.object_, InUse(op), om, bk, last)
           /\ ListsOk(op.object_, InUse(op), lp.object_, InUse(lp), bs, pm)
  <1>1. ME_MAX_ORDER_IDS \in Nat /\ ME_MAX_PRICE_LEVELS \in Nat
    BY TradingBookAssumption
  <1>2. /\ op \in Pools(ME_MAX_ORDER_IDS, TradingOrder)
        /\ lp \in Pools(ME_MAX_PRICE_LEVELS, TradingOrdersAtPrice)
    BY DEF Good
  <1>3. /\ op.object_ \in [OrderBlocks -> TradingOrder]
        /\ InUse(op) = OrderBlocks \ Free(op)
    BY <1>1, <1>2, PoolBlocks, PoolIsOf DEF OrderBlocks
  <1>4. /\ lp.object_ \in [LevelBlocks -> TradingOrdersAtPrice]
        /\ InUse(lp) = LevelBlocks \ Free(lp)
    BY <1>1, <1>2, PoolBlocks, PoolIsOf DEF LevelBlocks
  <1>5. last \in Nat
    BY <1>1 DEF Good
  <1> QED BY <1>1, <1>3, <1>4, <1>5 DEF Good

\* A state of its parts.
LEMMA GoodOf ==
    ASSUME NEW op, NEW om, NEW lp, NEW pm, NEW bs, NEW bk, NEW last,
           NEW ob, NEW uo, NEW lv, NEW ul, NEW R, NEW Q,
           PoolIs(op, ME_MAX_ORDER_IDS, TradingOrder, ob, uo),
           PoolIs(lp, ME_MAX_PRICE_LEVELS, TradingOrdersAtPrice, lv, ul),
           om \in [1 .. ME_MAX_ORDER_IDS - 1 -> 0 .. ME_MAX_ORDER_IDS],
           pm \in [0 .. ME_MAX_PRICE_LEVELS - 1 -> 0 .. ME_MAX_PRICE_LEVELS],
           bs \in [Sides -> 0 .. ME_MAX_PRICE_LEVELS], last \in 0 .. ME_MAX_ORDER_IDS,
           BookOk(ob, uo, om, bk, last),
           R \in [Sides -> Seq(LevelBlocks)], Q \in [LevelBlocks -> Seq(OrderBlocks)],
           LevelsOk(lv, ul, R, bs, pm), OrdersOk(ob, uo, lv, ul, Q)
    PROVE  Good(op, om, lp, pm, bs, bk, last)
  <1>1. /\ op \in Pools(ME_MAX_ORDER_IDS, TradingOrder) /\ op.next_free_index_ \in Free(op)
        /\ op.object_ = ob /\ InUse(op) = uo
    BY DEF PoolIs
  <1>2. /\ lp \in Pools(ME_MAX_PRICE_LEVELS, TradingOrdersAtPrice)
        /\ lp.next_free_index_ \in Free(lp) /\ lp.object_ = lv /\ InUse(lp) = ul
    BY DEF PoolIs
  <1>3. ListsOk(ob, uo, lv, ul, bs, pm)
    BY DEF ListsOk
  <1> QED BY <1>1, <1>2, <1>3 DEF Good

\* An update at a price leaves Best as it is on the other side, and where the
\* best price is better.
Quiet(op2, lp2, bs2, op, lp, bs, s, price) ==
    \A t \in Sides :
        bs[t] # nullptr /\ (t # s \/ Better(t, lp.object_[bs[t]].price_, price))
            => BestIn(op2.object_, lp2.object_, bs2, t) = BestIn(op.object_, lp.object_, bs, t)

\* It does so when it concerns the level of that price.
LEMMA QuietAt ==
    ASSUME NEW op, NEW op2, NEW lp, NEW lp2, NEW ob, NEW ob2, NEW lv, NEW lv2,
           ob = op.object_, ob2 = op2.object_, lv = lp.object_, lv2 = lp2.object_,
           DOMAIN lv = LevelBlocks, NEW ul, ul \subseteq LevelBlocks,
           NEW R \in [Sides -> Seq(LevelBlocks)], NEW bs, NEW pm, LevelsOk(lv, ul, R, bs, pm),
           NEW l \in ul, NEW s, lv[l].side_ = s, NEW price \in Prices, lv[l].price_ = price,
           NEW bs2, SameBest(ob2, lv2, bs2, ob, lv, bs, l), Heads(bs2, bs, l)
    PROVE  Quiet(op2, lp2, bs2, op, lp, bs, s, price)
  <1> SUFFICES ASSUME NEW t \in Sides, bs[t] # nullptr,
                      t # s \/ Better(t, lv[bs[t]].price_, price)
               PROVE  BestIn(ob2, lv2, bs2, t) = BestIn(ob, lv, bs, t)
    BY DEF Quiet
  <1>1. HeadOf(lv, ul, R[t], bs, t)
    BY LevelsAre
  <1>2. lv[bs[t]].side_ = t
    BY <1>1 DEF HeadOf
  <1>3. ~Better(t, price, price)
    BY IndexIs, BetterIsOrder
  <1>4. bs[t] # l
    BY <1>2, <1>3
  <1> QED BY <1>4 DEF SameBest, Heads

\* A pool as it is.
LEMMA PoolStays ==
    ASSUME NEW n \in Nat, NEW T, NEW pool \in Pools(n, T), pool.next_free_index_ \in Free(pool)
    PROVE  PoolIs(pool, n, T, pool.object_, InUse(pool))
  BY DEF PoolIs

\* Orders of the other side are at other prices.
Clear(bk, s, price) == \A i \in DOMAIN bk : bk[i].side # s => Better(s, bk[i].price, price)

\* The order of an ADD.
NewOrder(id, s, price) == [order_id_ |-> id, side_ |-> s, price_ |-> price, qty_ |-> NewQty,
                           prev |-> nullptr, next |-> nullptr]

\* The orders with the new one in block b.
HasNew(ob1, ob, b, id, s, price) ==
    /\ ob1 \in [OrderBlocks -> TradingOrder] /\ Beside(ob1, ob, ME_MAX_ORDER_IDS, b)
    /\ ob1[b].order_id_ = id /\ ob1[b].side_ = s /\ ob1[b].price_ = price
    /\ ob1[b].qty_ = NewQty

\* The new order has its type.
LEMMA NewOrderIs ==
    ASSUME NEW ob \in [OrderBlocks -> TradingOrder], NEW b \in OrderBlocks,
           NEW id \in 1 .. ME_MAX_ORDER_IDS - 1, NEW s \in Sides, NEW price \in Prices,
           NEW ob1, ob1 = [ob EXCEPT ![b] = NewOrder(id, s, price)]
    PROVE  HasNew(ob1, ob, b, id, s, price)
  <1>1. NewOrder(id, s, price) \in TradingOrder
    BY TradingBookAssumption DEF NewOrder, TradingOrder, nullptr
  <1>2. ob1 \in [OrderBlocks -> TradingOrder]
    BY <1>1
  <1>3. ob1[b] = NewOrder(id, s, price)
    OBVIOUS
  <1>4. Beside(ob1, ob, ME_MAX_ORDER_IDS, b)
    BY DEF Beside, OrderBlocks
  <1>5. /\ ob1[b].order_id_ = id /\ ob1[b].side_ = s /\ ob1[b].price_ = price
        /\ ob1[b].qty_ = NewQty
    BY <1>3 DEF NewOrder
  <1> QED BY <1>2, <1>4, <1>5 DEF HasNew

\* The ids in the book are older.
LEMMA OlderIds ==
    ASSUME NEW ob, NEW uo, NEW om, NEW bk, NEW last \in Nat, BookOk(ob, uo, om, bk, last),
           NEW id \in Nat, id > last
    PROVE  \A c \in uo : ob[c].order_id_ < id
  <1> TAKE c \in uo
  <1>1. ob[c].order_id_ \in DOMAIN bk /\ DOMAIN bk \subseteq 1 .. last
    BY DEF BookOk, Known
  <1>2. PICK i : i = ob[c].order_id_
    OBVIOUS
  <1>3. i \in 1 .. last
    BY <1>1, <1>2
  <1>4. i < id
    BY <1>3
  <1> QED BY <1>2, <1>4

\* An ADD at a price that has a level.
LEMMA AddsOrder ==
    ASSUME PricesApart, NEW op, NEW om, NEW lp, NEW pm, NEW bs, NEW bk, NEW last,
           Good(op, om, lp, pm, bs, bk, last), NEW id \in DOMAIN om, id > last,
           NEW s \in Sides, NEW price \in Prices, Clear(bk, s, price), CanAllocate(op),
           NEW b, b = op.next_free_index_, NEW l, l = pm[PriceToIndex(price)], l # nullptr,
           NEW op2, op2 = [Allocate(op, NewOrder(id, s, price)) EXCEPT !.object_ =
                               LinkBefore(@, b, lp.object_[l].first_mkt_order_)]
    PROVE  /\ Good(op2, [om EXCEPT ![id] = b], lp, pm, bs,
                   With(bk, id, [side |-> s, price |-> price, qty |-> NewQty]), id)
           /\ Quiet(op2, lp, bs, op, lp, bs, s, price)
  <1>1. PICK ob, uo : ob = op.object_ /\ uo = InUse(op)
    OBVIOUS
  <1>2. PICK lv, ul : lv = lp.object_ /\ ul = InUse(lp)
    OBVIOUS
  <1>3. /\ ob \in [OrderBlocks -> TradingOrder] /\ uo \subseteq OrderBlocks
        /\ DOMAIN ob = OrderBlocks /\ DOMAIN lv = LevelBlocks
        /\ lv \in [LevelBlocks -> TradingOrdersAtPrice] /\ ul \subseteq LevelBlocks
        /\ ME_MAX_ORDER_IDS \in Nat /\ ME_MAX_PRICE_LEVELS \in Nat /\ last \in Nat
        /\ BookOk(ob, uo, om, bk, last) /\ ListsOk(ob, uo, lv, ul, bs, pm)
    BY <1>1, <1>2, GoodParts
  <1>4. /\ op \in Pools(ME_MAX_ORDER_IDS, TradingOrder)
        /\ lp \in Pools(ME_MAX_PRICE_LEVELS, TradingOrdersAtPrice)
        /\ lp.next_free_index_ \in Free(lp)
        /\ om \in [1 .. ME_MAX_ORDER_IDS - 1 -> 0 .. ME_MAX_ORDER_IDS]
        /\ pm \in [0 .. ME_MAX_PRICE_LEVELS - 1 -> 0 .. ME_MAX_PRICE_LEVELS]
        /\ bs \in [Sides -> 0 .. ME_MAX_PRICE_LEVELS]
    BY DEF Good
  <1>5. PICK R \in [Sides -> Seq(LevelBlocks)], Q \in [LevelBlocks -> Seq(OrderBlocks)] :
            LevelsOk(lv, ul, R, bs, pm) /\ OrdersOk(ob, uo, lv, ul, Q)
    BY <1>3 DEF ListsOk
  <1>6. id \in 1 .. ME_MAX_ORDER_IDS - 1 /\ id \in Nat /\ id \in 0 .. ME_MAX_ORDER_IDS
    <2>1. id \in 1 .. ME_MAX_ORDER_IDS - 1
      BY <1>4
    <2> QED BY <2>1, <1>3
  <1>7. l \in ul /\ lv[l].price_ = price
    <2>1. PriceToIndex(price) \in DOMAIN pm
      BY <1>4, IndexIs
    <2>2. Filed(lv, ul, R, pm)
      BY <1>5 DEF LevelsOk
    <2>3. l \in ul /\ PriceToIndex(lv[l].price_) = PriceToIndex(price) /\ lv[l].price_ \in Prices
      BY <2>1, <2>2 DEF Filed
    <2> QED BY <2>3 DEF PricesApart
  <1>8. PICK q \in Seq(OrderBlocks), M \in Nat :
            /\ q = Q[l] /\ M = Len(q) /\ M >= 1 /\ Queued(ob, uo, q, M, lv[l])
            /\ Chain(ob, q, M) /\ q[1] = lv[l].first_mkt_order_
            /\ \A k \in 1 .. M : q[k] \in uo /\ InList(q[k], Q[l])
    <2>1. HasQueue(ob, uo, lv, Q, l)
      BY ONLY <1>3, <1>5, <1>7, QueueOf
    <2> QED BY <2>1 DEF HasQueue
  <1>9. PICK first \in uo : first = lv[l].first_mkt_order_ /\ ob[first].side_ = lv[l].side_
                            /\ ob[first].price_ = price
    <2>1. 1 \in 1 .. M
      BY <1>8
    <2>2. ob[q[1]].side_ = lv[l].side_ /\ ob[q[1]].price_ = lv[l].price_
      BY <2>1, <1>8 DEF Queued
    <2> QED BY <2>1, <2>2, <1>7, <1>8
  <1>10. lv[l].side_ = s
    <2>1. PICK i : i = ob[first].order_id_
      OBVIOUS
    <2>2. i \in DOMAIN bk /\ bk[i].side = lv[l].side_ /\ bk[i].price = price
      <3>1. Known(ob, uo, om, bk)
        BY <1>3 DEF BookOk
      <3>2. i \in DOMAIN bk /\ bk[i] = [side |-> ob[first].side_, price |-> ob[first].price_,
                                       qty |-> ob[first].qty_]
        BY <3>1, <2>1 DEF Known
      <3> QED BY <3>2, <1>9
    <2>3. ~Better(s, price, price)
      BY IndexIs, BetterIsOrder
    <2> QED BY <2>2, <2>3 DEF Clear
  <1>11. b \in OrderBlocks /\ b \notin uo
    <2>1. b \in (1 .. ME_MAX_ORDER_IDS) \ InUse(op)
      BY <1>3, <1>4, Allocated DEF OrderBlocks
    <2> QED BY <2>1, <1>1 DEF OrderBlocks
  <1>12. PICK ob1 : ob1 = [ob EXCEPT ![b] = NewOrder(id, s, price)]
    OBVIOUS
  <1>13. /\ ob1 \in [OrderBlocks -> TradingOrder] /\ Beside(ob1, ob, ME_MAX_ORDER_IDS, b)
         /\ ob1[b].order_id_ = id /\ ob1[b].side_ = s /\ ob1[b].price_ = price
         /\ ob1[b].qty_ = NewQty
    <2>1. s \in Sides /\ price \in Prices
      OBVIOUS
    <2>2. HasNew(ob1, ob, b, id, s, price)
      BY ONLY <2>1, <1>3, <1>6, <1>11, <1>12, NewOrderIs
    <2> QED BY <2>2 DEF HasNew
  <1>14. PICK ob2 : ob2 = LinkBefore(ob1, b, first)
    OBVIOUS
  <1>15. /\ ob2 \in [OrderBlocks -> TradingOrder]
         /\ LinkedTo(ob2, ob1, ME_MAX_ORDER_IDS, b, first)
         /\ \A c \in OrderBlocks : SameStock(ob2[c], ob1[c])
    BY <1>3, <1>11, <1>13, <1>14, OrdersLinked
  <1>16. PoolIs(op2, ME_MAX_ORDER_IDS, TradingOrder, ob2, uo \cup {b})
    <2>1. Allocate(op, NewOrder(id, s, price)).object_ = ob1
      BY <1>1, <1>12 DEF Allocate
    <2>2. op2 = [Allocate(op, NewOrder(id, s, price)) EXCEPT !.object_ = ob2]
      BY <2>1, <1>2, <1>9, <1>14 DEF Allocate
    <2>3. ob2 \in [1 .. ME_MAX_ORDER_IDS -> TradingOrder]
      BY <1>15 DEF OrderBlocks
    <2>4. CanAllocate(op)
      OBVIOUS
    <2>5. PoolIs(op2, ME_MAX_ORDER_IDS, TradingOrder, ob2, InUse(op) \cup {op.next_free_index_})
      BY ONLY <2>2, <2>3, <2>4, <1>3, <1>4, Allocated
    <2> QED BY <2>5, <1>1
  <1>17. Stock(ob2, ob, uo) /\ Orderly(ob2, ob1, ME_MAX_ORDER_IDS)
    <2>1. \A c \in uo : c \in OrderBlocks /\ c \in 1 .. ME_MAX_ORDER_IDS /\ c # b
      BY <1>3, <1>11 DEF OrderBlocks
    <2>2. \A c \in uo : ob1[c] = ob[c]
      BY <2>1, <1>13 DEF Beside
    <2>3. Stock(ob2, ob, uo)
      BY <2>1, <2>2, <1>15 DEF Stock
    <2>4. Orderly(ob2, ob1, ME_MAX_ORDER_IDS)
      BY <1>15 DEF Orderly, SameStock, OrderBlocks
    <2> QED BY <2>3, <2>4
  <1>18. PICK Q2 \in [LevelBlocks -> Seq(OrderBlocks)] :
             OrdersOk(ob2, uo \cup {b}, lv, ul, Q2) /\ Kept(Q2, Q, ul, l)
    <2>1. \A c \in uo : ob[c].order_id_ < ob1[b].order_id_
      BY <1>3, <1>6, <1>13, OlderIds
    <2>2. Apart(lv, ul)
      BY <1>5, FiledApart
    <2>3. ob1[b].price_ = lv[l].price_ /\ ob1[b].side_ = lv[l].side_
      BY <1>7, <1>10, <1>13
    <2>4. LinkedTo(ob2, ob1, ME_MAX_ORDER_IDS, b, lv[l].first_mkt_order_)
      BY <1>9, <1>15
    <2>5. OrdersMove(ob2, uo \cup {b}, lv, ul, Q, l)
      BY ONLY <1>3, <1>5, <1>7, <1>11, <1>13, <1>17, <2>1, <2>2, <2>3, <2>4, OrderAppended
    <2> QED BY <2>5 DEF OrdersMove
  <1>19. PICK om2, bk2 : /\ om2 = [om EXCEPT ![id] = b]
                         /\ bk2 = With(bk, id, [side |-> s, price |-> price, qty |-> NewQty])
    OBVIOUS
  <1>20. BookOk(ob2, uo \cup {b}, om2, bk2, id)
    <2>1. ob2[b].order_id_ = id /\ ob2[b].side_ = s /\ ob2[b].price_ = price /\ ob2[b].qty_ = NewQty
      BY <1>11, <1>13, <1>15 DEF SameStock, SameOrder
    <2> QED BY <2>1, <1>3, <1>4, <1>6, <1>11, <1>17, <1>19, BookAdded
  <1>21. om2 \in [1 .. ME_MAX_ORDER_IDS - 1 -> 0 .. ME_MAX_ORDER_IDS]
    <2>1. b \in 0 .. ME_MAX_ORDER_IDS
      BY <1>3, <1>11 DEF OrderBlocks
    <2> QED BY <2>1, <1>4, <1>6, <1>19
  <1>22. PoolIs(lp, ME_MAX_PRICE_LEVELS, TradingOrdersAtPrice, lv, ul)
    BY <1>2, <1>3, <1>4, PoolStays
  <1>23. Good(op2, om2, lp, pm, bs, bk2, id)
    BY ONLY <1>4, <1>5, <1>6, <1>16, <1>18, <1>20, <1>21, <1>22, GoodOf
  <1>24. SameBest(ob2, lv, bs, ob, lv, bs, l)
    <2>1. DOMAIN ob2 = OrderBlocks /\ ul \ {l} \subseteq ul
      BY <1>15
    <2>2. SamePrices(lv, lv, ul, l)
      BY DEF SamePrices
    <2>3. SameQtys(ob2, ob, Q, ul, l)
      BY ONLY <1>3, <1>5, <1>17, StockHasQtys
    <2> QED BY ONLY <1>3, <1>5, <1>18, <2>1, <2>2, <2>3, SameBestIs
  <1>25. ob2 = op2.object_ /\ ob = op.object_ /\ lv = lp.object_
    BY <1>1, <1>2, <1>16 DEF PoolIs
  <1>26. Quiet(op2, lp, bs, op, lp, bs, s, price)
    <2>1. Heads(bs, bs, l) /\ price \in Prices
      BY DEF Heads
    <2> QED BY ONLY <2>1, <1>3, <1>5, <1>7, <1>10, <1>24, <1>25, QuietAt
  <1> QED BY <1>19, <1>23, <1>26

\* InsertionPoint, of the pool's objects; the level of an ADD, and the levels
\* with it in block l.
PointIn(lv, bs, s, price) ==
    LET ls    == IF bs[s] = nullptr THEN <<>> ELSE Ring(lv, bs[s])
        worse == {k \in 1 .. Len(ls) : ~Better(s, lv[ls[k]].price_, price)}
    IN  IF worse = {} THEN bs[s]
        ELSE ls[LeastOf(worse)]
NewLevel(s, price, b, l) == [side_ |-> s, price_ |-> price, first_mkt_order_ |-> b,
                             prev |-> l, next |-> l]
HasLevel(lv1, lv, s, price, b, l) ==
    /\ lv1 \in [LevelBlocks -> TradingOrdersAtPrice] /\ Beside(lv1, lv, ME_MAX_PRICE_LEVELS, l)
    /\ lv1[l].side_ = s /\ lv1[l].price_ = price /\ lv1[l].first_mkt_order_ = b
    /\ lv1[l].next = l /\ lv1[l].prev = l

\* The new level has its type.
LEMMA NewLevelIs ==
    ASSUME NEW lv \in [LevelBlocks -> TradingOrdersAtPrice], NEW l \in LevelBlocks,
           NEW b \in OrderBlocks, NEW s \in Sides, NEW price \in Prices,
           NEW lv1, lv1 = [lv EXCEPT ![l] = NewLevel(s, price, b, l)]
    PROVE  HasLevel(lv1, lv, s, price, b, l)
  <1>1. NewLevel(s, price, b, l) \in TradingOrdersAtPrice
    BY TradingBookAssumption DEF NewLevel, TradingOrdersAtPrice, LevelBlocks, OrderBlocks
  <1>2. lv1 \in [LevelBlocks -> TradingOrdersAtPrice]
    BY <1>1
  <1>3. lv1[l] = NewLevel(s, price, b, l)
    OBVIOUS
  <1>4. Beside(lv1, lv, ME_MAX_PRICE_LEVELS, l)
    BY DEF Beside, LevelBlocks
  <1>5. /\ lv1[l].side_ = s /\ lv1[l].price_ = price /\ lv1[l].first_mkt_order_ = b
        /\ lv1[l].next = l /\ lv1[l].prev = l
    BY <1>3 DEF NewLevel
  <1> QED BY <1>2, <1>4, <1>5 DEF HasLevel

\* The place in the list of a side that PointIn finds.
Point(lv, r, bs, s, price, k, target) ==
    /\ k \in 1 .. Len(r) + 1 /\ target = IF k = Len(r) + 1 THEN r[1] ELSE r[k]
    /\ bs[s] # nullptr => /\ Belongs(lv, r, Len(r), s, price, k) /\ target \in LevelBlocks
                          /\ target = PointIn(lv, bs, s, price)

\* There is one.
LEMMA PointIs ==
    ASSUME NEW lv, DOMAIN lv = LevelBlocks, NEW ul, ul \subseteq LevelBlocks,
           NEW R \in [Sides -> Seq(LevelBlocks)], NEW bs, NEW pm, LevelsOk(lv, ul, R, bs, pm),
           NEW s \in Sides, NEW price \in Prices, pm[PriceToIndex(price)] = nullptr
    PROVE  \E k, target : Point(lv, R[s], bs, s, price, k, target)
  <1>1. PICK r \in Seq(LevelBlocks) : r = R[s]
    OBVIOUS
  <1>2. PICK L \in Nat : L = Len(r)
    OBVIOUS
  <1>3. CASE bs[s] = nullptr
    <2>1. L + 1 \in 1 .. L + 1
      OBVIOUS
    <2>2. Point(lv, r, bs, s, price, L + 1, r[1])
      BY <1>2, <1>3, <2>1 DEF Point
    <2> QED BY <1>1, <2>2
  <1>4. CASE bs[s] # nullptr
    <2>1. Ring(lv, bs[s]) = r /\ L >= 1 /\ r[1] = bs[s]
      <3>1. HeadOf(lv, ul, R[s], bs, s)
        BY LevelsAre
      <3> QED BY <1>1, <1>2, <1>4, <3>1 DEF HeadOf
    <2>2. Listed(lv, ul, r, L, s, bs[s]) /\ Filed(lv, ul, R, pm)
      BY <1>1, <1>2 DEF LevelsOk
    <2>3. \A i \in 1 .. L : r[i] \in ul /\ r[i] # nullptr
      BY <2>2 DEF Listed, LevelBlocks, nullptr
    <2>4. \A i \in 1 .. L : lv[r[i]].price_ \in Prices /\ lv[r[i]].price_ # price
      BY <2>2, <2>3 DEF Filed
    <2>5. price \in Nat /\ \A i \in 1 .. L : lv[r[i]].price_ \in Nat /\ lv[r[i]].price_ # price
      BY <2>4, IndexIs
    <2>6. \A i, j \in 1 .. L : i < j => Better(s, lv[r[i]].price_, lv[r[j]].price_)
      BY <2>2 DEF Listed
    <2>7. PICK worse : worse = {k \in 1 .. L : ~Better(s, lv[r[k]].price_, price)}
      OBVIOUS
    <2>8. PICK target : target = IF worse = {} THEN r[1]
                                 ELSE r[LeastOf(worse)]
      OBVIOUS
    <2>9. target = PointIn(lv, bs, s, price)
      BY <1>2, <1>4, <2>1, <2>7, <2>8 DEF PointIn
    <2>10. PICK k \in 1 .. L + 1 : /\ target = IF k = L + 1 THEN r[1] ELSE r[k]
                                   /\ Belongs(lv, r, L, s, price, k)
      <3>1. L \in Nat
        OBVIOUS
      <3>2. HasPlace(lv, r, L, s, price, target)
        BY ONLY <3>1, <2>1, <2>5, <2>6, <2>7, <2>8, Insertion
      <3> QED BY <3>2 DEF HasPlace
    <2>11. target \in LevelBlocks
      <3>1. 1 \in 1 .. L /\ (k # L + 1 => k \in 1 .. L)
        BY <2>1
      <3> QED BY <3>1, <2>3, <2>10
    <2>12. Point(lv, r, bs, s, price, k, target)
      BY <1>2, <2>9, <2>10, <2>11 DEF Point
    <2> QED BY <1>1, <2>12
  <1> QED BY <1>3, <1>4

\* The order in block b linked to itself, and a new one that is.
Closed(ob, b) == [ob EXCEPT ![b] = [@ EXCEPT !.prev = b, !.next = b]]
WithNew(ob, b, id, s, price) == Closed([ob EXCEPT ![b] = NewOrder(id, s, price)], b)
HasAlone(ob2, ob, b, id, s, price) ==
    HasNew(ob2, ob, b, id, s, price) /\ ob2[b].prev = b /\ ob2[b].next = b

\* An order alone in its list.
LEMMA NewAloneIs ==
    ASSUME NEW ob \in [OrderBlocks -> TradingOrder], NEW b \in OrderBlocks,
           NEW id \in 1 .. ME_MAX_ORDER_IDS - 1, NEW s \in Sides, NEW price \in Prices,
           NEW ob2, ob2 = WithNew(ob, b, id, s, price)
    PROVE  HasAlone(ob2, ob, b, id, s, price)
  <1>0. PICK ob1 : ob1 = [ob EXCEPT ![b] = NewOrder(id, s, price)]
    OBVIOUS
  <1>1. HasNew(ob1, ob, b, id, s, price)
    BY <1>0, NewOrderIs
  <1>2. ob1 \in [OrderBlocks -> TradingOrder] /\ b \in OrderBlocks
    BY <1>1 DEF HasNew
  <1>3. PICK o \in TradingOrder : o = ob1[b]
    BY <1>2
  <1>4. PICK o2 : o2 = [o EXCEPT !.prev = b, !.next = b]
    OBVIOUS
  <1>5. b \in 0 .. ME_MAX_ORDER_IDS
    BY TradingBookAssumption DEF OrderBlocks
  <1>6. o2 \in TradingOrder /\ o2.prev = b /\ o2.next = b /\ SameStock(o2, o)
    BY ONLY <1>4, <1>5, o \in TradingOrder DEF TradingOrder, SameStock, SameOrder
  <1>7. ob2 = [ob1 EXCEPT ![b] = o2]
    BY <1>0, <1>3, <1>4 DEF Closed, WithNew
  <1>8. ob2 \in [OrderBlocks -> TradingOrder] /\ ob2[b] = o2
    BY ONLY <1>2, <1>6, <1>7
  <1>9. Beside(ob2, ob, ME_MAX_ORDER_IDS, b)
    BY <1>1, <1>2, <1>7 DEF HasNew, Beside, OrderBlocks
  <1> QED BY <1>1, <1>3, <1>6, <1>8, <1>9 DEF HasNew, HasAlone, SameStock, SameOrder

\* The level linked in, where there are others.
Entered(lv2, lv1, l, alone, target) ==
    /\ lv2 \in [LevelBlocks -> TradingOrdersAtPrice]
    /\ \A c \in LevelBlocks : SameQueue(lv2[c], lv1[c])
    /\ alone => lv2 = lv1
    /\ ~alone => LinkedTo(lv2, lv1, ME_MAX_PRICE_LEVELS, l, target)

\* It has its type and its neighbours.
LEMMA EnteredIs ==
    ASSUME NEW lv1 \in [LevelBlocks -> TradingOrdersAtPrice], NEW l \in LevelBlocks,
           NEW alone \in BOOLEAN, NEW target, ~alone => target \in LevelBlocks,
           NEW lv2, lv2 = IF alone THEN lv1 ELSE LinkBefore(lv1, l, target)
    PROVE  Entered(lv2, lv1, l, alone, target)
  <1>1. CASE alone
    BY <1>1 DEF Entered, SameQueue, SameLabel
  <1>2. CASE ~alone
    BY <1>2, LevelsLinked DEF Entered
  <1> QED BY <1>1, <1>2

\* The pools with a new order in block b, in a new level in block l.
OrderPut(op, id, s, price, b) ==
    [Allocate(op, NewOrder(id, s, price)) EXCEPT
        !.object_[b] = [@ EXCEPT !.prev = b, !.next = b]]
LevelPut(lp, bs, s, price, b, l) ==
    IF bs[s] = nullptr THEN Allocate(lp, NewLevel(s, price, b, l))
    ELSE [Allocate(lp, NewLevel(s, price, b, l)) EXCEPT !.object_ =
              LinkBefore(@, l, PointIn(lp.object_, bs, s, price))]

\* An ADD at a price that has no level yet.
LEMMA AddsLevel ==
    ASSUME NEW op, NEW om, NEW lp, NEW pm, NEW bs, NEW bk, NEW last,
           Good(op, om, lp, pm, bs, bk, last), NEW id \in DOMAIN om, id > last,
           NEW s \in Sides, NEW price \in Prices, CanAllocate(op), CanAllocate(lp),
           NEW b, b = op.next_free_index_, NEW l, l = lp.next_free_index_,
           NEW i0, i0 = PriceToIndex(price), pm[i0] = nullptr,
           NEW op2, op2 = OrderPut(op, id, s, price, b),
           NEW lp2, lp2 = LevelPut(lp, bs, s, price, b, l),
           NEW bs2, bs2 = Headed(bs, lp.object_, s, price, l)
    PROVE  /\ Good(op2, Put(om, id, b), lp2, Put(pm, i0, l), bs2,
                   With(bk, id, [side |-> s, price |-> price, qty |-> NewQty]), id)
           /\ Quiet(op2, lp2, bs2, op, lp, bs, s, price)
  <1>1. PICK ob, uo : ob = op.object_ /\ uo = InUse(op)
    OBVIOUS
  <1>2. PICK lv, ul : lv = lp.object_ /\ ul = InUse(lp)
    OBVIOUS
  <1>3. /\ ob \in [OrderBlocks -> TradingOrder] /\ uo \subseteq OrderBlocks
        /\ DOMAIN ob = OrderBlocks /\ DOMAIN lv = LevelBlocks
        /\ lv \in [LevelBlocks -> TradingOrdersAtPrice] /\ ul \subseteq LevelBlocks
        /\ ME_MAX_ORDER_IDS \in Nat /\ ME_MAX_PRICE_LEVELS \in Nat /\ last \in Nat
        /\ BookOk(ob, uo, om, bk, last) /\ ListsOk(ob, uo, lv, ul, bs, pm)
    BY <1>1, <1>2, GoodParts
  <1>4. /\ op \in Pools(ME_MAX_ORDER_IDS, TradingOrder)
        /\ lp \in Pools(ME_MAX_PRICE_LEVELS, TradingOrdersAtPrice)
        /\ om \in [1 .. ME_MAX_ORDER_IDS - 1 -> 0 .. ME_MAX_ORDER_IDS]
        /\ pm \in [0 .. ME_MAX_PRICE_LEVELS - 1 -> 0 .. ME_MAX_PRICE_LEVELS]
        /\ bs \in [Sides -> 0 .. ME_MAX_PRICE_LEVELS]
    BY DEF Good
  <1>5. PICK R \in [Sides -> Seq(LevelBlocks)], Q \in [LevelBlocks -> Seq(OrderBlocks)] :
            LevelsOk(lv, ul, R, bs, pm) /\ OrdersOk(ob, uo, lv, ul, Q)
    BY <1>3 DEF ListsOk
  <1>6. id \in 1 .. ME_MAX_ORDER_IDS - 1 /\ id \in Nat /\ id \in 0 .. ME_MAX_ORDER_IDS
    <2>1. id \in 1 .. ME_MAX_ORDER_IDS - 1
      BY <1>4
    <2> QED BY <2>1, <1>3
  <1>7. /\ b \in OrderBlocks /\ b \notin uo /\ l \in LevelBlocks /\ l \notin ul
        /\ s \in Sides /\ price \in Prices
    <2>1. b \in (1 .. ME_MAX_ORDER_IDS) \ InUse(op)
      BY <1>3, <1>4, Allocated DEF OrderBlocks
    <2>2. l \in (1 .. ME_MAX_PRICE_LEVELS) \ InUse(lp)
      BY <1>3, <1>4, Allocated DEF LevelBlocks
    <2> QED BY <2>1, <2>2, <1>1, <1>2 DEF OrderBlocks, LevelBlocks
  <1>8. PICK ob1, ob2 : /\ ob1 = [ob EXCEPT ![b] = NewOrder(id, s, price)]
                        /\ ob2 = Closed(ob1, b)
    OBVIOUS
  <1>9. /\ ob2 \in [OrderBlocks -> TradingOrder] /\ Beside(ob2, ob, ME_MAX_ORDER_IDS, b)
        /\ ob2[b].order_id_ = id /\ ob2[b].side_ = s /\ ob2[b].price_ = price
        /\ ob2[b].qty_ = NewQty /\ ob2[b].prev = b /\ ob2[b].next = b
    <2>1. HasAlone(ob2, ob, b, id, s, price)
      <3>1. ob2 = WithNew(ob, b, id, s, price)
        BY <1>8 DEF WithNew
      <3> QED BY ONLY <3>1, <1>3, <1>6, <1>7, NewAloneIs
    <2> QED BY <2>1 DEF HasNew, HasAlone
  <1>10. PoolIs(op2, ME_MAX_ORDER_IDS, TradingOrder, ob2, uo \cup {b})
    <2>1. Allocate(op, NewOrder(id, s, price)).object_ = ob1
      BY <1>1, <1>8 DEF Allocate
    <2>2. op2 = [Allocate(op, NewOrder(id, s, price)) EXCEPT !.object_ = ob2]
      <3>1. PICK A : A = Allocate(op, NewOrder(id, s, price))
        OBVIOUS
      <3>2. op2 = [A EXCEPT !.object_[b] = [@ EXCEPT !.prev = b, !.next = b]]
        BY <3>1 DEF OrderPut
      <3>3. A.object_ = ob1
        BY <2>1, <3>1
      <3>4. op2 = [A EXCEPT !.object_ = [ob1 EXCEPT ![b] = [@ EXCEPT !.prev = b, !.next = b]]]
        BY ONLY <3>2, <3>3
      <3> QED BY <3>1, <3>4, <1>8 DEF Closed
    <2>3. ob2 \in [1 .. ME_MAX_ORDER_IDS -> TradingOrder]
      BY <1>9 DEF OrderBlocks
    <2>4. CanAllocate(op)
      OBVIOUS
    <2>5. PoolIs(op2, ME_MAX_ORDER_IDS, TradingOrder, ob2, InUse(op) \cup {op.next_free_index_})
      BY ONLY <2>2, <2>3, <2>4, <1>3, <1>4, Allocated
    <2> QED BY <2>5, <1>1
  <1>11. PICK lv1 : lv1 = [lv EXCEPT ![l] = NewLevel(s, price, b, l)]
    OBVIOUS
  <1>12. /\ lv1 \in [LevelBlocks -> TradingOrdersAtPrice] /\ Beside(lv1, lv, ME_MAX_PRICE_LEVELS, l)
         /\ lv1[l].side_ = s /\ lv1[l].price_ = price /\ lv1[l].first_mkt_order_ = b
         /\ lv1[l].next = l /\ lv1[l].prev = l
    <2>1. HasLevel(lv1, lv, s, price, b, l)
      BY ONLY <1>3, <1>7, <1>11, NewLevelIs
    <2> QED BY <2>1 DEF HasLevel
  <1>13. PICK r \in Seq(LevelBlocks), L \in Nat : r = R[s] /\ L = Len(r)
    OBVIOUS
  <1>14. PICK k, target : Point(lv, r, bs, s, price, k, target)
    <2>1. pm[PriceToIndex(price)] = nullptr
      OBVIOUS
    <2>2. \E k, target : Point(lv, R[s], bs, s, price, k, target)
      BY ONLY <2>1, <1>3, <1>5, <1>7, PointIs
    <2> QED BY <2>2, <1>13
  <1>15. /\ k \in 1 .. L + 1 /\ target = IF k = L + 1 THEN r[1] ELSE r[k]
         /\ bs[s] # nullptr => /\ Belongs(lv, r, L, s, price, k) /\ target \in LevelBlocks
                               /\ target = PointIn(lv, bs, s, price)
    BY <1>13, <1>14 DEF Point
  <1>16. PICK alone \in BOOLEAN : alone <=> bs[s] = nullptr
    OBVIOUS
  <1>17. PICK lv2 : lv2 = IF alone THEN lv1 ELSE LinkBefore(lv1, l, target)
    OBVIOUS
  <1>18. /\ lv2 \in [LevelBlocks -> TradingOrdersAtPrice]
         /\ \A c \in LevelBlocks : SameQueue(lv2[c], lv1[c])
         /\ bs[s] = nullptr => lv2 = lv1
         /\ bs[s] # nullptr => LinkedTo(lv2, lv1, ME_MAX_PRICE_LEVELS, l, target)
    <2>1. ~alone => target \in LevelBlocks
      BY <1>15, <1>16
    <2>2. alone \in BOOLEAN
      OBVIOUS
    <2>3. Entered(lv2, lv1, l, alone, target)
      BY ONLY <2>1, <2>2, <1>7, <1>12, <1>17, EnteredIs
    <2> QED BY <2>3, <1>16 DEF Entered
  <1>19. PoolIs(lp2, ME_MAX_PRICE_LEVELS, TradingOrdersAtPrice, lv2, ul \cup {l})
    <2>1. Allocate(lp, NewLevel(s, price, b, l)).object_ = lv1
      BY <1>2, <1>11 DEF Allocate
    <2>2. lp2 = [Allocate(lp, NewLevel(s, price, b, l)) EXCEPT !.object_ = lv2]
      <3>1. CASE bs[s] = nullptr
        BY <3>1, <2>1, <1>18 DEF Allocate, LevelPut
      <3>2. CASE bs[s] # nullptr
        BY <3>2, <2>1, <1>2, <1>15, <1>16, <1>17 DEF Allocate, LevelPut
      <3> QED BY <3>1, <3>2
    <2>3. lv2 \in [1 .. ME_MAX_PRICE_LEVELS -> TradingOrdersAtPrice]
      BY <1>18 DEF LevelBlocks
    <2>4. CanAllocate(lp)
      OBVIOUS
    <2>5. PoolIs(lp2, ME_MAX_PRICE_LEVELS, TradingOrdersAtPrice, lv2,
                 InUse(lp) \cup {lp.next_free_index_})
      BY ONLY <2>2, <2>3, <2>4, <1>3, <1>4, Allocated
    <2> QED BY <2>5, <1>2
  <1>20. PICK pm2 : pm2 = Put(pm, i0, l)
    OBVIOUS
  <1>21. PICK R2 \in [Sides -> Seq(LevelBlocks)] : LevelsOk(lv2, ul \cup {l}, R2, bs2, pm2)
    <2>1. Labels(lv2, lv1, ME_MAX_PRICE_LEVELS)
      BY <1>18 DEF Labels, SameQueue, LevelBlocks
    <2>2. i0 = PriceToIndex(price) /\ pm[i0] = nullptr /\ bs2 = Headed(bs, lv, s, price, l)
      BY <1>2
    <2>3. Aimed(lv2, lv1, lv, r, L, bs, s, price, l, k, target)
      BY <1>15, <1>18 DEF Aimed
    <2>4. LevelsMove(lv2, ul \cup {l}, bs2, Put(pm, i0, l))
      BY ONLY <1>3, <1>4, <1>5, <1>7, <1>12, <1>13, <1>18, <2>1, <2>2, <2>3, LevelAdded
    <2> QED BY <2>4, <1>20 DEF LevelsMove
  <1>22. \A m \in ul : SameQueue(lv2[m], lv[m])
    <2>1. \A m \in ul : m \in LevelBlocks /\ m \in 1 .. ME_MAX_PRICE_LEVELS /\ m # l
      BY <1>3, <1>7 DEF LevelBlocks
    <2>2. \A m \in ul : lv1[m] = lv[m]
      BY <2>1, <1>12 DEF Beside
    <2> QED BY <2>1, <2>2, <1>18
  <1>23. PICK Q2 \in [LevelBlocks -> Seq(OrderBlocks)] :
             OrdersOk(ob2, uo \cup {b}, lv2, ul \cup {l}, Q2) /\ Kept(Q2, Q, ul \cup {l}, l)
    <2>1. lv2[l].first_mkt_order_ = b /\ ob2[b].price_ = lv2[l].price_ /\ ob2[b].side_ = lv2[l].side_
      BY <1>7, <1>9, <1>12, <1>18 DEF SameQueue, SameLabel
    <2>2. OrdersMove(ob2, uo \cup {b}, lv2, ul \cup {l}, Q, l)
      BY ONLY <1>3, <1>5, <1>7, <1>9, <1>22, <2>1, OrderAlone
    <2> QED BY <2>2 DEF OrdersMove
  <1>24. Stock(ob2, ob, uo)
    <2>1. \A c \in uo : c \in 1 .. ME_MAX_ORDER_IDS /\ c # b
      BY <1>3, <1>7 DEF OrderBlocks
    <2> QED BY <2>1, <1>9 DEF Beside, Stock, SameStock, SameOrder
  <1>25. PICK om2, bk2 : /\ om2 = [om EXCEPT ![id] = b]
                         /\ bk2 = With(bk, id, [side |-> s, price |-> price, qty |-> NewQty])
    OBVIOUS
  <1>26. BookOk(ob2, uo \cup {b}, om2, bk2, id)
    BY <1>3, <1>4, <1>6, <1>7, <1>9, <1>24, <1>25, BookAdded
  <1>27. /\ om2 \in [1 .. ME_MAX_ORDER_IDS - 1 -> 0 .. ME_MAX_ORDER_IDS]
         /\ pm2 \in [0 .. ME_MAX_PRICE_LEVELS - 1 -> 0 .. ME_MAX_PRICE_LEVELS]
         /\ bs2 \in [Sides -> 0 .. ME_MAX_PRICE_LEVELS]
    <2>1. b \in 0 .. ME_MAX_ORDER_IDS /\ l \in 0 .. ME_MAX_PRICE_LEVELS
      BY <1>3, <1>7 DEF OrderBlocks, LevelBlocks
    <2>2. om2 \in [1 .. ME_MAX_ORDER_IDS - 1 -> 0 .. ME_MAX_ORDER_IDS]
      BY <2>1, <1>4, <1>6, <1>25
    <2>3. pm2 \in [0 .. ME_MAX_PRICE_LEVELS - 1 -> 0 .. ME_MAX_PRICE_LEVELS]
      BY <2>1, <1>4, <1>20 DEF Put
    <2>4. bs2 \in [Sides -> 0 .. ME_MAX_PRICE_LEVELS]
      BY <2>1, <1>4 DEF Headed
    <2> QED BY <2>2, <2>3, <2>4
  <1>28. Good(op2, om2, lp2, pm2, bs2, bk2, id)
    BY ONLY <1>6, <1>10, <1>19, <1>21, <1>23, <1>26, <1>27, GoodOf
  <1>29. SameBest(ob2, lv2, bs2, ob, lv, bs, l)
    <2>1. DOMAIN ob2 = OrderBlocks /\ ul \cup {l} \subseteq LevelBlocks /\ ul \ {l} \subseteq ul \cup {l}
      BY <1>3, <1>7, <1>9
    <2>2. SamePrices(lv2, lv, ul, l)
      BY <1>22 DEF SamePrices, SameQueue, SameLabel
    <2>3. SameQtys(ob2, ob, Q, ul, l)
      BY ONLY <1>3, <1>5, <1>24, StockHasQtys
    <2> QED BY ONLY <1>3, <1>5, <1>23, <2>1, <2>2, <2>3, SameBestIs
  <1>30. Quiet(op2, lp2, bs2, op, lp, bs, s, price)
    <2>1. ob2 = op2.object_ /\ lv2 = lp2.object_
      BY <1>10, <1>19 DEF PoolIs
    <2>2. ASSUME NEW t \in Sides, bs[t] # nullptr, t # s \/ Better(t, lv[bs[t]].price_, price)
          PROVE  BestIn(ob2, lv2, bs2, t) = BestIn(ob, lv, bs, t)
      <3>1. HeadOf(lv, ul, R[t], bs, t)
        BY ONLY <1>3, <1>5, <2>2, LevelsAre
      <3>2. bs[t] \in ul /\ lv[bs[t]].price_ \in Prices
        BY <2>2, <3>1 DEF HeadOf
      <3>3. t = s => ~Better(s, price, lv[bs[t]].price_)
        <4>1. PICK x \in Nat : x = lv[bs[t]].price_
          BY <3>2, IndexIs
        <4>2. price \in Nat
          BY IndexIs
        <4>3. Better(s, x, price) => ~Better(s, price, x)
          BY ONLY <4>2, x \in Nat, BetterIsOrder
        <4> QED BY <4>1, <4>3, <2>2
      <3>4. bs2[t] = bs[t]
        BY <3>3, <2>2, <1>2 DEF Headed
      <3> QED BY <3>2, <3>4, <2>2, <1>7, <1>29 DEF SameBest
    <2> QED BY <2>1, <2>2, <1>1, <1>2 DEF Quiet
  <1> QED BY <1>20, <1>25, <1>28, <1>30 DEF Put

\* Order id is in block b, in the list of level l.
Placed(ob, uo, lv, ul, pm, om, bk, Q, id, b, l) ==
    /\ b \in uo /\ om[id] = b /\ ob[b].order_id_ = id
    /\ ob[b].side_ = bk[id].side /\ ob[b].price_ = bk[id].price
    /\ bk[id].side \in Sides /\ bk[id].price \in Prices
    /\ l \in ul /\ InList(b, Q[l]) /\ lv[l].side_ = bk[id].side /\ lv[l].price_ = bk[id].price
    /\ pm[PriceToIndex(bk[id].price)] = l

\* Every order of the book is.
LEMMA OrderOf ==
    ASSUME NEW ob, NEW uo, NEW lv, NEW ul, ul \subseteq LevelBlocks, NEW om, NEW pm, NEW bs,
           NEW bk, NEW last, BookOk(ob, uo, om, bk, last),
           NEW R, LevelsOk(lv, ul, R, bs, pm),
           NEW Q \in [LevelBlocks -> Seq(OrderBlocks)], OrdersOk(ob, uo, lv, ul, Q),
           NEW id \in DOMAIN bk, NEW b, b = om[id],
           NEW l, l = pm[PriceToIndex(bk[id].price)]
    PROVE  Placed(ob, uo, lv, ul, pm, om, bk, Q, id, b, l)
  <1>1. b \in uo /\ ob[b].order_id_ = id
    BY DEF BookOk, Known
  <1>2. bk[id] = [side |-> ob[b].side_, price |-> ob[b].price_, qty |-> ob[b].qty_]
    BY <1>1 DEF BookOk, Known
  <1>3. bk[id] \in BookOrder
    BY DEF BookOk
  <1>4. bk[id].side \in Sides /\ bk[id].price \in Prices
    BY <1>3 DEF BookOrder
  <1>5. ob[b].side_ = bk[id].side /\ ob[b].price_ = bk[id].price
    BY <1>2
  <1>6. PICK m \in ul : InList(b, Q[m])
    BY <1>1 DEF OrdersOk
  <1>7. PICK q, M : q = Q[m] /\ M = Len(q) /\ Queued(ob, uo, q, M, lv[m])
    BY DEF OrdersOk
  <1>8. lv[m].side_ = ob[b].side_ /\ lv[m].price_ = ob[b].price_
    <2>1. PICK k \in 1 .. M : q[k] = b
      BY <1>6, <1>7 DEF InList
    <2> QED BY <2>1, <1>7 DEF Queued
  <1>9. pm[PriceToIndex(lv[m].price_)] = m
    BY DEF LevelsOk, Filed
  <1>10. m = l
    BY <1>5, <1>8, <1>9
  <1> QED BY <1>1, <1>4, <1>5, <1>6, <1>8, <1>10 DEF Placed

\* The level whose first order b is has x as its first.
Refirst(lv, l, b, x) ==
    IF lv[l].first_mkt_order_ # b THEN lv ELSE [lv EXCEPT ![l] = [@ EXCEPT !.first_mkt_order_ = x]]
Refirsted(lv2, lv, l, b, x) ==
    /\ lv2 \in [LevelBlocks -> TradingOrdersAtPrice]
    /\ \A m \in LevelBlocks : /\ m # l => SameQueue(lv2[m], lv[m])
                              /\ SameLabel(lv2[m], lv[m]) /\ SameLinks(lv2[m], lv[m])
    /\ lv2[l].first_mkt_order_ =
           IF lv[l].first_mkt_order_ # b THEN lv[l].first_mkt_order_ ELSE x

\* Nothing else of the levels changes.
LEMMA RefirstIs ==
    ASSUME NEW lv \in [LevelBlocks -> TradingOrdersAtPrice], NEW l \in LevelBlocks, NEW b,
           NEW x \in 0 .. ME_MAX_ORDER_IDS, NEW lv2, lv2 = Refirst(lv, l, b, x)
    PROVE  Refirsted(lv2, lv, l, b, x)
  <1>1. CASE lv[l].first_mkt_order_ # b
    <2>1. lv2 = lv
      BY <1>1 DEF Refirst
    <2> QED BY <2>1, <1>1 DEF Refirsted, SameQueue, SameLabel, SameLinks
  <1>2. CASE lv[l].first_mkt_order_ = b
    <2>1. PICK v \in TradingOrdersAtPrice : v = lv[l]
      OBVIOUS
    <2>2. PICK v2 : v2 = [v EXCEPT !.first_mkt_order_ = x]
      OBVIOUS
    <2>3. v2 \in TradingOrdersAtPrice /\ v2.first_mkt_order_ = x /\ SameLabel(v2, v) /\ SameLinks(v2, v)
      BY ONLY <2>2, v \in TradingOrdersAtPrice, x \in 0 .. ME_MAX_ORDER_IDS
         DEF TradingOrdersAtPrice, SameLabel, SameLinks
    <2>4. lv2 = [lv EXCEPT ![l] = v2]
      BY <2>1, <2>2, <1>2 DEF Refirst
    <2>5. lv2 \in [LevelBlocks -> TradingOrdersAtPrice] /\ lv2[l] = v2
      BY <2>3, <2>4
    <2>6. \A m \in LevelBlocks : m # l => lv2[m] = lv[m]
      BY <2>4
    <2>7. \A m \in LevelBlocks : m # l => SameQueue(lv2[m], lv[m])
      BY <2>6 DEF SameQueue, SameLabel
    <2>8. \A m \in LevelBlocks : SameLabel(lv2[m], lv[m]) /\ SameLinks(lv2[m], lv[m])
      BY <2>1, <2>3, <2>5, <2>6 DEF SameLabel, SameLinks
    <2> QED BY <2>3, <2>5, <2>7, <2>8, <1>2 DEF Refirsted
  <1> QED BY <1>1, <1>2

\* A CANCEL of an order that is not alone at its price.
LEMMA CancelsOrder ==
    ASSUME NEW op, NEW om, NEW lp, NEW pm, NEW bs, NEW bk, NEW last,
           Good(op, om, lp, pm, bs, bk, last), NEW id \in DOMAIN bk, NEW b, b = om[id],
           NEW l, l = pm[PriceToIndex(bk[id].price)], op.object_[b].prev # b,
           NEW op2, op2 = Deallocate([op EXCEPT !.object_ = Unlink(op.object_, b)], {b}),
           NEW lp2, lp2 = [lp EXCEPT !.object_ =
                               Refirst(lp.object_, l, b, op.object_[b].next)]
    PROVE  /\ Good(op2, [om EXCEPT ![id] = nullptr], lp2, pm, bs, Without(bk, id), last)
           /\ Quiet(op2, lp2, bs, op, lp, bs, bk[id].side, bk[id].price)
  <1>1. PICK ob, uo : ob = op.object_ /\ uo = InUse(op)
    OBVIOUS
  <1>2. PICK lv, ul : lv = lp.object_ /\ ul = InUse(lp)
    OBVIOUS
  <1>3. /\ ob \in [OrderBlocks -> TradingOrder] /\ uo \subseteq OrderBlocks
        /\ DOMAIN ob = OrderBlocks /\ DOMAIN lv = LevelBlocks
        /\ lv \in [LevelBlocks -> TradingOrdersAtPrice] /\ ul \subseteq LevelBlocks
        /\ ME_MAX_ORDER_IDS \in Nat /\ ME_MAX_PRICE_LEVELS \in Nat /\ last \in Nat
        /\ BookOk(ob, uo, om, bk, last) /\ ListsOk(ob, uo, lv, ul, bs, pm)
    BY <1>1, <1>2, GoodParts
  <1>4. /\ op \in Pools(ME_MAX_ORDER_IDS, TradingOrder) /\ op.next_free_index_ \in Free(op)
        /\ lp \in Pools(ME_MAX_PRICE_LEVELS, TradingOrdersAtPrice)
        /\ lp.next_free_index_ \in Free(lp)
        /\ om \in [1 .. ME_MAX_ORDER_IDS - 1 -> 0 .. ME_MAX_ORDER_IDS]
        /\ pm \in [0 .. ME_MAX_PRICE_LEVELS - 1 -> 0 .. ME_MAX_PRICE_LEVELS]
        /\ bs \in [Sides -> 0 .. ME_MAX_PRICE_LEVELS] /\ last \in 0 .. ME_MAX_ORDER_IDS
    BY DEF Good
  <1>5. PICK R \in [Sides -> Seq(LevelBlocks)], Q \in [LevelBlocks -> Seq(OrderBlocks)] :
            LevelsOk(lv, ul, R, bs, pm) /\ OrdersOk(ob, uo, lv, ul, Q)
    BY <1>3 DEF ListsOk
  <1>6. PICK s, price : s = bk[id].side /\ price = bk[id].price
    OBVIOUS
  <1>7. /\ b \in uo /\ b \in OrderBlocks /\ l \in ul /\ l \in LevelBlocks /\ InList(b, Q[l])
        /\ s \in Sides /\ price \in Prices /\ lv[l].side_ = s /\ lv[l].price_ = price
    <2>1. id \in DOMAIN bk /\ b = om[id] /\ l = pm[PriceToIndex(bk[id].price)]
      OBVIOUS
    <2>2. Placed(ob, uo, lv, ul, pm, om, bk, Q, id, b, l)
      BY ONLY <2>1, <1>3, <1>5, OrderOf
    <2> QED BY <2>2, <1>3, <1>6 DEF Placed
  <1>8. PICK ob2, x : ob2 = Unlink(ob, b) /\ x = ob[b].next
    OBVIOUS
  <1>9. /\ ob2 \in [OrderBlocks -> TradingOrder] /\ Unlinked(ob2, ob, ME_MAX_ORDER_IDS, b)
        /\ \A c \in OrderBlocks : SameStock(ob2[c], ob[c])
    BY <1>3, <1>7, <1>8, OrdersUnlinked
  <1>10. PICK lv2 : lv2 = Refirst(lv, l, b, x)
    OBVIOUS
  <1>11. /\ lv2 \in [LevelBlocks -> TradingOrdersAtPrice]
         /\ \A m \in LevelBlocks : /\ m # l => SameQueue(lv2[m], lv[m])
                                   /\ SameLabel(lv2[m], lv[m]) /\ SameLinks(lv2[m], lv[m])
         /\ lv2[l].first_mkt_order_ =
                IF lv[l].first_mkt_order_ # b THEN lv[l].first_mkt_order_ ELSE x
    <2>1. ob[b] \in TradingOrder
      BY <1>3, <1>7
    <2>2. x \in 0 .. ME_MAX_ORDER_IDS
      BY <2>1, <1>8 DEF TradingOrder
    <2>3. Refirsted(lv2, lv, l, b, x)
      BY ONLY <2>2, <1>3, <1>7, <1>10, RefirstIs
    <2> QED BY <2>3 DEF Refirsted
  <1>12. PoolIs(op2, ME_MAX_ORDER_IDS, TradingOrder, ob2, uo \ {b})
    <2>1. op2 = Deallocate([op EXCEPT !.object_ = ob2], {b})
      BY <1>1, <1>8
    <2>2. ob2 \in [1 .. ME_MAX_ORDER_IDS -> TradingOrder]
      BY <1>9 DEF OrderBlocks
    <2>3. PoolIs(op2, ME_MAX_ORDER_IDS, TradingOrder, ob2, InUse(op) \ {b})
      BY ONLY <2>1, <2>2, <1>3, <1>4, Deallocated
    <2> QED BY <2>3, <1>1
  <1>13. PoolIs(lp2, ME_MAX_PRICE_LEVELS, TradingOrdersAtPrice, lv2, ul)
    <2>1. lp2 = [lp EXCEPT !.object_ = lv2]
      BY <1>1, <1>2, <1>8, <1>10
    <2>2. lv2 \in [1 .. ME_MAX_PRICE_LEVELS -> TradingOrdersAtPrice]
      BY <1>11 DEF LevelBlocks
    <2>3. PoolIs(lp2, ME_MAX_PRICE_LEVELS, TradingOrdersAtPrice, lv2, InUse(lp))
      BY ONLY <2>1, <2>2, <1>3, <1>4, Rewritten
    <2> QED BY <2>3, <1>2
  <1>14. LevelsOk(lv2, ul, R, bs, pm)
    <2>1. \A c \in ul : SameLabel(lv2[c], lv[c]) /\ SameLinks(lv2[c], lv[c])
      BY <1>3, <1>11
    <2> QED BY ONLY <2>1, <1>3, <1>5, LevelsFrame
  <1>15. Stock(ob2, ob, uo) /\ Orderly(ob2, ob, ME_MAX_ORDER_IDS)
    BY <1>3, <1>9 DEF Stock, Orderly, SameStock, OrderBlocks
  <1>16. PICK Q2 \in [LevelBlocks -> Seq(OrderBlocks)] :
             OrdersOk(ob2, uo \ {b}, lv2, ul, Q2) /\ Kept(Q2, Q, ul, l)
    <2>1. Apart(lv, ul)
      BY <1>5, FiledApart
    <2>2. /\ \A m \in ul : m # l => SameQueue(lv2[m], lv[m])
          /\ SameLabel(lv2[l], lv[l]) /\ ob[b].prev # b
          /\ lv2[l].first_mkt_order_ =
                 IF lv[l].first_mkt_order_ # b THEN lv[l].first_mkt_order_ ELSE ob[b].next
      BY <1>1, <1>3, <1>7, <1>8, <1>11
    <2>3. OrdersMove(ob2, uo \ {b}, lv2, ul, Q, l)
      BY ONLY <2>1, <2>2, <1>3, <1>5, <1>7, <1>9, <1>15, OrderDropped
    <2> QED BY <2>3 DEF OrdersMove
  <1>17. PICK om2, bk2 : om2 = [om EXCEPT ![id] = nullptr] /\ bk2 = Without(bk, id)
    OBVIOUS
  <1>18. BookOk(ob2, uo \ {b}, om2, bk2, last)
    BY <1>3, <1>4, <1>15, <1>17, BookCanceled
  <1>19. om2 \in [1 .. ME_MAX_ORDER_IDS - 1 -> 0 .. ME_MAX_ORDER_IDS]
    <2>1. nullptr \in 0 .. ME_MAX_ORDER_IDS
      BY <1>3 DEF nullptr
    <2> QED BY ONLY <2>1, <1>4, <1>17
  <1>20. Good(op2, om2, lp2, pm, bs, bk2, last)
    BY ONLY <1>4, <1>5, <1>12, <1>13, <1>14, <1>16, <1>18, <1>19, GoodOf
  <1>21. SameBest(ob2, lv2, bs, ob, lv, bs, l)
    <2>1. DOMAIN ob2 = OrderBlocks /\ ul \ {l} \subseteq ul
      BY <1>9
    <2>2. SamePrices(lv2, lv, ul, l)
      BY <1>3, <1>11 DEF SamePrices, SameLabel
    <2>3. SameQtys(ob2, ob, Q, ul, l)
      BY ONLY <1>3, <1>5, <1>15, StockHasQtys
    <2> QED BY ONLY <1>3, <1>5, <1>16, <2>1, <2>2, <2>3, SameBestIs
  <1>22. Quiet(op2, lp2, bs, op, lp, bs, s, price)
    <2>1. ob2 = op2.object_ /\ lv2 = lp2.object_ /\ ob = op.object_ /\ lv = lp.object_
      BY <1>1, <1>2, <1>12, <1>13 DEF PoolIs
    <2>2. Heads(bs, bs, l)
      BY DEF Heads
    <2> QED BY ONLY <2>1, <2>2, <1>3, <1>5, <1>7, <1>21, QuietAt
  <1> QED BY <1>6, <1>17, <1>20, <1>22

\* The levels with l unlinked, unless it is alone.
Leave(lv, l) == IF lv[l].next = l THEN lv ELSE Unlink(lv, l)
Left(lv2, lv, l) ==
    /\ lv2 \in [LevelBlocks -> TradingOrdersAtPrice]
    /\ \A c \in LevelBlocks : SameQueue(lv2[c], lv[c])
    /\ lv[l].next = l => lv2 = lv
    /\ lv[l].next # l => Unlinked(lv2, lv, ME_MAX_PRICE_LEVELS, l)

\* They have their type and their neighbours.
LEMMA LeaveIs ==
    ASSUME NEW lv \in [LevelBlocks -> TradingOrdersAtPrice], NEW l \in LevelBlocks,
           NEW lv2, lv2 = Leave(lv, l)
    PROVE  Left(lv2, lv, l)
  <1>1. CASE lv[l].next = l
    BY <1>1 DEF Leave, Left, SameQueue, SameLabel
  <1>2. CASE lv[l].next # l
    BY <1>2, LevelsUnlinked DEF Leave, Left
  <1> QED BY <1>1, <1>2

\* A CANCEL of the only order at its price.
LEMMA CancelsLevel ==
    ASSUME NEW op, NEW om, NEW lp, NEW pm, NEW bs, NEW bk, NEW last,
           Good(op, om, lp, pm, bs, bk, last), NEW id \in DOMAIN bk, NEW b, b = om[id],
           NEW i0, i0 = PriceToIndex(bk[id].price), NEW l, l = pm[i0], op.object_[b].prev = b,
           NEW op2, op2 = Deallocate([op EXCEPT !.object_ = op.object_], {b}),
           NEW lp2, lp2 = Deallocate([lp EXCEPT !.object_ = Leave(lp.object_, l)], {l}),
           NEW bs2, bs2 = Beheaded(bs, lp.object_, bk[id].side, l)
    PROVE  /\ Good(op2, [om EXCEPT ![id] = nullptr], lp2, Put(pm, i0, nullptr), bs2,
                   Without(bk, id), last)
           /\ Quiet(op2, lp2, bs2, op, lp, bs, bk[id].side, bk[id].price)
  <1>1. PICK ob, uo : ob = op.object_ /\ uo = InUse(op)
    OBVIOUS
  <1>2. PICK lv, ul : lv = lp.object_ /\ ul = InUse(lp)
    OBVIOUS
  <1>3. /\ ob \in [OrderBlocks -> TradingOrder] /\ uo \subseteq OrderBlocks
        /\ DOMAIN ob = OrderBlocks /\ DOMAIN lv = LevelBlocks
        /\ lv \in [LevelBlocks -> TradingOrdersAtPrice] /\ ul \subseteq LevelBlocks
        /\ ME_MAX_ORDER_IDS \in Nat /\ ME_MAX_PRICE_LEVELS \in Nat /\ last \in Nat
        /\ BookOk(ob, uo, om, bk, last) /\ ListsOk(ob, uo, lv, ul, bs, pm)
    BY <1>1, <1>2, GoodParts
  <1>4. /\ op \in Pools(ME_MAX_ORDER_IDS, TradingOrder) /\ op.next_free_index_ \in Free(op)
        /\ lp \in Pools(ME_MAX_PRICE_LEVELS, TradingOrdersAtPrice)
        /\ lp.next_free_index_ \in Free(lp)
        /\ om \in [1 .. ME_MAX_ORDER_IDS - 1 -> 0 .. ME_MAX_ORDER_IDS]
        /\ pm \in [0 .. ME_MAX_PRICE_LEVELS - 1 -> 0 .. ME_MAX_PRICE_LEVELS]
        /\ bs \in [Sides -> 0 .. ME_MAX_PRICE_LEVELS] /\ last \in 0 .. ME_MAX_ORDER_IDS
    BY DEF Good
  <1>5. PICK R \in [Sides -> Seq(LevelBlocks)], Q \in [LevelBlocks -> Seq(OrderBlocks)] :
            LevelsOk(lv, ul, R, bs, pm) /\ OrdersOk(ob, uo, lv, ul, Q)
    BY <1>3 DEF ListsOk
  <1>6. PICK s, price : s = bk[id].side /\ price = bk[id].price
    OBVIOUS
  <1>7. /\ b \in uo /\ b \in OrderBlocks /\ l \in ul /\ l \in LevelBlocks /\ InList(b, Q[l])
        /\ s \in Sides /\ price \in Prices /\ lv[l].side_ = s /\ lv[l].price_ = price
    <2>1. id \in DOMAIN bk /\ b = om[id] /\ l = pm[PriceToIndex(bk[id].price)]
      OBVIOUS
    <2>2. Placed(ob, uo, lv, ul, pm, om, bk, Q, id, b, l)
      BY ONLY <2>1, <1>3, <1>5, OrderOf
    <2> QED BY <2>2, <1>3, <1>6 DEF Placed
  <1>8. PICK lv2, pm2 : lv2 = Leave(lv, l) /\ pm2 = Put(pm, i0, nullptr)
    OBVIOUS
  <1>9. /\ lv2 \in [LevelBlocks -> TradingOrdersAtPrice]
        /\ \A c \in LevelBlocks : SameQueue(lv2[c], lv[c])
        /\ lv[l].next = l => lv2 = lv
        /\ lv[l].next # l => Unlinked(lv2, lv, ME_MAX_PRICE_LEVELS, l)
    <2>1. Left(lv2, lv, l)
      BY ONLY <1>3, <1>7, <1>8, LeaveIs
    <2> QED BY <2>1 DEF Left
  <1>10. PoolIs(op2, ME_MAX_ORDER_IDS, TradingOrder, ob, uo \ {b})
    <2>1. op2 = Deallocate([op EXCEPT !.object_ = ob], {b})
      BY <1>1
    <2>2. ob \in [1 .. ME_MAX_ORDER_IDS -> TradingOrder]
      BY <1>3 DEF OrderBlocks
    <2>3. PoolIs(op2, ME_MAX_ORDER_IDS, TradingOrder, ob, InUse(op) \ {b})
      BY ONLY <2>1, <2>2, <1>3, <1>4, Deallocated
    <2> QED BY <2>3, <1>1
  <1>11. PoolIs(lp2, ME_MAX_PRICE_LEVELS, TradingOrdersAtPrice, lv2, ul \ {l})
    <2>1. lp2 = Deallocate([lp EXCEPT !.object_ = lv2], {l})
      BY <1>2, <1>8
    <2>2. lv2 \in [1 .. ME_MAX_PRICE_LEVELS -> TradingOrdersAtPrice]
      BY <1>9 DEF LevelBlocks
    <2>3. PoolIs(lp2, ME_MAX_PRICE_LEVELS, TradingOrdersAtPrice, lv2, InUse(lp) \ {l})
      BY ONLY <2>1, <2>2, <1>3, <1>4, Deallocated
    <2> QED BY <2>3, <1>2
  <1>12. LevelsMove(lv2, ul \ {l}, bs2, pm2) /\ Heads(bs2, bs, l)
    <2>1. Labels(lv2, lv, ME_MAX_PRICE_LEVELS)
      BY <1>9 DEF Labels, SameQueue, LevelBlocks
    <2>2. s = lv[l].side_ /\ i0 = PriceToIndex(lv[l].price_) /\ bs2 = Beheaded(bs, lv, s, l)
      BY <1>2, <1>6, <1>7
    <2>3. LevelsMove(lv2, ul \ {l}, bs2, Put(pm, i0, nullptr)) /\ Heads(bs2, bs, l)
      BY ONLY <2>1, <2>2, <1>3, <1>4, <1>5, <1>7, <1>9, LevelRemoved
    <2> QED BY <2>3, <1>8
  <1>13. PICK R2 \in [Sides -> Seq(LevelBlocks)] : LevelsOk(lv2, ul \ {l}, R2, bs2, pm2)
    BY <1>12 DEF LevelsMove
  <1>14. OrdersOk(ob, uo \ {b}, lv2, ul \ {l}, Q)
    <2>1. Apart(lv, ul)
      BY <1>5, FiledApart
    <2>2. ob[b].prev = b /\ \A m \in ul : m # l => SameQueue(lv2[m], lv[m])
      BY <1>1, <1>3, <1>9
    <2> QED BY ONLY <2>1, <2>2, <1>3, <1>5, <1>7, OrderLast
  <1>15. Stock(ob, ob, uo)
    BY DEF Stock, SameStock, SameOrder
  <1>16. PICK om2, bk2 : om2 = [om EXCEPT ![id] = nullptr] /\ bk2 = Without(bk, id)
    OBVIOUS
  <1>17. BookOk(ob, uo \ {b}, om2, bk2, last)
    BY <1>3, <1>4, <1>15, <1>16, BookCanceled
  <1>18. /\ om2 \in [1 .. ME_MAX_ORDER_IDS - 1 -> 0 .. ME_MAX_ORDER_IDS]
         /\ pm2 \in [0 .. ME_MAX_PRICE_LEVELS - 1 -> 0 .. ME_MAX_PRICE_LEVELS]
         /\ bs2 \in [Sides -> 0 .. ME_MAX_PRICE_LEVELS]
    <2>1. nullptr \in 0 .. ME_MAX_ORDER_IDS /\ nullptr \in 0 .. ME_MAX_PRICE_LEVELS
      BY <1>3 DEF nullptr
    <2>2. om2 \in [1 .. ME_MAX_ORDER_IDS - 1 -> 0 .. ME_MAX_ORDER_IDS]
      BY ONLY <2>1, <1>4, <1>16
    <2>3. pm2 \in [0 .. ME_MAX_PRICE_LEVELS - 1 -> 0 .. ME_MAX_PRICE_LEVELS]
      BY ONLY <2>1, <1>4, <1>8 DEF Put
    <2>4. lv[l].next \in 0 .. ME_MAX_PRICE_LEVELS
      BY <1>3, <1>7 DEF TradingOrdersAtPrice
    <2>5. bs2 = Beheaded(bs, lv, s, l)
      BY <1>2, <1>6
    <2>6. bs2 \in [Sides -> 0 .. ME_MAX_PRICE_LEVELS]
      BY ONLY <2>1, <2>4, <2>5, <1>4 DEF Beheaded
    <2> QED BY <2>2, <2>3, <2>6
  <1>19. Good(op2, om2, lp2, pm2, bs2, bk2, last)
    BY ONLY <1>4, <1>5, <1>10, <1>11, <1>13, <1>14, <1>17, <1>18, GoodOf
  <1>20. SameBest(ob, lv2, bs2, ob, lv, bs, l)
    <2>1. ul \ {l} \subseteq LevelBlocks /\ ul \ {l} \subseteq ul \ {l}
      BY <1>3
    <2>2. SamePrices(lv2, lv, ul, l)
      BY <1>3, <1>9 DEF SamePrices, SameQueue, SameLabel
    <2>3. SameQtys(ob, ob, Q, ul, l)
      BY ONLY <1>3, <1>5, <1>15, StockHasQtys
    <2>4. Kept(Q, Q, ul \ {l}, l)
      BY DEF Kept
    <2> QED BY ONLY <1>3, <1>5, <1>14, <2>1, <2>2, <2>3, <2>4, SameBestIs
  <1>21. Quiet(op2, lp2, bs2, op, lp, bs, s, price)
    <2>1. ob = op2.object_ /\ lv2 = lp2.object_ /\ ob = op.object_ /\ lv = lp.object_
      BY <1>1, <1>2, <1>10, <1>11 DEF PoolIs
    <2> QED BY ONLY <2>1, <1>3, <1>5, <1>7, <1>12, <1>20, QuietAt
  <1> QED BY <1>6, <1>8, <1>16, <1>19, <1>21

\* The orders with another quantity for the one in block b.
Requote(ob, b, qty) == [ob EXCEPT ![b] = [@ EXCEPT !.qty_ = qty]]
Requoted(ob2, ob, b, qty) ==
    /\ ob2 \in [OrderBlocks -> TradingOrder] /\ ob2[b].qty_ = qty
    /\ Beside(ob2, ob, ME_MAX_ORDER_IDS, b)
    /\ \A c \in OrderBlocks : SameOrder(ob2[c], ob[c]) /\ SameLinks(ob2[c], ob[c])

\* Nothing else of the orders changes.
LEMMA RequoteIs ==
    ASSUME NEW ob \in [OrderBlocks -> TradingOrder], NEW b \in OrderBlocks,
           NEW qty \in 0 .. NewQty, NEW ob2, ob2 = Requote(ob, b, qty)
    PROVE  Requoted(ob2, ob, b, qty)
  <1>1. PICK o \in TradingOrder : o = ob[b]
    OBVIOUS
  <1>2. PICK o2 : o2 = [o EXCEPT !.qty_ = qty]
    OBVIOUS
  <1>3. o2 \in TradingOrder /\ o2.qty_ = qty /\ SameOrder(o2, o) /\ SameLinks(o2, o)
    BY ONLY <1>2, o \in TradingOrder, qty \in 0 .. NewQty DEF TradingOrder, SameOrder, SameLinks
  <1>4. ob2 = [ob EXCEPT ![b] = o2]
    BY <1>1, <1>2 DEF Requote
  <1>5. ob2 \in [OrderBlocks -> TradingOrder] /\ ob2[b] = o2
    BY <1>3, <1>4
  <1>6. \A c \in OrderBlocks : c # b => ob2[c] = ob[c]
    BY <1>4
  <1>7. \A c \in OrderBlocks : SameOrder(ob2[c], ob[c]) /\ SameLinks(ob2[c], ob[c])
    BY <1>1, <1>3, <1>5, <1>6 DEF SameOrder, SameLinks
  <1>8. Beside(ob2, ob, ME_MAX_ORDER_IDS, b)
    BY <1>6 DEF Beside, OrderBlocks
  <1> QED BY <1>3, <1>5, <1>7, <1>8 DEF Requoted

\* A MODIFY.
LEMMA ModifiesOrder ==
    ASSUME NEW op, NEW om, NEW lp, NEW pm, NEW bs, NEW bk, NEW last,
           Good(op, om, lp, pm, bs, bk, last), NEW id \in DOMAIN bk, NEW qty \in 1 .. NewQty,
           NEW op2, op2 = [op EXCEPT !.object_ = Requote(op.object_, om[id], qty)]
    PROVE  /\ Good(op2, om, lp, pm, bs, [bk EXCEPT ![id].qty = qty], last)
           /\ Quiet(op2, lp, bs, op, lp, bs, bk[id].side, bk[id].price)
  <1>1. PICK ob, uo : ob = op.object_ /\ uo = InUse(op)
    OBVIOUS
  <1>2. PICK lv, ul : lv = lp.object_ /\ ul = InUse(lp)
    OBVIOUS
  <1>3. /\ ob \in [OrderBlocks -> TradingOrder] /\ uo \subseteq OrderBlocks
        /\ DOMAIN ob = OrderBlocks /\ DOMAIN lv = LevelBlocks
        /\ lv \in [LevelBlocks -> TradingOrdersAtPrice] /\ ul \subseteq LevelBlocks
        /\ ME_MAX_ORDER_IDS \in Nat /\ ME_MAX_PRICE_LEVELS \in Nat /\ last \in Nat
        /\ BookOk(ob, uo, om, bk, last) /\ ListsOk(ob, uo, lv, ul, bs, pm)
    BY <1>1, <1>2, GoodParts
  <1>4. /\ op \in Pools(ME_MAX_ORDER_IDS, TradingOrder) /\ op.next_free_index_ \in Free(op)
        /\ lp \in Pools(ME_MAX_PRICE_LEVELS, TradingOrdersAtPrice)
        /\ lp.next_free_index_ \in Free(lp)
        /\ om \in [1 .. ME_MAX_ORDER_IDS - 1 -> 0 .. ME_MAX_ORDER_IDS]
        /\ pm \in [0 .. ME_MAX_PRICE_LEVELS - 1 -> 0 .. ME_MAX_PRICE_LEVELS]
        /\ bs \in [Sides -> 0 .. ME_MAX_PRICE_LEVELS] /\ last \in 0 .. ME_MAX_ORDER_IDS
    BY DEF Good
  <1>5. PICK R \in [Sides -> Seq(LevelBlocks)], Q \in [LevelBlocks -> Seq(OrderBlocks)] :
            LevelsOk(lv, ul, R, bs, pm) /\ OrdersOk(ob, uo, lv, ul, Q)
    BY <1>3 DEF ListsOk
  <1>6. PICK s, price, b, l : /\ s = bk[id].side /\ price = bk[id].price
                              /\ b = om[id] /\ l = pm[PriceToIndex(bk[id].price)]
    OBVIOUS
  <1>7. /\ b \in uo /\ b \in OrderBlocks /\ l \in ul /\ l \in LevelBlocks /\ InList(b, Q[l])
        /\ s \in Sides /\ price \in Prices /\ lv[l].side_ = s /\ lv[l].price_ = price
    <2>1. id \in DOMAIN bk /\ b = om[id] /\ l = pm[PriceToIndex(bk[id].price)]
      BY <1>6
    <2>2. Placed(ob, uo, lv, ul, pm, om, bk, Q, id, b, l)
      BY ONLY <2>1, <1>3, <1>5, OrderOf
    <2> QED BY <2>2, <1>3, <1>6 DEF Placed
  <1>8. PICK ob2 : ob2 = Requote(ob, b, qty)
    OBVIOUS
  <1>9. /\ ob2 \in [OrderBlocks -> TradingOrder] /\ ob2[b].qty_ = qty
        /\ Beside(ob2, ob, ME_MAX_ORDER_IDS, b)
        /\ \A c \in OrderBlocks : SameOrder(ob2[c], ob[c]) /\ SameLinks(ob2[c], ob[c])
    <2>1. qty \in 0 .. NewQty
      BY TradingBookAssumption
    <2>2. Requoted(ob2, ob, b, qty)
      BY ONLY <2>1, <1>3, <1>7, <1>8, RequoteIs
    <2> QED BY <2>2 DEF Requoted
  <1>10. PoolIs(op2, ME_MAX_ORDER_IDS, TradingOrder, ob2, uo)
    <2>1. op2 = [op EXCEPT !.object_ = ob2]
      BY <1>1, <1>6, <1>8
    <2>2. ob2 \in [1 .. ME_MAX_ORDER_IDS -> TradingOrder]
      BY <1>9 DEF OrderBlocks
    <2>3. PoolIs(op2, ME_MAX_ORDER_IDS, TradingOrder, ob2, InUse(op))
      BY ONLY <2>1, <2>2, <1>3, <1>4, Rewritten
    <2> QED BY <2>3, <1>1
  <1>11. PoolIs(lp, ME_MAX_PRICE_LEVELS, TradingOrdersAtPrice, lv, ul)
    BY <1>2, <1>3, <1>4, PoolStays
  <1>12. OrdersOk(ob2, uo, lv, ul, Q)
    <2>1. \A c \in uo : SameOrder(ob2[c], ob[c]) /\ SameLinks(ob2[c], ob[c])
      BY <1>3, <1>9
    <2> QED BY ONLY <2>1, <1>3, <1>5, OrdersFrame
  <1>13. PICK bk2 : bk2 = [bk EXCEPT ![id].qty = qty]
    OBVIOUS
  <1>14. BookOk(ob2, uo, om, bk2, last)
    <2>1. Stock(ob2, ob, uo \ {b})
      BY <1>3, <1>9 DEF Stock, SameStock, SameOrder, Beside, OrderBlocks
    <2>2. SameOrder(ob2[b], ob[b]) /\ ob2[b].qty_ = qty
      BY <1>7, <1>9
    <2> QED BY <2>1, <2>2, <1>3, <1>6, <1>13, BookModified
  <1>15. Good(op2, om, lp, pm, bs, bk2, last)
    BY ONLY <1>4, <1>5, <1>10, <1>11, <1>12, <1>14, GoodOf
  <1>16. SameBest(ob2, lv, bs, ob, lv, bs, l)
    <2>1. DOMAIN ob2 = OrderBlocks /\ ul \ {l} \subseteq ul
      BY <1>9
    <2>2. SamePrices(lv, lv, ul, l) /\ Kept(Q, Q, ul, l)
      BY DEF SamePrices, Kept
    <2>3. SameQtys(ob2, ob, Q, ul, l)
      <3>1. Apart(lv, ul)
        BY <1>5, FiledApart
      <3>2. OneEach(Q, ul)
        BY <3>1, <1>5, OneQueue
      <3>3. ASSUME NEW m \in ul, m # l, NEW k \in 1 .. Len(Q[m])
            PROVE  ob2[Q[m][k]].qty_ = ob[Q[m][k]].qty_
        <4>1. InList(Q[m][k], Q[m])
          BY DEF InList
        <4>2. Q[m][k] # b
          BY <4>1, <3>2, <3>3, <1>7 DEF OneEach
        <4>3. Q[m] \in Seq(OrderBlocks)
          BY <1>3
        <4>4. Q[m][k] \in OrderBlocks
          BY <4>3
        <4>5. ob2[Q[m][k]] = ob[Q[m][k]]
          BY <4>2, <4>4, <1>9 DEF Beside, OrderBlocks
        <4> QED BY <4>5
      <3> QED BY <3>3 DEF SameQtys
    <2> QED BY ONLY <1>3, <1>5, <1>12, <2>1, <2>2, <2>3, SameBestIs
  <1>17. Quiet(op2, lp, bs, op, lp, bs, s, price)
    <2>1. ob2 = op2.object_ /\ ob = op.object_ /\ lv = lp.object_
      BY <1>1, <1>2, <1>10 DEF PoolIs
    <2>2. Heads(bs, bs, l)
      BY DEF Heads
    <2> QED BY ONLY <2>1, <2>2, <1>3, <1>5, <1>7, <1>16, QuietAt
  <1> QED BY <1>6, <1>13, <1>15, <1>17

\* Nothing is in use when the book is empty.
Nothing(om, bs, uo, ul) ==
    /\ uo = {} /\ ul = {} /\ \A i \in DOMAIN om : om[i] = nullptr
    /\ \A s \in Sides : bs[s] = nullptr

\* An empty book has no orders and no levels.
LEMMA EmptyIs ==
    ASSUME NEW ob, NEW uo, NEW lv, NEW ul, NEW om, NEW pm, NEW bs, NEW bk, NEW last,
           DOMAIN bk = {}, BookOk(ob, uo, om, bk, last), ul \subseteq LevelBlocks,
           DOMAIN lv = LevelBlocks,
           NEW R \in [Sides -> Seq(LevelBlocks)], LevelsOk(lv, ul, R, bs, pm),
           NEW Q \in [LevelBlocks -> Seq(OrderBlocks)], OrdersOk(ob, uo, lv, ul, Q)
    PROVE  Nothing(om, bs, uo, ul)
  <1>1. uo = {} /\ \A i \in DOMAIN om : om[i] = nullptr
    BY DEF BookOk, Known
  <1>2. ASSUME NEW l \in ul PROVE FALSE
    <2>1. HasQueue(ob, uo, lv, Q, l)
      BY QueueOf
    <2>2. PICK q \in Seq(OrderBlocks), M \in Nat : M >= 1 /\ \A k \in 1 .. M : q[k] \in uo
      BY <2>1 DEF HasQueue
    <2>3. 1 \in 1 .. M
      BY <2>2
    <2> QED BY <2>2, <2>3, <1>1
  <1>3. ul = {}
    BY <1>2
  <1>4. ASSUME NEW s \in Sides PROVE bs[s] = nullptr
    <2>1. HeadOf(lv, ul, R[s], bs, s)
      BY LevelsAre
    <2> QED BY <2>1, <1>3 DEF HeadOf
  <1> QED BY <1>1, <1>3, <1>4 DEF Nothing

\* A CLEAR of an empty book changes nothing.
LEMMA Clears ==
    ASSUME NEW op, NEW om, NEW lp, NEW pm, NEW bs, NEW bk, NEW last, DOMAIN bk = {},
           Good(op, om, lp, pm, bs, bk, last),
           NEW X, NEW op2, op2 = Deallocate(op, X), NEW om2, om2 = [id \in DOMAIN om |-> nullptr],
           NEW Y, NEW lp2, lp2 = Deallocate(lp, Y), NEW bs2, bs2 = [s \in Sides |-> nullptr]
    PROVE  Good(op2, om2, lp2, pm, bs2, bk, last) /\ \A s \in Sides : bs[s] = nullptr
  <1>1. PICK ob, uo : ob = op.object_ /\ uo = InUse(op)
    OBVIOUS
  <1>2. PICK lv, ul : lv = lp.object_ /\ ul = InUse(lp)
    OBVIOUS
  <1>3. /\ ob \in [OrderBlocks -> TradingOrder] /\ uo \subseteq OrderBlocks
        /\ DOMAIN ob = OrderBlocks /\ DOMAIN lv = LevelBlocks
        /\ lv \in [LevelBlocks -> TradingOrdersAtPrice] /\ ul \subseteq LevelBlocks
        /\ ME_MAX_ORDER_IDS \in Nat /\ ME_MAX_PRICE_LEVELS \in Nat /\ last \in Nat
        /\ BookOk(ob, uo, om, bk, last) /\ ListsOk(ob, uo, lv, ul, bs, pm)
    BY <1>1, <1>2, GoodParts
  <1>4. /\ op \in Pools(ME_MAX_ORDER_IDS, TradingOrder) /\ op.next_free_index_ \in Free(op)
        /\ lp \in Pools(ME_MAX_PRICE_LEVELS, TradingOrdersAtPrice)
        /\ lp.next_free_index_ \in Free(lp)
        /\ om \in [1 .. ME_MAX_ORDER_IDS - 1 -> 0 .. ME_MAX_ORDER_IDS]
        /\ pm \in [0 .. ME_MAX_PRICE_LEVELS - 1 -> 0 .. ME_MAX_PRICE_LEVELS]
        /\ bs \in [Sides -> 0 .. ME_MAX_PRICE_LEVELS] /\ last \in 0 .. ME_MAX_ORDER_IDS
    BY DEF Good
  <1>5. PICK R \in [Sides -> Seq(LevelBlocks)], Q \in [LevelBlocks -> Seq(OrderBlocks)] :
            LevelsOk(lv, ul, R, bs, pm) /\ OrdersOk(ob, uo, lv, ul, Q)
    BY <1>3 DEF ListsOk
  <1>6. /\ uo = {} /\ ul = {} /\ \A i \in DOMAIN om : om[i] = nullptr
        /\ \A s \in Sides : bs[s] = nullptr
    <2>1. DOMAIN bk = {}
      OBVIOUS
    <2>2. Nothing(om, bs, uo, ul)
      BY ONLY <2>1, <1>3, <1>5, EmptyIs
    <2> QED BY <2>2 DEF Nothing
  <1>7. om2 = om /\ bs2 = bs
    <2>1. om2 = om
      BY <1>4, <1>6
    <2>2. bs2 = bs
      BY <1>4, <1>6
    <2> QED BY <2>1, <2>2
  <1>8. PoolIs(op2, ME_MAX_ORDER_IDS, TradingOrder, ob, uo)
    <2>1. [op EXCEPT !.object_ = ob] = op
      BY <1>1, <1>4 DEF Pools
    <2>2. op2 = Deallocate([op EXCEPT !.object_ = ob], X)
      BY <2>1
    <2>3. ob \in [1 .. ME_MAX_ORDER_IDS -> TradingOrder]
      BY <1>3 DEF OrderBlocks
    <2>4. PoolIs(op2, ME_MAX_ORDER_IDS, TradingOrder, ob, InUse(op) \ X)
      BY ONLY <2>2, <2>3, <1>3, <1>4, Deallocated
    <2>5. InUse(op) \ X = uo
      BY <1>1, <1>6
    <2> QED BY <2>4, <2>5
  <1>9. PoolIs(lp2, ME_MAX_PRICE_LEVELS, TradingOrdersAtPrice, lv, ul)
    <2>1. [lp EXCEPT !.object_ = lv] = lp
      BY <1>2, <1>4 DEF Pools
    <2>2. lp2 = Deallocate([lp EXCEPT !.object_ = lv], Y)
      BY <2>1
    <2>3. lv \in [1 .. ME_MAX_PRICE_LEVELS -> TradingOrdersAtPrice]
      BY <1>3 DEF LevelBlocks
    <2>4. PoolIs(lp2, ME_MAX_PRICE_LEVELS, TradingOrdersAtPrice, lv, InUse(lp) \ Y)
      BY ONLY <2>2, <2>3, <1>3, <1>4, Deallocated
    <2>5. InUse(lp) \ Y = ul
      BY <1>2, <1>6
    <2> QED BY <2>4, <2>5
  <1>10. Good(op2, om, lp2, pm, bs, bk, last)
    BY ONLY <1>3, <1>4, <1>5, <1>8, <1>9, GoodOf
  <1> QED BY <1>6, <1>7, <1>10

-----------------------------------------------------------------------------
(* The limits.                                                             *)

\* A pool that cannot hand out a block has one left.
LEMMA OneLeft ==
    ASSUME NEW n \in Nat, NEW T, NEW pool \in Pools(n, T),
           pool.next_free_index_ \in Free(pool), ~CanAllocate(pool)
    PROVE  IsFiniteSet(InUse(pool)) /\ Cardinality(InUse(pool)) = n - 1
  <1>1. Free(pool) = {pool.next_free_index_}
    BY DEF CanAllocate
  <1>2. Free(pool) \subseteq 1 .. n /\ InUse(pool) = (1 .. n) \ Free(pool)
    BY PoolIsOf
  <1>3. IsFiniteSet(1 .. n) /\ Cardinality(1 .. n) = n
    BY Interval
  <1>4. PICK x : x = pool.next_free_index_
    OBVIOUS
  <1>5. x \in 1 .. n /\ InUse(pool) = (1 .. n) \ {x}
    BY <1>1, <1>2, <1>4
  <1>6. IsFiniteSet((1 .. n) \ {x}) /\ Cardinality((1 .. n) \ {x}) = n - 1
    BY <1>3, <1>5, FS_RemoveElement
  <1> QED BY <1>5, <1>6

\* The orders in use have different ids.
LEMMA NoMoreThanIds ==
    ASSUME NEW ob, NEW uo, NEW om, NEW bk, NEW last \in Nat, BookOk(ob, uo, om, bk, last)
    PROVE  Cardinality(uo) <= last
  <1>1. PICK f : f = [b \in uo |-> ob[b].order_id_]
    OBVIOUS
  <1>2. \A b \in uo : ob[b].order_id_ \in DOMAIN bk /\ om[ob[b].order_id_] = b
    BY DEF BookOk, Known
  <1>3. DOMAIN bk \subseteq 1 .. last
    BY DEF BookOk
  <1>4. f \in [uo -> 1 .. last]
    BY <1>1, <1>2, <1>3
  <1>5. \A a, b \in uo : f[a] = f[b] => a = b
    BY <1>1, <1>2
  <1>6. f \in Injection(uo, 1 .. last)
    BY <1>4, <1>5 DEF Injection, IsInjective
  <1>7. IsFiniteSet(1 .. last) /\ Cardinality(1 .. last) = last
    BY Interval
  <1>8. Cardinality(uo) <= Cardinality(1 .. last)
    BY <1>6, <1>7, FS_Injection
  <1> QED BY <1>7, <1>8

\* The prices of the book's orders.
PricesOf(bk) == {bk[id].price : id \in DOMAIN bk}

\* There are as many prices as levels.
LEMMA LevelEachPrice ==
    ASSUME NEW ob, NEW uo, NEW lv, NEW ul, ul \subseteq LevelBlocks, NEW om, NEW pm, NEW bs,
           NEW bk, NEW last, BookOk(ob, uo, om, bk, last),
           NEW R, LevelsOk(lv, ul, R, bs, pm),
           NEW Q \in [LevelBlocks -> Seq(OrderBlocks)], OrdersOk(ob, uo, lv, ul, Q),
           IsFiniteSet(ul)
    PROVE  Cardinality(PricesOf(bk)) = Cardinality(ul)
  <1>1. PICK f : f = [l \in ul |-> lv[l].price_]
    OBVIOUS
  <1>2. ASSUME NEW l \in ul PROVE lv[l].price_ \in PricesOf(bk)
    <2>1. HasQueue(ob, uo, lv, Q, l)
      BY QueueOf
    <2>2. PICK q \in Seq(OrderBlocks), M \in Nat : M >= 1 /\ Queued(ob, uo, q, M, lv[l])
      BY <2>1 DEF HasQueue
    <2>3. 1 \in 1 .. M
      BY <2>2
    <2>4. q[1] \in uo /\ ob[q[1]].price_ = lv[l].price_
      BY <2>2, <2>3 DEF Queued
    <2>5. PICK i : i = ob[q[1]].order_id_
      OBVIOUS
    <2>6. i \in DOMAIN bk /\ bk[i] = [side |-> ob[q[1]].side_, price |-> ob[q[1]].price_,
                                     qty |-> ob[q[1]].qty_]
      BY <2>4, <2>5 DEF BookOk, Known
    <2>7. bk[i].price = lv[l].price_
      BY <2>4, <2>6
    <2> QED BY <2>6, <2>7 DEF PricesOf
  <1>3. ASSUME NEW p \in PricesOf(bk) PROVE \E l \in ul : lv[l].price_ = p
    <2>1. PICK id \in DOMAIN bk : bk[id].price = p
      BY DEF PricesOf
    <2>2. PICK b, l : b = om[id] /\ l = pm[PriceToIndex(bk[id].price)]
      OBVIOUS
    <2>3. Placed(ob, uo, lv, ul, pm, om, bk, Q, id, b, l)
      BY <2>2, OrderOf
    <2> QED BY <2>1, <2>3 DEF Placed
  <1>4. Apart(lv, ul)
    BY FiledApart
  <1>5. f \in [ul -> PricesOf(bk)]
    BY <1>1, <1>2
  <1>6. f \in Injection(ul, PricesOf(bk))
    BY <1>1, <1>4, <1>5 DEF Injection, IsInjective, Apart
  <1>7. f \in Surjection(ul, PricesOf(bk))
    BY <1>1, <1>3, <1>5 DEF Surjection
  <1> QED BY <1>6, <1>7, FS_Surjection

-----------------------------------------------------------------------------
(* The best bid and offer.                                                 *)

\* bbo is what the lists show, or unset.
ExactOrUnset(bbo, op, lp, bs) ==
    \A t \in Sides : bbo[t] \in {BestIn(op.object_, lp.object_, bs, t), Unset}

\* UpdateBbo, of the pools.
Refreshed(bbo2, bbo, op2, lp2, bs2, lp, bs, s, price) ==
    bbo2 = [t \in Sides |->
               IF bs[t] # nullptr /\ s = t /\ ~Better(t, lp.object_[bs[t]].price_, price)
               THEN BestIn(op2.object_, lp2.object_, bs2, t) ELSE bbo[t]]

\* Best has its type.
LEMMA GoodBest ==
    ASSUME NEW op, NEW om, NEW lp, NEW pm, NEW bs, NEW bk, NEW last,
           Good(op, om, lp, pm, bs, bk, last), NEW t \in Sides
    PROVE  BestIn(op.object_, lp.object_, bs, t) \in BBO
  <1>1. PICK ob, uo, lv, ul : ob = op.object_ /\ uo = InUse(op) /\ lv = lp.object_ /\ ul = InUse(lp)
    OBVIOUS
  <1>2. /\ ob \in [OrderBlocks -> TradingOrder] /\ DOMAIN lv = LevelBlocks
        /\ ul \subseteq LevelBlocks /\ ListsOk(ob, uo, lv, ul, bs, pm)
    BY <1>1, GoodParts
  <1>3. PICK R \in [Sides -> Seq(LevelBlocks)], Q \in [LevelBlocks -> Seq(OrderBlocks)] :
            LevelsOk(lv, ul, R, bs, pm) /\ OrdersOk(ob, uo, lv, ul, Q)
    BY <1>2 DEF ListsOk
  <1>4. t \in Sides
    OBVIOUS
  <1>5. BestIn(ob, lv, bs, t) \in BBO
    BY ONLY <1>2, <1>3, <1>4, BestIsBBO
  <1> QED BY <1>1, <1>5

\* What is not refreshed has not changed.
LEMMA RefreshedIsExact ==
    ASSUME NEW op2, NEW om2, NEW lp2, NEW pm2, NEW bs2, NEW bk2, NEW last2,
           Good(op2, om2, lp2, pm2, bs2, bk2, last2), NEW op, NEW lp, NEW bs, NEW s, NEW price,
           Quiet(op2, lp2, bs2, op, lp, bs, s, price),
           NEW bbo \in [Sides -> BBO], ExactOrUnset(bbo, op, lp, bs),
           NEW bbo2, Refreshed(bbo2, bbo, op2, lp2, bs2, lp, bs, s, price)
    PROVE  bbo2 \in [Sides -> BBO] /\ ExactOrUnset(bbo2, op2, lp2, bs2)
  <1>1. \A t \in Sides : BestIn(op2.object_, lp2.object_, bs2, t) \in BBO
    BY GoodBest
  <1>2. bbo2 \in [Sides -> BBO]
    BY <1>1 DEF Refreshed
  <1>3. ASSUME NEW t \in Sides
        PROVE  bbo2[t] \in {BestIn(op2.object_, lp2.object_, bs2, t), Unset}
    <2>1. CASE bs[t] # nullptr /\ s = t /\ ~Better(t, lp.object_[bs[t]].price_, price)
      BY <2>1 DEF Refreshed
    <2>2. CASE ~(bs[t] # nullptr /\ s = t /\ ~Better(t, lp.object_[bs[t]].price_, price))
      <3>1. bbo2[t] = bbo[t] /\ bbo[t] \in {BestIn(op.object_, lp.object_, bs, t), Unset}
        BY <2>2 DEF Refreshed, ExactOrUnset
      <3>2. CASE bs[t] = nullptr
        BY <3>1, <3>2 DEF BestIn
      <3>3. CASE bs[t] # nullptr
        <4>1. BestIn(op2.object_, lp2.object_, bs2, t) = BestIn(op.object_, lp.object_, bs, t)
          BY <2>2, <3>3 DEF Quiet
        <4> QED BY <3>1, <4>1
      <3> QED BY <3>2, <3>3
    <2> QED BY <2>1, <2>2
  <1> QED BY <1>2, <1>3 DEF ExactOrUnset

-----------------------------------------------------------------------------
(* The steps.                                                              *)

\* The invariant in terms of the pools.
LEMMA IInvIs ==
    BboExactOrUnset <=> ExactOrUnset(bbo_, order_pool_, orders_at_price_pool_, best)
  <1>1. ASSUME NEW t \in Sides
        PROVE  Best(t) = BestIn(order_pool_.object_, orders_at_price_pool_.object_, best, t)
    BY DEF Best, BestIn, QtyOf, Orders, order, level
  <1> QED BY <1>1 DEF BboExactOrUnset, ExactOrUnset

\* The same after a step.
LEMMA IInvWillBe ==
    BboExactOrUnset' <=> ExactOrUnset(bbo_', order_pool_', orders_at_price_pool_', best')
  <1>1. ASSUME NEW t \in Sides
        PROVE  Best(t)' = BestIn(order_pool_'.object_, orders_at_price_pool_'.object_, best', t)
    BY DEF Best, BestIn, QtyOf, Orders, order, level
  <1> QED BY <1>1 DEF BboExactOrUnset, ExactOrUnset

\* UpdateBbo refreshes.
LEMMA UpdateBboIs ==
    ASSUME NEW s, NEW price, UpdateBbo(s, price)
    PROVE  Refreshed(bbo_', bbo_, order_pool_', orders_at_price_pool_', best',
                     orders_at_price_pool_, best, s, price)
  <1>1. ASSUME NEW t \in Sides
        PROVE  Best(t)' = BestIn(order_pool_'.object_, orders_at_price_pool_'.object_, best', t)
    BY DEF Best, BestIn, QtyOf, Orders, order, level
  <1>2. ASSUME NEW t \in Sides
        PROVE  Updated(t, s, price) <=>
                   /\ best[t] # nullptr /\ s = t
                   /\ ~Better(t, orders_at_price_pool_.object_[best[t]].price_, price)
    BY DEF Updated, level
  <1>3. bbo_' = [t \in Sides |-> IF Updated(t, s, price) THEN Best(t)' ELSE bbo_[t]]
    BY DEF UpdateBbo
  <1> QED BY <1>1, <1>2, <1>3 DEF Refreshed

\* An update that keeps the lists and is quiet away from its price.
LEMMA UpdateKeeps ==
    ASSUME IInv, NEW s, NEW price, UpdateBbo(s, price), running, running' = running,
           Good(order_pool_', oid_to_order_', orders_at_price_pool_', price_orders_at_price_',
                best', book', last_id'),
           Quiet(order_pool_', orders_at_price_pool_', best', order_pool_,
                 orders_at_price_pool_, best, s, price)
    PROVE  IInv'
  <1>1. bbo_ \in [Sides -> BBO] /\ ExactOrUnset(bbo_, order_pool_, orders_at_price_pool_, best)
    BY IInvIs DEF IInv
  <1>2. Refreshed(bbo_', bbo_, order_pool_', orders_at_price_pool_', best',
                  orders_at_price_pool_, best, s, price)
    BY UpdateBboIs
  <1>3. bbo_' \in [Sides -> BBO]
        /\ ExactOrUnset(bbo_', order_pool_', orders_at_price_pool_', best')
    BY <1>1, <1>2, RefreshedIsExact
  <1>4. running' \in BOOLEAN /\ EndsOnlyAtItsLimits'
    BY DEF IInv, EndsOnlyAtItsLimits
  <1> QED BY <1>3, <1>4, IInvWillBe DEF IInv

\* ADD.
LEMMA AddKeeps ==
    ASSUME PricesApart, IInv, NEW id \in 1 .. ME_MAX_ORDER_IDS, NEW s \in Sides,
           NEW price \in Prices, OnAdd(id, s, price)
    PROVE  IInv'
  <1>1. PICK op, om, lp, pm, bs, bk, last :
            /\ op = order_pool_ /\ om = oid_to_order_ /\ lp = orders_at_price_pool_
            /\ pm = price_orders_at_price_ /\ bs = best /\ bk = book /\ last = last_id
    OBVIOUS
  <1>2. PICK op2, om2, lp2, pm2, bs2, bk2 :
            /\ op2 = order_pool_' /\ om2 = oid_to_order_' /\ lp2 = orders_at_price_pool_'
            /\ pm2 = price_orders_at_price_' /\ bs2 = best' /\ bk2 = book'
    OBVIOUS
  <1>3. PICK b, i0, l, x : /\ b = op.next_free_index_ /\ i0 = PriceToIndex(price)
                           /\ l = pm[i0] /\ x = lp.next_free_index_
    OBVIOUS
  <1>4. /\ Good(op, om, lp, pm, bs, bk, last) /\ s \in Sides /\ price \in Prices
        /\ PricesApart
    BY <1>1 DEF IInv
  <1>5. /\ id \in DOMAIN om /\ id > last /\ CanAllocate(op)
        /\ l = nullptr => CanAllocate(lp)
        /\ Clear(bk, s, price) /\ running /\ running' = running
    BY <1>1, <1>3 DEF OnAdd, Fails, GetOrdersAtPrice, Uncrossed, Clear
  <1>6. /\ om2 = [om EXCEPT ![id] = b] /\ last_id' = id
        /\ bk2 = With(bk, id, [side |-> s, price |-> price, qty |-> NewQty])
    BY <1>1, <1>2, <1>3 DEF OnAdd, AddOrder
  <1>7. Good(op2, om2, lp2, pm2, bs2, bk2, id) /\ Quiet(op2, lp2, bs2, op, lp, bs, s, price)
    <2>1. CASE l = nullptr
      <3>1. op2 = OrderPut(op, id, s, price, b)
        BY <2>1, <1>1, <1>2, <1>3 DEF OnAdd, AddOrder, GetOrdersAtPrice, NewOrder, OrderPut
      <3>2. AddOrdersAtPrice(s, price, b)
        BY <2>1, <1>1, <1>3 DEF OnAdd, AddOrder, GetOrdersAtPrice
      <3>3. InsertionPoint(s, price) = PointIn(lp.object_, bs, s, price)
        BY <1>1 DEF InsertionPoint, PointIn, Levels, level, LeastOf
      <3>4. lp2 = LevelPut(lp, bs, s, price, b, x)
        BY <3>2, <3>3, <1>1, <1>2, <1>3 DEF AddOrdersAtPrice, NewLevel, LevelPut
      <3>5. bs2 = Headed(bs, lp.object_, s, price, x)
        BY <3>2, <1>1, <1>2, <1>3 DEF AddOrdersAtPrice, level, Headed
      <3>6. pm2 = Put(pm, i0, x) /\ om2 = Put(om, id, b)
        BY <3>2, <1>1, <1>2, <1>3, <1>6 DEF AddOrdersAtPrice, Put
      <3>7. CanAllocate(lp) /\ pm[i0] = nullptr
        BY <2>1, <1>3, <1>5
      <3>8. /\ Good(op2, Put(om, id, b), lp2, Put(pm, i0, x), bs2,
                    With(bk, id, [side |-> s, price |-> price, qty |-> NewQty]), id)
            /\ Quiet(op2, lp2, bs2, op, lp, bs, s, price)
        BY ONLY <1>3, <1>4, <1>5, <3>1, <3>4, <3>5, <3>7, AddsLevel
      <3> QED BY <3>6, <3>8, <1>6
    <2>2. CASE l # nullptr
      <3>1. op2 = [Allocate(op, NewOrder(id, s, price)) EXCEPT !.object_ =
                       LinkBefore(@, b, lp.object_[l].first_mkt_order_)]
        BY <2>2, <1>1, <1>2, <1>3 DEF OnAdd, AddOrder, GetOrdersAtPrice, NewOrder, level
      <3>2. lp2 = lp /\ pm2 = pm /\ bs2 = bs
        BY <2>2, <1>1, <1>2, <1>3 DEF OnAdd, AddOrder, GetOrdersAtPrice
      <3>3. l = pm[PriceToIndex(price)]
        BY <1>3
      <3>4. /\ Good(op2, [om EXCEPT ![id] = b], lp, pm, bs,
                    With(bk, id, [side |-> s, price |-> price, qty |-> NewQty]), id)
            /\ Quiet(op2, lp, bs, op, lp, bs, s, price)
        BY ONLY <1>3, <1>4, <1>5, <2>2, <3>1, <3>3, AddsOrder
      <3> QED BY <3>2, <3>4, <1>6
    <2> QED BY <2>1, <2>2
  <1>8. UpdateBbo(s, price)
    BY DEF OnAdd
  <1>9. /\ Good(order_pool_', oid_to_order_', orders_at_price_pool_', price_orders_at_price_',
                best', book', last_id')
        /\ Quiet(order_pool_', orders_at_price_pool_', best', order_pool_,
                 orders_at_price_pool_, best, s, price)
    BY <1>1, <1>2, <1>6, <1>7
  <1> QED BY <1>5, <1>8, <1>9, UpdateKeeps

\* MODIFY.
LEMMA ModifyKeeps ==
    ASSUME IInv, NEW id \in DOMAIN book, NEW qty \in 1 .. NewQty - 1, OnModify(id, qty)
    PROVE  IInv'
  <1>1. PICK op, om, lp, pm, bs, bk, last :
            /\ op = order_pool_ /\ om = oid_to_order_ /\ lp = orders_at_price_pool_
            /\ pm = price_orders_at_price_ /\ bs = best /\ bk = book /\ last = last_id
    OBVIOUS
  <1>2. PICK op2, bk2 : op2 = order_pool_' /\ bk2 = book'
    OBVIOUS
  <1>3. Good(op, om, lp, pm, bs, bk, last) /\ id \in DOMAIN bk /\ qty \in 1 .. NewQty
    BY <1>1, TradingBookAssumption DEF IInv
  <1>4. op2 = [op EXCEPT !.object_ = Requote(op.object_, om[id], qty)]
    BY <1>1, <1>2 DEF OnModify, Requote
  <1>5. /\ bk2 = [bk EXCEPT ![id].qty = qty] /\ running /\ running' = running
        /\ lp = orders_at_price_pool_' /\ om = oid_to_order_' /\ pm = price_orders_at_price_'
        /\ bs = best' /\ last = last_id'
    BY <1>1, <1>2 DEF OnModify
  <1>6. /\ Good(op2, om, lp, pm, bs, [bk EXCEPT ![id].qty = qty], last)
        /\ Quiet(op2, lp, bs, op, lp, bs, bk[id].side, bk[id].price)
    BY ONLY <1>3, <1>4, ModifiesOrder
  <1>7. PICK s, price : s = bk[id].side /\ price = bk[id].price
    OBVIOUS
  <1>8. UpdateBbo(s, price)
    BY <1>1, <1>7 DEF OnModify
  <1>9. /\ Good(order_pool_', oid_to_order_', orders_at_price_pool_', price_orders_at_price_',
                best', book', last_id')
        /\ Quiet(order_pool_', orders_at_price_pool_', best', order_pool_,
                 orders_at_price_pool_, best, s, price)
    BY <1>1, <1>2, <1>5, <1>6, <1>7
  <1> QED BY <1>5, <1>8, <1>9, UpdateKeeps

\* CANCEL.
LEMMA CancelKeeps ==
    ASSUME IInv, NEW id \in DOMAIN book, OnCancel(id)
    PROVE  IInv'
  <1>1. PICK op, om, lp, pm, bs, bk, last :
            /\ op = order_pool_ /\ om = oid_to_order_ /\ lp = orders_at_price_pool_
            /\ pm = price_orders_at_price_ /\ bs = best /\ bk = book /\ last = last_id
    OBVIOUS
  <1>2. PICK op2, om2, lp2, pm2, bs2, bk2 :
            /\ op2 = order_pool_' /\ om2 = oid_to_order_' /\ lp2 = orders_at_price_pool_'
            /\ pm2 = price_orders_at_price_' /\ bs2 = best' /\ bk2 = book'
    OBVIOUS
  <1>3. Good(op, om, lp, pm, bs, bk, last) /\ id \in DOMAIN bk
    BY <1>1 DEF IInv
  <1>4. PICK b, s, price, i0, l : /\ b = om[id] /\ s = bk[id].side /\ price = bk[id].price
                                  /\ i0 = PriceToIndex(price) /\ l = pm[i0]
    OBVIOUS
  <1>5. /\ op.object_[b].order_id_ = id /\ op.object_[b].side_ = s /\ op.object_[b].price_ = price
    <2>1. BookOk(op.object_, InUse(op), om, bk, last)
      BY <1>3 DEF Good
    <2>2. b \in InUse(op) /\ op.object_[b].order_id_ = id
      BY <2>1, <1>3, <1>4 DEF BookOk, Known
    <2>3. bk[id] = [side |-> op.object_[b].side_, price |-> op.object_[b].price_,
                    qty |-> op.object_[b].qty_]
      BY <2>1, <2>2 DEF BookOk, Known
    <2> QED BY <2>2, <2>3, <1>4
  <1>6. RemoveOrder(b) /\ bk2 = Without(bk, id) /\ running /\ running' = running
        /\ last = last_id' /\ UpdateBbo(s, price)
    BY <1>1, <1>2, <1>4 DEF OnCancel
  <1>7. om2 = [om EXCEPT ![id] = nullptr]
    BY <1>1, <1>2, <1>5, <1>6 DEF RemoveOrder, order
  <1>8. Good(op2, om2, lp2, pm2, bs2, bk2, last) /\ Quiet(op2, lp2, bs2, op, lp, bs, s, price)
    <2>1. CASE op.object_[b].prev # b
      <3>1. op2 = Deallocate([op EXCEPT !.object_ = Unlink(op.object_, b)], {b})
        BY <2>1, <1>1, <1>2, <1>6 DEF RemoveOrder, order
      <3>2. lp2 = [lp EXCEPT !.object_ = Refirst(lp.object_, l, b, op.object_[b].next)]
        <4>1. lp2 = IF lp.object_[l].first_mkt_order_ # b THEN lp
                    ELSE [lp EXCEPT !.object_[l].first_mkt_order_ = op.object_[b].next]
          BY <2>1, <1>1, <1>2, <1>4, <1>5, <1>6 DEF RemoveOrder, order, level, GetOrdersAtPrice
        <4>2. [lp EXCEPT !.object_ = lp.object_] = lp
          BY <1>3 DEF Good, Pools
        <4>3. CASE lp.object_[l].first_mkt_order_ # b
          BY <4>1, <4>2, <4>3 DEF Refirst
        <4>4. CASE lp.object_[l].first_mkt_order_ = b
          BY <4>1, <4>4 DEF Refirst
        <4> QED BY <4>3, <4>4
      <3>3. pm2 = pm /\ bs2 = bs
        BY <2>1, <1>1, <1>2, <1>6 DEF RemoveOrder, order
      <3>4. l = pm[PriceToIndex(bk[id].price)] /\ b = om[id]
        BY <1>4
      <3>5. /\ Good(op2, [om EXCEPT ![id] = nullptr], lp2, pm, bs, Without(bk, id), last)
            /\ Quiet(op2, lp2, bs, op, lp, bs, bk[id].side, bk[id].price)
        BY ONLY <1>3, <2>1, <3>1, <3>2, <3>4, CancelsOrder
      <3> QED BY <3>3, <3>5, <1>4, <1>6, <1>7
    <2>2. CASE op.object_[b].prev = b
      <3>1. op2 = Deallocate([op EXCEPT !.object_ = op.object_], {b})
        BY <2>2, <1>1, <1>2, <1>6 DEF RemoveOrder, order
      <3>2. RemoveOrdersAtPrice(s, price)
        BY <2>2, <1>1, <1>5, <1>6 DEF RemoveOrder, order
      <3>3. lp2 = Deallocate([lp EXCEPT !.object_ = Leave(lp.object_, l)], {l})
        BY <3>2, <1>1, <1>2, <1>4 DEF RemoveOrdersAtPrice, GetOrdersAtPrice, level, Leave
      <3>4. bs2 = Beheaded(bs, lp.object_, bk[id].side, l)
        BY <3>2, <1>1, <1>2, <1>4 DEF RemoveOrdersAtPrice, GetOrdersAtPrice, level, Beheaded
      <3>5. pm2 = Put(pm, i0, nullptr)
        BY <3>2, <1>1, <1>2, <1>4 DEF RemoveOrdersAtPrice, Put
      <3>6. i0 = PriceToIndex(bk[id].price) /\ l = pm[i0] /\ b = om[id]
        BY <1>4
      <3>7. /\ Good(op2, [om EXCEPT ![id] = nullptr], lp2, Put(pm, i0, nullptr), bs2,
                    Without(bk, id), last)
            /\ Quiet(op2, lp2, bs2, op, lp, bs, bk[id].side, bk[id].price)
        BY ONLY <1>3, <2>2, <3>1, <3>3, <3>4, <3>6, CancelsLevel
      <3> QED BY <3>5, <3>7, <1>4, <1>6, <1>7
    <2> QED BY <2>1, <2>2
  <1>9. /\ Good(order_pool_', oid_to_order_', orders_at_price_pool_', price_orders_at_price_',
                best', book', last_id')
        /\ Quiet(order_pool_', orders_at_price_pool_', best', order_pool_,
                 orders_at_price_pool_, best, s, price)
    BY <1>1, <1>2, <1>6, <1>8
  <1> QED BY <1>6, <1>9, UpdateKeeps

\* Ids that were skipped change nothing.
LEMMA LaterIds ==
    ASSUME NEW op, NEW om, NEW lp, NEW pm, NEW bs, NEW bk, NEW last,
           Good(op, om, lp, pm, bs, bk, last), NEW id \in 1 .. ME_MAX_ORDER_IDS, id > last
    PROVE  Good(op, om, lp, pm, bs, bk, id)
  <1>1. last \in Nat /\ id \in Nat /\ id \in 0 .. ME_MAX_ORDER_IDS
    BY TradingBookAssumption DEF Good
  <1>2. BookOk(op.object_, InUse(op), om, bk, last)
    BY DEF Good
  <1>3. DOMAIN bk \subseteq 1 .. last
    BY <1>2 DEF BookOk
  <1>4. \A i \in 1 .. last : i \in 1 .. id
    BY <1>1
  <1>5. DOMAIN bk \subseteq 1 .. id
    BY <1>3, <1>4
  <1>6. BookOk(op.object_, InUse(op), om, bk, id)
    BY <1>2, <1>5 DEF BookOk
  <1> QED BY <1>1, <1>6 DEF Good

\* An ADD that ends the process is at a limit.
LEMMA AtLimits ==
    ASSUME NEW op, NEW om, NEW lp, NEW pm, NEW bs, NEW bk, NEW last,
           Good(op, om, lp, pm, bs, bk, last), NEW id \in 1 .. ME_MAX_ORDER_IDS, id > last,
           id \notin DOMAIN om \/ ~CanAllocate(op) \/ ~CanAllocate(lp)
    PROVE  id = ME_MAX_ORDER_IDS \/ Cardinality(PricesOf(bk)) = ME_MAX_PRICE_LEVELS - 1
  <1>1. PICK ob, uo, lv, ul : ob = op.object_ /\ uo = InUse(op) /\ lv = lp.object_ /\ ul = InUse(lp)
    OBVIOUS
  <1>2. /\ ul \subseteq LevelBlocks /\ ME_MAX_ORDER_IDS \in Nat /\ ME_MAX_PRICE_LEVELS \in Nat
        /\ last \in Nat /\ BookOk(ob, uo, om, bk, last) /\ ListsOk(ob, uo, lv, ul, bs, pm)
    BY <1>1, GoodParts
  <1>3. /\ op \in Pools(ME_MAX_ORDER_IDS, TradingOrder) /\ op.next_free_index_ \in Free(op)
        /\ lp \in Pools(ME_MAX_PRICE_LEVELS, TradingOrdersAtPrice)
        /\ lp.next_free_index_ \in Free(lp)
        /\ DOMAIN om = 1 .. ME_MAX_ORDER_IDS - 1
    BY DEF Good
  <1>4. PICK R \in [Sides -> Seq(LevelBlocks)], Q \in [LevelBlocks -> Seq(OrderBlocks)] :
            LevelsOk(lv, ul, R, bs, pm) /\ OrdersOk(ob, uo, lv, ul, Q)
    BY <1>2 DEF ListsOk
  <1>5. CASE id \notin DOMAIN om
    BY <1>2, <1>3, <1>5
  <1>6. CASE ~CanAllocate(op)
    <2>1. Cardinality(uo) = ME_MAX_ORDER_IDS - 1
      BY ONLY <1>1, <1>2, <1>3, <1>6, OneLeft
    <2>2. Cardinality(uo) <= last
      BY <1>2, NoMoreThanIds
    <2> QED BY <2>1, <2>2, <1>2
  <1>7. CASE ~CanAllocate(lp)
    <2>1. IsFiniteSet(ul) /\ Cardinality(ul) = ME_MAX_PRICE_LEVELS - 1
      BY ONLY <1>1, <1>2, <1>3, <1>7, OneLeft
    <2>2. Cardinality(PricesOf(bk)) = Cardinality(ul)
      BY ONLY <2>1, <1>2, <1>4, LevelEachPrice
    <2> QED BY <2>1, <2>2
  <1> QED BY <1>5, <1>6, <1>7

\* ADD at a limit.
LEMMA AddFailsKeeps ==
    ASSUME IInv, NEW id \in 1 .. ME_MAX_ORDER_IDS, NEW s \in Sides,
           NEW price \in Prices, OnAddFails(id, s, price)
    PROVE  IInv'
  <1>1. PICK op, om, lp, pm, bs, bk, last :
            /\ op = order_pool_ /\ om = oid_to_order_ /\ lp = orders_at_price_pool_
            /\ pm = price_orders_at_price_ /\ bs = best /\ bk = book /\ last = last_id
    OBVIOUS
  <1>2. Good(op, om, lp, pm, bs, bk, last) /\ id \in 1 .. ME_MAX_ORDER_IDS /\ id > last
    BY <1>1 DEF IInv, OnAddFails
  <1>3. id \notin DOMAIN om \/ ~CanAllocate(op) \/ ~CanAllocate(lp)
    BY <1>1 DEF OnAddFails, Fails
  <1>4. id = ME_MAX_ORDER_IDS \/ Cardinality(PricesOf(bk)) = ME_MAX_PRICE_LEVELS - 1
    BY ONLY <1>2, <1>3, AtLimits
  <1>5. Good(op, om, lp, pm, bs, bk, id)
    BY ONLY <1>2, LaterIds
  <1>6. /\ op = order_pool_' /\ om = oid_to_order_' /\ lp = orders_at_price_pool_'
        /\ pm = price_orders_at_price_' /\ bs = best' /\ bk = book' /\ id = last_id'
        /\ bbo_' = bbo_ /\ running' = FALSE
    BY <1>1 DEF OnAddFails
  <1>7. bbo_ \in [Sides -> BBO] /\ ExactOrUnset(bbo_, op, lp, bs)
    BY <1>1, IInvIs DEF IInv
  <1>8. BboExactOrUnset'
    BY <1>6, <1>7, IInvWillBe
  <1>9. EndsOnlyAtItsLimits'
    <2>1. PricesOf(bk) = {book'[i].price : i \in DOMAIN book'}
      BY <1>6 DEF PricesOf
    <2> QED BY <2>1, <1>4, <1>6 DEF EndsOnlyAtItsLimits
  <1> QED BY <1>5, <1>6, <1>7, <1>8, <1>9 DEF IInv

\* CLEAR of an empty book.
LEMMA ClearKeeps ==
    ASSUME ~Recoveries, IInv, OnClear
    PROVE  IInv'
  <1>1. PICK op, om, lp, pm, bs, bk, last :
            /\ op = order_pool_ /\ om = oid_to_order_ /\ lp = orders_at_price_pool_
            /\ pm = price_orders_at_price_ /\ bs = best /\ bk = book /\ last = last_id
    OBVIOUS
  <1>2. PICK op2, om2, lp2, bs2 : /\ op2 = order_pool_' /\ om2 = oid_to_order_'
                                  /\ lp2 = orders_at_price_pool_' /\ bs2 = best'
    OBVIOUS
  <1>3. Good(op, om, lp, pm, bs, bk, last) /\ bk = <<>> /\ running
    BY <1>1 DEF IInv, OnClear
  <1>4. DOMAIN bk = {}
    BY <1>3
  <1>5. PICK X, Y : op2 = Deallocate(op, X) /\ lp2 = Deallocate(lp, Y)
    BY <1>1, <1>2 DEF OnClear
  <1>6. om2 = [id \in DOMAIN om |-> nullptr] /\ bs2 = [s \in Sides |-> nullptr]
    BY <1>1, <1>2 DEF OnClear
  <1>7. Good(op2, om2, lp2, pm, bs2, bk, last) /\ \A s \in Sides : bs[s] = nullptr
    BY ONLY <1>3, <1>4, <1>5, <1>6, Clears
  <1>8. /\ pm = price_orders_at_price_' /\ bk = book' /\ last = last_id'
        /\ bbo_' = bbo_ /\ running' = running
    BY <1>1, <1>3 DEF OnClear
  <1>9. bbo_ \in [Sides -> BBO] /\ ExactOrUnset(bbo_, op, lp, bs)
    BY <1>1, IInvIs DEF IInv
  <1>10. ExactOrUnset(bbo_', op2, lp2, bs2)
    <2>1. \A s \in Sides : bbo_[s] = Unset
      BY <1>7, <1>9 DEF ExactOrUnset, BestIn
    <2> QED BY <2>1, <1>8 DEF ExactOrUnset
  <1>11. BboExactOrUnset'
    BY <1>2, <1>10, IInvWillBe
  <1>12. EndsOnlyAtItsLimits' /\ running' \in BOOLEAN
    BY <1>3, <1>8 DEF EndsOnlyAtItsLimits
  <1> QED BY <1>2, <1>7, <1>8, <1>9, <1>11, <1>12 DEF IInv

\* A new pool.
LEMMA NewPoolIs ==
    ASSUME NEW n \in Nat, n >= 1, NEW T, NEW object \in T, NEW pool, pool = NewPool(n, object)
    PROVE  PoolIs(pool, n, T, [b \in 1 .. n |-> object], {})
  <1>1. PICK obs : obs = [b \in 1 .. n |-> object]
    OBVIOUS
  <1>2. obs \in [1 .. n -> T] /\ 1 .. n \in SUBSET (1 .. n) /\ 1 \in 1 .. n
    BY <1>1
  <1>3. [b \in 1 .. n |-> TRUE] = [c \in 1 .. n |-> c \in 1 .. n]
    BY Zenon
  <1>4. pool = [object_ |-> obs, is_free_ |-> [c \in 1 .. n |-> c \in 1 .. n],
                next_free_index_ |-> 1]
    BY <1>1, <1>3 DEF NewPool
  <1>5. PoolIs(pool, n, T, obs, (1 .. n) \ (1 .. n))
    BY ONLY <1>2, <1>4, n \in Nat, PoolOf
  <1>6. (1 .. n) \ (1 .. n) = {}
    OBVIOUS
  <1> QED BY <1>1, <1>5, <1>6

\* The invariant holds at first.
LEMMA InitKeeps ==
    ASSUME Init
    PROVE  IInv
  <1>1. PICK op, om, lp, pm, bs, bk, last :
            /\ op = order_pool_ /\ om = oid_to_order_ /\ lp = orders_at_price_pool_
            /\ pm = price_orders_at_price_ /\ bs = best /\ bk = book /\ last = last_id
    OBVIOUS
  <1>2. PICK ob, lv : /\ ob = [b \in 1 .. ME_MAX_ORDER_IDS |-> NoOrder]
                      /\ lv = [b \in 1 .. ME_MAX_PRICE_LEVELS |-> NoLevel]
    OBVIOUS
  <1>3. /\ ME_MAX_ORDER_IDS \in Nat /\ ME_MAX_ORDER_IDS >= 1
        /\ ME_MAX_PRICE_LEVELS \in Nat /\ ME_MAX_PRICE_LEVELS >= 1
    BY TradingBookAssumption
  <1>4. PoolIs(op, ME_MAX_ORDER_IDS, TradingOrder, ob, {})
    <2>1. NoOrder \in TradingOrder
      BY <1>3, TradingBookAssumption DEF NoOrder, TradingOrder, INVALID, nullptr
    <2>2. op = NewPool(ME_MAX_ORDER_IDS, NoOrder)
      BY <1>1 DEF Init
    <2> QED BY ONLY <2>1, <2>2, <1>2, <1>3, NewPoolIs
  <1>5. PoolIs(lp, ME_MAX_PRICE_LEVELS, TradingOrdersAtPrice, lv, {})
    <2>1. NoLevel \in TradingOrdersAtPrice
      BY <1>3, TradingBookAssumption DEF NoLevel, TradingOrdersAtPrice, INVALID, nullptr
    <2>2. lp = NewPool(ME_MAX_PRICE_LEVELS, NoLevel)
      BY <1>1 DEF Init
    <2> QED BY ONLY <2>1, <2>2, <1>2, <1>3, NewPoolIs
  <1>6. /\ om = [id \in 1 .. ME_MAX_ORDER_IDS - 1 |-> nullptr]
        /\ pm = [i \in 0 .. ME_MAX_PRICE_LEVELS - 1 |-> nullptr]
        /\ bs = [s \in Sides |-> nullptr] /\ bk = <<>> /\ last = 0
    BY <1>1 DEF Init
  <1>7. /\ om \in [1 .. ME_MAX_ORDER_IDS - 1 -> 0 .. ME_MAX_ORDER_IDS]
        /\ pm \in [0 .. ME_MAX_PRICE_LEVELS - 1 -> 0 .. ME_MAX_PRICE_LEVELS]
        /\ bs \in [Sides -> 0 .. ME_MAX_PRICE_LEVELS] /\ last \in 0 .. ME_MAX_ORDER_IDS
    BY <1>3, <1>6 DEF nullptr
  <1>8. BookOk(ob, {}, om, bk, last)
    <2>1. DOMAIN bk = {} /\ bk \in [DOMAIN bk -> BookOrder]
      BY <1>6
    <2>2. Known(ob, {}, om, bk)
      BY <2>1, <1>6 DEF Known
    <2> QED BY <2>1, <2>2 DEF BookOk
  <1>9. PICK R, Q : R = [s \in Sides |-> <<>>] /\ Q = [l \in LevelBlocks |-> <<>>]
    OBVIOUS
  <1>10. R \in [Sides -> Seq(LevelBlocks)] /\ Q \in [LevelBlocks -> Seq(OrderBlocks)]
    BY <1>9
  <1>11. LevelsOk(lv, {}, R, bs, pm)
    <2>1. ASSUME NEW s \in Sides PROVE Listed(lv, {}, R[s], Len(R[s]), s, bs[s])
      <3>1. R[s] = <<>> /\ Len(R[s]) = 0 /\ bs[s] = nullptr
        BY <1>6, <1>9
      <3>2. Listed(lv, {}, R[s], 0, s, nullptr)
        BY DEF Listed
      <3> QED BY <3>1, <3>2
    <2>2. Filed(lv, {}, R, pm)
      BY <1>6 DEF Filed
    <2> QED BY <2>1, <2>2 DEF LevelsOk
  <1>12. OrdersOk(ob, {}, lv, {}, Q)
    BY DEF OrdersOk
  <1>13. Good(op, om, lp, pm, bs, bk, last)
    BY ONLY <1>4, <1>5, <1>7, <1>8, <1>10, <1>11, <1>12, GoodOf
  <1>14. bbo_ = [s \in Sides |-> Unset] /\ running = TRUE
    BY DEF Init
  <1>15. Unset \in BBO
    BY DEF Unset, BBO, INVALID
  <1>16. bbo_ \in [Sides -> BBO] /\ BboExactOrUnset
    BY <1>14, <1>15 DEF BboExactOrUnset
  <1>17. running \in BOOLEAN /\ EndsOnlyAtItsLimits
    BY <1>14 DEF EndsOnlyAtItsLimits
  <1> QED BY <1>1, <1>13, <1>16, <1>17 DEF IInv

\* Every step keeps it.
LEMMA NextKeeps ==
    ASSUME PricesApart, ~Recoveries, IInv, [Next]_vars
    PROVE  IInv'
  <1>1. ASSUME NEW id \in 1 .. ME_MAX_ORDER_IDS, NEW s \in Sides, NEW price \in Prices,
               OnAdd(id, s, price)
        PROVE  IInv'
    BY <1>1, AddKeeps
  <1>2. ASSUME NEW id \in 1 .. ME_MAX_ORDER_IDS, NEW s \in Sides, NEW price \in Prices,
               OnAddFails(id, s, price)
        PROVE  IInv'
    BY <1>2, AddFailsKeeps
  <1>3. ASSUME NEW id \in DOMAIN book, NEW qty \in 1 .. NewQty - 1, OnModify(id, qty)
        PROVE  IInv'
    BY <1>3, ModifyKeeps
  <1>4. ASSUME NEW id \in DOMAIN book, OnCancel(id) PROVE IInv'
    BY <1>4, CancelKeeps
  <1>5. ASSUME OnClear PROVE IInv'
    BY <1>5, ClearKeeps
  <1>6. ASSUME UNCHANGED vars PROVE IInv'
    <2>1. /\ order_pool_' = order_pool_ /\ oid_to_order_' = oid_to_order_
          /\ orders_at_price_pool_' = orders_at_price_pool_
          /\ price_orders_at_price_' = price_orders_at_price_
          /\ best' = best /\ bbo_' = bbo_ /\ running' = running
          /\ book' = book /\ last_id' = last_id
      BY <1>6 DEF vars
    <2>2. BboExactOrUnset'
      BY <2>1, IInvIs, IInvWillBe DEF IInv
    <2>3. EndsOnlyAtItsLimits'
      BY <2>1 DEF IInv, EndsOnlyAtItsLimits
    <2> QED BY <2>1, <2>2, <2>3 DEF IInv
  <1> QED BY <1>1, <1>2, <1>3, <1>4, <1>5, <1>6 DEF Next

-----------------------------------------------------------------------------
(* What the invariant says of the lists and of the pools.                  *)

\* The range of a list is what is in it.
LEMMA RangeIs ==
    ASSUME NEW S, NEW r \in Seq(S), NEW x
    PROVE  x \in Range(r) <=> InList(x, r)
  BY DEF Range, InList

\* prev leads back from where next leads.
Back(obj, r, n) == \A k \in 1 .. n : obj[obj[r[k]].next].prev = r[k]

\* It does in a list.
LEMMA BackAgain ==
    ASSUME NEW obj, NEW r, NEW n, Chain(obj, r, n)
    PROVE  Back(obj, r, n)
  <1>1. ASSUME NEW k \in 1 .. n PROVE obj[obj[r[k]].next].prev = r[k]
    <2>1. obj[r[k]].next = r[After(k, n)] /\ obj[r[After(k, n)]].prev = r[k]
      BY DEF Chain
    <2> QED BY ONLY <2>1
  <1> QED BY <1>1 DEF Back

\* The list r of the levels of side s shows the prices of the book bk.
SideShows(lv, r, bk, s) ==
    /\ \A j, k \in 1 .. Len(r) : j < k => Better(s, lv[r[j]].price_, lv[r[k]].price_)
    /\ {lv[l].price_ : l \in Range(r)} =
           {bk[id].price : id \in {i \in DOMAIN bk : bk[i].side = s}}
    /\ \A l \in Range(r) : lv[lv[l].next].prev = l

\* The list q of the orders of a level shows those of the book at its price.
LevelShows(ob, q, bk, s, price) ==
    /\ \A j, k \in 1 .. Len(q) : j < k => ob[q[j]].order_id_ < ob[q[k]].order_id_
    /\ {<<ob[b].order_id_, ob[b].qty_>> : b \in Range(q)} =
           {<<id, bk[id].qty>> : id \in {i \in DOMAIN bk : bk[i].side = s /\ bk[i].price = price}}
    /\ \A b \in Range(q) : ob[ob[b].next].prev = b

\* The lists do.
LEMMA SideShown ==
    ASSUME NEW ob, NEW uo, NEW lv, NEW ul, ul \subseteq LevelBlocks, NEW om, NEW pm, NEW bs,
           NEW bk, NEW last, BookOk(ob, uo, om, bk, last),
           NEW R \in [Sides -> Seq(LevelBlocks)], LevelsOk(lv, ul, R, bs, pm),
           NEW Q \in [LevelBlocks -> Seq(OrderBlocks)], OrdersOk(ob, uo, lv, ul, Q),
           NEW s \in Sides
    PROVE  SideShows(lv, R[s], bk, s)
  <1>1. PICK r \in Seq(LevelBlocks) : r = R[s]
    OBVIOUS
  <1>2. PICK n \in Nat : n = Len(r)
    OBVIOUS
  <1>3. Listed(lv, ul, r, n, s, bs[s])
    BY <1>1, <1>2 DEF LevelsOk
  <1>4. \A j, k \in 1 .. n : j < k => Better(s, lv[r[j]].price_, lv[r[k]].price_)
    BY <1>3 DEF Listed
  <1>5. ASSUME NEW l \in Range(r)
        PROVE  l \in ul /\ lv[l].side_ = s /\ lv[lv[l].next].prev = l
    <2>1. InList(l, r)
      BY RangeIs
    <2>2. PICK k \in 1 .. n : r[k] = l
      BY <2>1, <1>2 DEF InList
    <2>3. Chain(lv, r, n) /\ l \in ul /\ lv[l].side_ = s
      BY <2>2, <1>3 DEF Listed
    <2>4. Back(lv, r, n)
      BY ONLY <2>3, BackAgain
    <2>5. lv[lv[r[k]].next].prev = r[k]
      BY ONLY <2>4, k \in 1 .. n DEF Back
    <2> QED BY <2>2, <2>3, <2>5
  <1>6. ASSUME NEW l \in Range(r)
        PROVE  \E id \in DOMAIN bk : bk[id].side = s /\ bk[id].price = lv[l].price_
    <2>1. l \in ul /\ lv[l].side_ = s
      BY <1>5
    <2>2. HasQueue(ob, uo, lv, Q, l)
      BY <2>1, QueueOf
    <2>3. PICK q \in Seq(OrderBlocks), M \in Nat : M >= 1 /\ Queued(ob, uo, q, M, lv[l])
      BY <2>2 DEF HasQueue
    <2>4. 1 \in 1 .. M
      BY <2>3
    <2>5. q[1] \in uo /\ ob[q[1]].price_ = lv[l].price_ /\ ob[q[1]].side_ = lv[l].side_
      BY <2>3, <2>4 DEF Queued
    <2>6. PICK i : i = ob[q[1]].order_id_
      OBVIOUS
    <2>7. i \in DOMAIN bk /\ bk[i] = [side |-> ob[q[1]].side_, price |-> ob[q[1]].price_,
                                     qty |-> ob[q[1]].qty_]
      BY <2>5, <2>6 DEF BookOk, Known
    <2>8. bk[i].side = ob[q[1]].side_ /\ bk[i].price = ob[q[1]].price_
      BY ONLY <2>7
    <2> QED BY <2>1, <2>5, <2>7, <2>8
  <1>7. ASSUME NEW id \in DOMAIN bk, bk[id].side = s
        PROVE  \E l \in Range(r) : lv[l].price_ = bk[id].price
    <2>1. PICK b, l : b = om[id] /\ l = pm[PriceToIndex(bk[id].price)]
      OBVIOUS
    <2>2. Placed(ob, uo, lv, ul, pm, om, bk, Q, id, b, l)
      BY <2>1, OrderOf
    <2>3. l \in ul /\ lv[l].side_ = s /\ lv[l].price_ = bk[id].price
      BY <2>2, <1>7 DEF Placed
    <2>4. InList(l, r)
      BY <2>3, <1>1 DEF LevelsOk, Filed
    <2>5. l \in Range(r)
      BY <2>4, RangeIs
    <2> QED BY <2>3, <2>5
  <1>8. {lv[l].price_ : l \in Range(r)} =
            {bk[id].price : id \in {i \in DOMAIN bk : bk[i].side = s}}
    <2>1. ASSUME NEW l \in Range(r)
          PROVE  lv[l].price_ \in {bk[id].price : id \in {i \in DOMAIN bk : bk[i].side = s}}
      BY <1>6
    <2>2. ASSUME NEW id \in {i \in DOMAIN bk : bk[i].side = s}
          PROVE  bk[id].price \in {lv[l].price_ : l \in Range(r)}
      BY <1>7
    <2> QED BY ONLY <2>1, <2>2
  <1>9. SideShows(lv, r, bk, s)
    BY <1>2, <1>4, <1>5, <1>8 DEF SideShows
  <1> QED BY <1>1, <1>9

\* And so do those of the orders.
LEMMA LevelShown ==
    ASSUME NEW ob, NEW uo, NEW lv, NEW ul, ul \subseteq LevelBlocks, NEW om, NEW pm, NEW bs,
           NEW bk, NEW last, BookOk(ob, uo, om, bk, last),
           NEW R \in [Sides -> Seq(LevelBlocks)], LevelsOk(lv, ul, R, bs, pm),
           NEW Q \in [LevelBlocks -> Seq(OrderBlocks)], OrdersOk(ob, uo, lv, ul, Q),
           NEW l \in ul
    PROVE  LevelShows(ob, Q[l], bk, lv[l].side_, lv[l].price_)
  <1>1. HasQueue(ob, uo, lv, Q, l)
    BY QueueOf
  <1>2. PICK q \in Seq(OrderBlocks), n \in Nat :
            q = Q[l] /\ n = Len(q) /\ Queued(ob, uo, q, n, lv[l]) /\ Chain(ob, q, n)
    BY <1>1 DEF HasQueue
  <1>3. PICK s, price : s = lv[l].side_ /\ price = lv[l].price_
    OBVIOUS
  <1>4. \A j, k \in 1 .. n : j < k => ob[q[j]].order_id_ < ob[q[k]].order_id_
    BY <1>2 DEF Queued
  <1>5. ASSUME NEW b \in Range(q)
        PROVE  /\ b \in uo /\ ob[b].side_ = s /\ ob[b].price_ = price
               /\ ob[ob[b].next].prev = b
    <2>1. InList(b, q)
      BY RangeIs
    <2>2. PICK k \in 1 .. n : q[k] = b
      BY <2>1, <1>2 DEF InList
    <2>3. b \in uo /\ ob[b].side_ = s /\ ob[b].price_ = price
      BY <2>2, <1>2, <1>3 DEF Queued
    <2>4. Back(ob, q, n)
      BY <1>2, BackAgain
    <2>5. ob[ob[q[k]].next].prev = q[k]
      BY ONLY <2>4, k \in 1 .. n DEF Back
    <2> QED BY <2>2, <2>3, <2>5
  <1>6. ASSUME NEW b \in Range(q)
        PROVE  \E id \in DOMAIN bk : /\ bk[id].side = s /\ bk[id].price = price
                                     /\ <<ob[b].order_id_, ob[b].qty_>> = <<id, bk[id].qty>>
    <2>1. b \in uo /\ ob[b].side_ = s /\ ob[b].price_ = price
      BY <1>5
    <2>2. PICK i : i = ob[b].order_id_
      OBVIOUS
    <2>3. i \in DOMAIN bk /\ bk[i] = [side |-> ob[b].side_, price |-> ob[b].price_,
                                     qty |-> ob[b].qty_]
      BY <2>1, <2>2 DEF BookOk, Known
    <2> QED BY <2>1, <2>2, <2>3
  <1>7. ASSUME NEW id \in DOMAIN bk, bk[id].side = s, bk[id].price = price
        PROVE  \E b \in Range(q) : <<ob[b].order_id_, ob[b].qty_>> = <<id, bk[id].qty>>
    <2>1. PICK b, m : b = om[id] /\ m = pm[PriceToIndex(bk[id].price)]
      OBVIOUS
    <2>2. Placed(ob, uo, lv, ul, pm, om, bk, Q, id, b, m)
      BY <2>1, OrderOf
    <2>3. /\ m \in ul /\ lv[m].price_ = price /\ InList(b, Q[m]) /\ b \in uo
          /\ ob[b].order_id_ = id
      BY <2>2, <1>7 DEF Placed
    <2>4. Apart(lv, ul)
      BY FiledApart
    <2>5. m = l
      BY <2>3, <2>4, <1>3 DEF Apart
    <2>6. b \in Range(q)
      BY <2>3, <2>5, <1>2, RangeIs
    <2>7. bk[id] = [side |-> ob[b].side_, price |-> ob[b].price_, qty |-> ob[b].qty_]
      BY <2>3 DEF BookOk, Known
    <2>8. bk[id].qty = ob[b].qty_
      BY <2>7
    <2> QED BY <2>3, <2>6, <2>8
  <1>8. {<<ob[b].order_id_, ob[b].qty_>> : b \in Range(q)} =
            {<<id, bk[id].qty>> : id \in {i \in DOMAIN bk : bk[i].side = s /\ bk[i].price = price}}
    BY <1>6, <1>7
  <1>9. LevelShows(ob, q, bk, s, price)
    BY <1>2, <1>4, <1>5, <1>8 DEF LevelShows
  <1> QED BY <1>2, <1>3, <1>9

\* The lists the invariant speaks of are those one finds by walking.
Walks(R, Q) ==
    /\ \A s \in Sides : Levels(s) = R[s]
    /\ \A l \in InUse(orders_at_price_pool_) : Orders(l) = Q[l]

\* There are such lists.
LEMMA WalksAre ==
    ASSUME IInv
    PROVE  \E R \in [Sides -> Seq(LevelBlocks)], Q \in [LevelBlocks -> Seq(OrderBlocks)] :
               /\ LevelsOk(level, InUse(orders_at_price_pool_), R, best, price_orders_at_price_)
               /\ OrdersOk(order, InUse(order_pool_), level, InUse(orders_at_price_pool_), Q)
               /\ InUse(orders_at_price_pool_) \subseteq LevelBlocks
               /\ InUse(order_pool_) \subseteq OrderBlocks
               /\ BookOk(order, InUse(order_pool_), oid_to_order_, book, last_id)
               /\ Walks(R, Q)
  <1>1. Good(order_pool_, oid_to_order_, orders_at_price_pool_, price_orders_at_price_,
             best, book, last_id)
    BY DEF IInv
  <1>2. PICK op, om, lp, pm, bs, bk, last :
            /\ op = order_pool_ /\ om = oid_to_order_ /\ lp = orders_at_price_pool_
            /\ pm = price_orders_at_price_ /\ bs = best /\ bk = book /\ last = last_id
    OBVIOUS
  <1>3. PICK ob, uo, lv, ul : ob = op.object_ /\ uo = InUse(op) /\ lv = lp.object_ /\ ul = InUse(lp)
    OBVIOUS
  <1>4. Good(op, om, lp, pm, bs, bk, last)
    BY <1>1, <1>2
  <1>5. /\ DOMAIN ob = OrderBlocks /\ DOMAIN lv = LevelBlocks
        /\ uo \subseteq OrderBlocks /\ ul \subseteq LevelBlocks
        /\ BookOk(ob, uo, om, bk, last) /\ ListsOk(ob, uo, lv, ul, bs, pm)
    BY <1>3, <1>4, GoodParts
  <1>6. PICK R \in [Sides -> Seq(LevelBlocks)], Q \in [LevelBlocks -> Seq(OrderBlocks)] :
            LevelsOk(lv, ul, R, bs, pm) /\ OrdersOk(ob, uo, lv, ul, Q)
    BY <1>5 DEF ListsOk
  <1>7. order = ob /\ level = lv
    BY <1>2, <1>3 DEF order, level
  <1>8. Shown(ob, lv, Q, ul)
    BY <1>5, <1>6, OrdersAre
  <1>9. ASSUME NEW s \in Sides PROVE Levels(s) = R[s]
    <2>1. HeadOf(lv, ul, R[s], bs, s)
      BY <1>5, <1>6, LevelsAre
    <2> QED BY <2>1, <1>2, <1>7 DEF HeadOf, Levels
  <1>10. ASSUME NEW l \in ul PROVE Orders(l) = Q[l]
    BY <1>7, <1>8 DEF Shown, Orders
  <1>11. Walks(R, Q)
    BY <1>2, <1>3, <1>9, <1>10 DEF Walks
  <1> QED BY <1>2, <1>3, <1>5, <1>6, <1>7, <1>11

\* Walking the lists shows the book.
LEMMA ListsAreShown ==
    ASSUME IInv
    PROVE  ListsShowTheBook
  <1>1. PICK ob, uo, lv, ul, pm, bs, bk : /\ ob = order /\ uo = InUse(order_pool_)
                                          /\ lv = level /\ ul = InUse(orders_at_price_pool_)
                                          /\ pm = price_orders_at_price_ /\ bs = best /\ bk = book
    OBVIOUS
  <1>2. PICK R \in [Sides -> Seq(LevelBlocks)], Q \in [LevelBlocks -> Seq(OrderBlocks)] :
            /\ LevelsOk(lv, ul, R, bs, pm) /\ OrdersOk(ob, uo, lv, ul, Q)
            /\ ul \subseteq LevelBlocks /\ BookOk(ob, uo, oid_to_order_, bk, last_id)
            /\ Walks(R, Q)
    BY <1>1, WalksAre
  <1>3. ASSUME NEW s \in Sides
        PROVE  /\ Levels(s) = R[s] /\ SideShows(lv, R[s], bk, s)
               /\ \A l \in Range(R[s]) : l \in ul /\ lv[l].side_ = s
    <2>1. SideShows(lv, R[s], bk, s)
      BY <1>2, SideShown
    <2>2. Listed(lv, ul, R[s], Len(R[s]), s, bs[s]) /\ R[s] \in Seq(LevelBlocks)
      BY <1>2 DEF LevelsOk
    <2>3. ASSUME NEW l \in Range(R[s]) PROVE l \in ul /\ lv[l].side_ = s
      <3>1. InList(l, R[s])
        BY <2>2, RangeIs
      <3> QED BY <3>1, <2>2 DEF InList, Listed
    <2> QED BY <1>2, <2>1, <2>3 DEF Walks
  <1>4. ASSUME NEW l \in ul
        PROVE  Orders(l) = Q[l] /\ LevelShows(ob, Q[l], bk, lv[l].side_, lv[l].price_)
    <2>1. LevelShows(ob, Q[l], bk, lv[l].side_, lv[l].price_)
      BY <1>2, LevelShown
    <2> QED BY <1>1, <1>2, <2>1 DEF Walks
  <1>5. ASSUME NEW s \in Sides
        PROVE  /\ SideShows(level, Levels(s), book, s)
               /\ \A l \in Range(Levels(s)) : LevelShows(order, Orders(l), book, s, level[l].price_)
    BY <1>1, <1>3, <1>4
  <1> QED BY <1>5 DEF ListsShowTheBook, SideShows, LevelShows, IdsAt, IdsOf

\* The blocks in use are those of the maps and of the lists.
LEMMA PoolsAreAccounted ==
    ASSUME IInv
    PROVE  PoolsAccountForAll
  <1>1. PICK ob, uo, lv, ul, om, pm, bs, bk :
            /\ ob = order /\ uo = InUse(order_pool_)
            /\ lv = level /\ ul = InUse(orders_at_price_pool_)
            /\ om = oid_to_order_ /\ pm = price_orders_at_price_ /\ bs = best /\ bk = book
    OBVIOUS
  <1>2. PICK R \in [Sides -> Seq(LevelBlocks)], Q \in [LevelBlocks -> Seq(OrderBlocks)] :
            /\ LevelsOk(lv, ul, R, bs, pm) /\ OrdersOk(ob, uo, lv, ul, Q)
            /\ ul \subseteq LevelBlocks /\ uo \subseteq OrderBlocks
            /\ BookOk(ob, uo, om, bk, last_id) /\ Walks(R, Q)
    BY <1>1, WalksAre
  <1>3. /\ om \in [1 .. ME_MAX_ORDER_IDS - 1 -> 0 .. ME_MAX_ORDER_IDS]
        /\ pm \in [0 .. ME_MAX_PRICE_LEVELS - 1 -> 0 .. ME_MAX_PRICE_LEVELS]
    BY <1>1 DEF IInv, Good
  <1>4. ME_MAX_PRICE_LEVELS \in Nat /\ ME_MAX_PRICE_LEVELS > 0 /\ Prices \subseteq Nat
    BY TradingBookAssumption
  <1>5. ASSUME NEW x \in Nat PROVE PriceToIndex(x) \in 0 .. ME_MAX_PRICE_LEVELS - 1
    BY <1>4 DEF PriceToIndex
  <1>6. nullptr \notin uo /\ nullptr \notin ul
    BY <1>2 DEF nullptr, OrderBlocks, LevelBlocks
  <1>7. uo = Range(om) \ {nullptr}
    <2>1. ASSUME NEW b \in uo PROVE b \in Range(om) \ {nullptr}
      <3>1. PICK i : i = ob[b].order_id_
        OBVIOUS
      <3>2. i \in DOMAIN bk /\ om[i] = b /\ DOMAIN bk \subseteq DOMAIN om
        BY <3>1, <1>2 DEF BookOk, Known
      <3> QED BY <3>2, <1>6 DEF Range
    <2>2. ASSUME NEW b \in Range(om) \ {nullptr} PROVE b \in uo
      <3>1. PICK i \in DOMAIN om : om[i] = b /\ om[i] # nullptr
        BY DEF Range
      <3>2. i \in DOMAIN bk
        BY <3>1, <1>2 DEF BookOk, Known
      <3> QED BY <3>1, <3>2, <1>2 DEF BookOk, Known
    <2> QED BY ONLY <2>1, <2>2
  <1>8. ul = Range(pm) \ {nullptr}
    <2>1. ASSUME NEW l \in ul PROVE l \in Range(pm) \ {nullptr}
      <3>1. lv[l].price_ \in Prices /\ pm[PriceToIndex(lv[l].price_)] = l
        BY <1>2 DEF LevelsOk, Filed
      <3>2. PriceToIndex(lv[l].price_) \in DOMAIN pm
        BY <3>1, <1>3, <1>4, <1>5
      <3> QED BY <3>1, <3>2, <1>6 DEF Range
    <2>2. ASSUME NEW l \in Range(pm) \ {nullptr} PROVE l \in ul
      <3>1. PICK i \in DOMAIN pm : pm[i] = l /\ pm[i] # nullptr
        BY DEF Range
      <3> QED BY <3>1, <1>2 DEF LevelsOk, Filed
    <2> QED BY ONLY <2>1, <2>2
  <1>9. ul = UNION {Range(Levels(s)) : s \in Sides}
    <2>1. ASSUME NEW l \in ul PROVE \E s \in Sides : l \in Range(Levels(s))
      <3>1. PICK s \in Sides : InList(l, R[s])
        BY <1>2 DEF LevelsOk, Filed
      <3>2. Levels(s) = R[s] /\ R[s] \in Seq(LevelBlocks)
        BY <1>2 DEF Walks
      <3>3. l \in Range(R[s])
        BY <3>1, <3>2, RangeIs
      <3> QED BY <3>2, <3>3
    <2>2. ASSUME NEW s \in Sides, NEW l \in Range(Levels(s)) PROVE l \in ul
      <3>1. Levels(s) = R[s] /\ R[s] \in Seq(LevelBlocks)
        BY <1>2 DEF Walks
      <3>2. InList(l, R[s])
        BY <3>1, RangeIs
      <3>3. Listed(lv, ul, R[s], Len(R[s]), s, bs[s])
        BY <1>2 DEF LevelsOk
      <3> QED BY <3>2, <3>3 DEF InList, Listed
    <2> QED BY ONLY <2>1, <2>2
  <1>10. uo = UNION {Range(Orders(l)) : l \in ul}
    <2>1. ASSUME NEW b \in uo PROVE \E l \in ul : b \in Range(Orders(l))
      <3>1. PICK l \in ul : InList(b, Q[l])
        BY <1>2 DEF OrdersOk
      <3>2. Orders(l) = Q[l] /\ Q[l] \in Seq(OrderBlocks)
        BY <1>1, <1>2 DEF Walks
      <3>3. b \in Range(Q[l])
        BY <3>1, <3>2, RangeIs
      <3> QED BY <3>2, <3>3
    <2>2. ASSUME NEW l \in ul, NEW b \in Range(Orders(l)) PROVE b \in uo
      <3>1. Orders(l) = Q[l] /\ Q[l] \in Seq(OrderBlocks)
        BY <1>1, <1>2 DEF Walks
      <3>2. InList(b, Q[l])
        BY <3>1, RangeIs
      <3>3. Queued(ob, uo, Q[l], Len(Q[l]), lv[l])
        BY <1>2 DEF OrdersOk
      <3> QED BY <3>2, <3>3 DEF InList, Queued
    <2> QED BY ONLY <2>1, <2>2
  <1> QED BY <1>1, <1>7, <1>8, <1>9, <1>10 DEF PoolsAccountForAll

\* Types are part of it.
LEMMA TypesAreKept ==
    ASSUME IInv
    PROVE  TypeOK
  BY DEF IInv, Good, TypeOK

-----------------------------------------------------------------------------
(* The theorems, for prices that have different levels and a book that is  *)
(* never cleared while it has orders.                                      *)

\* The invariant holds of every state.
LEMMA AlwaysIInv ==
    ASSUME PricesApart, ~Recoveries
    PROVE  Spec => []IInv
  <1>1. Init => IInv
    BY InitKeeps
  <1>2. IInv /\ [Next]_vars => IInv'
    BY NextKeeps
  <1> QED BY <1>1, <1>2, PTL DEF Spec

\* The pools, maps, list heads and the best bid and offer keep their types:
\* no pointer leads out of its pool (trading_order_book.hpp:80).
THEOREM TypeCorrect ==
    ASSUME PricesApart, ~Recoveries
    PROVE  Spec => []TypeOK
  <1>1. IInv => TypeOK
    BY TypesAreKept
  <1> QED BY <1>1, AlwaysIInv, PTL

\* Walking the two circular lists always shows the exchange's book, in the
\* order of its prices and of the age of its orders, and back the same way
\* (trading_order_book.hpp:118, 141).
THEOREM ListsAlwaysShowTheBook ==
    ASSUME PricesApart, ~Recoveries
    PROVE  Spec => []ListsShowTheBook
  <1>1. IInv => ListsShowTheBook
    BY ListsAreShown
  <1> QED BY <1>1, AlwaysIInv, PTL

\* Every block of the two pools is free, or in its map and in one list: none
\* is lost, handed out twice or used after it was freed (memory_pool.hpp:26).
THEOREM PoolsAlwaysAccounted ==
    ASSUME PricesApart, ~Recoveries
    PROVE  Spec => []PoolsAccountForAll
  <1>1. IInv => PoolsAccountForAll
    BY PoolsAreAccounted
  <1> QED BY <1>1, AlwaysIInv, PTL

\* An ADD ends the process only when the ids are used up or a price wants the
\* last free level: never for want of an order block
\* (memory_pool.hpp:79, trading_order_book.hpp:220).
THEOREM AlwaysEndsAtItsLimits ==
    ASSUME PricesApart, ~Recoveries
    PROVE  Spec => []EndsOnlyAtItsLimits
  <1>1. IInv => EndsOnlyAtItsLimits
    BY DEF IInv
  <1> QED BY <1>1, AlwaysIInv, PTL

\* As long as no CLEAR takes orders out of the book, the best bid and offer
\* that an update leaves standing is still the best price with all its
\* quantity, or was never set (trading_order_book.cpp:25, 84).
THEOREM BboAlwaysExactOrUnset ==
    ASSUME PricesApart, ~Recoveries
    PROVE  Spec => []BboExactOrUnset
  <1>1. IInv => BboExactOrUnset
    BY DEF IInv
  <1> QED BY <1>1, AlwaysIInv, PTL
=============================================================================
