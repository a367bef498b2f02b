-------------------------- MODULE PreFlightProofs --------------------------
(***************************************************************************)
(* The three properties of the pre-flight gates, for every lot size, cash, *)
(* order, plan, position and quote.                                        *)
(*                                                                         *)
(* The second rests on each gate's being monotone in the quantity; the     *)
(* other two on the position gate, and on the position that legs leave     *)
(* being moved by the one leg in its symbol alone.                         *)
(***************************************************************************)
EXTENDS PreFlightRequests, NaturalsInduction, WellFoundedInduction,
        SequenceTheorems, TLAPS

-----------------------------------------------------------------------------
(* Numbers.                                                                *)

\* A non-empty set of natural numbers has a least element.
LEMMA LeastNumber ==
    ASSUME NEW T \in SUBSET Nat, T # {}
    PROVE  \E x \in T : \A y \in T : x <= y
<1>1. IsWellFoundedOn(OpToRel(<, Nat), Nat)
    BY NatLessThanWellFounded
<1>2. PICK x \in T : \A y \in T : <<y, x>> \notin OpToRel(<, Nat)
    BY <1>1, WFMin
<1>3. \A y \in T : ~(y < x)
    BY <1>2 DEF OpToRel
<1> QED BY <1>3

\* Induction from 0 up to a bound, on the set of the numbers that are reached.
LEMMA UpTo ==
    ASSUME NEW S, NEW L \in Nat, 0 \in S,
           \A n \in 0..L : n \in S /\ n # L => n + 1 \in S
    PROVE  \A n \in 0..L : n \in S
<1> DEFINE Missing == {n \in 0..L : n \notin S}
<1> SUFFICES ASSUME Missing # {} PROVE FALSE
    OBVIOUS
<1>1. Missing \in SUBSET Nat
    OBVIOUS
<1> HIDE DEF Missing
<1>2. PICK n \in Missing : \A m \in Missing : n <= m
    BY <1>1, LeastNumber
<1> USE DEF Missing
<1>3. n # 0 /\ n - 1 \in 0..L /\ n - 1 \notin Missing
    BY <1>2
<1> QED BY <1>2, <1>3

LEMMA ProductGrows ==
    ASSUME NEW a \in Nat, NEW b \in Nat, NEW c \in Nat, a <= b
    PROVE  a * c <= b * c /\ a * c \in Nat /\ b * c \in Nat
<1>1. PICK d \in Nat : b = a + d
    BY b - a \in Nat
<1>2. b * c = a * c + d * c
    BY <1>1
<1>3. a * c \in Nat /\ d * c \in Nat
    OBVIOUS
<1> QED BY <1>2, <1>3

LEMMA QuotientGrows ==
    ASSUME NEW a \in Nat, NEW b \in Nat, NEW c \in Nat \ {0}, a <= b
    PROVE  a \div c <= b \div c /\ a \div c \in Int /\ b \div c \in Int
<1> DEFINE p == a \div c
           q == b \div c
<1>1. p \in Int /\ q \in Int
    OBVIOUS
<1>2. c * p <= a /\ b < c * q + c
    OBVIOUS
<1> HIDE DEF p, q
<1>3. SUFFICES ASSUME q < p PROVE FALSE
    BY <1>1 DEF p, q
<1>4. PICK d \in Nat : p = q + 1 + d
    BY <1>1, <1>3, p - q - 1 \in Nat
<1>5. c * p = c * q + c + c * d /\ c * d >= 0 /\ c * q \in Int
    BY <1>1, <1>4
<1> QED BY <1>2, <1>5

-----------------------------------------------------------------------------
(* What it takes to be accepted.                                           *)

\* What the gates read of the state.
StateOK(h, t, c) ==
    /\ h \in [Symbols -> Int]
    /\ DOMAIN t \subseteq Symbols /\ t \in [DOMAIN t -> Quote]
    /\ c \in [Symbols -> Quote]

\* No gate refuses exactly if each of them passes.
LEMMA NoRefusal ==
    ASSUME NEW gates, NEW n \in Nat, DOMAIN gates = 1..n
    PROVE  FirstRefusal(gates) = "ok" <=> \A i \in 1..n : gates[i] = "ok"
<1> DEFINE refusing == {i \in DOMAIN gates : gates[i] # "ok"}
<1>1. CASE refusing = {}
    BY <1>1 DEF FirstRefusal
<1>2. CASE refusing # {}
    <2>1. refusing \in SUBSET Nat
        OBVIOUS
    <2>2. \E i \in refusing : \A j \in refusing : i <= j
        BY <1>2, <2>1, LeastNumber
    <2> DEFINE k == CHOOSE i \in refusing : \A j \in refusing : i <= j
    <2>3. k \in refusing
        BY <2>2
    <2>4. FirstRefusal(gates) = gates[k]
        BY <1>2 DEF FirstRefusal
    <2> HIDE DEF k
    <2> QED BY <2>3, <2>4
<1> QED BY <1>1, <1>2

LEMMA LegAccepted ==
    ASSUME NEW o, NEW ls, NEW h, NEW t, NEW c
    PROVE  CheckLeg(o, ls, h, t, c) = "ok" <=>
               /\ StructureGate(o) = "ok"
               /\ PerTradeGate(o, t, c) = "ok"
               /\ PositionGate(o, h, t) = "ok"
               /\ LotGate(o) = "ok"
               /\ LimitGate(o, t, c) = "ok"
               /\ ConsistencyGate(ls) = "ok"
<1> DEFINE gates == << StructureGate(o), PerTradeGate(o, t, c), PositionGate(o, h, t),
                       LotGate(o), LimitGate(o, t, c), ConsistencyGate(ls) >>
<1>1. DOMAIN gates = 1..6
    OBVIOUS
<1>2. /\ gates[1] = StructureGate(o)
      /\ gates[2] = PerTradeGate(o, t, c)
      /\ gates[3] = PositionGate(o, h, t)
      /\ gates[4] = LotGate(o)
      /\ gates[5] = LimitGate(o, t, c)
      /\ gates[6] = ConsistencyGate(ls)
    OBVIOUS
<1>3. CheckLeg(o, ls, h, t, c) = FirstRefusal(gates)
    BY DEF CheckLeg
<1> HIDE DEF gates
<1>4. FirstRefusal(gates) = "ok" <=> \A i \in 1..6 : gates[i] = "ok"
    BY <1>1, NoRefusal
<1>5. (\A i \in 1..6 : gates[i] = "ok") <=>
          /\ gates[1] = "ok" /\ gates[2] = "ok" /\ gates[3] = "ok"
          /\ gates[4] = "ok" /\ gates[5] = "ok" /\ gates[6] = "ok"
    OBVIOUS
<1> QED BY <1>2, <1>3, <1>4, <1>5

LEMMA PlanAccepted ==
    ASSUME NEW ls \in Seq(Order), ls # << >>, NEW h, NEW t, NEW c
    PROVE  CheckPlan(ls, h, t, c) = "ok" <=>
               /\ \A i \in 1..Len(ls) : CheckLeg(ls[i], ls, h, t, c) = "ok"
               /\ OutlayGate(ls) = "ok"
<1> DEFINE n == Len(ls)
           gates == [i \in 1..n + 1 |-> IF i <= n THEN CheckLeg(ls[i], ls, h, t, c)
                                                 ELSE OutlayGate(ls)]
<1>1. CheckPlan(ls, h, t, c) = FirstRefusal(gates)
    BY DEF CheckPlan
<1>2. n \in Nat /\ DOMAIN gates = 1..n + 1
    OBVIOUS
<1>3. /\ \A i \in 1..n : gates[i] = CheckLeg(ls[i], ls, h, t, c)
      /\ gates[n + 1] = OutlayGate(ls)
    BY <1>2
<1> HIDE DEF gates, n
<1>4. FirstRefusal(gates) = "ok" <=> \A i \in 1..n + 1 : gates[i] = "ok"
    BY <1>2, NoRefusal
<1>5. (\A i \in 1..n + 1 : gates[i] = "ok") <=>
          (\A i \in 1..n : gates[i] = "ok") /\ gates[n + 1] = "ok"
    BY <1>2
<1>6. (\A i \in 1..n : gates[i] = "ok") <=>
          \A i \in 1..n : CheckLeg(ls[i], ls, h, t, c) = "ok"
    BY <1>3
<1> QED BY <1>1, <1>3, <1>4, <1>5, <1>6 DEF n

-----------------------------------------------------------------------------
(* Sums.                                                                   *)

RunningSum(f, a, d, n) == f = [k \in 0..n |-> IF k = 0 THEN a ELSE f[k-1] + d[k]]

LEMMA RunningSumExists ==
    ASSUME NEW a, NEW d, NEW N \in Nat
    PROVE  \E f : RunningSum(f, a, d, N)
<1> DEFINE Summed == {n \in 0..N : \E f : RunningSum(f, a, d, n)}
<1>1. 0 \in Summed
    <2> DEFINE g == [k \in 0..0 |-> a]
    <2>1. RunningSum(g, a, d, 0)
        BY DEF RunningSum
    <2> QED BY <2>1
<1>2. ASSUME NEW n \in 0..N, n \in Summed, n # N
      PROVE  n + 1 \in Summed
    <2>1. PICK f : RunningSum(f, a, d, n)
        BY <1>2
    <2> DEFINE g == [k \in 0..n+1 |-> IF k = n + 1 THEN f[n] + d[n+1] ELSE f[k]]
    <2>2. f = [k \in 0..n |-> IF k = 0 THEN a ELSE f[k-1] + d[k]]
        BY <2>1 DEF RunningSum
    <2>3. \A k \in 0..n+1 : g[k] = IF k = 0 THEN a ELSE g[k-1] + d[k]
        BY <2>2
    <2>4. RunningSum(g, a, d, n + 1)
        BY <2>3 DEF RunningSum
    <2>5. n + 1 \in 0..N
        BY <1>2
    <2> HIDE DEF g
    <2> QED BY <2>4, <2>5
<1> HIDE DEF Summed
<1>3. N \in Summed
    BY <1>1, <1>2, UpTo
<1> QED BY <1>3 DEF Summed

-----------------------------------------------------------------------------
(* The gates and the quantity.                                             *)

LEMMA Prices ==
    ASSUME NEW h, NEW t, NEW c, StateOK(h, t, c), NEW o \in Order
    PROVE  CostPrice(o, t, c) \in Nat /\ ExposurePrice(o, t) \in Nat
<1>1. /\ o.symbol \in Symbols /\ o.price \in Nat
      /\ o.symbol \in DOMAIN t => t[o.symbol] \in Quote
      /\ c[o.symbol] \in Quote
    BY DEF StateOK, Order
<1>2. \A q \in Quote : q.bid \in Nat /\ q.ask \in Nat /\ q.ltp \in Nat
    BY DEF Quote
<1>3. CostPrice(o, t, c) \in Nat
    <2>1. CASE o.price > 0
        BY <1>1, <2>1 DEF CostPrice
    <2>2. CASE o.price = 0 /\ o.symbol \in DOMAIN t
        BY <1>1, <1>2, <2>2 DEF CostPrice, Or
    <2>3. CASE o.price = 0 /\ o.symbol \notin DOMAIN t
        BY <1>1, <1>2, <2>3 DEF CostPrice, Or
    <2> QED BY <1>1, <2>1, <2>2, <2>3
<1>4. ExposurePrice(o, t) \in Nat
    BY <1>1, <1>2 DEF ExposurePrice, Or
<1> QED BY <1>3, <1>4

\* An order with another quantity.
OfQuantity(o, q) == [o EXCEPT !.qty = q]

LEMMA OnlyTheQuantity ==
    ASSUME NEW o \in Order, NEW q \in Nat
    PROVE  /\ OfQuantity(o, q) \in Order
           /\ OfQuantity(o, q).qty = q
           /\ OfQuantity(o, q).symbol = o.symbol
           /\ OfQuantity(o, q).underlying = o.underlying
           /\ OfQuantity(o, q).side = o.side
           /\ OfQuantity(o, q).type = o.type
           /\ OfQuantity(o, q).price = o.price
           /\ OfQuantity(o, q).spot = o.spot
BY DEF OfQuantity, Order

LEMMA LessInOneLot ==
    ASSUME NEW o \in Order, NEW q \in Nat, q <= o.qty, AtMostOneLot(o)
    PROVE  AtMostOneLot(OfQuantity(o, q))
<1>1. LotSize[o.underlying] \in Nat /\ o.qty \in Nat
    BY GateParameters DEF Order
<1>2. OfQuantity(o, q).qty = q /\ OfQuantity(o, q).underlying = o.underlying
    BY OnlyTheQuantity
<1>3. 2 * o.qty < 3 * LotSize[o.underlying]
    BY DEF AtMostOneLot
<1>4. 2 * q < 3 * LotSize[o.underlying]
    BY <1>1, <1>3
<1> QED BY <1>2, <1>4 DEF AtMostOneLot

LEMMA LessWithinTradeCap ==
    ASSUME NEW h, NEW t, NEW c, StateOK(h, t, c), NEW o \in Order,
           NEW q \in Nat, q <= o.qty, PerTradeGate(o, t, c) = "ok"
    PROVE  PerTradeGate(OfQuantity(o, q), t, c) = "ok"
<1> DEFINE p == CostPrice(o, t, c)
           r == OfQuantity(o, q)
<1>1. p \in Nat /\ o.qty \in Nat /\ Cash \in Nat
    BY Prices, GateParameters DEF Order
<1>2. CostPrice(r, t, c) = p
    BY OnlyTheQuantity DEF CostPrice
<1>3. r.side = o.side /\ r.qty = q /\ (r.spot <=> o.spot)
    BY OnlyTheQuantity
<1> HIDE DEF p, r
<1>4. AtMostOneLot(o) => AtMostOneLot(r)
    BY LessInOneLot DEF r
<1>5. 100 * q * p <= 100 * o.qty * p
    <2>1. 100 * q \in Nat /\ 100 * o.qty \in Nat /\ 100 * q <= 100 * o.qty
        BY <1>1
    <2> QED BY <1>1, <2>1, ProductGrows
<1>6. 100 * q * p \in Int /\ 100 * o.qty * p \in Int /\ PerTradePct * Cash \in Int
    BY <1>1 DEF PerTradePct
<1>7. Cash # 0
    BY DEF PerTradeGate
<1>8. ASSUME o.side = "SELL" \/ o.spot
      PROVE  PerTradeGate(r, t, c) = "ok"
    BY <1>3, <1>7, <1>8 DEF PerTradeGate
<1>9. ASSUME ~(o.side = "SELL" \/ o.spot)
      PROVE  PerTradeGate(r, t, c) = "ok"
    <2>1. /\ p # 0
          /\ AtMostOneLot(o) \/ 100 * o.qty * p <= PerTradePct * Cash
        BY <1>7, <1>9 DEF PerTradeGate, p
    <2>2. AtMostOneLot(r) \/ 100 * q * p <= PerTradePct * Cash
        BY <1>4, <1>5, <1>6, <2>1
    <2> QED BY <1>2, <1>3, <1>7, <1>9, <2>1, <2>2 DEF PerTradeGate
<1> QED BY <1>8, <1>9 DEF r

LEMMA LessExposed ==
    ASSUME NEW p \in Int, NEW side \in Sides, NEW q \in Nat, NEW n \in Nat,
           q <= n, p * Signed(side, 1) >= 0
    PROVE  /\ Abs(p + Signed(side, q)) <= Abs(p + Signed(side, n))
           /\ Abs(p + Signed(side, q)) \in Nat /\ Abs(p + Signed(side, n)) \in Nat
<1>1. CASE side = "BUY"
    BY <1>1 DEF Signed, Abs
<1>2. CASE side = "SELL"
    BY <1>2 DEF Signed, Abs
<1> QED BY <1>1, <1>2 DEF Sides

LEMMA LessWithinPositionCap ==
    ASSUME NEW h, NEW t, NEW c, StateOK(h, t, c), NEW o \in Order,
           NEW q \in Nat, q <= o.qty, h[o.symbol] * Signed(o.side, 1) >= 0,
           PositionGate(o, h, t) = "ok"
    PROVE  PositionGate(OfQuantity(o, q), h, t) = "ok"
<1> DEFINE p == ExposurePrice(o, t)
           r == OfQuantity(o, q)
           less == Abs(h[o.symbol] + Signed(o.side, q))
           more == Abs(h[o.symbol] + Signed(o.side, o.qty))
<1>1. p \in Nat
    BY Prices
<1>2. h[o.symbol] \in Int /\ o.side \in Sides /\ o.qty \in Nat
    BY DEF StateOK, Order
<1>3. less <= more /\ less \in Nat /\ more \in Nat
    BY <1>2, LessExposed
<1>4. /\ ExposurePrice(r, t) = p
      /\ Abs(h[r.symbol] + Signed(r.side, r.qty)) = less
      /\ r.spot = o.spot
    BY OnlyTheQuantity DEF ExposurePrice
<1>5. Cash # 0 /\ (o.spot \/ (p # 0 /\ 100 * more * p <= PositionPct * Cash))
    BY DEF PositionGate
<1> HIDE DEF p, r, less, more
<1>6. 100 * less * p <= 100 * more * p
    <2>1. 100 * less \in Nat /\ 100 * more \in Nat /\ 100 * less <= 100 * more
        BY <1>3
    <2> QED BY <1>1, <2>1, ProductGrows
<1>7. 100 * less * p \in Int /\ 100 * more * p \in Int /\ PositionPct * Cash \in Int
    BY <1>1, <1>3, GateParameters DEF PositionPct
<1>8. o.spot \/ (p # 0 /\ 100 * less * p <= PositionPct * Cash)
    BY <1>5, <1>6, <1>7
<1>9. PositionGate(r, h, t) = "ok"
    BY <1>4, <1>5, <1>8 DEF PositionGate
<1> QED BY <1>9 DEF r

LEMMA LessWithinLots ==
    ASSUME NEW o \in Order, NEW q \in Nat, q <= o.qty,
           q % LotSize[o.underlying] = 0, LotGate(o) = "ok"
    PROVE  LotGate(OfQuantity(o, q)) = "ok"
<1> DEFINE r == OfQuantity(o, q)
           lot == LotSize[o.underlying]
<1>1. lot \in Nat \ {0} /\ o.qty \in Nat /\ MaxLots \in Nat
    BY GateParameters DEF Order
<1>2. r.qty = q /\ r.underlying = o.underlying
    BY OnlyTheQuantity
<1>3. ~(o.qty \div lot > MaxLots)
    BY DEF LotGate
<1> HIDE DEF r, lot
<1>4. q \div lot <= o.qty \div lot /\ q \div lot \in Int /\ o.qty \div lot \in Int
    BY <1>1, QuotientGrows
<1>5. ~(q \div lot > MaxLots)
    BY <1>1, <1>3, <1>4
<1>6. LotGate(r) = "ok"
    BY <1>2, <1>5 DEF LotGate, lot
<1> QED BY <1>6 DEF r

\* A smaller whole number of lots, added to a position, passes every gate.
LEMMA LessPasses ==
    ASSUME NEW h, NEW t, NEW c, StateOK(h, t, c), NEW o \in Order,
           h[o.symbol] * Signed(o.side, 1) >= 0,
           CheckOrder(o, h, t, c) = "ok",
           NEW q \in 1..o.qty - 1, q % LotSize[o.underlying] = 0
    PROVE  CheckOrder(OfQuantity(o, q), h, t, c) = "ok"
<1> DEFINE r == OfQuantity(o, q)
<1>1. o.qty \in Nat /\ q \in Nat /\ q <= o.qty /\ q > 0
    BY DEF Order
<1>2. /\ StructureGate(o) = "ok" /\ PerTradeGate(o, t, c) = "ok"
      /\ PositionGate(o, h, t) = "ok" /\ LotGate(o) = "ok"
      /\ LimitGate(o, t, c) = "ok" /\ ConsistencyGate(<< >>) = "ok"
    BY LegAccepted DEF CheckOrder
<1>3. StructureGate(r) = "ok"
    BY <1>1, <1>2, OnlyTheQuantity DEF StructureGate
<1>4. PerTradeGate(r, t, c) = "ok"
    BY <1>1, <1>2, LessWithinTradeCap
<1>5. PositionGate(r, h, t) = "ok"
    BY <1>1, <1>2, LessWithinPositionCap
<1>6. LotGate(r) = "ok"
    BY <1>1, <1>2, LessWithinLots
<1>7. LimitGate(r, t, c) = "ok"
    <2>1. LimitQuote(r, t, c) = LimitQuote(o, t, c)
        BY <1>1, OnlyTheQuantity DEF LimitQuote
    <2>2. r.side = o.side /\ r.type = o.type /\ r.price = o.price
        BY <1>1, OnlyTheQuantity
    <2> HIDE DEF r
    <2> QED BY <1>2, <2>1, <2>2 DEF LimitGate
<1> HIDE DEF r
<1>8. CheckOrder(r, h, t, c) = "ok"
    BY <1>2, <1>3, <1>4, <1>5, <1>6, <1>7, LegAccepted DEF CheckOrder
<1> QED BY <1>8 DEF r

-----------------------------------------------------------------------------
(* The theorems.                                                           *)

\* A request is one order or a plan, and the answer is the verdict on it.
RequestInv ==
    /\ StateOK(held, ticks, chain)
    /\ legs \in Seq(Order)
    /\ via = "order" => /\ Len(legs) = 1
                        /\ gate \in {"unasked", CheckOrder(legs[1], held, ticks, chain)}
    /\ via = "plan" => gate \in {"unasked", CheckPlan(legs, held, ticks, chain)}

LEMMA RequestsOK == Spec => []RequestInv
<1>1. ASSUME Init PROVE RequestInv
    <2>1. StateOK(held, ticks, chain)
        BY <1>1, RequestParameters DEF Init, StateOK
    <2>2. CASE via = "order" /\ legs \in {<< o >> : o \in OrderRequests}
        <3>1. PICK o \in OrderRequests : legs = << o >>
            BY <2>2
        <3>2. o \in Order
            BY RequestParameters
        <3>3. legs \in Seq(Order) /\ Len(legs) = 1
            BY <3>1, <3>2
        <3> QED BY <1>1, <2>1, <2>2, <3>3 DEF RequestInv, Init
    <2>3. CASE via = "plan" /\ legs \in PlanRequests
        BY <1>1, <2>1, <2>3, RequestParameters DEF RequestInv, Init
    <2> QED BY <1>1, <2>2, <2>3 DEF Init
<1>2. ASSUME RequestInv, [Next]_vars PROVE RequestInv'
    <2>1. CASE JudgeOrder
        BY <1>2, <2>1 DEF RequestInv, JudgeOrder
    <2>2. CASE JudgePlan
        BY <1>2, <2>2 DEF RequestInv, JudgePlan
    <2>3. CASE UNCHANGED vars
        BY <1>2, <2>3 DEF RequestInv, vars
    <2> QED BY <1>2, <2>1, <2>2, <2>3 DEF Next
<1> QED BY <1>1, <1>2, PTL DEF Spec

\* What the one leg in a symbol leaves of it.
LEMMA HeldAfterOneLeg ==
    ASSUME legs \in Seq(Order), held \in [Symbols -> Int],
           NEW i \in 1..Len(legs),
           \A j \in 1..Len(legs) : legs[j].symbol = legs[i].symbol => j = i
    PROVE  HeldAfter(legs[i].symbol)
               = held[legs[i].symbol] + Signed(legs[i].side, legs[i].qty)
<1> DEFINE s == legs[i].symbol
           N == Len(legs)
           step(n) == IF legs[n].symbol = s THEN Signed(legs[n].side, legs[n].qty) ELSE 0
           g == CHOOSE sum : sum = [n \in 0..Len(legs) |->
                    IF n = 0 THEN held[s] ELSE sum[n-1] + step(n)]
           d == [n \in 1..Len(legs) |-> step(n)]
<1>1. N \in Nat
    OBVIOUS
<1>2. PICK f : RunningSum(f, held[s], d, N)
    BY <1>1, RunningSumExists
<1>3. \A n \in 0..Len(legs) : n # 0 => d[n] = step(n)
    OBVIOUS
<1>4. f = [n \in 0..Len(legs) |-> IF n = 0 THEN held[s] ELSE f[n-1] + step(n)]
    <2> HIDE DEF d, step
    <2> QED BY <1>2, <1>3 DEF RunningSum
<1>5. g = [n \in 0..Len(legs) |-> IF n = 0 THEN held[s] ELSE g[n-1] + step(n)]
    <2> HIDE DEF step
    <2> QED BY <1>4
<1>6. HeldAfter(s) = g[N]
    BY DEF HeldAfter
<1>7. \A n \in 1..N : step(n) = IF n = i THEN Signed(legs[i].side, legs[i].qty) ELSE 0
    OBVIOUS
<1>8. held[s] \in Int /\ Signed(legs[i].side, legs[i].qty) \in Int
    <2>1. legs[i] \in Order
        OBVIOUS
    <2>2. legs[i].symbol \in Symbols /\ legs[i].qty \in Nat
        BY <2>1 DEF Order
    <2> QED BY <2>2 DEF Signed
<1> HIDE DEF g, step, N
<1>9. g[0] = held[s] /\ \A n \in 1..N : g[n] = g[n-1] + step(n)
    BY <1>1, <1>5 DEF N
<1> DEFINE Known == {n \in 0..N : g[n] = held[s]
                        + IF n < i THEN 0 ELSE Signed(legs[i].side, legs[i].qty)}
<1>10. 0 \in Known
    BY <1>1, <1>8, <1>9
<1>11. ASSUME NEW n \in 0..N, n \in Known, n # N
       PROVE  n + 1 \in Known
    <2>1. n + 1 \in 1..N /\ g[n + 1] = g[n] + step(n + 1)
        <3>1. n + 1 \in 1..N /\ n + 1 - 1 = n
            BY <1>1, <1>11
        <3> QED BY <1>9, <3>1
    <2>2. CASE n + 1 = i
        BY <1>7, <1>8, <1>11, <2>1, <2>2
    <2>3. CASE n + 1 # i
        BY <1>7, <1>8, <1>11, <2>1, <2>3
    <2> QED BY <2>2, <2>3
<1> HIDE DEF Known
<1>12. \A n \in 0..N : n \in Known
    BY <1>1, <1>10, <1>11, UpTo
<1> QED BY <1>1, <1>6, <1>8, <1>12 DEF Known, N

\* Every order the gates accept leaves a position within the cap
\* (FilledOrderWithinCap), for any cash, lots, prices and positions.
THEOREM PositionCapHolds == Spec => []FilledOrderWithinCap
<1>1. ASSUME RequestInv PROVE FilledOrderWithinCap
    <2> SUFFICES ASSUME via = "order", gate = "ok", ~legs[1].spot
                 PROVE  WithinPositionCap(legs[1])
        BY DEF FilledOrderWithinCap, Accepted
    <2>1. Len(legs) = 1 /\ CheckOrder(legs[1], held, ticks, chain) = "ok"
        BY <1>1 DEF RequestInv
    <2>2. PositionGate(legs[1], held, ticks) = "ok"
        BY <2>1, LegAccepted DEF CheckOrder
    <2>3. 100 * Abs(held[legs[1].symbol] + Signed(legs[1].side, legs[1].qty))
              * ExposurePrice(legs[1], ticks) <= PositionPct * Cash
        BY <2>2 DEF PositionGate
    <2>4. legs \in Seq(Order) /\ held \in [Symbols -> Int]
        BY <1>1 DEF RequestInv, StateOK
    <2>5. \A j \in 1..Len(legs) : legs[j].symbol = legs[1].symbol => j = 1
        BY <2>1
    <2>6. HeldAfter(legs[1].symbol)
              = held[legs[1].symbol] + Signed(legs[1].side, legs[1].qty)
        BY <2>1, <2>4, <2>5, HeldAfterOneLeg
    <2> QED BY <2>3, <2>6 DEF WithinPositionCap
<1> QED BY <1>1, RequestsOK, PTL

\* No smaller whole number of lots is refused where a larger one, added to the
\* position, is accepted (LessIsAccepted).
THEOREM GatesAreMonotone == Spec => []LessIsAccepted
<1>1. ASSUME RequestInv PROVE LessIsAccepted
    <2> SUFFICES ASSUME via = "order", gate = "ok",
                        held[legs[1].symbol] * Signed(legs[1].side, 1) >= 0,
                        NEW q \in 1..legs[1].qty - 1,
                        q % LotSize[legs[1].underlying] = 0
                 PROVE  CheckOrder([legs[1] EXCEPT !.qty = q], held, ticks, chain) = "ok"
        BY DEF LessIsAccepted, Accepted
    <2>1. Len(legs) = 1 /\ CheckOrder(legs[1], held, ticks, chain) = "ok"
        BY <1>1 DEF RequestInv
    <2>2. legs[1] \in Order /\ StateOK(held, ticks, chain)
        BY <1>1, <2>1 DEF RequestInv
    <2>3. CheckOrder(OfQuantity(legs[1], q), held, ticks, chain) = "ok"
        BY <2>1, <2>2, LessPasses
    <2> QED BY <2>3 DEF OfQuantity
<1> QED BY <1>1, RequestsOK, PTL

\* An accepted plan without two legs in one symbol leaves every symbol within
\* the cap (FilledPlanWithinCap).
THEOREM PlanCapHolds == Spec => []FilledPlanWithinCap
<1>1. ASSUME RequestInv PROVE FilledPlanWithinCap
    <2> SUFFICES ASSUME via = "plan", gate = "ok",
                        \A i, j \in DOMAIN legs :
                            legs[i].symbol = legs[j].symbol => i = j,
                        NEW i \in DOMAIN legs, ~legs[i].spot
                 PROVE  WithinPositionCap(legs[i])
        BY DEF FilledPlanWithinCap, Accepted
    <2>1. /\ legs \in Seq(Order) /\ held \in [Symbols -> Int]
          /\ CheckPlan(legs, held, ticks, chain) = "ok"
        BY <1>1 DEF RequestInv, StateOK
    <2>2. legs # << >> /\ i \in 1..Len(legs)
        BY <2>1
    <2>3. CheckLeg(legs[i], legs, held, ticks, chain) = "ok"
        BY <2>1, <2>2, PlanAccepted
    <2>4. PositionGate(legs[i], held, ticks) = "ok"
        BY <2>3, LegAccepted
    <2>5. 100 * Abs(held[legs[i].symbol] + Signed(legs[i].side, legs[i].qty))
              * ExposurePrice(legs[i], ticks) <= PositionPct * Cash
        BY <2>4 DEF PositionGate
    <2>6. HeldAfter(legs[i].symbol)
              = held[legs[i].symbol] + Signed(legs[i].side, legs[i].qty)
        BY <2>1, <2>2, HeldAfterOneLeg
    <2> QED BY <2>5, <2>6 DEF WithinPositionCap
<1> QED BY <1>1, RequestsOK, PTL
=============================================================================
