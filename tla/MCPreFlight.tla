---------------------------- MODULE MCPreFlight ----------------------------
(***************************************************************************)
(* Bounded instance of PreFlightRequests: lots of two units and a cash of  *)
(* 200, so that the per-trade cap is 10 and the position cap 60, with      *)
(* prices on both sides of every threshold.                                *)
(***************************************************************************)
EXTENDS PreFlightRequests

CE == "CE"
PE == "PE"
MCSymbols == {CE, PE}
MCUnderlyings == {"NIFTY", "BANKNIFTY"}
MCLotSize == [u \in MCUnderlyings |-> 2]

MCOrders ==
    [symbol : {CE}, underlying : {"NIFTY"}, side : Sides, qty : {2, 3, 4, 6, 8},
     type : {"MARKET", "LIMIT", "ICEBERG"}, price : {0, 2, 5, 15},
     spot : BOOLEAN]

MCLegs ==
    [symbol : MCSymbols, underlying : MCUnderlyings, side : Sides, qty : {2, 4},
     type : {"MARKET"}, price : {2, 15}, spot : {FALSE}]

\* a cash-segment leg is exempt from the caps of a leg, not from the net outlay
SpotLegs ==
    [symbol : {CE}, underlying : {"NIFTY"}, side : Sides, qty : {4, 6},
     type : {"MARKET"}, price : {15}, spot : {TRUE}]

MCPlans ==
    (MCLegs \X MCLegs) \cup (SpotLegs \X SpotLegs) \cup (SpotLegs \X MCLegs) \cup {<< >>}

MCHeld == [MCSymbols -> {-4, 0, 2}]

NoQuote == [bid |-> 0, ask |-> 0, ltp |-> 0]
MCTicks ==
    { << >>,
      [s \in {CE} |-> [bid |-> 4, ask |-> 6, ltp |-> 5]],
      [s \in {CE} |-> [bid |-> 0, ask |-> 3, ltp |-> 0]] }

MCChain ==
    { [s \in MCSymbols |-> NoQuote],
      [s \in MCSymbols |-> [bid |-> 4, ask |-> 0, ltp |-> 4]] }
=============================================================================
