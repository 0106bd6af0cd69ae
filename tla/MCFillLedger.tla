---------------------------- MODULE MCFillLedger ----------------------------
(***************************************************************************)
(* Instances of FillLedger: orders of the plan and orders placed by hand,  *)
(* the watcher, and an executor that runs beside it.                       *)
(***************************************************************************)
EXTENDS FillLedger

CONSTANTS plan, buy, sell, watcher, executorRun

None == {}
PlanOnly  == {plan}
Mixed     == {plan, buy, sell}
ByHand    == {buy, sell}
BuyOnly   == {buy}
SellOnly  == {sell}
Alone     == {watcher}
Both      == {watcher, executorRun}
TwoOrOne  == [o \in Orders |-> IF o = sell THEN 1 ELSE 2]
TwoEach   == [o \in Orders |-> 2]
=============================================================================
