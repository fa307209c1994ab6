----------------------------- MODULE MCPodPower -----------------------------
(* The three kinds of switched rail of the boards, on a budget that the fan  *)
(* and the heater do not fit in together.                                    *)
EXTENDS PodPower

MCDomain    == {"soil", "fan", "mox"}
MCPolicy    == [soil |-> "per-read", fan |-> "periodic", mox |-> "armed"]
MCCurrentMa == [soil |-> 1, fan |-> 3, mox |-> 2]
MCSettleMs  == [soil |-> 1, fan |-> 1, mox |-> 2]
MCOnMs      == [soil |-> 2, fan |-> 2, mox |-> 0]
MCPeriodMs  == [soil |-> 0, fan |-> 3, mox |-> 0]
=============================================================================
