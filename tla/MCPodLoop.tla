----------------------------- MODULE MCPodLoop ------------------------------
(* A ground pod: a soil probe on the per-read rail, the particulate sensor   *)
(* on the fan rail, the gas sensor on the heater rail and the passive rain   *)
(* gauge.  The fan and the heater do not fit in the budget together.         *)
EXTENDS PodLoop

MCDomain      == {"soil", "fan", "mox"}
MCDomainOrder == <<"soil", "fan", "mox">>
MCPolicy      == [soil |-> "per-read", fan |-> "periodic", mox |-> "armed"]
MCCurrentMa   == [soil |-> 1, fan |-> 3, mox |-> 2]
MCSettleMs    == [soil |-> 1, fan |-> 1, mox |-> 0]
MCOnMs        == [soil |-> 2, fan |-> 2, mox |-> 0]
MCPeriodMs    == [soil |-> 0, fan |-> 4, mox |-> 0]
MCReadMs      == [probe |-> 1, gas |-> 0, pm |-> 0, rain |-> 0]
MCWindowMs    == [soil |-> 0, fan |-> 1, mox |-> 0]
MCXdcrOrder   == <<"probe", "gas", "pm", "rain">>
MCRailOf      == [probe |-> "soil", gas |-> "mox", pm |-> "fan", rain |-> "none"]
MCRawXdcr     == {"probe", "gas", "rain"}
MCMayFail     == {"probe"}
MCCalibrated  == {"probe"}
=============================================================================
