--------------------------- MODULE HeadBusProofs ----------------------------
(***************************************************************************)
(* Proofs about the bus master in the supervisory loop, for any pods, poll *)
(* lists, timeouts and cadences.                                           *)
(***************************************************************************)
EXTENDS HeadBus, NaturalLemmas, FiniteSetTheorems

\* The steps, told apart.
LEMMA Steps ==
    ASSUME [Next]_vars
    PROVE  \/ UNCHANGED vars
           \/ RxReport \/ RxIgnored \/ TickMissing \/ TickPolls \/ TickSweepDone \/ TickNothing
           \/ StartSweep \/ StartWithoutPods \/ NoSweepDue \/ FeedAndSleep
           \/ (\E dt \in 1 .. PassMax : Wake(dt)) \/ WatchdogReset
           \/ (\E l \in PollLists : SetPods(l)) \/ (\E c \in Cadences : SetCadence(c))
           \/ (\E on \in ArmCommands : SetArmedSent(on) \/ SetArmedBusy(on) \/ SetArmedFaults(on))
           \/ \E p \in Addr : PodServes(p) \/ PodBabbles(p)
  BY BusAssumption DEF Next, Loop, Command

-----------------------------------------------------------------------------
(* The caps of the clocks *)

LEMMA Numbers ==
    /\ MaxPods \in Nat /\ ReplyTimeout \in Nat \ {0} /\ Turnaround \in Nat /\ PassMax \in Nat \ {0}
    /\ WdtTimeout \in Nat /\ RxMax \in Nat \ {0} /\ BusRing \in Nat /\ DefaultCadence \in Nat \ {0} /\ Deadline \in Nat
    /\ \A c \in Cadences : c \in Nat
  BY BusAssumption DEF Deadline

\* The longest a wait of t takes, until the loop notices that it is over, and the waits
\* for one pod.
WaitBound(t) == t + LoopDelay(t)
PodTime == WaitBound(ReplyTimeout) + WaitBound(Turnaround)

LEMMA WaitBoundType == WaitBound(ReplyTimeout) \in Nat /\ WaitBound(Turnaround) \in Nat
  BY Numbers DEF WaitBound, LoopDelay

\* The bound on a sweep is the sum of its waits.
LEMMA SweepBoundIs == \A n \in Nat : SweepBound(n) = n * PodTime
<1> TAKE n \in Nat
<1> DEFINE A == ReplyTimeout
           B == Turnaround
           C == LoopDelay(ReplyTimeout)
           D == LoopDelay(Turnaround)
<1>1. A \in Nat /\ B \in Nat /\ C \in Nat /\ D \in Nat
  BY Numbers DEF LoopDelay
<1>2. SweepBound(n) = n * (A + B) + n * (C + D) /\ PodTime = (A + C) + (B + D)
  BY DEF SweepBound, bus_sweep_worst_case_ms, PodTime, WaitBound
<1> HIDE DEF A, B, C, D
<1>3. n * (A + B) + n * (C + D) = n * ((A + C) + (B + D))
  BY <1>1
<1> QED
  BY <1>2, <1>3

LEMMA SweepBoundType == \A n \in Nat : SweepBound(n) \in Nat
<1> TAKE n \in Nat
<1>1. PodTime \in Nat
  BY WaitBoundType DEF PodTime
<1>2. \A k \in Nat : n * k \in Nat
  OBVIOUS
<1> QED
  BY <1>1, <1>2, SweepBoundIs

LEMMA CapTypes ==
    /\ StateCap \in Nat /\ ReplyTimeout <= StateCap /\ Turnaround <= StateCap
    /\ SweepCap \in Nat /\ SweepBound(MaxPods) < SweepCap
    /\ \A c \in Cadences \union {DefaultCadence} : c <= SweepCap
<1>1. StateCap \in Nat /\ ReplyTimeout <= StateCap /\ Turnaround <= StateCap
  BY Numbers, MaxOfTwo DEF StateCap
<1> DEFINE S == Cadences \union {DefaultCadence, SweepBound(MaxPods) + 1}
<1>2. SweepBound(MaxPods) \in Nat
  BY Numbers, SweepBoundType
<1>3. S \in SUBSET Nat /\ S # {}
  BY <1>2, Numbers
<1>4. IsFiniteSet(S)
  <2>1. IsFiniteSet(Cadences)
    BY BusAssumption
  <2>2. IsFiniteSet(Cadences \union {DefaultCadence})
    BY <2>1, FS_AddElement
  <2>3. IsFiniteSet((Cadences \union {DefaultCadence}) \union {SweepBound(MaxPods) + 1})
    BY <2>2, FS_AddElement
  <2>4. S = (Cadences \union {DefaultCadence}) \union {SweepBound(MaxPods) + 1}
    OBVIOUS
  <2> QED
    BY <2>3, <2>4
<1>5. SweepCap = Max(S)
  BY DEF SweepCap
<1> HIDE DEF S
<1>6. SweepCap \in S /\ \A x \in S : x <= SweepCap
  BY <1>3, <1>4, <1>5, MaxOfFinite
<1>7. SweepCap \in Nat /\ SweepBound(MaxPods) + 1 <= SweepCap
  BY <1>3, <1>6 DEF S
<1> QED
  BY <1>1, <1>2, <1>6, <1>7 DEF S

\* A clock that is not counted past its cap.
LEMMA LaterIs ==
    ASSUME NEW since \in Nat, NEW dt \in Nat, NEW cap \in Nat
    PROVE  Later(since, dt, cap) = IF since + dt <= cap THEN since + dt ELSE cap
  BY MinOfTwo DEF Later

LEMMA LaterType ==
    ASSUME NEW cap \in Nat, NEW since \in 0 .. cap, NEW dt \in Nat
    PROVE  Later(since, dt, cap) \in 0 .. cap
<1>1. since \in Nat
  OBVIOUS
<1> QED
  BY <1>1, LaterIs

-----------------------------------------------------------------------------
(* Types *)

\* A transmitted frame reaches a pod's ring only where there is room.
RingsOK == pod_rx \in [Addr -> Seq(Frame)] /\ \A p \in Addr : Len(pod_rx[p]) <= RxMax

LEMMA TransmitTypes ==
    ASSUME RingsOK, NEW frame \in Frame, NEW to, Transmit(frame, to)
    PROVE  RingsOK'
<1>1. PICK heard \in SUBSET (to \intersect Addr) :
          pod_rx' = [p \in Addr |-> IF p \in heard /\ Len(pod_rx[p]) < RxMax
                                    THEN Append(pod_rx[p], frame) ELSE pod_rx[p]]
  BY DEF Transmit
<1>2. ASSUME NEW p \in Addr
      PROVE  pod_rx'[p] \in Seq(Frame) /\ Len(pod_rx'[p]) <= RxMax
  <2>1. pod_rx[p] \in Seq(Frame) /\ Len(pod_rx[p]) \in Nat /\ Len(pod_rx[p]) <= RxMax
    BY DEF RingsOK
  <2>2. CASE p \in heard /\ Len(pod_rx[p]) < RxMax
    <3>1. pod_rx'[p] = Append(pod_rx[p], frame)
      BY <1>1, <2>2
    <3>2. pod_rx'[p] \in Seq(Frame) /\ Len(pod_rx'[p]) = Len(pod_rx[p]) + 1
      BY <2>1, <3>1
    <3> QED
      BY <2>1, <2>2, <3>2, Numbers
  <2>3. CASE ~(p \in heard /\ Len(pod_rx[p]) < RxMax)
    BY <1>1, <2>1, <2>3
  <2> QED
    BY <2>2, <2>3
<1>3. pod_rx' = [p \in Addr |-> pod_rx'[p]]
  BY <1>1
<1> QED
  BY <1>2, <1>3 DEF RingsOK

\* The bus master's own state.
MasterOK ==
    /\ poll_list \in Seq(ValidAddr) /\ n_pods <= MaxPods
    /\ usable \in BOOLEAN
    /\ bstate \in {"IDLE", "WAIT_REPLY", "TURNAROUND"}
    /\ idx \in 1 .. MaxPods + 1
    /\ bstate = "WAIT_REPLY" => idx \in 1 .. n_pods
    /\ bstate = "TURNAROUND" => idx \in 2 .. n_pods + 1
    /\ pc = "halted" => bstate = "IDLE"

LEMMA MasterStep == MasterOK /\ [Next]_vars => MasterOK'
<1> SUFFICES ASSUME MasterOK, [Next]_vars
             PROVE  MasterOK'
  OBVIOUS
<1> USE Numbers DEF MasterOK, n_pods
<1>1. CASE UNCHANGED vars
  BY <1>1 DEF vars, master_vars
<1>2. CASE RxReport
  BY <1>2 DEF RxReport, advance
<1>3. CASE TickMissing
  BY <1>3 DEF TickMissing, advance
<1>4. CASE TickPolls
  BY <1>4 DEF TickPolls, poll_pod
<1>5. CASE TickSweepDone
  BY <1>5 DEF TickSweepDone
<1>6. CASE StartSweep
  BY <1>6 DEF StartSweep, poll_pod
<1>7. CASE WatchdogReset
  BY <1>7, BusAssumption DEF WatchdogReset, Reset
<1>8. ASSUME NEW l \in PollLists, SetPods(l)
      PROVE  MasterOK'
  <2>1. CASE Range(l) \subseteq ValidAddr
    <3>1. l \in Seq(Int) /\ Len(l) \in Nat /\ Len(l) <= MaxPods
      BY BusAssumption
    <3>2. \A i \in 1 .. Len(l) : l[i] \in ValidAddr
      BY <2>1, <3>1 DEF Range
    <3>3. l \in Seq(ValidAddr)
      BY <3>1, <3>2
    <3>4. poll_list' = l /\ usable' = TRUE /\ idx' = 1 /\ bstate' = "IDLE"
      BY <1>8, <2>1 DEF SetPods
    <3> QED
      BY <3>1, <3>3, <3>4
  <2>2. CASE ~(Range(l) \subseteq ValidAddr)
    <3>1. poll_list' = <<>> /\ usable' = FALSE /\ idx' = 1 /\ bstate' = "IDLE"
      BY <1>8, <2>2 DEF SetPods
    <3>2. poll_list' \in Seq(ValidAddr) /\ Len(poll_list') <= MaxPods /\ idx' \in 1 .. MaxPods + 1
      BY <3>1
    <3>3. usable' \in BOOLEAN /\ bstate' = "IDLE"
      BY <3>1
    <3> QED
      BY <3>2, <3>3, Zenon
  <2> QED
    BY <2>1, <2>2
<1>9. CASE \/ RxIgnored \/ TickNothing \/ StartWithoutPods \/ NoSweepDue \/ FeedAndSleep
           \/ (\E dt \in 1 .. PassMax : Wake(dt)) \/ (\E c \in Cadences : SetCadence(c))
           \/ (\E on \in ArmCommands : SetArmedSent(on) \/ SetArmedBusy(on) \/ SetArmedFaults(on))
           \/ \E p \in Addr : PodServes(p) \/ PodBabbles(p)
  <2>1. /\ UNCHANGED <<poll_list, usable, bstate, idx>>
        /\ pc' = "halted" => bstate = "IDLE"
    BY <1>9
    DEF RxIgnored, TickNothing, StartWithoutPods, NoSweepDue, FeedAndSleep, Wake, SetCadence,
        SetArmedSent, SetArmedBusy, SetArmedFaults, PodServes, PodBabbles, master_vars
  <2> QED
    BY <2>1
<1> QED
  BY Steps, <1>1, <1>2, <1>3, <1>4, <1>5, <1>6, <1>7, <1>8, <1>9

\* The clocks.
ClocksOK ==
    /\ cadence \in Cadences \union {DefaultCadence}
    /\ since_state \in 0 .. StateCap
    /\ since_sweep \in 0 .. SweepCap
    /\ since_checkin \in 0 .. Deadline + 1
    /\ since_fed \in 0 .. WdtTimeout

LEMMA ClocksStep == ClocksOK /\ [Next]_vars => ClocksOK'
<1> SUFFICES ASSUME ClocksOK, [Next]_vars
             PROVE  ClocksOK'
  OBVIOUS
<1> USE Numbers, CapTypes DEF ClocksOK
<1>1. CASE UNCHANGED vars
  BY <1>1 DEF vars, master_vars, time_vars
<1>2. CASE RxReport \/ TickMissing \/ TickPolls
  <2>1. since_state' = 0 /\ UNCHANGED <<cadence, since_sweep, since_checkin, since_fed>>
    BY <1>2, Zenon DEF RxReport, TickMissing, TickPolls, advance, poll_pod, time_vars
  <2> QED
    BY <2>1
<1>3. CASE TickSweepDone \/ StartSweep \/ StartWithoutPods \/ FeedAndSleep
  <2>1. /\ since_state' \in {0, since_state} /\ since_sweep' \in {0, since_sweep}
        /\ since_checkin' \in {0, since_checkin} /\ since_fed' \in {0, since_fed} /\ cadence' = cadence
    BY <1>3 DEF TickSweepDone, StartSweep, StartWithoutPods, FeedAndSleep, poll_pod, master_vars
  <2> QED
    BY <2>1
<1>4. ASSUME NEW dt \in 1 .. PassMax, Wake(dt)
      PROVE  ClocksOK'
  <2>1. /\ since_state' \in {0, Later(since_state, dt, StateCap)}
        /\ since_sweep' = Later(since_sweep, dt, SweepCap)
        /\ since_checkin' = Later(since_checkin, dt, Deadline + 1)
        /\ since_fed' = since_fed + dt /\ since_fed + dt <= WdtTimeout /\ cadence' = cadence
    BY <1>4 DEF Wake
  <2>2. /\ Later(since_state, dt, StateCap) \in 0 .. StateCap
        /\ Later(since_sweep, dt, SweepCap) \in 0 .. SweepCap
        /\ Later(since_checkin, dt, Deadline + 1) \in 0 .. Deadline + 1
    <3>1. dt \in Nat /\ Deadline + 1 \in Nat
      OBVIOUS
    <3> QED
      BY <3>1, LaterType
  <2> QED
    BY <2>1, <2>2
<1>5. CASE WatchdogReset
  <2>1. /\ cadence' = DefaultCadence /\ since_state' = 0 /\ since_sweep' = DefaultCadence
        /\ since_checkin' = 0 /\ since_fed' = 0
    BY <1>5, Zenon DEF WatchdogReset, Reset
  <2>2. DefaultCadence \in 0 .. SweepCap /\ 0 \in 0 .. StateCap /\ 0 \in 0 .. Deadline + 1 /\ 0 \in 0 .. WdtTimeout
    <3>1. DefaultCadence <= SweepCap /\ SweepCap \in Nat /\ StateCap \in Nat
      BY CapTypes
    <3>2. DefaultCadence \in Nat /\ Deadline \in Nat /\ WdtTimeout \in Nat
      BY Numbers
    <3> QED
      BY ONLY <3>1, <3>2
  <2> QED
    BY <2>1, <2>2, Zenon
<1>6. ASSUME NEW c \in Cadences, SetCadence(c)
      PROVE  ClocksOK'
  BY <1>6 DEF SetCadence, master_vars, time_vars
<1>7. CASE \/ RxIgnored \/ TickNothing \/ NoSweepDue \/ (\E l \in PollLists : SetPods(l))
           \/ (\E on \in ArmCommands : SetArmedSent(on) \/ SetArmedBusy(on) \/ SetArmedFaults(on))
           \/ \E p \in Addr : PodServes(p) \/ PodBabbles(p)
  <2>1. UNCHANGED <<cadence, since_state, since_sweep, since_checkin, since_fed>>
    BY <1>7, Zenon
    DEF RxIgnored, TickNothing, NoSweepDue, SetPods, SetArmedSent, SetArmedBusy, SetArmedFaults, PodServes, PodBabbles,
        master_vars, time_vars
  <2> QED
    BY <2>1
<1> QED
  BY Steps, <1>1, <1>2, <1>3, <1>4, <1>5, <1>6, <1>7

\* What is on the wire, and what became of the polls.
WireOK ==
    /\ RingsOK
    /\ inbox \in Seq(Addr) /\ Len(inbox) <= BusRing
    /\ pod_armed \in [Addr -> BOOLEAN]
    /\ wanted_armed \in BOOLEAN
    /\ present \in [Positions -> BOOLEAN]
    /\ outcome \in [Positions -> {"none", "report", "missing"}]
    /\ pc \in {"rx", "start", "bridge", "sleep", "halted"}
    /\ reset_cause \in {"power", "watchdog", "fault"}

\* A report stays in the bounds of the master's ring.
LEMMA ArrivesTypes ==
    ASSUME inbox \in Seq(Addr), Len(inbox) <= BusRing, NEW p \in Addr, Arrives(p)
    PROVE  inbox' \in Seq(Addr) /\ Len(inbox') <= BusRing
<1>1. CASE Len(inbox) < BusRing
  <2>1. inbox' = Append(inbox, p)
    BY <1>1 DEF Arrives
  <2>2. inbox' \in Seq(Addr) /\ Len(inbox') = Len(inbox) + 1 /\ Len(inbox) \in Nat
    BY <2>1
  <2> QED
    BY <1>1, <2>2, Numbers
<1>2. CASE ~(Len(inbox) < BusRing)
  BY <1>2 DEF Arrives
<1> QED
  BY <1>1, <1>2

LEMMA WireStep == WireOK /\ [Next]_vars => WireOK'
<1> SUFFICES ASSUME WireOK, [Next]_vars
             PROVE  WireOK'
  OBVIOUS
<1> USE DEF WireOK
<1>1. CASE UNCHANGED vars
  BY <1>1 DEF vars, master_vars, pod_vars, RingsOK
<1>2. CASE RxReport \/ RxIgnored \/ TickMissing
  <2>1. /\ inbox' \in {inbox, Tail(inbox)} /\ (inbox' = Tail(inbox) => inbox # <<>> \/ inbox' = inbox)
        /\ UNCHANGED <<pod_rx, pod_armed, wanted_armed, reset_cause>> /\ pc' \in {"rx", "start"}
    BY <1>2 DEF RxReport, RxIgnored, TickMissing, pod_vars
  <2>2. inbox' \in Seq(Addr) /\ Len(inbox') <= BusRing
    BY <2>1, Numbers
  <2>3. present' \in [Positions -> BOOLEAN] /\ outcome' \in [Positions -> {"none", "report", "missing"}]
    BY <1>2 DEF RxReport, RxIgnored, TickMissing, master_vars
  <2> QED
    BY <2>1, <2>2, <2>3 DEF RingsOK
<1>3. CASE TickPolls \/ StartSweep
  <2>1. /\ \E to : Transmit("POLL", to) 
        /\ UNCHANGED <<inbox, pod_armed, wanted_armed, present, outcome, reset_cause>> /\ pc' \in {"start", "bridge"}
    BY <1>3 DEF TickPolls, StartSweep, poll_pod
  <2>2. RingsOK'
    BY <2>1, TransmitTypes DEF Frame
  <2> QED
    BY <2>1, <2>2
<1>4. CASE TickSweepDone
  BY <1>4 DEF TickSweepDone, pod_vars, RingsOK
<1>5. CASE WatchdogReset
  <2>1. /\ pc' = "rx" /\ inbox' = <<>> /\ pod_rx' = [p \in Addr |-> <<>>] /\ pod_armed' = [p \in Addr |-> FALSE]
        /\ outcome' = [i \in Positions |-> "none"] /\ present' = [i \in Positions |-> FALSE]
        /\ reset_cause' \in {"fault", "watchdog"} /\ wanted_armed' = wanted_armed
    BY <1>5 DEF WatchdogReset, Reset
  <2>2. RingsOK'
    BY <2>1, Numbers DEF RingsOK
  <2>3. inbox' \in Seq(Addr) /\ Len(inbox') <= BusRing
    BY <2>1, Numbers
  <2> QED
    BY <2>1, <2>2, <2>3
<1>6. ASSUME NEW l \in PollLists, SetPods(l)
      PROVE  WireOK'
  BY <1>6 DEF SetPods, pod_vars, RingsOK
<1>7. ASSUME NEW on \in ArmCommands, SetArmedSent(on)
      PROVE  WireOK'
  <2>1. /\ Transmit(IF on THEN "ARM" ELSE "DISARM", Addr) /\ wanted_armed' = on
        /\ UNCHANGED <<inbox, pod_armed, present, outcome, reset_cause, pc>>
    BY <1>7 DEF SetArmedSent, master_vars
  <2>2. (IF on THEN "ARM" ELSE "DISARM") \in Frame /\ on \in BOOLEAN
    BY BusAssumption DEF Frame
  <2>3. RingsOK'
    BY <2>1, <2>2, TransmitTypes
  <2> QED
    BY <2>1, <2>2, <2>3
<1>8. ASSUME NEW on \in ArmCommands, SetArmedBusy(on) \/ SetArmedFaults(on)
      PROVE  WireOK'
  <2>1. /\ wanted_armed' = on /\ pc' \in {pc, "halted"}
        /\ UNCHANGED <<pod_rx, inbox, pod_armed, present, outcome, reset_cause>>
    BY <1>8 DEF SetArmedBusy, SetArmedFaults, master_vars, pod_vars
  <2>2. on \in BOOLEAN
    BY BusAssumption
  <2> QED
    BY <2>1, <2>2 DEF RingsOK
<1>11. ASSUME NEW p \in Addr, PodBabbles(p)
       PROVE  WireOK'
  <2>1. inbox' \in Seq(Addr) /\ Len(inbox') <= BusRing
    BY <1>11, ArrivesTypes DEF PodBabbles
  <2>2. UNCHANGED <<pod_rx, pod_armed, wanted_armed, present, outcome, pc, reset_cause>>
    BY <1>11 DEF PodBabbles, master_vars, pod_vars
  <2> QED
    BY <2>1, <2>2 DEF RingsOK
<1>9. ASSUME NEW p \in Addr, PodServes(p)
      PROVE  WireOK'
  <2>1. /\ pod_rx[p] # <<>> /\ pod_rx' = [pod_rx EXCEPT ![p] = Tail(@)]
        /\ UNCHANGED <<pc, present, wanted_armed, outcome, reset_cause>>
    BY <1>9 DEF PodServes, master_vars
  <2>2. inbox' = inbox \/ Arrives(p)
    BY <1>9 DEF PodServes
  <2>3. pod_armed' = pod_armed \/ pod_armed' = [pod_armed EXCEPT ![p] = Head(pod_rx[p]) = "ARM"]
    BY <1>9 DEF PodServes
  <2>4. inbox' \in Seq(Addr) /\ Len(inbox') <= BusRing /\ pod_armed' \in [Addr -> BOOLEAN]
    <3>1. inbox' \in Seq(Addr) /\ Len(inbox') <= BusRing
      BY <2>2, ArrivesTypes
    <3>2. (Head(pod_rx[p]) = "ARM") \in BOOLEAN
      OBVIOUS
    <3>3. pod_armed' \in [Addr -> BOOLEAN]
      BY <2>3, <3>2, Zenon
    <3> QED
      BY <3>1, <3>3
  <2>5. Tail(pod_rx[p]) \in Seq(Frame) /\ Len(Tail(pod_rx[p])) <= RxMax
    BY <2>1, Numbers DEF RingsOK
  <2>6. RingsOK'
    BY <2>1, <2>5 DEF RingsOK
  <2> QED
    BY <2>1, <2>4, <2>6
<1>10. CASE \/ TickNothing \/ StartWithoutPods \/ NoSweepDue \/ FeedAndSleep
            \/ (\E dt \in 1 .. PassMax : Wake(dt)) \/ \E c \in Cadences : SetCadence(c)
  <2>1. /\ pc' \in {"start", "bridge", "sleep", "rx"}
        /\ UNCHANGED <<pod_rx, inbox, pod_armed, wanted_armed, present, outcome, reset_cause>>
    BY <1>10, Zenon
    DEF TickNothing, StartWithoutPods, NoSweepDue, FeedAndSleep, Wake, SetCadence, master_vars, pod_vars
  <2> QED
    BY <2>1 DEF RingsOK
<1> QED
  BY Steps, <1>1, <1>2, <1>3, <1>4, <1>5, <1>6, <1>7, <1>8, <1>9, <1>10, <1>11

TypeInv == MasterOK /\ ClocksOK /\ WireOK

LEMMA TypeHolds == Spec => []TypeInv
<1>1. Init => TypeInv
  <2> SUFFICES ASSUME Init
               PROVE  TypeInv
    OBVIOUS
  <2>1. MasterOK
    BY Numbers, BusAssumption DEF Init, MasterOK, n_pods
  <2>2. ClocksOK
    <3>1. DefaultCadence \in 0 .. SweepCap /\ 0 \in 0 .. StateCap /\ 0 \in 0 .. Deadline + 1 /\ 0 \in 0 .. WdtTimeout
      BY Numbers, CapTypes
    <3> QED
      BY <3>1 DEF Init, ClocksOK
  <2>3. RingsOK
    BY Numbers DEF Init, RingsOK
  <2>4. WireOK
    <3>1. inbox \in Seq(Addr) /\ Len(inbox) <= BusRing
      BY Numbers DEF Init
    <3>2. /\ pod_armed \in [Addr -> BOOLEAN] /\ present \in [Positions -> BOOLEAN]
          /\ outcome \in [Positions -> {"none", "report", "missing"}]
      BY DEF Init
    <3>3. pc = "rx" /\ reset_cause = "power" /\ wanted_armed = FALSE
      BY DEF Init
    <3> QED
      BY <2>3, <3>1, <3>2, <3>3, Zenon DEF WireOK
  <2> QED
    BY <2>1, <2>2, <2>4 DEF TypeInv
<1>2. TypeInv /\ [Next]_vars => TypeInv'
  BY MasterStep, ClocksStep, WireStep DEF TypeInv
<1> QED
  BY <1>1, <1>2, PTL DEF Spec

\* Every variable stays in its type: the master waits only for a pod of its list, the
\* index never runs past the array, and a receive ring never overflows (bus_master.c,
\* rs485.c).
THEOREM BusTypes == Spec => []TypeOK
<1>1. TypeInv => TypeOK
  BY DEF TypeInv, MasterOK, ClocksOK, WireOK, RingsOK, TypeOK
<1> QED
  BY <1>1, TypeHolds, PTL

-----------------------------------------------------------------------------
(* The length of a sweep *)

\* The time the pods before the one being polled may have taken.
Spent(i) == (i - 1) * PodTime

LEMMA PodTimeType ==
    /\ PodTime \in Nat /\ PodTime = WaitBound(ReplyTimeout) + WaitBound(Turnaround)
    /\ WaitBound(ReplyTimeout) \in Nat /\ WaitBound(Turnaround) \in Nat
  BY WaitBoundType DEF PodTime

LEMMA SpentOne == Spent(1) = 0
  BY PodTimeType DEF Spent

LEMMA SpentNext ==
    ASSUME NEW i \in Nat \ {0}
    PROVE  Spent(i) \in Nat /\ Spent(i + 1) = Spent(i) + PodTime
<1> DEFINE K == PodTime
<1>1. K \in Nat
  BY PodTimeType
<1> HIDE DEF K
<1>2. (i - 1) * K \in Nat /\ ((i + 1) - 1) * K = (i - 1) * K + K
  BY <1>1
<1> QED
  BY <1>2 DEF K, Spent

LEMMA SweepBoundMonotone ==
    ASSUME NEW m \in Nat, NEW n \in Nat, m <= n
    PROVE  SweepBound(m) \in Nat /\ SweepBound(n) \in Nat /\ SweepBound(m) <= SweepBound(n)
<1> DEFINE K == PodTime
<1>1. K \in Nat
  BY PodTimeType
<1> HIDE DEF K
<1>2. n * K = m * K + (n - m) * K /\ m * K \in Nat /\ (n - m) * K \in Nat
  BY <1>1
<1>3. SweepBound(m) = m * K /\ SweepBound(n) = n * K
  BY SweepBoundIs DEF K
<1> QED
  BY <1>2, <1>3

\* The pods before i are among the n of the sweep.
LEMMA SpentWithin ==
    ASSUME NEW i \in Nat, NEW n \in Nat, 1 <= i, i <= n + 1
    PROVE  Spent(i) <= SweepBound(n)
<1>2. i - 1 \in Nat /\ i - 1 <= n
  OBVIOUS
<1>1. Spent(i) = SweepBound(i - 1)
  BY <1>2, SweepBoundIs DEF Spent
<1> QED
  BY <1>1, <1>2, SweepBoundMonotone

\* How far a sweep has come in its time.  Behind bus_tick no wait is over; before it a
\* wait may be over by the length of a pass.
SweepTime ==
    /\ bstate = "WAIT_REPLY" =>
          /\ since_sweep <= Spent(idx) + WaitBound(ReplyTimeout)
          /\ since_state < ReplyTimeout \/ since_state = 0 => since_sweep <= Spent(idx) + since_state
          /\ pc # "rx" => since_state < ReplyTimeout \/ since_state = 0
    /\ bstate = "TURNAROUND" =>
          /\ since_sweep <= Spent(idx)
          /\ since_state < Turnaround \/ since_state = 0
                => since_sweep <= Spent(idx - 1) + WaitBound(ReplyTimeout) + since_state
          /\ pc # "rx" => since_state < Turnaround \/ since_state = 0

\* A pass that finds a wait not over is followed by one at most PassMax later.
LEMMA SweepTimeWakes ==
    ASSUME TypeInv, SweepTime, NEW dt \in 1 .. PassMax, Wake(dt)
    PROVE  SweepTime'
<1>1. /\ pc = "sleep" /\ pc' = "rx" /\ UNCHANGED <<bstate, idx>>
      /\ bstate # "IDLE" => since_state' = Later(since_state, dt, StateCap)
      /\ since_sweep' = Later(since_sweep, dt, SweepCap)
  BY DEF Wake
<1>2. /\ dt \in Nat /\ dt >= 1 /\ dt <= PassMax /\ PassMax \in Nat
      /\ since_state \in Nat /\ since_sweep \in Nat /\ SweepCap \in Nat
      /\ StateCap \in Nat /\ StateCap >= 1 /\ ReplyTimeout <= StateCap /\ Turnaround <= StateCap
      /\ ReplyTimeout \in Nat /\ ReplyTimeout >= 1 /\ Turnaround \in Nat
  BY Numbers, CapTypes DEF TypeInv, ClocksOK
<1>3. since_sweep' \in Nat /\ since_sweep' <= since_sweep + dt
  BY <1>1, <1>2, LaterIs
<1>4. bstate # "IDLE" =>
          /\ since_state' \in Nat /\ since_state' # 0
          /\ since_state' < StateCap => since_state' = since_state + dt
  BY <1>1, <1>2, LaterIs
<1>5. /\ WaitBound(ReplyTimeout) = ReplyTimeout + PassMax - 1
      /\ WaitBound(Turnaround) >= Turnaround + PassMax - 1 /\ WaitBound(Turnaround) >= PassMax
      /\ WaitBound(ReplyTimeout) \in Nat /\ WaitBound(Turnaround) \in Nat
  BY <1>2, WaitBoundType DEF WaitBound, LoopDelay
<1>6. CASE bstate = "WAIT_REPLY"
  <2>1. since_state < ReplyTimeout /\ since_sweep <= Spent(idx) + since_state
    BY <1>1, <1>2, <1>6 DEF SweepTime
  <2>2. Spent(idx) \in Nat
    <3>1. idx \in Nat \ {0}
      BY Numbers DEF TypeInv, MasterOK
    <3> QED
      BY <3>1, SpentNext
  <2>3. since_sweep' <= Spent(idx) + WaitBound(ReplyTimeout)
    BY <1>2, <1>3, <1>5, <2>1, <2>2
  <2>4. since_state' < ReplyTimeout => since_sweep' <= Spent(idx) + since_state'
    BY <1>2, <1>3, <1>4, <1>6, <2>1, <2>2
  <2>5. since_state' # 0 /\ idx' = idx /\ bstate' = "WAIT_REPLY" /\ pc' = "rx"
    BY <1>1, <1>4, <1>6
  <2>6. Spent(idx)' = Spent(idx)
    BY <2>5 DEF Spent, PodTime
  <2> QED
    BY <2>3, <2>4, <2>5, <2>6 DEF SweepTime
<1>7. CASE bstate = "TURNAROUND"
  <2>1. /\ since_state < Turnaround \/ since_state = 0
        /\ since_sweep <= Spent(idx - 1) + WaitBound(ReplyTimeout) + since_state
    BY <1>1, <1>2, <1>7 DEF SweepTime
  <2>2. idx - 1 \in Nat \ {0} /\ (idx - 1) + 1 = idx
    BY <1>7, Numbers DEF TypeInv, MasterOK
  <2>3. /\ Spent(idx - 1) \in Nat /\ Spent(idx) \in Nat
        /\ Spent(idx) = Spent(idx - 1) + WaitBound(ReplyTimeout) + WaitBound(Turnaround)
    <3>1. Spent(idx - 1) \in Nat /\ Spent((idx - 1) + 1) = Spent(idx - 1) + PodTime
      BY <2>2, SpentNext
    <3> QED
      BY <2>2, <3>1, PodTimeType
  <2>4. since_sweep' <= Spent(idx)
    BY <1>2, <1>3, <1>5, <2>1, <2>3
  <2>5. since_state' < Turnaround => since_sweep' <= Spent(idx - 1) + WaitBound(ReplyTimeout) + since_state'
    BY <1>2, <1>3, <1>4, <1>5, <1>7, <2>1, <2>3
  <2>6. since_state' # 0 /\ idx' = idx /\ bstate' = "TURNAROUND" /\ pc' = "rx"
    BY <1>1, <1>4, <1>7
  <2>7. Spent(idx)' = Spent(idx) /\ Spent(idx - 1)' = Spent(idx - 1)
    BY <2>6 DEF Spent, PodTime
  <2> QED
    BY <2>4, <2>5, <2>6, <2>7 DEF SweepTime
<1>8. CASE bstate = "IDLE"
  BY <1>1, <1>8 DEF SweepTime
<1> QED
  BY <1>6, <1>7, <1>8 DEF TypeInv, MasterOK

LEMMA SweepTimeStep == TypeInv /\ SweepTime /\ [Next]_vars => SweepTime'
<1> SUFFICES ASSUME TypeInv, SweepTime, [Next]_vars
             PROVE  SweepTime'
  OBVIOUS
<1>0. /\ since_state \in Nat /\ since_sweep \in Nat /\ idx \in Nat \ {0} /\ Spent(idx) \in Nat
      /\ WaitBound(ReplyTimeout) \in Nat /\ WaitBound(Turnaround) \in Nat
      /\ Spent(idx + 1) = Spent(idx) + WaitBound(ReplyTimeout) + WaitBound(Turnaround)
      /\ ReplyTimeout \in Nat /\ Turnaround \in Nat
  <2>1. since_state \in Nat /\ since_sweep \in Nat /\ idx \in Nat \ {0}
    BY Numbers, CapTypes DEF TypeInv, ClocksOK, MasterOK
  <2>2. Spent(idx) \in Nat /\ Spent(idx + 1) = Spent(idx) + PodTime
    BY <2>1, SpentNext
  <2> QED
    BY <2>1, <2>2, PodTimeType, Numbers
<1>1. CASE RxReport \/ TickMissing
  <2>1. /\ bstate = "WAIT_REPLY" /\ bstate' = "TURNAROUND" /\ idx' = idx + 1
        /\ since_state' = 0 /\ since_sweep' = since_sweep
    BY <1>1, Zenon DEF RxReport, TickMissing, advance, time_vars
  <2>2. Spent(idx)' = Spent(idx + 1) /\ Spent(idx - 1)' = Spent(idx)
    BY <1>0, <2>1 DEF Spent, PodTime
  <2>3. since_sweep <= Spent(idx) + WaitBound(ReplyTimeout)
    BY <2>1 DEF SweepTime
  <2>4. since_sweep' <= Spent(idx)' /\ since_sweep' <= Spent(idx - 1)' + WaitBound(ReplyTimeout) + since_state'
    BY <1>0, <2>1, <2>2, <2>3
  <2> QED
    BY <2>1, <2>4 DEF SweepTime
<1>2. CASE TickPolls
  <2>1. /\ bstate = "TURNAROUND" /\ bstate' = "WAIT_REPLY" /\ idx' = idx
        /\ since_state' = 0 /\ since_sweep' = since_sweep
    BY <1>2, Zenon DEF TickPolls, poll_pod, time_vars
  <2>2. Spent(idx)' = Spent(idx)
    BY <2>1 DEF Spent, PodTime
  <2>3. since_sweep <= Spent(idx)
    BY <2>1 DEF SweepTime
  <2>4. since_sweep' <= Spent(idx)' + WaitBound(ReplyTimeout) /\ since_sweep' <= Spent(idx)' + since_state'
    BY <1>0, <2>1, <2>2, <2>3
  <2> QED
    BY <2>1, <2>4 DEF SweepTime
<1>3. CASE StartSweep
  <2>1. bstate' = "WAIT_REPLY" /\ idx' = 1 /\ since_state' = 0 /\ since_sweep' = 0
    BY <1>3, Zenon DEF StartSweep, poll_pod
  <2>2. Spent(idx)' = 0
    BY <2>1, SpentOne DEF Spent
  <2>3. since_sweep' <= Spent(idx)' + WaitBound(ReplyTimeout) /\ since_sweep' <= Spent(idx)' + since_state'
    BY <1>0, <2>1, <2>2
  <2> QED
    BY <2>1, <2>3 DEF SweepTime
<1>4. CASE TickSweepDone \/ WatchdogReset \/ \E l \in PollLists : SetPods(l)
  <2>1. bstate' = "IDLE"
    BY <1>4, Zenon DEF TickSweepDone, WatchdogReset, Reset, SetPods
  <2> QED
    BY <2>1 DEF SweepTime
<1>5. CASE TickNothing
  <2>1. /\ pc = "rx" /\ UNCHANGED <<bstate, idx, since_state, since_sweep>>
        /\ bstate = "WAIT_REPLY" => since_state < ReplyTimeout
        /\ bstate = "TURNAROUND" => since_state < Turnaround
    BY <1>5 DEF TickNothing, master_vars, time_vars
  <2> QED
    BY <2>1 DEF SweepTime, Spent, PodTime
<1>6. CASE StartWithoutPods
  BY <1>6 DEF StartWithoutPods, SweepDue, SweepTime, master_vars
<1>7. CASE \/ UNCHANGED vars
           \/ RxIgnored \/ NoSweepDue \/ FeedAndSleep \/ (\E c \in Cadences : SetCadence(c))
           \/ (\E on \in ArmCommands : SetArmedSent(on) \/ SetArmedBusy(on) \/ SetArmedFaults(on))
           \/ \E p \in Addr : PodServes(p) \/ PodBabbles(p)
  <2>1. UNCHANGED <<bstate, idx, since_state, since_sweep>> /\ (pc' # "rx" => pc # "rx")
    BY <1>7
    DEF vars, RxIgnored, NoSweepDue, FeedAndSleep, SetCadence, SetArmedSent, SetArmedBusy, SetArmedFaults, PodServes, PodBabbles,
        master_vars, time_vars
  <2> QED
    BY <2>1 DEF SweepTime, Spent, PodTime
<1> QED
  BY Steps, SweepTimeWakes, <1>1, <1>2, <1>3, <1>4, <1>5, <1>6, <1>7

LEMMA SweepTimeHolds == Spec => []SweepTime
<1>1. Init => SweepTime
  BY DEF Init, SweepTime
<1> QED
  BY <1>1, TypeHolds, SweepTimeStep, PTL DEF Spec

LEMMA SweepTimeBounds == TypeInv /\ SweepTime => SweepBounded
<1> SUFFICES ASSUME TypeInv, SweepTime, bstate # "IDLE"
             PROVE  since_sweep <= SweepBound(n_pods)
  BY DEF SweepBounded
<1>1. n_pods \in Nat /\ idx \in Nat /\ since_sweep \in Nat /\ SweepBound(n_pods) \in Nat
  BY Numbers, CapTypes, SweepBoundType DEF TypeInv, MasterOK, ClocksOK, n_pods
<1>2. CASE bstate = "WAIT_REPLY"
  <2>1. idx >= 1 /\ idx <= n_pods /\ since_sweep <= Spent(idx) + WaitBound(ReplyTimeout)
    BY <1>2, <1>1 DEF TypeInv, MasterOK, SweepTime
  <2>2. Spent(idx) \in Nat /\ Spent(idx) + WaitBound(ReplyTimeout) <= Spent(idx + 1)
    BY <2>1, <1>1, SpentNext, PodTimeType
  <2>3. Spent(idx + 1) <= SweepBound(n_pods) /\ Spent(idx + 1) \in Nat
    <3>1. idx + 1 \in Nat \ {0} /\ 1 <= idx + 1 /\ idx + 1 <= n_pods + 1
      BY <2>1, <1>1
    <3> QED
      BY <3>1, <1>1, SpentNext, SpentWithin
  <2> QED
    BY <1>1, <2>1, <2>2, <2>3, WaitBoundType
<1>3. CASE bstate = "TURNAROUND"
  <2>1. idx >= 1 /\ idx <= n_pods + 1 /\ since_sweep <= Spent(idx)
    BY <1>3, <1>1 DEF TypeInv, MasterOK, SweepTime
  <2>2. Spent(idx) <= SweepBound(n_pods) /\ Spent(idx) \in Nat
    BY <2>1, <1>1, SpentNext, SpentWithin
  <2> QED
    BY <1>1, <2>1, <2>2
<1> QED
  BY <1>2, <1>3 DEF TypeInv, MasterOK

\* A sweep of silent, late or babbling pods exceeds bus_sweep_worst_case_ms by no more
\* than the time the loop takes to notice the end of each of its two waits per pod, for
\* any number of pods (bus_tick, service_bus).  The figure of the code itself, which
\* leaves that time out, is no bound.
THEOREM SweepTheorem == Spec => []SweepBounded
  BY TypeHolds, SweepTimeHolds, SweepTimeBounds, PTL

-----------------------------------------------------------------------------
(* The watchdog *)

CadenceMax == Max(Cadences \union {DefaultCadence})

LEMMA CadenceMaxIs ==
    /\ CadenceMax \in Nat \ {0}
    /\ \A c \in Cadences \union {DefaultCadence} : c \in Nat /\ c <= CadenceMax
<1> DEFINE S == Cadences \union {DefaultCadence}
<1>1. S \in SUBSET Nat /\ S # {} /\ DefaultCadence \in S
  BY Numbers
<1>2. IsFiniteSet(S)
  BY BusAssumption, FS_AddElement
<1>3. CadenceMax = Max(S)
  BY DEF CadenceMax
<1> HIDE DEF S
<1>4. CadenceMax \in S /\ \A x \in S : x <= CadenceMax
  BY <1>1, <1>2, <1>3, MaxOfFinite
<1>5. CadenceMax \in Nat \ {0}
  BY <1>1, <1>4, Numbers
<1> QED
  BY <1>1, <1>4, <1>5 DEF S

\* The bus channel's deadline leaves room for the longest cadence, a pass and a whole
\* sweep, and the watchdog for a pass.
TimingHolds ==
    /\ CadenceMax + PassMax + SweepBound(MaxPods) <= Deadline + 1
    /\ PassMax <= WdtTimeout

\* The bus channel checks in with every sweep, and a sweep is never far.
CheckinInv ==
    /\ bstate = "IDLE" /\ pc \in {"bridge", "sleep", "halted"} =>
          since_checkin <= since_sweep /\ since_sweep < CadenceMax
    /\ bstate = "IDLE" /\ pc \in {"rx", "start"} =>
          since_checkin < CadenceMax + PassMax /\ (since_checkin <= since_sweep \/ since_sweep = SweepCap)
    /\ bstate # "IDLE" => since_checkin < since_sweep + CadenceMax + PassMax
    /\ pc = "sleep" => since_fed = 0
    /\ NoWatchdogReset

LEMMA CheckinWakes ==
    ASSUME TypeInv, CheckinInv, (TypeInv /\ SweepTime)', NEW dt \in 1 .. PassMax, Wake(dt)
    PROVE  CheckinInv'
<1>1. /\ pc = "sleep" /\ pc' = "rx" /\ UNCHANGED <<bstate, poll_list, reset_cause>>
      /\ since_sweep' = Later(since_sweep, dt, SweepCap)
      /\ since_checkin' = Later(since_checkin, dt, Deadline + 1)
  BY DEF Wake
<1>2. /\ dt \in Nat /\ dt <= PassMax /\ PassMax \in Nat /\ SweepCap \in Nat /\ Deadline + 1 \in Nat
      /\ since_sweep \in Nat /\ since_checkin \in Nat /\ CadenceMax \in Nat
  BY Numbers, CapTypes, CadenceMaxIs DEF TypeInv, ClocksOK
<1>3. /\ since_sweep' = IF since_sweep + dt <= SweepCap THEN since_sweep + dt ELSE SweepCap
      /\ since_checkin' \in Nat /\ since_checkin' <= since_checkin + dt
  BY <1>1, <1>2, LaterIs
<1>4. CASE bstate = "IDLE"
  <2>1. since_checkin <= since_sweep /\ since_sweep < CadenceMax
    BY <1>1, <1>4 DEF CheckinInv
  <2>2. since_checkin' < CadenceMax + PassMax /\ (since_checkin' <= since_sweep' \/ since_sweep' = SweepCap)
    BY <1>2, <1>3, <2>1
  <2> QED
    BY <1>1, <1>4, <2>2 DEF CheckinInv, NoWatchdogReset
<1>5. CASE bstate # "IDLE"
  <2>1. since_checkin < since_sweep + CadenceMax + PassMax
    BY <1>5 DEF CheckinInv
  <2>2. since_sweep' <= SweepBound(n_pods)'
    <3>1. SweepBounded'
      BY SweepTimeBounds, PTL
    <3> QED
      BY <1>1, <1>5, <3>1 DEF SweepBounded
  <2>3. SweepBound(n_pods)' <= SweepBound(MaxPods) /\ SweepBound(n_pods)' \in Nat /\ SweepBound(MaxPods) \in Nat
    <3>1. n_pods \in Nat /\ n_pods <= MaxPods /\ n_pods' = n_pods
      BY <1>1 DEF TypeInv, MasterOK, n_pods
    <3> QED
      BY <3>1, Numbers, SweepBoundMonotone DEF SweepBound
  <2>4. since_sweep' = since_sweep + dt
    BY <1>2, <1>3, <2>2, <2>3, CapTypes
  <2>5. since_checkin' < since_sweep' + CadenceMax + PassMax
    BY <1>2, <1>3, <2>1, <2>4
  <2> QED
    BY <1>1, <1>5, <2>5 DEF CheckinInv, NoWatchdogReset
<1> QED
  BY <1>4, <1>5

LEMMA CheckinStep ==
    ASSUME TimingHolds
    PROVE  TypeInv /\ SweepTime /\ CheckinInv /\ [Next]_vars /\ (TypeInv /\ SweepTime)' => CheckinInv'
<1> SUFFICES ASSUME TypeInv, SweepTime, CheckinInv, [Next]_vars, (TypeInv /\ SweepTime)'
             PROVE  CheckinInv'
  OBVIOUS
<1> USE DEF CheckinInv, NoWatchdogReset
<1>0. /\ PassMax \in Nat \ {0} /\ SweepCap \in Nat /\ Deadline \in Nat /\ CadenceMax \in Nat \ {0}
      /\ since_sweep \in Nat /\ since_checkin \in Nat /\ since_sweep' \in Nat /\ since_checkin' \in Nat
      /\ cadence \in Nat /\ cadence <= CadenceMax /\ cadence <= SweepCap
  BY Numbers, CapTypes, CadenceMaxIs DEF TypeInv, ClocksOK
<1>1. CASE RxReport \/ TickMissing \/ TickPolls
  <2>1. bstate # "IDLE" /\ bstate' # "IDLE" /\ pc' # "sleep" /\ UNCHANGED <<since_checkin, since_sweep, reset_cause>>
    BY <1>1 DEF RxReport, TickMissing, TickPolls, advance, poll_pod, time_vars
  <2> QED
    BY <2>1
<1>2. CASE TickSweepDone
  <2>1. bstate' = "IDLE" /\ pc' = "start" /\ since_checkin' = 0 /\ reset_cause' = reset_cause
    BY <1>2 DEF TickSweepDone
  <2> QED
    BY <1>0, <2>1
<1>3. CASE StartSweep
  <2>1. /\ bstate = "IDLE" /\ pc = "start" /\ bstate' # "IDLE" /\ pc' = "bridge"
        /\ since_sweep' = 0 /\ UNCHANGED <<since_checkin, reset_cause>>
    BY <1>3 DEF StartSweep, SweepDue, poll_pod
  <2> QED
    BY <1>0, <2>1
<1>4. CASE StartWithoutPods
  <2>1. /\ bstate' = "IDLE" /\ pc' = "bridge" /\ since_sweep' = 0 /\ since_checkin' = 0 /\ reset_cause' = reset_cause
    BY <1>4 DEF StartWithoutPods, SweepDue, master_vars
  <2> QED
    BY <1>0, <2>1
<1>5. CASE NoSweepDue
  <2>1. /\ pc = "start" /\ pc' = "bridge" /\ UNCHANGED <<bstate, since_sweep, since_checkin, reset_cause>>
        /\ bstate = "IDLE" => ~(since_sweep >= cadence)
    BY <1>5 DEF NoSweepDue, SweepDue, master_vars, time_vars
  <2> QED
    BY <1>0, <2>1
<1>6. CASE FeedAndSleep
  <2>1. /\ pc = "bridge" /\ pc' = "sleep" /\ UNCHANGED <<bstate, since_sweep, since_checkin, reset_cause>>
        /\ since_checkin <= Deadline => since_fed' = 0
    BY <1>6 DEF FeedAndSleep, sup_should_feed, master_vars
  <2>2. since_checkin <= Deadline
    <3>1. SweepBound(MaxPods) \in Nat /\ CadenceMax + PassMax + SweepBound(MaxPods) <= Deadline + 1
      BY Numbers, SweepBoundType DEF TimingHolds
    <3>2. CASE bstate = "IDLE"
      BY <1>0, <2>1, <3>1, <3>2
    <3>3. CASE bstate # "IDLE"
      <4>1. since_sweep <= SweepBound(n_pods)
        BY <3>3, SweepTimeBounds DEF SweepBounded
      <4>2. SweepBound(n_pods) <= SweepBound(MaxPods) /\ SweepBound(n_pods) \in Nat
        BY Numbers, SweepBoundMonotone DEF TypeInv, MasterOK, n_pods
      <4> QED
        BY <1>0, <3>1, <3>3, <4>1, <4>2
    <3> QED
      BY <3>2, <3>3
  <2> QED
    BY <1>0, <2>1, <2>2
<1>7. CASE WatchdogReset
  <2>1. pc = "halted"
    <3>1. pc = "sleep" => since_fed = 0 /\ since_fed + PassMax > WdtTimeout
      BY <1>7 DEF WatchdogReset
    <3>2. PassMax <= WdtTimeout /\ WdtTimeout \in Nat
      BY Numbers DEF TimingHolds
    <3>3. pc \in {"sleep", "halted"}
      BY <1>7 DEF WatchdogReset
    <3> QED
      BY <1>0, <3>1, <3>2, <3>3
  <2>2. bstate' = "IDLE" /\ pc' = "rx" /\ since_checkin' = 0 /\ reset_cause' = "fault"
    BY <1>7, <2>1 DEF WatchdogReset, Reset
  <2> QED
    BY <1>0, <2>2
<1>8. CASE \E p \in Addr : PodServes(p) \/ PodBabbles(p)
  <2>1. UNCHANGED <<pc, bstate, since_sweep, since_checkin, since_fed, reset_cause>>
    BY <1>8, Zenon DEF PodServes, PodBabbles, master_vars, time_vars
  <2> QED
    BY <2>1
<1>9. CASE \/ UNCHANGED vars \/ RxIgnored \/ TickNothing
           \/ (\E l \in PollLists : SetPods(l)) \/ (\E c \in Cadences : SetCadence(c))
           \/ (\E on \in ArmCommands : SetArmedSent(on) \/ SetArmedBusy(on) \/ SetArmedFaults(on))
  <2>1. /\ UNCHANGED <<bstate, since_sweep, since_checkin, since_fed, reset_cause>>
        /\ \/ pc' = pc
           \/ pc \in {"rx", "start"} /\ pc' \in {"rx", "start"}
           \/ pc \in {"bridge", "sleep", "halted"} /\ pc' \in {"bridge", "halted"}
    BY <1>9
    DEF vars, RxIgnored, TickNothing, SetPods, SetCadence, SetArmedSent, SetArmedBusy, SetArmedFaults,
        master_vars, time_vars
  <2> QED
    BY <2>1
<1> QED
  BY Steps, CheckinWakes, <1>1, <1>2, <1>3, <1>4, <1>5, <1>6, <1>7, <1>8, <1>9

LEMMA CheckinHolds ==
    ASSUME TimingHolds
    PROVE  Spec => []CheckinInv
<1>1. Init => CheckinInv
  BY Numbers, CadenceMaxIs DEF Init, CheckinInv, NoWatchdogReset
<1> QED
  BY <1>1, TypeHolds, SweepTimeHolds, CheckinStep, PTL DEF Spec

\* How the deadline of the bus channel has to be chosen: with room for the longest
\* cadence that is ever commanded, a sweep and a pass, the watchdog resets a halted
\* processor only (service_bus, sup_should_feed).  main.c:339 does not choose it so: it
\* has room for the default cadence and none for those the Linux side commands, which
\* are the subject of the next theorem.
THEOREM WatchdogTheorem ==
    ASSUME TimingHolds
    PROVE  Spec => []NoWatchdogReset
<1>1. CheckinInv => NoWatchdogReset
  BY DEF CheckinInv
<1> QED
  BY <1>1, CheckinHolds, PTL

\* The largest cadence under which a sweep can still begin.
LastCadence == Deadline + WdtTimeout + SweepBound(MaxPods)

\* No sweep begins under a cadence beyond that.
SlowCadenceIsNeverSwept ==
    [][bstate = "IDLE" /\ bstate' # "IDLE" => cadence = DefaultCadence \/ cadence <= LastCadence]_vars

\* The microcontroller's first pass, before it has looked for a command.
FirstPass ==
    /\ bstate = "IDLE" /\ pc \in {"rx", "start"}
    /\ cadence = DefaultCadence /\ since_sweep = DefaultCadence

\* The time since the last sweep began: as long as the bus channel is within its
\* deadline, that since its check-in and a sweep; then, the watchdog is not fed.
SlowInv ==
    \/ FirstPass
    \/ /\ since_checkin <= Deadline => since_sweep <= SweepBound(MaxPods) + since_checkin
       /\ since_sweep <= SweepBound(MaxPods) + Deadline + since_fed

LEMMA SlowStep == TypeInv /\ SweepTime /\ SlowInv /\ [Next]_vars => SlowInv'
<1> SUFFICES ASSUME TypeInv, SweepTime, SlowInv, [Next]_vars
             PROVE  SlowInv'
  OBVIOUS
<1> DEFINE B == SweepBound(MaxPods)
<1>0. /\ B \in Nat /\ Deadline \in Nat /\ WdtTimeout \in Nat
      /\ since_sweep \in Nat /\ since_checkin \in Nat /\ since_fed \in Nat
  BY Numbers, CapTypes, SweepBoundType DEF TypeInv, ClocksOK
<1>b. B' = B
  BY DEF SweepBound, bus_sweep_worst_case_ms, LoopDelay
<1>1. CASE TickSweepDone
  <2>1. since_sweep' = since_sweep /\ since_checkin' = 0 /\ since_fed' = since_fed /\ bstate # "IDLE"
    BY <1>1 DEF TickSweepDone
  <2>2. since_sweep <= SweepBound(n_pods)
    BY <2>1, SweepTimeBounds DEF SweepBounded
  <2>3. SweepBound(n_pods) <= B /\ SweepBound(n_pods) \in Nat
    BY Numbers, SweepBoundMonotone DEF TypeInv, MasterOK, n_pods
  <2>4. since_sweep' <= B
    BY <1>0, <2>1, <2>2, <2>3
  <2> HIDE DEF B
  <2> QED
    BY <1>0, <1>b, <2>1, <2>4 DEF B, SlowInv
<1>2. CASE StartSweep \/ StartWithoutPods
  <2>1. since_sweep' = 0 /\ since_checkin' \in {0, since_checkin} /\ since_fed' = since_fed
    BY <1>2 DEF StartSweep, StartWithoutPods
  <2> HIDE DEF B
  <2> QED
    BY <1>0, <1>b, <2>1 DEF B, SlowInv
<1>3. CASE NoSweepDue
  <2>1. /\ UNCHANGED <<cadence, bstate, since_sweep, since_checkin, since_fed>> /\ pc' = "bridge"
        /\ bstate = "IDLE" => since_sweep < cadence
    BY <1>0, <1>3, Numbers DEF NoSweepDue, SweepDue, master_vars, time_vars, TypeInv, ClocksOK
  <2>2. ~FirstPass
    BY <2>1, Numbers DEF FirstPass
  <2> QED
    BY <1>0, <1>b, <2>1, <2>2 DEF SlowInv
<1>4. CASE FeedAndSleep
  <2>1. /\ pc = "bridge" /\ UNCHANGED <<since_sweep, since_checkin>>
        /\ IF since_checkin <= Deadline THEN since_fed' = 0 ELSE since_fed' = since_fed
    BY <1>4 DEF FeedAndSleep, sup_should_feed
  <2>2. ~FirstPass
    BY <2>1 DEF FirstPass
  <2> HIDE DEF B
  <2> QED
    BY <1>0, <1>b, <2>1, <2>2 DEF B, SlowInv
<1>5. ASSUME NEW dt \in 1 .. PassMax, Wake(dt)
      PROVE  SlowInv'
  <2>1. /\ pc = "sleep" /\ since_sweep' = Later(since_sweep, dt, SweepCap)
        /\ since_checkin' = Later(since_checkin, dt, Deadline + 1) /\ since_fed' = since_fed + dt
    BY <1>5 DEF Wake
  <2>2. dt \in Nat /\ SweepCap \in Nat /\ Deadline + 1 \in Nat
    BY <1>0, Numbers, CapTypes
  <2>3. /\ since_sweep' \in Nat /\ since_sweep' <= since_sweep + dt
        /\ since_checkin' = IF since_checkin + dt <= Deadline + 1 THEN since_checkin + dt ELSE Deadline + 1
    BY <1>0, <2>1, <2>2, LaterIs
  <2>4. ~FirstPass
    BY <2>1 DEF FirstPass
  <2> HIDE DEF B
  <2> QED
    BY <1>0, <1>b, <2>1, <2>2, <2>3, <2>4 DEF B, SlowInv
<1>6. CASE WatchdogReset
  <2>1. FirstPass'
    BY <1>6 DEF WatchdogReset, Reset, FirstPass
  <2> QED
    BY <2>1 DEF SlowInv
<1>7. CASE \/ UNCHANGED vars \/ RxReport \/ RxIgnored \/ TickMissing \/ TickPolls \/ TickNothing
           \/ (\E l \in PollLists : SetPods(l)) \/ (\E c \in Cadences : SetCadence(c))
           \/ (\E on \in ArmCommands : SetArmedSent(on) \/ SetArmedBusy(on) \/ SetArmedFaults(on))
           \/ \E p \in Addr : PodServes(p) \/ PodBabbles(p)
  <2>1. UNCHANGED <<since_sweep, since_checkin, since_fed>>
    BY <1>7, Zenon
    DEF vars, RxReport, RxIgnored, TickMissing, TickPolls, TickNothing, SetPods, SetCadence, SetArmedSent,
        SetArmedBusy, SetArmedFaults, PodServes, PodBabbles, time_vars
  <2>2. FirstPass => FirstPass'
    BY <1>7, <2>1
    DEF FirstPass, vars, RxReport, RxIgnored, TickMissing, TickPolls, TickNothing, SetPods, SetCadence,
        SetArmedSent, SetArmedBusy, SetArmedFaults, PodServes, PodBabbles, master_vars, time_vars
  <2> QED
    BY <1>b, <2>1, <2>2 DEF SlowInv
<1> QED
  BY Steps, <1>1, <1>2, <1>3, <1>4, <1>5, <1>6, <1>7

\* With the deadline main.c:339 sets, the cadences the Linux side commands are never
\* swept by: for a cadence longer than the deadline, the watchdog's timeout and a sweep
\* together, the watchdog, which is no longer fed, resets the microcontroller before the
\* sweep is due, and only sweeps at the default cadence begin.
THEOREM SlowCadenceTheorem == Spec => SlowCadenceIsNeverSwept
<1>1. Init => SlowInv
  BY DEF Init, SlowInv, FirstPass
<1>2. Spec => []SlowInv
  BY <1>1, TypeHolds, SweepTimeHolds, SlowStep, PTL DEF Spec
<1>3. TypeInv /\ SlowInv /\ [Next]_vars =>
          [bstate = "IDLE" /\ bstate' # "IDLE" => cadence = DefaultCadence \/ cadence <= LastCadence]_vars
  <2> SUFFICES ASSUME TypeInv, SlowInv, [Next]_vars, bstate = "IDLE", bstate' # "IDLE", cadence # DefaultCadence
               PROVE  cadence <= LastCadence
    OBVIOUS
  <2>1. StartSweep
    <3>1. ~(RxReport \/ TickMissing \/ TickPolls \/ TickSweepDone)
      BY DEF RxReport, TickMissing, TickPolls, TickSweepDone
    <3>2. ~(StartWithoutPods \/ WatchdogReset \/ \E l \in PollLists : SetPods(l))
      BY DEF StartWithoutPods, WatchdogReset, Reset, SetPods, master_vars
    <3>3. ~(\/ UNCHANGED vars
            \/ RxIgnored \/ TickNothing \/ NoSweepDue \/ FeedAndSleep
            \/ (\E dt \in 1 .. PassMax : Wake(dt)) \/ (\E c \in Cadences : SetCadence(c))
            \/ (\E on \in ArmCommands : SetArmedSent(on) \/ SetArmedBusy(on) \/ SetArmedFaults(on))
            \/ \E p \in Addr : PodServes(p) \/ PodBabbles(p))
      BY DEF vars, RxIgnored, TickNothing, NoSweepDue, FeedAndSleep, Wake, SetCadence, SetArmedSent,
             SetArmedBusy, SetArmedFaults, PodServes, PodBabbles, master_vars
    <3> QED
      BY Steps, <3>1, <3>2, <3>3
  <2>2. since_sweep >= cadence
    BY <2>1 DEF StartSweep, SweepDue
  <2>3. /\ since_sweep \in Nat /\ cadence \in Nat /\ since_fed \in Nat /\ since_fed <= WdtTimeout
        /\ SweepBound(MaxPods) \in Nat /\ Deadline \in Nat /\ WdtTimeout \in Nat
    BY Numbers, CapTypes, SweepBoundType DEF TypeInv, ClocksOK
  <2>4. since_sweep <= SweepBound(MaxPods) + Deadline + since_fed
    BY DEF SlowInv, FirstPass
  <2> QED
    BY <2>2, <2>3, <2>4 DEF LastCadence
<1> QED
  BY <1>2, <1>3, TypeHolds, PTL DEF Spec, SlowCadenceIsNeverSwept

-----------------------------------------------------------------------------
(* What a sweep reports *)

\* Every pod the sweep has passed answered or was missed, and counts as present
\* exactly when it answered.
OutcomeInv ==
    bstate # "IDLE" =>
        \A i \in 1 .. idx - 1 : /\ outcome[i] # "none"
                                /\ present[i] <=> outcome[i] = "report"

LEMMA OutcomeStep == TypeInv /\ OutcomeInv /\ [Next]_vars => OutcomeInv'
<1> SUFFICES ASSUME TypeInv, OutcomeInv, [Next]_vars
             PROVE  OutcomeInv'
  OBVIOUS
<1>1. CASE RxReport \/ TickMissing
  <2>1. /\ bstate = "WAIT_REPLY" /\ idx' = idx + 1
        /\ \/ present' = [present EXCEPT ![idx] = TRUE] /\ outcome' = [outcome EXCEPT ![idx] = "report"]
           \/ present' = [present EXCEPT ![idx] = FALSE] /\ outcome' = [outcome EXCEPT ![idx] = "missing"]
    BY <1>1, Zenon DEF RxReport, TickMissing, advance
  <2>2. /\ idx \in Positions /\ idx \in Nat /\ present \in [Positions -> BOOLEAN]
        /\ outcome \in [Positions -> {"none", "report", "missing"}] /\ idx \in 1 .. MaxPods
    BY <2>1, Numbers DEF TypeInv, MasterOK, WireOK, Positions, n_pods
  <2>3. ASSUME NEW i \in 1 .. idx' - 1
        PROVE  outcome'[i] # "none" /\ (present'[i] <=> outcome'[i] = "report")
    <3>1. CASE i = idx
      BY <2>1, <2>2, <3>1
    <3>2. CASE i # idx
      <4>1. i \in 1 .. idx - 1 /\ i \in Positions
        BY <2>1, <2>2, <3>2, Numbers DEF Positions
      <4>2. outcome'[i] = outcome[i] /\ present'[i] = present[i]
        BY <2>1, <2>2, <3>2, <4>1
      <4> QED
        BY <2>1, <4>1, <4>2 DEF OutcomeInv
    <3> QED
      BY <3>1, <3>2
  <2> QED
    BY <2>3 DEF OutcomeInv
<1>2. CASE StartSweep
  <2>1. idx' = 1
    BY <1>2 DEF StartSweep
  <2> QED
    BY <2>1 DEF OutcomeInv
<1>3. CASE TickSweepDone \/ StartWithoutPods \/ WatchdogReset \/ \E l \in PollLists : SetPods(l)
  <2>1. bstate' = "IDLE"
    BY <1>3, Zenon DEF TickSweepDone, StartWithoutPods, SweepDue, WatchdogReset, Reset, SetPods, master_vars
  <2> QED
    BY <2>1 DEF OutcomeInv
<1>4. CASE \/ UNCHANGED vars
           \/ RxIgnored \/ TickPolls \/ TickNothing \/ NoSweepDue \/ FeedAndSleep
           \/ (\E dt \in 1 .. PassMax : Wake(dt)) \/ (\E c \in Cadences : SetCadence(c))
           \/ (\E on \in ArmCommands : SetArmedSent(on) \/ SetArmedBusy(on) \/ SetArmedFaults(on))
           \/ \E p \in Addr : PodServes(p) \/ PodBabbles(p)
  <2>1. /\ UNCHANGED <<idx, present, outcome>>
        /\ bstate' # "IDLE" => bstate # "IDLE"
    BY <1>4
    DEF vars, RxIgnored, TickPolls, TickNothing, NoSweepDue, FeedAndSleep, Wake, SetCadence, SetArmedSent,
        SetArmedBusy, SetArmedFaults, PodServes, PodBabbles, poll_pod, master_vars
  <2> QED
    BY <2>1 DEF OutcomeInv
<1> QED
  BY Steps, <1>1, <1>2, <1>3, <1>4

LEMMA OutcomeHolds == Spec => []OutcomeInv
<1>1. Init => OutcomeInv
  BY DEF Init, OutcomeInv
<1> QED
  BY <1>1, TypeHolds, OutcomeStep, PTL DEF Spec

\* A sweep ends where bus_tick finds the list used up, and nowhere else: a command is
\* dropped while it runs.  What is left is a reset, which starts the loop again.
LEMMA SweepEnds ==
    ASSUME [Next]_vars, bstate # "IDLE", bstate' = "IDLE", pc' # "rx"
    PROVE  TickSweepDone
<1>1. ~WatchdogReset
  BY DEF WatchdogReset, Reset
<1>2. ~(RxReport \/ TickMissing \/ TickPolls \/ StartSweep)
  BY DEF RxReport, TickMissing, TickPolls, StartSweep, advance, poll_pod
<1>3. ~(StartWithoutPods \/ \E l \in PollLists : SetPods(l))
  BY DEF StartWithoutPods, SweepDue, SetPods
<1>4. ~(\/ UNCHANGED vars
        \/ RxIgnored \/ TickNothing \/ NoSweepDue \/ FeedAndSleep
        \/ (\E dt \in 1 .. PassMax : Wake(dt)) \/ (\E c \in Cadences : SetCadence(c))
        \/ (\E on \in ArmCommands : SetArmedSent(on) \/ SetArmedBusy(on) \/ SetArmedFaults(on))
        \/ \E p \in Addr : PodServes(p) \/ PodBabbles(p))
  BY DEF vars, RxIgnored, TickNothing, NoSweepDue, FeedAndSleep, Wake, SetCadence, SetArmedSent,
         SetArmedBusy, SetArmedFaults, PodServes, PodBabbles, master_vars
<1> QED
  BY Steps, <1>1, <1>2, <1>3, <1>4

\* At the end of a sweep there is one verdict for each pod of the list it began with,
\* and the number reported present counts those that were taken as answered, whatever
\* Linux commands meanwhile, whatever the pods send, and whatever the timing
\* (bus_rx_frame, bus_tick, service_bus).
THEOREM AccountTheorem == Spec => SweepAccountsForEveryPod
<1>1. TypeInv /\ OutcomeInv /\ [Next]_vars =>
          [(bstate # "IDLE" /\ bstate' = "IDLE" /\ pc' # "rx") =>
              \A i \in 1 .. n_pods : /\ outcome[i] # "none"
                                     /\ present[i] <=> outcome[i] = "report"]_vars
  <2> SUFFICES ASSUME TypeInv, OutcomeInv, [Next]_vars, bstate # "IDLE", bstate' = "IDLE", pc' # "rx",
                      NEW i \in 1 .. n_pods
               PROVE  outcome[i] # "none" /\ (present[i] <=> outcome[i] = "report")
    OBVIOUS
  <2>1. idx > n_pods
    BY SweepEnds DEF TickSweepDone
  <2>2. i \in 1 .. idx - 1
    BY <2>1, Numbers DEF TypeInv, MasterOK, n_pods
  <2> QED
    BY <2>2 DEF OutcomeInv
<1> QED
  BY <1>1, TypeHolds, OutcomeHolds, PTL DEF Spec, SweepAccountsForEveryPod
=============================================================================
