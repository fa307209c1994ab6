-------------------------- MODULE HeadLinuxProofs ---------------------------
(***************************************************************************)
(* Proofs about the Linux side of the head node: the bridge's event queue, *)
(* for any number of events and sweeps; and the main loop, for any pods,   *)
(* neighbours, cadences and clocks.                                        *)
(***************************************************************************)
EXTENDS HeadLinux, NaturalLemmas, FiniteSetTheorems

LinuxNext == NodeStep \/ ClientStep
linux_vars == <<vars, bridge_vars, app>>

-----------------------------------------------------------------------------
(* The bridge *)

LEMMA BridgeSteps ==
    ASSUME [LinuxNext]_linux_vars
    PROVE  \/ UNCHANGED bridge_vars
           \/ (\E class \in EventClass : push(class)) /\ UNCHANGED <<out, taken>>
           \/ poll_get \/ poll_empty
<1>1. ASSUME NEW class \in EventClass, on_pod(class) \/ on_other(class)
      PROVE  push(class) /\ UNCHANGED <<out, taken>>
  BY <1>1 DEF on_pod, on_other
<1>2. on_sweep_done => push("SweepDone") /\ UNCHANGED <<out, taken>>
  BY DEF on_sweep_done
<1>3. on_node_status => push("NodeStatus") /\ UNCHANGED <<out, taken>>
  BY DEF on_node_status
<1>4. "SweepDone" \in EventClass /\ "NodeStatus" \in EventClass
  BY DEF EventClass
<1>5. \/ UNCHANGED bridge_vars
      \/ (\E class \in EventClass : on_pod(class) \/ on_other(class))
      \/ on_sweep_done \/ on_node_status \/ poll_get \/ poll_empty
  BY DEF LinuxNext, linux_vars, NodeStep, ClientStep, BridgeNext
<1> QED
  BY <1>1, <1>2, <1>3, <1>4, <1>5, Zenon

\* Sequences of one length are equal when their elements are.
LEMMA SameSequence ==
    ASSUME NEW S, NEW s \in Seq(S), NEW t \in Seq(S), Len(s) = Len(t),
           \A i \in 1 .. Len(s) : s[i] = t[i]
    PROVE  s = t
<1>1. s = [i \in 1 .. Len(s) |-> s[i]] /\ t = [i \in 1 .. Len(t) |-> t[i]]
  OBVIOUS
<1> QED
  BY <1>1

\* The numbers of the events that wait, and what changes to the queue do to them.
Numbers(q) == [i \in DOMAIN q |-> q[i].n]

LEMMA NumbersType ==
    ASSUME NEW q \in Seq(Event)
    PROVE  /\ Numbers(q) \in Seq(Nat) /\ Len(Numbers(q)) = Len(q)
           /\ \A i \in 1 .. Len(q) : Numbers(q)[i] = q[i].n
<1>1. DOMAIN q = 1 .. Len(q) /\ Len(q) \in Nat /\ \A i \in 1 .. Len(q) : q[i] \in Event
  OBVIOUS
<1>2. \A e \in Event : e.n \in Nat
  BY DEF Event
<1>3. \A i \in 1 .. Len(q) : q[i].n \in Nat
  BY <1>1, <1>2
<1> QED
  BY <1>1, <1>3 DEF Numbers

LEMMA PendingIs == Pending = out \o Numbers(events)
  BY DEF Pending, Numbers

LEMMA NumbersOfAppended ==
    ASSUME NEW q \in Seq(Event), NEW o \in Seq(Nat), NEW e \in Event
    PROVE  o \o Numbers(Append(q, e)) = Append(o \o Numbers(q), e.n)
<1>1. Append(q, e) \in Seq(Event) /\ e.n \in Nat
  BY DEF Event
<1>2. /\ Numbers(q) \in Seq(Nat) /\ Len(Numbers(q)) = Len(q)
      /\ \A i \in 1 .. Len(q) : Numbers(q)[i] = q[i].n
  BY NumbersType
<1>3. /\ Numbers(Append(q, e)) \in Seq(Nat) /\ Len(Numbers(Append(q, e))) = Len(q) + 1
      /\ \A i \in 1 .. Len(q) + 1 : Numbers(Append(q, e))[i] = Append(q, e)[i].n
  <2>1. Len(Append(q, e)) = Len(q) + 1
    OBVIOUS
  <2> QED
    BY <1>1, <2>1, NumbersType
<1>4. \A i \in 1 .. Len(q) + 1 : Append(q, e)[i] = IF i = Len(q) + 1 THEN e ELSE q[i]
  OBVIOUS
<1>5. Append(Numbers(q), e.n) \in Seq(Nat) /\ Len(Append(Numbers(q), e.n)) = Len(q) + 1
  BY <1>1, <1>2
<1>6. \A i \in 1 .. Len(q) + 1 : Append(Numbers(q), e.n)[i] = IF i = Len(q) + 1 THEN e.n ELSE Numbers(q)[i]
  BY <1>1, <1>2
<1>7. ASSUME NEW i \in 1 .. Len(q) + 1
      PROVE  Numbers(Append(q, e))[i] = Append(Numbers(q), e.n)[i]
  <2>1. CASE i = Len(q) + 1
    BY <1>3, <1>4, <1>6, <2>1
  <2>2. CASE i # Len(q) + 1
    <3>1. i \in 1 .. Len(q)
      BY <2>2
    <3> QED
      BY <1>2, <1>3, <1>4, <1>6, <2>2, <3>1
  <2> QED
    BY <2>1, <2>2
<1>8. Numbers(Append(q, e)) = Append(Numbers(q), e.n)
  BY <1>3, <1>5, <1>7, SameSequence
<1>9. o \o Append(Numbers(q), e.n) = Append(o \o Numbers(q), e.n)
  BY <1>1, <1>2
<1> QED
  BY <1>8, <1>9

LEMMA NumbersOfTaken ==
    ASSUME NEW q \in Seq(Event), q # <<>>, NEW o \in Seq(Nat)
    PROVE  Append(o, Head(q).n) \o Numbers(Tail(q)) = o \o Numbers(q)
<1>1. /\ Tail(q) \in Seq(Event) /\ Len(q) \in Nat \ {0} /\ Head(q) = q[1] /\ Len(Tail(q)) = Len(q) - 1
      /\ \A i \in 1 .. Len(q) - 1 : Tail(q)[i] = q[i + 1]
  OBVIOUS
<1>2. /\ Numbers(q) \in Seq(Nat) /\ Len(Numbers(q)) = Len(q)
      /\ \A i \in 1 .. Len(q) : Numbers(q)[i] = q[i].n
  BY NumbersType
<1>3. /\ Numbers(Tail(q)) \in Seq(Nat) /\ Len(Numbers(Tail(q))) = Len(q) - 1
      /\ \A i \in 1 .. Len(q) - 1 : Numbers(Tail(q))[i] = Tail(q)[i].n
  BY <1>1, NumbersType
<1>4. Numbers(q)[1] = Head(q).n /\ Head(q).n \in Nat
  BY <1>1, <1>2
<1>5. Numbers(Tail(q)) = Tail(Numbers(q))
  <2>1. Tail(Numbers(q)) \in Seq(Nat) /\ Len(Tail(Numbers(q))) = Len(q) - 1
        /\ \A i \in 1 .. Len(q) - 1 : Tail(Numbers(q))[i] = Numbers(q)[i + 1]
    BY <1>1, <1>2
  <2>2. \A i \in 1 .. Len(q) - 1 : Numbers(q)[i + 1] = q[i + 1].n
    BY <1>1, <1>2
  <2>3. \A i \in 1 .. Len(q) - 1 : Numbers(Tail(q))[i] = Tail(Numbers(q))[i]
    BY <1>1, <1>3, <2>1, <2>2
  <2> QED
    BY <1>3, <2>1, <2>3, SameSequence
<1>6. Numbers(q) = <<Head(q).n>> \o Tail(Numbers(q))
  <2>1. Numbers(q) # <<>> /\ Head(Numbers(q)) = Head(q).n
    BY <1>1, <1>2, <1>4
  <2> QED
    BY <1>2, <1>4, <2>1
<1>7. Tail(Numbers(q)) \in Seq(Nat)
  BY <1>3, <1>5
<1> DEFINE rest == Tail(Numbers(q))
           h == Head(q).n
<1>8. rest \in Seq(Nat) /\ h \in Nat
  BY <1>4, <1>7
<1> HIDE DEF rest, h
<1>9. Append(o, h) \o rest = o \o (<<h>> \o rest)
  BY <1>8
<1> QED
  BY <1>5, <1>6, <1>9 DEF rest, h

\* The queue and what the poll has got hold no more than came since the client last
\* found the queue empty, and nothing is dropped before it came.
BridgeInv ==
    /\ arrived \in Nat /\ taken \in Nat
    /\ events \in Seq(Event) /\ out \in Seq(Nat)
    /\ Len(out) + Len(events) <= arrived - taken
    /\ \A n \in lost : n \in Nat /\ n <= arrived
    /\ HandedOnInOrder

LEMMA PendingType == BridgeInv => Pending \in Seq(Nat) /\ Len(Pending) \in Nat
  BY PendingIs, NumbersType DEF BridgeInv

\* An event numbered after all that came goes to the end.
LEMMA AppendedInOrder ==
    ASSUME NEW s \in Seq(Nat), NEW a \in Nat, \A k \in Range(s) : k <= a,
           \A i, j \in DOMAIN s : i < j => s[i] < s[j]
    PROVE  /\ \A i, j \in DOMAIN Append(s, a + 1) : i < j => Append(s, a + 1)[i] < Append(s, a + 1)[j]
           /\ Range(Append(s, a + 1)) = Range(s) \union {a + 1}
<1> DEFINE t == Append(s, a + 1)
<1>1. /\ Len(s) \in Nat /\ DOMAIN s = 1 .. Len(s) /\ \A i \in 1 .. Len(s) : s[i] \in Nat
      /\ t \in Seq(Nat) /\ DOMAIN t = 1 .. Len(s) + 1
      /\ \A i \in 1 .. Len(s) : t[i] = s[i]
      /\ t[Len(s) + 1] = a + 1
  OBVIOUS
<1> HIDE DEF t
<1>2. \A i \in 1 .. Len(s) : s[i] \in Range(s) /\ s[i] <= a
  BY <1>1 DEF Range
<1>3. ASSUME NEW i \in DOMAIN t, NEW j \in DOMAIN t, i < j
      PROVE  t[i] < t[j]
  <2>1. i \in 1 .. Len(s) /\ j \in 1 .. Len(s) + 1
    BY <1>1, <1>3
  <2>2. CASE j = Len(s) + 1
    BY <1>1, <1>2, <2>1, <2>2
  <2>3. CASE j # Len(s) + 1
    <3>1. j \in 1 .. Len(s)
      BY <1>1, <2>1, <2>3
    <3> QED
      BY <1>1, <1>3, <2>1, <3>1
  <2> QED
    BY <2>2, <2>3
<1>4. Range(t) = Range(s) \union {a + 1}
  <2>1. \A i \in DOMAIN t : t[i] \in Range(s) \union {a + 1}
    BY <1>1, <1>2
  <2>2. 1 .. Len(s) \subseteq DOMAIN t /\ Len(s) + 1 \in DOMAIN t
    BY <1>1
  <2>3. \A k \in Range(s) : \E i \in DOMAIN t : t[i] = k
    BY <1>1, <2>2 DEF Range
  <2> QED
    BY <1>1, <2>1, <2>2, <2>3 DEF Range
<1> QED
  BY <1>3, <1>4 DEF t

LEMMA PushStep ==
    ASSUME BridgeInv, NEW class \in EventClass, push(class), UNCHANGED <<out, taken>>
    PROVE  BridgeInv'
<1>1. /\ arrived \in Nat /\ taken \in Nat /\ MaxQueue \in Nat /\ Len(events) \in Nat /\ Len(out) \in Nat
      /\ events \in Seq(Event) /\ out \in Seq(Nat) /\ Len(out) + Len(events) <= arrived - taken
      /\ Pending \in Seq(Nat) /\ Len(Pending) \in Nat
  BY BridgeAssumption, PendingType DEF BridgeInv
<1>2. /\ \A i, j \in DOMAIN Pending : i < j => Pending[i] < Pending[j]
      /\ Range(Pending) = (taken + 1 .. arrived) \ lost
      /\ \A n \in lost : n \in Nat /\ n <= arrived /\ n > taken + MaxQueue
  BY DEF BridgeInv, HandedOnInOrder
<1>3. arrived' = arrived + 1 /\ taken' = taken /\ out' = out
  BY DEF push
<1>4. CASE Len(events) < MaxQueue
  <2> DEFINE e == [class |-> class, n |-> arrived + 1]
  <2>1. events' = Append(events, e) /\ lost' = lost
    BY <1>3, <1>4 DEF push
  <2>2. e \in Event /\ e.n = arrived + 1
    BY <1>1 DEF Event
  <2> HIDE DEF e
  <2>3. events' \in Seq(Event) /\ Len(events') = Len(events) + 1
    BY <1>1, <2>1, <2>2
  <2>4. Pending' = Append(Pending, arrived + 1)
    <3>1. Pending' = out' \o Numbers(events')
      BY Zenon DEF Pending, Numbers
    <3>2. Pending' = out \o Numbers(Append(events, e))
      BY <1>3, <2>1, <3>1
    <3> QED
      BY <1>1, <2>2, <3>2, NumbersOfAppended, PendingIs
  <2>5. \A k \in Range(Pending) : k <= arrived
    BY <1>1, <1>2
  <2>6. /\ \A i, j \in DOMAIN Pending' : i < j => Pending'[i] < Pending'[j]
        /\ Range(Pending') = Range(Pending) \union {arrived + 1}
    <3> HIDE DEF Pending
    <3> QED
      BY <1>1, <1>2, <2>4, <2>5, AppendedInOrder
  <2>7. Range(Pending') = (taken' + 1 .. arrived') \ lost'
    <3>1. arrived + 1 \notin lost
      BY <1>1, <1>2
    <3>2. taken + 1 .. arrived + 1 = (taken + 1 .. arrived) \union {arrived + 1}
      <4>1. taken <= arrived
        BY <1>1
      <4> QED
        BY <1>1, <4>1
    <3>3. Range(Pending') = ((taken + 1 .. arrived) \ lost) \union {arrived + 1}
      BY <1>2, <2>6
    <3>4. Range(Pending') = (taken + 1 .. arrived + 1) \ lost
      BY <3>1, <3>2, <3>3, Zenon
    <3> QED
      BY <1>3, <2>1, <3>4
  <2>8. \A n \in lost' : n \in Nat /\ n <= arrived' /\ n > taken' + MaxQueue
    BY <1>1, <1>2, <1>3, <2>1
  <2>9. Len(out') + Len(events') <= arrived' - taken'
    BY <1>1, <1>3, <2>3
  <2>10. HandedOnInOrder'
    BY <2>6, <2>7, <2>8 DEF HandedOnInOrder
  <2> QED
    BY <1>1, <1>3, <2>3, <2>8, <2>9, <2>10 DEF BridgeInv
<1>5. CASE ~(Len(events) < MaxQueue)
  <2>1. events' = events /\ lost' = lost \union {arrived + 1}
    BY <1>3, <1>5 DEF push
  <2>2. Pending' = Pending
    BY <1>3, <2>1 DEF Pending
  <2>3. Range(Pending') = (taken' + 1 .. arrived') \ lost'
    <3>1. arrived + 1 \notin taken + 1 .. arrived
      BY <1>1
    <3>2. taken + 1 .. arrived + 1 = (taken + 1 .. arrived) \union {arrived + 1}
      <4>1. taken <= arrived
        BY <1>1
      <4> QED
        BY <1>1, <4>1
    <3>3. (taken + 1 .. arrived + 1) \ (lost \union {arrived + 1}) = (taken + 1 .. arrived) \ lost
      BY <3>1, <3>2, Zenon
    <3> QED
      BY <1>2, <1>3, <2>1, <2>2, <3>3
  <2>4. arrived + 1 > taken + MaxQueue
    BY <1>1, <1>5
  <2>5. \A n \in lost' : n \in Nat /\ n <= arrived' /\ n > taken' + MaxQueue
    BY <1>1, <1>2, <1>3, <2>1, <2>4
  <2>6. Len(out') + Len(events') <= arrived' - taken'
    BY <1>1, <1>3, <2>1
  <2>7. \A i, j \in DOMAIN Pending' : i < j => Pending'[i] < Pending'[j]
    BY <1>2, <2>2
  <2>8. HandedOnInOrder'
    BY <2>3, <2>5, <2>7 DEF HandedOnInOrder
  <2> QED
    BY <1>1, <1>3, <2>1, <2>5, <2>6, <2>8 DEF BridgeInv
<1> QED
  BY <1>4, <1>5

LEMMA BridgeStep == BridgeInv /\ [LinuxNext]_linux_vars => BridgeInv'
<1> SUFFICES ASSUME BridgeInv, [LinuxNext]_linux_vars
             PROVE  BridgeInv'
  OBVIOUS
<1>0. /\ arrived \in Nat /\ taken \in Nat /\ Len(events) \in Nat /\ Len(out) \in Nat
      /\ events \in Seq(Event) /\ out \in Seq(Nat) /\ Len(out) + Len(events) <= arrived - taken
  BY DEF BridgeInv
<1>1. CASE (\E class \in EventClass : push(class)) /\ UNCHANGED <<out, taken>>
  BY <1>1, PushStep
<1>2. CASE poll_get
  <2>1. /\ events # <<>> /\ out' = Append(out, Head(events).n) /\ events' = Tail(events)
        /\ UNCHANGED <<arrived, taken, lost>>
    BY <1>2 DEF poll_get
  <2>2. Head(events) \in Event /\ Head(events).n \in Nat
    <3>1. Head(events) \in Event
      BY <1>0, <2>1
    <3> QED
      BY <3>1 DEF Event
  <2>3. /\ events' \in Seq(Event) /\ Len(events') = Len(events) - 1
        /\ out' \in Seq(Nat) /\ Len(out') = Len(out) + 1
    BY <1>0, <2>1, <2>2
  <2>4. Pending' = Pending
    <3>1. Pending' = out' \o Numbers(events')
      BY Zenon DEF Pending, Numbers
    <3>2. Pending' = Append(out, Head(events).n) \o Numbers(Tail(events))
      BY <2>1, <3>1
    <3> QED
      BY <1>0, <2>1, <3>2, NumbersOfTaken, PendingIs
  <2>5. HandedOnInOrder'
    BY <2>1, <2>4 DEF BridgeInv, HandedOnInOrder
  <2> QED
    BY <1>0, <2>1, <2>3, <2>5 DEF BridgeInv
<1>3. CASE poll_empty
  <2>1. /\ events = <<>> /\ events' = <<>> /\ out' = <<>> /\ taken' = arrived /\ lost' = {} /\ arrived' = arrived
    BY <1>3 DEF poll_empty
  <2>2. events' \in Seq(Event) /\ out' \in Seq(Nat) /\ Len(out') = 0 /\ Len(events') = 0
    BY <2>1
  <2>3. DOMAIN Pending' = {}
    BY <2>1 DEF Pending
  <2>4. Range(Pending') = {}
    BY <2>3 DEF Range
  <2>5. arrived + 1 .. arrived = {}
    BY <1>0
  <2>6. HandedOnInOrder'
    BY <2>1, <2>3, <2>4, <2>5 DEF HandedOnInOrder
  <2> QED
    BY <1>0, <2>1, <2>2, <2>6 DEF BridgeInv
<1>4. CASE UNCHANGED bridge_vars
  BY <1>4 DEF bridge_vars, BridgeInv, HandedOnInOrder, Pending
<1> QED
  BY BridgeSteps, <1>1, <1>2, <1>3, <1>4

LEMMA BridgeHolds == LinuxSpec => []BridgeInv
<1>1. LinuxInit => BridgeInv
  <2> SUFFICES ASSUME LinuxInit
               PROVE  BridgeInv
    OBVIOUS
  <2>1. events = <<>> /\ out = <<>> /\ arrived = 0 /\ taken = 0 /\ lost = {}
    BY DEF LinuxInit, BridgeInit
  <2>2. DOMAIN Pending = {} /\ Range(Pending) = {}
    BY <2>1 DEF Pending, Range
  <2>3. HandedOnInOrder
    BY <2>1, <2>2 DEF HandedOnInOrder
  <2> QED
    BY <2>1, <2>3 DEF BridgeInv
<1> QED
  BY <1>1, BridgeStep, PTL DEF LinuxSpec, LinuxNext, linux_vars

\* The client gets every event that was not dropped, once and in the order of arrival,
\* and nothing is dropped before MaxQueue more have come since it last found the queue
\* empty, for any queue, any number of events and any client (bridge.py, _push and poll).
THEOREM QueueTheorem == LinuxSpec => []HandedOnInOrder
<1>1. BridgeInv => HandedOnInOrder
  BY DEF BridgeInv
<1> QED
  BY <1>1, BridgeHolds, PTL

-----------------------------------------------------------------------------
(* The main loop: types *)

\* The microcontroller takes a command, or never gets it; it resets.
TakesOrLoses == McuTakesCadence \/ \E i \in DOMAIN commands : LoseCommand(i)
Resets == \E missed \in 0 .. Len(commands) : McuReset(missed)

LEMMA NodeSteps ==
    ASSUME [LinuxNext]_linux_vars
    PROVE  \/ UNCHANGED vars
           \/ start \/ (\E more \in BOOLEAN : poll(more))
           \/ handle_bad \/ ingest_report \/ handle_missing \/ ingest_neighbour \/ handle_time \/ Handled
           \/ (\E m \in Modes : on_sweep(m)) \/ (\E m \in Modes : fallback(m)) \/ NoFallback
           \/ (\E dt \in 0 .. 1 : Sleep(dt))
           \/ (\E found \in [Pod -> Reports \union {"silent"}] : McuSweep(found))
           \/ (\E from \in Nbr \union {Self, None} : McuPacket(from))
           \/ (\E state \in TimeStates : McuTime(state))
           \/ (\E i \in 1 .. MaxLines : Damage(i))
           \/ TakesOrLoses \/ Resets \/ Crash \/ (\E m \in Modes : CrashInCycle(m))
  BY DEF LinuxNext, linux_vars, NodeStep, ClientStep, NodeNext, TakesOrLoses, Resets

LEMMA CommandFrame ==
    TakesOrLoses => pc = "sleep" /\
                    UNCHANGED <<pc, clk, skew, rx, part, lines, mcu_utc, mcu_utc_at, mcu_time_state, time_vars,
                                pods_present, rows, mode, db_mode, cycles, last_cycle_ts, graph, current, last_run>>
  BY Zenon DEF TakesOrLoses, McuTakesCadence, LoseCommand, time_vars

LEMMA ResetFrame ==
    Resets => /\ pc = "sleep"
              /\ UNCHANGED <<pc, clk, skew, part, lines, mcu_utc, mcu_utc_at, mcu_time_state, time_vars,
                             pods_present, rows, mode, db_mode, cycles, last_cycle_ts, graph, current, last_run>>
              /\ rx' = IF rx = <<>> THEN rx ELSE [rx EXCEPT ![Len(rx)] = [verb |-> "malformed"]]
  BY Zenon DEF Resets, McuReset, time_vars

LEMMA NodeNumbers ==
    /\ Cadence \in [Modes -> Nat \ {0}] /\ DefaultCadence \in Nat \ {0} /\ PruneEvery \in Nat \ {0}
    /\ MaxNeighbours \in Nat \ {0} /\ Window \in Nat /\ MaxClock \in Nat /\ MaxLines \in Nat
    /\ Skews \subseteq Int /\ Nbr \subseteq Nat /\ None \in Int
  BY NodeAssumption DEF None

\* The registers of the loop and of the microcontroller.
LoopOK ==
    /\ pc \in {"start", "poll", "handle", "fallback", "sleep"}
    /\ clk \in 0 .. MaxClock /\ skew \in Skews
    /\ mcu_utc \in Int /\ mcu_utc_at \in Int /\ mcu_time_state \in TimeStates
    /\ mode \in Modes /\ db_mode \in Modes
    /\ cycles \in 0 .. PruneEvery - 1 /\ last_cycle_ts \in Int
    /\ mcu_cadence \in {DefaultCadence} \union Range(Cadence)
    /\ last_run \in 0 .. clk /\ commands \in Seq(Modes) /\ astray \in BOOLEAN

\* The lines, on their way and read.
LinesOK ==
    /\ rx \in Seq(Line) /\ Len(rx) <= MaxLines
    /\ part \in BOOLEAN /\ (part => rx # <<>>)
    /\ lines \in Seq(Line)
    /\ pc # "handle" => lines = <<>>

\* What a line carries.
LEMMA LineKinds ==
    ASSUME NEW l \in Line
    PROVE  /\ l.verb = "POD" => l.pod \in Pod
           /\ l.verb = "MISSING" => l.pod \in Pod
           /\ l.verb = "NBR" => l.from \in Nbr \union {Self, None}
           /\ l.verb = "TIME" => l.utc \in Int /\ l.state \in TimeStates
  BY DEF Line

LEMMA LinesMade ==
    /\ [verb |-> "SWEEP"] \in Line /\ [verb |-> "noise"] \in Line /\ [verb |-> "malformed"] \in Line
    /\ \A p \in Pod : [verb |-> "MISSING", pod |-> p] \in Line
    /\ \A p \in Pod, r \in Reports : [verb |-> "POD", pod |-> p, report |-> r] \in Line
    /\ \A from \in Nbr \union {Self, None} : [verb |-> "NBR", from |-> from] \in Line
    /\ \A utc \in Int, state \in TimeStates : [verb |-> "TIME", utc |-> utc, state |-> state] \in Line
  BY DEF Line

LEMMA Concatenation ==
    ASSUME NEW S, NEW s \in Seq(S), NEW t \in Seq(S)
    PROVE  /\ s \o t \in Seq(S) /\ Len(s) \in Nat /\ Len(t) \in Nat /\ Len(s \o t) = Len(s) + Len(t)
           /\ \A i \in 1 .. Len(s) : (s \o t)[i] = s[i]
           /\ \A i \in 1 .. Len(t) : (s \o t)[Len(s) + i] = t[i]
  OBVIOUS

\* The lines of a sweep.
SweepLines(found) ==
    LET ofPod(p) == IF found[p] = "silent" THEN [verb |-> "MISSING", pod |-> p]
                    ELSE [verb |-> "POD", pod |-> p, report |-> found[p]]
        pods == SetToSeq(Pod)
    IN  [i \in DOMAIN pods |-> ofPod(pods[i])] \o <<[verb |-> "SWEEP"]>>

LEMMA PodsInOrder == SetToSeq(Pod) \in Seq(Pod)
<1>1. IsFiniteSet(Pod)
  BY NodeAssumption
<1>2. Cardinality(Pod) \in Nat /\ ExistsBijection(1 .. Cardinality(Pod), Pod)
  BY <1>1, FS_CardinalityType
<1>3. PICK f \in Bijection(1 .. Cardinality(Pod), Pod) : TRUE
  BY <1>2 DEF ExistsBijection
<1>4. f \in [1 .. Cardinality(Pod) -> Pod] /\ IsInjective(f)
  BY <1>3 DEF Bijection, Injection, IsInjective
<1>5. SetToSeq(Pod) \in [1 .. Cardinality(Pod) -> Pod]
  BY <1>4 DEF SetToSeq
<1> QED
  BY <1>2, <1>5

\* The lines that do not tell the time.
Timeless == {l \in Line : l.verb # "TIME"}

LEMMA SweepLinesType ==
    ASSUME NEW found \in [Pod -> Reports \union {"silent"}]
    PROVE  SweepLines(found) \in Seq(Timeless)
<1> DEFINE ofPod(p) == IF found[p] = "silent" THEN [verb |-> "MISSING", pod |-> p]
                       ELSE [verb |-> "POD", pod |-> p, report |-> found[p]]
           pods == SetToSeq(Pod)
           first == [i \in DOMAIN pods |-> ofPod(pods[i])]
           end == [verb |-> "SWEEP"]
<1>1. pods \in Seq(Pod) /\ Len(pods) \in Nat /\ DOMAIN pods = 1 .. Len(pods)
  BY PodsInOrder
<1>2. \A p \in Pod : ofPod(p) \in Timeless
  BY LinesMade DEF Timeless
<1>3. end \in Timeless
  BY LinesMade DEF Timeless
<1>4. SweepLines(found) = first \o <<end>>
  BY DEF SweepLines
<1> HIDE DEF ofPod, pods, end
<1>5. \A i \in 1 .. Len(pods) : ofPod(pods[i]) \in Timeless
  BY <1>1, <1>2
<1>6. first \in Seq(Timeless)
  BY <1>1, <1>5
<1>7. <<end>> \in Seq(Timeless)
  BY <1>3
<1> HIDE DEF first
<1>8. first \o <<end>> \in Seq(Timeless)
  BY <1>6, <1>7
<1> QED
  BY <1>4, <1>8

\* Every step of the microcontroller that sends.
Sends(new) ==
    /\ pc = "sleep" /\ pc' = pc /\ rx' = rx \o new /\ Len(rx) + Len(new) <= MaxLines
    /\ UNCHANGED <<clk, skew, part, lines, time_vars, pods_present, cycle_vars>>

\* What it sends: lines, and among them a time line that tells the time.
LEMMA McuSends ==
    ASSUME LoopOK,
           \/ \E found \in [Pod -> Reports \union {"silent"}] : McuSweep(found)
           \/ \E from \in Nbr \union {Self, None} : McuPacket(from)
           \/ \E state \in TimeStates : McuTime(state)
    PROVE  \E new \in Seq(Line) : /\ Sends(new)
                                  /\ \A i \in 1 .. Len(new) : new[i].verb = "TIME" => new[i].utc = clk + skew
<1>1. ASSUME NEW found \in [Pod -> Reports \union {"silent"}], McuSweep(found)
      PROVE  Sends(SweepLines(found))
  BY <1>1 DEF McuSweep, SweepLines, Send, Sends
<1>2. ASSUME NEW from \in Nbr \union {Self, None}, McuPacket(from)
      PROVE  \E new \in Seq(Line) : Sends(new) /\ Len(new) = 1 /\ new[1].verb = "NBR"
  <2> DEFINE line == [verb |-> "NBR", from |-> from]
  <2>1. Sends(<<line>>)
    BY <1>2 DEF McuPacket, Send, Sends
  <2>2. line \in Line /\ line.verb = "NBR"
    BY LinesMade
  <2> HIDE DEF line
  <2>3. <<line>> \in Seq(Line) /\ Len(<<line>>) = 1 /\ <<line>>[1] = line
    BY <2>2
  <2> QED
    BY <2>1, <2>2, <2>3
<1>3. ASSUME NEW state \in TimeStates, McuTime(state)
      PROVE  \E new \in Seq(Line) : Sends(new) /\ Len(new) = 1 /\ new[1].utc = clk + skew
  <2> DEFINE line == [verb |-> "TIME", utc |-> clk + skew, state |-> state]
  <2>1. Sends(<<line>>)
    BY <1>3 DEF McuTime, Send, Sends
  <2>2. clk + skew \in Int
    BY NodeNumbers DEF LoopOK
  <2>3. line \in Line /\ line.utc = clk + skew
    BY <2>2, LinesMade
  <2> HIDE DEF line
  <2>4. <<line>> \in Seq(Line) /\ Len(<<line>>) = 1 /\ <<line>>[1] = line
    BY <2>3
  <2> QED
    BY <2>1, <2>3, <2>4
<1>4. ASSUME NEW found \in [Pod -> Reports \union {"silent"}]
      PROVE  /\ SweepLines(found) \in Seq(Line)
             /\ \A i \in 1 .. Len(SweepLines(found)) : SweepLines(found)[i].verb # "TIME"
  <2>1. Timeless \subseteq Line
    BY DEF Timeless
  <2>2. SweepLines(found) \in Seq(Timeless)
    BY SweepLinesType
  <2>3. SweepLines(found) \in Seq(Line) /\ \A i \in 1 .. Len(SweepLines(found)) : SweepLines(found)[i] \in Timeless
    BY <2>1, <2>2
  <2> QED
    BY <2>3 DEF Timeless
<1> QED
  BY <1>1, <1>2, <1>3, <1>4

LEMMA NowType == LoopOK => now \in Int
  BY DEF LoopOK, now

LEMMA CadenceOfMode == \A m \in Modes : Cadence[m] \in Nat \ {0} /\ Cadence[m] \in Range(Cadence)
  BY NodeNumbers DEF Range

LEMMA AppendType ==
    ASSUME NEW S, NEW s \in Seq(S), NEW e \in S
    PROVE  Append(s, e) \in Seq(S)
  OBVIOUS

\* What a cycle does to the registers.
LEMMA CycleTypes ==
    ASSUME LoopOK, NEW m \in Modes, Cycle(now, m), UNCHANGED <<clk, skew, time_vars>>,
           pc' \in {"start", "poll", "handle", "fallback", "sleep"}
    PROVE  LoopOK'
<1>1. /\ mode' = m /\ db_mode' = m /\ cycles' = (cycles + 1) % PruneEvery /\ last_cycle_ts' = now /\ last_run' = clk
  BY DEF Cycle
<1>2. /\ mcu_cadence' = mcu_cadence /\ commands' \in {commands, Append(commands, m)} /\ astray' \in {astray, FALSE}
  BY DEF Cycle, SendCadence
<1>3. now \in Int
  BY NowType
<1>4. cycles' \in 0 .. PruneEvery - 1
  BY <1>1, NodeNumbers DEF LoopOK
<1>5. clk \in Nat /\ last_run' \in 0 .. clk'
  BY <1>1, NodeNumbers DEF LoopOK
<1>6. mcu_cadence' \in {DefaultCadence} \union Range(Cadence) /\ commands' \in Seq(Modes) /\ astray' \in BOOLEAN
  <2>1. mcu_cadence' \in {DefaultCadence} \union Range(Cadence)
    BY <1>2 DEF LoopOK
  <2>2. commands' \in Seq(Modes)
    BY <1>2, AppendType DEF LoopOK
  <2>3. astray' \in BOOLEAN
    BY <1>2, Zenon DEF LoopOK
  <2> QED
    BY <2>1, <2>2, <2>3
<1>7. UNCHANGED <<clk, skew, mcu_utc, mcu_utc_at, mcu_time_state>>
  BY DEF time_vars
<1> QED
  BY <1>1, <1>3, <1>4, <1>5, <1>6, <1>7 DEF LoopOK

\* What a restart of the process does to them.
LEMMA RestartTypes ==
    ASSUME LoopOK, Restart, mode' = db_mode,
           mcu_cadence' = mcu_cadence, commands' \in Seq(Modes), astray' \in BOOLEAN
    PROVE  LoopOK'
<1>1. /\ mcu_utc' = None /\ mcu_utc_at' = None /\ mcu_time_state' = "unlocked" /\ cycles' = 0
      /\ last_cycle_ts' = None /\ last_run' = clk /\ pc' = "start" /\ UNCHANGED <<clk, skew, db_mode>>
  BY DEF Restart
<1>2. 0 \in 0 .. PruneEvery - 1 /\ None \in Int /\ last_run' \in 0 .. clk'
  BY <1>1, NodeNumbers DEF LoopOK
<1>3. "unlocked" \in TimeStates
  BY DEF TimeStates
<1>4. mcu_cadence' \in {DefaultCadence} \union Range(Cadence) /\ commands' \in Seq(Modes) /\ astray' \in BOOLEAN
  BY DEF LoopOK
<1> QED
  BY <1>1, <1>2, <1>3, <1>4 DEF LoopOK

\* A sequence with its i-th element removed.
LEMMA Removed ==
    ASSUME NEW S, NEW s \in Seq(S), NEW i \in 1 .. Len(s)
    PROVE  /\ RemoveAt(s, i) \in Seq(S) /\ Len(RemoveAt(s, i)) = Len(s) - 1
           /\ i # Len(s) => RemoveAt(s, i)[Len(s) - 1] = s[Len(s)]
<1> DEFINE a == SubSeq(s, 1, i - 1)
           b == SubSeq(s, i + 1, Len(s))
<1>1. Len(s) \in Nat /\ i \in Nat /\ 1 <= i /\ i <= Len(s)
  OBVIOUS
<1>2. a \in Seq(S) /\ Len(a) = i - 1
  BY <1>1
<1>3. /\ b \in Seq(S) /\ Len(b) = Len(s) - i
      /\ \A k \in 1 .. Len(s) - i : b[k] = s[i + k]
  BY <1>1
<1>4. RemoveAt(s, i) = a \o b
  BY DEF RemoveAt
<1> HIDE DEF a, b
<1>5. /\ a \o b \in Seq(S) /\ Len(a \o b) = (i - 1) + (Len(s) - i)
      /\ \A k \in 1 .. Len(b) : (a \o b)[Len(a) + k] = b[k]
  <2>1. a \in Seq(S) /\ b \in Seq(S)
    BY <1>2, <1>3
  <2>2. \A x, y \in Seq(S) : /\ x \o y \in Seq(S) /\ Len(x \o y) = Len(x) + Len(y)
                             /\ \A k \in 1 .. Len(y) : (x \o y)[Len(x) + k] = y[k]
    BY Concatenation
  <2>3. /\ a \o b \in Seq(S) /\ Len(a \o b) = Len(a) + Len(b)
        /\ \A k \in 1 .. Len(b) : (a \o b)[Len(a) + k] = b[k]
    BY <2>1, <2>2, Zenon
  <2> QED
    BY <1>2, <1>3, <2>3
<1>6. ASSUME i # Len(s)
      PROVE  (a \o b)[Len(s) - 1] = s[Len(s)]
  <2>1. Len(s) - i \in 1 .. Len(b)
    BY <1>1, <1>3, <1>6
  <2>2. (a \o b)[Len(a) + (Len(s) - i)] = b[Len(s) - i]
    BY <1>5, <2>1
  <2>3. Len(a) + (Len(s) - i) = Len(s) - 1 /\ i + (Len(s) - i) = Len(s)
    BY <1>1, <1>2
  <2>4. b[Len(s) - i] = s[i + (Len(s) - i)]
    BY <1>3, <2>1
  <2> QED
    BY <2>2, <2>3, <2>4
<1> QED
  BY <1>1, <1>4, <1>5, <1>6

\* What the microcontroller does with the commands.
LEMMA CommandTypes ==
    ASSUME LoopOK, TakesOrLoses \/ Resets
    PROVE  mcu_cadence' \in {DefaultCadence} \union Range(Cadence) /\ commands' \in Seq(Modes) /\ astray' \in BOOLEAN
<1>0. commands \in Seq(Modes) /\ Len(commands) \in Nat /\ DOMAIN commands = 1 .. Len(commands)
  BY DEF LoopOK
<1>1. CASE McuTakesCadence
  <2>1. /\ commands # <<>> /\ mcu_cadence' = Cadence[Head(commands)] /\ commands' = Tail(commands) /\ astray' = astray
    BY <1>1 DEF McuTakesCadence
  <2>2. Head(commands) \in Modes /\ commands' \in Seq(Modes)
    BY <1>0, <2>1
  <2> QED
    BY <2>1, <2>2, CadenceOfMode DEF LoopOK
<1>2. ASSUME NEW i \in DOMAIN commands, LoseCommand(i)
      PROVE  mcu_cadence' = mcu_cadence /\ commands' \in Seq(Modes) /\ astray' \in BOOLEAN
  BY <1>0, <1>2, Removed DEF LoseCommand
<1>3. ASSUME NEW missed \in 0 .. Len(commands), McuReset(missed)
      PROVE  mcu_cadence' = DefaultCadence /\ commands' \in Seq(Modes) /\ astray' \in BOOLEAN
  <2>1. /\ mcu_cadence' = DefaultCadence /\ commands' = SubSeq(commands, missed + 1, Len(commands))
        /\ astray' = (astray \/ commands' = <<>>)
    BY <1>3 DEF McuReset
  <2>2. commands' \in Seq(Modes)
    BY <1>0, <2>1
  <2> QED
    BY <2>1, <2>2
<1> QED
  BY <1>1, <1>2, <1>3 DEF TakesOrLoses, Resets, LoopOK

LEMMA LoopStep == LoopOK /\ LinesOK /\ [LinuxNext]_linux_vars => LoopOK'
<1> SUFFICES ASSUME LoopOK, LinesOK, [LinuxNext]_linux_vars
             PROVE  LoopOK'
  OBVIOUS
<1>1. CASE start
  <2>1. /\ pc' = "poll" /\ commands' = Append(commands, mode) /\ astray' = FALSE
        /\ UNCHANGED <<clk, skew, time_vars, mode, db_mode, cycles, last_cycle_ts, mcu_cadence, last_run>>
    BY <1>1 DEF start, SendCadence
  <2>2. commands' \in Seq(Modes)
    BY <2>1, AppendType DEF LoopOK
  <2>3. astray' \in BOOLEAN
    BY <2>1, Zenon
  <2> QED
    BY <2>1, <2>2, <2>3 DEF LoopOK, time_vars
<1>2. CASE handle_time
  <2>1. /\ mcu_utc' = Head(lines).utc /\ mcu_utc_at' = clk /\ mcu_time_state' = Head(lines).state
        /\ Head(lines).verb = "TIME" /\ lines # <<>> /\ UNCHANGED <<pc, clk, skew, cycle_vars>>
    BY <1>2 DEF handle_time, TakeLine
  <2>2. Head(lines) \in Line
    BY <2>1 DEF LinesOK
  <2>3. mcu_utc' \in Int /\ mcu_time_state' \in TimeStates
    BY <2>1, <2>2, LineKinds
  <2>4. mcu_utc_at' \in Int
    BY <2>1, NodeNumbers DEF LoopOK
  <2> QED
    BY <2>1, <2>3, <2>4 DEF LoopOK, cycle_vars
<1>3. ASSUME NEW m \in Modes, on_sweep(m) \/ fallback(m)
      PROVE  LoopOK'
  <2>1. Cycle(now, m) /\ UNCHANGED <<clk, skew, time_vars>> /\ pc' \in {pc, "sleep"}
    BY <1>3, Zenon DEF on_sweep, fallback
  <2>2. pc' \in {"start", "poll", "handle", "fallback", "sleep"}
    BY <2>1 DEF LoopOK
  <2> QED
    BY <2>1, <2>2, CycleTypes
<1>4. ASSUME NEW dt \in 0 .. 1, Sleep(dt)
      PROVE  LoopOK'
  <2>1. /\ clk' = clk + dt /\ clk + dt <= MaxClock /\ pc' = "poll"
        /\ UNCHANGED <<skew, time_vars, mode, db_mode, cycles, last_cycle_ts, mcu_cadence, last_run,
                       commands, astray>>
    BY <1>4 DEF Sleep
  <2>2. clk' \in 0 .. MaxClock /\ last_run' \in 0 .. clk'
    BY <2>1, NodeNumbers DEF LoopOK
  <2> QED
    BY <2>1, <2>2 DEF LoopOK, time_vars
<1>5. CASE TakesOrLoses \/ Resets
  <2>1. UNCHANGED <<pc, clk, skew, mcu_utc, mcu_utc_at, mcu_time_state, mode, db_mode, cycles, last_cycle_ts, last_run>>
    BY <1>5, CommandFrame, ResetFrame
  <2>2. mcu_cadence' \in {DefaultCadence} \union Range(Cadence) /\ commands' \in Seq(Modes) /\ astray' \in BOOLEAN
    BY <1>5, CommandTypes
  <2> QED
    BY <2>1, <2>2 DEF LoopOK
<1>6. CASE Crash
  <2>1. /\ Restart /\ mode' = db_mode /\ mcu_cadence' = mcu_cadence
        /\ commands' \in Seq(Modes) /\ astray' \in BOOLEAN
    BY <1>6 DEF Crash, LoopOK
  <2> QED
    BY <2>1, RestartTypes
<1>7. ASSUME NEW m \in Modes, CrashInCycle(m)
      PROVE  LoopOK'
  <2>1. /\ Restart /\ mode' = db_mode /\ mcu_cadence' = mcu_cadence
        /\ commands' \in {commands, Append(commands, m)} /\ astray' \in {astray, FALSE}
    BY <1>7 DEF CrashInCycle, SendCadence
  <2>2. commands' \in Seq(Modes)
    BY <2>1, AppendType DEF LoopOK
  <2>3. astray' \in BOOLEAN
    BY <2>1, Zenon DEF LoopOK
  <2> QED
    BY <2>1, <2>2, <2>3, RestartTypes
<1>8. CASE \/ UNCHANGED vars \/ handle_bad \/ ingest_report \/ handle_missing \/ ingest_neighbour \/ Handled
           \/ NoFallback \/ (\E more \in BOOLEAN : poll(more)) \/ \E i \in 1 .. MaxLines : Damage(i)
  <2>1. /\ pc' \in {pc, "handle", "fallback", "sleep"}
        /\ UNCHANGED <<clk, skew, mcu_utc, mcu_utc_at, mcu_time_state, mode, db_mode, cycles, last_cycle_ts,
                       mcu_cadence, last_run, commands, astray>>
    BY <1>8, Zenon
    DEF vars, handle_bad, ingest_report, handle_missing, ingest_neighbour, Handled, NoFallback, poll, Damage,
        time_vars, cycle_vars
  <2> QED
    BY <2>1 DEF LoopOK
<1>9. CASE \/ \E found \in [Pod -> Reports \union {"silent"}] : McuSweep(found)
           \/ \E from \in Nbr \union {Self, None} : McuPacket(from)
           \/ \E state \in TimeStates : McuTime(state)
  <2>1. PICK new \in Seq(Line) : Sends(new)
    BY <1>9, McuSends
  <2>2. UNCHANGED <<pc, clk, skew, mcu_utc, mcu_utc_at, mcu_time_state, mode, db_mode, cycles, last_cycle_ts,
                    mcu_cadence, last_run, commands, astray>>
    BY <2>1, Zenon DEF Sends, time_vars, cycle_vars
  <2> QED
    BY <2>2 DEF LoopOK
<1> QED
  BY NodeSteps, <1>1, <1>2, <1>3, <1>4, <1>5, <1>6, <1>7, <1>8, <1>9

\* What poll makes of the lines that are there.
LEMMA PollReads ==
    ASSUME LinesOK, NEW more \in BOOLEAN, poll(more)
    PROVE  /\ rx' \in Seq(Line) /\ Len(rx') = (IF more THEN 1 ELSE 0) /\ Len(rx') <= Len(rx)
           /\ more => rx'[1] = rx[Len(rx)]
           /\ lines' \in Seq(Line) /\ Len(lines') <= Len(rx)
           /\ \A i \in 1 .. Len(lines') : lines'[i] = rx[i]
           /\ part' = more /\ pc' = "handle"
<1> DEFINE n == Len(rx) - (IF more THEN 1 ELSE 0)
<1>1. /\ lines' = SubSeq(rx, 1, n) /\ rx' = SubSeq(rx, n + 1, Len(rx)) /\ part' = more /\ pc' = "handle"
      /\ more => Len(rx) > (IF part THEN 1 ELSE 0)
  BY DEF poll
<1>2. rx \in Seq(Line) /\ Len(rx) \in Nat /\ n \in Nat /\ n <= Len(rx) /\ \A i \in 1 .. Len(rx) : rx[i] \in Line
  BY <1>1 DEF LinesOK
<1>3. Len(rx) = n + (IF more THEN 1 ELSE 0)
  BY <1>2
<1> HIDE DEF n
<1>4. lines' \in Seq(Line) /\ Len(lines') = n /\ \A i \in 1 .. n : lines'[i] = rx[i]
  BY <1>1, <1>2
<1>5. rx' \in Seq(Line) /\ Len(rx') = Len(rx) - n /\ \A i \in 1 .. Len(rx) - n : rx'[i] = rx[n + i]
  BY <1>1, <1>2
<1> QED
  BY <1>1, <1>2, <1>3, <1>4, <1>5

\* A line that is lost to damage.
LEMMA Damaged ==
    ASSUME rx \in Seq(Line), NEW i \in 1 .. Len(rx), NEW l \in Line
    PROVE  /\ [rx EXCEPT ![i] = l] \in Seq(Line) /\ Len([rx EXCEPT ![i] = l]) = Len(rx)
           /\ \A k \in 1 .. Len(rx) : [rx EXCEPT ![i] = l][k] = IF k = i THEN l ELSE rx[k]
  OBVIOUS

LEMMA LinesStep == LoopOK /\ LinesOK /\ [LinuxNext]_linux_vars => LinesOK'
<1> SUFFICES ASSUME LoopOK, LinesOK, [LinuxNext]_linux_vars
             PROVE  LinesOK'
  OBVIOUS
<1>0. rx \in Seq(Line) /\ Len(rx) \in Nat /\ Len(rx) <= MaxLines /\ lines \in Seq(Line) /\ DOMAIN rx = 1 .. Len(rx)
  BY DEF LinesOK
<1>1. ASSUME NEW more \in BOOLEAN, poll(more)
      PROVE  LinesOK'
  <2>1. rx' \in Seq(Line) /\ Len(rx') = (IF more THEN 1 ELSE 0) /\ Len(rx') <= MaxLines
    BY <1>0, <1>1, PollReads, NodeNumbers
  <2>2. part' = more /\ pc' = "handle" /\ lines' \in Seq(Line)
    BY <1>1, PollReads
  <2>3. part' => rx' # <<>>
    BY <2>1, <2>2
  <2> QED
    BY <2>1, <2>2, <2>3 DEF LinesOK
<1>2. CASE \/ handle_bad \/ ingest_report \/ handle_missing \/ ingest_neighbour \/ handle_time
           \/ \E m \in Modes : on_sweep(m)
  <2>1. lines # <<>> /\ lines' = Tail(lines) /\ pc = "handle" /\ UNCHANGED <<pc, rx, part>>
    BY <1>2, Zenon DEF handle_bad, ingest_report, handle_missing, ingest_neighbour, handle_time, on_sweep, TakeLine
  <2>2. lines' \in Seq(Line)
    BY <1>0, <2>1
  <2> QED
    BY <2>1, <2>2 DEF LinesOK
<1>3. CASE \/ UNCHANGED vars \/ start \/ Handled \/ NoFallback \/ TakesOrLoses
           \/ (\E m \in Modes : fallback(m)) \/ \E dt \in 0 .. 1 : Sleep(dt)
  <2>1. /\ UNCHANGED <<rx, part, lines>>
        /\ pc' # "handle" => pc # "handle" \/ lines = <<>>
    BY <1>3, CommandFrame, Zenon DEF vars, start, Handled, NoFallback, fallback, Sleep
  <2> QED
    BY <2>1 DEF LinesOK
<1>4. CASE \/ \E found \in [Pod -> Reports \union {"silent"}] : McuSweep(found)
           \/ \E from \in Nbr \union {Self, None} : McuPacket(from)
           \/ \E state \in TimeStates : McuTime(state)
  <2>1. PICK new \in Seq(Line) : Sends(new)
    BY <1>4, McuSends
  <2>2. /\ pc' = pc /\ rx' = rx \o new /\ Len(rx) + Len(new) <= MaxLines /\ UNCHANGED <<part, lines>>
    BY <2>1 DEF Sends
  <2>3. rx' \in Seq(Line) /\ Len(rx') = Len(rx) + Len(new) /\ Len(new) \in Nat
    BY <1>0, <2>2, Concatenation
  <2>4. rx # <<>> => rx' # <<>>
    BY <1>0, <2>3
  <2> QED
    BY <1>0, <2>2, <2>3, <2>4 DEF LinesOK
<1>5. ASSUME NEW i \in 1 .. MaxLines, Damage(i)
      PROVE  LinesOK'
  <2>1. i \in 1 .. Len(rx) /\ rx' = [rx EXCEPT ![i] = [verb |-> "malformed"]] /\ UNCHANGED <<pc, part, lines>>
    BY <1>0, <1>5 DEF Damage
  <2>2. rx' \in Seq(Line) /\ Len(rx') = Len(rx)
    BY <1>0, <2>1, LinesMade, Damaged
  <2>3. rx' # <<>>
    BY <1>0, <2>1, <2>2
  <2> QED
    BY <1>0, <2>1, <2>2, <2>3 DEF LinesOK
<1>6. CASE Resets
  <2>1. UNCHANGED <<pc, part, lines>>
    BY <1>6, ResetFrame
  <2>2. CASE rx = <<>>
    BY <1>6, <2>1, <2>2, ResetFrame DEF LinesOK
  <2>3. CASE rx # <<>>
    <3>1. rx' = [rx EXCEPT ![Len(rx)] = [verb |-> "malformed"]] /\ Len(rx) \in 1 .. Len(rx)
      BY <1>0, <1>6, <2>3, ResetFrame
    <3>2. rx' \in Seq(Line) /\ Len(rx') = Len(rx)
      BY <1>0, <3>1, LinesMade, Damaged
    <3>3. rx' # <<>>
      BY <1>0, <3>1, <3>2
    <3> QED
      BY <1>0, <2>1, <3>2, <3>3 DEF LinesOK
  <2> QED
    BY <2>2, <2>3
<1>7. CASE Crash \/ \E m \in Modes : CrashInCycle(m)
  <2>1. /\ lines' = <<>> /\ part' = FALSE /\ pc' = "start"
        /\ rx' = IF part THEN [rx EXCEPT ![1] = [verb |-> "noise"]] ELSE rx
    BY <1>7, Zenon DEF Crash, CrashInCycle, Restart
  <2>2. lines' \in Seq(Line)
    BY <2>1
  <2>3. CASE part
    <3>1. 1 \in 1 .. Len(rx)
      BY <1>0, <2>3 DEF LinesOK
    <3>2. rx' \in Seq(Line) /\ Len(rx') = Len(rx)
      BY <1>0, <2>1, <2>3, <3>1, LinesMade, Damaged
    <3> QED
      BY <1>0, <2>1, <2>2, <3>2 DEF LinesOK
  <2>4. CASE ~part
    BY <1>0, <2>1, <2>2, <2>4 DEF LinesOK
  <2> QED
    BY <2>3, <2>4
<1> QED
  BY NodeSteps, <1>1, <1>2, <1>3, <1>4, <1>5, <1>6, <1>7

\* The tables, the graph of this pass, and which pods are there.
TablesOK ==
    /\ pods_present \in [Pod -> BOOLEAN]
    /\ \A r \in rows : r \in Row
    /\ \A r, s \in rows : r.ts = s.ts /\ r.node = s.node => r = s
    /\ IsFiniteSet(rows)
    /\ DOMAIN graph \subseteq Nbr /\ DOMAIN current \subseteq Nbr

\* The graph stage is given neighbours that were heard.
LEMMA NeighboursHeard ==
    ASSUME NEW ts
    PROVE  /\ build_graph_inputs(collect_neighbours(ts)) \subseteq collect_neighbours(ts)
           /\ \A n \in collect_neighbours(ts) : \E r \in rows : r.node = n /\ r.ts >= ts - Window
  BY DEF build_graph_inputs, collect_neighbours, neighbours_seen

LEMMA CycleTables ==
    ASSUME TablesOK, NEW ts, NEW m, Cycle(ts, m), UNCHANGED pods_present
    PROVE  TablesOK'
<1>1. /\ current' = LastHeard(collect_neighbours(ts))
      /\ graph' = LastHeard(build_graph_inputs(collect_neighbours(ts)))
      /\ rows' \subseteq rows
  BY DEF Cycle
<1>2. DOMAIN current' = collect_neighbours(ts) /\ DOMAIN graph' = build_graph_inputs(collect_neighbours(ts))
  BY <1>1 DEF LastHeard
<1>3. collect_neighbours(ts) \subseteq Nbr
  BY NeighboursHeard DEF TablesOK, Row
<1>4. DOMAIN graph' \subseteq Nbr /\ DOMAIN current' \subseteq Nbr
  BY <1>2, <1>3, NeighboursHeard
<1>5. IsFiniteSet(rows')
  BY <1>1, FS_Subset DEF TablesOK
<1> QED
  BY <1>1, <1>4, <1>5 DEF TablesOK

\* A neighbour's packet replaces the row of its second, and adds no second one.
LEMMA PutEmbedding ==
    ASSUME TablesOK, NEW ts \in Int, NEW node \in Nbr, clk \in Nat, rows' = put_embedding(ts, node)
    PROVE  /\ \A r \in rows' : r \in Row
           /\ \A r, s \in rows' : r.ts = s.ts /\ r.node = s.node => r = s
           /\ IsFiniteSet(rows')
           /\ \A r \in rows' : r \in rows \/ (r.ts = ts /\ r.node = node /\ r.at = clk)
<1> DEFINE new == [ts |-> ts, node |-> node, at |-> clk]
           kept == {r \in rows : r.ts # ts \/ r.node # node}
<1>1. rows' = kept \union {new}
  BY DEF put_embedding
<1>2. new \in Row /\ new.ts = ts /\ new.node = node /\ new.at = clk
  BY DEF Row
<1>3. kept \subseteq rows /\ \A r \in kept : r.ts # ts \/ r.node # node
  OBVIOUS
<1> HIDE DEF new, kept
<1>4. IsFiniteSet(kept)
  BY <1>3, FS_Subset DEF TablesOK
<1>5. IsFiniteSet(rows')
  BY <1>1, <1>4, FS_AddElement
<1>6. \A r, s \in rows' : r.ts = s.ts /\ r.node = s.node => r = s
  BY <1>1, <1>2, <1>3 DEF TablesOK
<1>7. \A r \in rows' : r \in Row /\ (r \in rows \/ (r.ts = ts /\ r.node = node /\ r.at = clk))
  BY <1>1, <1>2, <1>3 DEF TablesOK
<1> QED
  BY <1>5, <1>6, <1>7

\* What a packet does to the rows.
LEMMA NeighbourIngested ==
    ASSUME LoopOK, LinesOK, ingest_neighbour
    PROVE  \/ rows' = rows
           \/ \E node \in Nbr : rows' = put_embedding(now, node)
<1>1. /\ lines # <<>> /\ Head(lines).verb = "NBR"
      /\ rows' = IF Head(lines).from \in {None, Self} THEN rows ELSE put_embedding(now, Head(lines).from)
  BY DEF ingest_neighbour, TakeLine, decode_packet
<1>2. Head(lines) \in Line
  BY <1>1 DEF LinesOK
<1>3. Head(lines).from \in Nbr \union {Self, None}
  BY <1>1, <1>2, LineKinds
<1> QED
  BY <1>1, <1>3

LEMMA TablesStep == LoopOK /\ LinesOK /\ TablesOK /\ [LinuxNext]_linux_vars => TablesOK'
<1> SUFFICES ASSUME LoopOK, LinesOK, TablesOK, [LinuxNext]_linux_vars
             PROVE  TablesOK'
  OBVIOUS
<1>1. CASE ingest_neighbour
  <2>1. UNCHANGED <<pods_present, graph, current>>
    BY <1>1 DEF ingest_neighbour
  <2>2. CASE rows' = rows
    BY <2>1, <2>2 DEF TablesOK
  <2>3. ASSUME NEW node \in Nbr, rows' = put_embedding(now, node)
        PROVE  TablesOK'
    <3>1. clk \in Nat /\ now \in Int
      BY NowType, NodeNumbers DEF LoopOK
    <3>2. /\ \A r \in rows' : r \in Row
          /\ \A r, s \in rows' : r.ts = s.ts /\ r.node = s.node => r = s
          /\ IsFiniteSet(rows')
      BY <2>3, <3>1, PutEmbedding
    <3> QED
      BY <2>1, <3>2 DEF TablesOK
  <2> QED
    BY <1>1, <2>2, <2>3, NeighbourIngested
<1>2. ASSUME NEW m \in Modes, on_sweep(m) \/ fallback(m)
      PROVE  TablesOK'
  <2>1. Cycle(now, m) /\ UNCHANGED pods_present
    BY <1>2, Zenon DEF on_sweep, fallback
  <2> QED
    BY <2>1, CycleTables
<1>3. CASE \E dt \in 0 .. 1 : Sleep(dt)
  <2>1. graph' = <<>> /\ current' = <<>> /\ UNCHANGED <<pods_present, rows>>
    BY <1>3, Zenon DEF Sleep
  <2>2. DOMAIN graph' = {} /\ DOMAIN current' = {}
    BY <2>1
  <2> QED
    BY <2>1, <2>2 DEF TablesOK
<1>4. CASE Crash \/ \E m \in Modes : CrashInCycle(m)
  <2>1. graph' = <<>> /\ current' = <<>> /\ pods_present' = [p \in Pod |-> FALSE] /\ rows' = rows
    BY <1>4, Zenon DEF Crash, CrashInCycle, Restart
  <2>2. DOMAIN graph' = {} /\ DOMAIN current' = {}
    BY <2>1
  <2> QED
    BY <2>1, <2>2 DEF TablesOK
<1>5. CASE ingest_report \/ handle_missing
  <2>1. /\ UNCHANGED <<rows, graph, current>>
        /\ pods_present' = pods_present \/ \E b \in BOOLEAN : pods_present' = [pods_present EXCEPT ![Head(lines).pod] = b]
    BY <1>5 DEF ingest_report, handle_missing, cycle_vars
  <2> QED
    BY <2>1 DEF TablesOK
<1>6. CASE \/ UNCHANGED vars \/ start \/ handle_bad \/ handle_time \/ Handled \/ NoFallback \/ TakesOrLoses \/ Resets
           \/ (\E more \in BOOLEAN : poll(more)) \/ \E i \in 1 .. MaxLines : Damage(i)
  <2>1. UNCHANGED <<pods_present, rows, graph, current>>
    BY <1>6, CommandFrame, ResetFrame, Zenon
    DEF vars, start, handle_bad, handle_time, Handled, NoFallback, poll, Damage, cycle_vars
  <2> QED
    BY <2>1 DEF TablesOK
<1>7. CASE \/ \E found \in [Pod -> Reports \union {"silent"}] : McuSweep(found)
           \/ \E from \in Nbr \union {Self, None} : McuPacket(from)
           \/ \E state \in TimeStates : McuTime(state)
  <2>1. UNCHANGED <<pods_present, rows, graph, current>>
    BY <1>7, McuSends DEF Sends, cycle_vars
  <2> QED
    BY <2>1 DEF TablesOK
<1> QED
  BY NodeSteps, <1>1, <1>2, <1>3, <1>4, <1>5, <1>6, <1>7

NodeInv == LoopOK /\ LinesOK /\ TablesOK

LEMMA NodeHolds == LinuxSpec => []NodeInv
<1>1. LinuxInit => NodeInv
  <2> SUFFICES ASSUME LinuxInit
               PROVE  NodeInv
    OBVIOUS
  <2>1. LoopOK
    <3>1. 0 \in 0 .. MaxClock /\ 0 \in 0 .. PruneEvery - 1 /\ None \in Int /\ 0 \in 0 .. 0
      BY NodeNumbers
    <3>2. /\ pc = "start" /\ clk = 0 /\ skew \in Skews /\ mcu_utc = None /\ mcu_utc_at = None
          /\ mcu_time_state = "unlocked" /\ mode = "baseline" /\ db_mode = "baseline" /\ cycles = 0
          /\ last_cycle_ts = None /\ mcu_cadence = DefaultCadence /\ last_run = 0
      BY DEF LinuxInit, Init
    <3>3. "unlocked" \in TimeStates /\ "baseline" \in Modes
      BY DEF TimeStates, Modes
    <3>4. astray \in BOOLEAN /\ commands \in Seq(Modes)
      <4>1. astray = TRUE /\ commands = <<>>
        BY DEF LinuxInit, Init
      <4> QED
        BY <4>1
    <3> QED
      BY <3>1, <3>2, <3>3, <3>4 DEF LoopOK
  <2>2. LinesOK
    <3>1. rx = <<>> /\ lines = <<>> /\ part = FALSE
      BY DEF LinuxInit, Init
    <3>2. rx \in Seq(Line) /\ Len(rx) = 0 /\ lines \in Seq(Line)
      BY <3>1
    <3>3. Len(rx) <= MaxLines
      BY <3>2, NodeNumbers
    <3>4. part \in BOOLEAN /\ ~part
      BY <3>1, Zenon
    <3> QED
      BY <3>1, <3>2, <3>3, <3>4, Zenon DEF LinesOK
  <2>3. TablesOK
    <3>1. graph = <<>> /\ current = <<>> /\ rows = {} /\ pods_present = [p \in Pod |-> FALSE]
      BY DEF LinuxInit, Init
    <3>2. DOMAIN graph = {} /\ DOMAIN current = {}
      BY <3>1
    <3> QED
      BY <3>1, <3>2, FS_EmptySet DEF TablesOK
  <2> QED
    BY <2>1, <2>2, <2>3 DEF NodeInv
<1>2. NodeInv /\ [LinuxNext]_linux_vars => NodeInv'
  BY LoopStep, LinesStep, TablesStep DEF NodeInv
<1> QED
  BY <1>1, <1>2, PTL DEF LinuxSpec, LinuxNext, linux_vars

\* The main loop keeps its types, a line read in part included, and the embeddings
\* table its key: a neighbour has one row of a second, however often it is heard in it
\* (node.py, store.py put_embedding).
THEOREM NodeTypes == LinuxSpec => []NodeTypeOK
<1>1. NodeInv => NodeTypeOK
  BY DEF NodeInv, LoopOK, LinesOK, TablesOK, NodeTypeOK
<1> QED
  BY <1>1, NodeHolds, PTL

-----------------------------------------------------------------------------
(* The main loop: the cadence *)

\* When the last command has neither got lost nor been undone, the microcontroller has
\* the node's cadence or the last command on its way has.
CadenceInv ==
    pc # "start" /\ ~astray =>
        IF commands = <<>> THEN mcu_cadence = Cadence[mode] ELSE commands[Len(commands)] = mode

LEMMA LastAppended ==
    ASSUME NEW S, NEW s \in Seq(S), NEW e \in S
    PROVE  Append(s, e) # <<>> /\ Append(s, e)[Len(Append(s, e))] = e
  OBVIOUS

LEMMA LastKept ==
    ASSUME NEW S, NEW s \in Seq(S), NEW k \in 1 .. Len(s)
    PROVE  LET rest == SubSeq(s, k, Len(s)) IN rest # <<>> /\ rest[Len(rest)] = s[Len(s)]
<1> DEFINE rest == SubSeq(s, k, Len(s))
<1>1. Len(s) \in Nat /\ k \in Nat /\ 1 <= k /\ k <= Len(s)
  OBVIOUS
<1>2. Len(rest) = Len(s) - k + 1 /\ \A i \in 1 .. Len(s) - k + 1 : rest[i] = s[k + i - 1]
  BY <1>1
<1> HIDE DEF rest
<1>3. rest # <<>>
  <2>1. Len(rest) # 0
    BY <1>1, <1>2
  <2> QED
    BY <2>1
<1>4. Len(s) - k + 1 \in 1 .. Len(s) - k + 1 /\ k + (Len(s) - k + 1) - 1 = Len(s)
  BY <1>1
<1>5. rest[Len(s) - k + 1] = s[k + (Len(s) - k + 1) - 1]
  BY <1>2, <1>4
<1> QED
  BY <1>2, <1>3, <1>4, <1>5 DEF rest

LEMMA AfterThem == \A n \in Nat : \A k \in 0 .. n : k # n => k + 1 \in 1 .. n
  OBVIOUS

LEMMA CadenceStep == NodeInv /\ CadenceInv /\ [LinuxNext]_linux_vars => CadenceInv'
<1> SUFFICES ASSUME NodeInv, CadenceInv, [LinuxNext]_linux_vars
             PROVE  CadenceInv'
  OBVIOUS
<1> USE DEF CadenceInv
<1>0. commands \in Seq(Modes) /\ Len(commands) \in Nat /\ DOMAIN commands = 1 .. Len(commands) /\ mode \in Modes
  BY DEF NodeInv, LoopOK
<1>1. CASE start
  <2>1. commands' = Append(commands, mode) /\ mode' = mode
    BY <1>1 DEF start, SendCadence
  <2> QED
    BY <1>0, <2>1, LastAppended
<1>2. ASSUME NEW m \in Modes, on_sweep(m) \/ fallback(m)
      PROVE  CadenceInv'
  <2>1. Cycle(now, m) /\ pc # "start"
    BY <1>2 DEF on_sweep, fallback, TakeLine
  <2>2. /\ mode' = m /\ mcu_cadence' = mcu_cadence
        /\ IF m # mode THEN commands' = Append(commands, m) ELSE UNCHANGED <<commands, astray>>
    BY <2>1 DEF Cycle, SendCadence
  <2>3. CASE m # mode
    BY <1>0, <2>2, <2>3, LastAppended
  <2>4. CASE m = mode
    BY <2>1, <2>2, <2>4
  <2> QED
    BY <2>3, <2>4
<1>3. CASE Crash \/ \E m \in Modes : CrashInCycle(m)
  <2>1. pc' = "start"
    BY <1>3, Zenon DEF Crash, CrashInCycle, Restart
  <2> QED
    BY <2>1
<1>4. CASE McuTakesCadence
  <2>1. /\ pc = "sleep" /\ mode' = mode /\ commands # <<>> /\ astray' = astray
        /\ mcu_cadence' = Cadence[Head(commands)] /\ commands' = Tail(commands)
    BY <1>4 DEF McuTakesCadence
  <2>2. CASE Len(commands) = 1
    <3>1. commands' = <<>> /\ Head(commands) = commands[Len(commands)]
      BY <1>0, <2>1, <2>2
    <3> QED
      BY <2>1, <3>1
  <2>3. CASE Len(commands) # 1
    <3>1. 2 \in 1 .. Len(commands) /\ commands' = SubSeq(commands, 2, Len(commands))
      BY <1>0, <2>1, <2>3
    <3>2. commands' # <<>> /\ commands'[Len(commands')] = commands[Len(commands)]
      BY <1>0, <3>1, LastKept
    <3> QED
      BY <2>1, <3>2
  <2> QED
    BY <2>2, <2>3
<1>5. ASSUME NEW i \in DOMAIN commands, LoseCommand(i)
      PROVE  CadenceInv'
  <2>1. /\ pc = "sleep" /\ mode' = mode /\ commands' = RemoveAt(commands, i)
        /\ astray' = (astray \/ i = Len(commands))
    BY <1>5 DEF LoseCommand
  <2>2. CASE i = Len(commands)
    BY <2>1, <2>2
  <2>3. CASE i # Len(commands)
    <3>1. /\ commands' \in Seq(Modes) /\ Len(commands') = Len(commands) - 1
          /\ commands'[Len(commands) - 1] = commands[Len(commands)]
      BY <1>0, <2>1, <2>3, Removed
    <3>2. commands # <<>> /\ commands' # <<>>
      BY <1>0, <2>3, <3>1
    <3> QED
      BY <2>1, <3>1, <3>2
  <2> QED
    BY <2>2, <2>3
<1>6. ASSUME NEW missed \in 0 .. Len(commands), McuReset(missed)
      PROVE  CadenceInv'
  <2>1. /\ pc = "sleep" /\ mode' = mode /\ commands' = SubSeq(commands, missed + 1, Len(commands))
        /\ astray' = (astray \/ commands' = <<>>)
    BY <1>6 DEF McuReset
  <2>2. CASE missed = Len(commands)
    <3>1. commands' = <<>>
      BY <1>0, <2>1, <2>2
    <3> QED
      BY <2>1, <3>1
  <2>3. CASE missed # Len(commands)
    <3>1. missed + 1 \in 1 .. Len(commands)
      BY <1>0, <2>3, AfterThem, Zenon
    <3>2. commands # <<>>
      BY <1>0, <3>1
    <3>3. commands' # <<>> /\ commands'[Len(commands')] = commands[Len(commands)]
      BY <1>0, <2>1, <3>1, LastKept
    <3> QED
      BY <2>1, <3>2, <3>3
  <2> QED
    BY <2>2, <2>3
<1>7. CASE \/ UNCHANGED vars \/ (\E more \in BOOLEAN : poll(more)) \/ (\E dt \in 0 .. 1 : Sleep(dt))
           \/ handle_bad \/ ingest_report \/ handle_missing \/ ingest_neighbour \/ handle_time \/ Handled
           \/ NoFallback \/ \E i \in 1 .. MaxLines : Damage(i)
  <2>1. UNCHANGED <<mode, commands, mcu_cadence, astray>> /\ (pc' # "start" => pc # "start")
    BY <1>7
    DEF vars, poll, Sleep, handle_bad, ingest_report, handle_missing, ingest_neighbour, handle_time, Handled,
        NoFallback, Damage, TakeLine, cycle_vars
  <2> QED
    BY <2>1
<1>8. CASE \/ \E found \in [Pod -> Reports \union {"silent"}] : McuSweep(found)
           \/ \E from \in Nbr \union {Self, None} : McuPacket(from)
           \/ \E state \in TimeStates : McuTime(state)
  <2>1. UNCHANGED <<mode, commands, mcu_cadence, astray, pc>>
    BY <1>8, McuSends DEF NodeInv, Sends, cycle_vars
  <2> QED
    BY <2>1
<1> QED
  BY NodeSteps, <1>1, <1>2, <1>3, <1>4, <1>5, <1>6, <1>7, <1>8 DEF TakesOrLoses, Resets

\* When no command is on its way any more, the microcontroller has the node's cadence
\* unless the last command got lost or a reset undid it: neither a crash between telling
\* it and storing the mode, nor an older command that comes late, makes them differ, for
\* any number of commands on the way (start, run_cycle).
THEOREM SameCadence == LinuxSpec => []CadenceAgrees
<1>1. LinuxInit => CadenceInv
  BY DEF LinuxInit, Init, CadenceInv
<1>2. CadenceInv => CadenceAgrees
  BY DEF CadenceInv, CadenceAgrees
<1> QED
  BY <1>1, <1>2, NodeHolds, CadenceStep, PTL DEF LinuxSpec, LinuxNext, linux_vars

-----------------------------------------------------------------------------
(* The main loop: the age of a time line and what it does to the clock *)

\* A time line as old as a tick, and one that was sent in this one; tells is what the
\* microcontroller's clock shows.
RecentLine(l, tells) == l.verb = "TIME" => l.utc \in {tells - 1, tells}
FreshLine(l, tells)  == l.verb = "TIME" => l.utc = tells

\* A line is read within a tick: the rest of a line read in part comes in before the
\* clock moves on.
LineAge ==
    /\ \A i \in 1 .. Len(rx) : RecentLine(rx[i], clk + skew)
    /\ pc # "poll" => \A i \in 1 .. Len(rx) : i > 1 \/ ~part => FreshLine(rx[i], clk + skew)
    /\ \A i \in 1 .. Len(lines) : RecentLine(lines[i], clk + skew)

LEMMA Ages ==
    ASSUME NEW l, NEW tells \in Int
    PROVE  /\ FreshLine(l, tells) => RecentLine(l, tells) /\ RecentLine(l, tells + 1)
           /\ l.verb # "TIME" => FreshLine(l, tells)
<1>1. FreshLine(l, tells) => RecentLine(l, tells) /\ RecentLine(l, tells + 1)
  <2>1. tells = (tells + 1) - 1
    OBVIOUS
  <2> QED
    BY <2>1 DEF FreshLine, RecentLine
<1>2. l.verb # "TIME" => FreshLine(l, tells)
  BY DEF FreshLine
<1> QED
  BY <1>1, <1>2

LEMMA RecentIs ==
    ASSUME NEW l, NEW tells, RecentLine(l, tells), l.verb = "TIME"
    PROVE  l.utc = tells - 1 \/ l.utc = tells
  BY DEF RecentLine

LEMMA LineAgeStep == NodeInv /\ LineAge /\ [LinuxNext]_linux_vars => LineAge'
<1> SUFFICES ASSUME NodeInv, LineAge, [LinuxNext]_linux_vars
             PROVE  LineAge'
  OBVIOUS
<1> DEFINE t == clk + skew
<1>0. /\ t \in Int /\ clk \in Nat /\ skew \in Int /\ rx \in Seq(Line) /\ lines \in Seq(Line)
      /\ Len(rx) \in Nat /\ Len(lines) \in Nat
  BY NodeNumbers DEF NodeInv, LoopOK, LinesOK
<1>1. ASSUME NEW more \in BOOLEAN, poll(more)
      PROVE  LineAge'
  <2>1. /\ Len(rx') = (IF more THEN 1 ELSE 0) /\ Len(rx') <= Len(rx) /\ (more => rx'[1] = rx[Len(rx)])
        /\ Len(lines') <= Len(rx) /\ lines' \in Seq(Line) /\ \A i \in 1 .. Len(lines') : lines'[i] = rx[i]
        /\ part' = more
    BY <1>1, PollReads DEF NodeInv
  <2>2. UNCHANGED <<clk, skew>>
    BY <1>1 DEF poll
  <2>3. \A i \in 1 .. Len(lines') : RecentLine(lines'[i], t)
    <3>1. \A i \in 1 .. Len(lines') : i \in 1 .. Len(rx)
      BY <1>0, <2>1
    <3> QED
      BY <2>1, <3>1 DEF LineAge
  <2>4. ASSUME NEW i \in 1 .. Len(rx')
        PROVE  RecentLine(rx'[i], t) /\ ~(i > 1) /\ part'
    <3>1. more /\ i = 1 /\ Len(rx) \in 1 .. Len(rx)
      BY <1>0, <2>1
    <3> QED
      BY <2>1, <3>1 DEF LineAge
  <2> QED
    BY <2>2, <2>3, <2>4 DEF LineAge
<1>2. CASE \/ handle_bad \/ ingest_report \/ handle_missing \/ ingest_neighbour \/ handle_time
           \/ \E m \in Modes : on_sweep(m)
  <2>1. lines # <<>> /\ lines' = Tail(lines) /\ UNCHANGED <<pc, clk, skew, rx, part>>
    BY <1>2, Zenon DEF handle_bad, ingest_report, handle_missing, ingest_neighbour, handle_time, on_sweep, TakeLine
  <2>2. \A i \in 1 .. Len(lines') : lines'[i] = lines[i + 1] /\ i + 1 \in 1 .. Len(lines)
    BY <1>0, <2>1
  <2>3. \A i \in 1 .. Len(lines') : RecentLine(lines'[i], t)
    BY <2>2 DEF LineAge
  <2> QED
    BY <2>1, <2>3 DEF LineAge
<1>3. CASE \/ UNCHANGED vars \/ start \/ Handled \/ NoFallback \/ TakesOrLoses \/ \E m \in Modes : fallback(m)
  <2>1. UNCHANGED <<clk, skew, rx, part, lines>> /\ (pc' # "poll" => pc # "poll")
    BY <1>3, CommandFrame DEF vars, start, Handled, NoFallback, fallback
  <2> QED
    BY <2>1 DEF LineAge
<1>4. ASSUME NEW dt \in 0 .. 1, Sleep(dt)
      PROVE  LineAge'
  <2>1. pc = "sleep" /\ pc' = "poll" /\ clk' = clk + dt /\ (dt # 0 => ~part) /\ UNCHANGED <<skew, rx, part, lines>>
    BY <1>4 DEF Sleep
  <2>2. \A i \in 1 .. Len(lines) : FALSE
    BY <2>1 DEF NodeInv, LinesOK
  <2>3. CASE dt = 0
    <3>1. clk' = clk
      BY <1>0, <2>1, <2>3
    <3> QED
      BY <2>1, <3>1 DEF LineAge
  <2>4. CASE dt = 1
    <3>1. \A i \in 1 .. Len(rx) : FreshLine(rx[i], t)
      BY <2>1, <2>4 DEF LineAge
    <3>2. \A i \in 1 .. Len(rx) : RecentLine(rx[i], t + 1)
      BY <1>0, <3>1, Ages
    <3>3. clk' + skew' = t + 1
      BY <1>0, <2>1, <2>4
    <3>4. \A i \in 1 .. Len(rx) : RecentLine(rx[i], clk' + skew')
      BY <3>2, <3>3
    <3> QED
      BY <2>1, <2>2, <3>4 DEF LineAge
  <2> QED
    BY <2>3, <2>4
<1>5. CASE \/ \E found \in [Pod -> Reports \union {"silent"}] : McuSweep(found)
           \/ \E from \in Nbr \union {Self, None} : McuPacket(from)
           \/ \E state \in TimeStates : McuTime(state)
  <2>1. PICK new \in Seq(Line) : /\ Sends(new)
                                 /\ \A i \in 1 .. Len(new) : new[i].verb = "TIME" => new[i].utc = clk + skew
    BY <1>5, McuSends DEF NodeInv
  <2>2. pc = "sleep" /\ rx' = rx \o new /\ UNCHANGED <<pc, clk, skew, part, lines>>
    BY <2>1 DEF Sends
  <2>3. \A i \in 1 .. Len(new) : FreshLine(new[i], t)
    BY <2>1 DEF FreshLine
  <2>4. /\ Len(rx') = Len(rx) + Len(new) /\ Len(new) \in Nat
        /\ \A i \in 1 .. Len(rx) : rx'[i] = rx[i]
        /\ \A i \in 1 .. Len(new) : rx'[Len(rx) + i] = new[i]
    BY <1>0, <2>2, Concatenation
  <2>5. ASSUME NEW i \in 1 .. Len(rx')
        PROVE  RecentLine(rx'[i], t) /\ (i > 1 \/ ~part => FreshLine(rx'[i], t))
    <3>1. CASE i \in 1 .. Len(rx)
      BY <2>2, <2>4, <3>1 DEF LineAge
    <3>2. CASE i \notin 1 .. Len(rx)
      <4>1. i - Len(rx) \in 1 .. Len(new) /\ Len(rx) + (i - Len(rx)) = i
        BY <1>0, <2>4, <3>2
      <4>2. FreshLine(rx'[i], t)
        BY <2>3, <2>4, <4>1
      <4> QED
        BY <1>0, <4>2, Ages
    <3> QED
      BY <3>1, <3>2
  <2> QED
    BY <2>2, <2>5 DEF LineAge
<1>6. ASSUME NEW k \in 1 .. Len(rx), NEW l \in Line, l.verb # "TIME", rx' = [rx EXCEPT ![k] = l],
             UNCHANGED <<clk, skew>>, pc # "poll", k = 1 \/ UNCHANGED part, \A i \in 1 .. Len(lines') : RecentLine(lines'[i], t)
      PROVE  LineAge'
  <2>1. Len(rx') = Len(rx) /\ \A i \in 1 .. Len(rx) : rx'[i] = IF i = k THEN l ELSE rx[i]
    BY <1>0, <1>6, Damaged
  <2>2. FreshLine(l, t) /\ RecentLine(l, t)
    BY <1>0, <1>6, Ages
  <2>3. ASSUME NEW i \in 1 .. Len(rx)
        PROVE  RecentLine(rx'[i], t) /\ (i > 1 \/ ~part' => FreshLine(rx'[i], t))
    <3>1. CASE i = k
      BY <2>1, <2>2, <3>1
    <3>2. CASE i # k
      <4>1. i > 1 \/ ~part' => i > 1 \/ ~part
        BY <1>0, <1>6, <3>2
      <4> QED
        BY <1>6, <2>1, <3>2, <4>1 DEF LineAge
    <3> QED
      BY <3>1, <3>2
  <2> QED
    BY <1>6, <2>1, <2>3 DEF LineAge
<1>7. ASSUME NEW i \in 1 .. MaxLines, Damage(i)
      PROVE  LineAge'
  <2>1. /\ pc = "sleep" /\ i \in 1 .. Len(rx) /\ rx' = [rx EXCEPT ![i] = [verb |-> "malformed"]]
        /\ UNCHANGED <<clk, skew, part, lines>>
    BY <1>0, <1>7 DEF Damage
  <2> QED
    BY <1>6, <2>1, LinesMade DEF LineAge
<1>8. CASE Resets
  <2>1. pc = "sleep" /\ UNCHANGED <<pc, clk, skew, part, lines>>
    BY <1>8, ResetFrame
  <2>2. CASE rx = <<>>
    BY <1>8, <2>1, <2>2, ResetFrame DEF LineAge
  <2>3. CASE rx # <<>>
    <3>1. rx' = [rx EXCEPT ![Len(rx)] = [verb |-> "malformed"]] /\ Len(rx) \in 1 .. Len(rx)
      BY <1>0, <1>8, <2>3, ResetFrame
    <3> QED
      BY <1>6, <2>1, <3>1, LinesMade DEF LineAge
  <2> QED
    BY <2>2, <2>3
<1>9. CASE Crash \/ \E m \in Modes : CrashInCycle(m)
  <2>1. /\ pc # "poll" /\ lines' = <<>> /\ part' = FALSE
        /\ rx' = IF part THEN [rx EXCEPT ![1] = [verb |-> "noise"]] ELSE rx
        /\ UNCHANGED <<clk, skew>>
    BY <1>9 DEF Crash, CrashInCycle, Restart
  <2>2. \A i \in 1 .. Len(lines') : RecentLine(lines'[i], t)
    BY <2>1
  <2>3. CASE part
    <3>1. 1 \in 1 .. Len(rx)
      BY <1>0, <2>3 DEF NodeInv, LinesOK
    <3> QED
      BY <1>6, <2>1, <2>2, <2>3, <3>1, LinesMade
  <2>4. CASE ~part
    BY <2>1, <2>2, <2>4 DEF LineAge
  <2> QED
    BY <2>3, <2>4
<1> QED
  BY NodeSteps, <1>1, <1>2, <1>3, <1>4, <1>5, <1>7, <1>8, <1>9

\* What the node's clock may be off the system clock by.
Drift == {0, skew - 1, skew}

\* The time the microcontroller told, and every row, is off by no more.
ClockAge ==
    /\ mcu_utc # None => mcu_utc - mcu_utc_at \in Drift
    /\ \A r \in rows : r.at <= clk /\ r.ts - r.at \in Drift

TimeInv == LineAge /\ ClockAge

LEMMA NowDrifts == LoopOK /\ ClockAge => now - clk \in Drift
<1> SUFFICES ASSUME LoopOK, ClockAge
             PROVE  now - clk \in Drift
  OBVIOUS
<1>1. clk \in Int /\ mcu_utc \in Int /\ mcu_utc_at \in Int /\ skew \in Int
  BY NodeNumbers DEF LoopOK
<1>2. CASE mcu_utc # None /\ mcu_time_state \in {"locked", "holdover"}
  <2>1. now = mcu_utc + (clk - mcu_utc_at)
    BY <1>2 DEF now
  <2>2. now - clk = mcu_utc - mcu_utc_at
    BY <1>1, <2>1
  <2> QED
    BY <1>2, <2>2 DEF ClockAge
<1>3. CASE ~(mcu_utc # None /\ mcu_time_state \in {"locked", "holdover"})
  BY <1>1, <1>3 DEF now, Drift
<1> QED
  BY <1>2, <1>3

LEMMA ClockAgeStep == NodeInv /\ TimeInv /\ [LinuxNext]_linux_vars => ClockAge'
<1> SUFFICES ASSUME NodeInv, TimeInv, [LinuxNext]_linux_vars
             PROVE  ClockAge'
  OBVIOUS
<1>0. /\ clk \in Nat /\ skew \in Int /\ now \in Int /\ now - clk \in Drift
      /\ \A r \in rows : r.at \in Nat /\ r.ts \in Int
  BY NodeNumbers, NowType, NowDrifts DEF NodeInv, LoopOK, TablesOK, Row, TimeInv
<1>1. CASE handle_time
  <2>1. /\ mcu_utc' = Head(lines).utc /\ mcu_utc_at' = clk /\ Head(lines).verb = "TIME" /\ lines # <<>>
        /\ UNCHANGED <<clk, skew, rows>>
    BY <1>1 DEF handle_time, TakeLine, cycle_vars
  <2>2. lines \in Seq(Line) /\ Len(lines) \in Nat
    BY DEF NodeInv, LinesOK
  <2>3. Head(lines) = lines[1] /\ 1 \in 1 .. Len(lines)
    BY <2>1, <2>2
  <2>4. RecentLine(Head(lines), clk + skew)
    BY <2>3 DEF TimeInv, LineAge
  <2>5. mcu_utc' = (clk + skew) - 1 \/ mcu_utc' = clk + skew
    BY <2>1, <2>4, RecentIs
  <2>6. mcu_utc' - mcu_utc_at' \in Drift
    BY <1>0, <2>1, <2>5 DEF Drift
  <2> QED
    BY <2>1, <2>6 DEF TimeInv, ClockAge, Drift
<1>2. CASE ingest_neighbour
  <2>1. UNCHANGED <<clk, skew, mcu_utc, mcu_utc_at>>
    BY <1>2 DEF ingest_neighbour, time_vars
  <2>2. CASE rows' = rows
    BY <2>1, <2>2 DEF TimeInv, ClockAge, Drift
  <2>3. ASSUME NEW node \in Nbr, rows' = put_embedding(now, node)
        PROVE  ClockAge'
    <3>1. \A r \in rows' : r \in rows \/ (r.ts = now /\ r.at = clk)
      BY <1>0, <2>3, PutEmbedding DEF NodeInv
    <3>2. clk <= clk
      BY <1>0
    <3>3. \A r \in rows' : r.at <= clk /\ r.ts - r.at \in Drift
      BY <1>0, <3>1, <3>2 DEF TimeInv, ClockAge
    <3> QED
      BY <2>1, <3>3 DEF TimeInv, ClockAge, Drift
  <2> QED
    BY <1>2, <2>2, <2>3, NeighbourIngested DEF NodeInv
<1>3. CASE \E m \in Modes : on_sweep(m) \/ fallback(m)
  <2>1. rows' \subseteq rows /\ UNCHANGED <<clk, skew, mcu_utc, mcu_utc_at>>
    BY <1>3 DEF on_sweep, fallback, Cycle, time_vars
  <2> QED
    BY <2>1 DEF TimeInv, ClockAge, Drift
<1>4. ASSUME NEW dt \in 0 .. 1, Sleep(dt)
      PROVE  ClockAge'
  <2>1. clk' = clk + dt /\ UNCHANGED <<skew, rows, mcu_utc, mcu_utc_at>>
    BY <1>4 DEF Sleep, time_vars
  <2>2. \A r \in rows : r.at <= clk'
    <3> SUFFICES ASSUME NEW r \in rows
                 PROVE  r.at <= clk'
      OBVIOUS
    <3>1. r.at <= clk /\ r.at \in Nat
      BY <1>0 DEF TimeInv, ClockAge
    <3> QED
      BY <1>0, <2>1, <3>1
  <2> QED
    BY <2>1, <2>2 DEF TimeInv, ClockAge, Drift
<1>5. CASE Crash \/ \E m \in Modes : CrashInCycle(m)
  <2>1. mcu_utc' = None /\ UNCHANGED <<clk, skew, rows>>
    BY <1>5, Zenon DEF Crash, CrashInCycle, Restart
  <2> QED
    BY <2>1 DEF TimeInv, ClockAge, Drift
<1>6. CASE \/ UNCHANGED vars \/ start \/ (\E more \in BOOLEAN : poll(more)) \/ handle_bad \/ ingest_report
           \/ handle_missing \/ Handled \/ NoFallback \/ TakesOrLoses \/ Resets
           \/ \E i \in 1 .. MaxLines : Damage(i)
  <2>1. UNCHANGED <<clk, skew, rows, mcu_utc, mcu_utc_at>>
    BY <1>6, CommandFrame, ResetFrame, Zenon
    DEF vars, start, poll, handle_bad, ingest_report, handle_missing, Handled, NoFallback, Damage,
        time_vars, cycle_vars
  <2> QED
    BY <2>1 DEF TimeInv, ClockAge, Drift
<1>7. CASE \/ \E found \in [Pod -> Reports \union {"silent"}] : McuSweep(found)
           \/ \E from \in Nbr \union {Self, None} : McuPacket(from)
           \/ \E state \in TimeStates : McuTime(state)
  <2>1. UNCHANGED <<clk, skew, rows, mcu_utc, mcu_utc_at>>
    BY <1>7, McuSends DEF NodeInv, Sends, time_vars, cycle_vars
  <2> QED
    BY <2>1 DEF TimeInv, ClockAge, Drift
<1> QED
  BY NodeSteps, <1>1, <1>2, <1>3, <1>4, <1>5, <1>6, <1>7

LEMMA TimeHolds == LinuxSpec => []TimeInv
<1>1. LinuxInit => TimeInv
  <2> SUFFICES ASSUME LinuxInit
               PROVE  TimeInv
    OBVIOUS
  <2>1. rx = <<>> /\ lines = <<>> /\ rows = {} /\ mcu_utc = None
    BY DEF LinuxInit, Init
  <2>2. Len(rx) = 0 /\ Len(lines) = 0
    BY <2>1
  <2> QED
    BY <2>1, <2>2 DEF TimeInv, LineAge, ClockAge
<1>2. NodeInv /\ TimeInv /\ [LinuxNext]_linux_vars => TimeInv'
  BY LineAgeStep, ClockAgeStep DEF TimeInv
<1> QED
  BY <1>1, <1>2, NodeHolds, PTL DEF LinuxSpec, LinuxNext, linux_vars

-----------------------------------------------------------------------------
(* The main loop: it always forecasts *)

\* The last cycle was stamped with the node's clock; while the loop sleeps it is not
\* overdue, and a sleep is a tick.
PassInv ==
    /\ last_cycle_ts # None => last_cycle_ts - last_run \in Drift
    /\ clk - last_run <= 2 * Cadence[mode] + 1 + Abs(skew) + (IF pc = "sleep" THEN 0 ELSE 1)

LEMMA DriftBounds ==
    ASSUME NEW d \in Drift, NEW e \in Drift, skew \in Int
    PROVE  d \in Int /\ e \in Int /\ d - e <= Abs(skew) + 1 /\ Abs(skew) \in Nat
  BY DEF Drift, Abs

LEMMA PassStep == NodeInv /\ TimeInv /\ PassInv /\ [LinuxNext]_linux_vars => PassInv'
<1> SUFFICES ASSUME NodeInv, TimeInv, PassInv, [LinuxNext]_linux_vars
             PROVE  PassInv'
  OBVIOUS
<1>0. /\ clk \in Nat /\ last_run \in Nat /\ skew \in Int /\ now \in Int /\ last_cycle_ts \in Int
      /\ now - clk \in Drift /\ Abs(skew) \in Nat /\ mode \in Modes /\ db_mode \in Modes
  <2>1. /\ clk \in Nat /\ last_run \in Nat /\ skew \in Int /\ last_cycle_ts \in Int /\ mode \in Modes /\ db_mode \in Modes
    BY NodeNumbers DEF NodeInv, LoopOK
  <2>2. now \in Int /\ now - clk \in Drift
    BY NowType, NowDrifts DEF NodeInv, TimeInv
  <2> QED
    BY <2>1, <2>2 DEF Abs
<1>1. \A m \in Modes : Cadence[m] \in Nat
  BY CadenceOfMode
<1>2. ASSUME NEW m \in Modes, on_sweep(m) \/ fallback(m)
      PROVE  PassInv'
  <2>1. Cycle(now, m) /\ UNCHANGED <<clk, skew>>
    BY <1>2, Zenon DEF on_sweep, fallback
  <2>2. mode' = m /\ last_cycle_ts' = now /\ last_run' = clk
    BY <2>1 DEF Cycle
  <2>3. last_cycle_ts' - last_run' \in Drift
    BY <1>0, <2>2
  <2>4. clk' - last_run' <= 2 * Cadence[m] + 1 + Abs(skew) + (IF pc' = "sleep" THEN 0 ELSE 1)
    BY <1>0, <1>1, <2>1, <2>2
  <2> QED
    BY <2>1, <2>2, <2>3, <2>4 DEF PassInv, Drift, Abs
<1>3. CASE Crash \/ \E m \in Modes : CrashInCycle(m)
  <2>1. /\ mode' = db_mode /\ last_cycle_ts' = None /\ last_run' = clk /\ pc' = "start" /\ UNCHANGED <<clk, skew>>
    BY <1>3, Zenon DEF Crash, CrashInCycle, Restart
  <2>2. clk' - last_run' <= 2 * Cadence[db_mode] + 1 + Abs(skew) + (IF pc' = "sleep" THEN 0 ELSE 1)
    BY <1>0, <1>1, <2>1
  <2> QED
    BY <2>1, <2>2 DEF PassInv, Abs
<1>4. CASE NoFallback
  <2>1. pc' = "sleep" /\ ~Overdue /\ UNCHANGED <<clk, skew, last_run, last_cycle_ts, mode>>
    BY <1>4 DEF NoFallback, cycle_vars
  <2>2. last_cycle_ts # None /\ now - last_cycle_ts <= 2 * Cadence[mode]
    BY <1>0, <1>1, <2>1 DEF Overdue
  <2>3. last_cycle_ts - last_run \in Drift
    BY <2>2 DEF PassInv
  <2>4. (last_cycle_ts - last_run) - (now - clk) <= Abs(skew) + 1
    BY <1>0, <2>3, DriftBounds
  <2>5. clk - last_run <= 2 * Cadence[mode] + 1 + Abs(skew)
    BY <1>0, <1>1, <2>2, <2>4
  <2>6. clk - last_run <= 2 * Cadence[mode] + 1 + Abs(skew) + 0
    BY <1>0, <1>1, <2>5
  <2> QED
    BY <2>1, <2>3, <2>6 DEF PassInv, Drift, Abs
<1>5. ASSUME NEW dt \in 0 .. 1, Sleep(dt)
      PROVE  PassInv'
  <2>1. pc = "sleep" /\ pc' = "poll" /\ clk' = clk + dt /\ UNCHANGED <<skew, last_run, last_cycle_ts, mode>>
    BY <1>5 DEF Sleep
  <2>2. clk - last_run <= 2 * Cadence[mode] + 1 + Abs(skew) + 0
    BY <2>1 DEF PassInv
  <2>3. clk' - last_run <= 2 * Cadence[mode] + 1 + Abs(skew) + 1
    BY <1>0, <1>1, <2>1, <2>2
  <2> QED
    BY <2>1, <2>3 DEF PassInv, Drift, Abs
<1>6. CASE \/ UNCHANGED vars \/ start \/ (\E more \in BOOLEAN : poll(more)) \/ handle_bad \/ ingest_report
           \/ handle_missing \/ ingest_neighbour \/ handle_time \/ Handled \/ TakesOrLoses \/ Resets
           \/ \E i \in 1 .. MaxLines : Damage(i)
  <2>1. /\ UNCHANGED <<clk, skew, last_run, last_cycle_ts, mode>> /\ (pc' = "sleep" => pc = "sleep")
    BY <1>6, CommandFrame, ResetFrame
    DEF vars, start, poll, handle_bad, ingest_report, handle_missing, ingest_neighbour, handle_time, Handled,
        Damage, cycle_vars
  <2>2. (IF pc = "sleep" THEN 0 ELSE 1) <= (IF pc' = "sleep" THEN 0 ELSE 1)
    BY <2>1
  <2>3. clk - last_run <= 2 * Cadence[mode] + 1 + Abs(skew) + (IF pc' = "sleep" THEN 0 ELSE 1)
    BY <1>0, <1>1, <2>2 DEF PassInv
  <2> QED
    BY <2>1, <2>3 DEF PassInv, Drift, Abs
<1>7. CASE \/ \E found \in [Pod -> Reports \union {"silent"}] : McuSweep(found)
           \/ \E from \in Nbr \union {Self, None} : McuPacket(from)
           \/ \E state \in TimeStates : McuTime(state)
  <2>1. UNCHANGED <<clk, skew, last_run, last_cycle_ts, mode, pc>>
    BY <1>7, McuSends DEF NodeInv, Sends, cycle_vars
  <2> QED
    BY <2>1 DEF PassInv, Drift, Abs
<1> QED
  BY NodeSteps, <1>2, <1>3, <1>4, <1>5, <1>6, <1>7

LEMMA PassHolds == LinuxSpec => []PassInv
<1>1. LinuxInit => PassInv
  <2> SUFFICES ASSUME LinuxInit
               PROVE  PassInv
    OBVIOUS
  <2>1. clk = 0 /\ last_run = 0 /\ last_cycle_ts = None /\ pc = "start" /\ mode \in Modes /\ skew \in Int
    BY NodeNumbers DEF LinuxInit, Init, Modes
  <2>2. Cadence[mode] \in Nat /\ Abs(skew) \in Nat
    BY <2>1, CadenceOfMode DEF Abs
  <2> QED
    BY <2>1, <2>2 DEF PassInv
<1> QED
  BY <1>1, NodeHolds, TimeHolds, PassStep, PTL DEF LinuxSpec, LinuxNext, linux_vars

\* No silence of the microcontroller, lost line or restart keeps the node from
\* forecasting, for any cadences and any difference of the two clocks (run_forever,
\* now).
THEOREM ForecastTheorem == LinuxSpec => []CycleNeverOverdue
<1>1. NodeInv /\ PassInv => CycleNeverOverdue
  <2> SUFFICES ASSUME NodeInv, PassInv
               PROVE  clk - last_run <= 2 * Cadence[mode] + 1 + Abs(skew) + 1
    BY DEF CycleNeverOverdue
  <2>1. /\ clk \in Nat /\ last_run \in Nat /\ skew \in Int /\ Cadence[mode] \in Nat
    BY NodeNumbers, CadenceOfMode DEF NodeInv, LoopOK
  <2>2. Abs(skew) \in Nat
    BY <2>1 DEF Abs
  <2> QED
    BY <2>1, <2>2 DEF PassInv
<1> QED
  BY <1>1, NodeHolds, PassHolds, PTL

-----------------------------------------------------------------------------
(* The main loop: the neighbours of the graph stage *)

\* The steps that do not touch the graph, and those that clear it.
LEMMA GraphSteps ==
    ASSUME NodeInv, [LinuxNext]_linux_vars
    PROVE  \/ \E m \in Modes : Cycle(now, m) /\ UNCHANGED <<clk, skew>>
           \/ DOMAIN graph' = {} /\ DOMAIN current' = {} /\ UNCHANGED skew
           \/ UNCHANGED <<graph, current, last_run, skew>>
<1>1. CASE \E m \in Modes : on_sweep(m) \/ fallback(m)
  BY <1>1, Zenon DEF on_sweep, fallback
<1>2. CASE Crash \/ (\E dt \in 0 .. 1 : Sleep(dt)) \/ \E m \in Modes : CrashInCycle(m)
  <2>1. graph' = <<>> /\ current' = <<>> /\ UNCHANGED skew
    BY <1>2, Zenon DEF Crash, CrashInCycle, Restart, Sleep
  <2>2. DOMAIN graph' = {} /\ DOMAIN current' = {}
    BY <2>1
  <2> QED
    BY <2>1, <2>2
<1>3. CASE \/ UNCHANGED vars \/ start \/ (\E more \in BOOLEAN : poll(more)) \/ handle_bad \/ ingest_report
           \/ handle_missing \/ ingest_neighbour \/ handle_time \/ Handled \/ NoFallback \/ TakesOrLoses \/ Resets
           \/ \E i \in 1 .. MaxLines : Damage(i)
  <2>1. UNCHANGED <<graph, current, last_run, skew>>
    BY <1>3, CommandFrame, ResetFrame, Zenon
    DEF vars, start, poll, handle_bad, ingest_report, handle_missing, ingest_neighbour, handle_time, Handled,
        NoFallback, Damage, cycle_vars
  <2> QED
    BY <2>1
<1>4. CASE \/ \E found \in [Pod -> Reports \union {"silent"}] : McuSweep(found)
           \/ \E from \in Nbr \union {Self, None} : McuPacket(from)
           \/ \E state \in TimeStates : McuTime(state)
  BY <1>4, McuSends DEF NodeInv, Sends, cycle_vars
<1> QED
  BY NodeSteps, <1>1, <1>2, <1>3, <1>4

\* LastHeard is no earlier than any row of the neighbour.
LEMMA LastHeardIs ==
    ASSUME NodeInv, TimeInv, NEW nbrs, NEW n \in nbrs, NEW r \in rows, r.node = n
    PROVE  LastHeard(nbrs)[n] \in Nat /\ r.at <= LastHeard(nbrs)[n]
<1> DEFINE times == {s.at : s \in {s \in rows : s.node = n}}
<1>1. LastHeard(nbrs)[n] = Max(times)
  BY DEF LastHeard
<1>2. r.at \in times
  OBVIOUS
<1>3. clk \in Nat /\ times \in SUBSET Nat /\ \A x \in times : x <= clk
  BY NodeNumbers DEF NodeInv, LoopOK, TablesOK, Row, TimeInv, ClockAge
<1> HIDE DEF times
<1>4. IsFiniteSet(times)
  BY <1>3, FS_BoundedSetOfNaturals
<1>5. Max(times) \in times /\ \A x \in times : x <= Max(times)
  BY <1>2, <1>3, <1>4, MaxOfFinite
<1> QED
  BY <1>1, <1>2, <1>3, <1>5

\* Each neighbour of the graph stage was heard within the round window, or within what
\* the clock was changed by, however long the others were silent and whatever was
\* stored under another time (collect_neighbours, neighbours_seen, put_embedding).
THEOREM NeighbourTheorem == LinuxSpec => []NeighboursAreCurrent
<1>1. LinuxInit => NeighboursAreCurrent
  <2> SUFFICES ASSUME LinuxInit
               PROVE  NeighboursAreCurrent
    OBVIOUS
  <2>1. graph = <<>>
    BY DEF LinuxInit, Init
  <2>2. DOMAIN graph = {}
    BY <2>1
  <2> QED
    BY <2>2 DEF NeighboursAreCurrent
<1>2. NodeInv /\ TimeInv /\ NeighboursAreCurrent /\ [LinuxNext]_linux_vars => NeighboursAreCurrent'
  <2> SUFFICES ASSUME NodeInv, TimeInv, NeighboursAreCurrent, [LinuxNext]_linux_vars
               PROVE  NeighboursAreCurrent'
    OBVIOUS
  <2>1. ASSUME NEW m \in Modes, Cycle(now, m), UNCHANGED <<clk, skew>>
        PROVE  NeighboursAreCurrent'
    <3> DEFINE nbrs == collect_neighbours(now)
               used == build_graph_inputs(nbrs)
    <3>1. graph' = LastHeard(used) /\ last_run' = clk
      BY <2>1 DEF Cycle
    <3>2. DOMAIN graph' = used
      BY <3>1 DEF LastHeard
    <3>3. ASSUME NEW n \in used
          PROVE  clk - graph'[n] <= Window + Abs(skew) + 1
      <4>1. PICK r \in rows : r.node = n /\ r.ts >= now - Window
        BY <3>3, NeighboursHeard
      <4>2. graph'[n] \in Nat /\ r.at <= graph'[n]
        BY <3>1, <4>1, LastHeardIs
      <4>3. r.at \in Nat /\ r.ts \in Int /\ clk \in Nat /\ skew \in Int /\ now \in Int /\ Window \in Nat
        BY NodeNumbers, NowType DEF NodeInv, LoopOK, TablesOK, Row
      <4>4. r.ts - r.at \in Drift /\ now - clk \in Drift
        BY NowDrifts DEF NodeInv, TimeInv, ClockAge
      <4>5. (r.ts - r.at) - (now - clk) <= Abs(skew) + 1 /\ Abs(skew) \in Nat
        BY <4>3, <4>4, DriftBounds
      <4>6. clk - r.at <= Window + Abs(skew) + 1
        BY <4>1, <4>3, <4>5
      <4> QED
        BY <4>2, <4>3, <4>5, <4>6
    <3>4. Abs(skew)' = Abs(skew)
      BY <2>1 DEF Abs
    <3> HIDE DEF nbrs, used
    <3> QED
      BY <3>1, <3>2, <3>3, <3>4 DEF NeighboursAreCurrent
  <2>2. CASE DOMAIN graph' = {}
    BY <2>2 DEF NeighboursAreCurrent
  <2>3. CASE UNCHANGED <<graph, last_run, skew>>
    BY <2>3 DEF NeighboursAreCurrent, Abs
  <2> QED
    BY GraphSteps, <2>1, <2>2, <2>3
<1> QED
  BY <1>1, <1>2, NodeHolds, TimeHolds, PTL DEF LinuxSpec, LinuxNext, linux_vars

\* The order the neighbours are sorted in.
LEMMA Order ==
    /\ \A n \in Nbr : n \in Nat /\ adjacency_prior(n) \in 1 .. 3
    /\ \A m, n \in Nbr : Before(m, n) => ~Before(n, m)
    /\ \A k, m, n \in Nbr : Before(k, m) /\ Before(m, n) => Before(k, n)
    /\ \A m, n \in Nbr : m # n => Before(m, n) \/ Before(n, m)
<1>1. \A n \in Nbr : n \in Nat /\ adjacency_prior(n) \in 1 .. 3
  BY NodeNumbers DEF adjacency_prior
<1> QED
  BY <1>1 DEF Before

\* Of finitely many neighbours one is the last.
LEMMA LastInOrder ==
    ASSUME NEW S \in SUBSET Nbr, IsFiniteSet(S), S # {}
    PROVE  \E x \in S : \A y \in S \ {x} : Before(y, x)
<1> DEFINE HasLast(T) == \E x \in T : \A y \in T \ {x} : Before(y, x)
           C == {c \in Nat : \A T \in SUBSET Nbr : IsFiniteSet(T) /\ T # {} /\ Cardinality(T) = c => HasLast(T)}
<1>1. 0 \in C
  BY FS_EmptySet
<1>2. ASSUME NEW c \in Nat, c \in C
      PROVE  c + 1 \in C
  <2> SUFFICES ASSUME NEW T \in SUBSET Nbr, IsFiniteSet(T), T # {}, Cardinality(T) = c + 1
               PROVE  HasLast(T)
    OBVIOUS
  <2>1. PICK z : z \in T
    OBVIOUS
  <2>2. IsFiniteSet(T \ {z}) /\ Cardinality(T \ {z}) = c
    <3>1. IsFiniteSet(T \ {z}) /\ Cardinality(T \ {z}) = Cardinality(T) - 1
      BY <2>1, FS_RemoveElement
    <3>2. (c + 1) - 1 = c
      OBVIOUS
    <3> QED
      BY <3>1, <3>2
  <2>3. CASE T \ {z} = {}
    BY <2>1, <2>3
  <2>4. CASE T \ {z} # {}
    <3>1. PICK x \in T \ {z} : \A y \in (T \ {z}) \ {x} : Before(y, x)
      BY <1>2, <2>2, <2>4
    <3>2. CASE Before(z, x)
      <4>1. \A y \in T \ {x} : Before(y, x)
        BY <3>1, <3>2
      <4> QED
        BY <3>1, <4>1
    <3>3. CASE Before(x, z)
      <4>1. \A y \in T \ {z} : Before(y, z)
        BY <2>1, <3>1, <3>3, Order
      <4> QED
        BY <2>1, <4>1
    <3> QED
      BY <2>1, <3>1, <3>2, <3>3, Order
  <2> QED
    BY <2>3, <2>4
<1> HIDE DEF C
<1>3. Nat \subseteq C
  BY <1>1, <1>2, NaturalsByInduction
<1>4. Cardinality(S) \in C
  BY <1>3, FS_CardinalityType
<1> QED
  BY <1>4 DEF C

\* Adding one that comes after all the others: it is used when there is still room.
LEMMA OneMore ==
    ASSUME NEW S \in SUBSET Nbr, IsFiniteSet(S), NEW x \in S, \A y \in S \ {x} : Before(y, x)
    PROVE  build_graph_inputs(S) = build_graph_inputs(S \ {x})
               \union (IF Cardinality(S \ {x}) < MaxNeighbours THEN {x} ELSE {})
<1> DEFINE T == S \ {x}
<1>1. \A n \in T : {m \in S : Before(m, n)} = {m \in T : Before(m, n)}
  BY Order
<1>2. {m \in S : Before(m, x)} = T
  BY Order
<1>3. S = T \union {x} /\ x \notin T
  OBVIOUS
<1> HIDE DEF T
<1>4. \A n \in T : n \in build_graph_inputs(S) <=> n \in build_graph_inputs(T)
  BY <1>1, <1>3, Zenon DEF build_graph_inputs
<1>5. x \in build_graph_inputs(S) <=> Cardinality(T) < MaxNeighbours
  BY <1>2, <1>3 DEF build_graph_inputs
<1>6. build_graph_inputs(S) \subseteq S /\ build_graph_inputs(T) \subseteq T
  BY DEF build_graph_inputs
<1>7. build_graph_inputs(S) = build_graph_inputs(T) \union (IF Cardinality(T) < MaxNeighbours THEN {x} ELSE {})
  BY <1>3, <1>4, <1>5, <1>6
<1> QED
  BY <1>7 DEF T

\* The graph is filled as far as there are neighbours.
LEMMA GraphFilled ==
    ASSUME NEW S \in SUBSET Nbr, IsFiniteSet(S)
    PROVE  Cardinality(build_graph_inputs(S)) = Min({MaxNeighbours, Cardinality(S)})
<1> DEFINE Filled(T) == Cardinality(build_graph_inputs(T)) =
                            (IF Cardinality(T) <= MaxNeighbours THEN Cardinality(T) ELSE MaxNeighbours)
           C == {c \in Nat : \A T \in SUBSET Nbr : IsFiniteSet(T) /\ Cardinality(T) = c => Filled(T)}
<1>0. MaxNeighbours \in Nat \ {0}
  BY NodeNumbers
<1>1. 0 \in C
  <2> SUFFICES ASSUME NEW T \in SUBSET Nbr, IsFiniteSet(T), Cardinality(T) = 0
               PROVE  Filled(T)
    OBVIOUS
  <2>1. T = {}
    BY FS_EmptySet
  <2>2. build_graph_inputs(T) = {}
    BY <2>1 DEF build_graph_inputs
  <2> QED
    BY <1>0, <2>2, FS_EmptySet
<1>2. ASSUME NEW c \in Nat, c \in C
      PROVE  c + 1 \in C
  <2> SUFFICES ASSUME NEW T \in SUBSET Nbr, IsFiniteSet(T), Cardinality(T) = c + 1
               PROVE  Filled(T)
    OBVIOUS
  <2>1. T # {}
    BY FS_EmptySet
  <2>2. PICK x \in T : \A y \in T \ {x} : Before(y, x)
    BY <2>1, LastInOrder
  <2> DEFINE U == T \ {x}
  <2>3. IsFiniteSet(U) /\ Cardinality(U) = c /\ U \in SUBSET Nbr /\ x \notin U
    <3>1. IsFiniteSet(U) /\ Cardinality(U) = Cardinality(T) - 1
      BY FS_RemoveElement
    <3>2. (c + 1) - 1 = c
      OBVIOUS
    <3> QED
      BY <3>1, <3>2
  <2>4. build_graph_inputs(T) = build_graph_inputs(U) \union (IF c < MaxNeighbours THEN {x} ELSE {})
    BY <2>2, <2>3, OneMore
  <2> HIDE DEF U
  <2>5. Cardinality(build_graph_inputs(U)) = (IF c <= MaxNeighbours THEN c ELSE MaxNeighbours)
    BY <1>2, <2>3
  <2>6. build_graph_inputs(U) \subseteq U
    BY DEF build_graph_inputs
  <2>7. IsFiniteSet(build_graph_inputs(U)) /\ x \notin build_graph_inputs(U)
    BY <2>3, <2>6, FS_Subset
  <2>8. CASE c < MaxNeighbours
    <3>1. Cardinality(build_graph_inputs(U) \union {x}) = Cardinality(build_graph_inputs(U)) + 1
      BY <2>7, FS_AddElement
    <3> QED
      BY <1>0, <2>4, <2>5, <2>8, <3>1
  <2>9. CASE ~(c < MaxNeighbours)
    <3>1. build_graph_inputs(T) = build_graph_inputs(U)
      BY <2>4, <2>9
    <3> QED
      BY <1>0, <2>5, <2>9, <3>1
  <2> QED
    BY <2>8, <2>9
<1>3. Nat \subseteq C
  <2> HIDE DEF C
  <2> QED
    BY <1>1, <1>2, NaturalsByInduction
<1>4. Cardinality(S) \in Nat
  BY FS_CardinalityType
<1>5. Filled(S)
  BY <1>3, <1>4
<1> QED
  BY <1>0, <1>4, <1>5, MinOfTwo

\* None of those left out weighs more.
LEMMA GraphNearest ==
    ASSUME NEW S \in SUBSET Nbr, IsFiniteSet(S), NEW n \in build_graph_inputs(S), NEW m \in S \ build_graph_inputs(S)
    PROVE  adjacency_prior(m) <= adjacency_prior(n)
<1> SUFFICES ASSUME ~(adjacency_prior(m) <= adjacency_prior(n))
             PROVE  FALSE
  OBVIOUS
<1> DEFINE ahead(k) == {j \in S : Before(j, k)}
<1>1. m \in Nbr /\ n \in Nbr /\ n \in S
  BY DEF build_graph_inputs
<1>2. Before(m, n)
  BY <1>1, Order DEF Before
<1>3. ahead(m) \subseteq ahead(n)
  BY <1>1, <1>2, Order
<1>4. IsFiniteSet(ahead(n))
  BY FS_Subset
<1>5. Cardinality(ahead(n)) < MaxNeighbours /\ ~(Cardinality(ahead(m)) < MaxNeighbours)
  BY DEF build_graph_inputs
<1> HIDE DEF ahead
<1>6. /\ Cardinality(ahead(m)) <= Cardinality(ahead(n)) /\ Cardinality(ahead(m)) \in Nat
      /\ Cardinality(ahead(n)) \in Nat
  BY <1>3, <1>4, FS_Subset, FS_CardinalityType
<1> QED
  BY <1>5, <1>6, NodeNumbers

LEMMA NeighboursFinite ==
    ASSUME NodeInv
    PROVE  collect_neighbours(now) \in SUBSET Nbr /\ IsFiniteSet(collect_neighbours(now))
<1> DEFINE f == [r \in rows |-> r.node]
           T == {r.node : r \in rows}
<1>1. IsFiniteSet(rows) /\ \A r \in rows : r.node \in Nbr
  BY DEF NodeInv, TablesOK, Row
<1>2. f \in Surjection(rows, T)
  BY DEF Surjection
<1>3. IsFiniteSet(T)
  BY <1>1, <1>2, FS_Surjection
<1>4. collect_neighbours(now) \subseteq T
  BY DEF collect_neighbours, neighbours_seen
<1> QED
  BY <1>1, <1>3, <1>4, FS_Subset

\* The graph has room for MaxNeighbours, is filled as far as there are neighbours, and
\* none of those left out weighs more than one that is in, for any neighbours and any
\* table of their places (build_graph_inputs, adjacency_prior).
THEOREM NearestTheorem == LinuxSpec => []NearestAreUsed
<1>0. ASSUME DOMAIN graph = {}, DOMAIN current = {}
      PROVE  NearestAreUsed
  <2>1. Min({MaxNeighbours, 0}) = 0
    BY NodeNumbers, MinOfTwo
  <2> QED
    BY <1>0, <2>1, FS_EmptySet DEF NearestAreUsed
<1>1. LinuxInit => NearestAreUsed
  <2> SUFFICES ASSUME LinuxInit
               PROVE  NearestAreUsed
    OBVIOUS
  <2>1. graph = <<>> /\ current = <<>>
    BY DEF LinuxInit, Init
  <2>2. DOMAIN graph = {} /\ DOMAIN current = {}
    BY <2>1
  <2> QED
    BY <1>0, <2>2
<1>2. NodeInv /\ NearestAreUsed /\ [LinuxNext]_linux_vars => NearestAreUsed'
  <2> SUFFICES ASSUME NodeInv, NearestAreUsed, [LinuxNext]_linux_vars
               PROVE  NearestAreUsed'
    OBVIOUS
  <2>1. ASSUME NEW m \in Modes, Cycle(now, m)
        PROVE  NearestAreUsed'
    <3> DEFINE nbrs == collect_neighbours(now)
               used == build_graph_inputs(nbrs)
    <3>1. graph' = LastHeard(used) /\ current' = LastHeard(nbrs)
      BY <2>1 DEF Cycle
    <3>2. DOMAIN graph' = used /\ DOMAIN current' = nbrs
      BY <3>1 DEF LastHeard
    <3>3. nbrs \in SUBSET Nbr /\ IsFiniteSet(nbrs)
      BY NeighboursFinite
    <3> HIDE DEF nbrs
    <3>4. Cardinality(used) = Min({MaxNeighbours, Cardinality(nbrs)})
      BY <3>3, GraphFilled
    <3>5. \A n \in used, k \in nbrs \ used : adjacency_prior(k) <= adjacency_prior(n)
      BY <3>3, GraphNearest
    <3> HIDE DEF used
    <3>6. \A n : adjacency_prior(n)' = adjacency_prior(n)
      BY DEF adjacency_prior
    <3> QED
      BY <3>2, <3>4, <3>5, <3>6 DEF NearestAreUsed
  <2>2. CASE DOMAIN graph' = {} /\ DOMAIN current' = {}
    <3>1. Min({MaxNeighbours, 0}) = 0
      BY NodeNumbers, MinOfTwo
    <3> QED
      BY <2>2, <3>1, FS_EmptySet DEF NearestAreUsed
  <2>3. CASE UNCHANGED <<graph, current>>
    BY <2>3 DEF NearestAreUsed
  <2> QED
    BY GraphSteps, <2>1, <2>2, <2>3
<1> QED
  BY <1>1, <1>2, NodeHolds, PTL DEF LinuxSpec, LinuxNext, linux_vars
=============================================================================
