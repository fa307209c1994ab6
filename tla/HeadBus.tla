------------------------------- MODULE HeadBus ------------------------------
(***************************************************************************)
(* The RS-485 side of the head node's microcontroller: the bus master      *)
(* (mcu/src/bus_master.c) in the 10 ms supervisory loop (mcu/src/main.c),  *)
(* the commands the Linux side sends to it over the bridge, the watchdog   *)
(* channel of the bus (mcu/src/supervisor.c), and at the other end of the  *)
(* wire the pods' slave (code_a_pod_firmware/app/src/rs485.c).             *)
(*                                                                         *)
(* A pod runs its own loop and may be blocked in it for a long time, so it *)
(* answers whenever it pleases; polls queue up in its receive ring.  A     *)
(* faulty pod may also transmit without having been polled.  A frame whose *)
(* CRC fails is a lost frame.  Times are kept as the time that has passed  *)
(* since an event, which is what the code's unsigned subtractions compute. *)
(* The statistics the bus keeps per pod are left out: nothing reads them.  *)
(***************************************************************************)
EXTENDS Integers, Sequences, SequencesExt, FiniteSetsExt

CONSTANTS
    Addr,            \* addresses of the pods on the wire
    Babblers,        \* those among them that may transmit without having been polled
    ValidAddr,       \* the addresses rs485_addr_valid accepts
    DefaultList,     \* CONFIG_HN_POD_ADDRS
    PollLists,       \* the lists set_pods may carry
    MaxPods,         \* BUS_MAX_PODS
    ReplyTimeout,    \* CONFIG_HN_BUS_REPLY_TIMEOUT_MS
    Turnaround,      \* CONFIG_HN_BUS_TURNAROUND_MS
    DefaultCadence,  \* CONFIG_HN_SWEEP_CADENCE_S
    Cadences,        \* the values set_cadence may carry
    ArmCommands,     \* the values set_armed may carry
    Slack,           \* what the bus channel's deadline adds to three cadences
    WdtTimeout,      \* CONFIG_HN_WDT_TIMEOUT_MS
    PassMax,         \* longest time between two passes of the loop
    RxMax,           \* frames a pod's receive ring holds
    BusRing,         \* frames the master's receive ring holds
    Lossy            \* TRUE when the wire may lose a frame

Deadline == 3 * DefaultCadence + Slack

\* What the code computes as the longest a sweep of n pods takes.
bus_sweep_worst_case_ms(n) == n * (ReplyTimeout + Turnaround)

\* How late the loop may notice that a wait of t is over: at a later pass than the one
\* that began it, the first that finds it so.  A sweep waits twice for each pod.
LoopDelay(t)  == IF t = 0 THEN PassMax ELSE PassMax - 1
SweepBound(n) == bus_sweep_worst_case_ms(n) + n * (LoopDelay(ReplyTimeout) + LoopDelay(Turnaround))

ASSUME BusAssumption ==
    /\ Addr \subseteq ValidAddr /\ Babblers \subseteq Addr
    /\ PollLists \subseteq Seq(Int) /\ DefaultList \in Seq(ValidAddr)
    /\ MaxPods \in Nat /\ Len(DefaultList) <= MaxPods
    /\ \A l \in PollLists : Len(l) <= MaxPods
    /\ ReplyTimeout \in Nat \ {0} /\ Turnaround \in Nat
    /\ DefaultCadence \in Nat \ {0} /\ Cadences \subseteq Nat /\ IsFiniteSet(Cadences)
    /\ ArmCommands \subseteq BOOLEAN
    /\ Slack \in Nat /\ WdtTimeout \in Nat /\ PassMax \in Nat \ {0}
    /\ RxMax \in Nat \ {0} /\ BusRing \in Nat /\ Lossy \in BOOLEAN

VARIABLES
    pc,             \* where the supervisory loop is
    poll_list,      \* addresses of pods[0 .. n_pods - 1]
    usable,         \* the master holds a send function
    bstate,         \* the master's state
    idx,            \* the pod being polled, past the list at the end of a sweep
    present,        \* [1 .. MaxPods -> BOOLEAN], answered the last poll
    cadence,        \* cadence_ms
    since_state,    \* time since t_state, 0 while idle
    since_sweep,    \* time since t_last_sweep
    since_checkin,  \* time since the bus channel checked in
    since_fed,      \* time since the watchdog was fed
    reset_cause,    \* why the microcontroller started last
    inbox,          \* senders of the reports received and not read yet
    pod_rx,         \* [Addr -> frames in the pod's receive ring]
    pod_armed,      \* [Addr -> the last arm command the pod carried out]
    wanted_armed,   \* history: the last set_armed the Linux side sent
    outcome         \* history: what became of the polls of the sweep under way

master_vars == <<poll_list, usable, bstate, idx, present, since_state>>
time_vars   == <<since_sweep, since_checkin, since_fed>>
pod_vars    == <<pod_rx, pod_armed>>
vars == <<pc, master_vars, cadence, time_vars, reset_cause, inbox, pod_vars,
          wanted_armed, outcome>>

Positions == 1 .. MaxPods
n_pods    == Len(poll_list)

\* Times are not counted past the largest value the code compares them with.
StateCap == Max({ReplyTimeout, Turnaround})
SweepCap == Max(Cadences \union {DefaultCadence, SweepBound(MaxPods) + 1})

\* A poll also carries a sequence number; no receiver reads it and no reply returns
\* it, so a reply is known by its sender alone.
Frame == {"POLL", "ARM", "DISARM"}

\* Every variable stays in its type; the master waits only for a pod of its list.
TypeOK ==
    /\ pc \in {"rx", "start", "bridge", "sleep", "halted"}
    /\ poll_list \in Seq(ValidAddr) /\ n_pods <= MaxPods
    /\ usable \in BOOLEAN
    /\ bstate \in {"IDLE", "WAIT_REPLY", "TURNAROUND"}
    /\ idx \in 1 .. MaxPods + 1
    /\ bstate = "WAIT_REPLY" => idx \in 1 .. n_pods
    /\ present \in [Positions -> BOOLEAN]
    /\ cadence \in Cadences \union {DefaultCadence}
    /\ since_state \in 0 .. StateCap
    /\ since_sweep \in 0 .. SweepCap
    /\ since_checkin \in 0 .. Deadline + 1
    /\ since_fed \in 0 .. WdtTimeout
    /\ reset_cause \in {"power", "watchdog", "fault"}
    /\ inbox \in Seq(Addr) /\ Len(inbox) <= BusRing
    /\ pod_rx \in [Addr -> Seq(Frame)]
    /\ \A p \in Addr : Len(pod_rx[p]) <= RxMax
    /\ pod_armed \in [Addr -> BOOLEAN]
    /\ wanted_armed \in BOOLEAN
    /\ outcome \in [Positions -> {"none", "report", "missing"}]

-----------------------------------------------------------------------------
\* The wire.  A frame reaches the rings of the pods that hear it; a full ring or
\* a lossy wire loses it.  The slave ignores frames for other addresses, so only
\* the addressed pods are written to.
Transmit(frame, to) ==
    \E heard \in SUBSET (to \intersect Addr) :
        /\ ~Lossy => heard = to \intersect Addr
        /\ pod_rx' = [p \in Addr |-> IF p \in heard /\ Len(pod_rx[p]) < RxMax
                                     THEN Append(pod_rx[p], frame) ELSE pod_rx[p]]

\* A report reaches the master's receive ring, which drops what it has no room for.
Arrives(p) == inbox' = IF Len(inbox) < BusRing THEN Append(inbox, p) ELSE inbox

\* rs485_slave_handle in the pod's loop: a poll is answered with the report, an
\* arm command is carried out and, being a broadcast, not answered.  The master looks
\* at its receive ring once per pass, so an answer that arrives in a pass behind that
\* point is as good as one that arrives in the sleep after it.
PodServes(p) ==
    /\ pc = "sleep"
    /\ pod_rx[p] # <<>>
    /\ pod_rx' = [pod_rx EXCEPT ![p] = Tail(@)]
    /\ \/ /\ Head(pod_rx[p]) = "POLL"
          /\ \/ Arrives(p)
             \/ Lossy /\ UNCHANGED inbox
          /\ UNCHANGED pod_armed
       \/ /\ Head(pod_rx[p]) # "POLL"
          /\ pod_armed' = [pod_armed EXCEPT ![p] = Head(pod_rx[p]) = "ARM"]
          /\ UNCHANGED inbox
    /\ UNCHANGED <<pc, master_vars, cadence, time_vars, reset_cause, wanted_armed, outcome>>

\* A pod transmits without having been polled, as often as it likes.
PodBabbles(p) ==
    /\ pc = "sleep"
    /\ Arrives(p)
    /\ UNCHANGED <<pc, master_vars, cadence, time_vars, reset_cause, pod_vars, wanted_armed, outcome>>

-----------------------------------------------------------------------------
\* Power-on, with the configured defaults; the first sweep is due at once.
Init ==
    /\ pc = "rx"
    /\ poll_list = DefaultList /\ usable = TRUE
    /\ bstate = "IDLE" /\ idx = 1
    /\ present = [i \in Positions |-> FALSE]
    /\ cadence = DefaultCadence
    /\ since_state = 0 /\ since_sweep = DefaultCadence
    /\ since_checkin = 0 /\ since_fed = 0
    /\ reset_cause = "power"
    /\ inbox = <<>>
    /\ pod_rx = [p \in Addr |-> <<>>]
    /\ pod_armed = [p \in Addr |-> FALSE]
    /\ wanted_armed = FALSE
    /\ outcome = [i \in Positions |-> "none"]

\* A reset starts the microcontroller from its defaults.  rails_init switches the
\* mast bus off first, so the pods start again too.
Reset(cause) ==
    /\ pc' = "rx"
    /\ poll_list' = DefaultList /\ usable' = TRUE
    /\ bstate' = "IDLE" /\ idx' = 1
    /\ present' = [i \in Positions |-> FALSE]
    /\ cadence' = DefaultCadence
    /\ since_state' = 0 /\ since_sweep' = DefaultCadence
    /\ since_checkin' = 0 /\ since_fed' = 0
    /\ reset_cause' = cause
    /\ inbox' = <<>>
    /\ pod_rx' = [p \in Addr |-> <<>>]
    /\ pod_armed' = [p \in Addr |-> FALSE]
    /\ outcome' = [i \in Positions |-> "none"]

-----------------------------------------------------------------------------
(* bus_master.c *)

poll_pod(i) ==
    /\ bstate' = "WAIT_REPLY" /\ since_state' = 0
    /\ Transmit("POLL", {poll_list[i]})

\* Mutant: the answered pod is polled again instead of the next one.
advance_Stays ==
    /\ bstate' = "TURNAROUND" /\ since_state' = 0
    /\ UNCHANGED idx

advance ==
    /\ idx' = idx + 1
    /\ bstate' = "TURNAROUND" /\ since_state' = 0

\* bus_rx_frame, called for each frame received since the last pass: only a report
\* from the pod being waited for counts.
RxReport ==
    /\ pc = "rx"
    /\ inbox # <<>>
    /\ bstate = "WAIT_REPLY"
    /\ Head(inbox) = poll_list[idx]
    /\ present' = [present EXCEPT ![idx] = TRUE]
    /\ outcome' = [outcome EXCEPT ![idx] = "report"]
    /\ advance
    /\ inbox' = Tail(inbox)
    /\ UNCHANGED <<pc, poll_list, usable, cadence, time_vars, reset_cause, pod_vars,
                   wanted_armed>>

\* Mutant: any frame restarts the reply timeout.
RxIgnored_RestartsTimeout ==
    /\ pc = "rx"
    /\ inbox # <<>>
    /\ ~(bstate = "WAIT_REPLY" /\ Head(inbox) = poll_list[idx])
    /\ inbox' = Tail(inbox)
    /\ since_state' = 0
    /\ UNCHANGED <<pc, poll_list, usable, bstate, idx, present, cadence, time_vars,
                   reset_cause, pod_vars, wanted_armed, outcome>>

RxIgnored ==
    /\ pc = "rx"
    /\ inbox # <<>>
    /\ ~(bstate = "WAIT_REPLY" /\ Head(inbox) = poll_list[idx])
    /\ inbox' = Tail(inbox)
    /\ UNCHANGED <<pc, master_vars, cadence, time_vars, reset_cause, pod_vars,
                   wanted_armed, outcome>>

\* bus_tick, called once the received frames are used up.
TickMissing ==
    /\ pc = "rx" /\ inbox = <<>>
    /\ bstate = "WAIT_REPLY" /\ since_state >= ReplyTimeout
    /\ present' = [present EXCEPT ![idx] = FALSE]
    /\ outcome' = [outcome EXCEPT ![idx] = "missing"]
    /\ advance
    /\ pc' = "start"
    /\ UNCHANGED <<poll_list, usable, cadence, time_vars, reset_cause, inbox, pod_vars,
                   wanted_armed>>

TickPolls ==
    /\ pc = "rx" /\ inbox = <<>>
    /\ bstate = "TURNAROUND" /\ since_state >= Turnaround
    /\ idx <= n_pods
    /\ poll_pod(idx)
    /\ pc' = "start"
    /\ UNCHANGED <<poll_list, usable, idx, present, cadence, time_vars, reset_cause, inbox,
                   pod_armed, wanted_armed, outcome>>

\* The sweep is over; service_bus reports it and checks in with the supervisor.
TickSweepDone ==
    /\ pc = "rx" /\ inbox = <<>>
    /\ bstate = "TURNAROUND" /\ since_state >= Turnaround
    /\ idx > n_pods
    /\ bstate' = "IDLE" /\ since_state' = 0
    /\ since_checkin' = 0
    /\ outcome' = [i \in Positions |-> "none"]
    /\ pc' = "start"
    /\ UNCHANGED <<poll_list, usable, idx, present, cadence, since_sweep, since_fed,
                   reset_cause, inbox, pod_vars, wanted_armed>>

TickNothing ==
    /\ pc = "rx" /\ inbox = <<>>
    /\ \/ bstate = "IDLE"
       \/ bstate = "WAIT_REPLY" /\ since_state < ReplyTimeout
       \/ bstate = "TURNAROUND" /\ since_state < Turnaround
    /\ pc' = "start"
    /\ UNCHANGED <<master_vars, cadence, time_vars, reset_cause, inbox, pod_vars,
                   wanted_armed, outcome>>

-----------------------------------------------------------------------------
(* The rest of service_bus: start a sweep when one is due. *)

SweepDue == bstate = "IDLE" /\ since_sweep >= cadence

StartSweep ==
    /\ pc = "start"
    /\ SweepDue /\ n_pods > 0
    /\ since_sweep' = 0
    /\ idx' = 1
    /\ poll_pod(1)
    /\ pc' = "bridge"
    /\ UNCHANGED <<poll_list, usable, present, cadence, since_checkin, since_fed,
                   reset_cause, inbox, pod_armed, wanted_armed, outcome>>

\* Mutant: an empty poll list is not reported to the supervisor.
StartWithoutPods_Silent ==
    /\ pc = "start"
    /\ SweepDue /\ n_pods = 0
    /\ since_sweep' = 0
    /\ pc' = "bridge"
    /\ UNCHANGED <<master_vars, cadence, since_checkin, since_fed, reset_cause, inbox, pod_vars,
                   wanted_armed, outcome>>

\* No pods configured is not a hang: the channel checks in all the same.
StartWithoutPods ==
    /\ pc = "start"
    /\ SweepDue /\ n_pods = 0
    /\ since_sweep' = 0 /\ since_checkin' = 0
    /\ pc' = "bridge"
    /\ UNCHANGED <<master_vars, cadence, since_fed, reset_cause, inbox, pod_vars,
                   wanted_armed, outcome>>

NoSweepDue ==
    /\ pc = "start"
    /\ ~SweepDue
    /\ pc' = "bridge"
    /\ UNCHANGED <<master_vars, cadence, time_vars, reset_cause, inbox, pod_vars,
                   wanted_armed, outcome>>

-----------------------------------------------------------------------------
(* handle_bridge_msg: the commands that reach the bus. *)

\* Mutant: a poll list is taken over in the middle of a sweep.
SetPods_AnyTime(l) ==
    /\ pc = "bridge"
    /\ bstate' = "IDLE" /\ idx' = 1 /\ since_state' = 0
    /\ present' = [i \in Positions |-> FALSE]
    /\ poll_list' = l /\ usable' = TRUE
    /\ UNCHANGED <<pc, cadence, time_vars, reset_cause, inbox, pod_vars, wanted_armed, outcome>>

\* Mutant: the list is replaced under a running sweep.
SetPods_KeepsSweep(l) ==
    /\ pc = "bridge"
    /\ present' = [i \in Positions |-> FALSE]
    /\ poll_list' = l /\ usable' = TRUE
    /\ UNCHANGED <<pc, bstate, idx, since_state, cadence, time_vars, reset_cause, inbox, pod_vars,
                   wanted_armed, outcome>>

\* set_pods is dropped during a sweep.  bus_master_init clears the master before it
\* checks the addresses, so a list it refuses leaves no pods and no send function.
SetPods(l) ==
    /\ pc = "bridge"
    /\ bstate = "IDLE"
    /\ idx' = 1
    /\ present' = [i \in Positions |-> FALSE]
    /\ IF Range(l) \subseteq ValidAddr THEN poll_list' = l /\ usable' = TRUE
                                       ELSE poll_list' = <<>> /\ usable' = FALSE
    /\ UNCHANGED <<pc, bstate, since_state, cadence, time_vars, reset_cause, inbox, pod_vars,
                   wanted_armed, outcome>>

SetCadence(c) ==
    /\ pc = "bridge"
    /\ cadence' = c
    /\ UNCHANGED <<pc, master_vars, time_vars, reset_cause, inbox, pod_vars, wanted_armed, outcome>>

\* set_armed is broadcast at once, or forgotten while a sweep is running.
SetArmedSent(on) ==
    /\ pc = "bridge"
    /\ bstate = "IDLE" /\ usable
    /\ Transmit(IF on THEN "ARM" ELSE "DISARM", Addr)
    /\ wanted_armed' = on
    /\ UNCHANGED <<pc, master_vars, cadence, time_vars, reset_cause, inbox, pod_armed, outcome>>

SetArmedBusy(on) ==
    /\ pc = "bridge"
    /\ bstate # "IDLE"
    /\ wanted_armed' = on
    /\ UNCHANGED <<pc, master_vars, cadence, time_vars, reset_cause, inbox, pod_vars, outcome>>

\* After a refused poll list the broadcast is a call through a null pointer, on
\* which the kernel halts the processor.
SetArmedFaults(on) ==
    /\ pc = "bridge"
    /\ bstate = "IDLE" /\ ~usable
    /\ wanted_armed' = on
    /\ pc' = "halted"
    /\ UNCHANGED <<master_vars, cadence, time_vars, reset_cause, inbox, pod_vars, outcome>>

-----------------------------------------------------------------------------
(* The end of a pass: feed the watchdog, sleep. *)

sup_should_feed == since_checkin <= Deadline

FeedAndSleep ==
    /\ pc = "bridge"
    /\ since_fed' = IF sup_should_feed THEN 0 ELSE since_fed
    /\ pc' = "sleep"
    /\ UNCHANGED <<master_vars, cadence, since_sweep, since_checkin, reset_cause, inbox, pod_vars,
                   wanted_armed, outcome>>

Later(since, dt, cap) == Min({since + dt, cap})

Wake(dt) ==
    /\ pc = "sleep"
    /\ since_fed + dt <= WdtTimeout
    /\ since_state' = IF bstate = "IDLE" THEN 0 ELSE Later(since_state, dt, StateCap)
    /\ since_sweep' = Later(since_sweep, dt, SweepCap)
    /\ since_checkin' = Later(since_checkin, dt, Deadline + 1)
    /\ since_fed' = since_fed + dt
    /\ pc' = "rx"
    /\ UNCHANGED <<poll_list, usable, bstate, idx, present, cadence, reset_cause, inbox,
                   pod_vars, wanted_armed, outcome>>

\* The hardware watchdog, which nothing feeds in time: a halted processor, or a loop
\* whose supervisor withholds the feed.
WatchdogReset ==
    /\ pc \in {"sleep", "halted"}
    /\ pc = "sleep" => since_fed + PassMax > WdtTimeout
    /\ Reset(IF pc = "halted" THEN "fault" ELSE "watchdog")
    /\ UNCHANGED wanted_armed

Loop ==
    \/ RxReport \/ RxIgnored
    \/ TickMissing \/ TickPolls \/ TickSweepDone \/ TickNothing
    \/ StartSweep \/ StartWithoutPods \/ NoSweepDue
    \/ FeedAndSleep
    \/ \E dt \in 1 .. PassMax : Wake(dt)
    \/ WatchdogReset

Command ==
    \/ \E l \in PollLists : SetPods(l)
    \/ \E c \in Cadences : SetCadence(c)
    \/ \E on \in ArmCommands : SetArmedSent(on) \/ SetArmedBusy(on) \/ SetArmedFaults(on)

Next == Loop \/ Command \/ (\E p \in Addr : PodServes(p)) \/ \E p \in Babblers : PodBabbles(p)

Spec == Init /\ [][Next]_vars

\* The supervisory loop runs forever; pods may stay silent for good.
FairSpec == Spec /\ WF_vars(Loop)

\* Pods that keep serving their link.  They run beside the loop; the model lets them
\* act in its sleep, so strong fairness says that they are not held up by it.
FairPodsSpec == FairSpec /\ \A p \in Addr : SF_vars(PodServes(p))

-----------------------------------------------------------------------------
(* Properties *)

\* A sweep ends only when every pod of the list it was started with has answered or
\* has been reported missing, and the number present that is reported with its end
\* counts those from which a report was taken in this sweep: no command from Linux
\* changes the list under it, and no further frame of the same pod is counted twice.
\* (A reset of the microcontroller, after which the loop is at its start again, cuts a
\* sweep off without a report.)
SweepAccountsForEveryPod ==
    [][(bstate # "IDLE" /\ bstate' = "IDLE" /\ pc' # "rx") =>
          \A i \in 1 .. n_pods : /\ outcome[i] # "none"
                                 /\ present[i] <=> outcome[i] = "report"]_vars

\* A sweep of silent, late or babbling pods exceeds the worst case the code computes
\* (bus_sweep_worst_case_ms, code_b_head_node/README.md:119) by no more than the time
\* the loop takes to notice the end of each wait.  That figure itself leaves the loop
\* out, and a sweep does exceed it.
SweepBounded == bstate # "IDLE" => since_sweep <= SweepBound(n_pods)

\* A silent or babbling pod never stalls the sweep: it comes to its end without the watchdog
\* putting an end to it.
SweepNeverStalls == bstate # "IDLE" ~> bstate = "IDLE" /\ reset_cause # "watchdog"

\* The watchdog resets a halted processor only, never a node whose loop and bus are
\* running.
NoWatchdogReset == reset_cause # "watchdog"

\* "set_armed set standing state the MCU keeps applying every cycle regardless of
\* whether one particular datagram was lost" (code_b_head_node/README.md:90): once
\* the Linux side has settled on a command, the pods come to follow it.
ArmedStateIsApplied ==
    \A on \in BOOLEAN :
        <>[](wanted_armed = on) => []<>(\A p \in Addr : pod_armed[p] = on)
=============================================================================
