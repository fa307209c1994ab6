------------------------------ MODULE PodLoop -------------------------------
(***************************************************************************)
(* The main loop of the pod firmware (app/src/main.c) around the power     *)
(* controller: tick the rails, run the acquisition sequencer (sampler.c)   *)
(* and the signal pipeline (pipeline.c) once per sample period, serve the  *)
(* link, sleep.  One thread does all of it, so a driver that is slow       *)
(* delays the tick of every rail, its own included, and the answer to the  *)
(* head node; readings of a periodic rail are taken from inside the tick,  *)
(* by the READY callback.                                                  *)
(*                                                                         *)
(* The controller's now is the time the loop last read from the uptime     *)
(* clock.  Drivers, the pipeline, the link and the sleeps take time, and   *)
(* behind is how far the clock has moved on since; the rest of a tick goes *)
(* on with the time its pass began.                                        *)
(*                                                                         *)
(* A transducer stands for one of its parameters, which a driver fills,    *)
(* leaves out, or fails to read.  A value is only told apart from the zero *)
(* the frame and the filters start from.                                   *)
(***************************************************************************)
EXTENDS PodPower, Sequences, SequencesExt

CONSTANTS
    DomainOrder,   \* the rails in table order
    XdcrOrder,     \* the transducers selected for this position, in table order
    RailOf,        \* [Xdcr -> Domain \union {NoDomain}]
    NoDomain,      \* the rail of a passive transducer
    RawXdcr,       \* transducers whose driver reports raw counts or millivolts
    Calibrated,    \* transducers with a calibration entry that maps their readings
    MaxChannels,   \* PIPELINE_MAX_CHANNELS: filter slots
    SamplePeriod,  \* CONFIG_PRAHARI_SAMPLE_PERIOD_S
    WaitMax,       \* longest link_service and link_wait at the end of a loop pass
    ReadMs,        \* [Xdcr -> Nat], longest its driver keeps the loop in a cycle
    WindowMs,      \* [Domain -> Nat], longest the drivers of a READY callback do
    WorkMax,       \* longest the boot, or pipeline_run and link_publish, take
    MayFail,       \* transducers whose driver may fail
    Overshoot      \* how much longer than asked a sleep may last

Xdcr == Range(XdcrOrder)

Flags == {"VALID", "RAW", "FAULT", "STALE", "NOPOWER", "UNCAL"}

ASSUME LoopAssumption ==
    /\ NoDomain \notin Domain
    /\ DomainOrder \in Seq(Domain) /\ Range(DomainOrder) = Domain
    /\ XdcrOrder \in Seq(Xdcr) /\ XdcrOrder # <<>>
    /\ RailOf \in [Xdcr -> Domain \union {NoDomain}]
    /\ RawXdcr \subseteq Xdcr /\ Calibrated \subseteq Xdcr
    /\ MayFail \subseteq Xdcr
    /\ MaxChannels \in Nat /\ SamplePeriod \in Nat /\ Overshoot \in Nat
    /\ ReadMs \in [Xdcr -> Nat] /\ WindowMs \in [Domain -> Nat]
    /\ WorkMax \in Nat /\ WaitMax \in 1 .. Wrap - 1
    /\ \A d \in Domain : SettleMs[d] + Overshoot + 1 < Wrap
    \* both boards have one heater rail, which pod_gas_arm's loop then finds
    /\ \E heater \in Domain : {d \in Domain : Policy[d] = "armed"} = {heater}

VARIABLES
    behind,       \* how long ago the loop read the clock
    pc,           \* where the loop is
    idx,          \* rail (in tick) or transducer (in cycle) it is at
    last_cycle,   \* time the last sampling cycle began
    flags,        \* flags and values of the frame the sampler fills
    value,
    filter,       \* [Xdcr -> the last median of its filter slot]
    report,       \* what the last cycle published
    taken         \* history: the transducers read since the cycle began

loop_vars == <<behind, pc, idx, last_cycle, flags, value, filter, report, taken>>
vars == <<pwr_vars, loop_vars>>

Reading == [flags : SUBSET Flags, value : {"zero", "reading"}]
Places  == {"boot", "tick", "cycle", "settle", "settle tick", "read", "release", "publish",
            "service", "wait"}

\* Every variable stays in its type, and the loop's index in the table it walks.
LoopTypeOK ==
    /\ TypeOK
    /\ behind \in Nat
    /\ pc \in Places
    /\ idx \in 1 .. IF pc = "tick" THEN Len(DomainOrder) ELSE Len(XdcrOrder)
    /\ last_cycle \in 0 .. Wrap - 1
    /\ flags \in [Xdcr -> SUBSET Flags]
    /\ value \in [Xdcr -> {"zero", "reading"}]
    /\ filter \in [Xdcr -> {"zero", "reading"}]
    /\ report \in [Xdcr -> Reading]
    /\ taken \subseteq Xdcr

-----------------------------------------------------------------------------
Current == XdcrOrder[idx]
Rail    == RailOf[Current]

\* sampler_read_desc manages the rail of its transducer unless it is passive or
\* on a rail that runs its own duty cycle.
Managed(x) == RailOf[x] # NoDomain /\ Policy[RailOf[x]] # "periodic"

pwr_is_ready(d, st, time) ==
    \/ st[d] = "ON"
    \/ st[d] = "SETTLING" /\ (time - t_on[d]) % Wrap >= SettleMs[d]

pwr_settle_remaining_ms(d) ==
    IF state[d] # "SETTLING" \/ elapsed(t_on[d]) >= SettleMs[d]
    THEN 0 ELSE SettleMs[d] - elapsed(t_on[d])

mask_params(x, why) == flags' = [flags EXCEPT ![x] = why] /\ UNCHANGED value

\* The thread is kept for a time, up to most; the clock is read later.
Takes(most) == \E dt \in 0 .. most : behind' = behind + dt

\* What the frame may hold after the drivers of the transducers in S were asked:
\* each fills its parameter, returns without it and leaves it masked, or fails,
\* which masks it with the reason.
DriverFlags(x) == IF x \in RawXdcr THEN {"VALID", "RAW"} ELSE {"VALID"}

ReadDrivers(S) ==
    \E good \in SUBSET S : \E failed \in SUBSET (S \ good) :
        /\ S \ good \subseteq MayFail
        /\ flags' = [x \in Xdcr |-> CASE x \in good -> DriverFlags(x)
                                      [] x \in failed -> {"FAULT"}
                                      [] x \in S \ (good \union failed) -> {}
                                      [] OTHER -> flags[x]]
        /\ value' = [x \in Xdcr |-> IF x \in good THEN "reading" ELSE value[x]]
        /\ taken' = (taken \ S) \union good

\* Mutant: the loop leaves its index past the last transducer.
NextXdcr_RunsPastEnd ==
    /\ pc' = IF idx < Len(XdcrOrder) THEN "cycle" ELSE "publish"
    /\ idx' = idx + 1

\* The step of the for loop of sampler_cycle that ends with this transducer.
NextXdcr ==
    IF idx < Len(XdcrOrder) THEN pc' = "cycle" /\ idx' = idx + 1
                            ELSE pc' = "publish" /\ idx' = 1

-----------------------------------------------------------------------------
LoopInit ==
    /\ Init
    /\ pc = "boot" /\ idx = 1 /\ behind \in 0 .. WorkMax
    /\ last_cycle = now
    /\ flags = [x \in Xdcr |-> {}]
    /\ value = [x \in Xdcr |-> "zero"]
    /\ filter = [x \in Xdcr |-> "zero"]
    /\ report = [x \in Xdcr |-> [flags |-> {}, value |-> "zero"]]
    /\ taken = {}

\* A build may arm the heater before the loop starts (MOX_ARMED_AT_BOOT).
Boot ==
    /\ pc = "boot" /\ behind = 0
    /\ \/ \E d \in Domain : Arm(d)
       \/ UNCHANGED pwr_vars
    /\ pc' = "tick"
    /\ UNCHANGED <<behind, idx, last_cycle, flags, value, filter, report, taken>>

\* sampler_read_desc reads the clock before it takes a rail, pod_gas_arm at boot
\* and the loop before link_service.
ReadClock ==
    /\ behind # 0
    /\ pc \in {"boot", "service"} \/ (pc = "cycle" /\ Managed(Current))
    /\ Advance(behind)
    /\ behind' = 0
    /\ UNCHANGED <<pc, idx, last_cycle, flags, value, filter, report, taken>>

\* pwr_tick, one rail at a time and all with the time the pass began, with
\* on_pwr_event: READY of a periodic rail has its transducers read at once
\* (sampler_on_domain_ready), before the rail's on-time is looked at.
ReadsOnReady(d) == Policy[d] = "periodic" /\ <<d, "READY">> \in emitted'

TickRail ==
    LET d == DomainOrder[idx] IN
    /\ pc = "tick"
    /\ pwr_tick_domain(d)
    /\ ReadDrivers(IF ReadsOnReady(d) THEN {x \in Xdcr : RailOf[x] = d} ELSE {})
    /\ Takes(IF ReadsOnReady(d) THEN WindowMs[d] ELSE 0)
    /\ \/ /\ idx < Len(DomainOrder)
          /\ idx' = idx + 1
          /\ UNCHANGED <<pc, last_cycle>>
       \/ /\ idx = Len(DomainOrder)
          /\ elapsed(last_cycle) >= SamplePeriod
          /\ pc' = "cycle" /\ idx' = 1 /\ last_cycle' = now
       \/ /\ idx = Len(DomainOrder)
          /\ elapsed(last_cycle) < SamplePeriod
          /\ pc' = "service" /\ idx' = 1
          /\ UNCHANGED last_cycle
    /\ UNCHANGED <<filter, report>>

\* sampler_cycle on a transducer of a periodic rail: keep the last value.
CarryPeriodic ==
    /\ pc = "cycle"
    /\ Rail # NoDomain /\ Policy[Rail] = "periodic"
    /\ flags' = [flags EXCEPT ![Current] =
                    IF "VALID" \in flags[Current] THEN @ \union {"STALE"} ELSE @]
    /\ NextXdcr
    /\ UNCHANGED <<pwr_vars, behind, last_cycle, value, filter, report, taken>>

\* sampler_read_desc on a passive transducer.
ReadPassive ==
    /\ pc = "cycle"
    /\ Rail = NoDomain
    /\ ReadDrivers({Current})
    /\ Takes(ReadMs[Current])
    /\ NextXdcr
    /\ UNCHANGED <<pwr_vars, last_cycle, filter, report>>

\* sampler_read_desc on a managed rail: mask, take a reference, and wait for the
\* settle time if the rail is not ready yet.
AcquireRail ==
    /\ pc = "cycle"
    /\ Managed(Current) /\ behind = 0
    /\ AcquireSwitchingOn(Rail) \/ AcquireJoining(Rail)
    /\ mask_params(Current, {})
    /\ pc' = IF state'[Rail] = "ON" \/ (state[Rail] # "OFF" /\ pwr_is_ready(Rail, state, now))
             THEN "read" ELSE "settle"
    /\ taken' = taken \ {Current}
    /\ UNCHANGED <<behind, idx, last_cycle, filter, report>>

\* Mutant: a refused rail leaves the channel as the last cycle left it.
NoRail_KeepsOldFlags ==
    /\ pc = "cycle"
    /\ Managed(Current) /\ behind = 0
    /\ AcquireRefused(Rail)
    /\ taken' = taken \ {Current}
    /\ NextXdcr
    /\ UNCHANGED <<behind, flags, value, last_cycle, filter, report>>

NoRail ==
    /\ pc = "cycle"
    /\ Managed(Current) /\ behind = 0
    /\ AcquireRefused(Rail)
    /\ mask_params(Current, {"NOPOWER"})
    /\ taken' = taken \ {Current}
    /\ NextXdcr
    /\ UNCHANGED <<behind, last_cycle, filter, report>>

SleepWhileSettling ==
    LET rem == pwr_settle_remaining_ms(Rail) IN
    /\ pc = "settle"
    /\ \E late \in 0 .. Overshoot : Advance((IF rem = 0 THEN 1 ELSE rem) + late)
    /\ pc' = "settle tick"
    /\ UNCHANGED <<behind, idx, last_cycle, flags, value, filter, report, taken>>

\* Mutant: the wait loop does not look whether the cap cut the rail off.
SettleTick_NoOffCheck ==
    /\ pc = "settle tick"
    /\ pwr_tick_domain(Rail)
    /\ pc' = "read"
    /\ UNCHANGED <<behind, idx, last_cycle, flags, value, filter, report, taken>>

\* The rail is ticked while its reader waits.  A rail the cap cuts off has taken
\* the reader's reference with it, so the reader leaves without a release.
SettleTick ==
    /\ pc = "settle tick"
    /\ pwr_tick_domain(Rail)
    /\ \/ /\ state'[Rail] = "OFF"
          /\ mask_params(Current, {"NOPOWER"})
          /\ NextXdcr
       \/ /\ state'[Rail] # "OFF"
          /\ pc' = IF pwr_is_ready(Rail, state', now) THEN "read" ELSE "settle"
          /\ UNCHANGED <<idx, flags, value>>
    /\ UNCHANGED <<behind, last_cycle, filter, report, taken>>

\* The driver blocks the only thread: no tick runs, and the rail stays up.
ReadManaged ==
    /\ pc = "read"
    /\ Takes(ReadMs[Current])
    /\ pc' = "release"
    /\ UNCHANGED <<pwr_vars, idx, last_cycle, flags, value, filter, report, taken>>

\* Mutant: a reading that fails returns before the rail is released.
ReleaseRail_FaultKeepsRail ==
    /\ pc = "release"
    /\ ReadDrivers({Current})
    /\ IF Current \in taken' THEN pwr_release(Rail) ELSE UNCHANGED pwr_vars
    /\ NextXdcr
    /\ UNCHANGED <<behind, last_cycle, filter, report>>

\* The rail is released before the result of the driver is looked at.
ReleaseRail ==
    /\ pc = "release"
    /\ pwr_release(Rail)
    /\ ReadDrivers({Current})
    /\ NextXdcr
    /\ UNCHANGED <<behind, last_cycle, filter, report>>

-----------------------------------------------------------------------------
\* pipeline_run.  process_channel passes a masked channel through, marks one whose
\* units are unknown, and filters the others: a fresh sample is pushed into the
\* median filter, a stale one is replaced by the last median.
HasSlot(x) == \E i \in 1 .. Len(XdcrOrder) : i <= MaxChannels /\ XdcrOrder[i] = x

CalibratedFlags(x) ==
    CASE x \in Calibrated -> flags[x] \ {"RAW"}
      [] x \notin Calibrated /\ "RAW" \in flags[x] -> flags[x] \union {"UNCAL"}
      [] OTHER -> flags[x]

Filtered(x) ==
    "VALID" \in flags[x] /\ "UNCAL" \notin CalibratedFlags(x) /\ HasSlot(x)

PushedMedian(x) ==
    IF Filtered(x) /\ "STALE" \notin flags[x] THEN value[x] ELSE filter[x]

process_channel(x) ==
    IF "VALID" \notin flags[x] THEN [flags |-> flags[x], value |-> value[x]]
    ELSE [flags |-> CalibratedFlags(x),
          value |-> IF Filtered(x) THEN PushedMedian(x) ELSE value[x]]

Publish ==
    /\ pc = "publish"
    /\ filter' = [x \in Xdcr |-> PushedMedian(x)]
    /\ report' = [x \in Xdcr |-> process_channel(x)]
    /\ Takes(WorkMax)
    /\ pc' = "service"
    /\ UNCHANGED <<pwr_vars, idx, last_cycle, flags, value, taken>>

\* link_service: at most one head-node command is taken per pass of the model; it
\* reaches the heater rail through link_arm and pod_gas_arm.
Service ==
    /\ pc = "service" /\ behind = 0
    /\ \/ \E d \in Domain : pwr_arm(d)
       \/ UNCHANGED pwr_vars
    /\ pc' = "wait"
    /\ UNCHANGED <<behind, idx, last_cycle, flags, value, filter, report, taken>>

\* What link_service did took time, and link_wait sleeps until the timeout or a
\* received byte; the next pass begins with reading the clock.
Wait ==
    /\ pc = "wait"
    /\ \E dt \in 1 .. WaitMax : Advance(dt)
    /\ pc' = "tick"
    /\ taken' = {}
    /\ UNCHANGED <<behind, idx, last_cycle, flags, value, filter, report>>

LoopNext ==
    \/ Boot \/ ReadClock
    \/ TickRail
    \/ CarryPeriodic \/ ReadPassive \/ AcquireRail \/ NoRail
    \/ SleepWhileSettling \/ SettleTick \/ ReadManaged \/ ReleaseRail
    \/ Publish
    \/ Service
    \/ Wait

LoopSpec == LoopInit /\ [][LoopNext]_vars

\* The loop is a thread of its own that nothing blocks for good.
FairLoopSpec == LoopSpec /\ WF_vars(LoopNext)

-----------------------------------------------------------------------------
(* Properties *)

\* Once a cycle is over every reader has let go: the loop serves the link, sleeps
\* and ticks with no reference held and no per-read rail up, whether the reads
\* succeeded, failed, were refused a rail or lost theirs to the on-time cap.
NothingEnergisedBetweenReads ==
    pc \in {"boot", "publish", "service", "wait", "tick"} =>
        \A d \in Domain : /\ refs[d] = 0
                          /\ Policy[d] = "per-read" => state[d] = "OFF"

\* A driver is asked for a reading only while its rail is up and has been up for
\* the settle time, by a clock that was read since the rail came up.
ReadsOnlySettledRails == pc = "read" => behind = 0 /\ pwr_is_ready(Rail, state, now)

\* The sums of the first numbers of a sequence.
Sums(w) == LET s[n \in 0 .. Len(w)] == IF n = 0 THEN 0 ELSE s[n - 1] + w[n]
           IN  s

\* The time every rail's callback and every transducer of the table take at most.
SettleTime(x) == IF Managed(x) THEN SettleMs[RailOf[x]] + Overshoot ELSE 0

TickTimes  == Sums([i \in 1 .. Len(DomainOrder) |-> WindowMs[DomainOrder[i]]])
CycleTimes == Sums([i \in 1 .. Len(XdcrOrder) |->
                       SettleTime(XdcrOrder[i]) + ReadMs[XdcrOrder[i]]])

\* The longest tick, and the longest pass: it reads in every callback, waits for
\* every managed rail to settle, and reads every transducer.
LongestTick == TickTimes[Len(DomainOrder)]
LongestPass == LongestTick + CycleTimes[Len(XdcrOrder)] + WorkMax + WaitMax

\* A rail with an on-time is up for no longer than that, one pass of the loop and
\* the callbacks of one tick, whose later rails are cut by the time it began.  The
\* drivers' time is part of it: the cap does not cut short a driver that blocks.
\* The clock may wrap while the rail is up.
OnTimeBounded ==
    \A d \in Domain :
        state[d] # "OFF" /\ OnMs[d] # 0 =>
            ((now - t_on[d]) % Wrap) + behind < OnMs[d] + LongestPass + LongestTick

\* A periodic rail that keeps being deferred for the budget gets its windows again
\* once the heater stays off: its transducers are read again and again.
PeriodicRunsAgain ==
    \A d \in Domain :
        Policy[d] = "periodic" =>
            (<>[](armed = {}) => []<>(<<d, "READY">> \in emitted))

\* A published value that claims to be fresh was read in the cycle it is published
\* with; a channel without a reading is masked, never imputed.
FreshMeansThisCycle ==
    [][pc = "publish" =>
          \A x \in Xdcr : "VALID" \in report'[x].flags /\ "STALE" \notin report'[x].flags
                          => x \in taken]_vars

\* A value published as valid is one that was read, possibly in an earlier window
\* of its rail: "carry the last value, marked stale" (sampler.c:114).
StaleIsHeldOver ==
    \A x \in Xdcr : "VALID" \in report[x].flags => report[x].value = "reading"
=============================================================================
