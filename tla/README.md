# PRAHARI edge device: TLA+ models, model checks and proofs

PRAHARI is a hazard-sensing network: battery-powered *pods* read transducers on
switched rails, and a *head node* polls the pods over RS-485, runs a model over
the readings and raises alerts. The model is trained offline and pushed to the
head nodes. This directory models the control logic of all three under
`edge-device/`. TLC checks the models on small instances; TLAPS proves every
safety property of the passing runs, and the refinement of the registry, for
every configuration that meets the assumptions under *Proofs*. Two things
qualify that. Some properties name an exception, a crash at one place or a lost
command, after which the code does not keep what it promises otherwise; and
`WatchdogTheorem` has a condition that the shipped watchdog deadline does not
meet. Both are spelled out below. Only the liveness properties rest on TLC alone.

All paths below are relative to `edge-device/`; *A* is
`code_a_pod_firmware/app/src`, *mcu* is `code_b_head_node/mcu/src`, *linux* is
`code_b_head_node/linux/prahari_hn` and *train* is
`code_b_head_node/training_pipeline/prahari_train`.

## Inventory

| Component | State | Operations | What is hard, and what makes it correct |
|---|---|---|---|
| Pod power controller, A/power.c | per rail: state, reference count, armed and window flags, two timestamps | `pwr_acquire`, `pwr_release`, `pwr_arm`, `pwr_tick` | four policies share one current budget; caps cut rails off under their readers; the clock wraps. The budget is never exceeded, a held rail is powered, nothing stays up between reads |
| Pod loop and sampler, A/main.c, sampler.c | place in the loop, frame of flags and values | `sampler_cycle`, `sampler_on_domain_ready`, `pwr_tick`, `link_service` | one thread that blocks in settle waits; reads from inside a callback. Rails are released on every path, read only when settled, fresh means fresh |
| Pod pipeline, A/pipeline.c, median5.c, zgate.c, calib.c, derive.c | median and z-score state per channel | `pipeline_run` | masked stays masked; stale readings bypass the filter |
| Pod links, A/link_w.c, rs485.c, link_r.c, lora_slot.c | UART ring, parser, slot times | ISR, `link_service`, `rs485_slave_handle`, `lora_slot_next_after` | ring overrun, resynchronisation after garbage, signed time differences |
| Pod identity, A/pod_position.c, link_cfg.c, xdcr.c | none after boot | selection at boot | conflicting straps and stored positions |
| Bus master, mcu/bus_master.c in mcu/main.c | master state, pod index, presence, sweep timer | `bus_sweep_start`, `bus_rx_frame`, `bus_tick`, `bus_send_arm`, `bus_master_init` | late answers against timeouts, commands in a sweep. Every pod is accounted for, a sweep ends in bounded time |
| Supervisor, mcu/supervisor.c | check-in times and deadlines | `sup_checkin`, `sup_should_feed` | a healthy node is not reset, a hung one is |
| Rails and siren, mcu/rails.c, alert.c | rail states, shed flags; level and end time | `rails_tick`, `alert_command`, `alert_tick` | brown-out in the bring-up order, hysteresis, expiry |
| Time, mcu/pps.c, tdma.c | last edge, UTC of the edge, lock state | `pps_edge`, `pps_set_utc`, `pps_tick`, slot arithmetic | outages, glitches, sentences that come late |
| Bridge, mcu/mprpc.c, bridge_contract.c, linux/bridge.py, rpc.py | receive accumulator; event queue | `mp_scan_value`, `bc_decode`, `_push` | partial and corrupt values, full buffers |
| Alerts, linux/alerts.py, duty_cycle.py, node.py | level and streak per head, duty mode | `decide`, `update`, `drive_siren`, `run_cycle` | hysteresis over restarts, several heads at once |
| Store and uplink, linux/store.py, uplink.py | SQLite tables | `queue_alert`, `mark_sent`, `set_state`, `flush_alerts` | crashes between transactions, lost answers |
| Main loop and mesh, linux/node.py, rpc.py, mesh.py | partial line, last time line, embeddings by arrival, duty mode | `start`, `poll`, the line handlers, `run_cycle`, the fallback of `run_forever` | two clocks, damaged lines, resets of either side. Cycles are never overdue, the graph stage sees current and nearest neighbours, both sides agree on the cadence |
| Input window, linux/store.py, features.py | readings by hour, rain counter | `put_readings`, `poll_context`, `prune`, `build_window` | gaps, late context, pruning, a counter that starts again. The model sees on the device what it saw in training |
| Registry and inference, linux/model_registry.py, inference.py | version directories, `CURRENT`, the two sessions | `verify_version`, `set_current`, `load_bundle` | copies and promotions cut short, a push into a directory in use, a node that starts in between. Only complete, activated releases run |
| Training pipeline, train/*.py | stage of the script, weights, split, output directory | `synthetic.py` events and labels, `split_by_column`, the two phases, calibration, `export_and_verify` | leaks across time, epochs that diverge, an export that aborts. Labels are forecasts, samples read what was observed, the export is of one set of weights |

Interactions: the pod loop calls the power controller and is called back by it
(READY of a periodic rail). The head node's microcontroller talks to the pods
over RS-485 with polls and a broadcast arm command, and to Linux over a
MessagePack bridge: reports, missing pods and sweep ends go up, `set_pods`,
`set_cadence`, `set_armed` and `set_alert` come down. Linux runs one inference
cycle per sweep and posts alerts to an ingest server. The operator copies the
output directory of the training script into the registry of a node and promotes
it; the node loads what `CURRENT` names when it starts.

linux/node.py still speaks the older line protocol of rpc.py; bridge.py is the
end of the MessagePack contract that is to replace it.

The hazards of this code, each at its line, are listed in `PROJECT.json`.

## Modules

| Module | Models | Extends |
|---|---|---|
| `PodPower` | A/power.c | |
| `PodPowerProofs` | theorems about `PodPower` | `PodPower` |
| `PodLoop` | A/main.c loop, sampler.c, the freshness part of pipeline.c | `PodPower` |
| `PodLoopProofs` | theorems about `PodLoop` | `PodLoop`, `PodPowerProofs` |
| `HeadBus` | mcu/bus_master.c, `service_bus`, the bus commands of `handle_bridge_msg`, the bus channel of the supervisor, and the pods' slave (A/rs485.c) | |
| `HeadBusProofs` | theorems about `HeadBus` | `HeadBus`, `NaturalLemmas` |
| `HeadAlert` | `run_cycle` from the probabilities on: alerts.py, duty_cycle.py, the alert queue and state rows of store.py, uplink.py, the level and expiry of mcu/alert.c | |
| `HeadAlertProofs` | theorems about `HeadAlert` | `HeadAlert`, `NaturalLemmas` |
| `HeadWindow` | the readings and context tables of store.py, `build_window`, linux/features.py, and train/features.py as its reference | |
| `HeadWindowProofs` | theorems about `HeadWindow` | `HeadWindow`, `NaturalLemmas` |
| `HeadNode` | linux/node.py main loop, rpc.py, mesh.py, the embeddings table | |
| `HeadBridge` | linux/bridge.py | |
| `HeadLinux` | the Linux side as it is run: the node, or a client of the bridge | `HeadNode`, `HeadBridge` |
| `HeadLinuxProofs` | theorems about `HeadLinux` | `HeadLinux`, `NaturalLemmas` |
| `ReleaseFiles` | the files of a release | |
| `ModelCorpus` | events and labels of train/synthetic.py | |
| `ModelGraph` | the graph stage of train/model.py and of the export, sparse and dense | |
| `ModelTraining` | train/train.py, data.py, calibrate.py, export.py | the three above |
| `ModelRegistry` | linux/model_registry.py and the opening of the sessions in inference.py | `ReleaseFiles` |
| `ModelService` | abstract specification: what the registry does for the node | |
| `ModelRelease` | a model on its way from training to a running node; implements `ModelService` | `ModelTraining`, `ModelRegistry` |
| `ModelReleaseProofs` | theorems about `ModelRelease` | `ModelRelease` |
| `NaturalLemmas` | facts about numbers, maxima and counting that the proofs share | |
| `MC*` | constants for TLC | the module they check |

Operators whose names end in a suffix such as `_Clamped` or `_OffByOne` are
mutants: plausible bugs that the checks substitute for the definition that
follows, to show that a property notices.

### PodPower

The controller is a passive object, so the specification lets a client make any
call in any order at any time. Variables are the fields of `struct
pwr_domain_state`, plus the clock `now` and the events `emitted` by the last
call. Each function of power.c is the disjunction of its outcomes: `pwr_acquire`
switches on, joins or is refused; `pwr_tick_domain` opens or defers a window,
forces a rail off, or only settles it. The load is a sum over rails, written as
the cardinality of a set of milliamps so that it can be proved about. The clock
counts modulo `Wrap`; `switch_on` may fail for the budget and, when
`BackendFaulty`, for the switch. Two abstractions: `t_on` is reset when a rail
goes off (the code leaves a value that nobody reads), and the result codes are
left out, since callers tell only success from failure.

### PodLoop

`PodLoop` extends the controller and restricts its calls to the order of the
firmware. `pc` and `idx` say where the loop is: `boot` (which may arm the
heater), `tick` (one rail at a time, with the READY callback reading the
transducers of a periodic rail at once), `cycle`, `settle`, `settle tick`,
`read` (the driver), `release`, `publish` (`pipeline_run`), `service` and
`wait`. A transducer stands for one of its parameters, which a driver fills,
leaves out or fails to read. Values are abstracted to `"zero"`, what frame and
filters start from, and `"reading"`. One arm command is served per pass.

There is one thread, so everything takes time away from the ticks: a driver up
to `ReadMs`, the drivers of a READY callback up to `WindowMs`, boot, pipeline
and link up to `WorkMax`, a sleep up to `Overshoot` longer than asked. The
controller's `now` is the time the loop last read from the clock, and `behind`
is how far the clock has moved on since; the code reads the clock at the start
of a pass and before it takes a rail, and the rest of a tick works with the
pass's time.

### HeadBus

One pass of the supervisory loop is: take the received frames, tick the master,
start a sweep if one is due, handle commands, feed, sleep. `pc` follows it. Pods
answer when they like, polls queue up in their receive rings, a full ring and a
lossy wire drop frames, and those in `Babblers` send without having been polled.
A report carries no number, so the master takes any report of the pod it waits
for as the answer. Times are kept as the time since an event, which is what the
code's subtractions compute, and not counted past the largest value they are
compared with. Frames that arrive in a pass are delivered in the sleep after it:
the loop looks at its ring once, so the order is the same. A poll list that the
master refuses leaves it without a send function, and the next arm command halts
the processor until the watchdog restarts it. A wait is over when a pass of the
loop notices it, up to `LoopDelay` late; `SweepBound` is the figure of
`bus_sweep_worst_case_ms` with that delay added for each of the two waits of a
pod. The TDMA part of the loop, its rails and the other supervisor channels are
not part of this module.

### HeadAlert

Each database transaction of `run_cycle` and each post is a step, and the
process may crash between any two and start from the persisted rows. The model's
input to a cycle is the tier each head's probabilities reach. The queue holds
CAP messages, an alert, update or cancel with a severity, and `cloud` is what
the server makes of them: the last level it was told of each head. The decisions
of a cycle are a set of alerts, one for each head, and are queued one by one in
the order of the manifest. `mcu_mode` is the cadence the microcontroller was
commanded to; whether the command arrives is the matter of `HeadNode`. The rows of the state table are written and read back by `export_levels`, `import_levels`
and their like for the duty cycle. Three history variables keep what a crash
takes away: `below` counts the cycles a head's tier was below its level,
beginning again when the level changes; `undone` says that a crash undid the
cycle that began this count before its levels were persisted; `forgotten`, that a
crash made the node forget the level of an alert that it had already queued.

### HeadWindow

A series is the function that says at which hours it has a finite value. Each
feature function becomes what it does to that set: a difference needs two
neighbouring hours, a rolling sum all of its span, a cascade a spin-up after its
last gap. The values themselves are left out, except the rain counter's, whose
resets have to be told from rain; the two sides agree on masks, not always on
values (see the observations). The server's context vectors are stored under
whatever time the server gives. The clock of the node's own readings is taken to
run forward.
`build_window` works on the grid the ring buffer serves after pruning;
`assemble_trained_channels` on the whole record since the station started,
through the training code. The spans keep the order that the code's have
(window, week, month, spin-up).

### HeadNode, HeadBridge and HeadLinux

`HeadNode` follows one pass of `run_forever`: read what the link has, handle the
complete lines one by one, run the fallback cycle if one is overdue, sleep. The
microcontroller is the environment: it sweeps, forwards packets and tells a time
that is off by `skew`; lines may be damaged or lost, either side may reset, and
the node may crash in the middle of a cycle. A cadence command is a line that
nothing confirms: it is appended to `commands`, and taken in order or lost later. `now` picks the clock as the code does. A
cycle decides here on a cadence and on the neighbours of the graph stage;
`HeadAlert` has its alerts and `HeadWindow` its readings. `HeadBridge` has the
dispatcher thread, which pushes events on a bounded queue and drops the newest
when it is full, and the client's poll, which drains it when it likes,
interleaved. `HeadLinux` composes them as alternatives: a
process is on one protocol or on the other.

### ModelCorpus, ModelGraph and ModelTraining

A training run is a sequence of stages: the events of the synthetic corpus,
their labels, the split, the epochs of the two phases, calibration and export.
Temperatures are recorded with the weights they were fitted to, those of the
standalone path. Weights are told apart by the epoch that produced them,
losses are numbers or NaN, calibrated probabilities are ranks with a count of
positives and negatives. `ModelCorpus` has every injection with its start, lag
and spread over the slope, and the labels by difference of running sums.
`ModelGraph` has the renumbering of a batch of ego networks into one sparse
graph and the dense form that the device runs, as the inputs each output of a
root depends on, with their weights and degrees. `ModelTraining` keeps of a batch which
columns and hours it read.

Python's sorts are `InOrder` and the two operators on it, `Ascending` and
`ByWeight`: the i-th place has the element that i - 1 others come before. The
library's sort has no definition that a proof can expand.

### ModelRegistry, ModelService and ModelRelease

A version directory holds one of each file, of the old release, the new one, or
cut short. Copying a file, the verification, the temporary file and the
replacement of `CURRENT`, loading the bundle and opening each session are steps
of their own, and a copy may go to any directory at any time: the one `CURRENT`
names, the one being promoted, the one the node is opening. Two history
variables remember when that mattered: `touched` has the current and the promoted
version if they were pushed to since they were verified, `at_risk` says that the
bundle was pushed to between the node's verification and the opening of its
files. `activated` has the releases that the directory `CURRENT` names has held
whole; a promotion activates one, and so does a push that completes one there.

`ModelService` is what the code does of the promise in the head comment of
model_registry.py, the exception included, and `ModelRelease` instantiates it:
`published` is whether the output directory has a new manifest, `serving` the
release both sessions were opened on, or a mixture. `ServiceImplemented` is its
specification.

## Runs

| Run | Shows | States |
|---|---|---|
| `pod_power` | budget and rail rules for any client, with failing switches and a wrapping clock | 137 thousand |
| `pod_loop` | the firmware's loop: rails released on every path, reads only from settled rails, on-time bounded with the time drivers, pipeline and link take, also across the clock's wrap, fresh values are fresh, periodic windows come back after contention | 3.6 million |
| `head_bus` | sweeps are bounded, end, account for every pod, also with babbling pods; the watchdog is fed at the cadences it was sized for | 1.3 million |
| `head_alert` | through crashes at any step: server and node agree after a flush, hysteresis, cadence follows warnings, the siren is quiet after an all-clear, each with the exception it names; alerts get out | 1.1 million |
| `head_window` | the device masks exactly the channels and rows that the training reference masks, after gaps, lost pods, late or misdated context and pruning; a restarted counter makes up no rain | 1.3 million |
| `head_linux` | cycles are never overdue, neighbours of the graph stage are current and the nearest, the cadences differ only after a lost command or a reset, the bridge hands on in order what it did not drop and drops only what its queue has no room for | 8.9 million |
| `model_release` | labels are forecasts and quiet while the features warm up; samples only read what was observed; sparse and dense graph stage agree; the export is of one set of weights, the best epoch; thresholds are in order and validated as recorded; `CURRENT` can be loaded unless it was pushed to; the registry implements `ModelService` | 1.9 million |
| `pod_stale` | violation, see below | |
| `bus_arm` | violation, see below | |
| `bus_cadence` | violation, see below | |
| `alert_crash` | violation, see below | |
| `window_t6` | violation, see below | |

Bounds. `pod_power` and `pod_loop` have one rail of each kind the boards use
(per-read, periodic, armed), a budget that the fan and the heater do not fit in
together, and clocks that wrap after 4 and 11 ticks, so that every timer meets
the wrap and the wrap is not shorter than the bound of `OnTimeBounded`. `pod_loop` has one transducer per rail and a passive one, one filter
slot fewer than channels, a driver that may fail, and drivers, pipeline and link
that may take a tick more than none, which is enough for every cap and settle
time to be overrun. `head_bus` has two pods on a lossy wire, both of which may
babble, a reply timeout of two ticks, passes of one or two ticks (so that a pass
can overshoot every timer), a pod's ring of one frame and the master's of two,
and poll lists with one pod and with an address the master refuses. `head_alert`
has two heads (the siren's rule needs heads that move against each other),
hysteresis and cool-down of two cycles, three unsent alerts and one crash, at any
step. `MaxQueue`, `MaxCrashes`, `RxMax` and `BusRing` are the named bounds; the
last two stand for the receive rings.

`head_window` has a window of three hours behind a month of two and a spin-up of
one, so that after seven hours rows have been pruned while every chain of
look-backs still fits the record; two gaps (`MaxGaps`), one second sweep in an
hour (`MaxExtra`), one wet sweep and one reset of the counter; one site without
bulk density, one without texture. `head_linux` has one pod and two neighbours,
one of them far and one near, for one place in the graph, clocks apart by a tick
either way, eight ticks (several cadences) and three events of the environment
(`MaxEvents`); the bridge has two sweeps of two reports and a queue of three
events, so that it fills within the first. `model_release` has four
columns in a line on a slope, with weights that make one neighbour of a
neighbour fall off, two held out, a record so short that floods run past its
end, up to `MaxSeeds` events, two epochs, batches of one and two samples, losses
with ties and NaN, three scores, one aborted export (`MaxAborts`) and two faults
(`MaxFaults`): copies and promotions cut short, and files copied into a directory
in use. That is enough for a mixture of two releases to run; a whole release
copied over one in use takes more, and is covered by the proof. Steps of the
registry start when the export has written its first file: before that the two
machines share nothing and their steps commute.

`head_window` and `head_linux` do not check for deadlock: their records and
clocks end at `MaxHours` and `MaxClock`, where nothing more can happen. All
other passing runs do.

Fairness. `FairLoopSpec` and `HeadBus!FairSpec` say that a loop goes on taking
steps: both are `while (1)` loops of one thread with bounded sleeps. Nothing is
assumed of the pods, of the wire or of drivers. `FairPodsSpec`, only used by
`bus_arm`, adds pods that serve their link again and again, which makes the
violation stronger. `HeadAlert!FairSpec` says that cycles go on (the fallback in
`run_forever`) and that a post tried again and again succeeds at times;
`AlertsGetOut` is about the node's side of it, that it does try. The runs
`head_window`, `head_linux` and `model_release` are about safety and assume no
fairness; `CycleNeverOverdue` states the node's progress as a bound on its
clock.

### What the violations show

* `pod_stale`: readings of a periodic rail are taken between cycles and marked
  stale before the pipeline runs, so they never enter the median filter; the
  report carries the empty filter's 0, flagged valid and stale
  (A/pipeline.c:97).
* `bus_arm`: `set_armed` is dropped when it arrives in a sweep (mcu/main.c:166,
  bus_master.c:140) and nothing applies it later, while
  `code_b_head_node/README.md:90` calls it standing state. `set_pods` at
  mcu/main.c:156 is dropped in the same way.
* `bus_cadence`: the bus channel's watchdog deadline is computed at boot from
  the 60 s default (mcu/main.c:339); at the 300 s and 3600 s cadences that Linux
  commands it passes between sweeps and the node is reset. The run keeps the
  ratios of 5 and 60 between cadence and default. `SlowCadenceTheorem` proves
  the consequence: under a cadence that much longer than the deadline no sweep ever
  begins.
* `alert_crash`: a crash between linux/node.py:185 and :189 leaves an alert
  queued whose level is forgotten; if the hazard ends meanwhile, the server is
  never told.
* `window_t6`: the history read ahead of the window (`HISTORY_HOURS`,
  linux/features.py:34) is one hour short. The 30-day sum of counter increments
  needs 721 readings, the drought code its difference to the hour before, and
  the cascade 72 hours after that, so the fire-weather index T6 is masked in the
  first row of every window, where training has it.

### Observations

Met while modelling, beside the five findings. Each is in the model unless it says
otherwise, and is named because a reader may expect something else.

Pod and bus:

* The on-time cap is said to guard a stuck read (A/power.c:239). A driver blocks
  the only thread, so the cap cuts nothing while it runs; `OnTimeBounded` counts
  the drivers' time. With two periodic rails, one opened later in a tick gets the
  time of the pass as its start; the boards have one.
* The worst case `n * (reply timeout + turnaround)` of mcu/bus_master.c:151-154
  and `code_b_head_node/README.md:119` leaves out that each wait is only noticed
  by a later pass of the loop. TLC finds a sweep of 7 ticks where the figure says
  6; the bound of `SweepBounded` has the passes in it.
* A report has no number, so a late answer to an earlier poll is taken for the
  answer to this one (mcu/bus_master.c:80). The model does this; no property
  says that it should not happen.

Alerts and cadence:

* A fall from warning to advisory sends the siren no command
  (linux/node.py:234-239), while `code_b_head_node/README.md:92-93` says
  `set_alert` is sent again on every level change.
* The cadence is commanded at the start and when it changes (linux/node.py:88,
  rpc.py:196). `code_b_head_node/README.md:126-128` accepts lost notifications
  because state is sent again; this one is not, so after a lost command or a
  reset of the microcontroller alone the two sides differ until the next change.
  `CadenceAgrees` names it as its exception.
* A crash between linux/node.py:185 and :189, in the cycle in which a hazard is
  back at its level or changes it, restores the older streak. The level is then
  left after fewer cycles below it than linux/alerts.py:6-7 says.
  `HysteresisHolds` names it as its exception.
* linux/bridge.py:124 drops the newest event of a full queue, which may be the
  end of a sweep.
* The end of a TCP link reads as silence and is not reconnected
  (linux/rpc.py:221); the fallback cycle goes on.

Time and features:

* The clock of a cycle switches between the system's and the microcontroller's
  (linux/node.py:82). `CycleNeverOverdue` and `NeighboursAreCurrent` allow for
  the difference of the two. `HeadWindow` takes the clock of the node's own
  readings to run forward; a step back would put a later reading of the rain
  counter before an earlier one, which reads as a restart.
* The server's context is stored under whatever time it gives (linux/uplink.py:112).
* The history of a neighbour is its last rows by arrival, not by round
  (linux/store.py:101, node.py:214): after a lost round its three rows span
  four.
* linux/features.py:6 says its results "must agree numerically" with those of
  training. For T6 they cannot: the device's cascade begins from its initial
  state at the start of the grid (linux/features.py:87-100), training's ran
  over the whole record. `WindowMatchesReference` is about which values exist.
* On the device `build_graph_inputs` is called without weights between
  neighbours, so those edges are 0, while training has them.

Training and registry:

* A push between the verification and the opening of a bundle
  (linux/model_registry.py:106) runs unverified, possibly as a mixture of two
  releases, where the docstring (linux/model_registry.py:11-13) says such a
  bundle is refused, never run. `ServiceImplemented` names it as its exception. A push
  that completes a release in the directory `CURRENT` names activates it without
  `set_current`.
* Temperatures are fitted on the logits of the standalone path
  (train/train.py:251-259) and exported for the graph path as well
  (train/model.py:309-312). The second phase keeps its last epoch, not its best.
* train/calibrate.py:23 and :52 speak of the lowest threshold with a recall of
  90 %; the code (train/calibrate.py:63-64) takes the highest such one.
* Graph samples of training columns have held-out neighbours' embeddings as
  inputs.
* Labels near the end of the record see a horizon cut short
  (train/synthetic.py:437).
* `split_by_column` keeps the best of its draws, which may all be the same one,
  so any candidate may be kept.

## Proofs

The constants are arbitrary, under the assumptions named in the modules:

* `PowerAssumption`: finitely many rails, natural-number tables, a counter and a
  clock of positive size. `LoopAssumption`: the tables list the rails and
  transducers, waits are shorter than the clock, one heater rail.
* `BusAssumption`: poll lists within the master's array, a reply timeout and a
  pass of at least a tick, finitely many cadences.
* `AlertAssumption`: the head order lists every head once, hysteresis and
  cool-down of at least a cycle. `NodeAssumption`: finitely many pods, neighbours
  that are not the node itself, a clock whose error is never mistaken for "no
  time". `BridgeAssumption`: a queue of at least one event.
* `WindowAssumption`: the spans of the code in their order, a retention that
  covers window, history and spin-up, and identifiers of pod channels and of
  static channels that differ.
* `CorpusAssumption`, `TrainingAssumption`, `RegistryAssumption`: tables of their
  types, at least one score and one held-out column, a first version.

Every theorem is an invariant or an action property of the whole specification,
so it holds through each interleaving, loss, crash and restart that the model
has. One theorem has a hypothesis: `WatchdogTheorem` assumes `TimingHolds`, that
the longest cadence, a pass and a sweep fit in the supervisor's deadline, and a
pass in the watchdog's. It is a rule for sizing the deadline. The deadline the
code computes meets it at the default cadence only, see `bus_cadence`;
`SlowCadenceTheorem` has the other side and assumes nothing.

Where the code does not keep what it promises, the property names the exception
as part of its statement, so that the theorem says how far the promise goes:
`undone` in `HysteresisHolds`, `forgotten` in `SirenQuietWhenClear` and
`CloudAgreesUnlessForgotten` (a crash between linux/node.py:185 and :189),
`astray` in `CadenceAgrees` (a lost command, a reset), `touched` in
`CurrentCanBeLoaded` and `at_risk` in `ServiceImplemented` (a push into a directory in
use).

### Pod

`PodPowerProofs`: `TypeCorrect` is inductive as it stands. `BudgetTheorem` rests
on lemmas about the load: switching a rail on adds its current, and no other step
adds to the set of drawn milliamps. `RailRulesTheorem` proves `HeldIsPowered`,
`PerReadOnlyWhileHeld` and `UpOnlyWhileArmed` together because they need one
another: that the last release finds its rail up is `HeldIsPowered`.
`WindowTheorem` is about one step, from the order of the settle test and the
on-time test in a tick.

`PodLoopProofs`:

* `LoopImplementsController`: `LoopSpec => Spec`. Each loop step is a controller
  step or leaves the controller alone; needs that the loop's index is in range,
  and that a settle sleep is shorter than the clock. Thereby all theorems above
  hold of the firmware.
* `BetweenReadsTheorem`: the invariant adds `LoopRefs`, which says that while a
  transducer is waited for or read its rail has exactly one reference and every
  other rail none; with the rail rules, "no reference" means "per-read rail off".
* `LoopTypes`, `SettledTheorem`: frame, filters and report in their types; reads
  from settled rails only, which is inductive together with the two invariants
  above.
* `FreshTheorem`: the invariant `PastAreTaken` says that of the transducers the
  cycle has passed, those whose flags claim a fresh value were taken in it.
* `OnTimeTheorem`: from its tick on, a rail has its on-time and what the pass has
  spent so far (`OnTimeInv`). `Spent` counts the callbacks of the tick, the sleeps
  and drivers of the cycle, and the work of pipeline and link, up to
  `LongestPass`; a transducer sleeps once, because its rail has settled when it
  wakes (`SettleInv`). The times of a tick and of a cycle are recursive functions
  over the tables, which exist and grow by induction; `ClockInv` says where the
  clock has just been read, and that elapsed times add up although the clock
  wraps is `ElapsedGrows`.

### Head node

`HeadBusProofs`: the types come in three groups, master, clocks and wire, since
none needs all the others. `SweepTheorem` rests on `SweepTime`: the pods before
the one being polled have used at most their share, and the one being polled at
most the wait so far, each wait rounded up to the pass that notices it.
`WatchdogTheorem` rests on `CheckinInv`, which bounds the time since the last
check-in by the cadence, a pass and the sweep under way. `SlowCadenceTheorem`
bounds, after the first pass, the time since the last sweep by a sweep, the
deadline and the time since the watchdog was fed (`SlowInv`): a cadence beyond
that is never reached. `AccountTheorem` holds for every timing: `OutcomeInv` says
that each pod before the index has an outcome, and that the presence bits are
these outcomes.

`HeadAlertProofs`: `CadenceTheorem` holds because the start restores the mode and
sends its cadence again. `HysteresisTheorem` needs `PersistInv` (outside the steps
between a decision and its persisting, `Undecided`, the persisted rows are the
levels) and `StreakInv` (neither the counted streak nor the one a crash would
restore runs ahead of the cycles below, unless the crash undid the cycle that
began the count). `SirenTheorem`: if all heads are clear while the siren sounds,
the level change that silences it is still in hand (`TodoInv`, `SirenInv`), or an
alert was forgotten. `CloudTheorem`: `CloudInv` says that what the queue and the
alerts still to be queued will have told the server of each head is its level, or
was forgotten (`Good`); its lemmas follow `Told` through appending, sending and
dropping a message.

`HeadLinuxProofs`: `QueueTheorem` numbers the events. `BridgeInv` bounds what the
queue and the client hold by what arrived since the client last found the queue
empty, so that a drop means that more than `MaxQueue` did. `NodeTypes` includes that the
embeddings table has one row per neighbour and time. `SameCadence` rests on
`CadenceInv`: unless a command went astray, the last one on its way carries the
node's mode, or there is none and the microcontroller has it. `ForecastTheorem`
and `NeighbourTheorem` need the ages of everything the node reads a time from:
lines on the link and in hand (`LineAge`), the microcontroller's time and the
rows (`ClockAge`), all within what the clocks may drift (`Drift`); `PassInv` then
bounds the time since the last cycle. `NearestTheorem` is by induction over the
places of the graph: the list that `SetToSortSeq` returns is in order, so each
place takes a nearest of what is left.

`HeadWindowProofs`: `RainTheorem` needs `StepsToNow`, that each reading and the
next differ by what fell or less, across every restart. `ReferenceTheorem` says
that device and training agree on what every channel shows, from the second row
of the window on, for all spans and lengths. Its argument has three parts.

1. On one series, each device operation gives the hours that the training
   operation gives (`DecayedSums`, `Rolls`, `Cascades`). The cascade counts the
   warm hours with a recursive function over hours; that this function exists
   (`WarmExists`) and counts (`WarmCounts`) is by induction.
2. Each operation looks back a bounded number of hours, its lead. What it gives
   on the grid agrees with what it gives on the record as soon as the grid
   reaches that far, and leads add up along a chain (`Agree`, `Close`). The
   longest chain needs one hour more than `HISTORY`, which is why row one is left
   out, and what `window_t6` shows.
3. The ring buffer keeps, of the hours the grid reaches, all that was stored
   (`Kept`): pruning takes only older ones.

### Training and registry

`ModelReleaseProofs`, about the composed specification `ReleaseSpec`:

* `CorpusTheorem` from `CorpusInv`: every hazard starts after the warm-up; every
  flood recorded or still in the frontier is at a source or came from a
  neighbour that the record already has (`Origin`); and labels are forecasts. The
  last follows from `CountsBetween`: the difference of two running sums is
  positive iff an hour of the event lies between.
* `CoherentTheorem` follows the weights through the stages: `best_state` of the
  first phase is of the first epoch with the lowest loss (`BestIsFirst`; a
  comparison with NaN never replaces it, an equal loss neither) and is put back at
  its end (`BestIsKept`); the embedding cache is of those weights, and the
  temperatures were fitted to the standalone path that is exported. The graph
  path has the weights of the last epoch of the second phase.
* `ThresholdTheorem` from `ThresholdInv`, that the thresholds exported are those of
  the samples still in hand. `pr_thresholds` takes the highest score that keeps
  the recall, which exists because the lowest takes every positive. F1 is a
  quotient: comparing by cross-multiplication is total and transitive
  (`QuotientsTransitive`), so a best score exists, by induction over finite sets
  (`SomeBest`), and no score between two operating points does better.
* `SamplesTheorem` from `BatchInv`, that the batch is one of the phase. The
  argument is about `ego_network`: both lists of neighbours are duplicate-free, the
  two hops are disjoint, and cutting the joined list takes from the first hop
  before the second (`CutOfTwo`); dropping nodes and padding keep that
  (`KeptOfList`, `UnpaddedNodes`).
* `GraphTheorem`: both forms give a root what `Refined` defines from its nodes and
  the weights between them. For the dense form the padding adds nothing to a sum
  (`DenseIsRefined`); for the sparse one the edges and degrees of a sample do not
  change when others stand before or behind it (`SideBySide`, `BatchHolds`,
  `SparseIsRefined`). The offsets of the renumbering grow, so that each place of
  the flattened list belongs to one sample (`PlacesApart`), and each sample is laid
  at its offset, by induction over the samples (`FlattenLays`). It holds for any
  graph of columns, number of neighbours and batch size; the run has batches of one
  and two samples.
* `CurrentTheorem`, `RegistryTypeTheorem`: the registry's type and
  `CurrentCanBeLoaded`, which excepts a directory that was pushed to since it was
  verified (`touched`); the invariant `RegistryInv` adds that a promotion under way
  is of a version that verifies, with the same exception.
* `ServiceTheorem`: `ReleaseSpec => ServiceImplemented`. Each step is a step of
  `ModelService` or a stutter. `ServiceInv` says that a whole release in the
  directory `CURRENT` names is an activated one, that a bundle which was not pushed
  to while the node opened it is as it was verified (`BundleAsVerified`), and that
  a new manifest in a version directory was published before.

`NaturalLemmas` has the induction principle in the form used: a set of naturals
that has 0 and each successor has them all (`NaturalsByInduction`), with maxima
of finite sets, the least element and products. Its largest part is about sums:
`SumFunctionOnSet` folds over a set in an order it chooses, which is a recursive
function over sets. The lemmas prove that this function exists and is unique,
that any element may be taken first (`SumAnyElement`), and hence that a sum splits
into parts, ignores zeroes and survives a renaming.

### Only model-checked

* Liveness: `PeriodicRunsAgain`, `SweepNeverStalls`, `AlertsGetOut`. They need
  fairness and `ENABLED`, which are outside what is proved.
* The five violations: counterexamples, which need no proof.
* Whether a board meets `TimingHolds` and the assumptions on the constants: its
  numbers are not part of the models.

## Plan

Done: `PodPower`, `PodLoop`, their proofs, `HeadBus`, `HeadAlert`, `HeadWindow`,
`HeadNode`, `HeadBridge`, `HeadLinux`, `ModelRegistry`, `ModelService`,
`ModelCorpus`, `ModelGraph`, `ModelTraining`, `ModelRelease`, and the proofs of the
safety properties of all of them.

1. `HeadTime`: mcu/pps.c with outages, glitches and late sentences, and the
   slots of tdma.c and A/lora_slot.c over wrapping clocks (lock implies a UTC
   that is right to the second; re-lock after an outage; slots do not overlap).
2. `HeadLoop`: mcu/rails.c (bring-up order, shedding, restore), alert.c with its
   durations, all supervisor channels and the boot loop.
3. `BridgeRx`: the receive accumulator with `mp_scan_value`, resynchronisation
   and full buffers.
4. `BusParser`: the byte parser of A/rs485.c with the rings, as the
   implementation of the frames `HeadBus` uses.
5. Pure algorithms as operators against references: median, z-gate, position
   resolution, report encoding.

## Not modelled

* The arithmetic of the network (train/model.py's encoder, linux/inference.py's
  sessions), of the features' values and of the synthetic weather
  (`_base_weather`, `_column_series`): floating point, out of TLC's reach. What
  control depends on, which values exist and which weights are kept, is
  modelled.
* train/registry.py and linux/config.py: constant tables and the parsing of a
  file; their values are the constants of the models.
* test_env/l0_stimulus: bench equipment, not part of the deployed system.
* Device drivers and `hw_*.c`: register and GPIO access. Their callers' models
  keep success, failure and delay.
* Calibration curves and derived channels of the pod: arithmetic on readings.
* `pod_dt_tables.c` is generated from the device tree; its content is the
  constants of `PodPower` and `PodLoop`.
* Run log, status message and XML form of an alert: nothing in the system reads
  them.
* Still open, see the plan: time and TDMA, rails, the C side of the bridge, the
  byte parser, LoRa slots, report encoding, identity resolution.
