------------------------------ MODULE HeadNode ------------------------------
(***************************************************************************)
(* The main loop of the head node's Linux side (node.py): the lines of the *)
(* microcontroller (rpc.py), the clock the node goes by, the embeddings of *)
(* the neighbours (mesh.py, store.py) and which of them the graph stage    *)
(* sees, the cycle of a sweep and the one without.                         *)
(*                                                                         *)
(* The microcontroller is the other end of the line protocol: it sweeps,   *)
(* forwards packets and tells the time when it likes, takes the commands   *)
(* in the order they were sent, and may reset.  A line may be damaged or   *)
(* lost either way, and nothing tells the node that a command was.  What   *)
(* a cycle decides about alerts is in HeadAlert, what it reads of the pods *)
(* in HeadWindow; here it decides on a cadence.  The node's own rows of    *)
(* the embeddings table, which only its own history is made of, are left   *)
(* out.  Time is counted in ticks; a pass of the loop takes less than one. *)
(***************************************************************************)
EXTENDS Integers, Sequences, SequencesExt, FiniteSets, FiniteSetsExt

CONSTANTS
    Pod,           \* the configured pods
    Nbr,           \* node_id16 of the neighbours, naturals
    Self,          \* node_id16 of this node
    Position,      \* [Nbr -> "near", "far" or "unknown"]: the [[neighbours]] table
    MaxNeighbours, \* max_neighbours
    Periods,       \* graph_periods
    Window,        \* round_window_s
    Cadence,       \* [{"baseline", "elevated"} -> ticks]
    DefaultCadence,\* HN_SWEEP_CADENCE_S, of the microcontroller
    Retention,     \* retention_days
    PruneEvery,    \* 24, the cycles between two prunes
    Skews,         \* the microcontroller's time less the system clock
    MaxClock,      \* bound: ticks
    MaxLines,      \* bound: lines in the link
    MaxEvents      \* bound: sweeps, packets, time lines, changes of the cadence and faults

Modes == {"baseline", "elevated"}
None  == -100                 \* Python's None, for a time

ASSUME NodeAssumption ==
    /\ IsFiniteSet(Pod)
    /\ Nbr \subseteq Nat /\ Self \in Nat \ Nbr
    /\ Position \in [Nbr -> {"near", "far", "unknown"}]
    /\ Cadence \in [Modes -> Nat \ {0}] /\ DefaultCadence \in Nat \ {0}
    /\ {MaxNeighbours, Periods, PruneEvery} \subseteq Nat \ {0}
    /\ {Window, Retention, MaxClock, MaxLines, MaxEvents} \subseteq Nat
    /\ Skews \subseteq Int /\ \A s \in Skews : -s < -None

VARIABLES
    pc,          \* "start", "poll", "handle", "fallback" or "sleep"
    clk,         \* the system clock
    skew,        \* of the microcontroller's time
    rx,          \* lines on their way
    part,        \* is the first of them read in part?
    lines,       \* complete lines of this pass, still to handle
    mcu_utc,     \* the last time line: its time, when it was handled, its state
    mcu_utc_at,
    mcu_time_state,
    pods_present,\* [Pod -> BOOLEAN]
    rows,        \* the neighbours' rows of the embeddings table, and when they were stored
    mode,        \* duty.mode, in memory and
    db_mode,     \* in the state table
    cycles,
    last_cycle_ts,
    commands,    \* cadence commands on their way: the mode of each
    mcu_cadence, \* the cadence of the microcontroller
    graph,       \* history: the neighbours of this pass's graph stage and those
    current,     \* it could have used, with the time they were last heard
    last_run,    \* history: the system clock at the last cycle or start
    astray,      \* history: the last cadence command got lost, or a reset undid it
    count        \* of the events the bound is about

time_vars == <<mcu_utc, mcu_utc_at, mcu_time_state>>
cycle_vars == <<rows, mode, db_mode, cycles, last_cycle_ts, commands, mcu_cadence, graph, current, last_run, astray>>
vars == <<pc, clk, skew, rx, part, lines, time_vars, pods_present, cycle_vars, count>>

TimeStates == {"locked", "holdover", "unlocked"}
Reports == {"usable", "unusable", "undecodable"}

\* A line by what parse_line makes of it: noise is no line of the protocol, a
\* malformed one is an error; a packet is a neighbour's, our own, or of another kind.
\* The status line, which is only passed on to the server, is left out.
Line ==
    [verb : {"POD"}, pod : Pod, report : Reports]
        \union [verb : {"MISSING"}, pod : Pod]
        \union [verb : {"NBR"}, from : Nbr \union {Self, None}]
        \union [verb : {"TIME"}, utc : Int, state : TimeStates]
        \union [verb : {"SWEEP", "noise", "malformed"}]

Row == [ts : Int, node : Nbr, at : Nat]

NodeTypeOK ==
    /\ pc \in {"start", "poll", "handle", "fallback", "sleep"}
    /\ clk \in 0 .. MaxClock /\ skew \in Skews
    /\ rx \in Seq(Line) /\ Len(rx) <= MaxLines
    /\ part \in BOOLEAN /\ (part => rx # <<>>)
    /\ lines \in Seq(Line)
    /\ mcu_utc \in Int /\ mcu_utc_at \in Int /\ mcu_time_state \in TimeStates
    /\ pods_present \in [Pod -> BOOLEAN]
    /\ \A r \in rows : r \in Row
    /\ \A r, s \in rows : r.ts = s.ts /\ r.node = s.node => r = s      \* PRIMARY KEY
    /\ mode \in Modes /\ db_mode \in Modes
    /\ cycles \in 0 .. PruneEvery - 1 /\ last_cycle_ts \in Int
    /\ commands \in Seq(Modes)
    /\ mcu_cadence \in {DefaultCadence} \union Range(Cadence)
    /\ DOMAIN graph \subseteq Nbr /\ DOMAIN current \subseteq Nbr
    /\ last_run \in 0 .. clk /\ astray \in BOOLEAN

Init ==
    /\ pc = "start"
    /\ clk = 0 /\ skew \in Skews
    /\ rx = <<>> /\ part = FALSE /\ lines = <<>>
    /\ mcu_utc = None /\ mcu_utc_at = None /\ mcu_time_state = "unlocked"
    /\ pods_present = [p \in Pod |-> FALSE]
    /\ rows = {}
    /\ mode = "baseline" /\ db_mode = "baseline"
    /\ cycles = 0 /\ last_cycle_ts = None
    /\ commands = <<>> /\ mcu_cadence = DefaultCadence
    /\ graph = <<>> /\ current = <<>>
    /\ last_run = 0 /\ astray = TRUE
    /\ count = 0
-----------------------------------------------------------------------------
(* node.py: time, and the mesh *)

now ==
    IF mcu_utc # None /\ mcu_time_state \in {"locked", "holdover"}
    THEN mcu_utc + (clk - mcu_utc_at)
    ELSE clk

\* Mutant: a row of the same second and node is not replaced.
put_embedding_Insert(ts, node) == rows \union {[ts |-> ts, node |-> node, at |-> clk]}

put_embedding(ts, node) ==
    {r \in rows : r.ts # ts \/ r.node # node} \union {[ts |-> ts, node |-> node, at |-> clk]}

\* The newest rows up to ts, at most so many.
embedding_history(node, periods, ts) ==
    LET past == {r \in rows : r.node = node /\ r.ts <= ts}
    IN  {r \in past : Cardinality({s \in past : s.ts > r.ts}) < periods}

\* Mutant: the round window is not asked for.
neighbours_seen_Ever(since) == {r.node : r \in rows}

neighbours_seen(since) == {r.node : r \in {s \in rows : s.ts >= since}}

adjacency_prior(n) == CASE Position[n] = "near" -> 3 [] Position[n] = "unknown" -> 2 [] OTHER -> 1

\* Late neighbours, and those with too short a history, are dropped.
collect_neighbours(ts) ==
    {n \in neighbours_seen(ts - Window) : Cardinality(embedding_history(n, Periods, ts)) >= Periods}

\* Mutant: sorted by rising weight.
Before_Rising(m, n) ==
    adjacency_prior(m) < adjacency_prior(n) \/ (adjacency_prior(m) = adjacency_prior(n) /\ m < n)

\* sorted by weight, which keeps the order of the ids, and cut.
Before(m, n) ==
    adjacency_prior(m) > adjacency_prior(n) \/ (adjacency_prior(m) = adjacency_prior(n) /\ m < n)
build_graph_inputs(nbrs) ==
    {n \in nbrs : Cardinality({m \in nbrs : Before(m, n)}) < MaxNeighbours}

\* History: when a neighbour was last heard.
LastHeard(nbrs) == [n \in nbrs |-> Max({r.at : r \in {s \in rows : s.node = n}})]
-----------------------------------------------------------------------------
Counted == count < MaxEvents /\ count' = count + 1

\* A cadence command is written to the link, and that is all the node does for it.
SendCadence(m) == commands' = Append(commands, m) /\ astray' = FALSE

\* Mutant: the cadence is only sent when it changes.
start_NoCadence ==
    /\ pc = "start"
    /\ pc' = "poll"
    /\ UNCHANGED <<clk, skew, rx, part, lines, time_vars, pods_present, cycle_vars, count>>

\* start: the poll list, the cadence, a request for the status.
start ==
    /\ pc = "start"
    /\ SendCadence(mode)
    /\ pc' = "poll"
    /\ UNCHANGED <<clk, skew, rx, part, lines, time_vars, pods_present, rows, mode, db_mode, cycles,
                   last_cycle_ts, mcu_cadence, graph, current, last_run, count>>

\* _StreamLink.poll: the complete lines of the bytes there are; the last line may be
\* there in part, which is kept, and has come in by the next pass.
poll(more) ==
    /\ pc = "poll"
    /\ more => Len(rx) > (IF part THEN 1 ELSE 0)
    /\ LET n == Len(rx) - (IF more THEN 1 ELSE 0)
       IN lines' = SubSeq(rx, 1, n) /\ rx' = SubSeq(rx, n + 1, Len(rx))
    /\ part' = more
    /\ pc' = "handle"
    /\ UNCHANGED <<clk, skew, time_vars, pods_present, cycle_vars, count>>

\* run_cycle(ts), up to the end or to the place where the process dies: the own
\* embedding, the graph stage over what was heard, the cadence, the housekeeping.
Cycle(ts, m) ==
    LET nbrs == collect_neighbours(ts)
    IN  /\ current' = LastHeard(nbrs)
        /\ graph' = LastHeard(build_graph_inputs(nbrs))
        /\ rows' = {r \in rows : cycles = 0 => r.ts >= ts - Retention}
        /\ mode' = m /\ db_mode' = m
        /\ IF m # mode THEN SendCadence(m) ELSE UNCHANGED <<commands, astray>>
        /\ UNCHANGED mcu_cadence
        /\ IF m # mode THEN Counted ELSE UNCHANGED count
        /\ cycles' = (cycles + 1) % PruneEvery
        /\ last_cycle_ts' = ts
        /\ last_run' = clk

TakeLine(verb) == pc = "handle" /\ lines # <<>> /\ Head(lines).verb = verb /\ lines' = Tail(lines)

handle_bad ==
    /\ pc = "handle" /\ lines # <<>> /\ Head(lines).verb \in {"noise", "malformed"}
    /\ lines' = Tail(lines)
    /\ UNCHANGED <<pc, clk, skew, rx, part, time_vars, pods_present, cycle_vars, count>>

\* ingest_report and the missing line: a report that does not decode changes nothing.
ingest_report ==
    /\ TakeLine("POD")
    /\ pods_present' = IF Head(lines).report = "undecodable" THEN pods_present
                       ELSE [pods_present EXCEPT ![Head(lines).pod] = TRUE]
    /\ UNCHANGED <<pc, clk, skew, rx, part, time_vars, cycle_vars, count>>

handle_missing ==
    /\ TakeLine("MISSING")
    /\ pods_present' = [pods_present EXCEPT ![Head(lines).pod] = FALSE]
    /\ UNCHANGED <<pc, clk, skew, rx, part, time_vars, cycle_vars, count>>

\* decode_packet: the sender, or None when it is not a mesh packet of this version.
decode_packet(line) == line.from

ingest_neighbour ==
    /\ TakeLine("NBR")
    /\ LET from == decode_packet(Head(lines))
       IN rows' = IF from \in {None, Self} THEN rows ELSE put_embedding(now, from)
    /\ UNCHANGED <<pc, clk, skew, rx, part, time_vars, pods_present, mode, db_mode, cycles, last_cycle_ts,
                   commands, mcu_cadence, graph, current, last_run, astray, count>>

handle_time ==
    /\ TakeLine("TIME")
    /\ mcu_utc' = Head(lines).utc /\ mcu_utc_at' = clk /\ mcu_time_state' = Head(lines).state
    /\ UNCHANGED <<pc, clk, skew, rx, part, pods_present, cycle_vars, count>>

on_sweep(m) ==
    /\ TakeLine("SWEEP")
    /\ Cycle(now, m)
    /\ UNCHANGED <<pc, clk, skew, rx, part, time_vars, pods_present>>

Handled ==
    /\ pc = "handle" /\ lines = <<>>
    /\ pc' = "fallback"
    /\ UNCHANGED <<clk, skew, rx, part, lines, time_vars, pods_present, cycle_vars, count>>

\* Mutant: two baseline cadences, whatever the mode.
Overdue_Baseline == last_cycle_ts = None \/ now - last_cycle_ts > 2 * Cadence["baseline"]

\* run_forever: the microcontroller has been quiet for two cadences.
Overdue == last_cycle_ts = None \/ now - last_cycle_ts > 2 * Cadence[mode]

fallback(m) ==
    /\ pc = "fallback" /\ Overdue
    /\ Cycle(now, m)
    /\ pc' = "sleep"
    /\ UNCHANGED <<clk, skew, rx, part, lines, time_vars, pods_present>>

NoFallback ==
    /\ pc = "fallback" /\ ~Overdue
    /\ pc' = "sleep"
    /\ UNCHANGED <<clk, skew, rx, part, lines, time_vars, pods_present, cycle_vars, count>>

Sleep(dt) ==
    /\ pc = "sleep"
    /\ IF dt = 0 THEN rx # <<>> ELSE ~part
    /\ clk + dt <= MaxClock
    /\ clk' = clk + dt
    /\ graph' = <<>> /\ current' = <<>>
    /\ pc' = "poll"
    /\ UNCHANGED <<skew, rx, part, lines, time_vars, pods_present, rows, mode, db_mode, cycles,
                   last_cycle_ts, commands, mcu_cadence, last_run, astray, count>>
-----------------------------------------------------------------------------
(* The microcontroller, and what goes wrong *)

Send(new) ==
    /\ pc = "sleep"
    /\ Len(rx) + Len(new) <= MaxLines
    /\ Counted
    /\ rx' = rx \o new
    /\ UNCHANGED <<pc, clk, skew, part, lines, time_vars, pods_present, cycle_vars>>

\* A sweep: a line for each pod, then the sweep's.
McuSweep(found) ==
    LET ofPod(p) == IF found[p] = "silent" THEN [verb |-> "MISSING", pod |-> p]
                    ELSE [verb |-> "POD", pod |-> p, report |-> found[p]]
        pods == SetToSeq(Pod)
    IN  Send([i \in DOMAIN pods |-> ofPod(pods[i])] \o <<[verb |-> "SWEEP"]>>)

McuPacket(from) == Send(<<[verb |-> "NBR", from |-> from]>>)

McuTime(state) == Send(<<[verb |-> "TIME", utc |-> clk + skew, state |-> state]>>)

\* A line is damaged on the wire.
Damage(i) ==
    /\ pc = "sleep" /\ i \in DOMAIN rx /\ Counted
    /\ rx' = [rx EXCEPT ![i] = [verb |-> "malformed"]]
    /\ UNCHANGED <<pc, clk, skew, part, lines, time_vars, pods_present, cycle_vars>>

\* The microcontroller takes a cadence command.
McuTakesCadence ==
    /\ pc = "sleep" /\ commands # <<>>
    /\ mcu_cadence' = Cadence[Head(commands)]
    /\ commands' = Tail(commands)
    /\ UNCHANGED <<pc, clk, skew, rx, part, lines, time_vars, pods_present, rows, mode, db_mode, cycles,
                   last_cycle_ts, graph, current, last_run, astray, count>>

\* A command is damaged or lost on the wire.
LoseCommand(i) ==
    /\ pc = "sleep" /\ i \in DOMAIN commands /\ Counted
    /\ commands' = RemoveAt(commands, i)
    /\ astray' = (astray \/ i = Len(commands))
    /\ UNCHANGED <<pc, clk, skew, rx, part, lines, time_vars, pods_present, rows, mode, db_mode, cycles,
                   last_cycle_ts, mcu_cadence, graph, current, last_run>>

\* The microcontroller resets: its defaults, and a boot banner that ends what it
\* was sending.  It misses the commands that had come in, and takes those that come in
\* later.
McuReset(missed) ==
    /\ pc = "sleep" /\ Counted
    /\ mcu_cadence' = DefaultCadence
    /\ commands' = SubSeq(commands, missed + 1, Len(commands))
    /\ astray' = (astray \/ commands' = <<>>)
    /\ rx' = IF rx = <<>> THEN rx ELSE [rx EXCEPT ![Len(rx)] = [verb |-> "malformed"]]
    /\ UNCHANGED <<pc, clk, skew, part, lines, time_vars, pods_present, rows, mode, db_mode, cycles,
                   last_cycle_ts, graph, current, last_run>>

\* The process dies and starts again: the rows and the duty mode are in the ring
\* buffer; of a line read in part only the rest is still to come.
Restart ==
    /\ lines' = <<>>
    /\ part' = FALSE
    /\ rx' = IF part THEN [rx EXCEPT ![1] = [verb |-> "noise"]] ELSE rx
    /\ mcu_utc' = None /\ mcu_utc_at' = None /\ mcu_time_state' = "unlocked"
    /\ pods_present' = [p \in Pod |-> FALSE]
    /\ cycles' = 0 /\ last_cycle_ts' = None
    /\ graph' = <<>> /\ current' = <<>>
    /\ last_run' = clk
    /\ pc' = "start"
    /\ UNCHANGED <<clk, skew, db_mode>>

Crash ==
    /\ pc \in {"handle", "fallback", "sleep"} /\ Counted
    /\ Restart
    /\ mode' = db_mode
    /\ UNCHANGED <<rows, commands, mcu_cadence, astray>>

\* In a cycle: the cadence may be sent, the duty mode is not stored yet.
CrashInCycle(m) ==
    /\ (pc = "fallback" /\ Overdue) \/ (pc = "handle" /\ lines # <<>> /\ Head(lines).verb = "SWEEP")
    /\ Counted
    /\ IF m # mode THEN SendCadence(m) ELSE UNCHANGED <<commands, astray>>
    /\ Restart
    /\ mode' = db_mode
    /\ UNCHANGED <<rows, mcu_cadence>>

NodeNext ==
    \/ start
    \/ \E more \in BOOLEAN : poll(more)
    \/ handle_bad \/ ingest_report \/ handle_missing \/ ingest_neighbour \/ handle_time \/ Handled
    \/ \E m \in Modes : on_sweep(m) \/ fallback(m)
    \/ NoFallback
    \/ \E dt \in 0 .. 1 : Sleep(dt)
    \/ \E found \in [Pod -> Reports \union {"silent"}] : McuSweep(found)
    \/ \E from \in Nbr \union {Self, None} : McuPacket(from)
    \/ \E state \in TimeStates : McuTime(state)
    \/ \E i \in 1 .. MaxLines : Damage(i)
    \/ McuTakesCadence
    \/ \E i \in DOMAIN commands : LoseCommand(i)
    \/ \E missed \in 0 .. Len(commands) : McuReset(missed)
    \/ Crash
    \/ \E m \in Modes : CrashInCycle(m)
-----------------------------------------------------------------------------
(* Properties *)

Abs(i) == IF i < 0 THEN -i ELSE i

\* No silence of the microcontroller, lost line or restart keeps the node from
\* forecasting: it runs a cycle within two cadences, and whatever its clock was
\* set back by when it changed to the microcontroller's time (run_forever, now).
CycleNeverOverdue == clk - last_run <= 2 * Cadence[mode] + 1 + Abs(skew) + 1

\* A neighbour that has fallen silent drops out of the graph stage: each one used was
\* heard within the round window, or within what the clock was changed by
\* (collect_neighbours, neighbours_seen).
NeighboursAreCurrent ==
    \A n \in DOMAIN graph : last_run - graph[n] <= Window + Abs(skew) + 1

\* The graph has room for MaxNeighbours, and none of those left out weighs more than
\* one that is in (build_graph_inputs).
NearestAreUsed ==
    /\ Cardinality(DOMAIN graph) = Min({MaxNeighbours, Cardinality(DOMAIN current)})
    /\ \A n \in DOMAIN graph, m \in DOMAIN current \ DOMAIN graph :
           adjacency_prior(m) <= adjacency_prior(n)

\* When no cadence command is on its way any more, the microcontroller has the node's
\* cadence, unless the last command got lost or a reset undid it: no crash of the node
\* makes them differ, between telling it and storing it included, and no older command
\* that comes late (start, run_cycle).  After such a loss nothing in the code repairs the
\* cadence before the next change or start.
CadenceAgrees ==
    pc # "start" /\ commands = <<>> /\ ~astray => mcu_cadence = Cadence[mode]
=============================================================================
