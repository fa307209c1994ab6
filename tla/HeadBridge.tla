----------------------------- MODULE HeadBridge -----------------------------
(***************************************************************************)
(* The Linux end of the MessagePack-RPC bridge (bridge.py): its dispatcher *)
(* thread turns each notification of the microcontroller into an event on  *)
(* a bounded queue, and the client's poll drains it, both at once.  The    *)
(* router and its package are external: notifications arrive in order.     *)
(*                                                                         *)
(* Events are numbered as they arrive.  The client polls when it likes, so *)
(* the queue may be full when the microcontroller has more to tell.        *)
(***************************************************************************)
EXTENDS Integers, Sequences, SequencesExt

CONSTANTS
    SweepReports,  \* reports and missing pods of a sweep
    MaxOthers,     \* packets and time messages from one sweep to the next
    MaxQueue,      \* max_queue; 0 would be a queue without a bound
    BridgeSweeps   \* bound: sweeps

ASSUME BridgeAssumption ==
    /\ {SweepReports, MaxOthers, BridgeSweeps} \subseteq Nat
    /\ MaxQueue \in Nat \ {0}

VARIABLES
    events,      \* the queue
    in_poll,     \* the client is in poll, and
    out,         \* what it has got
    sweep,       \* what the microcontroller has sent of this sweep: reports, others, end
    sweeps,      \* complete sweeps
    arrived,     \* history: events that arrived,
    taken,       \* those of them that had when the client last found the queue empty,
    lost         \* and those that were dropped since then

bridge_vars == <<events, in_poll, out, sweep, sweeps, arrived, taken, lost>>

EventClass == {"PodReport", "PodMissing", "SweepDone", "NeighbourPacket", "TimeSync", "NodeStatus"}
Event == [class : EventClass, n : Nat]

BridgeInit ==
    /\ events = <<>> /\ in_poll = FALSE /\ out = <<>>
    /\ sweep = [reports |-> 0, others |-> 0, end |-> FALSE] /\ sweeps = 0
    /\ arrived = 0 /\ taken = 0 /\ lost = {}

\* Mutant: the oldest event makes room.
push_DropsOldest(class) ==
    /\ arrived' = arrived + 1
    /\ LET e == [class |-> class, n |-> arrived']
       IN IF Len(events) < MaxQueue THEN events' = Append(events, e) /\ UNCHANGED lost
          ELSE events' = Append(Tail(events), e) /\ lost' = lost \union {Head(events).n}

\* put_nowait: the newest event is dropped when the queue is full.
push(class) ==
    /\ arrived' = arrived + 1
    /\ IF Len(events) < MaxQueue
       THEN events' = Append(events, [class |-> class, n |-> arrived']) /\ UNCHANGED lost
       ELSE lost' = lost \union {arrived'} /\ UNCHANGED events

on_pod(class) ==
    /\ class \in {"PodReport", "PodMissing"}
    /\ sweeps < BridgeSweeps /\ ~sweep.end /\ sweep.reports < SweepReports
    /\ push(class)
    /\ sweep' = [sweep EXCEPT !.reports = @ + 1]
    /\ UNCHANGED <<in_poll, out, sweeps, taken>>

on_other(class) ==
    /\ class \in {"NeighbourPacket", "TimeSync"}
    /\ sweeps < BridgeSweeps /\ sweep.others < MaxOthers
    /\ push(class)
    /\ sweep' = [sweep EXCEPT !.others = @ + 1]
    /\ UNCHANGED <<in_poll, out, sweeps, taken>>

\* The end of a sweep, and the status right after it.
on_sweep_done ==
    /\ sweeps < BridgeSweeps /\ ~sweep.end /\ sweep.reports = SweepReports
    /\ push("SweepDone")
    /\ sweep' = [sweep EXCEPT !.end = TRUE]
    /\ UNCHANGED <<in_poll, out, sweeps, taken>>

on_node_status ==
    /\ sweep.end
    /\ push("NodeStatus")
    /\ sweep' = [reports |-> 0, others |-> 0, end |-> FALSE]
    /\ sweeps' = sweeps + 1
    /\ UNCHANGED <<in_poll, out, taken>>

\* poll: the first event, with the timeout or without, and the rest until Empty.
poll_get ==
    /\ events # <<>>
    /\ in_poll' = TRUE
    /\ out' = Append(out, Head(events).n)
    /\ events' = Tail(events)
    /\ UNCHANGED <<sweep, sweeps, arrived, taken, lost>>

poll_empty ==
    /\ events = <<>>
    /\ in_poll' = FALSE
    /\ out' = <<>>
    /\ taken' = arrived /\ lost' = {}
    /\ UNCHANGED <<events, sweep, sweeps, arrived>>

BridgeNext ==
    \/ \E class \in EventClass : on_pod(class) \/ on_other(class)
    \/ on_sweep_done \/ on_node_status
    \/ poll_get \/ poll_empty
-----------------------------------------------------------------------------
\* The numbers of the events the poll under way has got and of those that wait.
Pending == out \o [i \in DOMAIN events |-> events[i].n]

\* However the microcontroller's notifications and the client's poll interleave, the
\* client gets every event that was not dropped, once and in the order of arrival, and
\* an event is dropped only if more than MaxQueue have arrived since the client last
\* found the queue empty: that is how often it has to drain it (_push, poll).
HandedOnInOrder ==
    /\ \A i, j \in DOMAIN Pending : i < j => Pending[i] < Pending[j]
    /\ Range(Pending) = (taken + 1 .. arrived) \ lost
    /\ \A n \in lost : n > taken + MaxQueue
=============================================================================
