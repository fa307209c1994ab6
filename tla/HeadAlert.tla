------------------------------ MODULE HeadAlert -----------------------------
(***************************************************************************)
(* The inference cycle of the head node's Linux side (node.py) from the    *)
(* probabilities on: alert decisioning (alerts.py), the alert queue and    *)
(* the persisted state in the ring buffer (store.py), the siren and        *)
(* cadence commands to the microcontroller, duty cycling (duty_cycle.py)   *)
(* and the uplink (uplink.py).                                             *)
(*                                                                         *)
(* The process may die between any two of its database transactions and    *)
(* starts again from what the ring buffer holds.  An answer of the ingest  *)
(* server may get lost after the server took the alert.  The model is      *)
(* abstracted to the tier the probabilities of a head reach; rows of the   *)
(* alert table that were sent are not kept, since nothing reads them.      *)
(***************************************************************************)
EXTENDS Integers, Sequences, SequencesExt, FiniteSets

CONSTANTS
    HeadOrder,      \* the trained heads, in the order of the manifest
    ClearCycles,    \* alert_clear_cycles
    Cooldown,       \* elevated_cooldown_cycles
    MaxQueue,       \* bound: unsent alerts
    MaxCrashes      \* bound: crashes of the process

Heads  == Range(HeadOrder)
Levels == 0 .. 2              \* LEVEL_NONE, LEVEL_ADVISORY, LEVEL_WARNING
NONE == 0
ADVISORY == 1
WARNING == 2

Places == {"boot", "idle", "queue", "siren", "persist levels", "duty", "persist duty", "flush", "mark"}

\* The places between a decision and its levels being in the ring buffer.
Undecided == {"queue", "siren", "persist levels"}

ASSUME AlertAssumption ==
    /\ HeadOrder \in Seq(Heads) /\ IsInjective(HeadOrder)
    /\ ClearCycles \in Nat \ {0} /\ Cooldown \in Nat \ {0}
    /\ MaxQueue \in Nat /\ MaxCrashes \in Nat

VARIABLES
    pc,         \* where run_cycle is
    level,      \* [Heads -> Levels], AlertEngine.state
    streak,     \* [Heads -> cycles below the level]
    mode,       \* DutyCycle.mode and calm_streak
    calm,
    todo,       \* alerts of this cycle that are not queued yet
    fresh,      \* alerts of this cycle
    queue,      \* unsent rows of the alerts table
    db,         \* the rows alert_levels and duty_cycle of the state table
    siren,      \* level the microcontroller's siren was commanded to
    mcu_mode,   \* cadence the microcontroller was commanded to
    cloud,      \* [Heads -> the level the ingest server last received]
    below,      \* history: consecutive cycles a head's tier was below its level
    undone,     \* history: a crash undid the cycle that began this count
    forgotten,  \* history: a crash undid the level of an alert that was queued
    crashes

mem_vars == <<level, streak, mode, calm>>
lost_vars == <<undone, forgotten>>
vars == <<pc, mem_vars, todo, fresh, queue, db, siren, mcu_mode, cloud, below, lost_vars, crashes>>

Alert == [head : Heads, level : Levels, prev : Levels]
Modes == {"baseline", "elevated"}

\* The rows of the state table.
LevelRow == [level : [Heads -> Levels], streak : [Heads -> 0 .. ClearCycles - 1]]
DutyRow  == [mode : Modes, calm : 0 .. Cooldown - 1]

\* The CAP message of an alert, as far as the server acts on it: a cleared head is
\* a Cancel, and everything else an Alert of some severity.
Severity == <<"Moderate", "Severe">>
cap_message(a) ==
    [event    |-> a.head,
     msgType  |-> IF a.level > NONE THEN "Alert" ELSE "Cancel",
     severity |-> IF a.level \in DOMAIN Severity THEN Severity[a.level] ELSE "Minor"]
Cap == {cap_message(a) : a \in Alert}

\* Every variable stays in its type; a streak is reset before it reaches ClearCycles,
\* the calm cycles before they reach Cooldown, persisted ones included.
TypeOK ==
    /\ pc \in Places
    /\ level \in [Heads -> Levels]
    /\ streak \in [Heads -> 0 .. ClearCycles - 1]
    /\ mode \in Modes /\ calm \in 0 .. Cooldown - 1
    /\ todo \subseteq Alert /\ fresh \subseteq Alert
    /\ queue \in Seq(Cap) /\ Len(queue) <= MaxQueue
    /\ db \in [alert_levels : LevelRow, duty_cycle : DutyRow]
    /\ siren \in Levels /\ mcu_mode \in Modes
    /\ cloud \in [Heads -> Levels]
    /\ below \in [Heads -> 0 .. ClearCycles]
    /\ undone \in [Heads -> BOOLEAN] /\ forgotten \in [Heads -> BOOLEAN]
    /\ crashes \in 0 .. MaxCrashes

Init ==
    /\ pc = "boot"
    /\ level = [h \in Heads |-> NONE] /\ streak = [h \in Heads |-> 0]
    /\ mode = "baseline" /\ calm = 0
    /\ todo = {} /\ fresh = {} /\ queue = <<>>
    /\ db = [alert_levels |-> [level |-> level, streak |-> streak], duty_cycle |-> [mode |-> mode, calm |-> calm]]
    /\ siren = NONE /\ mcu_mode = "baseline"
    /\ cloud = [h \in Heads |-> NONE]
    /\ below = [h \in Heads |-> 0]
    /\ undone = [h \in Heads |-> FALSE] /\ forgotten = undone
    /\ crashes = 0

-----------------------------------------------------------------------------
\* Mutant: the streak is compared before it is counted up.
Leaves_OffByOne(h, tier) == tier < level[h] /\ streak[h] >= ClearCycles

\* AlertEngine.decide, for the tier each head's probabilities reach: a level is
\* entered at once and left when the tier has been lower for ClearCycles cycles.
Leaves(h, tier) == tier < level[h] /\ streak[h] + 1 >= ClearCycles

NewLevel(h, tier) == IF tier > level[h] \/ Leaves(h, tier) THEN tier ELSE level[h]

\* Mutant: the streak survives a cycle back at the level.
NewStreak_NotReset(h, tier) ==
    CASE tier > level[h] \/ Leaves(h, tier) -> 0
      [] tier < level[h] /\ ~Leaves(h, tier) -> streak[h] + 1
      [] OTHER -> streak[h]

NewStreak(h, tier) == IF tier < level[h] /\ ~Leaves(h, tier) THEN streak[h] + 1 ELSE 0

\* The alerts it returns, one for each head whose level changed.
Decided(tiers) ==
    {[head |-> h, level |-> NewLevel(h, tiers[h]), prev |-> level[h]] :
        h \in {g \in Heads : NewLevel(g, tiers[g]) # level[g]}}

\* A cycle is run for every sweep, when no sweep comes for two cadences, and at once
\* after a start.
RunCycle(tiers) ==
    /\ pc \in {"boot", "idle"}
    /\ level' = [h \in Heads |-> NewLevel(h, tiers[h])]
    /\ streak' = [h \in Heads |-> NewStreak(h, tiers[h])]
    /\ fresh' = Decided(tiers) /\ todo' = fresh'
    /\ Len(queue) + Cardinality(todo') <= MaxQueue
    /\ below' = [h \in Heads |->
                    IF tiers[h] >= level[h] \/ level'[h] # level[h] THEN 0
                    ELSE IF below[h] < ClearCycles THEN below[h] + 1 ELSE below[h]]
    /\ undone' = [h \in Heads |-> undone[h] /\ below'[h] # 0]
    /\ pc' = "queue"
    /\ UNCHANGED <<mode, calm, queue, db, siren, mcu_mode, cloud, forgotten, crashes>>

\* decide goes through the heads in the order of the manifest.
Before(g, h) == \E i, j \in DOMAIN HeadOrder : HeadOrder[i] = g /\ HeadOrder[j] = h /\ i < j

\* One transaction per alert.
queue_alert ==
    /\ pc = "queue"
    /\ \E a \in todo :
          /\ \A b \in todo : ~Before(b.head, a.head)
          /\ queue' = Append(queue, cap_message(a))
          /\ todo' = todo \ {a}
          /\ forgotten' = [forgotten EXCEPT ![a.head] = FALSE]
    /\ UNCHANGED <<pc, mem_vars, fresh, db, siren, mcu_mode, cloud, below, undone, crashes>>

QueueDone ==
    /\ pc = "queue" /\ todo = {}
    /\ pc' = "siren"
    /\ UNCHANGED <<mem_vars, todo, fresh, queue, db, siren, mcu_mode, cloud, below, lost_vars, crashes>>

\* The highest level of all heads.
Top == Max(Range(level) \union {NONE})

FreshAt(l) == \E a \in fresh : a.level = l
FreshEscalationTo(l) == \E a \in fresh : a.level = l /\ a.level > a.prev

\* Mutant: an all-clear is not sent.
SirenCommand_NoOff ==
    CASE Top = WARNING /\ FreshAt(WARNING) -> WARNING
      [] Top = ADVISORY /\ FreshEscalationTo(ADVISORY) -> ADVISORY
      [] OTHER -> siren

\* drive_siren sends nothing when no level changed, and nothing for a change that
\* leaves the highest level of all heads at a tier none of the changes moved up to.
SirenCommand ==
    CASE fresh # {} /\ Top = WARNING /\ FreshAt(WARNING) -> WARNING
      [] fresh # {} /\ Top = ADVISORY /\ FreshEscalationTo(ADVISORY) -> ADVISORY
      [] fresh # {} /\ Top = NONE -> NONE
      [] OTHER -> siren

drive_siren ==
    /\ pc = "siren"
    /\ siren' = SirenCommand
    /\ pc' = "persist levels"
    /\ UNCHANGED <<mem_vars, todo, fresh, queue, db, mcu_mode, cloud, below, lost_vars, crashes>>

\* alert_tick on the microcontroller ends a command when its time is over.
SirenExpires ==
    /\ siren # NONE
    /\ siren' = NONE
    /\ UNCHANGED <<pc, mem_vars, todo, fresh, queue, db, mcu_mode, cloud, below, lost_vars, crashes>>

\* AlertEngine and DutyCycle, export_state: what goes into the state table ...
export_levels == [level |-> level, streak |-> streak]
export_duty == [mode |-> mode, calm |-> calm]

\* ... and import_state: what is taken from it at a start.
import_levels(d) == level' = d.level /\ streak' = d.streak
import_duty(d) == mode' = d.mode /\ calm' = d.calm

PersistLevels ==
    /\ pc = "persist levels"
    /\ db' = [db EXCEPT !.alert_levels = export_levels]
    /\ pc' = "duty"
    /\ UNCHANGED <<mem_vars, todo, fresh, queue, siren, mcu_mode, cloud, below, lost_vars, crashes>>

-----------------------------------------------------------------------------
\* Mutant: only a warning raised in this cycle counts.
any_warning_FreshOnly == FreshAt(WARNING)

any_warning == \E h \in Heads : level[h] = WARNING

\* DutyCycle.update, and the cadence command when the cadence changed.
duty_update ==
    /\ pc = "duty"
    /\ IF any_warning THEN mode' = "elevated" /\ calm' = 0
       ELSE IF mode = "elevated" /\ calm + 1 < Cooldown THEN mode' = mode /\ calm' = calm + 1
       ELSE mode' = "baseline" /\ calm' = IF mode = "elevated" THEN 0 ELSE calm
    /\ mcu_mode' = IF mode' # mode THEN mode' ELSE mcu_mode
    /\ pc' = "persist duty"
    /\ UNCHANGED <<level, streak, todo, fresh, queue, db, siren, cloud, below, lost_vars, crashes>>

PersistDuty ==
    /\ pc = "persist duty"
    /\ db' = [db EXCEPT !.duty_cycle = export_duty]
    /\ pc' = "flush"
    /\ UNCHANGED <<mem_vars, todo, fresh, queue, siren, mcu_mode, cloud, below, lost_vars, crashes>>

-----------------------------------------------------------------------------
(* flush_alerts posts the unsent alerts oldest first and stops at the first   *)
(* failure.                                                                  *)

\* What the server holds of an event is the severity of the last message, or nothing.
CapLevel(cap) ==
    IF cap.msgType = "Cancel" THEN NONE ELSE CHOOSE l \in DOMAIN Severity : Severity[l] = cap.severity
Received(cap) == cloud' = [cloud EXCEPT ![cap.event] = CapLevel(cap)]

\* Mutant: newest first.
NextToPost_Newest == queue[Len(queue)]

NextToPost == queue[1]

\* Mutant: the queue is only flushed in a cycle that raised an alert.
PostTaken_OnlyFresh ==
    /\ pc = "flush" /\ queue # <<>> /\ fresh # {}
    /\ Received(NextToPost)
    /\ pc' = "mark"
    /\ UNCHANGED <<mem_vars, todo, fresh, queue, db, siren, mcu_mode, below, lost_vars, crashes>>

PostTaken ==
    /\ pc = "flush" /\ queue # <<>>
    /\ Received(NextToPost)
    /\ pc' = "mark"
    /\ UNCHANGED <<mem_vars, todo, fresh, queue, db, siren, mcu_mode, below, lost_vars, crashes>>

\* The server took the alert and its answer got lost.
PostTakenUnanswered ==
    /\ pc = "flush" /\ queue # <<>>
    /\ Received(NextToPost)
    /\ pc' = "idle"
    /\ UNCHANGED <<mem_vars, todo, fresh, queue, db, siren, mcu_mode, below, lost_vars, crashes>>

PostFails ==
    /\ pc = "flush" /\ queue # <<>>
    /\ pc' = "idle"
    /\ UNCHANGED <<mem_vars, todo, fresh, queue, db, siren, mcu_mode, cloud, below, lost_vars, crashes>>

mark_sent ==
    /\ pc = "mark"
    /\ queue' = Tail(queue)
    /\ pc' = "flush"
    /\ UNCHANGED <<mem_vars, todo, fresh, db, siren, mcu_mode, cloud, below, lost_vars, crashes>>

FlushDone ==
    /\ pc = "flush" /\ queue = <<>>
    /\ pc' = "idle"
    /\ UNCHANGED <<mem_vars, todo, fresh, queue, db, siren, mcu_mode, cloud, below, lost_vars, crashes>>

\* The process dies, anywhere, and starts again from the ring buffer; start() tells the
\* microcontroller the cadence.
Crash ==
    /\ crashes < MaxCrashes
    /\ crashes' = crashes + 1
    /\ import_levels(db.alert_levels) /\ import_duty(db.duty_cycle)
    /\ mcu_mode' = mode'
    /\ todo' = {} /\ fresh' = {}
    /\ pc' = "boot"
    /\ undone' = [h \in Heads |-> undone[h] \/ (pc \in Undecided /\ below[h] = 0)]
    /\ forgotten' = [h \in Heads |->
                        forgotten[h] \/ (pc \in Undecided /\ \E a \in fresh \ todo : a.head = h)]
    /\ UNCHANGED <<queue, db, siren, cloud, below>>

Step ==
    \/ \E tiers \in [Heads -> Levels] : RunCycle(tiers)
    \/ queue_alert \/ QueueDone
    \/ drive_siren \/ PersistLevels
    \/ duty_update \/ PersistDuty
    \/ PostTaken \/ PostTakenUnanswered \/ PostFails \/ mark_sent \/ FlushDone

Next == Step \/ SirenExpires \/ Crash

Spec == Init /\ [][Next]_vars

\* The node keeps running cycles (the fallback of run_forever does when no sweep
\* comes), and an uplink that is tried forever is up now and then.
FairSpec == Spec /\ WF_vars(Step) /\ SF_vars(PostTaken)

-----------------------------------------------------------------------------
(* Properties *)

\* Once the queue is flushed after a cycle, the server's view of every head is the
\* node's.  The code orders its transactions otherwise (node.py:185-189): it queues an
\* alert before it persists the level the alert was decided from.
CloudAgreesWhenFlushed == pc = "idle" /\ queue = <<>> => cloud = level

\* Through crashes at any place: the server's view of a head is the node's once the
\* queue is flushed, unless a crash made the node forget the level of an alert it had
\* queued and the head has had no alert since.  No change is lost to a failed post,
\* overtaken by an older one, or undone by one that is sent again after a lost answer
\* or a crash before it was marked.
CloudAgreesUnlessForgotten ==
    pc = "idle" /\ queue = <<>> => \A h \in Heads : cloud[h] = level[h] \/ forgotten[h]

\* "It is left only after clear_cycles consecutive cycles below that tier's threshold"
\* (alerts.py:6), counted over crashes at any place, with one exception: the cycle that
\* put the head back at its level, or changed the level, was itself undone by a crash
\* before its levels were persisted.  The count then goes on from the older cycles.
HysteresisHolds ==
    [][\A h \in Heads : pc' = "queue" /\ level'[h] < level[h]
                        => below[h] + 1 >= ClearCycles \/ undone[h]]_vars

\* After a cycle the node and the microcontroller run at the elevated cadence while
\* any head is at warning, also when the cycle followed a restart.
ElevatedWhileWarning ==
    pc = "idle" /\ WARNING \in Range(level) => mode = "elevated" /\ mcu_mode = "elevated"

\* The siren does not go on after every head has been cleared, unless a crash made the
\* node forget the level of an alert, for which the siren may have been switched on.
SirenQuietWhenClear ==
    pc = "idle" /\ Top = NONE => siren = NONE \/ \E h \in Heads : forgotten[h]

\* A queued alert does not wait for another alert: the queue is tried again in every
\* cycle until it gets out.
AlertsGetOut == queue # <<>> ~> pc = "mark"
=============================================================================
