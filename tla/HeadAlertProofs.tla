-------------------------- MODULE HeadAlertProofs ---------------------------
(***************************************************************************)
(* Proofs about the inference cycle, for any heads, queue and number of    *)
(* crashes, wherever they fall.  A crash between the first alert of a      *)
(* cycle being queued and the levels being persisted undoes the levels but *)
(* not the alerts; the theorems say what is left of the agreement between  *)
(* the two after such a crash, and the invariants keep track of what the   *)
(* ring buffer would restore at every place.                               *)
(***************************************************************************)
EXTENDS HeadAlert, FiniteSetTheorems, TLAPS

\* The steps, told apart.
LEMMA Steps ==
    ASSUME [Next]_vars
    PROVE  \/ UNCHANGED vars
           \/ \E tiers \in [Heads -> Levels] : RunCycle(tiers)
           \/ queue_alert \/ QueueDone \/ drive_siren \/ PersistLevels \/ duty_update \/ PersistDuty
           \/ PostTaken \/ PostTakenUnanswered \/ PostFails \/ mark_sent \/ FlushDone
           \/ SirenExpires \/ Crash
  BY DEF Next, Step

-----------------------------------------------------------------------------
(* The decision *)

\* What decide leaves of a head is a level and a streak below ClearCycles.
LEMMA DecidedTypes ==
    ASSUME NEW h \in Heads, NEW tier \in Levels, level \in [Heads -> Levels],
           streak \in [Heads -> 0 .. ClearCycles - 1]
    PROVE  NewLevel(h, tier) \in Levels /\ NewStreak(h, tier) \in 0 .. ClearCycles - 1
<1>1. level[h] \in Levels /\ streak[h] \in 0 .. ClearCycles - 1 /\ ClearCycles \in Nat
  BY AlertAssumption
<1> QED
  BY <1>1 DEF NewLevel, NewStreak, Leaves, Levels

\* There are finitely many alerts to queue.
LEMMA DecidedFinite ==
    ASSUME NEW tiers
    PROVE  IsFiniteSet(Decided(tiers))
<1> DEFINE Changed == {g \in Heads : NewLevel(g, tiers[g]) # level[g]}
           Raised(h) == [head |-> h, level |-> NewLevel(h, tiers[h]), prev |-> level[h]]
<1>1. IsFiniteSet(Changed)
  <2>1. \A h \in Heads : \E n \in 1 .. Len(HeadOrder) : HeadOrder[n] = h
    BY AlertAssumption DEF Heads, Range
  <2>2. IsFiniteSet(Heads)
    BY <2>1, AlertAssumption DEF IsFiniteSet
  <2>3. Changed \in SUBSET Heads
    OBVIOUS
  <2> QED
    BY <2>2, <2>3, FS_Subset
<1>2. PICK s \in Seq(Changed) : \A h \in Changed : \E n \in 1 .. Len(s) : s[n] = h
  BY <1>1 DEF IsFiniteSet
<1>3. Decided(tiers) = {Raised(h) : h \in Changed}
  BY DEF Decided
<1> HIDE DEF Raised, Changed
<1> DEFINE t == [n \in 1 .. Len(s) |-> Raised(s[n])]
<1>4. t \in Seq(Decided(tiers)) /\ Len(t) = Len(s)
  BY <1>2, <1>3
<1>5. \A a \in Decided(tiers) : \E n \in 1 .. Len(t) : t[n] = a
  BY <1>2, <1>3, <1>4
<1> QED
  BY <1>4, <1>5 DEF IsFiniteSet

\* The level the server reads from a message is the level of the alert: cap_message
\* keeps apart what Received tells apart.
LEMMA CapRoundTrip ==
    ASSUME NEW a \in Alert
    PROVE  /\ cap_message(a) \in Cap
           /\ cap_message(a).event = a.head
           /\ CapLevel(cap_message(a)) = a.level
  BY DEF Alert, Cap, cap_message, CapLevel, Severity, Levels, NONE

LEMMA CapTypes ==
    ASSUME NEW m \in Cap
    PROVE  m.event \in Heads /\ CapLevel(m) \in Levels
<1>1. PICK a \in Alert : m = cap_message(a)
  BY DEF Cap
<1>2. a.head \in Heads /\ a.level \in Levels
  BY DEF Alert
<1> QED
  BY <1>1, <1>2, CapRoundTrip

-----------------------------------------------------------------------------
(* Types *)

\* The alerts that wait to be queued have room, and an alert that is marked is there.
TypeInv ==
    /\ TypeOK
    /\ IsFiniteSet(todo) /\ Len(queue) + Cardinality(todo) <= MaxQueue
    /\ pc = "mark" => queue # <<>>

LEMMA TypeStep == TypeInv /\ [Next]_vars => TypeInv'
<1> SUFFICES ASSUME TypeInv, [Next]_vars
             PROVE  TypeInv'
  OBVIOUS
<1> USE DEF TypeInv, TypeOK
<1>0. Cardinality(todo) \in Nat /\ Len(queue) \in Nat /\ ClearCycles \in Nat \ {0} /\ Cooldown \in Nat \ {0}
  BY AlertAssumption, FS_CardinalityType
<1>1. CASE UNCHANGED vars
  BY <1>1 DEF vars, mem_vars, lost_vars
<1>2. ASSUME NEW tiers \in [Heads -> Levels], RunCycle(tiers)
      PROVE  TypeInv'
  <2>1. level' \in [Heads -> Levels] /\ streak' \in [Heads -> 0 .. ClearCycles - 1]
    BY <1>2, DecidedTypes DEF RunCycle
  <2>2. Decided(tiers) \subseteq Alert
    <3> SUFFICES ASSUME NEW h \in Heads
                 PROVE  [head |-> h, level |-> NewLevel(h, tiers[h]), prev |-> level[h]] \in Alert
      BY DEF Decided
    <3>1. NewLevel(h, tiers[h]) \in Levels /\ level[h] \in Levels
      BY DecidedTypes
    <3> QED
      BY <3>1 DEF Alert
  <2>3. todo' = Decided(tiers) /\ fresh' = Decided(tiers) /\ Len(queue) + Cardinality(todo') <= MaxQueue /\ queue' = queue
    BY <1>2 DEF RunCycle
  <2>4. IsFiniteSet(todo') /\ Len(queue') <= MaxQueue
    BY <1>0, <2>3, DecidedFinite
  <2>5. below' \in [Heads -> 0 .. ClearCycles] /\ undone' \in [Heads -> BOOLEAN]
    <3>1. below' \in [Heads -> 0 .. ClearCycles]
      BY <1>0, <1>2 DEF RunCycle
    <3>2. undone' \in [Heads -> BOOLEAN]
      <4>1. undone' = [h \in Heads |-> undone[h] /\ below'[h] # 0]
        BY <1>2 DEF RunCycle
      <4>2. \A h \in Heads : (undone[h] /\ below'[h] # 0) \in BOOLEAN
        OBVIOUS
      <4> QED
        BY <4>1, <4>2, Zenon
    <3> QED
      BY <3>1, <3>2
  <2> QED
    BY <1>2, <2>1, <2>2, <2>3, <2>4, <2>5 DEF RunCycle, Places
<1>3. CASE queue_alert
  <2>1. PICK a \in todo : queue' = Append(queue, cap_message(a)) /\ todo' = todo \ {a}
    BY <1>3 DEF queue_alert
  <2>2. /\ IsFiniteSet(todo') /\ Cardinality(todo') = Cardinality(todo) - 1
        /\ queue' \in Seq(Cap) /\ Len(queue') = Len(queue) + 1
    <3>1. cap_message(a) \in Cap
      BY CapRoundTrip
    <3>2. IsFiniteSet(todo \ {a}) /\ Cardinality(todo \ {a}) = Cardinality(todo) - 1
      BY FS_RemoveElement
    <3> QED
      BY <2>1, <3>1, <3>2
  <2>3. Len(queue') <= MaxQueue /\ Len(queue') + Cardinality(todo') <= MaxQueue
    <3>1. Cardinality(todo') \in Nat
      BY <2>2, FS_CardinalityType
    <3> QED
      BY <1>0, <2>2, <3>1, AlertAssumption
  <2>4. forgotten' \in [Heads -> BOOLEAN]
    <3>1. PICK g : forgotten' = [forgotten EXCEPT ![g] = FALSE]
      BY <1>3 DEF queue_alert
    <3> QED
      BY <3>1
  <2> QED
    BY <1>3, <2>1, <2>2, <2>3, <2>4 DEF queue_alert, mem_vars
<1>4. CASE QueueDone \/ PostFails \/ FlushDone
  <2>1. /\ pc' \in {"siren", "idle"}
        /\ UNCHANGED <<level, streak, mode, calm, todo, fresh, queue, db, siren, mcu_mode, cloud, below, undone, forgotten, crashes>>
    BY <1>4, Zenon DEF QueueDone, PostFails, FlushDone, mem_vars, lost_vars
  <2> QED
    BY <2>1 DEF Places
<1>5. CASE drive_siren \/ SirenExpires
  <2>1. /\ siren' \in {WARNING, ADVISORY, NONE, siren}
        /\ pc' = pc \/ pc' = "persist levels"
        /\ UNCHANGED <<level, streak, mode, calm, todo, fresh, queue, db, mcu_mode, cloud, below, undone, forgotten, crashes>>
    BY <1>5 DEF drive_siren, SirenCommand, SirenExpires, mem_vars, lost_vars
  <2>2. siren' \in Levels
    <3>1. WARNING \in Levels /\ ADVISORY \in Levels /\ NONE \in Levels
      BY DEF WARNING, ADVISORY, NONE, Levels
    <3> QED
      BY <2>1, <3>1
  <2>3. pc' \in Places /\ (pc' = "mark" => pc = "mark")
    BY <2>1 DEF Places
  <2> QED
    BY <2>1, <2>2, <2>3
<1>6. CASE PersistLevels
  <2>1. db' \in [alert_levels : LevelRow, duty_cycle : DutyRow]
    BY <1>6 DEF PersistLevels, export_levels, LevelRow, DutyRow
  <2> QED
    BY <1>6, <2>1 DEF PersistLevels, Places, mem_vars, lost_vars, LevelRow, DutyRow
<1>7. CASE duty_update
  <2>1. mode' \in Modes /\ calm' \in 0 .. Cooldown - 1 /\ mcu_mode' \in Modes
    <3>1. /\ \/ mode' = "elevated" /\ calm' = 0
             \/ mode' = mode /\ calm' = calm + 1 /\ calm + 1 < Cooldown
             \/ mode' = "baseline" /\ calm' \in {0, calm}
          /\ mcu_mode' \in {mode', mcu_mode}
      BY <1>7 DEF duty_update
    <3> QED
      BY <1>0, <3>1 DEF Modes
  <2> QED
    BY <1>7, <2>1 DEF duty_update, Places, lost_vars
<1>8. CASE PersistDuty
  <2>1. db' \in [alert_levels : LevelRow, duty_cycle : DutyRow]
    BY <1>8 DEF PersistDuty, export_duty, LevelRow, DutyRow
  <2> QED
    BY <1>8, <2>1 DEF PersistDuty, Places, mem_vars, lost_vars, LevelRow, DutyRow
<1>9. CASE PostTaken \/ PostTakenUnanswered
  <2>1. /\ queue # <<>> /\ pc' \in {"mark", "idle"} /\ Received(queue[1])
        /\ UNCHANGED <<level, streak, mode, calm, todo, fresh, queue, db, siren, mcu_mode, below, undone, forgotten, crashes>>
    BY <1>9, Zenon DEF PostTaken, PostTakenUnanswered, NextToPost, mem_vars, lost_vars
  <2>2. queue[1] \in Cap
    BY <2>1
  <2>3. cloud' \in [Heads -> Levels]
    BY <2>1, <2>2, CapTypes DEF Received
  <2> QED
    BY <2>1, <2>3 DEF Places
<1>10. CASE mark_sent
  <2>1. queue' = Tail(queue) /\ queue # <<>>
    BY <1>10 DEF mark_sent
  <2>2. queue' \in Seq(Cap) /\ Len(queue') = Len(queue) - 1
    BY <2>1
  <2>3. todo' = todo /\ Len(queue') <= MaxQueue /\ Len(queue') + Cardinality(todo) <= MaxQueue
    BY <1>0, <1>10, <2>2, AlertAssumption DEF mark_sent
  <2> QED
    BY <1>10, <2>2, <2>3 DEF mark_sent, Places, mem_vars, lost_vars
<1>11. CASE Crash
  <2>1. db.alert_levels \in LevelRow /\ db.duty_cycle \in DutyRow
    BY DEF LevelRow, DutyRow
  <2>2. level' \in [Heads -> Levels] /\ streak' \in [Heads -> 0 .. ClearCycles - 1]
        /\ mode' \in Modes /\ calm' \in 0 .. Cooldown - 1 /\ mcu_mode' = mode'
    BY <1>11, <2>1 DEF Crash, import_levels, import_duty, LevelRow, DutyRow
  <2>3. IsFiniteSet({}) /\ Cardinality({}) = 0
    BY FS_EmptySet
  <2>4. crashes' \in 0 .. MaxCrashes
    BY <1>11, AlertAssumption DEF Crash
  <2>5. todo' = {} /\ fresh' = {} /\ pc' = "boot" /\ UNCHANGED <<queue, db, siren, cloud, below>>
    BY <1>11 DEF Crash
  <2>6. IsFiniteSet(todo') /\ Len(queue') + Cardinality(todo') <= MaxQueue
    BY <2>3, <2>5, <1>0
  <2>7. undone' \in [Heads -> BOOLEAN] /\ forgotten' \in [Heads -> BOOLEAN]
    <3>1. /\ undone' = [h \in Heads |-> undone[h] \/ (pc \in Undecided /\ below[h] = 0)]
          /\ forgotten' = [h \in Heads |->
                             forgotten[h] \/ (pc \in Undecided /\ \E a \in fresh \ todo : a.head = h)]
      BY <1>11 DEF Crash
    <3>2. \A h \in Heads : /\ (undone[h] \/ (pc \in Undecided /\ below[h] = 0)) \in BOOLEAN
                            /\ (forgotten[h] \/ (pc \in Undecided /\ \E a \in fresh \ todo : a.head = h)) \in BOOLEAN
      OBVIOUS
    <3> QED
      BY <3>1, <3>2, Zenon
  <2> QED
    BY <2>2, <2>4, <2>5, <2>6, <2>7 DEF Places
<1> QED
  BY Steps, <1>1, <1>2, <1>3, <1>4, <1>5, <1>6, <1>7, <1>8, <1>9, <1>10, <1>11

LEMMA TypeHolds == Spec => []TypeInv
<1>1. Init => TypeInv
  <2> SUFFICES ASSUME Init
               PROVE  TypeInv
    OBVIOUS
  <2>1. IsFiniteSet(todo) /\ Cardinality(todo) = 0
    BY FS_EmptySet DEF Init
  <2>2. /\ level \in [Heads -> Levels] /\ streak \in [Heads -> 0 .. ClearCycles - 1] /\ cloud \in [Heads -> Levels]
        /\ below \in [Heads -> 0 .. ClearCycles] /\ siren \in Levels /\ calm \in 0 .. Cooldown - 1
        /\ queue \in Seq(Cap) /\ Len(queue) = 0 /\ crashes \in 0 .. MaxCrashes /\ MaxQueue \in Nat
    BY AlertAssumption DEF Init, Levels, NONE
  <2>3. mode \in Modes /\ mcu_mode \in Modes /\ pc \in Places /\ pc # "mark"
    BY DEF Init, Modes, Places
  <2>4. db \in [alert_levels : LevelRow, duty_cycle : DutyRow]
    BY <2>2, <2>3 DEF Init, LevelRow, DutyRow
  <2>5. undone \in [Heads -> BOOLEAN] /\ forgotten \in [Heads -> BOOLEAN]
    BY DEF Init
  <2> QED
    BY <2>1, <2>2, <2>3, <2>4, <2>5 DEF Init, TypeInv, TypeOK
<1> QED
  BY <1>1, TypeStep, PTL DEF Spec

\* Every variable stays in its type, whatever the crashes: a streak is reset before it
\* reaches ClearCycles, the calm cycles before they reach Cooldown, persisted ones
\* included (AlertEngine.decide, DutyCycle.update, export_state and import_state).
THEOREM AlertTypes == Spec => []TypeOK
<1>1. TypeInv => TypeOK
  BY DEF TypeInv
<1> QED
  BY <1>1, TypeHolds, PTL

-----------------------------------------------------------------------------
(* The cadence *)

\* Once the duty cycle was updated the cadence is right until the next decision; the
\* microcontroller is told every change.
CadenceInv ==
    /\ mcu_mode = mode
    /\ pc \in {"persist duty", "flush", "mark", "idle"} /\ any_warning => mode = "elevated"

LEMMA CadenceStep == CadenceInv /\ [Next]_vars => CadenceInv'
<1> SUFFICES ASSUME CadenceInv, [Next]_vars
             PROVE  CadenceInv'
  OBVIOUS
<1> USE DEF CadenceInv, any_warning
<1>1. CASE UNCHANGED vars
  BY <1>1 DEF vars, mem_vars, lost_vars
<1>2. CASE \/ \E tiers \in [Heads -> Levels] : RunCycle(tiers)
           \/ queue_alert \/ QueueDone \/ drive_siren \/ PersistLevels
  <2>1. pc' \in {"queue", "siren", "persist levels", "duty"} /\ UNCHANGED <<mode, mcu_mode>>
    BY <1>2, Zenon DEF RunCycle, queue_alert, QueueDone, drive_siren, PersistLevels, mem_vars
  <2> QED
    BY <2>1
<1>3. CASE duty_update
  <2>1. (any_warning => mode' = "elevated") /\ mcu_mode' = mode' /\ level' = level
    BY <1>3 DEF duty_update
  <2> QED
    BY <2>1
<1>4. CASE PersistDuty \/ PostTaken \/ PostTakenUnanswered \/ PostFails \/ mark_sent \/ FlushDone \/ SirenExpires
  <2>1. /\ UNCHANGED <<level, mode, mcu_mode>>
        /\ pc \in {"persist duty", "flush", "mark"} \/ pc' = pc
    BY <1>4, Zenon
    DEF PersistDuty, PostTaken, PostTakenUnanswered, PostFails, mark_sent, FlushDone, SirenExpires, mem_vars
  <2> QED
    BY <2>1
<1>5. CASE Crash
  BY <1>5 DEF Crash
<1> QED
  BY Steps, <1>1, <1>2, <1>3, <1>4, <1>5

\* After a cycle the node and the microcontroller run at the elevated cadence while
\* any head is at warning, wherever the process crashed before (DutyCycle.update and
\* the $CADENCE commands of run_cycle and start).
THEOREM CadenceTheorem == Spec => []ElevatedWhileWarning
<1>1. Init => CadenceInv
  BY DEF Init, CadenceInv
<1>2. TypeInv /\ CadenceInv => ElevatedWhileWarning
  BY DEF TypeInv, TypeOK, CadenceInv, any_warning, ElevatedWhileWarning, Range
<1> QED
  BY <1>1, <1>2, CadenceStep, TypeHolds, PTL DEF Spec

-----------------------------------------------------------------------------
(* The ring buffer and what depends on it *)

\* The process would continue with what is persisted, but for a decision under way.
PersistInv == pc \notin Undecided => db.alert_levels.level = level /\ db.alert_levels.streak = streak

LEMMA PersistStep == TypeInv /\ PersistInv /\ [Next]_vars => PersistInv'
<1> SUFFICES ASSUME TypeInv, PersistInv, [Next]_vars
             PROVE  PersistInv'
  OBVIOUS
<1> USE DEF PersistInv, Undecided
<1>1. CASE UNCHANGED vars
  BY <1>1 DEF vars, mem_vars, lost_vars
<1>2. CASE \/ \E tiers \in [Heads -> Levels] : RunCycle(tiers)
           \/ queue_alert \/ QueueDone \/ drive_siren
  <2>1. pc' \in Undecided
    BY <1>2, Zenon DEF RunCycle, queue_alert, QueueDone, drive_siren
  <2> QED
    BY <2>1
<1>3. CASE PersistLevels
  BY <1>3 DEF PersistLevels, export_levels, TypeInv, TypeOK, mem_vars
<1>4. CASE PersistDuty
  BY <1>4 DEF PersistDuty, TypeInv, TypeOK, mem_vars
<1>5. CASE duty_update \/ PostTaken \/ PostTakenUnanswered \/ PostFails \/ mark_sent \/ FlushDone \/ SirenExpires
  <2>1. UNCHANGED <<level, streak, db>> /\ (pc \in {"duty", "flush", "mark"} \/ pc' = pc)
    BY <1>5, Zenon DEF duty_update, PostTaken, PostTakenUnanswered, PostFails, mark_sent, FlushDone, SirenExpires, mem_vars
  <2> QED
    BY <2>1
<1>6. CASE Crash
  BY <1>6 DEF Crash, import_levels
<1> QED
  BY Steps, <1>1, <1>2, <1>3, <1>4, <1>5, <1>6

\* A streak counts no more cycles than there were, and nor does the persisted one that a
\* crash would go on from, unless it would undo the cycle that began the count.
StreakInv ==
    \A h \in Heads :
        /\ undone[h] \/ streak[h] <= below[h]
        /\ pc \in Undecided => undone[h] \/ below[h] = 0 \/ db.alert_levels.streak[h] <= below[h]

LEMMA StreakTypes ==
    ASSUME TypeInv, NEW tiers \in [Heads -> Levels], NEW h \in Heads
    PROVE  /\ streak[h] \in 0 .. ClearCycles - 1 /\ below[h] \in 0 .. ClearCycles
           /\ level[h] \in Nat /\ tiers[h] \in Nat /\ ClearCycles \in Nat
<1>1. streak[h] \in 0 .. ClearCycles - 1 /\ below[h] \in 0 .. ClearCycles
  BY DEF TypeInv, TypeOK
<1>2. level[h] \in Levels /\ tiers[h] \in Levels
  BY DEF TypeInv, TypeOK
<1> QED
  BY <1>1, <1>2, AlertAssumption DEF Levels

\* What a cycle does to the count of one head.
LEMMA StreakCycle ==
    ASSUME TypeInv, PersistInv, StreakInv, NEW tiers \in [Heads -> Levels], RunCycle(tiers), NEW h \in Heads
    PROVE  /\ undone'[h] \/ streak'[h] <= below'[h]
           /\ undone'[h] \/ below'[h] = 0 \/ db'.alert_levels.streak[h] <= below'[h]
<1>1. /\ level'[h] = NewLevel(h, tiers[h]) /\ streak'[h] = NewStreak(h, tiers[h])
      /\ below'[h] = IF tiers[h] >= level[h] \/ level'[h] # level[h] THEN 0
                     ELSE IF below[h] < ClearCycles THEN below[h] + 1 ELSE below[h]
      /\ undone'[h] = (undone[h] /\ below'[h] # 0)
      /\ pc \in {"boot", "idle"} /\ db' = db
  BY DEF RunCycle
<1>2. /\ streak[h] \in 0 .. ClearCycles - 1 /\ below[h] \in 0 .. ClearCycles /\ level[h] \in Nat /\ tiers[h] \in Nat
      /\ ClearCycles \in Nat /\ db.alert_levels.streak[h] = streak[h] /\ (undone[h] \/ streak[h] <= below[h])
  <2>1. pc \notin Undecided
    BY <1>1 DEF Undecided
  <2>2. db.alert_levels.streak[h] = streak[h]
    BY <2>1, Zenon DEF PersistInv
  <2>3. undone[h] \/ streak[h] <= below[h]
    BY Zenon DEF StreakInv
  <2> QED
    BY <2>2, <2>3, StreakTypes
<1>3. CASE tiers[h] >= level[h] \/ level'[h] # level[h]
  <2>1. below'[h] = 0 /\ streak'[h] = 0
    BY <1>1, <1>2, <1>3 DEF NewStreak, NewLevel, Leaves
  <2> QED
    BY <2>1
<1>4. CASE ~(tiers[h] >= level[h] \/ level'[h] # level[h])
  <2>1. below'[h] = IF below[h] < ClearCycles THEN below[h] + 1 ELSE below[h]
    BY <1>1, <1>4
  <2>2. below'[h] # 0 /\ undone'[h] = undone[h]
    BY <1>1, <1>2, <2>1, AlertAssumption DEF TypeInv, TypeOK
  <2>3. streak'[h] = streak[h] + 1 /\ streak[h] + 1 < ClearCycles
    BY <1>1, <1>2, <1>4 DEF NewStreak, NewLevel, Leaves
  <2>4. undone[h] \/ (streak'[h] <= below'[h] /\ streak[h] <= below'[h])
    BY <1>2, <2>1, <2>3
  <2> QED
    BY <1>1, <1>2, <2>2, <2>4
<1> QED
  BY <1>3, <1>4

LEMMA StreakStep == TypeInv /\ PersistInv /\ StreakInv /\ [Next]_vars => StreakInv'
<1> SUFFICES ASSUME TypeInv, PersistInv, StreakInv, [Next]_vars
             PROVE  StreakInv'
  OBVIOUS
<1>1. CASE \E tiers \in [Heads -> Levels] : RunCycle(tiers)
  BY <1>1, StreakCycle DEF StreakInv
<1>2. CASE Crash
  <2> SUFFICES ASSUME NEW h \in Heads
               PROVE  undone'[h] \/ streak'[h] <= below'[h]
    BY <1>2 DEF StreakInv, Crash, Undecided
  <2>1. /\ streak' = db.alert_levels.streak /\ below' = below
        /\ undone'[h] = (undone[h] \/ (pc \in Undecided /\ below[h] = 0))
    BY <1>2 DEF Crash, import_levels
  <2>2. CASE pc \in Undecided
    BY <2>1, <2>2 DEF StreakInv
  <2>3. CASE pc \notin Undecided
    BY <2>1, <2>3 DEF StreakInv, PersistInv
  <2> QED
    BY <2>2, <2>3
<1>3. CASE \/ UNCHANGED vars
           \/ queue_alert \/ QueueDone \/ drive_siren \/ PersistLevels \/ duty_update \/ PersistDuty
           \/ PostTaken \/ PostTakenUnanswered \/ PostFails \/ mark_sent \/ FlushDone \/ SirenExpires
  <2>1. UNCHANGED <<streak, below, undone>>
    BY <1>3, Zenon
    DEF vars, mem_vars, lost_vars, queue_alert, QueueDone, drive_siren, PersistLevels, duty_update, PersistDuty,
        PostTaken, PostTakenUnanswered, PostFails, mark_sent, FlushDone, SirenExpires
  <2>2. pc' \in Undecided => pc \in Undecided /\ db' = db
    BY <1>3
    DEF Undecided, vars, queue_alert, QueueDone, drive_siren, PersistLevels, duty_update, PersistDuty,
        PostTaken, PostTakenUnanswered, PostFails, mark_sent, FlushDone, SirenExpires
  <2> QED
    BY <2>1, <2>2 DEF StreakInv
<1> QED
  BY Steps, <1>1, <1>2, <1>3

\* A level falls only by a decision, with the streak one short of ClearCycles before.
LEMMA FallStep ==
    ASSUME TypeInv, StreakInv, [Next]_vars, NEW h \in Heads, pc' = "queue", level'[h] < level[h]
    PROVE  below[h] + 1 >= ClearCycles \/ undone[h]
<1>1. CASE \E tiers \in [Heads -> Levels] : RunCycle(tiers)
  <2>1. PICK tiers \in [Heads -> Levels] : RunCycle(tiers)
    BY <1>1
  <2>2. level'[h] = NewLevel(h, tiers[h])
    BY <2>1 DEF RunCycle
  <2>3. /\ streak[h] \in 0 .. ClearCycles - 1 /\ below[h] \in 0 .. ClearCycles /\ (undone[h] \/ streak[h] <= below[h])
        /\ level[h] \in Nat /\ tiers[h] \in Nat /\ ClearCycles \in Nat
    <3>1. undone[h] \/ streak[h] <= below[h]
      BY Zenon DEF StreakInv
    <3> QED
      BY <3>1, StreakTypes
  <2>4. streak[h] + 1 >= ClearCycles
    BY <2>2, <2>3 DEF NewLevel, Leaves
  <2> QED
    BY <2>3, <2>4
<1>2. CASE Crash
  BY <1>2 DEF Crash
<1>3. CASE \/ UNCHANGED vars
           \/ queue_alert \/ QueueDone \/ drive_siren \/ PersistLevels \/ duty_update \/ PersistDuty
           \/ PostTaken \/ PostTakenUnanswered \/ PostFails \/ mark_sent \/ FlushDone \/ SirenExpires
  <2>1. level' = level
    BY <1>3, Zenon
    DEF vars, mem_vars, queue_alert, QueueDone, drive_siren, PersistLevels, duty_update, PersistDuty,
        PostTaken, PostTakenUnanswered, PostFails, mark_sent, FlushDone, SirenExpires
  <2>2. level[h] \in Nat
    BY DEF TypeInv, TypeOK, Levels
  <2> QED
    BY <2>1, <2>2
<1> QED
  BY Steps, <1>1, <1>2, <1>3

\* A level is left only after ClearCycles consecutive cycles below its threshold, through
\* crashes at any place, unless the cycle that began the count was undone by one of them
\* (AlertEngine.decide, export_state, import_state, node.py:185-189).
THEOREM HysteresisTheorem == Spec => HysteresisHolds
<1>1. Init => PersistInv /\ StreakInv
  BY DEF Init, PersistInv, StreakInv, Undecided
<1>2. Spec => [](TypeInv /\ PersistInv /\ StreakInv)
  BY <1>1, PersistStep, StreakStep, TypeHolds, PTL DEF Spec
<1>3. TypeInv /\ PersistInv /\ StreakInv /\ [Next]_vars
        => [\A h \in Heads : pc' = "queue" /\ level'[h] < level[h]
                             => below[h] + 1 >= ClearCycles \/ undone[h]]_vars
  BY FallStep
<1> QED
  BY <1>2, <1>3, PTL DEF Spec, HysteresisHolds

-----------------------------------------------------------------------------
(* The siren *)

AllClear == \A h \in Heads : level[h] = NONE

\* top of drive_siren is NONE when every head is, and only then.
LEMMA TopNone ==
    ASSUME level \in [Heads -> Levels]
    PROVE  Top = NONE <=> AllClear
<1> DEFINE S == Range(level) \union {NONE}
<1>1. S \subseteq 0 .. 2 /\ 0 \in S
  BY DEF Range, Levels, NONE
<1>2. \E x \in S : \A y \in S : x >= y
  <2>1. CASE 2 \in S
    BY <1>1, <2>1
  <2>2. CASE 2 \notin S /\ 1 \in S
    BY <1>1, <2>2
  <2>3. CASE 2 \notin S /\ 1 \notin S
    BY <1>1, <2>3
  <2> QED
    BY <2>1, <2>2, <2>3
<1>3. Top \in S /\ \A y \in S : Top >= y
  <2>1. Top = CHOOSE x \in S : \A y \in S : x >= y
    BY DEF Top, Max
  <2> QED
    BY <1>2, <2>1
<1>4. Top = 0 <=> S = {0}
  BY <1>1, <1>3
<1>5. S = {0} <=> AllClear
  BY DEF AllClear, Range, NONE
<1> QED
  BY <1>4, <1>5 DEF NONE

\* Every head is at none in the ring buffer.
PersistedClear == \A h \in Heads : db.alert_levels.level[h] = NONE
Lost == \E h \in Heads : forgotten[h]

\* The alerts of a cycle that are to be queued are among those it raised, and are queued
\* before the siren is driven.
TodoInv == todo \subseteq fresh /\ (pc \in {"siren", "persist levels"} => todo = {})

LEMMA TodoStep == TodoInv /\ [Next]_vars => TodoInv'
<1> SUFFICES ASSUME TodoInv, [Next]_vars
             PROVE  TodoInv'
  OBVIOUS
<1>1. CASE (\E tiers \in [Heads -> Levels] : RunCycle(tiers)) \/ Crash
  BY <1>1 DEF TodoInv, RunCycle, Crash
<1>2. CASE queue_alert \/ QueueDone \/ drive_siren
  BY <1>2 DEF TodoInv, queue_alert, QueueDone, drive_siren
<1>3. CASE \/ UNCHANGED vars
           \/ PersistLevels \/ duty_update \/ PersistDuty
           \/ PostTaken \/ PostTakenUnanswered \/ PostFails \/ mark_sent \/ FlushDone \/ SirenExpires
  <2>1. UNCHANGED <<todo, fresh>> /\ (pc' = pc \/ pc' \notin {"siren", "persist levels"})
    BY <1>3
    DEF vars, PersistLevels, duty_update, PersistDuty,
        PostTaken, PostTakenUnanswered, PostFails, mark_sent, FlushDone, SirenExpires
  <2> QED
    BY <2>1 DEF TodoInv
<1> QED
  BY Steps, <1>1, <1>2, <1>3

\* A siren that sounds while every head is clear has its all-clear coming, or a crash
\* made the node forget; and a crash here would, if it left every head clear.
SirenInv ==
    /\ AllClear /\ siren # NONE => Lost \/ (pc \in {"queue", "siren"} /\ fresh # {})
    /\ pc \in Undecided /\ PersistedClear /\ siren # NONE => Lost \/ fresh \ todo # {}

LEMMA SirenStep == TypeInv /\ PersistInv /\ TodoInv /\ SirenInv /\ [Next]_vars => SirenInv'
<1> SUFFICES ASSUME TypeInv, PersistInv, TodoInv, SirenInv, [Next]_vars
             PROVE  SirenInv'
  OBVIOUS
<1>1. CASE \E tiers \in [Heads -> Levels] : RunCycle(tiers)
  <2>1. PICK tiers \in [Heads -> Levels] : RunCycle(tiers)
    BY <1>1
  <2>2. /\ pc \in {"boot", "idle"} /\ pc' = "queue" /\ fresh' = Decided(tiers)
        /\ UNCHANGED <<siren, forgotten, db>>
        /\ \A h \in Heads : level'[h] = NewLevel(h, tiers[h])
    BY <2>1 DEF RunCycle
  <2>3. fresh' = {} => \A h \in Heads : level'[h] = level[h]
    BY <2>2 DEF Decided
  <2>4. db.alert_levels.level = level
    BY <2>2 DEF PersistInv, Undecided
  <2>5. AllClear /\ siren # NONE => Lost'
    BY <2>2 DEF SirenInv, Lost
  <2>6. (fresh' = {} /\ AllClear' => AllClear) /\ (PersistedClear' => AllClear)
    BY <2>2, <2>3, <2>4 DEF AllClear, PersistedClear
  <2> QED
    BY <2>2, <2>5, <2>6 DEF SirenInv
<1>2. CASE queue_alert
  <2>1. PICK a \in todo : todo' = todo \ {a}
    BY <1>2 DEF queue_alert
  <2>2. fresh' = fresh /\ a \in fresh' \ todo' /\ pc' = "queue"
    BY <1>2, <2>1 DEF queue_alert, TodoInv
  <2> QED
    BY <2>2 DEF SirenInv
<1>3. CASE drive_siren
  <2>1. /\ pc = "siren" /\ pc' = "persist levels" /\ siren' = SirenCommand /\ todo = {}
        /\ UNCHANGED <<level, fresh, todo, forgotten, db>>
    BY <1>3 DEF drive_siren, mem_vars, lost_vars, TodoInv
  <2>2. fresh = {} => siren' = siren
    BY <2>1 DEF SirenCommand
  <2>3. AllClear /\ fresh # {} => siren' = NONE
    <3> SUFFICES ASSUME AllClear, fresh # {}
                 PROVE  siren' = NONE
      OBVIOUS
    <3>1. Top = NONE /\ Top # WARNING /\ Top # ADVISORY
      BY TopNone DEF TypeInv, TypeOK, NONE, WARNING, ADVISORY
    <3> QED
      BY <2>1, <3>1 DEF SirenCommand
  <2>4. /\ AllClear' = AllClear /\ PersistedClear' = PersistedClear /\ Lost' = Lost /\ fresh' \ todo' = fresh
        /\ pc \in Undecided
    BY <2>1 DEF AllClear, PersistedClear, Lost, Undecided
  <2>5. AllClear /\ siren' # NONE => Lost
    BY <2>1, <2>2, <2>3 DEF SirenInv
  <2>6. PersistedClear /\ siren' # NONE => Lost \/ fresh # {}
    BY <2>1, <2>2, <2>4 DEF SirenInv
  <2> QED
    BY <2>4, <2>5, <2>6 DEF SirenInv
<1>4. CASE Crash
  <2>1. /\ level' = db.alert_levels.level /\ pc' = "boot" /\ siren' = siren /\ Heads' = Heads
        /\ \A h \in Heads : forgotten'[h] = (forgotten[h] \/ (pc \in Undecided /\ \E a \in fresh \ todo : a.head = h))
    BY <1>4 DEF Crash, import_levels
  <2>2. Lost => Lost'
    BY <2>1 DEF Lost
  <2>3. pc \in Undecided /\ fresh \ todo # {} => Lost'
    <3>1. \A a \in fresh : a.head \in Heads
      BY DEF TypeInv, TypeOK, Alert
    <3> QED
      BY <2>1, <3>1 DEF Lost
  <2>4. AllClear' /\ siren # NONE => Lost'
    <3>1. AllClear' => PersistedClear
      BY <2>1 DEF AllClear, PersistedClear
    <3>2. CASE pc \in Undecided
      BY <2>2, <2>3, <3>1, <3>2 DEF SirenInv
    <3>3. CASE pc \notin Undecided
      <4>1. db.alert_levels.level = level
        BY <3>3 DEF PersistInv
      <4>2. AllClear' => AllClear
        BY <2>1, <4>1 DEF AllClear
      <4> QED
        BY <2>2, <3>3, <4>2 DEF SirenInv, Undecided
    <3> QED
      BY <3>2, <3>3
  <2> QED
    BY <2>1, <2>4 DEF SirenInv, Undecided
<1>5. CASE QueueDone
  <2>1. UNCHANGED <<level, siren, fresh, todo, forgotten, db>> /\ pc = "queue" /\ pc' = "siren"
    BY <1>5 DEF QueueDone, mem_vars, lost_vars
  <2> QED
    BY <2>1 DEF SirenInv, AllClear, PersistedClear, Lost, Undecided
<1>6. CASE \/ UNCHANGED vars
           \/ PersistLevels \/ duty_update \/ PersistDuty
           \/ PostTaken \/ PostTakenUnanswered \/ PostFails \/ mark_sent \/ FlushDone
  <2>1. /\ UNCHANGED <<level, siren, fresh, todo, forgotten>>
        /\ (pc' = pc /\ db' = db) \/ (pc \notin {"queue", "siren"} /\ pc' \notin Undecided)
    BY <1>6
    DEF vars, mem_vars, lost_vars, PersistLevels, duty_update, PersistDuty, Undecided,
        PostTaken, PostTakenUnanswered, PostFails, mark_sent, FlushDone
  <2>2. AllClear' = AllClear /\ Lost' = Lost /\ (db' = db => PersistedClear' = PersistedClear)
    BY <2>1 DEF AllClear, PersistedClear, Lost
  <2> QED
    BY <2>1, <2>2 DEF SirenInv
<1>7. CASE SirenExpires
  BY <1>7 DEF SirenExpires, SirenInv
<1> QED
  BY Steps, <1>1, <1>2, <1>3, <1>4, <1>5, <1>6, <1>7

\* The siren does not go on after every head has been cleared, through crashes at any
\* place, unless one of them made the node forget the level of an alert (drive_siren,
\* node.py:185-189).
THEOREM SirenTheorem == Spec => []SirenQuietWhenClear
<1>1. Init => PersistInv /\ TodoInv /\ SirenInv
  BY DEF Init, PersistInv, TodoInv, SirenInv
<1>2. TypeInv /\ SirenInv => SirenQuietWhenClear
  BY TopNone DEF TypeInv, TypeOK, SirenInv, SirenQuietWhenClear, Lost
<1> QED
  BY <1>1, <1>2, PersistStep, TodoStep, SirenStep, TypeHolds, PTL DEF Spec

-----------------------------------------------------------------------------
(* The uplink *)

\* What the server will hold of a head once the queue is flushed.
Told(h, l) ==
    \/ cloud[h] = l /\ \A i \in 1 .. Len(queue) : queue[i].event # h
    \/ \E i \in 1 .. Len(queue) :
          /\ queue[i].event = h /\ CapLevel(queue[i]) = l
          /\ \A j \in 1 .. Len(queue) : j > i => queue[j].event # h

Good(h, l) == Told(h, l) \/ forgotten[h]

\* The queue and the server agree with the levels, but for the changes that are not
\* queued yet and those a crash made the node forget; at a place where a crash undoes
\* the levels they also agree with the ring buffer, but for the changes that were
\* queued already.  A message that is to be marked is what the server holds.
CloudInv ==
    /\ todo # {} => pc = "queue"
    /\ \A a \in todo : a.level = level[a.head]
    /\ \A h \in Heads : (\A a \in todo : a.head # h) => Good(h, level[h])
    /\ pc \in Undecided =>
          \A h \in Heads : (\A a \in fresh \ todo : a.head # h) => Good(h, db.alert_levels.level[h])
    /\ pc = "mark" => cloud[queue[1].event] = CapLevel(queue[1])

\* Queueing a message tells its level of its head, and nothing of another head.
LEMMA ToldAppend ==
    ASSUME TypeInv, NEW m \in Cap, queue' = Append(queue, m), cloud' = cloud
    PROVE  /\ Told(m.event, CapLevel(m))'
           /\ \A h, l : h # m.event /\ Told(h, l) => Told(h, l)'
<1>1. /\ Len(queue) \in Nat /\ Len(queue') = Len(queue) + 1 /\ queue'[Len(queue) + 1] = m
      /\ \A i \in 1 .. Len(queue) : queue'[i] = queue[i]
  BY DEF TypeInv, TypeOK
<1>2. Told(m.event, CapLevel(m))'
  <2>1. \A j \in 1 .. Len(queue') : j > Len(queue) + 1 => queue'[j].event # m.event
    BY <1>1
  <2> QED
    BY <1>1, <2>1 DEF Told
<1>3. ASSUME NEW h, NEW l, h # m.event, Told(h, l)
      PROVE  Told(h, l)'
  <2>1. CASE cloud[h] = l /\ \A i \in 1 .. Len(queue) : queue[i].event # h
    <3>1. \A i \in 1 .. Len(queue') : queue'[i].event # h
      BY <1>1, <1>3, <2>1
    <3> QED
      BY <2>1, <3>1 DEF Told
  <2>2. ASSUME NEW i \in 1 .. Len(queue), queue[i].event = h, CapLevel(queue[i]) = l,
               \A j \in 1 .. Len(queue) : j > i => queue[j].event # h
        PROVE  Told(h, l)'
    <3>1. i \in 1 .. Len(queue') /\ queue'[i].event = h /\ CapLevel(queue'[i]) = l
      BY <1>1, <2>2
    <3>2. \A j \in 1 .. Len(queue') : j > i => queue'[j].event # h
      BY <1>1, <1>3, <2>2
    <3> QED
      BY <3>1, <3>2 DEF Told
  <2> QED
    BY <1>3, <2>1, <2>2 DEF Told
<1> QED
  BY <1>2, <1>3

\* What the server takes of a message that stays in the queue changes nothing of it.
LEMMA ToldReceived ==
    ASSUME TypeInv, queue # <<>>, queue' = queue, Received(queue[1]), NEW h, NEW l, Told(h, l)
    PROVE  Told(h, l)'
<1>1. 1 \in 1 .. Len(queue)
  BY DEF TypeInv, TypeOK
<1>2. CASE cloud[h] = l /\ \A i \in 1 .. Len(queue) : queue[i].event # h
  <2>1. queue[1].event # h
    BY <1>1, <1>2
  <2>2. cloud'[h] = cloud[h]
    BY <2>1 DEF Received, TypeInv, TypeOK
  <2> QED
    BY <1>2, <2>2 DEF Told
<1>3. CASE \E i \in 1 .. Len(queue) :
              /\ queue[i].event = h /\ CapLevel(queue[i]) = l
              /\ \A j \in 1 .. Len(queue) : j > i => queue[j].event # h
  BY <1>3 DEF Told
<1> QED
  BY <1>2, <1>3 DEF Told

\* Taking a message off the queue that the server holds changes nothing either.
LEMMA ToldMarked ==
    ASSUME TypeInv, queue # <<>>, queue' = Tail(queue), cloud' = cloud,
           cloud[queue[1].event] = CapLevel(queue[1]), NEW h, NEW l, Told(h, l)
    PROVE  Told(h, l)'
<1>1. /\ Len(queue) \in Nat \ {0} /\ Len(queue') = Len(queue) - 1
      /\ \A i \in 1 .. Len(queue') : queue'[i] = queue[i + 1]
  BY DEF TypeInv, TypeOK
<1>2. CASE cloud[h] = l /\ \A i \in 1 .. Len(queue) : queue[i].event # h
  <2>1. \A i \in 1 .. Len(queue') : queue'[i].event # h
    BY <1>1, <1>2
  <2> QED
    BY <1>2, <2>1 DEF Told
<1>3. ASSUME NEW i \in 1 .. Len(queue), queue[i].event = h, CapLevel(queue[i]) = l,
             \A j \in 1 .. Len(queue) : j > i => queue[j].event # h
      PROVE  Told(h, l)'
  <2>1. CASE i = 1
    <3>1. \A k \in 1 .. Len(queue') : queue'[k].event # h
      BY <1>1, <1>3, <2>1
    <3> QED
      BY <1>3, <2>1, <3>1 DEF Told
  <2>2. CASE i > 1
    <3>1. i - 1 \in 1 .. Len(queue') /\ queue'[i - 1] = queue[i]
      BY <1>1, <2>2
    <3>2. \A k \in 1 .. Len(queue') : k > i - 1 => queue'[k].event # h
      BY <1>1, <1>3, <2>2
    <3> QED
      BY <1>3, <3>1, <3>2 DEF Told
  <2> QED
    BY <2>1, <2>2
<1> QED
  BY <1>2, <1>3 DEF Told

LEMMA CloudStep == TypeInv /\ PersistInv /\ TodoInv /\ CloudInv /\ [Next]_vars => CloudInv'
<1> SUFFICES ASSUME TypeInv, PersistInv, TodoInv, CloudInv, [Next]_vars
             PROVE  CloudInv'
  OBVIOUS
<1>1. CASE \E tiers \in [Heads -> Levels] : RunCycle(tiers)
  <2>1. PICK tiers \in [Heads -> Levels] : RunCycle(tiers)
    BY <1>1
  <2>2. /\ pc \in {"boot", "idle"} /\ pc' = "queue" /\ UNCHANGED <<queue, cloud, db, forgotten>>
        /\ level' = [h \in Heads |-> NewLevel(h, tiers[h])] /\ todo' = Decided(tiers)
    BY <2>1 DEF RunCycle
  <2>3. \A h, l : Good(h, l) => Good(h, l)'
    BY <2>2 DEF Told, Good
  <2>4. db.alert_levels.level = level /\ \A h \in Heads : Good(h, level[h])
    BY <2>2 DEF CloudInv, PersistInv, Undecided
  <2>5. \A a \in todo' : a.level = level'[a.head]
    BY <2>2 DEF Decided
  <2>6. \A h \in Heads : (\A a \in todo' : a.head # h) => Good(h, level[h])'
    <3> SUFFICES ASSUME NEW h \in Heads, \A a \in todo' : a.head # h
                 PROVE  Good(h, level[h])'
      OBVIOUS
    <3>1. NewLevel(h, tiers[h]) = level[h]
      <4> DEFINE r == [head |-> h, level |-> NewLevel(h, tiers[h]), prev |-> level[h]]
      <4>1. NewLevel(h, tiers[h]) # level[h] => r \in todo'
        BY <2>2 DEF Decided
      <4>2. r.head = h
        OBVIOUS
      <4> QED
        BY <4>1, <4>2
    <3>2. level'[h] = level[h]
      BY <2>2, <3>1
    <3>3. Good(h, level[h])
      BY <2>4
    <3> QED
      BY <2>3, <3>2, <3>3
  <2>7. \A h \in Heads : Good(h, db.alert_levels.level[h])'
    <3> SUFFICES ASSUME NEW h \in Heads
                 PROVE  Good(h, db.alert_levels.level[h])'
      OBVIOUS
    <3>1. db'.alert_levels.level[h] = level[h] /\ Good(h, level[h])
      BY <2>2, <2>4
    <3> QED
      BY <2>3, <3>1
  <2> QED
    BY <2>2, <2>5, <2>6, <2>7 DEF CloudInv
<1>2. CASE queue_alert
  <2>1. PICK a \in todo : /\ queue' = Append(queue, cap_message(a)) /\ todo' = todo \ {a}
                          /\ forgotten' = [forgotten EXCEPT ![a.head] = FALSE]
    BY <1>2 DEF queue_alert
  <2>2. pc = "queue" /\ pc' = "queue" /\ UNCHANGED <<level, cloud, fresh, db>>
    BY <1>2 DEF queue_alert, mem_vars
  <2>3. /\ a \in Alert /\ cap_message(a) \in Cap /\ cap_message(a).event = a.head
        /\ CapLevel(cap_message(a)) = a.level /\ a.level = level[a.head]
    BY CapRoundTrip DEF TypeInv, TypeOK, CloudInv
  <2>4. Good(a.head, level[a.head])'
    <3>1. Told(cap_message(a).event, CapLevel(cap_message(a)))'
      BY <2>1, <2>2, <2>3, ToldAppend
    <3> QED
      BY <2>2, <2>3, <3>1 DEF Good
  <2>5. \A h \in Heads, l \in Levels : h # a.head /\ Good(h, l) => Good(h, l)'
    <3> SUFFICES ASSUME NEW h \in Heads, NEW l \in Levels, h # a.head, Good(h, l)
                 PROVE  Good(h, l)'
      OBVIOUS
    <3>1. Told(h, l) => Told(h, l)'
      BY <2>1, <2>2, <2>3, ToldAppend
    <3>2. forgotten'[h] = forgotten[h]
      BY <2>1 DEF TypeInv, TypeOK
    <3> QED
      BY <3>1, <3>2 DEF Good
  <2>6. \A h \in Heads : level[h] \in Levels /\ db.alert_levels.level[h] \in Levels
    BY DEF TypeInv, TypeOK, LevelRow
  <2>7. \A h \in Heads : (\A b \in todo' : b.head # h) => Good(h, level[h])'
    <3> SUFFICES ASSUME NEW h \in Heads, \A b \in todo' : b.head # h
                 PROVE  Good(h, level[h])'
      OBVIOUS
    <3>1. CASE h = a.head
      BY <2>4, <3>1
    <3>2. CASE h # a.head
      <4>1. Good(h, level[h])
        BY <2>1, <3>2 DEF CloudInv
      <4>2. level'[h] = level[h]
        BY <2>2
      <4> QED
        BY <2>5, <2>6, <3>2, <4>1, <4>2
    <3> QED
      BY <3>1, <3>2
  <2>8. \A h \in Heads : (\A b \in fresh' \ todo' : b.head # h) => Good(h, db.alert_levels.level[h])'
    <3> SUFFICES ASSUME NEW h \in Heads, \A b \in fresh' \ todo' : b.head # h
                 PROVE  Good(h, db.alert_levels.level[h])'
      OBVIOUS
    <3>1. a \in fresh' \ todo' /\ fresh \ todo \subseteq fresh' \ todo'
      BY <2>1, <2>2 DEF TodoInv
    <3>2. h # a.head /\ \A b \in fresh \ todo : b.head # h
      BY <3>1
    <3>3. Good(h, db.alert_levels.level[h])
      BY <2>2, <3>2 DEF CloudInv, Undecided
    <3>4. db'.alert_levels.level[h] = db.alert_levels.level[h]
      BY <2>2
    <3> QED
      BY <2>5, <2>6, <3>2, <3>3, <3>4
  <2>9. \A b \in todo' : b.level = level'[b.head]
    BY <2>1, <2>2 DEF CloudInv
  <2> QED
    BY <2>2, <2>7, <2>8, <2>9 DEF CloudInv
<1>3. CASE PostTaken \/ PostTakenUnanswered
  <2>1. /\ pc = "flush" /\ queue # <<>> /\ Received(queue[1]) /\ UNCHANGED <<level, todo, queue, forgotten>>
        /\ pc' \in {"mark", "idle"}
    BY <1>3, Zenon DEF PostTaken, PostTakenUnanswered, NextToPost, mem_vars, lost_vars
  <2>2. todo = {} /\ \A h \in Heads : Good(h, level[h])
    BY <2>1 DEF CloudInv
  <2>3. \A h \in Heads : Good(h, level[h])'
    <3> SUFFICES ASSUME NEW h \in Heads
                 PROVE  Good(h, level[h])'
      OBVIOUS
    <3>1. Told(h, level[h]) => Told(h, level[h])'
      <4>1. Told(h, level[h]) => Told(h, level[h])' \/ level'[h] # level[h]
        BY <2>1, ToldReceived
      <4> QED
        BY <2>1, <4>1
    <3> QED
      BY <2>1, <2>2, <3>1 DEF Good
  <2>4. queue[1] \in Cap
    BY <2>1 DEF TypeInv, TypeOK
  <2>5. cloud'[queue[1].event] = CapLevel(queue[1])
    BY <2>1, <2>4, CapTypes DEF Received, TypeInv, TypeOK
  <2> QED
    BY <2>1, <2>2, <2>3, <2>5 DEF CloudInv, Undecided
<1>4. CASE mark_sent
  <2>1. /\ pc = "mark" /\ queue # <<>> /\ queue' = Tail(queue) /\ UNCHANGED <<level, todo, cloud, forgotten>>
        /\ pc' = "flush" /\ cloud[queue[1].event] = CapLevel(queue[1])
    BY <1>4 DEF mark_sent, mem_vars, lost_vars, CloudInv, TypeInv
  <2>2. todo = {} /\ \A h \in Heads : Good(h, level[h])
    BY <2>1 DEF CloudInv
  <2>3. \A h \in Heads : Good(h, level[h])'
    <3> SUFFICES ASSUME NEW h \in Heads
                 PROVE  Good(h, level[h])'
      OBVIOUS
    <3>1. Told(h, level[h]) => Told(h, level[h])'
      <4>1. Told(h, level[h]) => Told(h, level[h])' \/ level'[h] # level[h]
        BY <2>1, ToldMarked
      <4> QED
        BY <2>1, <4>1
    <3> QED
      BY <2>1, <2>2, <3>1 DEF Good
  <2> QED
    BY <2>1, <2>2, <2>3 DEF CloudInv, Undecided
<1>5. CASE Crash
  <2>1. /\ level' = db.alert_levels.level /\ UNCHANGED <<queue, cloud>> /\ todo' = {} /\ pc' = "boot"
        /\ \A h \in Heads : forgotten'[h] = (forgotten[h] \/ (pc \in Undecided /\ \E a \in fresh \ todo : a.head = h))
    BY <1>5 DEF Crash, import_levels
  <2>2. \A h, l : Told(h, l) => Told(h, l)'
    BY <2>1 DEF Told
  <2>3. ASSUME NEW h \in Heads
        PROVE  Good(h, level[h])'
    <3>1. CASE pc \in Undecided /\ \E a \in fresh \ todo : a.head = h
      BY <2>1, <3>1 DEF Good
    <3>2. CASE pc \in Undecided /\ \A a \in fresh \ todo : a.head # h
      <4>1. Good(h, db.alert_levels.level[h])
        BY <3>2 DEF CloudInv
      <4> QED
        BY <2>1, <2>2, <4>1 DEF Good
    <3>3. CASE pc \notin Undecided
      <4>1. db.alert_levels.level = level /\ Good(h, level[h])
        BY <3>3 DEF PersistInv, CloudInv, Undecided
      <4> QED
        BY <2>1, <2>2, <4>1 DEF Good
    <3> QED
      BY <3>1, <3>2, <3>3
  <2> QED
    BY <2>1, <2>3 DEF CloudInv, Undecided
<1>6. CASE \/ UNCHANGED vars
           \/ QueueDone \/ drive_siren \/ PersistLevels \/ duty_update \/ PersistDuty
           \/ PostFails \/ FlushDone \/ SirenExpires
  <2>1. /\ UNCHANGED <<level, queue, cloud, todo, fresh, forgotten>>
        /\ pc' = pc \/ (pc' # "mark" /\ (todo = {} \/ pc # "queue"))
        /\ (pc' \in Undecided => pc \in Undecided /\ db' = db)
    BY <1>6
    DEF vars, mem_vars, lost_vars, QueueDone, drive_siren, PersistLevels, duty_update, PersistDuty, PostFails,
        FlushDone, SirenExpires, Undecided
  <2>2. \A h, l : Good(h, l) => Good(h, l)'
    BY <2>1 DEF Good, Told
  <2>3. \A h \in Heads : (\A a \in todo' : a.head # h) => Good(h, level[h])'
    <3> SUFFICES ASSUME NEW h \in Heads, \A a \in todo' : a.head # h
                 PROVE  Good(h, level[h])'
      OBVIOUS
    <3>1. Good(h, level[h]) /\ level'[h] = level[h]
      BY <2>1 DEF CloudInv
    <3> QED
      BY <2>2, <3>1
  <2>4. pc' \in Undecided =>
          \A h \in Heads : (\A a \in fresh' \ todo' : a.head # h) => Good(h, db.alert_levels.level[h])'
    <3> SUFFICES ASSUME pc' \in Undecided, NEW h \in Heads, \A a \in fresh' \ todo' : a.head # h
                 PROVE  Good(h, db.alert_levels.level[h])'
      OBVIOUS
    <3>1. Good(h, db.alert_levels.level[h]) /\ db' = db
      BY <2>1 DEF CloudInv
    <3> QED
      BY <2>2, <3>1
  <2> QED
    BY <2>1, <2>3, <2>4 DEF CloudInv
<1> QED
  BY Steps, <1>1, <1>2, <1>3, <1>4, <1>5, <1>6

\* Through crashes at any place the server's view of a head is the node's once the
\* queue is flushed after a cycle, whatever was posted twice, failed or was lost
\* before, unless a crash made the node forget the level of an alert it had queued and
\* the head has had no alert since (flush_alerts, queue_alert, mark_sent, node.py:185-189
\* and the restart from the ring buffer).
THEOREM CloudTheorem == Spec => []CloudAgreesUnlessForgotten
<1>1. Init => PersistInv /\ TodoInv /\ CloudInv
  BY DEF Init, PersistInv, TodoInv, CloudInv, Told, Good, Undecided
<1>2. TypeInv /\ CloudInv => CloudAgreesUnlessForgotten
  <2> SUFFICES ASSUME TypeInv, CloudInv, pc = "idle", queue = <<>>, NEW h \in Heads
               PROVE  cloud[h] = level[h] \/ forgotten[h]
    BY DEF CloudAgreesUnlessForgotten
  <2>1. Good(h, level[h])
    BY DEF CloudInv
  <2> QED
    BY <2>1 DEF Told, Good
<1> QED
  BY <1>1, <1>2, PersistStep, TodoStep, CloudStep, TypeHolds, PTL DEF Spec
=============================================================================
