-------------------------- MODULE HeadWindowProofs --------------------------
(***************************************************************************)
(* Proofs about HeadWindow: its types, that the increments of the rain     *)
(* counter never exceed what fell, and that the window shows the model the *)
(* channels that training would have shown it.                             *)
(*                                                                         *)
(* The last one has three parts.  On one series, each operation of the     *)
(* head node gives the same observed hours as the operation of training it *)
(* replaces.  Each operation looks back a fixed number of hours, so that   *)
(* what it gives on the grid agrees with what it gives on the record once  *)
(* the grid reaches that far back; the leads add up to the history ahead   *)
(* of the window plus one hour.  And the ring buffer keeps, of the hours   *)
(* the grid reaches, all that was ever stored.                             *)
(***************************************************************************)
EXTENDS HeadWindow, NaturalLemmas, FiniteSetTheorems

-----------------------------------------------------------------------------
(* Types *)

\* The tables of sources by hour, without the rain counter.
RowsOK ==
    /\ pc \in {"report", "cycle", "housekeeping"}
    /\ hour \in Hour
    /\ cycles \in 0 .. PruneEvery - 1
    /\ db \in [Hour -> SUBSET Source] /\ record \in [Hour -> SUBSET Source]

\* The rain counter and the rain that fell.
RainOK ==
    /\ counter \in Nat /\ fallen \in Nat
    /\ counter_db \in [Hour -> Nat \union {Missing}]
    /\ fallen_db \in [Hour -> Nat]

LEMMA RowsInit == Init => RowsOK
<1> SUFFICES ASSUME Init
             PROVE  RowsOK
  OBVIOUS
<1>1. 1 \in Hour /\ 0 \in 0 .. PruneEvery - 1
  BY WindowAssumption DEF Hour
<1> QED
  BY <1>1 DEF Init, RowsOK

LEMMA RowsStep == RowsOK /\ [Next]_vars => RowsOK'
<1> SUFFICES ASSUME RowsOK, [Next]_vars
             PROVE  RowsOK'
  OBVIOUS
<1>h. hour \in Int /\ \A h \in Hour : h \in Int
  BY WindowAssumption DEF RowsOK, Hour
<1>1. ASSUME NEW answered \in SUBSET InSitu, NEW rain, NEW restarts, Sweep(answered, rain, restarts)
      PROVE  RowsOK'
  <2>1. answered \in SUBSET Source
    BY DEF InSitu
  <2>2. db' \in [Hour -> SUBSET Source] /\ record' \in [Hour -> SUBSET Source]
    BY <1>1, <2>1 DEF Sweep, put_readings, RowsOK
  <2>4. pc' = "cycle" /\ hour' = hour /\ cycles' = cycles
    BY <1>1 DEF Sweep
  <2> QED
    BY <2>2, <2>4 DEF RowsOK
<1>2. ASSUME NEW k \in Hour, PollContext(k)
      PROVE  RowsOK'
  <2>1. {"context"} \in SUBSET Source
    BY WindowAssumption
  <2>2. db' \in [Hour -> SUBSET Source] /\ record' \in [Hour -> SUBSET Source]
    BY <1>2, <2>1 DEF PollContext, put_context, RowsOK
  <2>4. pc' = "housekeeping" /\ hour' = hour /\ cycles' = cycles
    BY <1>2 DEF PollContext
  <2> QED
    BY <2>2, <2>4 DEF RowsOK
<1>3. CASE NoContext
  BY <1>3 DEF NoContext, RowsOK
<1>4. ASSUME NEW whole, NEW dt \in 0 .. 1, Housekeeping(whole, dt)
      PROVE  RowsOK'
  <2>1. db' \in [Hour -> SUBSET Source] /\ record' = record
    BY <1>4 DEF Housekeeping, RowsOK
  <2>3. hour' \in Hour
    BY <1>h, <1>4 DEF Housekeeping
  <2>5. cycles' \in 0 .. PruneEvery - 1
    BY <1>4, WindowAssumption DEF Housekeeping, RowsOK
  <2>6. pc' = "report"
    BY <1>4 DEF Housekeeping
  <2> QED
    BY <2>1, <2>3, <2>5, <2>6 DEF RowsOK
<1>5. CASE Reboot
  <2>1. 0 \in 0 .. PruneEvery - 1
    BY WindowAssumption
  <2> QED
    BY <1>5, <2>1 DEF Reboot, RowsOK
<1>6. CASE UNCHANGED vars
  BY <1>6 DEF vars, RowsOK
<1> QED
  BY <1>1, <1>2, <1>3, <1>4, <1>5, <1>6 DEF Next

\* What a sweep does to the gauge, and that nothing else moves it.
LEMMA CounterSteps ==
    ASSUME NEW answered, NEW rain \in Rain \union {0}, NEW restarts \in BOOLEAN,
           Sweep(answered, rain, restarts), counter \in Nat
    PROVE  /\ rain \in Nat /\ counter' \in Nat
           /\ counter' \in 0 .. rain \/ counter' = counter + rain
           /\ fallen' = fallen + rain /\ hour' = hour
           /\ \/ UNCHANGED <<counter_db, fallen_db>>
              \/ /\ counter_db' = [counter_db EXCEPT ![hour] = counter']
                 /\ fallen_db' = [fallen_db EXCEPT ![hour] = fallen']
<1>1. rain \in Nat
  BY WindowAssumption
<1>2. counter' \in 0 .. rain \/ counter' = counter + rain
  BY DEF Sweep, CounterAfter
<1>3. counter' \in Nat
  BY <1>1, <1>2
<1>4. fallen' = fallen + rain /\ hour' = hour
  BY DEF Sweep
<1>5. \/ UNCHANGED <<counter_db, fallen_db>>
      \/ /\ counter_db' = [counter_db EXCEPT ![hour] = counter']
         /\ fallen_db' = [fallen_db EXCEPT ![hour] = fallen']
  BY DEF Sweep
<1> QED
  BY <1>1, <1>2, <1>3, <1>4, <1>5

\* The other steps leave the gauge alone; a prune drops readings.
LEMMA OtherSteps ==
    ASSUME [Next]_vars, RowsOK,
           ~ \E answered \in SUBSET InSitu, rain \in Rain \union {0}, restarts \in BOOLEAN :
                  Sweep(answered, rain, restarts)
    PROVE  /\ counter' = counter /\ fallen' = fallen /\ fallen_db' = fallen_db
           /\ hour' \in Hour /\ hour' >= hour
           /\ \/ counter_db' = counter_db
              \/ \E old : counter_db' =
                     [h \in Hour |-> IF h \in old THEN Missing ELSE counter_db[h]]
<1>h. hour \in Int /\ hour \in Hour /\ \A h \in Hour : h \in Int
  BY WindowAssumption DEF RowsOK, Hour
<1>1. CASE \E h \in Hour : PollContext(h)
  BY <1>1, <1>h DEF PollContext
<1>2. CASE NoContext \/ Reboot \/ UNCHANGED vars
  BY <1>2, <1>h DEF NoContext, Reboot, vars
<1>3. ASSUME NEW whole \in BOOLEAN, NEW dt \in 0 .. 1, Housekeeping(whole, dt)
      PROVE  /\ counter' = counter /\ fallen' = fallen /\ fallen_db' = fallen_db
             /\ hour' \in Hour /\ hour' >= hour
             /\ \E old : counter_db' = [h \in Hour |-> IF h \in old THEN Missing ELSE counter_db[h]]
  <2>1. counter' = counter /\ fallen' = fallen /\ fallen_db' = fallen_db
    BY <1>3 DEF Housekeeping
  <2>2. hour' \in Hour /\ hour' >= hour
    BY <1>3, <1>h DEF Housekeeping
  <2>3. \E old : counter_db' = [h \in Hour |-> IF h \in old THEN Missing ELSE counter_db[h]]
    BY <1>3, Zenon DEF Housekeeping
  <2> QED
    BY <2>1, <2>2, <2>3
<1> QED
  BY <1>1, <1>2, <1>3 DEF Next

LEMMA RainTypeStep == RowsOK /\ RainOK /\ [Next]_vars => RainOK'
<1> SUFFICES ASSUME RowsOK, RainOK, [Next]_vars
             PROVE  RainOK'
  OBVIOUS
<1>1. CASE \E answered \in SUBSET InSitu, rain \in Rain \union {0}, restarts \in BOOLEAN :
               Sweep(answered, rain, restarts)
  <2>1. PICK answered \in SUBSET InSitu, rain \in Rain \union {0}, restarts \in BOOLEAN :
                Sweep(answered, rain, restarts)
    BY <1>1
  <2>2. /\ rain \in Nat /\ counter' \in Nat /\ fallen' = fallen + rain
        /\ \/ UNCHANGED <<counter_db, fallen_db>>
           \/ /\ counter_db' = [counter_db EXCEPT ![hour] = counter']
              /\ fallen_db' = [fallen_db EXCEPT ![hour] = fallen']
    BY <2>1, CounterSteps DEF RainOK
  <2>3. fallen' \in Nat
    BY <2>2 DEF RainOK
  <2> QED
    BY <2>2, <2>3 DEF RainOK, RowsOK
<1>2. CASE ~ \E answered \in SUBSET InSitu, rain \in Rain \union {0}, restarts \in BOOLEAN :
                  Sweep(answered, rain, restarts)
  BY <1>2, OtherSteps DEF RainOK
<1> QED
  BY <1>1, <1>2

\* Every variable stays in its type, whatever the sources, the spans, the amounts of
\* rain and the times the server gives its vectors (put_readings, put_context, prune).
THEOREM WindowTypes == Spec => []WindowTypeOK
<1>1. Init => RowsOK /\ RainOK
  <2>1. Init => RainOK
    BY DEF Init, RainOK
  <2> QED
    BY <2>1, RowsInit
<1>2. RowsOK /\ RainOK /\ [Next]_vars => (RowsOK /\ RainOK)'
  BY RowsStep, RainTypeStep
<1>3. RowsOK /\ RainOK => WindowTypeOK
  BY DEF RowsOK, RainOK, WindowTypeOK
<1> QED
  BY <1>1, <1>2, <1>3, PTL DEF Spec
-----------------------------------------------------------------------------
(* The rain counter *)

\* Of every reading in the buffer: the step from it to what the gauge shows now is
\* at most what fell since.  Hours to come have no reading.
StepsToNow ==
    \A h \in Hour :
        /\ counter_db[h] # Missing =>
               rain_step(counter_db[h], counter) \in 0 .. fallen - fallen_db[h]
        /\ h > hour => counter_db[h] = Missing

\* A step that is at most what fell stays so when more falls, whether the gauge
\* adds it to its count or starts again from zero.
LEMMA StepGrows ==
    ASSUME NEW prev \in Nat, NEW now \in Nat, NEW after \in Nat, NEW rain \in Nat,
           NEW f \in Nat, NEW f0 \in Nat,
           rain_step(prev, now) \in 0 .. f - f0,
           after \in 0 .. rain \/ after = now + rain
    PROVE  rain_step(prev, after) \in 0 .. (f + rain) - f0
  BY DEF rain_step

\* A reading is no step away from itself.
LEMMA StepFromNow ==
    ASSUME NEW c \in Nat, NEW f \in Nat
    PROVE  rain_step(c, c) \in 0 .. f - f
  BY DEF rain_step

LEMMA StepsInit == Init => StepsToNow /\ RainIsNeverInvented
<1> SUFFICES ASSUME Init
             PROVE  StepsToNow /\ RainIsNeverInvented
  OBVIOUS
<1>1. \A h \in Hour : counter_db[h] = Missing
  BY DEF Init
<1>2. \A h \in 2 .. MaxHours : h \in Hour
  BY WindowAssumption DEF Hour
<1> QED
  BY <1>1, <1>2 DEF StepsToNow, RainIsNeverInvented

LEMMA StepsStep ==
    RowsOK /\ RainOK /\ StepsToNow /\ RainIsNeverInvented /\ [Next]_vars
        => StepsToNow' /\ RainIsNeverInvented'
<1> SUFFICES ASSUME RowsOK, RainOK, StepsToNow, RainIsNeverInvented, [Next]_vars
             PROVE  StepsToNow' /\ RainIsNeverInvented'
  OBVIOUS
<1>h. hour \in Hour /\ hour \in Nat /\ \A h \in Hour : h \in Nat
  BY WindowAssumption DEF RowsOK, Hour
<1>p. \A h \in 2 .. MaxHours : h \in Hour /\ h - 1 \in Hour
  BY WindowAssumption DEF Hour
<1>n. \A h \in Hour : counter_db[h] # Missing => counter_db[h] \in Nat
  BY DEF RainOK
<1>1. CASE \E answered \in SUBSET InSitu, rain \in Rain \union {0}, restarts \in BOOLEAN :
               Sweep(answered, rain, restarts)
  <2>1. PICK answered \in SUBSET InSitu, rain \in Rain \union {0}, restarts \in BOOLEAN :
                Sweep(answered, rain, restarts)
    BY <1>1
  <2>2. /\ rain \in Nat /\ counter' \in Nat /\ fallen' = fallen + rain /\ hour' = hour
        /\ counter' \in 0 .. rain \/ counter' = counter + rain
        /\ \/ UNCHANGED <<counter_db, fallen_db>>
           \/ /\ counter_db' = [counter_db EXCEPT ![hour] = counter']
              /\ fallen_db' = [fallen_db EXCEPT ![hour] = fallen']
    BY <2>1, CounterSteps DEF RainOK
  <2>3. \A h \in Hour : counter_db[h] # Missing =>
            rain_step(counter_db[h], counter') \in 0 .. fallen' - fallen_db[h]
    <3> SUFFICES ASSUME NEW h \in Hour, counter_db[h] # Missing
                 PROVE  rain_step(counter_db[h], counter') \in 0 .. (fallen + rain) - fallen_db[h]
      BY <2>2
    <3>1. counter \in Nat /\ fallen \in Nat /\ fallen_db[h] \in Nat /\ counter_db[h] \in Nat
      BY <1>n DEF RainOK
    <3>2. rain_step(counter_db[h], counter) \in 0 .. fallen - fallen_db[h]
      BY DEF StepsToNow
    <3> QED
      BY <2>2, <3>1, <3>2, StepGrows
  <2>4. CASE UNCHANGED <<counter_db, fallen_db>>
    <3>1. StepsToNow'
      BY <2>2, <2>3, <2>4 DEF StepsToNow
    <3>2. RainIsNeverInvented'
      BY <2>4 DEF RainIsNeverInvented
    <3> QED
      BY <3>1, <3>2
  <2>5. CASE /\ counter_db' = [counter_db EXCEPT ![hour] = counter']
             /\ fallen_db' = [fallen_db EXCEPT ![hour] = fallen']
    <3>1. /\ counter_db'[hour] = counter' /\ fallen_db'[hour] = fallen'
          /\ \A h \in Hour :
                 h # hour => counter_db'[h] = counter_db[h] /\ fallen_db'[h] = fallen_db[h]
      BY <1>h, <2>5 DEF RainOK
    <3>2. rain_step(counter', counter') \in 0 .. fallen' - fallen'
      <4>1. fallen' \in Nat
        BY <2>2 DEF RainOK
      <4> QED
        BY <2>2, <4>1, StepFromNow
    <3>3. StepsToNow'
      <4> SUFFICES ASSUME NEW h \in Hour
                   PROVE  /\ counter_db'[h] # Missing =>
                                 rain_step(counter_db'[h], counter') \in 0 .. fallen' - fallen_db'[h]
                          /\ h > hour => counter_db'[h] = Missing
        BY <2>2 DEF StepsToNow
      <4>1. CASE h = hour
        BY <1>h, <3>1, <3>2, <4>1
      <4>2. CASE h # hour
        BY <2>3, <3>1, <4>2 DEF StepsToNow
      <4> QED
        BY <4>1, <4>2
    <3>4. RainIsNeverInvented'
      <4> SUFFICES ASSUME NEW h \in 2 .. MaxHours,
                          counter_db'[h] # Missing, counter_db'[h - 1] # Missing
                   PROVE  rain_step(counter_db'[h - 1], counter_db'[h])
                              \in 0 .. fallen_db'[h] - fallen_db'[h - 1]
        BY DEF RainIsNeverInvented
      <4>1. h \in Hour /\ h - 1 \in Hour /\ h \in Nat
        BY <1>p, <1>h
      <4>2. CASE h = hour
        <5>1. h - 1 # hour
          BY <4>1, <4>2
        <5>2. counter_db'[h - 1] = counter_db[h - 1] /\ fallen_db'[h - 1] = fallen_db[h - 1]
          BY <3>1, <4>1, <5>1
        <5>3. counter_db'[h] = counter' /\ fallen_db'[h] = fallen'
          BY <3>1, <4>2
        <5> QED
          BY <2>3, <4>1, <5>2, <5>3
      <4>3. CASE h - 1 = hour
        <5>1. h > hour /\ h # hour
          BY <1>h, <4>1, <4>3
        <5> QED
          BY <3>1, <4>1, <5>1 DEF StepsToNow
      <4>4. CASE h # hour /\ h - 1 # hour
        BY <3>1, <4>1, <4>4 DEF RainIsNeverInvented
      <4> QED
        BY <4>2, <4>3, <4>4
    <3> QED
      BY <3>3, <3>4
  <2> QED
    BY <2>2, <2>4, <2>5
<1>2. CASE ~ \E answered \in SUBSET InSitu, rain \in Rain \union {0}, restarts \in BOOLEAN :
                  Sweep(answered, rain, restarts)
  <2>1. /\ counter' = counter /\ fallen' = fallen /\ fallen_db' = fallen_db
        /\ hour' \in Hour /\ hour' >= hour
    BY <1>2, OtherSteps
  <2>2. \A h \in Hour : counter_db'[h] = counter_db[h] \/ counter_db'[h] = Missing
    BY <1>2, OtherSteps
  <2>3. \A h \in Hour : h > hour' => h > hour
    BY <1>h, <2>1
  <2>4. StepsToNow'
    BY <2>1, <2>2, <2>3 DEF StepsToNow
  <2>5. RainIsNeverInvented'
    BY <1>p, <2>1, <2>2 DEF RainIsNeverInvented
  <2> QED
    BY <2>4, <2>5
<1> QED
  BY <1>1, <1>2

\* No rain is invented: whatever falls, whenever the pod's counter restarts and
\* whichever sweeps are lost or rows pruned, the increment between two readings of
\* the buffer is at most what fell between them (rain_increment).
THEOREM RainTheorem == Spec => []RainIsNeverInvented
<1>1. Init => RowsOK /\ RainOK /\ StepsToNow /\ RainIsNeverInvented
  <2>1. Init => RainOK
    BY DEF Init, RainOK
  <2> QED
    BY <2>1, RowsInit, StepsInit
<1>2. RowsOK /\ RainOK /\ StepsToNow /\ RainIsNeverInvented /\ [Next]_vars
        => (RowsOK /\ RainOK /\ StepsToNow /\ RainIsNeverInvented)'
  BY RowsStep, RainTypeStep, StepsStep
<1> QED
  BY <1>1, <1>2, PTL DEF Spec
-----------------------------------------------------------------------------
(* The series operations of the head node against those of training *)

Series(n) == [1 .. n -> BOOLEAN]

\* Two series with the same observed hours are the same.
LEMMA SameSeries ==
    ASSUME NEW N \in Nat, NEW x \in Series(N), NEW y \in Series(N),
           \A i \in 1 .. N : x[i] <=> y[i]
    PROVE  x = y
<1>1. \A i \in 1 .. N : x[i] = y[i]
  BY DEF Series
<1> QED
  BY <1>1 DEF Series

\* A window of n hours has n observations just if it lies in the series and every
\* hour of it is observed.
LEMMA FullWindow ==
    ASSUME NEW N \in Nat, NEW x \in Series(N), NEW i \in 1 .. N, NEW n \in Nat \ {0}
    PROVE  Finite(x, i - n + 1, i) >= n <=> i >= n /\ \A k \in i - n + 1 .. i : x[k]
<1> DEFINE W == i - n + 1 .. i
           T == {j \in DOMAIN x : i - n + 1 <= j /\ j <= i /\ x[j]}
<1>1. IsFiniteSet(W) /\ Cardinality(W) = n
  <2>1. i - n + 1 \in Int /\ i \in Int /\ ~(i - n + 1 > i) /\ i - (i - n + 1) + 1 = n
    OBVIOUS
  <2> QED
    BY <2>1, FS_Interval
<1>2. T \subseteq W /\ DOMAIN x = 1 .. N
  BY DEF Series
<1>3. IsFiniteSet(T) /\ Cardinality(T) <= Cardinality(W)
      /\ (Cardinality(W) = Cardinality(T) => W = T)
  BY <1>1, <1>2, FS_Subset
<1>4. Cardinality(T) \in Nat
  BY <1>3, FS_CardinalityType
<1> HIDE DEF T, W
<1>5. Cardinality(T) >= n <=> T = W
  BY <1>1, <1>3, <1>4
<1> USE DEF T, W
<1>6. T = W => i >= n /\ \A k \in W : x[k]
  <2> SUFFICES ASSUME T = W
               PROVE  i >= n /\ \A k \in W : x[k]
    OBVIOUS
  <2>1. i - n + 1 \in W
    OBVIOUS
  <2>2. i - n + 1 \in 1 .. N
    BY <1>2, <2>1
  <2>3. \A k \in W : x[k]
    OBVIOUS
  <2> QED
    BY <2>2, <2>3
<1>7. i >= n /\ (\A k \in W : x[k]) => T = W
  <2> SUFFICES ASSUME i >= n, \A k \in W : x[k]
               PROVE  \A k \in W : k \in T
    BY <1>2
  <2>1. \A k \in W : k \in 1 .. N /\ i - n + 1 <= k /\ k <= i
    OBVIOUS
  <2> QED
    BY <1>2, <2>1
<1> HIDE DEF T, W
<1>8. Finite(x, i - n + 1, i) = Cardinality(T)
  BY DEF Finite, T
<1> QED
  BY <1>5, <1>6, <1>7, <1>8 DEF W

LEMMA RollType ==
    ASSUME NEW N \in Nat, NEW x \in Series(N), NEW n \in Nat \ {0}
    PROVE  strict_roll(x, n) \in Series(N)
  BY DEF strict_roll, Series

\* The head node's decayed sum is observed at the same hours as training's, and
\* both where the whole window is (decayed_sum, ref_decayed_sum).
LEMMA DecayedSums ==
    ASSUME NEW N \in Nat, NEW x \in Series(N), NEW n \in Nat \ {0}
    PROVE  decayed_sum(x, n) = strict_roll(x, n) /\ ref_decayed_sum(x, n) = strict_roll(x, n)
<1>m. min_periods(n) = n
  BY MaxOfTwo DEF min_periods
<1>d. DOMAIN x = 1 .. N
  BY DEF Series
<1>1. \A i \in 1 .. N : strict_roll(x, n)[i] <=> i >= n /\ \A k \in i - n + 1 .. i : x[k]
  BY <1>d DEF strict_roll
<1>2. decayed_sum(x, n) \in Series(N) /\ ref_decayed_sum(x, n) \in Series(N)
  BY <1>d DEF decayed_sum, ref_decayed_sum, Series
<1>3. \A i \in 1 .. N : decayed_sum(x, n)[i] <=> Finite(x, i - n + 1, i) >= n /\ i >= n
  BY <1>d DEF decayed_sum
<1>4. \A i \in 1 .. N : ref_decayed_sum(x, n)[i] <=> i > n - 1 /\ Finite(x, i - n + 1, i) >= n
  BY <1>d, <1>m DEF ref_decayed_sum
<1>5. \A i \in 1 .. N : decayed_sum(x, n)[i] <=> strict_roll(x, n)[i]
  BY <1>1, <1>3, FullWindow
<1>6. \A i \in 1 .. N : ref_decayed_sum(x, n)[i] <=> strict_roll(x, n)[i]
  <2>1. \A i \in 1 .. N : i > n - 1 <=> i >= n
    OBVIOUS
  <2> QED
    BY <1>1, <1>4, <2>1, FullWindow
<1> QED
  BY <1>2, <1>5, <1>6, RollType, SameSeries

\* So are the medians of the tilt (strict_roll, ref_roll).
LEMMA Rolls ==
    ASSUME NEW N \in Nat, NEW x \in Series(N), NEW n \in Nat \ {0}
    PROVE  ref_roll(x, n) = strict_roll(x, n)
<1>m. min_periods(n) = n
  BY MaxOfTwo DEF min_periods
<1>d. DOMAIN x = 1 .. N
  BY DEF Series
<1>1. \A i \in 1 .. N : strict_roll(x, n)[i] <=> i >= n /\ \A k \in i - n + 1 .. i : x[k]
  BY <1>d DEF strict_roll
<1>2. ref_roll(x, n) \in Series(N)
  BY <1>d DEF ref_roll, Series
<1>3. \A i \in 1 .. N : ref_roll(x, n)[i] <=> Finite(x, i - n + 1, i) >= n
  BY <1>d, <1>m DEF ref_roll
<1>4. \A i \in 1 .. N : ref_roll(x, n)[i] <=> strict_roll(x, n)[i]
  BY <1>1, <1>3, FullWindow
<1> QED
  BY <1>2, <1>4, RollType, SameSeries

\* What the counter of warm hours is after hour i: one more than before, or zero.
WarmStep(x, f, n) ==
    f = [i \in 0 .. n |-> IF i = 0 THEN 0 ELSE IF x[i] THEN f[i - 1] + 1 ELSE 0]

\* The counter is defined for every length of the series.
LEMMA WarmExists ==
    ASSUME NEW x, NEW N \in Nat
    PROVE  \E f : WarmStep(x, f, N)
<1> DEFINE L == {n \in Nat : \E f : WarmStep(x, f, n)}
<1>1. 0 \in L
  <2> DEFINE f == [i \in 0 .. 0 |-> 0]
  <2>1. f = [i \in 0 .. 0 |-> IF i = 0 THEN 0 ELSE IF x[i] THEN f[i - 1] + 1 ELSE 0]
    OBVIOUS
  <2> HIDE DEF f
  <2> QED
    BY <2>1 DEF WarmStep
<1>2. ASSUME NEW n \in Nat, n \in L
      PROVE  n + 1 \in L
  <2>1. PICK f : WarmStep(x, f, n)
    BY <1>2
  <2> DEFINE g == [i \in 0 .. n + 1 |-> IF i <= n THEN f[i] ELSE IF x[i] THEN f[n] + 1 ELSE 0]
  <2>2. \A i \in 0 .. n : f[i] = IF i = 0 THEN 0 ELSE IF x[i] THEN f[i - 1] + 1 ELSE 0
    BY <2>1 DEF WarmStep
  <2>3. \A i \in 0 .. n + 1 : g[i] = IF i = 0 THEN 0 ELSE IF x[i] THEN g[i - 1] + 1 ELSE 0
    <3> SUFFICES ASSUME NEW i \in 0 .. n + 1
                 PROVE  g[i] = IF i = 0 THEN 0 ELSE IF x[i] THEN g[i - 1] + 1 ELSE 0
      OBVIOUS
    <3>1. CASE i <= n
      <4>1. i \in 0 .. n /\ (i # 0 => i - 1 \in 0 .. n)
        BY <3>1
      <4>2. g[i] = f[i] /\ (i # 0 => g[i - 1] = f[i - 1])
        BY <4>1
      <4> QED
        BY <2>2, <4>1, <4>2
    <3>2. CASE i = n + 1
      <4>1. g[n] = f[n] /\ i - 1 = n /\ i # 0 /\ ~(i <= n)
        BY <3>2
      <4> QED
        BY <4>1
    <3> QED
      BY <3>1, <3>2
  <2>4. DOMAIN g = 0 .. n + 1
    OBVIOUS
  <2>5. g = [i \in 0 .. n + 1 |-> g[i]]
    OBVIOUS
  <2> HIDE DEF g
  <2>6. g = [i \in 0 .. n + 1 |-> IF i = 0 THEN 0 ELSE IF x[i] THEN g[i - 1] + 1 ELSE 0]
    BY <2>3, <2>5
  <2>7. WarmStep(x, g, n + 1)
    BY <2>6 DEF WarmStep
  <2> QED
    BY <2>7
<1> HIDE DEF L
<1>3. Nat \subseteq L
  BY <1>1, <1>2, NaturalsByInduction
<1> QED
  BY <1>3 DEF L

LEMMA WarmDef ==
    ASSUME NEW N \in Nat, NEW x \in Series(N)
    PROVE  WarmStep(x, cascade_warm(x), N)
<1>1. DOMAIN x = 1 .. N /\ Cardinality(1 .. N) = N
  BY FS_Interval DEF Series
<1>2. cascade_warm(x) = CHOOSE f : WarmStep(x, f, N)
  BY <1>1 DEF cascade_warm, WarmStep
<1>3. \E f : WarmStep(x, f, N)
  BY WarmExists
<1> QED
  BY <1>2, <1>3, Zenon

\* The counter shows how far back the input is complete: it is above s just if the
\* last s + 1 hours are there and observed.
LEMMA WarmCounts ==
    ASSUME NEW N \in Nat, NEW x \in Series(N)
    PROVE  \A i \in 0 .. N :
               /\ cascade_warm(x)[i] \in Nat
               /\ \A s \in Nat : cascade_warm(x)[i] > s <=> i > s /\ \A k \in i - s .. i : x[k]
<1> DEFINE w == cascade_warm(x)
           Counts(i) == /\ w[i] \in Nat
                        /\ \A s \in Nat : w[i] > s <=> i > s /\ \A k \in i - s .. i : x[k]
           L == {n \in Nat : n <= N => Counts(n)}
<1> HIDE DEF w
<1>w. \A i \in 0 .. N : w[i] = IF i = 0 THEN 0 ELSE IF x[i] THEN w[i - 1] + 1 ELSE 0
  <2>1. WarmStep(x, w, N)
    BY WarmDef DEF w
  <2>2. w = [i \in 0 .. N |-> IF i = 0 THEN 0 ELSE IF x[i] THEN w[i - 1] + 1 ELSE 0]
    BY <2>1 DEF WarmStep
  <2> QED
    BY <2>2
<1>1. 0 \in L
  <2>1. w[0] = 0
    BY <1>w
  <2> QED
    BY <2>1
<1>2. ASSUME NEW n \in Nat, n \in L
      PROVE  n + 1 \in L
  <2> SUFFICES ASSUME n + 1 <= N
               PROVE  Counts(n + 1)
    OBVIOUS
  <2>1. Counts(n) /\ n + 1 \in 0 .. N /\ n + 1 # 0 /\ (n + 1) - 1 = n
    BY <1>2
  <2>2. CASE ~ x[n + 1]
    <3>1. w[n + 1] = 0
      BY <1>w, <2>1, <2>2
    <3>2. \A s \in Nat : n + 1 \in (n + 1) - s .. n + 1
      OBVIOUS
    <3> QED
      BY <2>2, <3>1, <3>2
  <2>3. CASE x[n + 1]
    <3>1. w[n + 1] = w[n] + 1
      BY <1>w, <2>1, <2>3
    <3>2. ASSUME NEW s \in Nat
          PROVE  w[n + 1] > s <=> n + 1 > s /\ \A k \in (n + 1) - s .. n + 1 : x[k]
      <4>1. CASE s = 0
        <5>1. w[n + 1] > 0 /\ n + 1 > 0
          BY <2>1, <3>1
        <5>2. \A k \in (n + 1) - 0 .. n + 1 : k = n + 1
          OBVIOUS
        <5> QED
          BY <2>3, <4>1, <5>1, <5>2
      <4>2. CASE s # 0
        <5>1. s - 1 \in Nat
          BY <4>2
        <5>2. w[n] > s - 1 <=> n > s - 1 /\ \A k \in n - (s - 1) .. n : x[k]
          BY <2>1, <5>1
        <5>3. w[n + 1] > s <=> w[n] > s - 1
          BY <2>1, <3>1, <5>1
        <5>4. n > s - 1 <=> n + 1 > s
          BY <5>1
        <5>5. (\A k \in (n + 1) - s .. n + 1 : x[k]) <=> (\A k \in n - (s - 1) .. n : x[k])
          <6>1. \A k \in (n + 1) - s .. n + 1 : k = n + 1 \/ k \in n - (s - 1) .. n
            OBVIOUS
          <6>2. \A k \in n - (s - 1) .. n : k \in (n + 1) - s .. n + 1
            OBVIOUS
          <6> QED
            BY <2>3, <6>1, <6>2, Zenon
        <5> QED
          BY <5>2, <5>3, <5>4, <5>5
      <4> QED
        BY <4>1, <4>2
    <3> QED
      BY <2>1, <3>1, <3>2
  <2> QED
    BY <2>2, <2>3
<1> HIDE DEF L
<1>3. Nat \subseteq L
  BY <1>1, <1>2, NaturalsByInduction
<1>4. \A i \in 0 .. N : i \in Nat /\ i <= N
  OBVIOUS
<1>5. \A i \in 0 .. N : Counts(i)
  BY <1>3, <1>4 DEF L
<1> QED
  BY <1>5 DEF w

\* All is the conjunction of its series.
LEMMA AllIs ==
    ASSUME NEW N \in Nat, NEW S \in SUBSET Series(N), S # {}
    PROVE  All(S) = [i \in 1 .. N |-> \A y \in S : y[i]] /\ All(S) \in Series(N)
<1> DEFINE x == CHOOSE y \in S : TRUE
<1>1. x \in S
  OBVIOUS
<1>2. DOMAIN x = 1 .. N
  BY <1>1 DEF Series
<1> HIDE DEF x
<1>3. All(S) = [i \in DOMAIN x |-> \A y \in S : y[i]]
  BY DEF All, x
<1>4. All(S) = [i \in 1 .. N |-> \A y \in S : y[i]]
  BY <1>2, <1>3
<1>5. \A i \in 1 .. N : (\A y \in S : y[i]) \in BOOLEAN
  OBVIOUS
<1> QED
  BY <1>4, <1>5 DEF Series

\* Counting the warm hours one by one masks the same hours of a fire weather code
\* as training's rule, spin hours after any missing input (_cascade, _cascade_loop).
LEMMA Cascades ==
    ASSUME NEW N \in Nat, NEW S \in SUBSET Series(N), S # {}
    PROVE  cascade(S) = ref_cascade(S) /\ ref_cascade(S) \in Series(N)
<1> DEFINE ok == All(S)
<1>1. ok \in Series(N)
  BY AllIs
<1> HIDE DEF ok
<1>2. DOMAIN ok = 1 .. N
  BY <1>1 DEF Series
<1>3. cascade(S) = [i \in 1 .. N |-> cascade_warm(ok)[i] > Spinup]
  BY <1>2 DEF cascade, ok
<1>4. ref_cascade(S) = [i \in 1 .. N |-> i > Spinup /\ \A k \in i - Spinup .. i : ok[k]]
  BY <1>2 DEF ref_cascade, ok
<1>5. Spinup \in Nat /\ \A i \in 1 .. N : i \in 0 .. N
  BY WindowAssumption
<1>6. \A i \in 1 .. N : cascade_warm(ok)[i] > Spinup <=>
                            i > Spinup /\ \A k \in i - Spinup .. i : ok[k]
  BY <1>1, <1>5, WarmCounts
<1>7. cascade(S) \in Series(N) /\ ref_cascade(S) \in Series(N)
  BY <1>3, <1>4 DEF Series
<1>8. \A i \in 1 .. N : cascade(S)[i] <=> ref_cascade(S)[i]
  BY <1>3, <1>4, <1>6
<1> QED
  BY <1>7, <1>8, SameSeries
-----------------------------------------------------------------------------
(* From the record to the grid *)

\* A series g over the grid agrees with a series x over the record after k hours:
\* there it is observed just where the station existed and x is observed.  The
\* first k hours are what the operations above the series need of the past.
Agree(g, x, k) ==
    /\ g \in Series(GridHours) /\ x \in Series(hour)
    /\ \A i \in 1 .. GridHours :
           i > k => (g[i] <=> GridHour(i) >= 1 /\ x[GridHour(i)])

LEMMA GridSize ==
    /\ GridHours \in Nat \ {0} /\ HISTORY \in Nat /\ GridHours = Context + HISTORY
    /\ Spinup \in Nat /\ Week \in Nat \ {0} /\ Month \in Nat \ {0} /\ Smooth \in Nat \ {0}
    /\ Day \in Nat \ {0} /\ Context \in Nat \ {0} /\ HISTORY = Month + Spinup
    /\ Week <= Month /\ Smooth + Day <= HISTORY
  BY WindowAssumption DEF GridHours, HISTORY

\* Where an hour of the grid lies in the record.
LEMMA GridPlace ==
    ASSUME hour \in Nat, NEW i \in 1 .. GridHours
    PROVE  /\ GridHour(i) \in Int /\ i \in Nat
           /\ GridHour(i) >= 1 => GridHour(i) \in 1 .. hour
           /\ \A j \in Int : GridHour(i - j) = GridHour(i) - j
  BY GridSize DEF GridHour

LEMMA AgreeLater ==
    ASSUME hour \in Nat, NEW g, NEW x, NEW k \in Nat, NEW m \in Nat, k <= m, Agree(g, x, k)
    PROVE  Agree(g, x, m)
<1>1. \A i \in 1 .. GridHours : i > m => i > k
  BY GridSize
<1> QED
  BY <1>1 DEF Agree

LEMMA DiffAgrees ==
    ASSUME hour \in Nat, NEW g, NEW x, NEW k \in Nat, Agree(g, x, k)
    PROVE  Agree(Diff(g), Diff(x), k + 1)
<1>1. DOMAIN g = 1 .. GridHours /\ DOMAIN x = 1 .. hour
  BY DEF Agree, Series
<1>2. /\ \A i \in 1 .. GridHours : Diff(g)[i] <=> i > 1 /\ g[i] /\ g[i - 1]
      /\ \A j \in 1 .. hour : Diff(x)[j] <=> j > 1 /\ x[j] /\ x[j - 1]
  BY <1>1 DEF Diff
<1>3. Diff(g) \in Series(GridHours) /\ Diff(x) \in Series(hour)
  BY <1>1 DEF Diff, Series, Agree
<1>4. ASSUME NEW i \in 1 .. GridHours, i > k + 1
      PROVE  Diff(g)[i] <=> GridHour(i) >= 1 /\ Diff(x)[GridHour(i)]
  <2>1. i - 1 \in 1 .. GridHours /\ i > k /\ i - 1 > k /\ i > 1
    BY <1>4, GridSize
  <2>2. GridHour(i - 1) = GridHour(i) - 1 /\ GridHour(i) \in Int
        /\ (GridHour(i) >= 1 => GridHour(i) \in 1 .. hour)
    BY GridPlace
  <2>3. g[i] <=> GridHour(i) >= 1 /\ x[GridHour(i)]
    BY <2>1 DEF Agree
  <2>4. g[i - 1] <=> GridHour(i) - 1 >= 1 /\ x[GridHour(i) - 1]
    BY <2>1, <2>2 DEF Agree
  <2>5. GridHour(i) - 1 >= 1 <=> GridHour(i) > 1
    BY <2>2
  <2> QED
    BY <1>2, <2>1, <2>2, <2>3, <2>4, <2>5
<1> QED
  BY <1>3, <1>4 DEF Agree

LEMMA LagAgrees ==
    ASSUME hour \in Nat, NEW g, NEW x, NEW k \in Nat, NEW n \in Nat, Agree(g, x, k)
    PROVE  Agree(Lag(g, n), Lag(x, n), k + n)
<1>1. DOMAIN g = 1 .. GridHours /\ DOMAIN x = 1 .. hour
  BY DEF Agree, Series
<1>2. /\ \A i \in 1 .. GridHours : Lag(g, n)[i] <=> i > n /\ g[i] /\ g[i - n]
      /\ \A j \in 1 .. hour : Lag(x, n)[j] <=> j > n /\ x[j] /\ x[j - n]
  BY <1>1 DEF Lag
<1>3. Lag(g, n) \in Series(GridHours) /\ Lag(x, n) \in Series(hour)
  BY <1>1 DEF Lag, Series, Agree
<1>4. ASSUME NEW i \in 1 .. GridHours, i > k + n
      PROVE  Lag(g, n)[i] <=> GridHour(i) >= 1 /\ Lag(x, n)[GridHour(i)]
  <2>1. i - n \in 1 .. GridHours /\ i > k /\ i - n > k /\ i > n
    BY <1>4, GridSize
  <2>2. GridHour(i - n) = GridHour(i) - n /\ GridHour(i) \in Int
        /\ (GridHour(i) >= 1 => GridHour(i) \in 1 .. hour)
    BY GridPlace
  <2>3. g[i] <=> GridHour(i) >= 1 /\ x[GridHour(i)]
    BY <2>1 DEF Agree
  <2>4. g[i - n] <=> GridHour(i) - n >= 1 /\ x[GridHour(i) - n]
    BY <2>1, <2>2 DEF Agree
  <2>5. GridHour(i) - n >= 1 <=> GridHour(i) > n
    BY <2>2
  <2>6. GridHour(i) - n >= 1 => GridHour(i) >= 1
    BY <2>2
  <2> QED
    BY <1>2, <2>1, <2>2, <2>3, <2>4, <2>5, <2>6
<1> QED
  BY <1>3, <1>4 DEF Agree

\* A window that lies in the agreeing part of the grid is observed in full just
\* where it is so in the record.
LEMMA WindowAgrees ==
    ASSUME hour \in Nat, NEW g, NEW x, NEW k \in Nat, NEW s \in Nat, Agree(g, x, k),
           NEW i \in 1 .. GridHours, i > k + s
    PROVE  (\A j \in i - s .. i : g[j])
               <=> GridHour(i) > s /\ \A j \in GridHour(i) - s .. GridHour(i) : x[j]
<1>1. \A j \in i - s .. i : j \in 1 .. GridHours /\ j > k
  BY GridSize
<1>2. \A j \in i - s .. i : g[j] <=> GridHour(j) >= 1 /\ x[GridHour(j)]
  BY <1>1 DEF Agree
<1>3. GridHour(i) \in Int
  BY GridPlace
<1>4. ASSUME \A j \in i - s .. i : g[j]
      PROVE  GridHour(i) > s /\ \A j \in GridHour(i) - s .. GridHour(i) : x[j]
  <2>1. GridHour(i) > s
    <3>1. i - s \in i - s .. i /\ GridHour(i - s) = GridHour(i) - s
      BY GridPlace
    <3>2. GridHour(i) - s >= 1
      BY <1>2, <1>4, <3>1
    <3> QED
      BY <1>3, <3>2
  <2>2. ASSUME NEW j \in GridHour(i) - s .. GridHour(i)
        PROVE  x[j]
    <3> DEFINE b == i - (GridHour(i) - j)
    <3>1. b \in i - s .. i
      BY <1>3
    <3>2. GridHour(b) = j
      BY <1>3, GridSize DEF GridHour
    <3> HIDE DEF b
    <3> QED
      BY <1>2, <1>4, <3>1, <3>2
  <2> QED
    BY <2>1, <2>2
<1>5. ASSUME GridHour(i) > s, \A j \in GridHour(i) - s .. GridHour(i) : x[j],
             NEW j \in i - s .. i
      PROVE  g[j]
  <2>1. GridHour(j) = GridHour(i) - (i - j)
    BY GridSize DEF GridHour
  <2>2. GridHour(j) >= 1 /\ GridHour(j) \in GridHour(i) - s .. GridHour(i)
    BY <1>3, <1>5, <2>1
  <2> QED
    BY <1>2, <1>5, <2>2
<1> QED
  BY <1>4, <1>5

LEMMA RollAgrees ==
    ASSUME hour \in Nat, NEW g, NEW x, NEW k \in Nat, NEW n \in Nat \ {0}, Agree(g, x, k)
    PROVE  Agree(strict_roll(g, n), strict_roll(x, n), k + (n - 1))
<1>1. DOMAIN g = 1 .. GridHours /\ DOMAIN x = 1 .. hour
  BY DEF Agree, Series
<1>2. \A i \in Int : i - n + 1 = i - (n - 1) /\ (i >= n <=> i > n - 1)
  OBVIOUS
<1>3. /\ \A i \in 1 .. GridHours :
             strict_roll(g, n)[i] <=> i > n - 1 /\ \A j \in i - (n - 1) .. i : g[j]
      /\ \A i \in 1 .. hour :
             strict_roll(x, n)[i] <=> i > n - 1 /\ \A j \in i - (n - 1) .. i : x[j]
  <2>1. \A i \in 1 .. GridHours : strict_roll(g, n)[i] <=> i >= n /\ \A j \in i - n + 1 .. i : g[j]
    BY <1>1 DEF strict_roll
  <2>2. \A i \in 1 .. hour : strict_roll(x, n)[i] <=> i >= n /\ \A j \in i - n + 1 .. i : x[j]
    BY <1>1 DEF strict_roll
  <2>3. (\A i \in 1 .. GridHours : i \in Int) /\ \A i \in 1 .. hour : i \in Int
    OBVIOUS
  <2> QED
    BY <1>2, <2>1, <2>2, <2>3
<1>4. strict_roll(g, n) \in Series(GridHours) /\ strict_roll(x, n) \in Series(hour)
  BY RollType, GridSize DEF Agree
<1>5. ASSUME NEW i \in 1 .. GridHours, i > k + (n - 1)
      PROVE  strict_roll(g, n)[i] <=> GridHour(i) >= 1 /\ strict_roll(x, n)[GridHour(i)]
  <2>1. n - 1 \in Nat /\ i > n - 1
    BY <1>5
  <2>2. GridHour(i) \in Int /\ (GridHour(i) >= 1 => GridHour(i) \in 1 .. hour)
    BY GridPlace
  <2>3. (\A j \in i - (n - 1) .. i : g[j])
            <=> GridHour(i) > n - 1 /\ \A j \in GridHour(i) - (n - 1) .. GridHour(i) : x[j]
    BY <1>5, <2>1, WindowAgrees
  <2>4. GridHour(i) > n - 1 => GridHour(i) >= 1
    BY <2>1, <2>2
  <2> QED
    BY <1>3, <2>1, <2>2, <2>3, <2>4
<1> QED
  BY <1>4, <1>5 DEF Agree

\* The conjunction of series that agree, one with one.
LEMMA AllAgrees ==
    ASSUME hour \in Nat, NEW k \in Nat, NEW G \in SUBSET Series(GridHours), G # {},
           NEW X \in SUBSET Series(hour), X # {},
           \A g \in G : \E x \in X : Agree(g, x, k),
           \A x \in X : \E g \in G : Agree(g, x, k)
    PROVE  Agree(All(G), All(X), k)
<1>1. /\ All(G) \in Series(GridHours) /\ All(G) = [i \in 1 .. GridHours |-> \A g \in G : g[i]]
      /\ All(X) \in Series(hour) /\ All(X) = [i \in 1 .. hour |-> \A x \in X : x[i]]
  BY AllIs, GridSize
<1>2. ASSUME NEW i \in 1 .. GridHours, i > k
      PROVE  All(G)[i] <=> GridHour(i) >= 1 /\ All(X)[GridHour(i)]
  <2>1. GridHour(i) >= 1 => GridHour(i) \in 1 .. hour
    BY GridPlace
  <2>2. All(G)[i] <=> \A g \in G : g[i]
    BY <1>1
  <2>3. GridHour(i) >= 1 => (All(X)[GridHour(i)] <=> \A x \in X : x[GridHour(i)])
    BY <1>1, <2>1
  <2>4. ASSUME NEW g, NEW x, Agree(g, x, k)
        PROVE  g[i] <=> GridHour(i) >= 1 /\ x[GridHour(i)]
    BY <1>2, <2>4 DEF Agree
  <2> QED
    BY <2>2, <2>3, <2>4
<1> QED
  BY <1>1, <1>2 DEF Agree

\* A fire weather code agrees a spin-up later than its inputs.
LEMMA CascadeAgrees ==
    ASSUME hour \in Nat, NEW k \in Nat, NEW G \in SUBSET Series(GridHours), G # {},
           NEW X \in SUBSET Series(hour), X # {},
           \A g \in G : \E x \in X : Agree(g, x, k),
           \A x \in X : \E g \in G : Agree(g, x, k)
    PROVE  Agree(cascade(G), ref_cascade(X), k + Spinup)
<1> DEFINE g == All(G)
           x == All(X)
<1>1. Agree(g, x, k)
  BY AllAgrees
<1> HIDE DEF g, x
<1>2. cascade(G) = ref_cascade(G) /\ ref_cascade(G) \in Series(GridHours)
      /\ ref_cascade(X) \in Series(hour)
  BY Cascades, GridSize
<1>3. DOMAIN g = 1 .. GridHours /\ DOMAIN x = 1 .. hour
  BY <1>1 DEF Agree, Series
<1>4. \A i \in 1 .. GridHours : cascade(G)[i] <=> i > Spinup /\ \A j \in i - Spinup .. i : g[j]
  BY <1>2, <1>3 DEF ref_cascade, g
<1>5. \A i \in 1 .. hour : ref_cascade(X)[i] <=> i > Spinup /\ \A j \in i - Spinup .. i : x[j]
  BY <1>3 DEF ref_cascade, x
<1>6. ASSUME NEW i \in 1 .. GridHours, i > k + Spinup
      PROVE  cascade(G)[i] <=> GridHour(i) >= 1 /\ ref_cascade(X)[GridHour(i)]
  <2>1. Spinup \in Nat /\ i > Spinup
    BY <1>6, GridSize
  <2>2. GridHour(i) \in Int /\ (GridHour(i) >= 1 => GridHour(i) \in 1 .. hour)
    BY GridPlace
  <2>3. (\A j \in i - Spinup .. i : g[j])
            <=> GridHour(i) > Spinup /\ \A j \in GridHour(i) - Spinup .. GridHour(i) : x[j]
    BY <1>1, <1>6, <2>1, WindowAgrees
  <2>4. GridHour(i) > Spinup => GridHour(i) >= 1
    BY <2>1, <2>2
  <2> QED
    BY <1>4, <1>5, <2>1, <2>2, <2>3, <2>4
<1> QED
  BY <1>2, <1>6 DEF Agree
-----------------------------------------------------------------------------
(* The ring buffer against the record *)

\* The retention is never shorter than the grid: what the grid reaches back to has
\* not been pruned.
Kept == \A h \in Hour : h > hour - GridHours => db[h] = record[h]

LEMMA KeptStep == RowsOK /\ Kept /\ [Next]_vars => Kept'
<1> SUFFICES ASSUME RowsOK, Kept, [Next]_vars
             PROVE  Kept'
  OBVIOUS
<1>h. hour \in Int /\ \A h \in Hour : h \in Int
  BY WindowAssumption DEF RowsOK, Hour
<1>t. db \in [Hour -> SUBSET Source] /\ record \in [Hour -> SUBSET Source]
  BY DEF RowsOK
<1>1. CASE \E answered \in SUBSET InSitu, rain \in Rain \union {0}, restarts \in BOOLEAN :
               Sweep(answered, rain, restarts)
  <2>1. PICK answered : /\ db' = [db EXCEPT ![hour] = @ \union answered]
                        /\ record' = [record EXCEPT ![hour] = @ \union answered]
                        /\ hour' = hour
    BY <1>1 DEF Sweep, put_readings
  <2> QED
    BY <1>t, <2>1 DEF Kept
<1>2. CASE \E h \in Hour : PollContext(h)
  <2>1. PICK k : /\ db' = [db EXCEPT ![k] = @ \union {"context"}]
                 /\ record' = [record EXCEPT ![k] = @ \union {"context"}]
                 /\ hour' = hour
    BY <1>2 DEF PollContext, put_context
  <2> QED
    BY <1>t, <2>1 DEF Kept
<1>3. CASE NoContext \/ Reboot \/ UNCHANGED vars
  BY <1>3 DEF NoContext, Reboot, vars, Kept
<1>4. ASSUME NEW whole \in BOOLEAN, NEW dt \in 0 .. 1, Housekeeping(whole, dt)
      PROVE  Kept'
  <2>1. hour' \in Int /\ hour' >= hour /\ record' = record
    BY <1>h, <1>4 DEF Housekeeping
  <2>2. \A h \in Hour : ~Pruned(h, whole) => db'[h] = db[h]
    BY <1>4 DEF Housekeeping
  <2>3. \A h \in Hour : Pruned(h, whole) => h <= hour - Retention
    BY <1>h, WindowAssumption DEF Pruned
  <2>4. Retention \in Int /\ Retention >= GridHours
    BY WindowAssumption
  <2>5. ASSUME NEW h \in Hour, h > hour' - GridHours
        PROVE  db'[h] = record'[h]
    <3>1. h > hour - GridHours /\ ~(h <= hour - Retention)
      BY <1>h, <2>1, <2>4, <2>5, GridSize
    <3> QED
      BY <2>1, <2>2, <2>3, <3>1 DEF Kept
  <2> QED
    BY <2>5 DEF Kept
<1> QED
  BY <1>1, <1>2, <1>3, <1>4 DEF Next

\* What the grid shows of a pod's parameter is what the record has.
LEMMA GridAgrees ==
    ASSUME RowsOK, Kept, NEW p \in DOMAIN SourceOf, NEW k \in Nat
    PROVE  Agree(Grid[p], Recorded[p], k)
<1>h. hour \in Hour /\ hour \in Nat /\ hour <= MaxHours /\ MaxHours \in Nat
  BY WindowAssumption DEF RowsOK, Hour
<1>1. Grid[p] = [i \in 1 .. GridHours |-> GridHour(i) >= 1 /\ SourceOf[p] \in db[GridHour(i)]]
  BY DEF Grid
<1>2. Recorded[p] = [h \in 1 .. hour |-> SourceOf[p] \in record[h]]
  BY DEF Recorded, concat
<1>3. ASSUME NEW i \in 1 .. GridHours, GridHour(i) >= 1
      PROVE  GridHour(i) \in 1 .. hour /\ db[GridHour(i)] = record[GridHour(i)]
  <2>1. GridHour(i) \in 1 .. hour
    BY <1>3, <1>h, GridPlace
  <2>2. GridHour(i) \in Hour
    BY <1>h, <2>1 DEF Hour
  <2>3. GridHour(i) > hour - GridHours
    BY <1>h, GridSize DEF GridHour
  <2> QED
    BY <2>1, <2>2, <2>3 DEF Kept
<1>4. \A i \in 1 .. GridHours : Grid[p][i] <=> GridHour(i) >= 1 /\ Recorded[p][GridHour(i)]
  BY <1>1, <1>2, <1>3
<1>5. Grid[p] \in Series(GridHours) /\ Recorded[p] \in Series(hour)
  BY <1>1, <1>2 DEF Series
<1> QED
  BY <1>4, <1>5 DEF Agree

\* A static parameter is there at every hour or at none.
LEMMA StaticRecorded ==
    ASSUME NEW p \in StaticIds
    PROVE  Recorded[p] = Constantly(p \in static, hour)
<1>1. p \notin DOMAIN SourceOf
  BY WindowAssumption
<1> QED
  BY <1>1 DEF Recorded, concat

LEMMA ConstantSeries ==
    ASSUME NEW n, NEW b \in BOOLEAN
    PROVE  Constantly(b, n) \in Series(n) /\ \A i \in 1 .. n : Constantly(b, n)[i] = b
  BY DEF Constantly, Series

LEMMA StaticSeries ==
    ASSUME NEW n, NEW p
    PROVE  /\ Constantly(p \in static, n) \in Series(n)
           /\ \A i \in 1 .. n : Constantly(p \in static, n)[i] <=> p \in static
<1> DEFINE b == p \in static
<1>1. b \in BOOLEAN
  OBVIOUS
<1>2. Constantly(b, n) \in Series(n) /\ \A i \in 1 .. n : Constantly(b, n)[i] = b
  BY <1>1, ConstantSeries, Zenon
<1> QED
  BY <1>2, Zenon

-----------------------------------------------------------------------------
(* Sets of series *)

\* Two sets of series that agree one with one.
AgreeSets(G, X, k) ==
    /\ G \in SUBSET Series(GridHours) /\ X \in SUBSET Series(hour)
    /\ G # {} /\ X # {}
    /\ \A g \in G : \E x \in X : Agree(g, x, k)
    /\ \A x \in X : \E g \in G : Agree(g, x, k)

LEMMA Sets2 ==
    ASSUME NEW a, NEW b, NEW a2, NEW b2, NEW k, Agree(a, a2, k), Agree(b, b2, k)
    PROVE  AgreeSets({a, b}, {a2, b2}, k)
<1>1. /\ {a, b} \in SUBSET Series(GridHours) /\ {a2, b2} \in SUBSET Series(hour)
      /\ {a, b} # {} /\ {a2, b2} # {}
  BY DEF Agree
<1> QED
  BY <1>1, Zenon DEF AgreeSets

LEMMA Sets3 ==
    ASSUME NEW a, NEW b, NEW c, NEW a2, NEW b2, NEW c2, NEW k,
           Agree(a, a2, k), Agree(b, b2, k), Agree(c, c2, k)
    PROVE  AgreeSets({a, b, c}, {a2, b2, c2}, k)
<1>1. /\ {a, b, c} \in SUBSET Series(GridHours) /\ {a2, b2, c2} \in SUBSET Series(hour)
      /\ {a, b, c} # {} /\ {a2, b2, c2} # {}
  BY DEF Agree
<1> QED
  BY <1>1, Zenon DEF AgreeSets

LEMMA Sets5 ==
    ASSUME NEW a, NEW b, NEW c, NEW d, NEW e, NEW a2, NEW b2, NEW c2, NEW d2, NEW e2, NEW k,
           Agree(a, a2, k), Agree(b, b2, k), Agree(c, c2, k), Agree(d, d2, k), Agree(e, e2, k)
    PROVE  AgreeSets({a, b, c, d, e}, {a2, b2, c2, d2, e2}, k)
<1>1. /\ {a, b, c, d, e} \in SUBSET Series(GridHours)
      /\ {a2, b2, c2, d2, e2} \in SUBSET Series(hour)
      /\ {a, b, c, d, e} # {} /\ {a2, b2, c2, d2, e2} # {}
  BY DEF Agree
<1> QED
  BY <1>1, Zenon DEF AgreeSets

LEMMA SetsAgree ==
    ASSUME hour \in Nat, NEW G, NEW X, NEW k \in Nat, AgreeSets(G, X, k)
    PROVE  Agree(All(G), All(X), k) /\ Agree(cascade(G), ref_cascade(X), k + Spinup)
  BY AllAgrees, CascadeAgrees DEF AgreeSets

\* Series that are the same at every hour may join the conjunction.
LEMMA SetsWithConstants ==
    ASSUME hour \in Nat, NEW G, NEW X, NEW k \in Nat, AgreeSets(G, X, k),
           NEW CG \in SUBSET Series(GridHours), NEW CX \in SUBSET Series(hour), NEW b \in BOOLEAN,
           \A i \in 1 .. GridHours : (\A g \in CG : g[i]) <=> b,
           \A j \in 1 .. hour : (\A x \in CX : x[j]) <=> b
    PROVE  Agree(All(G \union CG), All(X \union CX), k)
<1>1. Agree(All(G), All(X), k)
  BY SetsAgree
<1>2. /\ All(G) = [i \in 1 .. GridHours |-> \A g \in G : g[i]]
      /\ All(X) = [i \in 1 .. hour |-> \A x \in X : x[i]]
  BY AllIs, GridSize DEF AgreeSets
<1>3. /\ All(G \union CG) \in Series(GridHours)
      /\ All(G \union CG) = [i \in 1 .. GridHours |-> \A g \in G \union CG : g[i]]
  <2>1. G \union CG \in SUBSET Series(GridHours) /\ G \union CG # {}
    BY DEF AgreeSets
  <2>2. GridHours \in Nat
    BY GridSize
  <2> QED
    BY <2>1, <2>2, AllIs
<1>4. /\ All(X \union CX) \in Series(hour)
      /\ All(X \union CX) = [i \in 1 .. hour |-> \A x \in X \union CX : x[i]]
  <2>1. X \union CX \in SUBSET Series(hour) /\ X \union CX # {}
    BY DEF AgreeSets
  <2> QED
    BY <2>1, AllIs
<1>5. \A i \in 1 .. GridHours : All(G \union CG)[i] <=> All(G)[i] /\ b
  BY <1>2, <1>3
<1>6. \A j \in 1 .. hour : All(X \union CX)[j] <=> All(X)[j] /\ b
  BY <1>2, <1>4
<1>7. ASSUME NEW i \in 1 .. GridHours, i > k
      PROVE  All(G \union CG)[i] <=> GridHour(i) >= 1 /\ All(X \union CX)[GridHour(i)]
  <2>1. GridHour(i) >= 1 => GridHour(i) \in 1 .. hour
    BY GridPlace
  <2>2. All(G)[i] <=> GridHour(i) >= 1 /\ All(X)[GridHour(i)]
    BY <1>1, <1>7 DEF Agree
  <2> QED
    BY <1>5, <1>6, <2>1, <2>2
<1> QED
  BY <1>3, <1>4, <1>7 DEF Agree
-----------------------------------------------------------------------------
(* The channels *)

\* The columns the head node derives; training has two more.
DerivedIds == {"S1", "S2", "S4", "S6", "S9", "S13", "S15", "S16", "S18", "S30", "S33", "S35",
               "T6", "T11"}

\* The intermediate series of the two sides, by name.
dev_wind(P) == All({P["P18"], P["P19"]})
dev_S9(P, st, n) == All({P["P1"], P["P2"], P["P3"], Constantly(theta_sat(st), n)})
dev_T1(P) == ffmc(vpd(P["P13"], P["P15"]), rain_increment(P["P12"]), P["P13"], P["P15"], P["P18"])
dev_T2(P) == dmc(Diff(decayed_sum(rain_increment(P["P12"]), Week)), P["P13"], P["P15"])
dev_T3(P) == dc(Diff(decayed_sum(rain_increment(P["P12"]), Month)), P["P13"])
dev_lp(P) == strict_roll(All({P["P42"], P["P43"], P["P44"]}), Smooth)
ref_S9(P) == All({ref_theta_sat(P["P71"], P["P73"], P["P74"]), P["P1"], P["P2"], P["P3"]})
ref_T1(P) == ref_ffmc(All({P["P13"], P["P15"]}), ref_rain_increment(P["P12"]), P["P13"], P["P15"],
                      P["P18"])
ref_T2(P) == ref_dmc(ref_decayed_sum(ref_rain_increment(P["P12"]), Week), P["P13"], P["P15"])
ref_T3(P) == ref_dc(ref_decayed_sum(ref_rain_increment(P["P12"]), Month), P["P13"])

LEMMA DerivedAre ==
    ASSUME NEW f, f = derived(Grid, static, GridHours)
    PROVE  /\ DOMAIN f = DerivedIds
           /\ f["S1"] = rain_increment(Grid["P12"])
           /\ f["S2"] = decayed_sum(rain_increment(Grid["P12"]), Week)
           /\ f["S4"] = Diff(Grid["P11"])
           /\ f["S6"] = All({Grid["P1"], Grid["P2"]})
           /\ f["S9"] = dev_S9(Grid, static, GridHours)
           /\ f["S13"] = vpd(Grid["P13"], Grid["P15"])
           /\ f["S15"] = dev_wind(Grid) /\ f["S16"] = dev_wind(Grid)
           /\ f["S18"] = All({Grid["P13"], Grid["P14"]})
           /\ f["S30"] = Constantly("S30" \in static, GridHours)
           /\ f["S33"] = Constantly("S33" \in static, GridHours)
           /\ f["S35"] = Constantly({"S30", "S33"} \subseteq static, GridHours)
           /\ f["T6"] = fwi(isi(dev_T1(Grid), dev_wind(Grid), dev_wind(Grid)),
                            bui(dev_T2(Grid), dev_T3(Grid)))
           /\ f["T11"] = All({dev_S9(Grid, static, GridHours), Lag(dev_lp(Grid), Day),
                              Constantly("S30" \in static /\ ksat_cosby(static), GridHours)})
<1>1. f = [S1 |-> rain_increment(Grid["P12"]),
           S2 |-> decayed_sum(rain_increment(Grid["P12"]), Week),
           S4 |-> Diff(Grid["P11"]), S6 |-> All({Grid["P1"], Grid["P2"]}),
           S9 |-> dev_S9(Grid, static, GridHours),
           S13 |-> vpd(Grid["P13"], Grid["P15"]), S15 |-> dev_wind(Grid), S16 |-> dev_wind(Grid),
           S18 |-> All({Grid["P13"], Grid["P14"]}),
           S30 |-> Constantly("S30" \in static, GridHours),
           S33 |-> Constantly("S33" \in static, GridHours),
           S35 |-> Constantly({"S30", "S33"} \subseteq static, GridHours),
           T6 |-> fwi(isi(dev_T1(Grid), dev_wind(Grid), dev_wind(Grid)),
                      bui(dev_T2(Grid), dev_T3(Grid))),
           T11 |-> All({dev_S9(Grid, static, GridHours), Lag(dev_lp(Grid), Day),
                        Constantly("S30" \in static /\ ksat_cosby(static), GridHours)})]
  BY DEF derived, dev_S9, dev_wind, dev_T1, dev_T2, dev_T3, dev_lp
<1> QED
  BY <1>1 DEF DerivedIds

LEMMA ConcatIs ==
    ASSUME NEW f, NEW g
    PROVE  /\ DOMAIN concat(f, g) = DOMAIN f \union DOMAIN g
           /\ \A c \in DOMAIN f : concat(f, g)[c] = f[c]
           /\ \A c \in DOMAIN g : c \notin DOMAIN f => concat(f, g)[c] = g[c]
  BY DEF concat

LEMMA FeaturesAre ==
    ASSUME NEW P, NEW f, f = compute_features(P)
    PROVE  /\ DOMAIN f = DerivedIds \union {"S3", "S11"}
           /\ f["S1"] = ref_rain_increment(P["P12"])
           /\ f["S2"] = ref_decayed_sum(ref_rain_increment(P["P12"]), Week)
           /\ f["S4"] = Diff(P["P11"])
           /\ f["S6"] = All({P["P1"], P["P2"]})
           /\ f["S9"] = ref_S9(P)
           /\ f["S13"] = All({P["P13"], P["P15"]})
           /\ f["S15"] = dev_wind(P) /\ f["S16"] = dev_wind(P)
           /\ f["S18"] = All({P["P14"], P["P13"]})
           /\ f["S30"] = P["S30"] /\ f["S33"] = P["S33"]
           /\ f["S35"] = All({P["S33"], P["S30"]})
           /\ f["T6"] = ref_fwi(ref_isi(ref_T1(P), dev_wind(P), dev_wind(P)),
                                ref_bui(ref_T2(P), ref_T3(P)))
           /\ f["T11"] = All({P["S30"], ref_S9(P), ref_ksat_cosby(P["P71"], P["P73"]),
                              ref_tilt_drift(P["P42"], P["P43"], P["P44"])})
<1> DEFINE h == hydrological(P)
           a == atmospheric(P)
           t == terrain(P)
           S37 == ref_tilt_drift(P["P42"], P["P43"], P["P44"])
           u == compute_tertiary(P, h, a, t, S37)
<1>h. h = [S1 |-> ref_rain_increment(P["P12"]),
           S2 |-> ref_decayed_sum(ref_rain_increment(P["P12"]), Week),
           S3 |-> ref_decayed_sum(ref_rain_increment(P["P12"]), Month),
           S4 |-> Diff(P["P11"]), S6 |-> All({P["P1"], P["P2"]}), S9 |-> ref_S9(P),
           S11 |-> ref_ksat_cosby(P["P71"], P["P73"])]
  BY DEF hydrological, ref_S9
<1>a. a = [S13 |-> All({P["P13"], P["P15"]}), S15 |-> dev_wind(P), S16 |-> dev_wind(P),
           S18 |-> All({P["P14"], P["P13"]})]
  BY DEF atmospheric, dev_wind
<1>t. t = [S30 |-> P["S30"], S33 |-> P["S33"], S35 |-> All({P["S33"], P["S30"]})]
  BY DEF terrain
<1> HIDE DEF h, a, t
<1>hf. /\ DOMAIN h = {"S1", "S2", "S3", "S4", "S6", "S9", "S11"}
       /\ h.S1 = ref_rain_increment(P["P12"])
       /\ h.S2 = ref_decayed_sum(ref_rain_increment(P["P12"]), Week)
       /\ h.S3 = ref_decayed_sum(ref_rain_increment(P["P12"]), Month)
       /\ h.S4 = Diff(P["P11"]) /\ h.S6 = All({P["P1"], P["P2"]}) /\ h.S9 = ref_S9(P)
       /\ h.S11 = ref_ksat_cosby(P["P71"], P["P73"])
  BY <1>h
<1>af. /\ DOMAIN a = {"S13", "S15", "S16", "S18"}
       /\ a.S13 = All({P["P13"], P["P15"]}) /\ a.S15 = dev_wind(P) /\ a.S16 = dev_wind(P)
       /\ a.S18 = All({P["P14"], P["P13"]})
  BY <1>a
<1>tf. /\ DOMAIN t = {"S30", "S33", "S35"}
       /\ t.S30 = P["S30"] /\ t.S33 = P["S33"] /\ t.S35 = All({P["S33"], P["S30"]})
  BY <1>t
<1>u. u = [T6 |-> ref_fwi(ref_isi(ref_T1(P), dev_wind(P), dev_wind(P)),
                          ref_bui(ref_T2(P), ref_T3(P))),
           T11 |-> All({P["S30"], ref_S9(P), ref_ksat_cosby(P["P71"], P["P73"]), S37})]
  BY <1>hf, <1>af, <1>tf DEF compute_tertiary, ref_T1, ref_T2, ref_T3
<1> HIDE DEF u
<1>uf. /\ DOMAIN u = {"T6", "T11"}
       /\ u.T6 = ref_fwi(ref_isi(ref_T1(P), dev_wind(P), dev_wind(P)),
                         ref_bui(ref_T2(P), ref_T3(P)))
       /\ u.T11 = All({P["S30"], ref_S9(P), ref_ksat_cosby(P["P71"], P["P73"]), S37})
  BY <1>u
<1>f. f = concat(concat(h, concat(a, t)), u)
  BY DEF compute_features, h, a, t, u
<1> HIDE DEF S37
<1>1. /\ DOMAIN concat(a, t) = {"S13", "S15", "S16", "S18", "S30", "S33", "S35"}
      /\ \A c \in DOMAIN a : concat(a, t)[c] = a[c]
      /\ \A c \in DOMAIN t : concat(a, t)[c] = t[c]
  <2>1. /\ DOMAIN concat(a, t) = DOMAIN a \union DOMAIN t
        /\ \A c \in DOMAIN a : concat(a, t)[c] = a[c]
        /\ \A c \in DOMAIN t : c \notin DOMAIN a => concat(a, t)[c] = t[c]
    BY ConcatIs
  <2>2. \A c \in DOMAIN t : c \notin DOMAIN a
    BY <1>af, <1>tf
  <2>3. DOMAIN a \union DOMAIN t = {"S13", "S15", "S16", "S18", "S30", "S33", "S35"}
    BY <1>af, <1>tf
  <2> QED
    BY <2>1, <2>2, <2>3
<1>2. /\ DOMAIN concat(h, concat(a, t)) = (DerivedIds \ {"T6", "T11"}) \union {"S3", "S11"}
      /\ \A c \in DOMAIN h : concat(h, concat(a, t))[c] = h[c]
      /\ \A c \in DOMAIN a : concat(h, concat(a, t))[c] = a[c]
      /\ \A c \in DOMAIN t : concat(h, concat(a, t))[c] = t[c]
  <2> DEFINE at == concat(a, t)
  <2>1. /\ DOMAIN at = {"S13", "S15", "S16", "S18", "S30", "S33", "S35"}
        /\ \A c \in DOMAIN a : at[c] = a[c] /\ c \in DOMAIN at /\ c \notin DOMAIN h
        /\ \A c \in DOMAIN t : at[c] = t[c] /\ c \in DOMAIN at /\ c \notin DOMAIN h
    BY <1>hf, <1>af, <1>tf, <1>1
  <2> HIDE DEF at
  <2>2. /\ DOMAIN concat(h, at) = DOMAIN h \union DOMAIN at
        /\ \A c \in DOMAIN h : concat(h, at)[c] = h[c]
        /\ \A c \in DOMAIN at : c \notin DOMAIN h => concat(h, at)[c] = at[c]
    BY ConcatIs
  <2>3. DOMAIN h \union DOMAIN at = (DerivedIds \ {"T6", "T11"}) \union {"S3", "S11"}
    BY <1>hf, <2>1 DEF DerivedIds
  <2> QED
    BY <2>1, <2>2, <2>3 DEF at
<1>3. /\ DOMAIN f = DerivedIds \union {"S3", "S11"}
      /\ \A c \in DOMAIN h : f[c] = h[c]
      /\ \A c \in DOMAIN a : f[c] = a[c]
      /\ \A c \in DOMAIN t : f[c] = t[c]
      /\ \A c \in DOMAIN u : f[c] = u[c]
  <2> DEFINE hat == concat(h, concat(a, t))
  <2>1. /\ \A c \in DOMAIN u : c \notin DOMAIN hat
        /\ DOMAIN hat \union DOMAIN u = DerivedIds \union {"S3", "S11"}
    BY <1>2, <1>uf DEF DerivedIds
  <2>2. \A c \in DOMAIN h \union DOMAIN a \union DOMAIN t : c \in DOMAIN hat
    BY <1>hf, <1>af, <1>tf, <1>2 DEF DerivedIds
  <2>3. /\ DOMAIN concat(hat, u) = DOMAIN hat \union DOMAIN u
        /\ \A c \in DOMAIN hat : concat(hat, u)[c] = hat[c]
        /\ \A c \in DOMAIN u : c \notin DOMAIN hat => concat(hat, u)[c] = u[c]
    BY ConcatIs
  <2>4. f = concat(hat, u)
    BY <1>f
  <2>5. /\ \A c \in DOMAIN h : hat[c] = h[c]
        /\ \A c \in DOMAIN a : hat[c] = a[c]
        /\ \A c \in DOMAIN t : hat[c] = t[c]
    BY <1>2
  <2> HIDE DEF hat
  <2> QED
    BY <2>1, <2>2, <2>3, <2>4, <2>5
<1>4. /\ f["S1"] = h.S1 /\ f["S2"] = h.S2 /\ f["S4"] = h.S4 /\ f["S6"] = h.S6 /\ f["S9"] = h.S9
      /\ f["S13"] = a.S13 /\ f["S15"] = a.S15 /\ f["S16"] = a.S16 /\ f["S18"] = a.S18
      /\ f["S30"] = t.S30 /\ f["S33"] = t.S33 /\ f["S35"] = t.S35
      /\ f["T6"] = u.T6 /\ f["T11"] = u.T11
  <2>1. /\ {"S1", "S2", "S4", "S6", "S9"} \subseteq DOMAIN h
        /\ {"S13", "S15", "S16", "S18"} \subseteq DOMAIN a
        /\ {"S30", "S33", "S35"} \subseteq DOMAIN t /\ {"T6", "T11"} \subseteq DOMAIN u
    BY <1>hf, <1>af, <1>tf, <1>uf
  <2> QED
    BY <1>3, <2>1
<1> QED
  BY <1>3, <1>4, <1>hf, <1>af, <1>tf, <1>uf DEF S37

\* A channel's series over the grid shows, from the second row of the context
\* window on, what its series over the record has.
Close(g, x) ==
    \A i \in 1 .. GridHours :
        i > HISTORY + 1 /\ GridHour(i) >= 1 => g[i] = x[GridHour(i)]

LEMMA AgreeClose ==
    ASSUME hour \in Nat, NEW g, NEW x, NEW k \in Nat, k <= HISTORY + 1, Agree(g, x, k)
    PROVE  Close(g, x)
<1> SUFFICES ASSUME NEW i \in 1 .. GridHours, i > HISTORY + 1, GridHour(i) >= 1
             PROVE  g[i] = x[GridHour(i)]
  BY DEF Close
<1>1. i > k
  BY GridSize
<1>2. GridHour(i) \in 1 .. hour
  BY GridPlace
<1>3. g[i] <=> x[GridHour(i)]
  BY <1>1 DEF Agree
<1>4. g[i] \in BOOLEAN /\ x[GridHour(i)] \in BOOLEAN
  BY <1>2 DEF Agree, Series
<1> QED
  BY <1>3, <1>4

LEMMA StaticClose ==
    ASSUME hour \in Nat, NEW p
    PROVE  Close(Constantly(p \in static, GridHours), Constantly(p \in static, hour))
  BY GridPlace DEF Close, Constantly

LEMMA BothClose ==
    ASSUME hour \in Nat
    PROVE  Close(Constantly({"S30", "S33"} \subseteq static, GridHours),
                 All({Constantly("S33" \in static, hour), Constantly("S30" \in static, hour)}))
<1> DEFINE s == Constantly("S33" \in static, hour)
           t == Constantly("S30" \in static, hour)
<1>1. /\ s \in Series(hour) /\ \A j \in 1 .. hour : s[j] <=> "S33" \in static
      /\ t \in Series(hour) /\ \A j \in 1 .. hour : t[j] <=> "S30" \in static
  BY StaticSeries
<1> HIDE DEF s, t
<1>2. All({s, t}) \in Series(hour) /\ All({s, t}) = [j \in 1 .. hour |-> \A y \in {s, t} : y[j]]
  <2>1. {s, t} \in SUBSET Series(hour) /\ {s, t} # {}
    BY <1>1
  <2> QED
    BY <2>1, AllIs
<1>3. \A j \in 1 .. hour : All({s, t})[j] <=> s[j] /\ t[j]
  BY <1>2
<1>4. ASSUME NEW i \in 1 .. GridHours, GridHour(i) >= 1
      PROVE  Constantly({"S30", "S33"} \subseteq static, GridHours)[i] = All({s, t})[GridHour(i)]
  <2>1. GridHour(i) \in 1 .. hour
    BY <1>4, GridPlace
  <2>2. All({s, t})[GridHour(i)] \in BOOLEAN
    BY <1>2, <2>1 DEF Series
  <2>3. All({s, t})[GridHour(i)] <=> {"S30", "S33"} \subseteq static
    BY <1>1, <1>3, <2>1
  <2> QED
    BY <2>2, <2>3 DEF Constantly
<1>5. Close(Constantly({"S30", "S33"} \subseteq static, GridHours), All({s, t}))
  BY <1>4 DEF Close
<1> QED
  BY <1>5 DEF s, t

\* The moisture memory of a span of n hours needs the n hours before, and the one
\* before for the step of the counter.
LEMMA RainSums ==
    ASSUME hour \in Nat, NEW g, NEW x, Agree(g, x, 0), NEW n \in Nat \ {0}
    PROVE  Agree(decayed_sum(rain_increment(g), n),
                 ref_decayed_sum(ref_rain_increment(x), n), n)
<1> DEFINE u == rain_increment(g)
           v == ref_rain_increment(x)
<1>1. Agree(u, v, 1)
  <2>1. Agree(Diff(g), Diff(x), 0 + 1)
    BY DiffAgrees
  <2> QED
    BY <2>1 DEF rain_increment, ref_rain_increment
<1> HIDE DEF u, v
<1>2. Agree(strict_roll(u, n), strict_roll(v, n), 1 + (n - 1))
  BY <1>1, RollAgrees
<1>3. 1 + (n - 1) = n
  OBVIOUS
<1>4. decayed_sum(u, n) = strict_roll(u, n)
  BY <1>1, DecayedSums, GridSize DEF Agree
<1>5. ref_decayed_sum(v, n) = strict_roll(v, n)
  BY <1>1, DecayedSums DEF Agree
<1>6. Agree(decayed_sum(u, n), ref_decayed_sum(v, n), n)
  BY <1>2, <1>3, <1>4, <1>5
<1> QED
  BY <1>6 DEF u, v

\* The fire weather codes, each a spin-up after its latest input, and the index.
LEMMA FireWeather ==
    ASSUME RowsOK, Kept
    PROVE  Agree(fwi(isi(dev_T1(Grid), dev_wind(Grid), dev_wind(Grid)),
                     bui(dev_T2(Grid), dev_T3(Grid))),
                 ref_fwi(ref_isi(ref_T1(Recorded), dev_wind(Recorded), dev_wind(Recorded)),
                         ref_bui(ref_T2(Recorded), ref_T3(Recorded))), HISTORY + 1)
<1> DEFINE G == Grid
           R == Recorded
           m == Month + 1
           e == HISTORY + 1
           A(g, x) == Agree(g, x, m)
           E(g, x) == Agree(g, x, e)
<1>h. hour \in Nat
  BY WindowAssumption DEF RowsOK, Hour
<1>m. /\ 0 \in Nat /\ 1 \in Nat /\ m \in Nat /\ e \in Nat /\ m + Spinup = e /\ 1 <= m
      /\ Week + 1 \in Nat /\ Week + 1 <= m /\ Month \in Nat /\ m <= e /\ 0 + 1 = 1
  BY GridSize
<1>p. \A p \in PodIds : \A k \in Nat : Agree(G[p], R[p], k)
  BY GridAgrees, WindowAssumption
<1>q. \A p \in PodIds : A(G[p], R[p]) /\ E(G[p], R[p])
  BY <1>p, <1>m
<1> HIDE DEF G, R
<1>i. A(rain_increment(G["P12"]), ref_rain_increment(R["P12"]))
  <2>1. Agree(G["P12"], R["P12"], 0)
    BY <1>p, <1>m DEF PodIds
  <2>2. Agree(Diff(G["P12"]), Diff(R["P12"]), 1)
    BY <1>h, <1>m, <2>1, DiffAgrees
  <2>3. Agree(Diff(G["P12"]), Diff(R["P12"]), m)
    BY <1>h, <1>m, <2>2, AgreeLater
  <2> QED
    BY <2>3 DEF rain_increment, ref_rain_increment
<1>s. ASSUME NEW n \in Nat \ {0}, n <= Month
      PROVE  A(Diff(decayed_sum(rain_increment(G["P12"]), n)),
               Diff(ref_decayed_sum(ref_rain_increment(R["P12"]), n)))
  <2>1. Agree(G["P12"], R["P12"], 0)
    BY <1>p, <1>m DEF PodIds
  <2>2. Agree(decayed_sum(rain_increment(G["P12"]), n),
              ref_decayed_sum(ref_rain_increment(R["P12"]), n), n)
    BY <1>h, <2>1, RainSums
  <2>3. Agree(Diff(decayed_sum(rain_increment(G["P12"]), n)),
              Diff(ref_decayed_sum(ref_rain_increment(R["P12"]), n)), n + 1)
    BY <1>h, <2>2, DiffAgrees
  <2>4. n + 1 \in Nat /\ n + 1 <= m
    BY <1>s, <1>m
  <2> QED
    BY <1>h, <1>m, <2>3, <2>4, AgreeLater
<1>v. A(vpd(G["P13"], G["P15"]), All({R["P13"], R["P15"]}))
  <2>1. A(G["P13"], R["P13"]) /\ A(G["P15"], R["P15"])
    BY <1>q DEF PodIds
  <2>2. AgreeSets({G["P13"], G["P15"]}, {R["P13"], R["P15"]}, m)
    BY <2>1, Sets2
  <2> QED
    BY <1>h, <1>m, <2>2, SetsAgree DEF vpd
<1>w. E(dev_wind(G), dev_wind(R))
  <2>1. E(G["P18"], R["P18"]) /\ E(G["P19"], R["P19"])
    BY <1>q DEF PodIds
  <2>2. AgreeSets({G["P18"], G["P19"]}, {R["P18"], R["P19"]}, e)
    BY <2>1, Sets2
  <2> QED
    BY <1>h, <1>m, <2>2, SetsAgree DEF dev_wind
<1>1. E(dev_T1(G), ref_T1(R))
  <2>1. A(G["P13"], R["P13"]) /\ A(G["P15"], R["P15"]) /\ A(G["P18"], R["P18"])
    BY <1>q DEF PodIds
  <2>2. AgreeSets({vpd(G["P13"], G["P15"]), rain_increment(G["P12"]), G["P13"], G["P15"], G["P18"]},
                  {All({R["P13"], R["P15"]}), ref_rain_increment(R["P12"]), R["P13"], R["P15"],
                   R["P18"]}, m)
    BY <2>1, <1>v, <1>i, Sets5
  <2> QED
    BY <1>h, <1>m, <2>2, SetsAgree DEF dev_T1, ref_T1, ffmc, ref_ffmc
<1>2. E(dev_T2(G), ref_T2(R))
  <2>1. A(G["P13"], R["P13"]) /\ A(G["P15"], R["P15"])
    BY <1>q DEF PodIds
  <2>2. A(Diff(decayed_sum(rain_increment(G["P12"]), Week)),
          Diff(ref_decayed_sum(ref_rain_increment(R["P12"]), Week)))
    BY <1>s, GridSize
  <2>3. AgreeSets({Diff(decayed_sum(rain_increment(G["P12"]), Week)), G["P13"], G["P15"]},
                  {Diff(ref_decayed_sum(ref_rain_increment(R["P12"]), Week)), R["P13"], R["P15"]},
                  m)
    BY <2>1, <2>2, Sets3
  <2> QED
    BY <1>h, <1>m, <2>3, SetsAgree DEF dev_T2, ref_T2, dmc, ref_dmc
<1>3. E(dev_T3(G), ref_T3(R))
  <2>1. A(G["P13"], R["P13"])
    BY <1>q DEF PodIds
  <2>2. A(Diff(decayed_sum(rain_increment(G["P12"]), Month)),
          Diff(ref_decayed_sum(ref_rain_increment(R["P12"]), Month)))
    BY <1>s, GridSize
  <2>3. AgreeSets({Diff(decayed_sum(rain_increment(G["P12"]), Month)), G["P13"]},
                  {Diff(ref_decayed_sum(ref_rain_increment(R["P12"]), Month)), R["P13"]}, m)
    BY <2>1, <2>2, Sets2
  <2> QED
    BY <1>h, <1>m, <2>3, SetsAgree DEF dev_T3, ref_T3, dc, ref_dc
<1> DEFINE is == isi(dev_T1(G), dev_wind(G), dev_wind(G))
           ris == ref_isi(ref_T1(R), dev_wind(R), dev_wind(R))
           bu == bui(dev_T2(G), dev_T3(G))
           rbu == ref_bui(ref_T2(R), ref_T3(R))
<1>4. E(is, ris)
  <2>1. AgreeSets({dev_T1(G), dev_wind(G), dev_wind(G)}, {ref_T1(R), dev_wind(R), dev_wind(R)}, e)
    BY <1>1, <1>w, Sets3
  <2> QED
    BY <1>h, <1>m, <2>1, SetsAgree DEF isi, ref_isi
<1>5. E(bu, rbu)
  <2>1. AgreeSets({dev_T2(G), dev_T3(G)}, {ref_T2(R), ref_T3(R)}, e)
    BY <1>2, <1>3, Sets2
  <2> QED
    BY <1>h, <1>m, <2>1, SetsAgree DEF bui, ref_bui
<1> HIDE DEF is, ris, bu, rbu
<1>6. E(fwi(is, bu), ref_fwi(ris, rbu))
  <2>1. AgreeSets({is, bu}, {ris, rbu}, e)
    BY <1>4, <1>5, Sets2
  <2> QED
    BY <1>h, <1>m, <2>1, SetsAgree DEF fwi, ref_fwi
<1> QED
  BY <1>6 DEF is, ris, bu, rbu, G, R

\* What the static block says of the soil, hour by hour and once.
LEMMA SoilStatics ==
    hour \in Nat =>
    LET theta == ref_theta_sat(Recorded["P71"], Recorded["P73"], Recorded["P74"])
        ksat == ref_ksat_cosby(Recorded["P71"], Recorded["P73"])
    IN  /\ theta \in Series(hour) /\ ksat \in Series(hour)
        /\ \A j \in 1 .. hour : theta[j] <=> theta_sat(static)
        /\ ksat_cosby(static) \in BOOLEAN /\ theta_sat(static) \in BOOLEAN
        /\ \A j \in 1 .. hour : ksat[j] <=> ksat_cosby(static)
<1> SUFFICES ASSUME hour \in Nat
             PROVE  LET theta == ref_theta_sat(Recorded["P71"], Recorded["P73"], Recorded["P74"])
                        ksat == ref_ksat_cosby(Recorded["P71"], Recorded["P73"])
                    IN  /\ theta \in Series(hour) /\ ksat \in Series(hour)
                        /\ \A j \in 1 .. hour : theta[j] <=> theta_sat(static)
                        /\ ksat_cosby(static) \in BOOLEAN /\ theta_sat(static) \in BOOLEAN
                        /\ \A j \in 1 .. hour : ksat[j] <=> ksat_cosby(static)
  OBVIOUS
<1> DEFINE theta == ref_theta_sat(Recorded["P71"], Recorded["P73"], Recorded["P74"])
           ksat == ref_ksat_cosby(Recorded["P71"], Recorded["P73"])
<1>1. /\ Recorded["P71"] = Constantly("P71" \in static, hour)
      /\ Recorded["P73"] = Constantly("P73" \in static, hour)
      /\ Recorded["P74"] = Constantly("P74" \in static, hour)
  BY StaticRecorded DEF StaticIds
<1>2. theta \in Series(hour) /\ \A j \in 1 .. hour : theta[j] <=> theta_sat(static)
  BY <1>1 DEF ref_theta_sat, theta_sat, Constantly, Series
<1>3. ksat_cosby(static) \in BOOLEAN /\ theta_sat(static) \in BOOLEAN
  BY DEF ksat_cosby, theta_sat
<1>4. ksat \in Series(hour) /\ \A j \in 1 .. hour : ksat[j] <=> ksat_cosby(static)
  <2> DEFINE sand == Constantly("P71" \in static, hour)
             clay == Constantly("P73" \in static, hour)
  <2>1. sand \in Series(hour) /\ clay \in Series(hour)
    BY StaticSeries
  <2>2. ksat = All({sand, clay})
    BY <1>1 DEF ref_ksat_cosby
  <2>3. All({sand, clay}) \in Series(hour)
        /\ All({sand, clay}) = [j \in 1 .. hour |-> \A y \in {sand, clay} : y[j]]
    <3>1. {sand, clay} \in SUBSET Series(hour) /\ {sand, clay} # {}
      BY <2>1
    <3> HIDE DEF sand, clay
    <3> QED
      BY <3>1, AllIs
  <2>4. \A j \in 1 .. hour : (\A y \in {sand, clay} : y[j]) <=> sand[j] /\ clay[j]
    <3> HIDE DEF sand, clay
    <3> QED
      OBVIOUS
  <2>5. \A j \in 1 .. hour : sand[j] /\ clay[j] <=> ksat_cosby(static)
    BY DEF Constantly, ksat_cosby
  <2> HIDE DEF sand, clay
  <2> QED
    BY <2>2, <2>3, <2>4, <2>5
<1> QED
  BY <1>2, <1>3, <1>4

\* The saturation and the terrain index mix pod series with the static block.
LEMMA SoilAndTilt ==
    ASSUME RowsOK, Kept
    PROVE  /\ Agree(dev_S9(Grid, static, GridHours), ref_S9(Recorded), HISTORY + 1)
           /\ Agree(All({dev_S9(Grid, static, GridHours), Lag(dev_lp(Grid), Day),
                         Constantly("S30" \in static /\ ksat_cosby(static), GridHours)}),
                    All({Recorded["S30"], ref_S9(Recorded),
                         ref_ksat_cosby(Recorded["P71"], Recorded["P73"]),
                         ref_tilt_drift(Recorded["P42"], Recorded["P43"], Recorded["P44"])}),
                    HISTORY + 1)
<1> DEFINE G == Grid
           R == Recorded
           e == HISTORY + 1
           E(g, x) == Agree(g, x, e)
           theta == Constantly(theta_sat(static), GridHours)
           rtheta == ref_theta_sat(R["P71"], R["P73"], R["P74"])
           ksat == ref_ksat_cosby(R["P71"], R["P73"])
           S30 == Constantly("S30" \in static, hour)
           b == "S30" \in static /\ ksat_cosby(static)
           both == Constantly(b, GridHours)
           lp == Lag(dev_lp(G), Day)
           S37 == ref_tilt_drift(R["P42"], R["P43"], R["P44"])
           S9 == dev_S9(G, static, GridHours)
           rS9 == ref_S9(R)
<1>h. hour \in Nat
  BY WindowAssumption DEF RowsOK, Hour
<1>e. e \in Nat /\ 0 \in Nat /\ 0 <= e
  BY GridSize
<1>p. \A p \in PodIds : Agree(G[p], R[p], 0) /\ E(G[p], R[p])
  BY <1>e, GridAgrees, WindowAssumption
<1>r. /\ R["S30"] = S30
      /\ S30 \in Series(hour) /\ \A j \in 1 .. hour : S30[j] <=> "S30" \in static
  BY StaticRecorded, StaticSeries DEF StaticIds
<1>k. /\ rtheta \in Series(hour) /\ ksat \in Series(hour)
      /\ theta_sat(static) \in BOOLEAN /\ b \in BOOLEAN
      /\ \A j \in 1 .. hour : rtheta[j] <=> theta_sat(static)
      /\ \A j \in 1 .. hour : ksat[j] <=> ksat_cosby(static)
  BY <1>h, SoilStatics
<1>c. /\ theta \in Series(GridHours) /\ \A i \in 1 .. GridHours : theta[i] <=> theta_sat(static)
      /\ both \in Series(GridHours) /\ \A i \in 1 .. GridHours : both[i] <=> b
  BY <1>k, ConstantSeries
<1> HIDE DEF G, R, theta, rtheta, ksat, S30, both, lp, S37, S9, rS9
<1>1. E(S9, rS9)
  <2>1. E(G["P1"], R["P1"]) /\ E(G["P2"], R["P2"]) /\ E(G["P3"], R["P3"])
    BY <1>p DEF PodIds
  <2>2. AgreeSets({G["P1"], G["P2"], G["P3"]}, {R["P1"], R["P2"], R["P3"]}, e)
    BY <2>1, Sets3
  <2>3. /\ \A i \in 1 .. GridHours : (\A g \in {theta} : g[i]) <=> theta_sat(static)
        /\ \A j \in 1 .. hour : (\A x \in {rtheta} : x[j]) <=> theta_sat(static)
    BY <1>c, <1>k
  <2>4. E(All({G["P1"], G["P2"], G["P3"]} \union {theta}),
          All({R["P1"], R["P2"], R["P3"]} \union {rtheta}))
    BY <1>h, <1>e, <1>c, <1>k, <2>2, <2>3, SetsWithConstants
  <2>5. /\ {G["P1"], G["P2"], G["P3"]} \union {theta} = {G["P1"], G["P2"], G["P3"], theta}
        /\ {R["P1"], R["P2"], R["P3"]} \union {rtheta} = {rtheta, R["P1"], R["P2"], R["P3"]}
    OBVIOUS
  <2>6. S9 = All({G["P1"], G["P2"], G["P3"], theta})
    BY DEF S9, dev_S9, theta
  <2>7. rS9 = All({rtheta, R["P1"], R["P2"], R["P3"]})
    BY DEF rS9, ref_S9, rtheta
  <2> QED
    BY <2>4, <2>5, <2>6, <2>7
<1>2. E(lp, S37)
  <2> DEFINE g == All({G["P42"], G["P43"], G["P44"]})
             x == All({R["P42"], R["P43"], R["P44"]})
  <2>1. Agree(G["P42"], R["P42"], 0) /\ Agree(G["P43"], R["P43"], 0) /\ Agree(G["P44"], R["P44"], 0)
    BY <1>p DEF PodIds
  <2>2. AgreeSets({G["P42"], G["P43"], G["P44"]}, {R["P42"], R["P43"], R["P44"]}, 0)
    BY <2>1, Sets3
  <2>3. Agree(g, x, 0)
    BY <1>h, <1>e, <2>2, SetsAgree
  <2>l. lp = Lag(strict_roll(g, Smooth), Day)
    BY DEF lp, dev_lp
  <2>s. S37 = Lag(ref_roll(x, Smooth), Day)
    BY DEF S37, ref_tilt_drift
  <2> HIDE DEF g, x
  <2>4. ref_roll(x, Smooth) = strict_roll(x, Smooth)
    BY <1>h, <2>3, Rolls, GridSize DEF Agree
  <2>5. Agree(strict_roll(g, Smooth), strict_roll(x, Smooth), 0 + (Smooth - 1))
    BY <1>h, <1>e, <2>3, RollAgrees, GridSize
  <2>6. 0 + (Smooth - 1) \in Nat /\ Day \in Nat /\ 0 + (Smooth - 1) + Day \in Nat
        /\ 0 + (Smooth - 1) + Day <= e
    BY GridSize
  <2>7. Agree(lp, S37, 0 + (Smooth - 1) + Day)
    BY <1>h, <2>4, <2>5, <2>6, <2>l, <2>s, LagAgrees
  <2> QED
    BY <1>h, <1>e, <2>6, <2>7, AgreeLater
<1>3. E(All({S9, lp, both}), All({S30, rS9, ksat, S37}))
  <2>1. AgreeSets({S9, lp}, {rS9, S37}, e)
    BY <1>1, <1>2, Sets2
  <2>2. /\ \A i \in 1 .. GridHours : (\A g \in {both} : g[i]) <=> b
        /\ \A j \in 1 .. hour : (\A x \in {S30, ksat} : x[j]) <=> b
    BY <1>c, <1>k, <1>r
  <2>3. {both} \in SUBSET Series(GridHours) /\ {S30, ksat} \in SUBSET Series(hour)
    BY <1>c, <1>k, <1>r
  <2>4. E(All({S9, lp} \union {both}), All({rS9, S37} \union {S30, ksat}))
    BY <1>h, <1>e, <1>k, <2>1, <2>2, <2>3, SetsWithConstants
  <2>5. /\ {S9, lp} \union {both} = {S9, lp, both}
        /\ {rS9, S37} \union {S30, ksat} = {S30, rS9, ksat, S37}
    OBVIOUS
  <2> QED
    BY <2>4, <2>5
<1>4. E(All({S9, lp, both}), All({R["S30"], rS9, ksat, S37}))
  BY <1>3, <1>r
<1> QED
  BY <1>1, <1>4 DEF G, R, S9, rS9, lp, both, ksat, S37

\* Every derived channel of the window is what the record makes of it.
LEMMA DerivedClose ==
    ASSUME RowsOK, Kept, NEW f, f = derived(Grid, static, GridHours),
           NEW g, g = compute_features(Recorded)
    PROVE  \A c \in DerivedIds : Close(f[c], g[c])
<1> DEFINE G == Grid
           R == Recorded
           e == HISTORY + 1
<1>h. hour \in Nat
  BY WindowAssumption DEF RowsOK, Hour
<1>e. 0 \in Nat /\ 1 \in Nat /\ e \in Nat /\ 0 <= e /\ 1 <= e /\ e <= e
      /\ Week <= e /\ Week \in Nat /\ Week \in Nat \ {0} /\ 0 + 1 = 1
  BY GridSize
<1>p. \A p \in PodIds : Agree(G[p], R[p], 0)
  BY <1>e, GridAgrees, WindowAssumption
<1>f. /\ f["S1"] = rain_increment(G["P12"])
      /\ f["S2"] = decayed_sum(rain_increment(G["P12"]), Week)
      /\ f["S4"] = Diff(G["P11"]) /\ f["S6"] = All({G["P1"], G["P2"]})
      /\ f["S9"] = dev_S9(G, static, GridHours)
      /\ f["S13"] = vpd(G["P13"], G["P15"])
      /\ f["S15"] = dev_wind(G) /\ f["S16"] = dev_wind(G)
      /\ f["S18"] = All({G["P13"], G["P14"]})
      /\ f["S30"] = Constantly("S30" \in static, GridHours)
      /\ f["S33"] = Constantly("S33" \in static, GridHours)
      /\ f["S35"] = Constantly({"S30", "S33"} \subseteq static, GridHours)
      /\ f["T6"] = fwi(isi(dev_T1(G), dev_wind(G), dev_wind(G)), bui(dev_T2(G), dev_T3(G)))
      /\ f["T11"] = All({dev_S9(G, static, GridHours), Lag(dev_lp(G), Day),
                         Constantly("S30" \in static /\ ksat_cosby(static), GridHours)})
  BY DerivedAre
<1>g. /\ g["S1"] = ref_rain_increment(R["P12"])
      /\ g["S2"] = ref_decayed_sum(ref_rain_increment(R["P12"]), Week)
      /\ g["S4"] = Diff(R["P11"]) /\ g["S6"] = All({R["P1"], R["P2"]})
      /\ g["S9"] = ref_S9(R)
      /\ g["S13"] = All({R["P13"], R["P15"]})
      /\ g["S15"] = dev_wind(R) /\ g["S16"] = dev_wind(R)
      /\ g["S18"] = All({R["P14"], R["P13"]})
      /\ g["S30"] = R["S30"] /\ g["S33"] = R["S33"] /\ g["S35"] = All({R["S33"], R["S30"]})
      /\ g["T6"] = ref_fwi(ref_isi(ref_T1(R), dev_wind(R), dev_wind(R)),
                           ref_bui(ref_T2(R), ref_T3(R)))
      /\ g["T11"] = All({R["S30"], ref_S9(R), ref_ksat_cosby(R["P71"], R["P73"]),
                         ref_tilt_drift(R["P42"], R["P43"], R["P44"])})
  BY FeaturesAre
<1>r. /\ R["S30"] = Constantly("S30" \in static, hour)
      /\ R["S33"] = Constantly("S33" \in static, hour)
  BY StaticRecorded DEF StaticIds
<1>t. /\ Agree(f["S9"], g["S9"], e) /\ Agree(f["T6"], g["T6"], e) /\ Agree(f["T11"], g["T11"], e)
  BY <1>f, <1>g, FireWeather, SoilAndTilt
<1> HIDE DEF G, R, e
<1>s. ASSUME NEW p \in PodIds, NEW q \in PodIds
      PROVE  Close(All({G[p], G[q]}), All({R[p], R[q]}))
  <2>1. AgreeSets({G[p], G[q]}, {R[p], R[q]}, 0)
    BY <1>p, Sets2
  <2>2. Agree(All({G[p], G[q]}), All({R[p], R[q]}), 0)
    BY <1>h, <1>e, <2>1, SetsAgree
  <2> QED
    BY <1>h, <1>e, <2>2, AgreeClose DEF e
<1>d. ASSUME NEW p \in PodIds
      PROVE  Close(Diff(G[p]), Diff(R[p]))
  <2>1. Agree(Diff(G[p]), Diff(R[p]), 1)
    BY <1>h, <1>e, <1>p, DiffAgrees
  <2> QED
    BY <1>h, <1>e, <2>1, AgreeClose DEF e
<1>1. Close(f["S1"], g["S1"]) /\ Close(f["S4"], g["S4"])
  BY <1>d, <1>f, <1>g DEF PodIds, rain_increment, ref_rain_increment
<1>2. Close(f["S2"], g["S2"])
  <2>1. Agree(G["P12"], R["P12"], 0)
    BY <1>p DEF PodIds
  <2>2. Agree(f["S2"], g["S2"], Week)
    BY <1>h, <1>e, <1>f, <1>g, <2>1, RainSums
  <2> QED
    BY <1>h, <1>e, <2>2, AgreeClose DEF e
<1>3. Close(f["S6"], g["S6"]) /\ Close(f["S13"], g["S13"])
  BY <1>s, <1>f, <1>g DEF PodIds, vpd
<1>4. Close(f["S15"], g["S15"]) /\ Close(f["S16"], g["S16"])
  BY <1>s, <1>f, <1>g DEF PodIds, dev_wind
<1>5. Close(f["S18"], g["S18"])
  <2>1. {R["P13"], R["P14"]} = {R["P14"], R["P13"]}
    OBVIOUS
  <2>2. Close(All({G["P13"], G["P14"]}), All({R["P13"], R["P14"]}))
    BY <1>s DEF PodIds
  <2> QED
    BY <1>f, <1>g, <2>1, <2>2
<1>6. Close(f["S9"], g["S9"]) /\ Close(f["T6"], g["T6"]) /\ Close(f["T11"], g["T11"])
  BY <1>h, <1>e, <1>t, AgreeClose DEF e
<1>7. Close(f["S30"], g["S30"]) /\ Close(f["S33"], g["S33"])
  BY <1>h, <1>f, <1>g, <1>r, StaticClose
<1>8. Close(f["S35"], g["S35"])
  BY <1>h, <1>f, <1>g, <1>r, BothClose
<1> QED
  BY <1>1, <1>2, <1>3, <1>4, <1>5, <1>6, <1>7, <1>8 DEF DerivedIds

\* A channel is observed in the window where it is in the record: a pod's parameter,
\* a derived one, or one of the static block.
LEMMA ChannelsClose ==
    ASSUME RowsOK, Kept, NEW c \in Channels
    PROVE  Close(build_window[c], assemble_trained_channels[c])
<1> DEFINE f == derived(Grid, static, GridHours)
           g == compute_features(Recorded)
<1>h. hour \in Nat
  BY WindowAssumption DEF RowsOK, Hour
<1>d. DOMAIN f = DerivedIds /\ DOMAIN g = DerivedIds \union {"S3", "S11"}
  BY DerivedAre, FeaturesAre
<1>c. \A k \in DerivedIds : Close(f[k], g[k])
  BY DerivedClose
<1>n. c # "S3" /\ c # "S11"
  BY DEF Channels
<1>w. /\ build_window[c] = channel(c, Grid, DOMAIN SourceOf, f, static, GridHours)
      /\ assemble_trained_channels[c] = channel(c, Recorded, DOMAIN SourceOf, g, static, hour)
  BY DEF build_window, assemble_trained_channels
<1> HIDE DEF f, g
<1>1. CASE c \in DOMAIN SourceOf
  <2>1. build_window[c] = Grid[c] /\ assemble_trained_channels[c] = Recorded[c]
    BY <1>w, <1>1 DEF channel
  <2>2. 0 \in Nat /\ 0 <= HISTORY + 1
    BY GridSize
  <2>3. Agree(Grid[c], Recorded[c], 0)
    BY <1>1, <2>2, GridAgrees
  <2> QED
    BY <1>h, <2>1, <2>2, <2>3, AgreeClose
<1>2. CASE c \notin DOMAIN SourceOf /\ c \in DerivedIds
  <2>1. build_window[c] = f[c] /\ assemble_trained_channels[c] = g[c]
    BY <1>d, <1>w, <1>2 DEF channel
  <2> QED
    BY <1>2, <1>c, <2>1
<1>3. CASE c \notin DOMAIN SourceOf /\ c \notin DerivedIds
  <2>1. /\ build_window[c] = Constantly(c \in static, GridHours)
        /\ assemble_trained_channels[c] = Constantly(c \in static, hour)
    BY <1>d, <1>n, <1>w, <1>3 DEF channel
  <2> QED
    BY <1>h, <2>1, StaticClose
<1> QED
  BY <1>1, <1>2, <1>3

LEMMA RowsMatch == RowsOK /\ Kept => WindowMatchesReference
<1> SUFFICES ASSUME RowsOK, Kept, NEW r \in 2 .. Context, RowHour(r) >= 1, NEW c \in Channels
             PROVE  build_window[c][HISTORY + r] = assemble_trained_channels[c][RowHour(r)]
  BY DEF WindowMatchesReference, RowMatches
<1>1. HISTORY + r \in 1 .. GridHours /\ HISTORY + r > HISTORY + 1
  BY GridSize
<1>2. RowHour(r) = GridHour(HISTORY + r)
  BY DEF RowHour
<1>3. Close(build_window[c], assemble_trained_channels[c])
  BY ChannelsClose
<1> QED
  BY <1>1, <1>2, <1>3 DEF Close

\* The window masks what training would have masked: from the second row on, the same
\* channels are observed at the same hours, for every context length and span of the
\* rolling operations, whatever was lost, came late, was stored under another time by
\* the server or was pruned (build_window, compute_trained_channels, hourly_matrix,
\* poll_context, prune).  Nothing is said of the values.
THEOREM ReferenceTheorem == Spec => []WindowMatchesReference
<1>1. Init => RowsOK /\ Kept
  <2>1. Init => Kept
    BY DEF Init, Kept
  <2> QED
    BY <2>1, RowsInit
<1>2. RowsOK /\ Kept /\ [Next]_vars => (RowsOK /\ Kept)'
  BY RowsStep, KeptStep
<1> QED
  BY <1>1, <1>2, RowsMatch, PTL DEF Spec
=============================================================================
