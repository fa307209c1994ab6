--------------------------- MODULE PodPowerProofs ---------------------------
(***************************************************************************)
(* Proofs about PodPower, for every set of rails, every configuration of   *)
(* them and every budget.  The budget theorem rests on four lemmas about   *)
(* the load: it is finite, it grows by a rail's current when that rail is  *)
(* switched on, and it does not grow when no further rail comes up.        *)
(***************************************************************************)
EXTENDS PodPower, FiniteSetTheorems, TLAPS

\* The current of one rail, counted as the set of its milliamps.
LEMMA MilliampsCount ==
    ASSUME NEW d \in Domain
    PROVE  /\ IsFiniteSet(MilliampsOf(d))
           /\ Cardinality(MilliampsOf(d)) = CurrentMa[d]
<1> DEFINE I == 1 .. CurrentMa[d]
<1>1. CurrentMa[d] \in Nat
  BY PowerAssumption
<1>2. IsFiniteSet(I) /\ Cardinality(I) = CurrentMa[d]
  BY <1>1, FS_Interval
<1>3. IsFiniteSet({d}) /\ Cardinality({d}) = 1
  BY FS_Singleton
<1> HIDE DEF I
<1>4. IsFiniteSet({d} \X I) /\ Cardinality({d} \X I) = 1 * Cardinality(I)
  BY <1>2, <1>3, FS_Product
<1> QED
  BY <1>1, <1>2, <1>4 DEF MilliampsOf, I

\* The load of any assignment of states to rails is a finite set of milliamps.
LEMMA DrawnFinite ==
    ASSUME NEW st
    PROVE  IsFiniteSet(DrawnMa(st)) /\ Cardinality(DrawnMa(st)) \in Nat
<1> DEFINE Up == {e \in Domain : st[e] # "OFF"}
           Loads == {MilliampsOf(d) : d \in Up}
           f == [d \in Up |-> MilliampsOf(d)]
<1>1. IsFiniteSet(Up)
  BY PowerAssumption, FS_Subset
<1>2. f \in Surjection(Up, Loads)
  BY DEF Surjection
<1>3. IsFiniteSet(Loads)
  BY <1>1, <1>2, FS_Surjection DEF ExistsSurjection
<1>4. \A T \in Loads : IsFiniteSet(T)
  BY MilliampsCount
<1>5. IsFiniteSet(UNION Loads)
  BY <1>3, <1>4, FS_UNION
<1> QED
  BY <1>5, FS_CardinalityType DEF DrawnMa

\* Switching one rail on adds its current to the load.
LEMMA SwitchingOnAdds ==
    ASSUME NEW st \in [Domain -> States], NEW d \in Domain, st[d] = "OFF",
           NEW up \in States, up # "OFF"
    PROVE  Cardinality(DrawnMa([st EXCEPT ![d] = up])) =
               Cardinality(DrawnMa(st)) + CurrentMa[d]
<1> DEFINE st2 == [st EXCEPT ![d] = up]
<1>1. {e \in Domain : st2[e] # "OFF"} = {e \in Domain : st[e] # "OFF"} \union {d}
  OBVIOUS
<1>2. DrawnMa(st2) = DrawnMa(st) \union MilliampsOf(d)
  BY <1>1 DEF DrawnMa
<1>3. DrawnMa(st) \intersect MilliampsOf(d) = {}
  BY DEF DrawnMa, MilliampsOf
<1>4. Cardinality(DrawnMa(st) \intersect MilliampsOf(d)) = 0
  BY <1>3, FS_EmptySet
<1>5. Cardinality(DrawnMa(st2)) =
          Cardinality(DrawnMa(st)) + Cardinality(MilliampsOf(d)) - 0
  BY <1>2, <1>4, DrawnFinite, MilliampsCount, FS_Union
<1> QED
  BY <1>5, DrawnFinite, MilliampsCount, PowerAssumption

\* A change of state that brings no further rail up does not raise the load.
LEMMA NoNewRailNoMoreLoad ==
    ASSUME NEW st, NEW st2,
           \A e \in Domain : st2[e] # "OFF" => st[e] # "OFF"
    PROVE  Cardinality(DrawnMa(st2)) <= Cardinality(DrawnMa(st))
<1>1. DrawnMa(st2) \in SUBSET DrawnMa(st)
  BY DEF DrawnMa
<1> QED
  BY <1>1, DrawnFinite, FS_Subset

-----------------------------------------------------------------------------
\* Time differences stay in the range of the clock.
LEMMA ElapsedType ==
    ASSUME TypeOK, NEW then \in 0 .. Wrap - 1
    PROVE  elapsed(then) \in 0 .. Wrap - 1
  BY PowerAssumption DEF elapsed, TypeOK

\* The state pwr_init sets up is in range.
LEMMA TypeStart == Init => TypeOK
  BY PowerAssumption DEF Init, TypeOK, States

\* Every call of the controller keeps its state in range.
LEMMA TypeStep == TypeOK /\ [Next]_pwr_vars => TypeOK'
<1> USE PowerAssumption DEF TypeOK, States, Events
<1> SUFFICES ASSUME TypeOK, [Next]_pwr_vars
             PROVE  TypeOK'
  OBVIOUS
<1>1. ASSUME NEW dt \in 0 .. Wrap - 1, Advance(dt)
      PROVE  TypeOK'
  BY <1>1 DEF Advance
<1>2. ASSUME NEW d \in Domain, pwr_acquire(d)
      PROVE  TypeOK'
  BY <1>2 DEF pwr_acquire, AcquireSwitchingOn, AcquireJoining, AcquireRefused, switch_on
<1>3. ASSUME NEW d \in Domain, pwr_release(d)
      PROVE  TypeOK'
  BY <1>3 DEF pwr_release, ReleaseLast, ReleaseKeeping, ReleaseRefused, switch_off
<1>4. ASSUME NEW d \in Domain, pwr_arm(d)
      PROVE  TypeOK'
  BY <1>4 DEF pwr_arm, Arm, Disarm, switch_on, switch_off
<1>5. ASSUME NEW d \in Domain, pwr_tick_domain(d)
      PROVE  TypeOK'
  <2>1. CASE TickOpensWindow(d)
    BY <2>1 DEF TickOpensWindow, switch_on
  <2>2. CASE TickDefersWindow(d)
    BY <2>2 DEF TickDefersWindow
  <2>3. CASE TickForcesOff(d)
    BY <2>3 DEF TickForcesOff, switch_off, SettleEvents
  <2>4. CASE TickSettles(d)
    BY <2>4 DEF TickSettles, SettleEvents
  <2> QED
    BY <1>5, <2>1, <2>2, <2>3, <2>4 DEF pwr_tick_domain
<1>6. CASE UNCHANGED pwr_vars
  BY <1>6 DEF pwr_vars
<1> QED
  BY <1>1, <1>2, <1>3, <1>4, <1>5, <1>6 DEF Next

\* The reference counter saturates instead of wrapping and the timestamps stay on
\* the clock, for every sequence of calls.
THEOREM TypeCorrect == Spec => []TypeOK
  BY TypeStart, TypeStep, PTL DEF Spec

-----------------------------------------------------------------------------
\* What a call may do to the load: bring one rail up after the budget check, or
\* bring no rail up at all.
LEMMA LoadStep ==
    ASSUME TypeOK, [Next]_pwr_vars
    PROVE  \/ \E d \in Domain : \E up \in States \ {"OFF"} :
                /\ WithinBudget(d) /\ state[d] = "OFF"
                /\ state' = [state EXCEPT ![d] = up]
           \/ \A e \in Domain : state'[e] # "OFF" => state[e] # "OFF"
<1> USE PowerAssumption DEF TypeOK, States
<1>1. CASE (\E dt \in 0 .. Wrap - 1 : Advance(dt)) \/ UNCHANGED pwr_vars
  BY <1>1 DEF Advance, pwr_vars
<1>2. ASSUME NEW d \in Domain, pwr_acquire(d) \/ pwr_release(d) \/ pwr_arm(d)
      PROVE  \/ \E up \in States \ {"OFF"} :
                  /\ WithinBudget(d) /\ state[d] = "OFF"
                  /\ state' = [state EXCEPT ![d] = up]
             \/ \A e \in Domain : state'[e] # "OFF" => state[e] # "OFF"
  BY <1>2 DEF pwr_acquire, AcquireSwitchingOn, AcquireJoining, AcquireRefused,
              pwr_release, ReleaseLast, ReleaseKeeping, ReleaseRefused,
              pwr_arm, Arm, Disarm, switch_on, switch_off
<1>3. ASSUME NEW d \in Domain, pwr_tick_domain(d)
      PROVE  \/ \E up \in States \ {"OFF"} :
                  /\ WithinBudget(d) /\ state[d] = "OFF"
                  /\ state' = [state EXCEPT ![d] = up]
             \/ \A e \in Domain : state'[e] # "OFF" => state[e] # "OFF"
  BY <1>3 DEF pwr_tick_domain, TickOpensWindow, TickDefersWindow, TickForcesOff,
              TickSettles, Settles, switch_on, switch_off
<1> QED
  BY <1>1, <1>2, <1>3 DEF Next

\* The rails never draw more than the budget together, for any number of rails
\* with any currents: switch_on is the only way up and checks the whole load.
THEOREM BudgetTheorem == Spec => []BudgetRespected
<1>1. Init => BudgetRespected
  <2> SUFFICES ASSUME Init PROVE pwr_load_ma = 0
    BY PowerAssumption DEF BudgetRespected
  <2>1. DrawnMa(state) = {}
    BY DEF Init, DrawnMa
  <2> QED
    BY <2>1, FS_EmptySet DEF pwr_load_ma
<1>2. TypeOK /\ BudgetRespected /\ [Next]_pwr_vars => BudgetRespected'
  <2> SUFFICES ASSUME TypeOK, BudgetRespected, [Next]_pwr_vars, BudgetMa # 0
               PROVE  Cardinality(DrawnMa(state')) <= BudgetMa
    BY DEF BudgetRespected, pwr_load_ma
  <2>1. ASSUME NEW d \in Domain, NEW up \in States \ {"OFF"},
               WithinBudget(d), state[d] = "OFF", state' = [state EXCEPT ![d] = up]
        PROVE  Cardinality(DrawnMa(state')) <= BudgetMa
    <3>1. Cardinality(DrawnMa(state')) = Cardinality(DrawnMa(state)) + CurrentMa[d]
      BY <2>1, SwitchingOnAdds DEF TypeOK
    <3> QED
      BY <2>1, <3>1 DEF WithinBudget, pwr_load_ma
  <2>2. ASSUME \A e \in Domain : state'[e] # "OFF" => state[e] # "OFF"
        PROVE  Cardinality(DrawnMa(state')) <= BudgetMa
    <3>1. Cardinality(DrawnMa(state')) <= Cardinality(DrawnMa(state))
      BY <2>2, NoNewRailNoMoreLoad
    <3> QED
      BY <3>1, DrawnFinite, PowerAssumption DEF BudgetRespected, pwr_load_ma
  <2> QED
    BY <2>1, <2>2, LoadStep
<1> QED
  BY <1>1, <1>2, TypeCorrect, PTL DEF Spec

-----------------------------------------------------------------------------
\* A rail is up exactly as long as its policy has a reason for it: a reader holds
\* an energised rail, a per-read rail is up only for a reader, and an armed rail
\* only while armed, whatever order calls, caps and commands come in.
THEOREM RailRulesTheorem == Spec => []RailRules
<1> USE PowerAssumption DEF TypeOK, States, RailRules, HeldIsPowered,
                            PerReadOnlyWhileHeld, UpOnlyWhileArmed
<1>1. Init => RailRules
  BY DEF Init
<1>2. TypeOK /\ RailRules /\ [Next]_pwr_vars => RailRules'
  <2> SUFFICES ASSUME TypeOK, RailRules, [Next]_pwr_vars
               PROVE  RailRules'
    OBVIOUS
  <2>1. CASE (\E dt \in 0 .. Wrap - 1 : Advance(dt)) \/ UNCHANGED pwr_vars
    BY <2>1 DEF Advance, pwr_vars
  <2>2. ASSUME NEW d \in Domain, pwr_acquire(d)
        PROVE  RailRules'
    <3>1. CASE AcquireSwitchingOn(d)
      BY <3>1 DEF AcquireSwitchingOn, switch_on
    <3>2. CASE AcquireJoining(d) \/ AcquireRefused(d)
      BY <3>2 DEF AcquireJoining, AcquireRefused
    <3> QED
      BY <2>2, <3>1, <3>2 DEF pwr_acquire
  <2>3. ASSUME NEW d \in Domain, pwr_release(d)
        PROVE  RailRules'
    <3>1. CASE ReleaseLast(d)
      BY <3>1 DEF ReleaseLast, switch_off
    <3>2. CASE ReleaseKeeping(d) \/ ReleaseRefused(d)
      BY <3>2 DEF ReleaseKeeping, ReleaseRefused
    <3> QED
      BY <2>3, <3>1, <3>2 DEF pwr_release
  <2>4. ASSUME NEW d \in Domain, pwr_arm(d)
        PROVE  RailRules'
    BY <2>4 DEF pwr_arm, Arm, Disarm, switch_on, switch_off
  <2>5. ASSUME NEW d \in Domain, pwr_tick_domain(d)
        PROVE  RailRules'
    <3>1. CASE TickOpensWindow(d)
      BY <3>1 DEF TickOpensWindow, switch_on
    <3>2. CASE TickDefersWindow(d)
      BY <3>2 DEF TickDefersWindow
    <3>3. CASE TickForcesOff(d)
      BY <3>3 DEF TickForcesOff, switch_off
    <3>4. CASE TickSettles(d)
      BY <3>4 DEF TickSettles, Settles
    <3> QED
      BY <2>5, <3>1, <3>2, <3>3, <3>4 DEF pwr_tick_domain
  <2> QED
    BY <2>1, <2>2, <2>3, <2>4, <2>5 DEF Next
<1> QED
  BY <1>1, <1>2, TypeCorrect, PTL DEF Spec

-----------------------------------------------------------------------------
\* A window long enough to settle is never closed unread: the tick that closes it
\* makes the settle transition first, so a late tick still emits READY.
THEOREM WindowTheorem == Spec => WindowIsReadBeforeItCloses
<1> DEFINE Told(d) == /\ Policy[d] = "periodic" /\ SettleMs[d] <= OnMs[d]
                      /\ state[d] = "SETTLING" /\ state'[d] = "OFF"
                      => <<d, "READY">> \in emitted'
<1>1. TypeOK /\ [Next]_pwr_vars => \A d \in Domain : Told(d)
  <2> SUFFICES ASSUME TypeOK, [Next]_pwr_vars, NEW d \in Domain,
                      Policy[d] = "periodic", SettleMs[d] <= OnMs[d],
                      state[d] = "SETTLING", state'[d] = "OFF"
               PROVE  <<d, "READY">> \in emitted'
    OBVIOUS
  <2> USE PowerAssumption DEF TypeOK, States
  <2>1. ~((\E dt \in 0 .. Wrap - 1 : Advance(dt)) \/ UNCHANGED pwr_vars)
    BY DEF Advance, pwr_vars
  <2>2. ASSUME NEW e \in Domain, pwr_acquire(e) \/ pwr_release(e) \/ pwr_arm(e)
        PROVE  FALSE
    BY <2>2 DEF pwr_acquire, AcquireSwitchingOn, AcquireJoining, AcquireRefused,
                pwr_release, ReleaseLast, ReleaseKeeping, ReleaseRefused,
                pwr_arm, Arm, Disarm, switch_on, switch_off
  <2>3. PICK e \in Domain : pwr_tick_domain(e)
    BY <2>1, <2>2 DEF Next
  <2>4. TickForcesOff(d)
    BY <2>3 DEF pwr_tick_domain, TickOpensWindow, TickDefersWindow, TickForcesOff,
                TickSettles, switch_on, switch_off
  <2>5. elapsed(t_on[d]) \in Int
    BY ElapsedType
  <2>6. Settles(d)
    BY <2>4, <2>5 DEF TickForcesOff, OnTimeOver, Settles
  <2> QED
    BY <2>4, <2>6 DEF TickForcesOff, switch_off, SettleEvents
<1> QED
  BY <1>1, TypeCorrect, PTL DEF Spec, WindowIsReadBeforeItCloses
=============================================================================
