---------------------------- MODULE PodLoopProofs ---------------------------
(***************************************************************************)
(* Proofs about PodLoop.  The loop calls the controller and nothing else   *)
(* touches the rails, so it implements PodPower and inherits its theorems; *)
(* on top of them an invariant on who holds references at each point of    *)
(* the loop gives that nothing is energised between reads and that a       *)
(* driver is asked only while its rail is settled, and one on the          *)
(* transducers a cycle is past that what is published as fresh was read.   *)
(* The last part adds up what the drivers, the sleeps and the rest of a    *)
(* pass take, which bounds how long a rail with an on-time stays up.       *)
(***************************************************************************)
EXTENDS PodLoop, PodPowerProofs, NaturalLemmas

\* Places of the loop at which sampler_read_desc holds a reference.
Holding == {"settle", "settle tick", "read", "release"}

\* The loop's own control state: its index is inside the table it walks, and it
\* waits and reads only for transducers whose rail it manages.
LoopIndex ==
    /\ pc \in Places
    /\ pc = "tick" => idx \in 1 .. Len(DomainOrder)
    /\ pc \in Holding \union {"cycle"} => idx \in 1 .. Len(XdcrOrder)
    /\ pc \in {"boot", "publish", "service", "wait"} => idx = 1
    /\ pc \in Holding => Managed(Current)

\* The tables are not empty and name rails and transducers.
LEMMA Tables ==
    /\ Len(DomainOrder) \in Nat \ {0} /\ Len(XdcrOrder) \in Nat \ {0}
    /\ \A i \in 1 .. Len(DomainOrder) : DomainOrder[i] \in Domain
    /\ \A i \in 1 .. Len(XdcrOrder) : XdcrOrder[i] \in Xdcr
<1>1. Len(DomainOrder) \in Nat /\ Len(XdcrOrder) \in Nat \ {0}
  BY LoopAssumption
<1>2. /\ \A i \in 1 .. Len(DomainOrder) : DomainOrder[i] \in Domain
      /\ \A i \in 1 .. Len(XdcrOrder) : XdcrOrder[i] \in Xdcr
  BY LoopAssumption
<1>3. DomainOrder # <<>>
  BY LoopAssumption DEF Range
<1>4. Len(DomainOrder) # 0
  BY <1>3, LoopAssumption
<1> QED
  BY <1>1, <1>2, <1>4

\* A rail whose reader the loop is waiting for is a rail of the controller.
LEMMA ManagedRail ==
    ASSUME LoopIndex, pc \in Holding \union {"cycle"}, Managed(Current)
    PROVE  Rail \in Domain /\ Current \in Xdcr /\ Policy[Rail] # "periodic"
  BY Tables, LoopAssumption DEF LoopIndex, Managed, Rail, Current

\* Moving on to the next transducer keeps the index inside the table.
LEMMA NextXdcrIndex ==
    ASSUME LoopIndex, pc \in Holding \union {"cycle"}, NextXdcr
    PROVE  LoopIndex'
<1>1. idx \in 1 .. Len(XdcrOrder) /\ Len(XdcrOrder) \in Nat
  BY Tables DEF LoopIndex
<1>2. \/ pc' = "cycle" /\ idx < Len(XdcrOrder) /\ idx' = idx + 1
      \/ pc' = "publish" /\ idx' = 1
  BY DEF NextXdcr
<1>3. \/ pc' = "cycle" /\ idx' \in 1 .. Len(XdcrOrder)
      \/ pc' = "publish" /\ idx' = 1
  BY <1>1, <1>2
<1> QED
  BY <1>3 DEF LoopIndex, Places, Holding

\* The control state is kept by every step.
LEMMA IndexStep == LoopIndex /\ [LoopNext]_vars => LoopIndex'
<1> SUFFICES ASSUME LoopIndex, [LoopNext]_vars
             PROVE  LoopIndex'
  OBVIOUS
<1>1. CASE TickRail
  <2>1. idx \in 1 .. Len(DomainOrder) /\ Len(DomainOrder) \in Nat
    BY <1>1, Tables DEF TickRail, LoopIndex
  <2>2. \/ pc' = "tick" /\ idx < Len(DomainOrder) /\ idx' = idx + 1
        \/ pc' \in {"cycle", "service"} /\ idx' = 1
    BY <1>1 DEF TickRail
  <2>3. \/ pc' = "tick" /\ idx' \in 1 .. Len(DomainOrder)
        \/ pc' \in {"cycle", "service"} /\ idx' = 1
    BY <2>1, <2>2
  <2>4. 1 \in 1 .. Len(XdcrOrder)
    BY Tables
  <2> QED
    BY <2>3, <2>4 DEF LoopIndex, Places, Holding
<1>2. CASE CarryPeriodic \/ ReadPassive \/ NoRail \/ ReleaseRail
  <2>1. NextXdcr /\ pc \in Holding \union {"cycle"}
    BY <1>2 DEF CarryPeriodic, ReadPassive, NoRail, ReleaseRail, Holding
  <2> QED
    BY <2>1, NextXdcrIndex
<1>3. CASE AcquireRail
  BY <1>3 DEF LoopIndex, Places, Holding, AcquireRail, Managed, Current
<1>4. CASE SleepWhileSettling \/ ReadManaged
  BY <1>4 DEF LoopIndex, Places, Holding, SleepWhileSettling, ReadManaged, Managed, Current
<1>5. CASE SettleTick
  <2>1. CASE NextXdcr
    BY <1>5, <2>1, NextXdcrIndex DEF SettleTick, Holding
  <2>2. CASE pc' \in {"read", "settle"} /\ UNCHANGED idx
    BY <1>5, <2>2 DEF SettleTick, LoopIndex, Places, Holding, Managed, Current
  <2> QED
    BY <1>5, <2>1, <2>2 DEF SettleTick
<1>6. CASE Publish \/ Service
  BY <1>6 DEF LoopIndex, Places, Holding, Publish, Service, Managed, Current
<1>7. CASE Boot \/ Wait
  <2>1. pc' = "tick" /\ idx' = 1
    BY <1>7 DEF Boot, Wait, LoopIndex
  <2>2. 1 \in 1 .. Len(DomainOrder)
    BY Tables
  <2> QED
    BY <2>1, <2>2 DEF LoopIndex, Places, Holding
<1>8. CASE ReadClock
  BY <1>8 DEF ReadClock, LoopIndex, Managed, Current
<1>9. CASE UNCHANGED vars
  BY <1>9 DEF vars, loop_vars, LoopIndex, Managed, Current
<1> QED
  BY <1>1, <1>2, <1>3, <1>4, <1>5, <1>6, <1>7, <1>8, <1>9 DEF LoopNext

\* The clock has just been read wherever the loop goes to sleep or has waited for
\* a rail.
ClockInv ==
    /\ behind \in Nat
    /\ pc \in {"settle", "settle tick", "read", "wait"} => behind = 0

LEMMA TakesTime ==
    ASSUME behind \in Nat, NEW most \in Nat, Takes(most)
    PROVE  behind' \in Nat /\ behind' >= behind /\ behind' <= behind + most
  BY DEF Takes

LEMMA ClockStep == LoopIndex /\ ClockInv /\ [LoopNext]_vars => ClockInv'
<1> SUFFICES ASSUME LoopIndex, ClockInv, [LoopNext]_vars
             PROVE  ClockInv'
  OBVIOUS
<1>1. CASE TickRail
  <2>1. DomainOrder[idx] \in Domain
    BY <1>1, Tables DEF TickRail, LoopIndex
  <2>2. \E most \in Nat : Takes(most)
    BY <1>1, <2>1, LoopAssumption DEF TickRail
  <2> QED
    BY <1>1, <2>2, TakesTime DEF TickRail, ClockInv
<1>2. CASE ReadPassive \/ ReadManaged
  <2>1. Current \in Xdcr
    BY <1>2, Tables DEF ReadPassive, ReadManaged, LoopIndex, Holding, Current
  <2>2. Takes(ReadMs[Current]) /\ ReadMs[Current] \in Nat
    BY <1>2, <2>1, LoopAssumption DEF ReadPassive, ReadManaged
  <2> QED
    BY <1>2, <2>2, TakesTime DEF ReadPassive, ReadManaged, NextXdcr, ClockInv
<1>3. CASE Publish
  BY <1>3, TakesTime, LoopAssumption DEF Publish, ClockInv
<1>4. CASE ReadClock
  BY <1>4 DEF ReadClock, ClockInv
<1>5. CASE Boot \/ CarryPeriodic \/ AcquireRail \/ NoRail \/ SleepWhileSettling \/ SettleTick
           \/ ReleaseRail \/ Service \/ Wait
  BY <1>5 DEF Boot, CarryPeriodic, AcquireRail, NoRail, SleepWhileSettling, SettleTick, ReleaseRail,
              Service, Wait, NextXdcr, ClockInv
<1>6. CASE UNCHANGED vars
  BY <1>6 DEF vars, loop_vars, ClockInv
<1> QED
  BY <1>1, <1>2, <1>3, <1>4, <1>5, <1>6 DEF LoopNext

-----------------------------------------------------------------------------
\* The clock's arithmetic, on numbers less than two turns apart.
LEMMA Modulus ==
    ASSUME NEW w \in Nat \ {0}, NEW x \in Int
    PROVE  /\ x \in 0 .. w - 1 => x % w = x
           /\ x \in w .. 2 * w - 1 => x % w = x - w
           /\ x \in -w .. -1 => x % w = x + w
<1>1. x % w \in 0 .. w - 1 /\ x = w * (x \div w) + (x % w) /\ x \div w \in Int
  OBVIOUS
<1>2. x \in 0 .. w - 1 => x \div w = 0
  BY <1>1
<1>3. x \in w .. 2 * w - 1 => x \div w = 1
  BY <1>1
<1>4. x \in -w .. -1 => x \div w = -1
  BY <1>1
<1> QED
  BY <1>1, <1>2, <1>3, <1>4

LEMMA Difference ==
    ASSUME NEW w \in Nat \ {0}, NEW n \in 0 .. w - 1, NEW t \in 0 .. w - 1
    PROVE  (n - t) % w = IF n >= t THEN n - t ELSE n - t + w
<1>1. n - t \in Int /\ (n >= t => n - t \in 0 .. w - 1) /\ (n < t => n - t \in -w .. -1)
  OBVIOUS
<1> QED
  BY <1>1, Modulus

\* Whole turns of the clock are not seen.
LEMMA ClockTurns ==
    ASSUME NEW w \in Nat \ {0}, NEW n \in 0 .. w - 1, NEW dt \in Nat
    PROVE  dt % w \in 0 .. w - 1 /\ (n + (dt % w)) % w = (n + dt) % w
<1>1. PICK q, r : q = dt \div w /\ r = dt % w
  OBVIOUS
<1>2. q \in Int /\ r \in 0 .. w - 1 /\ dt = w * q + r
  BY <1>1
<1>3. PICK k, m : k = (n + dt) \div w /\ m = (n + dt) % w
  OBVIOUS
<1>4. k \in Int /\ m \in 0 .. w - 1 /\ n + dt = w * k + m
  BY <1>3
<1>5. n + r = w * (k - q) + m /\ n + r \in 0 .. 2 * w - 2 /\ k - q \in Int
  <2>1. w * (k - q) = w * k - w * q
    BY <1>2, <1>4
  <2> QED
    BY <1>2, <1>4, <2>1
<1>6. PICK j \in Int : j = k - q
  BY <1>5
<1>7. n + r = w * j + m
  BY <1>5, <1>6
<1>8. j = 0 \/ j = 1
  <2>1. w * j > -w /\ w * j < 2 * w
    BY <1>2, <1>4, <1>7
  <2>2. j >= 2 => w * j >= w * 2
    BY <1>6
  <2>3. j <= -1 => w * j <= -w
    BY <1>6
  <2> QED
    BY <2>1, <2>2, <2>3, <1>6
<1>9. (n + r) % w = m
  <2>1. CASE j = 0
    <3>1. n + r = m /\ n + r \in 0 .. w - 1 /\ n + r \in Int
      BY <1>2, <1>4, <1>7, <2>1
    <3> QED
      BY <3>1, Modulus
  <2>2. CASE j = 1
    <3>1. n + r = m + w /\ n + r \in w .. 2 * w - 1 /\ n + r \in Int /\ (n + r) - w = m
      BY <1>2, <1>4, <1>7, <2>2
    <3> QED
      BY <3>1, Modulus
  <2> QED
    BY <1>8, <2>1, <2>2
<1> QED
  BY <1>1, <1>2, <1>3, <1>9

\* A sleep of the loop, however long, is a step of the controller's clock.
LEMMA SleepIsAdvance ==
    ASSUME TypeOK, NEW dt \in Nat, Advance(dt)
    PROVE  Next
<1>1. Wrap \in Nat \ {0} /\ now \in 0 .. Wrap - 1
  BY PowerAssumption DEF TypeOK
<1>2. /\ dt % Wrap \in 0 .. Wrap - 1
      /\ (now + (dt % Wrap)) % Wrap = (now + dt) % Wrap
  BY <1>1, ClockTurns
<1>3. Advance(dt % Wrap)
  BY <1>2 DEF Advance
<1> QED
  BY <1>2, <1>3 DEF Next

\* What a settle wait sleeps is less than a turn of the clock.
LEMMA SettleSleep ==
    ASSUME TypeOK, LoopIndex, SleepWhileSettling
    PROVE  \E dt \in 1 .. Wrap - 1 : Advance(dt)
<1>1. Rail \in Domain
  BY ManagedRail DEF SleepWhileSettling, LoopIndex, Holding
<1>2. SettleMs[Rail] \in Nat /\ Overshoot \in Nat /\ SettleMs[Rail] + Overshoot + 1 < Wrap /\ Wrap \in Nat
  BY <1>1, PowerAssumption, LoopAssumption
<1>3. elapsed(t_on[Rail]) \in 0 .. Wrap - 1
  BY <1>1, ElapsedType DEF TypeOK
<1>4. pwr_settle_remaining_ms(Rail) \in 0 .. SettleMs[Rail]
  BY <1>2, <1>3 DEF pwr_settle_remaining_ms
<1>5. PICK late \in 0 .. Overshoot :
          Advance((IF pwr_settle_remaining_ms(Rail) = 0 THEN 1
                   ELSE pwr_settle_remaining_ms(Rail)) + late)
  BY DEF SleepWhileSettling
<1>6. (IF pwr_settle_remaining_ms(Rail) = 0 THEN 1
       ELSE pwr_settle_remaining_ms(Rail)) + late \in 1 .. Wrap - 1
  BY <1>2, <1>4
<1> QED
  BY <1>5, <1>6

\* Every step of the loop is a call of the controller, a step of the clock, or
\* leaves the controller alone.
LEMMA LoopStepIsControllerStep ==
    TypeOK /\ LoopIndex /\ ClockInv /\ [LoopNext]_vars => [Next]_pwr_vars
<1> SUFFICES ASSUME TypeOK, LoopIndex, ClockInv, [LoopNext]_vars
             PROVE  Next \/ UNCHANGED pwr_vars
  OBVIOUS
<1>1. CASE TickRail
  <2>1. DomainOrder[idx] \in Domain
    BY <1>1, Tables DEF TickRail, LoopIndex
  <2> QED
    BY <1>1, <2>1 DEF TickRail, Next
<1>2. CASE CarryPeriodic \/ ReadPassive \/ ReadManaged \/ Publish
  BY <1>2 DEF CarryPeriodic, ReadPassive, ReadManaged, Publish
<1>3. CASE AcquireRail
  <2>1. Rail \in Domain
    BY <1>3, ManagedRail DEF AcquireRail
  <2> QED
    BY <1>3, <2>1 DEF AcquireRail, Next, pwr_acquire
<1>4. CASE NoRail
  <2>1. Rail \in Domain
    BY <1>4, ManagedRail DEF NoRail
  <2> QED
    BY <1>4, <2>1 DEF NoRail, Next, pwr_acquire
<1>5. CASE SleepWhileSettling
  <2>1. PICK dt \in 1 .. Wrap - 1 : Advance(dt)
    BY <1>5, SettleSleep
  <2>2. dt \in Nat
    BY PowerAssumption
  <2> QED
    BY <2>1, <2>2, SleepIsAdvance
<1>6. CASE SettleTick
  <2>1. Rail \in Domain
    BY <1>6, ManagedRail DEF SettleTick, LoopIndex, Holding
  <2> QED
    BY <1>6, <2>1 DEF SettleTick, Next
<1>7. CASE ReleaseRail
  <2>1. Rail \in Domain
    BY <1>7, ManagedRail DEF ReleaseRail, LoopIndex, Holding
  <2> QED
    BY <1>7, <2>1 DEF ReleaseRail, Next
<1>8. CASE Boot \/ Service
  BY <1>8 DEF Boot, Service, Next, pwr_arm
<1>9. CASE ReadClock \/ Wait
  <2>1. \E dt \in Nat : Advance(dt)
    <3>1. CASE ReadClock
      BY <3>1 DEF ReadClock, ClockInv
    <3>2. CASE Wait
      BY <3>2, LoopAssumption, PowerAssumption DEF Wait
    <3> QED
      BY <1>9, <3>1, <3>2
  <2> QED
    BY <2>1, SleepIsAdvance
<1>10. CASE UNCHANGED vars
  BY <1>10 DEF vars
<1> QED
  BY <1>1, <1>2, <1>3, <1>4, <1>5, <1>6, <1>7, <1>8, <1>9, <1>10 DEF LoopNext

LEMMA LoopStart == LoopInit => LoopIndex /\ ClockInv
<1> SUFFICES ASSUME LoopInit PROVE LoopIndex /\ ClockInv
  OBVIOUS
<1>1. pc = "boot" /\ idx = 1 /\ behind \in Nat
  BY LoopAssumption DEF LoopInit
<1> QED
  BY <1>1 DEF LoopIndex, ClockInv, Places, Holding

\* The firmware's main loop uses the power controller as PodPower specifies it: no
\* step of the loop changes a rail otherwise than by a call of the controller, so
\* every theorem about the controller holds of the pod.
THEOREM LoopImplementsController == LoopSpec => Spec
<1>1. LoopInit => Init /\ TypeOK /\ LoopIndex /\ ClockInv
  BY LoopStart, TypeStart DEF LoopInit
<1>2. /\ TypeOK /\ LoopIndex /\ ClockInv /\ [LoopNext]_vars
      => [Next]_pwr_vars /\ TypeOK' /\ LoopIndex' /\ ClockInv'
  BY LoopStepIsControllerStep, IndexStep, ClockStep, TypeStep
<1> QED
  BY <1>1, <1>2, PTL DEF LoopSpec, Spec

-----------------------------------------------------------------------------
\* The only reference ever held is the one of the transducer being read.
LoopRefs ==
    \A d \in Domain :
        refs[d] = IF pc \in Holding /\ d = RailOf[XdcrOrder[idx]] THEN 1 ELSE 0

\* No reader holds a rail.
NoRefs == \A d \in Domain : refs[d] = 0

\* A tick takes references away only by cutting its rail off.
LEMMA TickRefs ==
    ASSUME TypeOK, NEW d \in Domain, pwr_tick_domain(d)
    PROVE  \/ refs' = refs
           \/ refs' = [refs EXCEPT ![d] = 0] /\ state'[d] = "OFF"
  BY DEF TypeOK, pwr_tick_domain, TickOpensWindow, TickDefersWindow, TickForcesOff,
         TickSettles, switch_on, switch_off

\* A tick on a rail that is up takes its references exactly when it cuts it off.
LEMMA TickOfHeldRail ==
    ASSUME TypeOK, NEW d \in Domain, state[d] # "OFF", pwr_tick_domain(d)
    PROVE  \/ refs' = refs /\ state'[d] # "OFF"
           \/ refs' = [refs EXCEPT ![d] = 0] /\ state'[d] = "OFF"
  BY DEF TypeOK, States, pwr_tick_domain, TickOpensWindow, TickDefersWindow,
         TickForcesOff, TickSettles, switch_on, switch_off

\* Giving back the only reference leaves none.
LEMMA ReleaseRefs ==
    ASSUME TypeOK, NEW d \in Domain, refs[d] = 1, pwr_release(d)
    PROVE  refs' = [refs EXCEPT ![d] = 0]
  BY DEF TypeOK, pwr_release, ReleaseLast, ReleaseKeeping, ReleaseRefused, switch_off

\* The first reader holds one reference.
LEMMA AcquireRefs ==
    ASSUME TypeOK, NEW d \in Domain, refs[d] = 0,
           AcquireSwitchingOn(d) \/ AcquireJoining(d)
    PROVE  refs' = [refs EXCEPT ![d] = 1]
  BY PowerAssumption DEF TypeOK, AcquireSwitchingOn, AcquireJoining

\* Moving on to the next transducer with no reference held.
LEMMA NextXdcrRefs ==
    ASSUME NextXdcr, NoRefs'
    PROVE  LoopRefs'
<1>1. pc' \notin Holding
  BY DEF NextXdcr, Holding
<1> QED
  BY <1>1 DEF LoopRefs, NoRefs

LEMMA RefsStep ==
    TypeOK /\ LoopIndex /\ HeldIsPowered /\ LoopRefs /\ [LoopNext]_vars => LoopRefs'
<1> SUFFICES ASSUME TypeOK, LoopIndex, HeldIsPowered, LoopRefs, [LoopNext]_vars
             PROVE  LoopRefs'
  OBVIOUS
<1>1. CASE TickRail
  <2>1. DomainOrder[idx] \in Domain /\ pc = "tick" /\ pwr_tick_domain(DomainOrder[idx])
    BY <1>1, Tables DEF TickRail, LoopIndex
  <2>2. \A d \in Domain : refs[d] = 0
    BY <2>1 DEF LoopRefs, Holding
  <2>3. \A d \in Domain : refs'[d] = 0
    BY <2>1, <2>2, TickRefs DEF TypeOK
  <2>4. pc' \notin Holding
    BY <1>1 DEF TickRail, Holding
  <2> QED
    BY <2>3, <2>4 DEF LoopRefs
<1>2. CASE CarryPeriodic \/ ReadPassive \/ NoRail
  <2>1. pc = "cycle" /\ NextXdcr /\ refs' = refs
    BY <1>2 DEF CarryPeriodic, ReadPassive, NoRail, pwr_vars, AcquireRefused
  <2>2. NoRefs'
    BY <2>1 DEF NoRefs, LoopRefs, Holding
  <2> QED
    BY <2>1, <2>2, NextXdcrRefs
<1>3. CASE AcquireRail
  <2> DEFINE r == RailOf[XdcrOrder[idx]]
  <2>1. r \in Domain
    BY <1>3, ManagedRail DEF AcquireRail, Rail, Current
  <2>2. \A d \in Domain : refs[d] = 0
    BY <1>3 DEF LoopRefs, AcquireRail, Holding
  <2>3. AcquireSwitchingOn(r) \/ AcquireJoining(r)
    BY <1>3 DEF AcquireRail, Rail, Current
  <2>4. refs' = [refs EXCEPT ![r] = 1]
    BY <2>1, <2>2, <2>3, AcquireRefs
  <2>5. pc' \in Holding /\ idx' = idx
    BY <1>3 DEF AcquireRail, Holding
  <2>6. refs \in [Domain -> 0 .. RefMax]
    BY DEF TypeOK
  <2> QED
    BY <2>1, <2>2, <2>4, <2>5, <2>6 DEF LoopRefs
<1>4. CASE SleepWhileSettling \/ ReadManaged
  <2>1. refs' = refs /\ pc \in Holding /\ pc' \in Holding /\ idx' = idx
    BY <1>4 DEF SleepWhileSettling, ReadManaged, Advance, pwr_vars, Holding
  <2> QED
    BY <2>1 DEF LoopRefs
<1>5. CASE SettleTick
  <2> DEFINE r == RailOf[XdcrOrder[idx]]
  <2>1. r \in Domain /\ pc \in Holding
    BY <1>5, ManagedRail DEF SettleTick, LoopIndex, Holding, Rail, Current
  <2>2. refs[r] = 1
    BY <2>1 DEF LoopRefs
  <2>3. state[r] # "OFF"
    BY <2>1, <2>2 DEF HeldIsPowered
  <2>4. \/ refs' = refs /\ state'[r] # "OFF"
        \/ refs' = [refs EXCEPT ![r] = 0] /\ state'[r] = "OFF"
    BY <1>5, <2>1, <2>3, TickOfHeldRail DEF SettleTick, Rail, Current
  <2>5. CASE state'[r] = "OFF"
    <3>1. NextXdcr
      BY <1>5, <2>5 DEF SettleTick, Rail, Current
    <3>2. NoRefs'
      BY <2>1, <2>4, <2>5 DEF NoRefs, LoopRefs, TypeOK
    <3> QED
      BY <3>1, <3>2, NextXdcrRefs
  <2>6. CASE state'[r] # "OFF"
    <3>1. pc' \in Holding /\ idx' = idx
      BY <1>5, <2>6 DEF SettleTick, Rail, Current, Holding
    <3> QED
      BY <2>1, <2>4, <2>6, <3>1 DEF LoopRefs
  <2> QED
    BY <2>5, <2>6
<1>6. CASE ReleaseRail
  <2> DEFINE r == RailOf[XdcrOrder[idx]]
  <2>1. r \in Domain /\ pc \in Holding
    BY <1>6, ManagedRail DEF ReleaseRail, LoopIndex, Holding, Rail, Current
  <2>2. refs[r] = 1
    BY <2>1 DEF LoopRefs
  <2>3. refs' = [refs EXCEPT ![r] = 0]
    BY <1>6, <2>1, <2>2, ReleaseRefs DEF ReleaseRail, Rail, Current
  <2>4. NoRefs'
    BY <2>1, <2>3 DEF NoRefs, LoopRefs, TypeOK
  <2> QED
    BY <1>6, <2>4, NextXdcrRefs DEF ReleaseRail
<1>7. CASE Boot \/ ReadClock \/ Publish \/ Service \/ Wait
  <2>1. pc \notin Holding /\ pc' \notin Holding
    BY <1>7 DEF Boot, ReadClock, Publish, Service, Wait, Holding
  <2>2. \A d \in Domain : refs[d] = 0
    BY <2>1 DEF LoopRefs
  <2>3. \A d \in Domain : refs'[d] = 0
    <3>1. CASE ReadClock \/ Publish \/ Wait
      BY <2>2, <3>1 DEF ReadClock, Publish, Wait, Advance, pwr_vars
    <3>2. CASE Boot \/ Service
      BY <2>2, <3>2 DEF Boot, Service, pwr_arm, Arm, Disarm, switch_off, pwr_vars, TypeOK
    <3> QED
      BY <1>7, <3>1, <3>2
  <2> QED
    BY <2>1, <2>3 DEF LoopRefs
<1>8. CASE UNCHANGED vars
  <2>1. refs' = refs /\ pc' = pc /\ idx' = idx
    BY <1>8 DEF vars, pwr_vars, loop_vars
  <2> QED
    BY <2>1 DEF LoopRefs
<1> QED
  BY <1>1, <1>2, <1>3, <1>4, <1>5, <1>6, <1>7, <1>8 DEF LoopNext

\* Once a cycle is over every reader has let go and every per-read rail is off,
\* whichever way each read ended.
THEOREM BetweenReadsTheorem == LoopSpec => []NothingEnergisedBetweenReads
<1>1. LoopInit => TypeOK /\ LoopIndex /\ ClockInv /\ LoopRefs
  <2>1. LoopInit => LoopRefs
    BY DEF LoopInit, Init, LoopRefs, Holding
  <2> QED
    BY <2>1, LoopStart, TypeStart DEF LoopInit
<1>2. RailRules => HeldIsPowered
  BY DEF RailRules
<1>3. /\ TypeOK /\ LoopIndex /\ ClockInv /\ LoopRefs /\ HeldIsPowered /\ [LoopNext]_vars
      => TypeOK' /\ LoopIndex' /\ ClockInv' /\ LoopRefs'
  BY LoopStepIsControllerStep, IndexStep, ClockStep, TypeStep, RefsStep
<1>4. LoopRefs /\ RailRules => NothingEnergisedBetweenReads
  <2> SUFFICES ASSUME LoopRefs, RailRules, NEW d \in Domain,
                      pc \in {"boot", "publish", "service", "wait", "tick"}
               PROVE  refs[d] = 0 /\ (Policy[d] = "per-read" => state[d] = "OFF")
    BY DEF NothingEnergisedBetweenReads
  <2>1. refs[d] = 0
    BY DEF LoopRefs, Holding
  <2> QED
    BY <2>1 DEF RailRules, PerReadOnlyWhileHeld
<1> QED
  BY <1>1, <1>2, <1>3, <1>4, LoopImplementsController, RailRulesTheorem, PTL DEF LoopSpec

-----------------------------------------------------------------------------
(* The frame and the report *)

FrameOK ==
    /\ last_cycle \in 0 .. Wrap - 1
    /\ flags \in [Xdcr -> SUBSET Flags]
    /\ value \in [Xdcr -> {"zero", "reading"}]
    /\ filter \in [Xdcr -> {"zero", "reading"}]
    /\ report \in [Xdcr -> Reading]
    /\ taken \subseteq Xdcr

\* A driver fills or masks only the transducers it is asked for, and takes only those.
LEMMA DriversFrame ==
    ASSUME FrameOK, NEW S \in SUBSET Xdcr, ReadDrivers(S)
    PROVE  /\ flags' \in [Xdcr -> SUBSET Flags] /\ value' \in [Xdcr -> {"zero", "reading"}]
           /\ taken' \subseteq Xdcr
           /\ \A x \in S : "VALID" \in flags'[x] => x \in taken'
           /\ \A x \in Xdcr \ S : flags'[x] = flags[x] /\ (x \in taken' <=> x \in taken)
<1>1. PICK good \in SUBSET S : \E failed \in SUBSET (S \ good) :
          /\ flags' = [x \in Xdcr |-> CASE x \in good -> DriverFlags(x)
                                        [] x \in failed -> {"FAULT"}
                                        [] x \in S \ (good \union failed) -> {}
                                        [] OTHER -> flags[x]]
          /\ value' = [x \in Xdcr |-> IF x \in good THEN "reading" ELSE value[x]]
          /\ taken' = (taken \ S) \union good
  BY DEF ReadDrivers
<1>2. \A x \in Xdcr : DriverFlags(x) \in SUBSET Flags
  BY DEF DriverFlags, Flags
<1>3. /\ \A x \in good : flags'[x] = DriverFlags(x)
      /\ \A x \in S \ good : flags'[x] \in {{"FAULT"}, {}}
      /\ \A x \in Xdcr \ S : flags'[x] = flags[x]
  BY <1>1
<1>4. {{"FAULT"}, {}} \subseteq SUBSET Flags
  BY DEF Flags
<1>5. \A x \in Xdcr : flags'[x] \in SUBSET Flags
  <2> SUFFICES ASSUME NEW x \in Xdcr
               PROVE  flags'[x] \in SUBSET Flags
    OBVIOUS
  <2>1. CASE x \in good
    BY <1>2, <1>3, <2>1
  <2>2. CASE x \in S \ good
    BY <1>3, <1>4, <2>2
  <2>3. CASE x \notin S
    BY <1>3, <2>3 DEF FrameOK
  <2> QED
    BY <2>1, <2>2, <2>3
<1>6. flags' \in [Xdcr -> SUBSET Flags]
  <2>1. flags' = [x \in Xdcr |-> flags'[x]]
    BY <1>1
  <2> QED
    BY <1>5, <2>1
<1>7. value' \in [Xdcr -> {"zero", "reading"}]
  BY <1>1 DEF FrameOK
<1>8. taken' \subseteq Xdcr /\ \A x \in Xdcr \ S : x \in taken' <=> x \in taken
  BY <1>1 DEF FrameOK
<1>9. \A x \in S : "VALID" \in flags'[x] => x \in taken'
  BY <1>1, <1>3
<1> QED
  BY <1>3, <1>6, <1>7, <1>8, <1>9

LEMMA CalibratedFrame ==
    ASSUME FrameOK, NEW x \in Xdcr
    PROVE  /\ CalibratedFlags(x) \in SUBSET Flags
           /\ "VALID" \in CalibratedFlags(x) => "VALID" \in flags[x]
           /\ "STALE" \in flags[x] => "STALE" \in CalibratedFlags(x)
<1>1. flags[x] \in SUBSET Flags /\ "UNCAL" \in Flags
  BY DEF FrameOK, Flags
<1>2. \/ CalibratedFlags(x) = flags[x] \ {"RAW"}
      \/ CalibratedFlags(x) = flags[x] \union {"UNCAL"}
      \/ CalibratedFlags(x) = flags[x]
  BY DEF CalibratedFlags
<1> QED
  BY <1>1, <1>2

LEMMA FrameStart == LoopInit => FrameOK
<1> SUFFICES ASSUME LoopInit PROVE FrameOK
  OBVIOUS
<1>1. last_cycle \in 0 .. Wrap - 1
  BY DEF LoopInit, Init
<1>2. report \in [Xdcr -> Reading]
  <2>1. [flags |-> {}, value |-> "zero"] \in Reading
    BY DEF Reading
  <2> QED
    BY <2>1 DEF LoopInit
<1> QED
  BY <1>1, <1>2 DEF LoopInit, FrameOK

LEMMA FrameStep == TypeOK /\ LoopIndex /\ FrameOK /\ [LoopNext]_vars => FrameOK'
<1> SUFFICES ASSUME TypeOK, LoopIndex, FrameOK, [LoopNext]_vars
             PROVE  FrameOK'
  OBVIOUS
<1>c. pc \in Holding \union {"cycle"} => Current \in Xdcr
  BY Tables DEF LoopIndex, Current
<1>1. CASE TickRail
  <2>1. PICK S \in SUBSET Xdcr : ReadDrivers(S)
    BY <1>1 DEF TickRail
  <2>2. last_cycle' \in 0 .. Wrap - 1
    <3>1. last_cycle' = now \/ last_cycle' = last_cycle
      BY <1>1 DEF TickRail
    <3> QED
      BY <3>1 DEF TypeOK, FrameOK
  <2>3. UNCHANGED <<filter, report>>
    BY <1>1 DEF TickRail
  <2> QED
    BY <2>1, <2>2, <2>3, DriversFrame DEF FrameOK
<1>2. CASE CarryPeriodic
  <2>1. flags' \in [Xdcr -> SUBSET Flags]
    BY <1>2 DEF CarryPeriodic, FrameOK, Flags
  <2> QED
    BY <1>2, <2>1 DEF CarryPeriodic, FrameOK
<1>3. CASE ReadPassive \/ ReleaseRail
  <2>1. Current \in Xdcr /\ ReadDrivers({Current}) /\ UNCHANGED <<last_cycle, filter, report>>
    BY <1>3, <1>c DEF ReadPassive, ReleaseRail, Holding
  <2>2. {Current} \in SUBSET Xdcr
    BY <2>1
  <2> QED
    BY <2>1, <2>2, DriversFrame DEF FrameOK
<1>4. CASE AcquireRail
  <2>1. mask_params(Current, {}) /\ taken' = taken \ {Current}
        /\ UNCHANGED <<last_cycle, filter, report>>
    BY <1>4 DEF AcquireRail
  <2> QED
    BY <2>1 DEF mask_params, FrameOK
<1>5. CASE NoRail
  <2>1. mask_params(Current, {"NOPOWER"}) /\ taken' = taken \ {Current}
        /\ UNCHANGED <<last_cycle, filter, report>>
    BY <1>5 DEF NoRail
  <2> QED
    BY <2>1 DEF mask_params, FrameOK, Flags
<1>6. CASE SettleTick
  <2>1. mask_params(Current, {"NOPOWER"}) \/ UNCHANGED <<flags, value>>
    BY <1>6 DEF SettleTick
  <2>2. UNCHANGED <<last_cycle, filter, report, taken>>
    BY <1>6 DEF SettleTick
  <2> QED
    BY <2>1, <2>2 DEF mask_params, FrameOK, Flags
<1>7. CASE Publish
  <2>1. \A x \in Xdcr : PushedMedian(x) \in {"zero", "reading"}
    BY DEF PushedMedian, FrameOK
  <2>2. \A x \in Xdcr : process_channel(x) \in Reading
    <3> SUFFICES ASSUME NEW x \in Xdcr
                 PROVE  process_channel(x) \in Reading
      OBVIOUS
    <3>1. flags[x] \in SUBSET Flags /\ value[x] \in {"zero", "reading"}
          /\ CalibratedFlags(x) \in SUBSET Flags
      BY CalibratedFrame DEF FrameOK
    <3>2. \E fl \in SUBSET Flags, v \in {"zero", "reading"} :
              process_channel(x) = [flags |-> fl, value |-> v]
      BY <2>1, <3>1, Zenon DEF process_channel
    <3> QED
      BY <3>2 DEF Reading
  <2>3. filter' \in [Xdcr -> {"zero", "reading"}] /\ report' \in [Xdcr -> Reading]
    BY <1>7, <2>1, <2>2 DEF Publish
  <2>4. UNCHANGED <<last_cycle, flags, value, taken>>
    BY <1>7 DEF Publish
  <2> QED
    BY <2>3, <2>4 DEF FrameOK
<1>8. CASE Boot \/ ReadClock \/ SleepWhileSettling \/ ReadManaged \/ Service \/ Wait \/ UNCHANGED vars
  <2>1. UNCHANGED <<last_cycle, flags, value, filter, report>>
    BY <1>8 DEF Boot, ReadClock, SleepWhileSettling, ReadManaged, Service, Wait, vars, loop_vars
  <2>2. taken' = taken \/ taken' = {}
    BY <1>8 DEF Boot, ReadClock, SleepWhileSettling, ReadManaged, Service, Wait, vars, loop_vars
  <2> QED
    BY <2>1, <2>2 DEF FrameOK
<1> QED
  BY <1>1, <1>2, <1>3, <1>4, <1>5, <1>6, <1>7, <1>8 DEF LoopNext

\* The loop stays in its tables and its frame in its types, for every board table,
\* settle time, clock width and sleep.
THEOREM LoopTypes == LoopSpec => []LoopTypeOK
<1>1. LoopInit => TypeOK /\ LoopIndex /\ ClockInv /\ FrameOK
  BY LoopStart, FrameStart, TypeStart DEF LoopInit
<1>2. TypeOK /\ LoopIndex /\ ClockInv /\ FrameOK /\ [LoopNext]_vars => TypeOK' /\ LoopIndex' /\ ClockInv' /\ FrameOK'
  BY LoopStepIsControllerStep, IndexStep, ClockStep, FrameStep, TypeStep
<1>3. TypeOK /\ LoopIndex /\ ClockInv /\ FrameOK => LoopTypeOK
  <2> SUFFICES ASSUME TypeOK, LoopIndex, ClockInv, FrameOK
               PROVE  LoopTypeOK
    OBVIOUS
  <2>1. idx \in 1 .. IF pc = "tick" THEN Len(DomainOrder) ELSE Len(XdcrOrder)
    <3>1. 1 \in 1 .. Len(XdcrOrder)
      BY Tables
    <3>2. pc \in {"boot", "tick", "cycle", "publish", "service", "wait"} \union Holding
      BY DEF LoopIndex, Places, Holding
    <3> QED
      BY <3>1, <3>2 DEF LoopIndex
  <2>2. pc \in Places
    BY DEF LoopIndex
  <2> QED
    BY <2>1, <2>2 DEF FrameOK, ClockInv, LoopTypeOK
<1> QED
  BY <1>1, <1>2, <1>3, PTL DEF LoopSpec
-----------------------------------------------------------------------------
(* Readings *)

\* A tick of a rail that is not periodic leaves one that stays up where it was, or
\* lets it become ready.
LEMMA TickKeepsOnTime ==
    ASSUME TypeOK, NEW d \in Domain, Policy[d] # "periodic", state[d] # "OFF",
           pwr_tick_domain(d), state'[d] # "OFF"
    PROVE  t_on' = t_on /\ now' = now
  BY DEF TypeOK, States, pwr_tick_domain, TickOpensWindow, TickDefersWindow,
         TickForcesOff, TickSettles, switch_off

LEMMA SettledStep ==
    TypeOK /\ LoopIndex /\ ClockInv /\ LoopRefs /\ HeldIsPowered /\ ReadsOnlySettledRails
        /\ [LoopNext]_vars
        => ReadsOnlySettledRails'
<1> SUFFICES ASSUME TypeOK, LoopIndex, ClockInv, LoopRefs, HeldIsPowered, ReadsOnlySettledRails,
                    [LoopNext]_vars, pc' = "read"
             PROVE  pwr_is_ready(Rail, state, now)'
  BY ClockStep DEF ReadsOnlySettledRails, ClockInv
<1>1. CASE AcquireRail
  <2>1. idx' = idx /\ Rail' = Rail
    BY <1>1 DEF AcquireRail, Rail, Current
  <2>2. CASE state'[Rail] = "ON"
    BY <2>1, <2>2 DEF pwr_is_ready
  <2>3. CASE state[Rail] # "OFF" /\ pwr_is_ready(Rail, state, now)
    <3>1. UNCHANGED <<state, t_on, now>>
      BY <1>1, <2>3 DEF AcquireRail, AcquireSwitchingOn, AcquireJoining
    <3> QED
      BY <2>1, <2>3, <3>1 DEF pwr_is_ready
  <2> QED
    BY <1>1, <2>2, <2>3 DEF AcquireRail
<1>2. CASE SettleTick
  <2>1. ~NextXdcr
    BY DEF NextXdcr
  <2>2. /\ pwr_tick_domain(Rail) /\ state'[Rail] # "OFF" /\ UNCHANGED idx
        /\ pwr_is_ready(Rail, state', now)
    BY <1>2, <2>1 DEF SettleTick
  <2>3. Rail \in Domain /\ Policy[Rail] # "periodic" /\ pc \in Holding
    BY <1>2, ManagedRail DEF SettleTick, LoopIndex, Holding
  <2>4. refs[Rail] = 1
    BY <2>3 DEF LoopRefs, Rail, Current
  <2>5. state[Rail] # "OFF"
    BY <2>3, <2>4 DEF HeldIsPowered
  <2>6. t_on' = t_on /\ now' = now
    BY <2>2, <2>3, <2>5, TickKeepsOnTime
  <2>7. Rail' = Rail
    BY <2>2 DEF Rail, Current
  <2> QED
    BY <2>2, <2>6, <2>7 DEF pwr_is_ready
<1>3. CASE UNCHANGED vars
  BY <1>3 DEF vars, pwr_vars, loop_vars, ReadsOnlySettledRails, pwr_is_ready, Rail, Current
<1>4. CASE Boot \/ ReadClock \/ TickRail \/ CarryPeriodic \/ ReadPassive \/ NoRail
           \/ SleepWhileSettling \/ ReadManaged \/ ReleaseRail \/ Publish \/ Service \/ Wait
  BY <1>4 DEF Boot, ReadClock, TickRail, CarryPeriodic, ReadPassive, NoRail, SleepWhileSettling,
              ReadManaged, ReleaseRail, Publish, Service, Wait, NextXdcr
<1> QED
  BY <1>1, <1>2, <1>3, <1>4 DEF LoopNext

\* A driver is only asked while its rail has been up for the settle time, however
\* the waits were slept and whether the rail came up for this reader or an earlier
\* one (sampler_read_desc).
THEOREM SettledTheorem == LoopSpec => []ReadsOnlySettledRails
<1>1. LoopInit => TypeOK /\ LoopIndex /\ ClockInv /\ LoopRefs /\ ReadsOnlySettledRails
  <2>1. LoopInit => LoopRefs /\ ReadsOnlySettledRails
    BY DEF LoopInit, Init, LoopRefs, Holding, ReadsOnlySettledRails
  <2> QED
    BY <2>1, LoopStart, TypeStart DEF LoopInit
<1>2. RailRules => HeldIsPowered
  BY DEF RailRules
<1>3. /\ TypeOK /\ LoopIndex /\ ClockInv /\ LoopRefs /\ HeldIsPowered /\ ReadsOnlySettledRails /\ [LoopNext]_vars
      => TypeOK' /\ LoopIndex' /\ ClockInv' /\ LoopRefs' /\ ReadsOnlySettledRails'
  BY LoopStepIsControllerStep, IndexStep, ClockStep, TypeStep, RefsStep, SettledStep
<1> QED
  BY <1>1, <1>2, <1>3, LoopImplementsController, RailRulesTheorem, PTL DEF LoopSpec

\* Of the transducers the cycle is past: what claims to be fresh was read in it.
Claims(frame, x) == "VALID" \in frame[x] /\ "STALE" \notin frame[x]

PastAreTaken ==
    \A j \in 1 .. Len(XdcrOrder) :
        /\ pc = "publish" \/ (pc \in Holding \union {"cycle"} /\ j < idx)
        /\ Claims(flags, XdcrOrder[j])
        => XdcrOrder[j] \in taken

\* One more transducer is behind when the loop moves on, and what holds of all the
\* earlier ones and of this one holds of all that are behind.
LEMMA PastNext ==
    ASSUME LoopIndex, pc \in Holding \union {"cycle"}, NextXdcr,
           \A j \in 1 .. Len(XdcrOrder) : j <= idx /\ Claims(flags', XdcrOrder[j]) => XdcrOrder[j] \in taken'
    PROVE  PastAreTaken'
<1>1. idx \in 1 .. Len(XdcrOrder) /\ Len(XdcrOrder) \in Nat
  BY Tables DEF LoopIndex
<1>2. \/ pc' = "cycle" /\ idx' = idx + 1
      \/ pc' = "publish" /\ idx = Len(XdcrOrder)
  BY <1>1 DEF NextXdcr
<1>3. \A j \in 1 .. Len(XdcrOrder) :
          pc' = "publish" \/ (pc' \in Holding \union {"cycle"} /\ j < idx') => j <= idx
  BY <1>1, <1>2
<1> QED
  BY <1>3 DEF PastAreTaken

\* A step that leaves every other transducer alone, and this one fresh only if it
\* was taken, keeps the claims of those up to it.
LEMMA OthersKeep ==
    ASSUME LoopIndex, PastAreTaken, pc \in Holding \union {"cycle"},
           \A x \in Xdcr \ {Current} : flags'[x] = flags[x] /\ (x \in taken' <=> x \in taken),
           Claims(flags', XdcrOrder[idx]) => XdcrOrder[idx] \in taken'
    PROVE  \A j \in 1 .. Len(XdcrOrder) : j <= idx /\ Claims(flags', XdcrOrder[j]) => XdcrOrder[j] \in taken'
<1> SUFFICES ASSUME NEW j \in 1 .. Len(XdcrOrder), j <= idx, Claims(flags', XdcrOrder[j])
             PROVE  XdcrOrder[j] \in taken'
  OBVIOUS
<1>1. XdcrOrder[j] \in Xdcr /\ idx \in 1 .. Len(XdcrOrder) /\ Len(XdcrOrder) \in Nat
  BY Tables DEF LoopIndex
<1>2. CASE XdcrOrder[j] = XdcrOrder[idx]
  BY <1>2
<1>3. CASE XdcrOrder[j] # XdcrOrder[idx]
  <2>1. j < idx
    BY <1>1, <1>3
  <2>2. flags'[XdcrOrder[j]] = flags[XdcrOrder[j]]
        /\ (XdcrOrder[j] \in taken' <=> XdcrOrder[j] \in taken)
    BY <1>1, <1>3 DEF Current
  <2>3. Claims(flags, XdcrOrder[j])
    BY <2>2 DEF Claims
  <2> QED
    BY <2>1, <2>2, <2>3 DEF PastAreTaken
<1> QED
  BY <1>2, <1>3

LEMMA PastStep ==
    TypeOK /\ LoopIndex /\ FrameOK /\ PastAreTaken /\ [LoopNext]_vars => PastAreTaken'
<1> SUFFICES ASSUME TypeOK, LoopIndex, FrameOK, PastAreTaken, [LoopNext]_vars
             PROVE  PastAreTaken'
  OBVIOUS
<1> DEFINE c == XdcrOrder[idx]
<1>c. pc \in Holding \union {"cycle"} => c \in Xdcr /\ c = Current
  BY Tables DEF LoopIndex, Current
<1>o. \A j \in 1 .. Len(XdcrOrder) : XdcrOrder[j] \in Xdcr
  BY Tables
<1>1. CASE TickRail
  <2>1. \/ pc' = "cycle" /\ idx' = 1
        \/ pc' \in {"tick", "service"}
    BY <1>1 DEF TickRail
  <2>2. \A j \in 1 .. Len(XdcrOrder) : ~(j < 1)
    OBVIOUS
  <2> QED
    BY <2>1, <2>2 DEF PastAreTaken, Holding
<1>2. CASE CarryPeriodic
  <2>1. /\ pc \in Holding \union {"cycle"} /\ NextXdcr /\ taken' = taken
        /\ flags' = [flags EXCEPT ![c] = IF "VALID" \in flags[c] THEN @ \union {"STALE"} ELSE @]
    BY <1>2 DEF CarryPeriodic, Current
  <2>2. \A x \in Xdcr \ {Current} : flags'[x] = flags[x] /\ (x \in taken' <=> x \in taken)
    BY <1>c, <2>1 DEF FrameOK
  <2>3. ~Claims(flags', c)
    BY <1>c, <2>1 DEF FrameOK, Claims
  <2> QED
    BY <2>1, <2>2, <2>3, OthersKeep, PastNext
<1>3. CASE ReadPassive \/ ReleaseRail
  <2>1. pc \in Holding \union {"cycle"} /\ NextXdcr /\ ReadDrivers({Current})
    BY <1>3 DEF ReadPassive, ReleaseRail, Holding
  <2>2. {Current} \in SUBSET Xdcr
    BY <1>c, <2>1
  <2>3. /\ "VALID" \in flags'[Current] => Current \in taken'
        /\ \A x \in Xdcr \ {Current} : flags'[x] = flags[x] /\ (x \in taken' <=> x \in taken)
    BY <2>1, <2>2, DriversFrame
  <2>4. Claims(flags', c) => c \in taken'
    BY <1>c, <2>1, <2>3 DEF Claims
  <2> QED
    BY <2>1, <2>3, <2>4, OthersKeep, PastNext
<1>4. CASE NoRail
  <2>1. /\ pc \in Holding \union {"cycle"} /\ NextXdcr /\ taken' = taken \ {c}
        /\ flags' = [flags EXCEPT ![c] = {"NOPOWER"}]
    BY <1>4 DEF NoRail, mask_params, Current
  <2>2. \A x \in Xdcr \ {Current} : flags'[x] = flags[x] /\ (x \in taken' <=> x \in taken)
    BY <1>c, <2>1 DEF FrameOK
  <2>3. ~Claims(flags', c)
    BY <1>c, <2>1 DEF FrameOK, Claims
  <2> QED
    BY <2>1, <2>2, <2>3, OthersKeep, PastNext
<1>5. CASE AcquireRail
  <2>1. /\ pc = "cycle" /\ idx' = idx /\ taken' = taken \ {c}
        /\ flags' = [flags EXCEPT ![c] = {}] /\ pc' # "publish"
    BY <1>5 DEF AcquireRail, mask_params, Current
  <2>2. \A x \in Xdcr : Claims(flags', x) => Claims(flags, x) /\ x # c
    BY <1>c, <2>1 DEF FrameOK, Claims
  <2> QED
    BY <1>o, <2>1, <2>2 DEF PastAreTaken
<1>6. CASE SettleTick
  <2>1. CASE NextXdcr
    <3>1. /\ pc \in Holding \union {"cycle"} /\ taken' = taken
          /\ flags' = [flags EXCEPT ![c] = {"NOPOWER"}]
      BY <1>6, <2>1 DEF SettleTick, mask_params, Current, Holding, NextXdcr
    <3>2. \A x \in Xdcr \ {Current} : flags'[x] = flags[x] /\ (x \in taken' <=> x \in taken)
      BY <1>c, <3>1 DEF FrameOK
    <3>3. ~Claims(flags', c)
      BY <1>c, <3>1 DEF FrameOK, Claims
    <3> QED
      BY <2>1, <3>1, <3>2, <3>3, OthersKeep, PastNext
  <2>2. CASE pc' \in {"read", "settle"} /\ UNCHANGED <<idx, flags, taken>>
    BY <1>6, <2>2 DEF SettleTick, PastAreTaken, Holding, Claims
  <2> QED
    BY <1>6, <2>1, <2>2 DEF SettleTick
<1>7. CASE SleepWhileSettling \/ ReadManaged \/ ReadClock
  BY <1>7 DEF SleepWhileSettling, ReadManaged, ReadClock, PastAreTaken, Holding, Claims
<1>8. CASE Boot \/ Publish \/ Service \/ Wait
  <2>1. pc' \in {"service", "wait", "tick"}
    BY <1>8 DEF Boot, Publish, Service, Wait
  <2> QED
    BY <2>1 DEF PastAreTaken, Holding
<1>9. CASE UNCHANGED vars
  BY <1>9 DEF vars, loop_vars, PastAreTaken, Claims
<1> QED
  BY <1>1, <1>2, <1>3, <1>4, <1>5, <1>6, <1>7, <1>8, <1>9 DEF LoopNext

\* A value that claims to be fresh was read in the cycle it is published with, and a
\* reading that failed, was refused its rail or lost it is published masked, whatever
\* the tables of the board say (sampler_cycle, process_channel).
THEOREM FreshTheorem == LoopSpec => FreshMeansThisCycle
<1> DEFINE Fresh == pc = "publish" =>
                        \A x \in Xdcr : "VALID" \in report'[x].flags /\ "STALE" \notin report'[x].flags
                                        => x \in taken
<1>1. LoopInit => TypeOK /\ LoopIndex /\ ClockInv /\ FrameOK /\ PastAreTaken
  <2>1. LoopInit => PastAreTaken
    BY DEF LoopInit, PastAreTaken, Holding
  <2> QED
    BY <2>1, LoopStart, FrameStart, TypeStart DEF LoopInit
<1>2. TypeOK /\ LoopIndex /\ ClockInv /\ FrameOK /\ PastAreTaken /\ [LoopNext]_vars
      => TypeOK' /\ LoopIndex' /\ ClockInv' /\ FrameOK' /\ PastAreTaken'
  BY LoopStepIsControllerStep, IndexStep, ClockStep, FrameStep, TypeStep, PastStep
<1>3. FrameOK /\ PastAreTaken /\ [LoopNext]_vars => [Fresh]_vars
  <2> SUFFICES ASSUME FrameOK, PastAreTaken, LoopNext, pc = "publish", NEW x \in Xdcr,
                      "VALID" \in report'[x].flags, "STALE" \notin report'[x].flags
               PROVE  x \in taken
    OBVIOUS
  <2>1. Publish
    <3>1. ~(Boot \/ ReadClock \/ TickRail \/ CarryPeriodic \/ ReadPassive \/ AcquireRail \/ NoRail
            \/ SleepWhileSettling \/ SettleTick \/ ReadManaged \/ ReleaseRail \/ Service \/ Wait)
      BY DEF Boot, ReadClock, TickRail, CarryPeriodic, ReadPassive, AcquireRail, NoRail,
             SleepWhileSettling, SettleTick, ReadManaged, ReleaseRail, Service, Wait
    <3> QED
      BY <3>1 DEF LoopNext
  <2>2. report'[x] = process_channel(x)
    BY <2>1 DEF Publish
  <2>3. report'[x].flags = flags[x] \/ report'[x].flags = CalibratedFlags(x)
    BY <2>2 DEF process_channel
  <2>4. Claims(flags, x)
    BY <2>3, CalibratedFrame DEF Claims
  <2>5. PICK j \in 1 .. Len(XdcrOrder) : x = XdcrOrder[j]
    BY LoopAssumption DEF Xdcr, Range
  <2> QED
    BY <2>4, <2>5 DEF PastAreTaken
<1> QED
  BY <1>1, <1>2, <1>3, PTL DEF LoopSpec, FreshMeansThisCycle
-----------------------------------------------------------------------------
(* The time a rail is up *)

\* The sums of the first numbers of a sequence exist, for a sequence of any length.
SumsOf(f, w, n) == f = [i \in 0 .. n |-> IF i = 0 THEN 0 ELSE f[i - 1] + w[i]]

LEMMA SumExists ==
    ASSUME NEW w, NEW N \in Nat
    PROVE  \E f : SumsOf(f, w, N)
<1> DEFINE L == {n \in Nat : \E f : SumsOf(f, w, n)}
<1>1. 0 \in L
  <2> DEFINE f == [i \in 0 .. 0 |-> 0]
  <2>1. f = [i \in 0 .. 0 |-> IF i = 0 THEN 0 ELSE f[i - 1] + w[i]]
    OBVIOUS
  <2> HIDE DEF f
  <2> QED
    BY <2>1 DEF SumsOf
<1>2. ASSUME NEW n \in Nat, n \in L
      PROVE  n + 1 \in L
  <2>1. PICK f : SumsOf(f, w, n)
    BY <1>2
  <2> DEFINE g == [i \in 0 .. n + 1 |-> IF i <= n THEN f[i] ELSE f[n] + w[n + 1]]
  <2>2. \A i \in 0 .. n : f[i] = IF i = 0 THEN 0 ELSE f[i - 1] + w[i]
    BY <2>1 DEF SumsOf
  <2>3. \A i \in 0 .. n + 1 : g[i] = IF i = 0 THEN 0 ELSE g[i - 1] + w[i]
    <3> SUFFICES ASSUME NEW i \in 0 .. n + 1
                 PROVE  g[i] = IF i = 0 THEN 0 ELSE g[i - 1] + w[i]
      OBVIOUS
    <3>1. CASE i <= n
      <4>1. i \in 0 .. n /\ (i # 0 => i - 1 \in 0 .. n)
        BY <3>1
      <4>2. g[i] = f[i] /\ (i # 0 => g[i - 1] = f[i - 1])
        BY <4>1
      <4> QED
        BY <2>2, <4>1, <4>2
    <3>2. CASE i = n + 1
      <4>1. g[n] = f[n] /\ i - 1 = n /\ i # 0 /\ ~(i <= n)
        BY <3>2
      <4> QED
        BY <3>2, <4>1
    <3> QED
      BY <3>1, <3>2
  <2>4. g = [i \in 0 .. n + 1 |-> g[i]]
    OBVIOUS
  <2> HIDE DEF g
  <2>5. SumsOf(g, w, n + 1)
    BY <2>3, <2>4 DEF SumsOf
  <2> QED
    BY <2>5
<1> HIDE DEF L
<1>3. Nat \subseteq L
  BY <1>1, <1>2, NaturalsByInduction
<1> QED
  BY <1>3 DEF L

\* They add the numbers one by one.
LEMMA SumsAdd ==
    ASSUME NEW w, NEW N \in Nat, Len(w) = N
    PROVE  /\ Sums(w)[0] = 0
           /\ \A n \in 1 .. N : Sums(w)[n] = Sums(w)[n - 1] + w[n]
<1>1. Sums(w) = CHOOSE f : SumsOf(f, w, N)
  BY DEF Sums, SumsOf
<1>2. \E f : SumsOf(f, w, N)
  BY SumExists
<1>3. SumsOf(Sums(w), w, N)
  BY <1>1, <1>2, Zenon
<1>4. \A i \in 0 .. N : Sums(w)[i] = IF i = 0 THEN 0 ELSE Sums(w)[i - 1] + w[i]
  BY <1>3 DEF SumsOf
<1>5. Sums(w)[0] = 0
  BY <1>4
<1>6. \A n \in 1 .. N : Sums(w)[n] = Sums(w)[n - 1] + w[n]
  BY <1>4
<1> QED
  BY <1>5, <1>6

\* Sums of naturals are naturals, and those of more are no smaller.
LEMMA SumsGrow ==
    ASSUME NEW w, NEW N \in Nat, Len(w) = N, \A n \in 1 .. N : w[n] \in Nat
    PROVE  \A n \in 0 .. N : Sums(w)[n] \in Nat /\ Sums(w)[n] <= Sums(w)[N]
<1>1. PICK f : f = Sums(w)
  OBVIOUS
<1>2. f[0] = 0 /\ \A n \in 1 .. N : f[n] = f[n - 1] + w[n] /\ w[n] \in Nat
  BY <1>1, SumsAdd
<1> DEFINE L == {n \in Nat : n <= N => \A i \in 0 .. n : f[i] \in Nat /\ f[i] <= f[n]}
<1>3. 0 \in L
  BY <1>2
<1>4. ASSUME NEW n \in Nat, n \in L
      PROVE  n + 1 \in L
  <2> SUFFICES ASSUME n + 1 <= N, NEW i \in 0 .. n + 1
               PROVE  f[i] \in Nat /\ f[i] <= f[n + 1]
    OBVIOUS
  <2>1. n + 1 \in 1 .. N /\ (n + 1) - 1 = n /\ n \in 0 .. n /\ n <= N
    OBVIOUS
  <2>2. f[n + 1] = f[n] + w[n + 1] /\ w[n + 1] \in Nat
    BY <1>2, <2>1
  <2>3. f[n] \in Nat /\ (i \in 0 .. n => f[i] \in Nat /\ f[i] <= f[n])
    BY <1>4, <2>1
  <2>4. i \in 0 .. n \/ i = n + 1
    OBVIOUS
  <2> QED
    BY <2>2, <2>3, <2>4
<1> HIDE DEF L
<1>5. Nat \subseteq L
  BY <1>3, <1>4, NaturalsByInduction
<1>6. \A i \in 0 .. N : f[i] \in Nat /\ f[i] <= f[N]
  BY <1>5 DEF L
<1> QED
  BY <1>1, <1>6

\* What the callbacks of the first rails of a tick take at most.
LEMMA TickTimesAdd ==
    /\ TickTimes[0] = 0
    /\ \A n \in 1 .. Len(DomainOrder) : TickTimes[n] = TickTimes[n - 1] + WindowMs[DomainOrder[n]]
    /\ \A n \in 0 .. Len(DomainOrder) : TickTimes[n] \in Nat /\ TickTimes[n] <= LongestTick
<1>1. PICK N, w : N = Len(DomainOrder) /\ w = [i \in 1 .. Len(DomainOrder) |-> WindowMs[DomainOrder[i]]]
  OBVIOUS
<1>2. N \in Nat /\ Len(w) = N /\ DOMAIN w = 1 .. N
  BY <1>1, Tables
<1>3. \A n \in 1 .. N : w[n] = WindowMs[DomainOrder[n]] /\ w[n] \in Nat
  BY <1>1, Tables, LoopAssumption
<1>4. /\ Sums(w)[0] = 0
      /\ \A n \in 1 .. N : Sums(w)[n] = Sums(w)[n - 1] + w[n]
  BY <1>2, SumsAdd
<1>5. \A n \in 0 .. N : Sums(w)[n] \in Nat /\ Sums(w)[n] <= Sums(w)[N]
  BY <1>2, <1>3, SumsGrow
<1>6. TickTimes = Sums(w) /\ LongestTick = Sums(w)[N]
  BY <1>1 DEF TickTimes, LongestTick
<1> QED
  BY <1>1, <1>3, <1>4, <1>5, <1>6

\* What the first transducers of a cycle take at most.
CycleTime(n) == SettleTime(XdcrOrder[n]) + ReadMs[XdcrOrder[n]]

LEMMA SettleTimeType ==
    \A n \in 1 .. Len(XdcrOrder) :
        /\ SettleTime(XdcrOrder[n]) \in Nat /\ ReadMs[XdcrOrder[n]] \in Nat
        /\ CycleTime(n) \in Nat
<1> SUFFICES ASSUME NEW n \in 1 .. Len(XdcrOrder)
             PROVE  /\ SettleTime(XdcrOrder[n]) \in Nat /\ ReadMs[XdcrOrder[n]] \in Nat
                    /\ CycleTime(n) \in Nat
  OBVIOUS
<1>0. \A i, j \in Nat : i + j \in Nat
  OBVIOUS
<1>1. XdcrOrder[n] \in Xdcr
  BY Tables
<1>2. ASSUME Managed(XdcrOrder[n]) PROVE SettleTime(XdcrOrder[n]) \in Nat
  <2>1. RailOf[XdcrOrder[n]] \in Domain
    BY <1>1, <1>2, LoopAssumption DEF Managed
  <2>2. SettleMs[RailOf[XdcrOrder[n]]] \in Nat /\ Overshoot \in Nat
    BY <2>1, PowerAssumption, LoopAssumption
  <2>3. SettleTime(XdcrOrder[n]) = SettleMs[RailOf[XdcrOrder[n]]] + Overshoot
    BY <1>2 DEF SettleTime
  <2> QED
    BY <1>0, <2>2, <2>3
<1>3. ASSUME ~Managed(XdcrOrder[n]) PROVE SettleTime(XdcrOrder[n]) \in Nat
  BY <1>3 DEF SettleTime
<1>4. ReadMs[XdcrOrder[n]] \in Nat
  BY <1>1, LoopAssumption
<1>5. SettleTime(XdcrOrder[n]) \in Nat
  BY <1>2, <1>3
<1> QED
  BY <1>0, <1>4, <1>5 DEF CycleTime

LEMMA CycleTimesAdd ==
    /\ CycleTimes[0] = 0
    /\ \A n \in 1 .. Len(XdcrOrder) : CycleTimes[n] = CycleTimes[n - 1] + CycleTime(n)
    /\ \A n \in 0 .. Len(XdcrOrder) : CycleTimes[n] \in Nat /\ CycleTimes[n] <= CycleTimes[Len(XdcrOrder)]
<1>1. PICK N, w : N = Len(XdcrOrder) /\ w = [i \in 1 .. Len(XdcrOrder) |-> CycleTime(i)]
  OBVIOUS
<1>2. N \in Nat /\ Len(w) = N /\ DOMAIN w = 1 .. N
  BY <1>1, Tables
<1>3. \A n \in 1 .. N : w[n] = CycleTime(n) /\ w[n] \in Nat
  BY <1>1, SettleTimeType
<1>4. /\ Sums(w)[0] = 0
      /\ \A n \in 1 .. N : Sums(w)[n] = Sums(w)[n - 1] + w[n]
  BY <1>2, SumsAdd
<1>5. \A n \in 0 .. N : Sums(w)[n] \in Nat /\ Sums(w)[n] <= Sums(w)[N]
  BY <1>2, <1>3, SumsGrow
<1>6. CycleTimes = Sums(w)
  BY <1>1 DEF CycleTimes, CycleTime
<1> QED
  BY <1>1, <1>3, <1>4, <1>5, <1>6

\* Time passes on a rail as it passes: by no more, and by as much unless the clock
\* comes around.
LEMMA ElapsedGrows ==
    ASSUME NEW w \in Nat \ {0}, NEW n \in 0 .. w - 1, NEW t \in 0 .. w - 1, NEW dt \in 0 .. w - 1
    PROVE  /\ (((n + dt) % w) - t) % w \in Nat
           /\ (((n + dt) % w) - t) % w <= ((n - t) % w) + dt
           /\ ((n - t) % w) + dt < w => (((n + dt) % w) - t) % w = ((n - t) % w) + dt
<1> DEFINE e == IF n >= t THEN n - t ELSE n - t + w
           m == IF n + dt < w THEN n + dt ELSE n + dt - w
           f == IF m >= t THEN m - t ELSE m - t + w
<1>1. (n - t) % w = e
  BY Difference
<1>2. (n + dt) % w = m
  <2>1. /\ n + dt \in Int
        /\ n + dt < w => n + dt \in 0 .. w - 1
        /\ ~(n + dt < w) => n + dt \in w .. 2 * w - 1
    OBVIOUS
  <2> QED
    BY <2>1, Modulus
<1>3. m \in 0 .. w - 1
  OBVIOUS
<1>4. (m - t) % w = f
  BY <1>3, Difference
<1>5. f \in Nat /\ f <= e + dt /\ (e + dt < w => f = e + dt)
  OBVIOUS
<1> QED
  BY <1>1, <1>2, <1>4, <1>5

\* Nor by more over whole turns of the clock.
LEMMA ElapsedAtMost ==
    ASSUME NEW w \in Nat \ {0}, NEW n \in 0 .. w - 1, NEW t \in 0 .. w - 1, NEW dt \in Nat
    PROVE  /\ (((n + dt) % w) - t) % w \in Nat
           /\ (((n + dt) % w) - t) % w <= ((n - t) % w) + dt
<1>1. (n - t) % w \in Nat /\ (n + dt) % w \in 0 .. w - 1
  OBVIOUS
<1>2. (((n + dt) % w) - t) % w \in 0 .. w - 1
  BY <1>1
<1>3. CASE dt \in 0 .. w - 1
  BY <1>3, ElapsedGrows
<1>4. CASE dt \notin 0 .. w - 1
  <2>1. dt >= w
    BY <1>4
  <2>2. PICK e, f : e = (n - t) % w /\ f = (((n + dt) % w) - t) % w
    OBVIOUS
  <2>3. e \in Nat /\ f \in 0 .. w - 1
    BY <1>1, <1>2, <2>2
  <2>4. f \in Nat /\ f <= e + dt
    BY <2>1, <2>3
  <2> QED
    BY <2>2, <2>4
<1> QED
  BY <1>3, <1>4

\* The rail, if it has an on-time, has been up for less than that and n.
UpFor(d, n) == state[d] # "OFF" /\ OnMs[d] # 0 => elapsed(t_on[d]) < OnMs[d] + n

LEMMA RailNumbers ==
    ASSUME TypeOK, NEW d \in Domain
    PROVE  /\ Wrap \in Nat \ {0} /\ OnMs[d] \in Nat
           /\ now \in Int /\ t_on[d] \in Int /\ (now - t_on[d]) % Wrap \in Nat
<1>1. Wrap \in Nat \ {0} /\ OnMs[d] \in Nat
  BY PowerAssumption
<1>2. now \in 0 .. Wrap - 1 /\ t_on[d] \in 0 .. Wrap - 1
  BY DEF TypeOK
<1>3. now \in Int /\ t_on[d] \in Int
  BY <1>1, <1>2
<1> QED
  BY <1>1, <1>3

LEMMA RailNumbersNext ==
    ASSUME TypeOK', NEW d \in Domain
    PROVE  OnMs[d] \in Nat /\ ((now - t_on[d]) % Wrap)' \in Nat
<1>1. Wrap \in Nat \ {0} /\ OnMs[d] \in Nat
  BY PowerAssumption
<1>2. now' \in 0 .. Wrap - 1 /\ t_on'[d] \in 0 .. Wrap - 1
  BY DEF TypeOK
<1> QED
  BY <1>1, <1>2

LEMMA UpForLonger ==
    ASSUME TypeOK, NEW d \in Domain, NEW n \in Nat, NEW m \in Nat, n <= m, UpFor(d, n)
    PROVE  UpFor(d, m)
<1>1. elapsed(t_on[d]) \in Nat /\ OnMs[d] \in Nat
  BY ElapsedType, PowerAssumption DEF TypeOK
<1> QED
  BY <1>1 DEF UpFor

\* A rail that comes up has been up for no time.
LEMMA JustUp ==
    ASSUME TypeOK, NEW d \in Domain, NEW n \in Nat, NEW e \in Domain,
           t_on' = [t_on EXCEPT ![e] = now], now' = now, state' = [state EXCEPT ![e] = state'[e]],
           d = e \/ UpFor(d, n)
    PROVE  UpFor(d, n)'
<1>1. CASE d = e
  <2>1. t_on'[d] = now
    BY <1>1, Zenon DEF TypeOK
  <2>2. now \in Int /\ Wrap \in Nat \ {0} /\ OnMs[d] \in Nat
    BY RailNumbers
  <2>3. 0 % Wrap = 0 /\ now - now = 0
    BY <2>2, Modulus
  <2>4. elapsed(t_on[d])' = 0
    BY <2>1, <2>2, <2>3 DEF elapsed
  <2> QED
    BY <2>2, <2>4 DEF UpFor
<1>2. CASE d # e
  BY <1>2 DEF UpFor, elapsed, TypeOK
<1> QED
  BY <1>1, <1>2

\* A rail that is left up or goes off.
LEMMA StillUp ==
    ASSUME NEW d \in Domain, NEW n \in Nat, now' = now, UpFor(d, n),
           state'[d] # "OFF" => state[d] # "OFF" /\ t_on'[d] = t_on[d]
    PROVE  UpFor(d, n)'
  BY DEF UpFor, elapsed

\* A tick leaves the rail it is for up only within its on-time.
LEMMA TickBounds ==
    ASSUME TypeOK, NEW d \in Domain, pwr_tick_domain(d)
    PROVE  UpFor(d, 0)'
<1>1. CASE TickOpensWindow(d)
  <2>1. /\ t_on' = [t_on EXCEPT ![d] = now] /\ now' = now
        /\ state' = [state EXCEPT ![d] = state'[d]]
    BY <1>1 DEF TickOpensWindow, switch_on, TypeOK
  <2> QED
    BY <2>1, JustUp
<1>2. CASE TickDefersWindow(d)
  BY <1>2 DEF TickDefersWindow, UpFor
<1>3. CASE TickForcesOff(d)
  BY <1>3 DEF TickForcesOff, switch_off, UpFor, TypeOK
<1>4. CASE TickSettles(d)
  <2>1. elapsed(t_on[d]) \in Nat /\ OnMs[d] \in Nat
    BY ElapsedType, PowerAssumption DEF TypeOK
  <2>2. state[d] # "OFF" /\ OnMs[d] # 0 => elapsed(t_on[d]) < OnMs[d]
    BY <1>4, <2>1 DEF TickSettles, OnTimeOver
  <2>3. state'[d] # "OFF" => state[d] # "OFF"
    BY <1>4 DEF TickSettles, Settles, TypeOK
  <2>4. UpFor(d, 0)
    BY <2>1, <2>2 DEF UpFor
  <2> QED
    BY <1>4, <2>3, <2>4, StillUp DEF TickSettles
<1> QED
  BY <1>1, <1>2, <1>3, <1>4 DEF pwr_tick_domain

\* No call of the controller keeps a rail up for longer than it was.
LEMMA CallKeepsUpFor ==
    ASSUME TypeOK, NEW d \in Domain, NEW n \in Nat, UpFor(d, n), NEW e \in Domain,
           pwr_acquire(e) \/ pwr_release(e) \/ pwr_arm(e) \/ pwr_tick_domain(e)
    PROVE  UpFor(d, n)'
<1>1. now' = now
  BY DEF pwr_acquire, AcquireSwitchingOn, AcquireJoining, AcquireRefused, pwr_release, ReleaseLast,
         ReleaseKeeping, ReleaseRefused, pwr_arm, Arm, Disarm, pwr_tick_domain, TickOpensWindow,
         TickDefersWindow, TickForcesOff, TickSettles
<1>2. CASE switch_on(e)
  <2>1. t_on' = [t_on EXCEPT ![e] = now] /\ state' = [state EXCEPT ![e] = state'[e]]
    BY <1>2 DEF switch_on, TypeOK
  <2> QED
    BY <1>1, <2>1, JustUp
<1>3. CASE ~switch_on(e)
  <2>1. state'[d] # "OFF" => state[d] # "OFF" /\ t_on'[d] = t_on[d]
    <3>1. CASE pwr_acquire(e)
      BY <1>3, <3>1 DEF pwr_acquire, AcquireSwitchingOn, AcquireJoining, AcquireRefused
    <3>2. CASE pwr_release(e)
      BY <3>2 DEF pwr_release, ReleaseLast, ReleaseKeeping, ReleaseRefused, switch_off, TypeOK
    <3>3. CASE pwr_arm(e)
      BY <1>3, <3>3 DEF pwr_arm, Arm, Disarm, switch_off, TypeOK
    <3>4. CASE pwr_tick_domain(e)
      BY <1>3, <3>4 DEF pwr_tick_domain, TickOpensWindow, TickDefersWindow, TickForcesOff, TickSettles,
                        Settles, switch_off, TypeOK
    <3> QED
      BY <3>1, <3>2, <3>3, <3>4
  <2> QED
    BY <1>1, <2>1, StillUp
<1> QED
  BY <1>2, <1>3

\* A sleep adds its length.
LEMMA SleepAdds ==
    ASSUME TypeOK, NEW d \in Domain, NEW n \in Nat, UpFor(d, n), NEW dt \in Nat, Advance(dt)
    PROVE  UpFor(d, n + dt)'
<1>1. /\ Wrap \in Nat \ {0} /\ now \in 0 .. Wrap - 1 /\ t_on[d] \in 0 .. Wrap - 1
      /\ OnMs[d] \in Nat /\ now' = (now + dt) % Wrap /\ state' = state /\ t_on' = t_on
  BY PowerAssumption DEF TypeOK, Advance
<1>2. elapsed(t_on[d]) \in Nat
  BY ElapsedType DEF TypeOK
<1>3. elapsed(t_on[d])' \in Nat /\ elapsed(t_on[d])' <= elapsed(t_on[d]) + dt
  BY <1>1, ElapsedAtMost DEF elapsed
<1> QED
  BY <1>1, <1>2, <1>3 DEF UpFor

\* While the loop waits for a rail it is settling, and its settle time is over when
\* the sleep is: each transducer has one sleep.
SettleInv ==
    /\ pc = "settle" => state[Rail] = "SETTLING" /\ elapsed(t_on[Rail]) < SettleMs[Rail]
    /\ pc = "settle tick" => state[Rail] = "SETTLING" /\ elapsed(t_on[Rail]) >= SettleMs[Rail]

\* A settle wait sleeps until its rail has settled, and no longer than it may keep
\* the cycle waiting.
LEMMA SettleSleepLength ==
    ASSUME TypeOK, LoopIndex, SettleInv, SleepWhileSettling
    PROVE  \E dt \in 1 .. Wrap - 1 :
               /\ Advance(dt) /\ dt <= SettleTime(Current)
               /\ elapsed(t_on[Rail])' >= SettleMs[Rail]
<1>1. Rail \in Domain /\ pc = "settle" /\ Managed(Current)
  BY ManagedRail DEF SleepWhileSettling, LoopIndex, Holding
<1>2. /\ SettleMs[Rail] \in Nat /\ Overshoot \in Nat /\ SettleMs[Rail] + Overshoot + 1 < Wrap
      /\ Wrap \in Nat \ {0} /\ now \in 0 .. Wrap - 1 /\ t_on[Rail] \in 0 .. Wrap - 1
  BY <1>1, PowerAssumption, LoopAssumption DEF TypeOK
<1>3. elapsed(t_on[Rail]) \in 0 .. Wrap - 1
  BY <1>1, ElapsedType DEF TypeOK
<1>4. state[Rail] = "SETTLING" /\ elapsed(t_on[Rail]) < SettleMs[Rail]
  BY <1>1 DEF SettleInv
<1> DEFINE rem == SettleMs[Rail] - elapsed(t_on[Rail])
<1>5. pwr_settle_remaining_ms(Rail) = rem /\ rem \in 1 .. SettleMs[Rail]
  BY <1>2, <1>3, <1>4 DEF pwr_settle_remaining_ms
<1>6. PICK late \in 0 .. Overshoot :
          Advance((IF pwr_settle_remaining_ms(Rail) = 0 THEN 1
                   ELSE pwr_settle_remaining_ms(Rail)) + late)
  BY DEF SleepWhileSettling
<1>7. Advance(rem + late)
  BY <1>5, <1>6
<1>8. /\ rem + late \in 1 .. Wrap - 1 /\ rem + late <= SettleMs[Rail] + Overshoot
      /\ elapsed(t_on[Rail]) + (rem + late) = SettleMs[Rail] + late
      /\ SettleMs[Rail] + late < Wrap /\ SettleMs[Rail] + late >= SettleMs[Rail]
  BY <1>2, <1>3, <1>5
<1>9. SettleTime(Current) = SettleMs[Rail] + Overshoot
  BY <1>1 DEF SettleTime, Rail
<1>10. now' = (now + (rem + late)) % Wrap /\ t_on' = t_on /\ idx' = idx
  BY <1>7 DEF Advance, SleepWhileSettling
<1>11. rem + late \in 0 .. Wrap - 1
  BY <1>2, <1>8
<1>12. elapsed(t_on[Rail])' = elapsed(t_on[Rail]) + (rem + late)
  <2> HIDE DEF rem
  <2>1. ((now - t_on[Rail]) % Wrap) + (rem + late) < Wrap
    BY <1>8 DEF elapsed
  <2>2. Rail' = Rail
    BY <1>10 DEF Rail, Current
  <2> QED
    BY <1>2, <1>10, <1>11, <2>1, <2>2, ElapsedGrows DEF elapsed
<1>13. elapsed(t_on[Rail])' >= SettleMs[Rail]
  BY <1>8, <1>12
<1> QED
  BY <1>7, <1>8, <1>9, <1>13

\* After its sleep a transducer reads, or has lost its rail.
LEMMA TickEndsSettle ==
    ASSUME TypeOK, LoopIndex, SettleInv, SettleTick
    PROVE  \/ NextXdcr
           \/ pc' = "read" /\ idx' = idx
<1>1. Rail \in Domain /\ Policy[Rail] # "periodic" /\ pc = "settle tick"
  BY ManagedRail DEF SettleTick, LoopIndex, Holding
<1>2. SUFFICES ASSUME state'[Rail] # "OFF"
               PROVE  pc' = "read" /\ idx' = idx
  BY DEF SettleTick
<1>3. state[Rail] = "SETTLING" /\ elapsed(t_on[Rail]) >= SettleMs[Rail]
  BY <1>1 DEF SettleInv
<1>4. TickSettles(Rail)
  BY <1>1, <1>2, <1>3 DEF SettleTick, pwr_tick_domain, TickOpensWindow, TickDefersWindow, TickForcesOff,
                          switch_off, TypeOK
<1>5. state'[Rail] = "ON"
  BY <1>1, <1>3, <1>4 DEF TickSettles, Settles, TypeOK
<1> QED
  BY <1>2, <1>5 DEF SettleTick, pwr_is_ready

LEMMA SettleStep ==
    TypeOK /\ LoopIndex /\ SettleInv /\ [LoopNext]_vars => SettleInv'
<1> SUFFICES ASSUME TypeOK, LoopIndex, SettleInv, [LoopNext]_vars
             PROVE  SettleInv'
  OBVIOUS
<1>1. CASE AcquireRail
  <2>1. Rail \in Domain /\ idx' = idx /\ pc' \in {"read", "settle"}
    BY <1>1, ManagedRail DEF AcquireRail
  <2>2. Rail' = Rail
    BY <2>1 DEF Rail, Current
  <2> SUFFICES ASSUME pc' = "settle"
               PROVE  state'[Rail] = "SETTLING" /\ (elapsed(t_on[Rail]) < SettleMs[Rail])'
    BY <2>1, <2>2 DEF SettleInv
  <2>3. state'[Rail] # "ON" /\ (state[Rail] # "OFF" => ~pwr_is_ready(Rail, state, now))
    BY <1>1 DEF AcquireRail
  <2>4. SettleMs[Rail] \in Nat /\ Wrap \in Nat \ {0} /\ now \in Int
    BY <2>1, PowerAssumption DEF TypeOK
  <2>5. CASE AcquireSwitchingOn(Rail)
    <3>1. t_on'[Rail] = now /\ now' = now /\ state'[Rail] = "SETTLING" /\ SettleMs[Rail] # 0
      BY <2>1, <2>3, <2>5 DEF AcquireSwitchingOn, switch_on, TypeOK
    <3>2. elapsed(t_on[Rail])' = 0
      BY <2>2, <2>4, <3>1, Modulus DEF elapsed
    <3> QED
      BY <2>2, <2>4, <3>1, <3>2
  <2>6. CASE AcquireJoining(Rail)
    <3>1. state[Rail] # "OFF" /\ state' = state /\ UNCHANGED <<t_on, now>>
      BY <2>6 DEF AcquireJoining
    <3>2. state[Rail] = "SETTLING" /\ ~(elapsed(t_on[Rail]) >= SettleMs[Rail])
      BY <2>1, <2>3, <3>1 DEF pwr_is_ready, elapsed, TypeOK, States
    <3>3. elapsed(t_on[Rail]) \in Nat
      BY <2>1, ElapsedType DEF TypeOK
    <3>4. elapsed(t_on[Rail])' = elapsed(t_on[Rail])
      BY <2>2, <3>1 DEF elapsed
    <3> QED
      BY <2>2, <2>4, <3>1, <3>2, <3>3, <3>4
  <2> QED
    BY <1>1, <2>5, <2>6 DEF AcquireRail
<1>2. CASE SleepWhileSettling
  <2>1. /\ pc' = "settle tick" /\ Rail' = Rail /\ state' = state /\ state[Rail] = "SETTLING"
    BY <1>2 DEF SleepWhileSettling, Advance, SettleInv, Rail, Current
  <2>2. (elapsed(t_on[Rail]))' >= SettleMs[Rail]
    BY <1>2, SettleSleepLength
  <2> QED
    BY <2>1, <2>2 DEF SettleInv
<1>3. CASE SettleTick
  BY <1>3, TickEndsSettle DEF NextXdcr, SettleInv
<1>4. CASE Boot \/ ReadClock \/ TickRail \/ CarryPeriodic \/ ReadPassive \/ NoRail \/ ReadManaged
           \/ ReleaseRail \/ Publish \/ Service \/ Wait
  BY <1>4 DEF Boot, ReadClock, TickRail, CarryPeriodic, ReadPassive, NoRail, ReadManaged, ReleaseRail,
              Publish, Service, Wait, NextXdcr, SettleInv
<1>5. CASE UNCHANGED vars
  BY <1>5 DEF vars, pwr_vars, loop_vars, SettleInv, elapsed, Rail, Current
<1> QED
  BY <1>1, <1>2, <1>3, <1>4, <1>5 DEF LoopNext

\* What the loop has done since the tick it is in began may take this long at most.
Spent(p, i) ==
    CASE p = "boot"                   -> WorkMax
      [] p = "tick"                   -> TickTimes[i - 1]
      [] p \in {"cycle", "settle"}     -> LongestTick + CycleTimes[i - 1]
      [] p \in {"settle tick", "read"} -> LongestTick + CycleTimes[i - 1] + SettleTime(XdcrOrder[i])
      [] p = "release"                -> LongestTick + CycleTimes[i]
      [] p = "publish"                -> LongestTick + CycleTimes[Len(XdcrOrder)]
      [] OTHER                        -> LongestTick + CycleTimes[Len(XdcrOrder)] + WorkMax

Ticked(d) == \E j \in 1 .. idx - 1 : DomainOrder[j] = d

\* Of the time spent the clock has not seen what it is behind.  From its tick on, a
\* rail has its on-time and what this pass has spent; in the next pass it has a whole
\* one more until its tick has come again.
OnTimeInv ==
    /\ behind <= Spent(pc, idx)
    /\ \A d \in Domain :
          /\ pc = "tick" =>
                /\ UpFor(d, LongestPass + Spent(pc, idx) - behind)
                /\ Ticked(d) => UpFor(d, Spent(pc, idx) - behind)
          /\ pc # "tick" => UpFor(d, Spent(pc, idx) - behind)

\* The time of a pass is that of its parts.
LEMMA PassType ==
    /\ LongestTick \in Nat /\ CycleTimes[Len(XdcrOrder)] \in Nat /\ WorkMax \in Nat /\ WaitMax \in Nat
    /\ LongestPass \in Nat
    /\ LongestPass = LongestTick + CycleTimes[Len(XdcrOrder)] + WorkMax + WaitMax
<1>1. Len(XdcrOrder) \in 0 .. Len(XdcrOrder) /\ Len(DomainOrder) \in 0 .. Len(DomainOrder)
  BY Tables
<1>2. CycleTimes[Len(XdcrOrder)] \in Nat /\ LongestTick \in Nat
  BY <1>1, CycleTimesAdd, TickTimesAdd DEF LongestTick
<1>3. WorkMax \in Nat /\ WaitMax \in Nat
  BY PowerAssumption, LoopAssumption
<1>4. PICK a, b, c, e : /\ a = LongestTick /\ b = CycleTimes[Len(XdcrOrder)]
                        /\ c = WorkMax /\ e = WaitMax
  OBVIOUS
<1>5. LongestPass = a + b + c + e
  BY <1>4, Zenon DEF LongestPass
<1>6. a \in Nat /\ b \in Nat /\ c \in Nat /\ e \in Nat
  BY <1>2, <1>3, <1>4
<1>7. a + b + c + e \in Nat
  BY <1>6
<1> QED
  BY <1>4, <1>5, <1>6, <1>7, Zenon

\* At each place of a transducer, the time spent in parts.
Parts(i, a, b, c, e) ==
    /\ LongestTick = a /\ CycleTimes[i - 1] = b
    /\ SettleTime(XdcrOrder[i]) = c /\ ReadMs[XdcrOrder[i]] = e
    /\ CycleTimes[i] = b + (c + e) /\ b + (c + e) <= CycleTimes[Len(XdcrOrder)]
    /\ \A p \in {"cycle", "settle"} : Spent(p, i) = a + b
    /\ \A p \in {"settle tick", "read"} : Spent(p, i) = a + b + c
    /\ Spent("release", i) = a + (b + (c + e))
    /\ Spent("publish", 1) = a + CycleTimes[Len(XdcrOrder)]
    /\ i # Len(XdcrOrder) => Spent("cycle", i + 1) = a + (b + (c + e))

LEMMA SpentOnTransducer ==
    ASSUME NEW i \in 1 .. Len(XdcrOrder)
    PROVE  \E a, b, c, e \in Nat : Parts(i, a, b, c, e)
<1>1. i \in 0 .. Len(XdcrOrder) /\ i - 1 \in 0 .. Len(XdcrOrder) /\ (i + 1) - 1 = i
  BY Tables
<1>2. PICK a, b, c, e : /\ LongestTick = a /\ CycleTimes[i - 1] = b
                        /\ SettleTime(XdcrOrder[i]) = c /\ ReadMs[XdcrOrder[i]] = e
  OBVIOUS
<1>3. a \in Nat /\ b \in Nat /\ c \in Nat /\ e \in Nat
  BY <1>1, <1>2, PassType, CycleTimesAdd, SettleTimeType
<1>4. CycleTimes[i] = b + (c + e) /\ CycleTimes[i] <= CycleTimes[Len(XdcrOrder)]
  BY <1>1, <1>2, CycleTimesAdd DEF CycleTime
<1>5. /\ \A p \in {"cycle", "settle"} : Spent(p, i) = a + b
      /\ \A p \in {"settle tick", "read"} : Spent(p, i) = a + b + c
      /\ Spent("release", i) = a + CycleTimes[i]
      /\ Spent("publish", 1) = a + CycleTimes[Len(XdcrOrder)]
      /\ Spent("cycle", i + 1) = a + CycleTimes[i]
  BY <1>1, <1>2 DEF Spent
<1> QED
  BY <1>2, <1>3, <1>4, <1>5 DEF Parts

\* The time spent never counts for more than a pass.
LEMMA SpentType ==
    ASSUME LoopIndex
    PROVE  /\ Spent(pc, idx) \in Nat
           /\ pc = "tick" => Spent(pc, idx) <= LongestTick
           /\ pc # "tick" => Spent(pc, idx) <= LongestPass
<1>1. PICK a, b, c, e : /\ a = LongestTick /\ b = CycleTimes[Len(XdcrOrder)]
                        /\ c = WorkMax /\ e = WaitMax
  OBVIOUS
<1>2. /\ a \in Nat /\ b \in Nat /\ c \in Nat /\ e \in Nat
      /\ LongestPass = a + b + c + e
  BY <1>1, PassType
<1> PICK s : s = Spent(pc, idx)
  OBVIOUS
<1>3. CASE pc = "tick"
  <2>1. idx - 1 \in 0 .. Len(DomainOrder)
    BY <1>3, Tables DEF LoopIndex
  <2>2. s \in Nat /\ s <= LongestTick
    BY <1>3, <2>1, TickTimesAdd DEF Spent
  <2> QED
    BY <1>3, <2>2
<1>4. CASE pc \in Holding \union {"cycle"}
  <2>1. idx \in 1 .. Len(XdcrOrder)
    BY <1>4 DEF LoopIndex
  <2>2. PICK u, v, x, y \in Nat : Parts(idx, u, v, x, y)
    BY <2>1, SpentOnTransducer
  <2>3. s = u + v \/ s = u + v + x \/ s = u + (v + (x + y))
    BY <1>4, <2>2 DEF Holding, Parts
  <2>4. u = a /\ v + (x + y) <= b
    BY <1>1, <2>2 DEF Parts
  <2> PICK z : z = s
    OBVIOUS
  <2>5. z \in Nat /\ z <= a + b + c + e
    BY <1>2, <2>3, <2>4
  <2> QED
    BY <1>2, <1>4, <2>5 DEF Holding
<1>5. CASE pc \notin Holding \union {"cycle", "tick"}
  <2>1. s \in {c, a + b, a + b + c}
    BY <1>1, <1>5 DEF Spent, Holding
  <2>2. s \in Nat /\ s <= a + b + c + e
    BY <1>2, <2>1
  <2> QED
    BY <1>2, <1>5, <2>2
<1> QED
  BY <1>3, <1>4, <1>5

\* Moving on to the next transducer, all that came before has been accounted for.
LEMMA SpentNext ==
    ASSUME LoopIndex, pc \in Holding \union {"cycle"}, NextXdcr
    PROVE  \E a, b \in Nat :
              /\ a = Spent(pc, idx) /\ b = Spent(pc', idx') /\ a <= b
              /\ pc = "cycle" => ReadMs[Current] \in Nat /\ a + ReadMs[Current] <= b
<1>1. idx \in 1 .. Len(XdcrOrder) /\ Len(XdcrOrder) \in Nat
  BY Tables DEF LoopIndex
<1>2. PICK u, v, x, y \in Nat : Parts(idx, u, v, x, y)
  BY <1>1, SpentOnTransducer
<1>3. /\ pc = "cycle" => Spent(pc, idx) = u + v
      /\ Spent(pc, idx) = u + v \/ Spent(pc, idx) = u + v + x \/ Spent(pc, idx) = u + (v + (x + y))
      /\ ReadMs[Current] = y
  BY <1>2 DEF Parts, Holding, Current
<1>4. Spent(pc', idx') = u + (v + (x + y))
  <2>1. CASE idx < Len(XdcrOrder)
    <3>1. pc' = "cycle" /\ idx' = idx + 1 /\ idx # Len(XdcrOrder)
      BY <1>1, <2>1 DEF NextXdcr
    <3> QED
      BY <1>2, <3>1 DEF Parts
  <2>2. CASE ~(idx < Len(XdcrOrder))
    <3>1. pc' = "publish" /\ idx' = 1 /\ idx = Len(XdcrOrder)
      BY <1>1, <2>2 DEF NextXdcr
    <3>2. Spent("publish", 1) = u + CycleTimes[idx] /\ CycleTimes[idx] = v + (x + y)
      BY <1>2, <3>1 DEF Parts
    <3> QED
      BY <3>1, <3>2
  <2> QED
    BY <2>1, <2>2
<1>5. PICK a : a = Spent(pc, idx)
  OBVIOUS
<1>6. /\ a \in Nat /\ a <= u + (v + (x + y)) /\ u + (v + (x + y)) \in Nat
      /\ pc = "cycle" => y \in Nat /\ a + y <= u + (v + (x + y))
  BY <1>2, <1>3, <1>5
<1> QED
  BY <1>3, <1>4, <1>5, <1>6

LEMMA UpForLongerNext ==
    ASSUME TypeOK', NEW d \in Domain, NEW n \in Nat, NEW m \in Nat, n <= m, UpFor(d, n)'
    PROVE  UpFor(d, m)'
<1>1. OnMs[d] \in Nat /\ ((now - t_on[d]) % Wrap)' \in Nat
  BY RailNumbersNext
<1>2. state'[d] # "OFF" /\ OnMs[d] # 0 => ((now - t_on[d]) % Wrap)' < OnMs[d] + n
  BY DEF UpFor, elapsed
<1>3. state'[d] # "OFF" /\ OnMs[d] # 0 => ((now - t_on[d]) % Wrap)' < OnMs[d] + m
  BY <1>1, <1>2
<1> QED
  BY <1>3 DEF UpFor, elapsed

\* The invariant in the next state, from the numbers it is about.
LEMMA OnTimeNext ==
    ASSUME NEW s, NEW m, NEW k, s = Spent(pc', idx'), behind' <= s, m = s - behind',
           k = LongestPass + s - behind',
           \A d \in Domain :
               /\ pc' = "tick" => UpFor(d, k)' /\ (Ticked(d)' => UpFor(d, m)')
               /\ pc' # "tick" => UpFor(d, m)'
    PROVE  OnTimeInv'
<1>1. Spent(pc, idx)' = s
  BY DEF Spent
<1>2. ASSUME NEW d \in Domain
      PROVE  /\ UpFor(d, m)' => UpFor(d, Spent(pc, idx) - behind)'
             /\ UpFor(d, k)' => UpFor(d, LongestPass + Spent(pc, idx) - behind)'
  BY <1>1 DEF UpFor, elapsed
<1> QED
  BY <1>1, <1>2 DEF OnTimeInv

\* A call of the controller, or none, on the way to a place where no less time is left.
LEMMA OnTimeCall ==
    ASSUME TypeOK, TypeOK', LoopIndex, ClockInv, behind' \in Nat, OnTimeInv, pc # "tick", pc' # "tick",
           \/ UNCHANGED pwr_vars
           \/ \E e \in Domain : pwr_acquire(e) \/ pwr_release(e) \/ pwr_arm(e) \/ pwr_tick_domain(e),
           NEW a \in Nat, a = Spent(pc, idx), NEW b \in Nat, b = Spent(pc', idx'),
           behind' <= b, a - behind <= b - behind'
    PROVE  OnTimeInv'
<1>1. PICK n, m : n = a - behind /\ m = b - behind'
  OBVIOUS
<1>2. n \in Nat /\ m \in Nat /\ n <= m
  <2>1. PICK c, e : c = behind /\ e = behind'
    OBVIOUS
  <2>2. c \in Nat /\ c <= a
    BY <2>1, Zenon DEF OnTimeInv, ClockInv
  <2>3. e \in Nat /\ e <= b /\ n = a - c /\ m = b - e /\ a - c <= b - e
    BY <1>1, <2>1, Zenon
  <2> QED
    BY ONLY a \in Nat, b \in Nat, <2>2, <2>3
<1>3. ASSUME NEW d \in Domain
      PROVE  UpFor(d, m)'
  <2>1. UpFor(d, n)
    BY <1>1 DEF OnTimeInv
  <2>2. UpFor(d, n)'
    <3>1. CASE UNCHANGED pwr_vars
      BY <2>1, <3>1 DEF UpFor, elapsed, pwr_vars
    <3>2. CASE \E e \in Domain : pwr_acquire(e) \/ pwr_release(e) \/ pwr_arm(e) \/ pwr_tick_domain(e)
      BY <1>2, <2>1, <3>2, CallKeepsUpFor
    <3> QED
      BY <3>1, <3>2
  <2> QED
    BY <1>2, <2>2, UpForLongerNext
<1>4. PICK k : k = LongestPass + b - behind'
  OBVIOUS
<1> QED
  BY <1>1, <1>3, <1>4, OnTimeNext

\* A pass begins with a whole one to go.
LEMMA OnTimeBegins ==
    ASSUME TypeOK', pc' = "tick", idx' = 1, behind' = 0, NEW n \in Nat, n <= LongestPass,
           \A d \in Domain : UpFor(d, n)'
    PROVE  OnTimeInv'
<1>1. Spent(pc', idx') = 0
  BY TickTimesAdd DEF Spent
<1>2. \A d \in Domain : UpFor(d, LongestPass)'
  BY UpForLongerNext, PassType
<1>3. \A d \in Domain : ~Ticked(d)'
  BY DEF Ticked
<1>4. LongestPass + 0 - behind' = LongestPass /\ 0 - behind' = 0
  BY PassType
<1> QED
  BY <1>1, <1>2, <1>3, <1>4, OnTimeNext

LEMMA OnTimeTick ==
    ASSUME TypeOK, TypeOK', LoopIndex, ClockInv, behind' \in Nat, OnTimeInv, TickRail
    PROVE  OnTimeInv'
<1>1. DomainOrder[idx] \in Domain /\ idx \in 1 .. Len(DomainOrder) /\ Len(DomainOrder) \in Nat
  BY Tables DEF TickRail, LoopIndex
<1>2. PICK e \in Domain : e = DomainOrder[idx]
  BY <1>1
<1>3. pc = "tick" /\ pwr_tick_domain(e)
  BY <1>2 DEF TickRail
<1>4. PICK t, u, p : t = TickTimes[idx - 1] /\ u = TickTimes[idx] /\ p = LongestPass
  OBVIOUS
<1>5. t \in Nat /\ u \in Nat /\ p \in Nat /\ u = t + WindowMs[e] /\ WindowMs[e] \in Nat
  <2>1. idx \in 0 .. Len(DomainOrder) /\ idx - 1 \in 0 .. Len(DomainOrder)
    BY <1>1
  <2>2. WindowMs[e] \in Nat
    BY LoopAssumption
  <2> QED
    BY <1>1, <1>2, <1>4, <2>1, <2>2, TickTimesAdd, PassType
<1>6. behind \in Nat /\ behind <= t /\ Spent(pc, idx) = t
  BY <1>3, <1>4 DEF ClockInv, OnTimeInv, Spent
<1>7. behind' >= behind /\ behind' <= behind + WindowMs[e]
  <2>1. \E most \in 0 .. WindowMs[e] : Takes(most)
    BY <1>2, <1>5 DEF TickRail
  <2> QED
    BY <1>5, <1>6, <2>1, TakesTime
<1>8. PICK n, m, k, l : /\ n = t - behind /\ m = u - behind'
                        /\ k = p + t - behind /\ l = p + u - behind'
  OBVIOUS
<1>9. /\ n \in Nat /\ m \in Nat /\ k \in Nat /\ l \in Nat
      /\ n <= m /\ k <= l /\ 0 <= m /\ behind' <= u
  BY <1>5, <1>6, <1>7, <1>8
<1>10. UpFor(e, 0)'
  BY <1>3, TickBounds
<1>11. \A d \in Domain : UpFor(d, l)' /\ (Ticked(d) => UpFor(d, m)')
  <2> SUFFICES ASSUME NEW d \in Domain
               PROVE  UpFor(d, l)' /\ (Ticked(d) => UpFor(d, m)')
    OBVIOUS
  <2>1. UpFor(d, k) /\ (Ticked(d) => UpFor(d, n))
    BY <1>3, <1>4, <1>6, <1>8 DEF OnTimeInv
  <2>2. UpFor(d, k)' /\ (Ticked(d) => UpFor(d, n)')
    BY <1>3, <1>9, <2>1, CallKeepsUpFor
  <2> QED
    BY <1>9, <2>2, UpForLongerNext
<1>12. \A d \in Domain : (\E j \in 1 .. idx : DomainOrder[j] = d) => UpFor(d, m)'
  <2> SUFFICES ASSUME NEW d \in Domain, NEW j \in 1 .. idx, DomainOrder[j] = d
               PROVE  UpFor(d, m)'
    OBVIOUS
  <2>1. CASE j = idx
    BY <1>2, <1>9, <1>10, <2>1, UpForLongerNext
  <2>2. CASE j # idx
    <3>1. j \in 1 .. idx - 1
      BY <1>1, <2>2
    <3> QED
      BY <1>11, <3>1 DEF Ticked
  <2> QED
    BY <2>1, <2>2
<1>13. CASE pc' = "tick"
  <2>1. idx' - 1 = idx
    BY <1>1, <1>13 DEF TickRail
  <2>2. Spent(pc', idx') = u
    BY <1>4, <1>13, <2>1 DEF Spent
  <2>3. \A d \in Domain : Ticked(d)' => UpFor(d, m)'
    BY <1>12, <2>1 DEF Ticked
  <2> QED
    BY <1>4, <1>8, <1>9, <1>11, <1>13, <2>2, <2>3, OnTimeNext
<1>14. CASE pc' # "tick"
  <2>1. idx = Len(DomainOrder) /\ pc' \in {"cycle", "service"} /\ idx' = 1
    BY <1>3, <1>14 DEF TickRail
  <2>2. \A d \in Domain : UpFor(d, m)'
    <3>1. \A d \in Domain : \E j \in 1 .. Len(DomainOrder) : DomainOrder[j] = d
      <4>1. Range(DomainOrder) = {DomainOrder[j] : j \in DOMAIN DomainOrder}
        BY DEF Range
      <4>2. DOMAIN DomainOrder = 1 .. Len(DomainOrder)
        BY LoopAssumption
      <4> QED
        BY <4>1, <4>2, LoopAssumption
    <3> QED
      BY <1>12, <2>1, <3>1
  <2>3. PICK s, h : s = Spent(pc', idx') /\ h = s - behind'
    OBVIOUS
  <2>4. s \in Nat /\ u <= s
    <3>1. u = LongestTick
      BY <1>4, <2>1 DEF LongestTick
    <3>2. PICK b, c : b = CycleTimes[Len(XdcrOrder)] /\ c = WorkMax
      OBVIOUS
    <3>3. b \in Nat /\ c \in Nat
      BY <3>2, PassType
    <3>4. CycleTimes[1 - 1] = 0
      BY CycleTimesAdd
    <3>5. s = u + 0 \/ s = u + b + c
      BY <2>1, <2>3, <3>1, <3>2, <3>4 DEF Spent
    <3> QED
      BY <1>5, <3>3, <3>5
  <2>5. h \in Nat /\ m <= h /\ behind' <= s
    BY <1>5, <1>8, <1>9, <2>3, <2>4
  <2>6. \A d \in Domain : UpFor(d, h)'
    BY <1>9, <2>2, <2>5, UpForLongerNext
  <2>7. PICK q : q = LongestPass + s - behind'
    OBVIOUS
  <2> QED
    BY <1>14, <2>3, <2>5, <2>6, <2>7, OnTimeNext
<1> QED
  BY <1>13, <1>14

LEMMA OnTimeReadClock ==
    ASSUME TypeOK, TypeOK', LoopIndex, ClockInv, OnTimeInv, ReadClock
    PROVE  OnTimeInv'
<1>1. /\ pc # "tick" /\ pc' = pc /\ idx' = idx /\ behind' = 0 /\ Advance(behind)
  BY DEF ReadClock
<1>2. PICK dt, s, n : dt = behind /\ s = Spent(pc, idx) /\ n = s - dt
  OBVIOUS
<1>3. dt \in Nat /\ s \in Nat /\ dt <= s
  BY <1>2, SpentType DEF ClockInv, OnTimeInv
<1>4. n \in Nat /\ n + dt = s
  BY <1>2, <1>3
<1>5. \A d \in Domain : UpFor(d, s)'
  <2> SUFFICES ASSUME NEW d \in Domain
               PROVE  UpFor(d, s)'
    OBVIOUS
  <2>1. UpFor(d, n)
    BY <1>1, <1>2 DEF OnTimeInv
  <2>2. UpFor(d, n + dt)'
    BY <1>1, <1>2, <1>3, <1>4, <2>1, SleepAdds
  <2> QED
    BY <1>4, <2>2
<1>6. PICK k : k = LongestPass + s - behind'
  OBVIOUS
<1>7. s = Spent(pc', idx') /\ s = s - behind' /\ behind' <= s
  BY <1>1, <1>2, <1>3
<1> QED
  BY <1>1, <1>5, <1>6, <1>7, OnTimeNext

LEMMA OnTimeSettleSleep ==
    ASSUME TypeOK, TypeOK', LoopIndex, ClockInv, SettleInv, OnTimeInv, SleepWhileSettling
    PROVE  OnTimeInv'
<1>1. PICK dt \in 1 .. Wrap - 1 : Advance(dt) /\ dt <= SettleTime(Current)
  BY SettleSleepLength
<1>2. /\ pc = "settle" /\ pc' = "settle tick" /\ idx' = idx /\ idx \in 1 .. Len(XdcrOrder)
      /\ behind = 0 /\ behind' = 0
  BY DEF SleepWhileSettling, LoopIndex, ClockInv, Holding
<1>3. PICK u, v, x, y \in Nat : Parts(idx, u, v, x, y)
  BY <1>2, SpentOnTransducer
<1>4. Spent(pc, idx) = u + v /\ Spent(pc', idx') = u + v + x /\ dt <= x
  BY <1>1, <1>2, <1>3 DEF Parts, Current
<1>5. dt \in Nat
  BY PowerAssumption
<1>6. PICK n, m : n = u + v /\ m = u + v + x
  OBVIOUS
<1>7. n \in Nat /\ m \in Nat /\ n + dt \in Nat /\ n + dt <= m /\ n - 0 = n /\ m - 0 = m
  BY <1>4, <1>5, <1>6
<1>8. \A d \in Domain : UpFor(d, m)'
  <2> SUFFICES ASSUME NEW d \in Domain
               PROVE  UpFor(d, m)'
    OBVIOUS
  <2>1. UpFor(d, n)
    BY <1>2, <1>4, <1>6, <1>7 DEF OnTimeInv
  <2>2. UpFor(d, n + dt)'
    BY <1>1, <1>5, <1>7, <2>1, SleepAdds
  <2> QED
    BY <1>7, <2>2, UpForLongerNext
<1>9. PICK k : k = LongestPass + m - behind'
  OBVIOUS
<1>10. m = Spent(pc', idx')
  BY <1>4, <1>6, Zenon
<1>11. m = m - behind' /\ behind' <= m
  <2>1. 0 <= m
    BY <1>7
  <2> QED
    BY <1>2, <1>7, <2>1, Zenon
<1> QED
  BY <1>2, <1>8, <1>9, <1>10, <1>11, OnTimeNext

LEMMA OnTimeWait ==
    ASSUME TypeOK, TypeOK', LoopIndex, ClockInv, OnTimeInv, Wait
    PROVE  OnTimeInv'
<1>1. PICK dt \in Nat : dt <= WaitMax /\ Advance(dt)
  BY PassType DEF Wait
<1>2. pc = "wait" /\ pc' = "tick" /\ idx' = 1 /\ behind = 0 /\ behind' = 0
  BY DEF Wait, LoopIndex, ClockInv
<1>3. PICK a, b, c, e : /\ a = LongestTick /\ b = CycleTimes[Len(XdcrOrder)]
                        /\ c = WorkMax /\ e = WaitMax
  OBVIOUS
<1>4. /\ a \in Nat /\ b \in Nat /\ c \in Nat /\ e \in Nat /\ LongestPass = a + b + c + e
  BY <1>3, PassType
<1>5. PICK n, m : n = a + b + c /\ m = a + b + c + dt
  OBVIOUS
<1>6. dt \in Nat /\ n \in Nat /\ m \in Nat /\ n + dt = m /\ n - 0 = n
  BY ONLY dt \in Nat, <1>4, <1>5
<1>7. m <= LongestPass
  <2>1. dt <= e
    BY <1>1, <1>3
  <2>2. m <= a + b + c + e
    BY <1>4, <1>5, <2>1
  <2> QED
    BY <1>4, <2>2
<1>8. Spent(pc, idx) = n
  BY <1>2, <1>3, <1>5 DEF Spent
<1>9. \A d \in Domain : UpFor(d, m)'
  <2> SUFFICES ASSUME NEW d \in Domain
               PROVE  UpFor(d, m)'
    OBVIOUS
  <2>1. UpFor(d, n)
    BY <1>2, <1>6, <1>8 DEF OnTimeInv
  <2>2. UpFor(d, n + dt)'
    BY <1>1, <1>6, <2>1, SleepAdds
  <2> QED
    BY <1>6, <2>2
<1> QED
  BY <1>2, <1>6, <1>7, <1>9, OnTimeBegins

LEMMA OnTimeBoot ==
    ASSUME TypeOK, TypeOK', LoopIndex, ClockInv, OnTimeInv, Boot
    PROVE  OnTimeInv'
<1>1. pc = "boot" /\ pc' = "tick" /\ idx' = 1 /\ behind = 0 /\ behind' = 0
  BY DEF Boot, LoopIndex
<1>2. PICK n : n = WorkMax
  OBVIOUS
<1>3. n \in Nat /\ n <= LongestPass /\ n - 0 = n
  <2>1. PICK a, b, e : a = LongestTick /\ b = CycleTimes[Len(XdcrOrder)] /\ e = WaitMax
    OBVIOUS
  <2>2. a \in Nat /\ b \in Nat /\ n \in Nat /\ e \in Nat /\ LongestPass = a + b + n + e
    BY <1>2, <2>1, PassType
  <2> QED
    BY <2>2
<1>4. Spent(pc, idx) = n
  BY <1>1, <1>2 DEF Spent
<1>5. \A d \in Domain : UpFor(d, n)'
  <2> SUFFICES ASSUME NEW d \in Domain
               PROVE  UpFor(d, n)'
    OBVIOUS
  <2>1. UpFor(d, n)
    BY <1>1, <1>3, <1>4 DEF OnTimeInv
  <2>2. CASE UNCHANGED pwr_vars
    BY <2>1, <2>2 DEF UpFor, elapsed, pwr_vars
  <2>3. CASE \E e \in Domain : Arm(e)
    BY <1>3, <2>1, <2>3, CallKeepsUpFor DEF pwr_arm
  <2> QED
    BY <2>2, <2>3 DEF Boot
<1> QED
  BY <1>1, <1>3, <1>5, OnTimeBegins

\* The steps of the loop that take a transducer's turn further.
LEMMA OnTimeTransducer ==
    ASSUME TypeOK, TypeOK', LoopIndex, ClockInv, behind' \in Nat, SettleInv, OnTimeInv,
           \/ CarryPeriodic \/ ReadPassive \/ AcquireRail \/ NoRail
           \/ SettleTick \/ ReadManaged \/ ReleaseRail
    PROVE  OnTimeInv'
<1>b. behind \in Nat /\ behind <= Spent(pc, idx)
  BY DEF ClockInv, OnTimeInv
<1>1. CASE NextXdcr /\ ~ReadPassive
  <2>1. PICK a, b \in Nat : a = Spent(pc, idx) /\ b = Spent(pc', idx') /\ a <= b
    BY <1>1, SpentNext DEF CarryPeriodic, NoRail, SettleTick, ReleaseRail, AcquireRail, ReadManaged,
                           NextXdcr, Holding
  <2>2. /\ pc # "tick" /\ pc' # "tick" /\ behind' = behind
        /\ pc \in Holding \union {"cycle"}
    BY <1>1 DEF CarryPeriodic, NoRail, SettleTick, ReleaseRail, AcquireRail, ReadManaged, NextXdcr, Holding
  <2>3. \/ UNCHANGED pwr_vars
        \/ \E e \in Domain : pwr_acquire(e) \/ pwr_release(e) \/ pwr_arm(e) \/ pwr_tick_domain(e)
    <3>1. CASE CarryPeriodic
      BY <3>1 DEF CarryPeriodic
    <3>2. CASE NoRail
      BY <3>2, ManagedRail DEF NoRail, pwr_acquire
    <3>3. CASE SettleTick \/ ReleaseRail
      BY <3>3, ManagedRail DEF SettleTick, ReleaseRail, LoopIndex, Holding
    <3>4. CASE AcquireRail \/ ReadManaged
      BY <1>1, <3>4 DEF AcquireRail, ReadManaged, NextXdcr
    <3> QED
      BY <1>1, <3>1, <3>2, <3>3, <3>4
  <2>4. behind' <= b /\ a - behind <= b - behind'
    <3>1. PICK c : c = behind
      OBVIOUS
    <3>2. c \in Nat /\ c <= a /\ behind' = c
      BY <1>b, <2>1, <2>2, <3>1, Zenon
    <3> QED
      BY <2>1, <3>1, <3>2
  <2> QED
    BY <2>1, <2>2, <2>3, <2>4, OnTimeCall
<1>2. CASE ReadPassive
  <2>1. pc = "cycle" /\ NextXdcr /\ UNCHANGED pwr_vars /\ Takes(ReadMs[Current]) /\ pc' # "tick"
    BY <1>2 DEF ReadPassive, NextXdcr
  <2>2. PICK a, b \in Nat : /\ a = Spent(pc, idx) /\ b = Spent(pc', idx')
                            /\ ReadMs[Current] \in Nat /\ a + ReadMs[Current] <= b
    BY <2>1, SpentNext
  <2>3. behind' <= behind + ReadMs[Current]
    BY <1>b, <2>1, <2>2, TakesTime
  <2>4. behind' <= b /\ a - behind <= b - behind'
    BY <1>b, <2>2, <2>3
  <2> QED
    BY <2>1, <2>2, <2>4, OnTimeCall
<1>3. CASE ~NextXdcr /\ ~ReadPassive
  <2>1. AcquireRail \/ SettleTick \/ ReadManaged
    BY <1>3 DEF CarryPeriodic, NoRail, ReleaseRail
  <2>2. pc \in Holding \union {"cycle"} /\ pc # "tick"
    BY <2>1 DEF AcquireRail, SettleTick, ReadManaged, Holding
  <2>3. idx \in 1 .. Len(XdcrOrder)
    BY <2>2 DEF LoopIndex
  <2>4. PICK u, v, x, y \in Nat : Parts(idx, u, v, x, y)
    BY <2>3, SpentOnTransducer
  <2>5. CASE AcquireRail
    <3>1. /\ pc = "cycle" /\ idx' = idx /\ pc' \in {"read", "settle"} /\ behind' = 0 /\ behind = 0
          /\ Rail \in Domain /\ pwr_acquire(Rail)
      BY <2>5, ManagedRail DEF AcquireRail, pwr_acquire
    <3>2. PICK a, b : a = u + v /\ b = Spent(pc', idx')
      OBVIOUS
    <3>3. a = Spent(pc, idx) /\ (b = u + v \/ b = u + v + x)
      BY <2>4, <3>1, <3>2 DEF Parts
    <3>4. a \in Nat /\ b \in Nat /\ 0 <= b /\ a - 0 <= b - 0
      BY <3>2, <3>3
    <3> QED
      BY <3>1, <3>2, <3>3, <3>4, OnTimeCall
  <2>6. CASE SettleTick
    <3>1. /\ pc = "settle tick" /\ pc' = "read" /\ idx' = idx /\ behind' = 0 /\ behind = 0
          /\ Rail \in Domain /\ pwr_tick_domain(Rail)
      BY <1>3, <2>6, ManagedRail, TickEndsSettle DEF SettleTick, ClockInv, LoopIndex, Holding
    <3>2. PICK a : a = u + v + x
      OBVIOUS
    <3>3. a = Spent(pc, idx) /\ a = Spent(pc', idx')
      BY <2>4, <3>1, <3>2 DEF Parts
    <3>4. a \in Nat /\ 0 <= a /\ a - 0 <= a - 0
      BY <3>2
    <3> QED
      BY <3>1, <3>3, <3>4, OnTimeCall
  <2>7. CASE ReadManaged
    <3>1. /\ pc = "read" /\ pc' = "release" /\ idx' = idx /\ behind = 0
          /\ Takes(ReadMs[Current]) /\ UNCHANGED pwr_vars
      BY <2>7 DEF ReadManaged, ClockInv
    <3>2. PICK a, b : a = u + v + x /\ b = u + (v + (x + y))
      OBVIOUS
    <3>3. a = Spent(pc, idx) /\ b = Spent(pc', idx') /\ ReadMs[Current] = y
      BY <2>4, <3>1, <3>2 DEF Parts, Current
    <3>4. behind' <= y
      BY <1>b, <3>1, <3>3, TakesTime
    <3>5. a \in Nat /\ b \in Nat /\ behind' <= b /\ a - 0 <= b - behind'
      <4>1. PICK f : f = behind'
        OBVIOUS
      <4>2. f \in Nat /\ f <= y
        BY <3>4, <4>1, Zenon
      <4>3. a \in Nat /\ b \in Nat /\ f <= b /\ a - 0 <= b - f
        BY ONLY u \in Nat, v \in Nat, x \in Nat, y \in Nat, <3>2, <4>2
      <4> QED
        BY <4>1, <4>3, Zenon
    <3> QED
      BY <3>1, <3>3, <3>5, OnTimeCall
  <2> QED
    BY <2>1, <2>5, <2>6, <2>7
<1> QED
  BY <1>1, <1>2, <1>3

LEMMA OnTimeEnd ==
    ASSUME TypeOK, TypeOK', LoopIndex, ClockInv, behind' \in Nat, OnTimeInv, Publish \/ Service
    PROVE  OnTimeInv'
<1>1. PICK a, b, c : a = LongestTick /\ b = CycleTimes[Len(XdcrOrder)] /\ c = WorkMax
  OBVIOUS
<1>2. a \in Nat /\ b \in Nat /\ c \in Nat
  BY <1>1, PassType
<1>3. PICK n, m : n = a + b /\ m = a + b + c
  OBVIOUS
<1>4. n \in Nat /\ m \in Nat /\ m = n + c
  BY <1>2, <1>3
<1>5. CASE Publish
  <2>1. pc = "publish" /\ pc' = "service" /\ UNCHANGED pwr_vars /\ Takes(c)
    BY <1>1, <1>5 DEF Publish
  <2>2. n = Spent(pc, idx) /\ m = Spent(pc', idx')
    BY <1>1, <1>3, <2>1 DEF Spent
  <2>3. behind \in Nat /\ behind <= n /\ behind' <= behind + c
    BY <1>2, <2>1, <2>2, TakesTime DEF ClockInv, OnTimeInv
  <2>4. behind' <= m /\ n - behind <= m - behind'
    <3>1. PICK e, f : e = behind /\ f = behind'
      OBVIOUS
    <3>2. e \in Nat /\ f \in Nat /\ e <= n /\ f <= e + c
      BY <2>3, <3>1, Zenon
    <3>3. f <= m /\ n - e <= m - f
      BY ONLY <1>2, <1>4, <3>2
    <3> QED
      BY <3>1, <3>3, Zenon
  <2> QED
    BY <1>4, <2>1, <2>2, <2>4, OnTimeCall
<1>6. CASE Service
  <2>1. /\ pc = "service" /\ pc' = "wait" /\ behind = 0 /\ behind' = 0
        /\ UNCHANGED pwr_vars \/ \E e \in Domain : pwr_arm(e)
    BY <1>6 DEF Service
  <2>2. m = Spent(pc, idx) /\ m = Spent(pc', idx')
    BY <1>1, <1>3, <2>1 DEF Spent
  <2>3. 0 <= m /\ m - 0 <= m - 0
    BY <1>4
  <2> QED
    BY <1>4, <2>1, <2>2, <2>3, OnTimeCall
<1> QED
  BY <1>5, <1>6

LEMMA OnTimeStep ==
    TypeOK /\ TypeOK' /\ LoopIndex /\ ClockInv /\ SettleInv /\ OnTimeInv /\ [LoopNext]_vars
        => OnTimeInv'
<1> SUFFICES ASSUME TypeOK, TypeOK', LoopIndex, ClockInv, SettleInv, OnTimeInv, [LoopNext]_vars
             PROVE  OnTimeInv'
  OBVIOUS
<1>1. behind' \in Nat
  BY ClockStep DEF ClockInv
<1>2. CASE TickRail
  BY <1>1, <1>2, OnTimeTick
<1>3. CASE Boot
  BY <1>3, OnTimeBoot
<1>4. CASE ReadClock
  BY <1>4, OnTimeReadClock
<1>5. CASE \/ CarryPeriodic \/ ReadPassive \/ AcquireRail \/ NoRail
           \/ SettleTick \/ ReadManaged \/ ReleaseRail
  BY <1>1, <1>5, OnTimeTransducer
<1>6. CASE SleepWhileSettling
  BY <1>6, OnTimeSettleSleep
<1>7. CASE Publish \/ Service
  BY <1>1, <1>7, OnTimeEnd
<1>8. CASE Wait
  BY <1>8, OnTimeWait
<1>9. CASE UNCHANGED vars
  BY <1>9 DEF vars, pwr_vars, loop_vars, OnTimeInv, UpFor, Ticked, Spent, elapsed
<1> QED
  BY <1>2, <1>3, <1>4, <1>5, <1>6, <1>7, <1>8, <1>9 DEF LoopNext

LEMMA OnTimeHolds == TypeOK /\ LoopIndex /\ ClockInv /\ OnTimeInv => OnTimeBounded
<1> SUFFICES ASSUME TypeOK, LoopIndex, ClockInv, OnTimeInv, NEW d \in Domain,
                    state[d] # "OFF", OnMs[d] # 0
             PROVE  ((now - t_on[d]) % Wrap) + behind < OnMs[d] + LongestPass + LongestTick
  BY DEF OnTimeBounded
<1>1. PICK e, c, s, p, l, o : /\ e = (now - t_on[d]) % Wrap /\ c = behind /\ s = Spent(pc, idx)
                              /\ p = LongestPass /\ l = LongestTick /\ o = OnMs[d]
  OBVIOUS
<1>2. e \in Nat /\ o \in Nat
  BY <1>1, RailNumbers
<1>3. c \in Nat /\ s \in Nat /\ p \in Nat /\ l \in Nat /\ c <= s
  BY <1>1, SpentType, PassType DEF ClockInv, OnTimeInv
<1>4. (pc = "tick" => s <= l) /\ (pc # "tick" => s <= p)
  BY <1>1, SpentType
<1>5. (pc = "tick" => e < o + (p + s - c)) /\ (pc # "tick" => e < o + (s - c))
  BY <1>1 DEF OnTimeInv, UpFor, elapsed
<1>6. e + c < o + p + l
  BY <1>2, <1>3, <1>4, <1>5
<1> QED
  BY <1>1, <1>6

\* No rail with an on-time stays up longer than that, one pass of the loop and the
\* callbacks of one more tick, whichever way it came up, however late each sleep wakes
\* and also while the clock wraps.  A pass counts what every driver, settle wait, the
\* pipeline and the link take at most: the cap of pwr_tick runs between them, never
\* while a driver keeps the only thread.
THEOREM OnTimeTheorem == LoopSpec => []OnTimeBounded
<1>1. LoopInit => TypeOK /\ LoopIndex /\ ClockInv /\ SettleInv /\ OnTimeInv
  <2> SUFFICES ASSUME LoopInit
               PROVE  TypeOK /\ LoopIndex /\ ClockInv /\ SettleInv /\ OnTimeInv
    OBVIOUS
  <2>1. SettleInv /\ \A d \in Domain : \A n : UpFor(d, n)
    BY DEF LoopInit, Init, SettleInv, UpFor
  <2>2. pc = "boot" /\ behind <= Spent(pc, idx)
    BY LoopAssumption DEF LoopInit, Spent
  <2> QED
    BY <2>1, <2>2, LoopStart, TypeStart DEF LoopInit, OnTimeInv
<1>2. /\ TypeOK /\ LoopIndex /\ ClockInv /\ SettleInv /\ OnTimeInv /\ [LoopNext]_vars
      => TypeOK' /\ LoopIndex' /\ ClockInv' /\ SettleInv' /\ OnTimeInv'
  BY LoopStepIsControllerStep, IndexStep, ClockStep, TypeStep, SettleStep, OnTimeStep
<1> QED
  BY <1>1, <1>2, OnTimeHolds, PTL DEF LoopSpec
=============================================================================
