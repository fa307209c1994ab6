------------------------------ MODULE PodPower ------------------------------
(***************************************************************************)
(* The switched-rail power controller of a sensor pod                      *)
(* (edge-device/code_a_pod_firmware/app/src/power.c).                      *)
(*                                                                         *)
(* Every transducer is fed from a switched rail ("domain").  A domain has  *)
(* a policy that says when it may be energised, a current, a settle time,  *)
(* and an on-time (the window length of a periodic rail, the safety cap of *)
(* the others).  The controller is a passive object: its caller passes the *)
(* time in, so the specification lets any client make any call in any      *)
(* order; PodLoop restricts the calls to the order of the firmware.        *)
(***************************************************************************)
EXTENDS Integers, FiniteSets

CONSTANTS
    Domain,        \* the rails, in the code indices 0 .. n-1
    Policy,        \* [Domain -> Policies]
    CurrentMa,     \* [Domain -> Nat], 0 = not budgeted
    SettleMs,      \* [Domain -> Nat]
    OnMs,          \* [Domain -> Nat], periodic: window length; others: cap, 0 = none
    PeriodMs,      \* [Domain -> Nat], periodic rails only
    BudgetMa,      \* rail budget, 0 = not enforced
    RefMax,        \* largest value of the reference counter, 255 in the code
    Wrap,          \* the millisecond clock counts modulo Wrap, 2^32 in the code
    BackendFaulty  \* TRUE when the load-switch backend may refuse to switch on

Policies == {"per-read", "periodic", "armed", "hold"}
States   == {"OFF", "SETTLING", "ON"}
Events   == {"READY", "OFF", "TIMEOUT", "DEFERRED"}

ASSUME PowerAssumption ==
    /\ IsFiniteSet(Domain)
    /\ Policy \in [Domain -> Policies]
    /\ CurrentMa \in [Domain -> Nat]
    /\ SettleMs \in [Domain -> Nat]
    /\ OnMs \in [Domain -> Nat]
    /\ PeriodMs \in [Domain -> Nat]
    /\ BudgetMa \in Nat
    /\ RefMax \in Nat \ {0}
    /\ Wrap \in Nat \ {0}
    /\ BackendFaulty \in BOOLEAN

VARIABLES
    state,       \* [Domain -> States]
    refs,        \* references held by readers
    armed,       \* the rails the last pwr_arm asked to be up
    window_due,  \* the periodic rails that are owed a window
    t_on,        \* time the rail was switched on
    t_window,    \* time the last periodic window opened
    now,         \* the clock passed in by the callers
    emitted      \* events the last call handed to the event callback

pwr_vars == <<state, refs, armed, window_due, t_on, t_window, now, emitted>>

\* Every field stays in its type; the 8-bit reference counter neither overflows nor
\* goes below zero.
TypeOK ==
    /\ state \in [Domain -> States]
    /\ refs \in [Domain -> 0 .. RefMax]
    /\ armed \in SUBSET Domain
    /\ window_due \in SUBSET Domain
    /\ t_on \in [Domain -> 0 .. Wrap - 1]
    /\ t_window \in [Domain -> 0 .. Wrap - 1]
    /\ now \in 0 .. Wrap - 1
    /\ emitted \in SUBSET (Domain \X Events)

-----------------------------------------------------------------------------
\* Mutant: the difference is clamped instead of taken modulo the clock.
elapsed_Clamped(then) == IF now >= then THEN now - then ELSE 0

\* Milliseconds since then, wrap-safe as unsigned subtraction is.
elapsed(then) == (now - then) % Wrap

\* pwr_load_ma sums the current of the energised rails.  The sum is the number
\* of milliamps drawn, each named by its rail and its index on that rail.
MilliampsOf(d) == {d} \X (1 .. CurrentMa[d])

DrawnMa(st) == UNION {MilliampsOf(d) : d \in {e \in Domain : st[e] # "OFF"}}

pwr_load_ma == Cardinality(DrawnMa(state))

\* Mutant: the budget check forgets the draw of the rail being switched on.
WithinBudget_IgnoresOwnDraw(d) == BudgetMa = 0 \/ pwr_load_ma <= BudgetMa

WithinBudget(d) == BudgetMa = 0 \/ pwr_load_ma + CurrentMa[d] <= BudgetMa

\* switch_on returns an error, and changes nothing, over budget or when the
\* backend refuses.
SwitchOnFails(d) == ~WithinBudget(d) \/ BackendFaulty

switch_on(d) ==
    /\ WithinBudget(d)
    /\ t_on' = [t_on EXCEPT ![d] = now]
    /\ state' = [state EXCEPT ![d] = IF SettleMs[d] = 0 THEN "ON" ELSE "SETTLING"]
    /\ emitted' = IF SettleMs[d] = 0 THEN {<<d, "READY">>} ELSE {}

\* Mutant: the readers of a rail that is cut off keep their references.
switch_off_KeepsRefs(d, events) ==
    /\ state' = [state EXCEPT ![d] = "OFF"]
    /\ t_on' = [t_on EXCEPT ![d] = 0]
    /\ emitted' = events \union {<<d, "OFF">>}
    /\ UNCHANGED refs

\* switch_off drops every reference along with the rail; events holds what was
\* emitted earlier in the same call.  t_on is only read while a rail is up, so the
\* model forgets it here where the code leaves it.
switch_off(d, events) ==
    /\ state' = [state EXCEPT ![d] = "OFF"]
    /\ t_on' = [t_on EXCEPT ![d] = 0]
    /\ refs' = [refs EXCEPT ![d] = 0]
    /\ emitted' = events \union {<<d, "OFF">>}

-----------------------------------------------------------------------------
\* pwr_init at time start.
Init ==
    /\ now \in 0 .. Wrap - 1
    /\ state = [d \in Domain |-> "OFF"]
    /\ refs = [d \in Domain |-> 0]
    /\ armed = {}
    /\ window_due = {d \in Domain : Policy[d] = "periodic"}
    /\ t_on = [d \in Domain |-> 0]
    /\ t_window = [d \in Domain |-> now]
    /\ emitted = {}

\* pwr_acquire: per-read and hold rails are switched on by their first reader,
\* periodic and armed rails are only joined while they are already up.
AcquireSwitchingOn(d) ==
    /\ Policy[d] \in {"per-read", "hold"}
    /\ state[d] = "OFF"
    /\ switch_on(d)
    /\ refs' = [refs EXCEPT ![d] = IF @ = RefMax THEN @ ELSE @ + 1]
    /\ UNCHANGED <<armed, window_due, t_window, now>>

\* Mutant: the reference counter is not saturated.
AcquireJoining_Unsaturated(d) ==
    /\ state[d] # "OFF"
    /\ refs' = [refs EXCEPT ![d] = @ + 1]
    /\ emitted' = {}
    /\ UNCHANGED <<state, armed, window_due, t_on, t_window, now>>

AcquireJoining(d) ==
    /\ state[d] # "OFF"
    /\ Policy[d] = "armed" => d \in armed
    /\ refs[d] < RefMax
    /\ refs' = [refs EXCEPT ![d] = @ + 1]
    /\ emitted' = {}
    /\ UNCHANGED <<state, armed, window_due, t_on, t_window, now>>

AcquireRefused(d) ==
    /\ \/ state[d] = "OFF" /\ (Policy[d] \in {"per-read", "hold"} => SwitchOnFails(d))
       \/ Policy[d] = "armed" /\ d \notin armed
       \/ state[d] # "OFF" /\ refs[d] = RefMax
    /\ emitted' = {}
    /\ UNCHANGED <<state, refs, armed, window_due, t_on, t_window, now>>

pwr_acquire(d) ==
    AcquireSwitchingOn(d) \/ AcquireJoining(d) \/ AcquireRefused(d)

\* pwr_release: the last reader of a per-read rail switches it off; a release
\* without a reference is an error that changes nothing.
ReleaseLast(d) ==
    /\ refs[d] = 1
    /\ Policy[d] = "per-read"
    /\ state[d] # "OFF"
    /\ switch_off(d, {})
    /\ UNCHANGED <<armed, window_due, t_window, now>>

ReleaseKeeping(d) ==
    /\ refs[d] > 0
    /\ ~(refs[d] = 1 /\ Policy[d] = "per-read" /\ state[d] # "OFF")
    /\ refs' = [refs EXCEPT ![d] = @ - 1]
    /\ emitted' = {}
    /\ UNCHANGED <<state, armed, window_due, t_on, t_window, now>>

ReleaseRefused(d) ==
    /\ refs[d] = 0
    /\ emitted' = {}
    /\ UNCHANGED <<state, refs, armed, window_due, t_on, t_window, now>>

pwr_release(d) ==
    ReleaseLast(d) \/ ReleaseKeeping(d) \/ ReleaseRefused(d)

\* pwr_arm records the wish first; switching the rail on may then fail and is
\* not tried again by the tick.
Arm(d) ==
    /\ Policy[d] = "armed"
    /\ armed' = armed \union {d}
    /\ \/ /\ state[d] = "OFF"
          /\ switch_on(d)
       \/ /\ state[d] # "OFF" \/ SwitchOnFails(d)
          /\ emitted' = {}
          /\ UNCHANGED <<state, t_on>>
    /\ UNCHANGED <<refs, window_due, t_window, now>>

Disarm(d) ==
    /\ Policy[d] = "armed"
    /\ armed' = armed \ {d}
    /\ IF state[d] # "OFF" THEN switch_off(d, {})
                           ELSE emitted' = {} /\ UNCHANGED <<state, refs, t_on>>
    /\ UNCHANGED <<window_due, t_window, now>>

pwr_arm(d) == Arm(d) \/ Disarm(d)

-----------------------------------------------------------------------------
\* pwr_tick_domain first lets a settling rail become ready, then runs the duty
\* cycle of a periodic rail or the on-time cap of any other.
Settles(d) == state[d] = "SETTLING" /\ elapsed(t_on[d]) >= SettleMs[d]

SettleEvents(d) == IF Settles(d) THEN {<<d, "READY">>} ELSE {}

\* Mutant: only the window owed at boot is ever due.
WindowDue_BootOnly(d) == d \in window_due

WindowDue(d) == d \in window_due \/ elapsed(t_window[d]) >= PeriodMs[d]

OnTimeOver(d) ==
    /\ state[d] # "OFF"
    /\ Policy[d] = "periodic" \/ OnMs[d] # 0
    /\ elapsed(t_on[d]) >= OnMs[d]

TickOpensWindow(d) ==
    /\ Policy[d] = "periodic" /\ state[d] = "OFF" /\ WindowDue(d)
    /\ switch_on(d)
    /\ window_due' = window_due \ {d}
    /\ t_window' = [t_window EXCEPT ![d] = now]
    /\ UNCHANGED <<refs, armed, now>>

TickDefersWindow(d) ==
    /\ Policy[d] = "periodic" /\ state[d] = "OFF" /\ WindowDue(d)
    /\ SwitchOnFails(d)
    /\ window_due' = window_due \union {d}
    /\ emitted' = {<<d, "DEFERRED">>}
    /\ UNCHANGED <<state, refs, armed, t_on, t_window, now>>

\* Mutant: the on-time is tested before the settle transition.
TickForcesOff_BeforeSettle(d) ==
    /\ OnTimeOver(d)
    /\ switch_off(d, {})
    /\ UNCHANGED <<armed, window_due, t_window, now>>

TickForcesOff(d) ==
    /\ OnTimeOver(d)
    /\ switch_off(d, SettleEvents(d) \union
                     IF Policy[d] = "periodic" THEN {} ELSE {<<d, "TIMEOUT">>})
    /\ UNCHANGED <<armed, window_due, t_window, now>>

TickSettles(d) ==
    /\ ~OnTimeOver(d)
    /\ state[d] = "OFF" => ~(Policy[d] = "periodic" /\ WindowDue(d))
    /\ state' = [state EXCEPT ![d] = IF Settles(d) THEN "ON" ELSE @]
    /\ emitted' = SettleEvents(d)
    /\ UNCHANGED <<refs, armed, window_due, t_on, t_window, now>>

pwr_tick_domain(d) ==
    TickOpensWindow(d) \/ TickDefersWindow(d) \/ TickForcesOff(d) \/ TickSettles(d)

\* The time the next call passes in is dt later than that of the last one.
Advance(dt) ==
    /\ now' = (now + dt) % Wrap
    /\ emitted' = {}
    /\ UNCHANGED <<state, refs, armed, window_due, t_on, t_window>>

Next ==
    \/ \E dt \in 0 .. Wrap - 1 : Advance(dt)
    \/ \E d \in Domain :
          \/ pwr_acquire(d)
          \/ pwr_release(d)
          \/ pwr_arm(d)
          \/ pwr_tick_domain(d)

Spec == Init /\ [][Next]_pwr_vars

-----------------------------------------------------------------------------
(* Properties *)

\* The rails that are up together never draw more than the budget, in whatever
\* order readers, the duty cycle and arm commands bring them up.
BudgetRespected == BudgetMa # 0 => pwr_load_ma <= BudgetMa

\* A reader that holds a reference holds an energised rail: every way of cutting
\* a rail off takes the references of its readers with it.
HeldIsPowered == \A d \in Domain : refs[d] > 0 => state[d] # "OFF"

\* Between reads nothing is energised: a per-read rail is up only while some
\* reader holds it, also after its cap cut it off and was followed by releases.
PerReadOnlyWhileHeld ==
    \A d \in Domain : Policy[d] = "per-read" /\ state[d] # "OFF" => refs[d] > 0

\* A heater rail is up only while the last command armed it.
UpOnlyWhileArmed ==
    \A d \in Domain : Policy[d] = "armed" /\ state[d] # "OFF" => d \in armed

\* A rail is up exactly as long as its policy has a reason for it, whatever order
\* readers, caps, arm commands and switch failures come in (pwr_acquire,
\* pwr_release, pwr_arm and the cut-off of pwr_tick).
RailRules == HeldIsPowered /\ PerReadOnlyWhileHeld /\ UpOnlyWhileArmed

\* A periodic window that is long enough to settle is never closed before its
\* readers were told it is ready, however late the tick that closes it comes.
WindowIsReadBeforeItCloses ==
    [][\A d \in Domain :
          /\ Policy[d] = "periodic" /\ SettleMs[d] <= OnMs[d]
          /\ state[d] = "SETTLING" /\ state'[d] = "OFF"
          => <<d, "READY">> \in emitted']_pwr_vars
=============================================================================
