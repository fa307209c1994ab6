----------------------------- MODULE HeadWindow -----------------------------
(***************************************************************************)
(* The input window of the head node: what the ring buffer keeps of the    *)
(* pods' reports and of the satellite context (store.py, node.py), the     *)
(* hourly grid it serves, and which of the trained channels are observed   *)
(* in that grid (features.py), against the training reference              *)
(* (prahari_train/features.py) on the record since the station started.    *)
(*                                                                         *)
(* A series is the function that says at which hours it has a finite value;*)
(* the values themselves are left out, except the rain counter's.  They    *)
(* are not always the same on both sides: the fire-weather cascade starts  *)
(* from its initial state at the first hour of the grid, and in training   *)
(* at the first hour of the record, so T6 differs where both show it.  The *)
(* spans of the rolling operations are parameters, in the proportions of   *)
(* the code.  The clock the reports are stored by is taken to run forward. *)
(***************************************************************************)
EXTENDS Integers, Sequences, FiniteSets, FiniteSetsExt

CONSTANTS
    Source,        \* what reports together: the pods, and the context service
    SourceOf,      \* [P-id -> Source]
    StaticSites,   \* the static blocks considered: sets of ids
    Context,       \* context_length, in hours
    Week,          \* 7 * 24
    Month,         \* 30 * 24
    Spinup,        \* SPINUP_H
    Smooth,        \* 6, the span of the tilt's median
    Day,           \* 24, the lag of the tilt's drift
    Retention,     \* retention_days * 24
    PruneEvery,    \* 24, the cycles between two prunes
    MaxHours,      \* bound: hours of the record
    MaxGaps,       \* bound: reports that are lost, unusable or of another hour
    MaxExtra,      \* bound: sweeps beyond the first of an hour
    MaxWet,        \* bound: sweeps with rain
    MaxResets,     \* bound: resets of the rain counter
    Rain           \* the amounts that may fall between two sweeps

Missing == -1
InSitu  == Source \ {"context"}

\* HISTORY_HOURS: the history the grid has ahead of the context window.
HISTORY == Month + Spinup
GridHours == Context + HISTORY

\* What the derived channels read: parameters of the pods, and of the static block.
PodIds    == {"P1", "P2", "P3", "P11", "P12", "P13", "P14", "P15", "P18", "P19",
              "P42", "P43", "P44"}
StaticIds == {"P71", "P73", "P74", "S30", "S33"}

ASSUME WindowAssumption ==
    /\ SourceOf \in [DOMAIN SourceOf -> Source]
    /\ PodIds \subseteq DOMAIN SourceOf /\ StaticIds \intersect DOMAIN SourceOf = {}
    /\ {"rain", "context"} \subseteq Source /\ SourceOf["P12"] = "rain"
    /\ {Context, Week, Month, Smooth, Day, PruneEvery, MaxHours} \subseteq Nat \ {0}
    /\ {Spinup, Retention, MaxGaps, MaxExtra, MaxWet, MaxResets} \subseteq Nat
    /\ Week <= Month /\ Smooth + Day <= HISTORY
    \* config.py: retention covers the context window, the history and the spin-up
    /\ Retention >= GridHours
    /\ Rain \subseteq Nat \ {0}

VARIABLES
    pc,          \* "report", "cycle" or "housekeeping"
    hour,        \* hours since the station started
    db,          \* [1 .. MaxHours -> the sources with a row in that hour]
    counter_db,  \* [1 .. MaxHours -> the last rain counter reading of that hour]
    static,      \* ids of the static block
    cycles,      \* cycles since boot
    record,      \* history: db without pruning
    counter,     \* the pod's rain counter
    fallen,      \* history: the rain since the station started, now and
    fallen_db,   \* at the readings in counter_db
    bound        \* the counts that the bounds are about

vars == <<pc, hour, db, counter_db, static, cycles, record, counter, fallen, fallen_db, bound>>

Hour == 1 .. MaxHours

WindowTypeOK ==
    /\ pc \in {"report", "cycle", "housekeeping"}
    /\ hour \in Hour
    /\ db \in [Hour -> SUBSET Source] /\ record \in [Hour -> SUBSET Source]
    /\ counter_db \in [Hour -> Nat \union {Missing}]
    /\ cycles \in 0 .. PruneEvery - 1
    /\ {counter, fallen} \subseteq Nat /\ fallen_db \in [Hour -> Nat]
-----------------------------------------------------------------------------
(* features.py: series over a grid of n hours. *)

Diff(x) == [i \in DOMAIN x |-> i > 1 /\ x[i] /\ x[i - 1]]
Lag(x, k) == [i \in DOMAIN x |-> i > k /\ x[i] /\ x[i - k]]
All(S) == LET x == CHOOSE y \in S : TRUE IN [i \in DOMAIN x |-> \A y \in S : y[i]]
Finite(x, first, last) == Cardinality({i \in DOMAIN x : first <= i /\ i <= last /\ x[i]})

\* Mutant: a step below zero counts as rain.
rain_step_Abs(prev, p12) == IF p12 - prev < 0 THEN prev - p12 ELSE p12 - prev

\* rain_increment by value: a step below zero is a reset of the counter.
rain_step(prev, p12) == IF p12 - prev < 0 THEN p12 ELSE p12 - prev

\* rain_increment: the first hour, and one next to a gap, has none.
rain_increment(p12) == Diff(p12)

strict_roll(x, n) == [i \in DOMAIN x |-> i >= n /\ \A k \in i - n + 1 .. i : x[k]]

decayed_sum(inc, n) ==
    [i \in DOMAIN inc |-> Finite(inc, i - n + 1, i) >= n /\ i >= n]

\* Mutant: the count is not reset at a missing input.
cascade_warm_NotReset(x) ==
    LET warm[i \in 0 .. Cardinality(DOMAIN x)] ==
            IF i = 0 THEN 0 ELSE IF x[i] THEN warm[i - 1] + 1 ELSE warm[i - 1]
    IN  warm

\* _cascade: the hours since the state was last set to its initial value.
cascade_warm(x) ==
    LET warm[i \in 0 .. Cardinality(DOMAIN x)] ==
            IF i = 0 THEN 0 ELSE IF x[i] THEN warm[i - 1] + 1 ELSE 0
    IN  warm

cascade(inputs) ==
    LET warm == cascade_warm(All(inputs)) IN [i \in DOMAIN All(inputs) |-> warm[i] > Spinup]

\* The codes of the fire weather and the soil's constants, which are finite where
\* their inputs are.
vpd(t, rh) == All({t, rh})
ffmc(vpd_kpa, rain_rate, t, rh, ws) == cascade({vpd_kpa, rain_rate, t, rh, ws})
dmc(d_api7, t, rh) == cascade({d_api7, t, rh})
dc(d_api30, t) == cascade({d_api30, t})
isi(ffmc_v, u, v) == All({ffmc_v, u, v})
bui(dmc_v, dc_v) == All({dmc_v, dc_v})
fwi(isi_v, bui_v) == All({isi_v, bui_v})
theta_sat(st) == "P74" \in st \/ {"P71", "P73"} \subseteq st
ksat_cosby(st) == {"P71", "P73"} \subseteq st

Constantly(b, n) == [i \in 1 .. n |-> b]

\* compute_trained_channels up to the assembly: the derived series from P and from
\* the ids of the static block.
derived(P, st, n) ==
    LET inc == rain_increment(P["P12"])
        S2  == decayed_sum(inc, Week)
        S3  == decayed_sum(inc, Month)
        S9  == All({P["P1"], P["P2"], P["P3"], Constantly(theta_sat(st), n)})
        S13 == vpd(P["P13"], P["P15"])
        wind == All({P["P18"], P["P19"]})
        lp  == strict_roll(All({P["P42"], P["P43"], P["P44"]}), Smooth)
        T1  == ffmc(S13, inc, P["P13"], P["P15"], P["P18"])
        T2  == dmc(Diff(S2), P["P13"], P["P15"])
        T3  == dc(Diff(S3), P["P13"])
    IN  [S1 |-> inc, S2 |-> S2, S4 |-> Diff(P["P11"]), S6 |-> All({P["P1"], P["P2"]}), S9 |-> S9,
         S13 |-> S13, S15 |-> wind, S16 |-> wind, S18 |-> All({P["P13"], P["P14"]}),
         S30 |-> Constantly("S30" \in st, n), S33 |-> Constantly("S33" \in st, n),
         S35 |-> Constantly({"S30", "S33"} \subseteq st, n),
         T6  |-> fwi(isi(T1, wind, wind), bui(T2, T3)),
         T11 |-> All({S9, Lag(lp, Day), Constantly("S30" \in st /\ ksat_cosby(st), n)})]

\* The assembly: a primary, else a derived series, else the static block.
channel(c, P, Primaries, f, st, n) ==
    IF c \in Primaries THEN P[c]
    ELSE IF c \in DOMAIN f THEN f[c]
    ELSE Constantly(c \in st, n)
-----------------------------------------------------------------------------
(* prahari_train/features.py on the hourly record, cad = 1 and min_coverage = 1. *)

min_periods(n) == Max({1, n})
ref_roll(x, n) == [i \in DOMAIN x |-> Finite(x, i - n + 1, i) >= min_periods(n)]
ref_decayed_sum(inc, n) ==
    [i \in DOMAIN inc |-> i > n - 1 /\ Finite(inc, i - n + 1, i) >= min_periods(n)]

\* _cascade_loop: the output is masked until spin steps after any missing input.
ref_cascade(inputs) ==
    LET ok == All(inputs)
    IN  [i \in DOMAIN ok |-> i > Spinup /\ \A k \in i - Spinup .. i : ok[k]]

ref_rain_increment(p12) == Diff(p12)
ref_ffmc(vpd_kpa, rain_rate, t, rh, ws) == ref_cascade({vpd_kpa, rain_rate, t, rh, ws})
ref_dmc(api7, t, rh) == ref_cascade({Diff(api7), t, rh})
ref_dc(api30, t) == ref_cascade({Diff(api30), t})
ref_isi(ffmc_v, u, v) == All({ffmc_v, u, v})
ref_bui(dmc_v, dc_v) == All({dmc_v, dc_v})
ref_fwi(isi_v, bui_v) == All({isi_v, bui_v})
ref_theta_sat(sand, clay, bulk) == [i \in DOMAIN bulk |-> bulk[i] \/ (sand[i] /\ clay[i])]
ref_ksat_cosby(sand, clay) == All({sand, clay})
ref_tilt_drift(x, y, z) == Lag(ref_roll(All({x, y, z}), Smooth), Day)

\* compute_secondary, the parameters that the trained channels need.
hydrological(P) ==
    LET inc == ref_rain_increment(P["P12"])
    IN  [S1 |-> inc, S2 |-> ref_decayed_sum(inc, Week), S3 |-> ref_decayed_sum(inc, Month),
         S4 |-> Diff(P["P11"]), S6 |-> All({P["P1"], P["P2"]}),
         S9 |-> All({ref_theta_sat(P["P71"], P["P73"], P["P74"]), P["P1"], P["P2"], P["P3"]}),
         S11 |-> ref_ksat_cosby(P["P71"], P["P73"])]

atmospheric(P) ==
    LET wind == All({P["P18"], P["P19"]})
    IN  [S13 |-> All({P["P13"], P["P15"]}), S15 |-> wind, S16 |-> wind, S18 |-> All({P["P14"], P["P13"]})]

terrain(P) == [S30 |-> P["S30"], S33 |-> P["S33"], S35 |-> All({P["S33"], P["S30"]})]

\* compute_tertiary, likewise.
compute_tertiary(P, h, a, t, S37) ==
    LET T1 == ref_ffmc(a.S13, h.S1, P["P13"], P["P15"], P["P18"])
        T2 == ref_dmc(h.S2, P["P13"], P["P15"])
        T3 == ref_dc(h.S3, P["P13"])
    IN  [T6  |-> ref_fwi(ref_isi(T1, a.S15, a.S16), ref_bui(T2, T3)),
         T11 |-> All({t.S30, h.S9, h.S11, S37})]

\* The columns of two frames beside each other.
concat(f, g) ==
    [c \in DOMAIN f \union DOMAIN g |-> IF c \in DOMAIN f THEN f[c] ELSE g[c]]

compute_features(P) ==
    LET h == hydrological(P)  a == atmospheric(P)  t == terrain(P)
        S37 == ref_tilt_drift(P["P42"], P["P43"], P["P44"])
    IN  concat(concat(h, concat(a, t)), compute_tertiary(P, h, a, t, S37))
-----------------------------------------------------------------------------
(* store.py and node.py *)

\* hourly_matrix: row i of the grid is the hour first + i - 1; an hour before the
\* station's start has no rows.
GridHour(i) == hour - GridHours + i
Grid ==
    [p \in DOMAIN SourceOf |->
        [i \in 1 .. GridHours |-> GridHour(i) >= 1 /\ SourceOf[p] \in db[GridHour(i)]]]

\* The channels of metadata.json considered: every kind of derived one.
Channels == {"P12", "P13", "P47", "P70", "S1", "S2", "S4", "S6", "S9", "S13", "S15", "S16",
             "S18", "S30", "S33", "S35", "T6", "T11"}

\* build_window: in which rows of the grid each channel is observed.
build_window ==
    LET f == derived(Grid, static, GridHours)
    IN  [c \in Channels |-> channel(c, Grid, DOMAIN SourceOf, f, static, GridHours)]

\* The same from the whole record, as the model was trained on it.
Recorded ==
    concat([p \in DOMAIN SourceOf |-> [h \in 1 .. hour |-> SourceOf[p] \in record[h]]],
           [p \in StaticIds |-> Constantly(p \in static, hour)])
assemble_trained_channels ==
    LET f == compute_features(Recorded)
    IN  [c \in Channels |-> channel(c, Recorded, DOMAIN SourceOf, f, static, hour)]

RowHour(r) == GridHour(HISTORY + r)

Init ==
    /\ pc = "report"
    /\ hour = 1
    /\ db = [h \in Hour |-> {}] /\ record = [h \in Hour |-> {}]
    /\ counter_db = [h \in Hour |-> Missing]
    /\ static \in StaticSites
    /\ cycles = 0
    /\ counter = 0
    /\ fallen = 0 /\ fallen_db = [h \in Hour |-> 0]
    /\ bound = [gaps |-> 0, extra |-> 0, wet |-> 0, resets |-> 0]

\* What a table of sources by hour becomes.
put_readings(table, sources) == [table EXCEPT ![hour] = @ \union sources]

\* Mutant: the vector is stored under a name the grid does not read.
put_context_Misnamed(table, h) == [table EXCEPT ![h] = @ \union {"forecast"}]

put_context(table, h) == [table EXCEPT ![h] = @ \union {"context"}]

\* The rain since the last sweep, and what the pod's counter makes of it: a pod
\* that restarts counts from zero again.
CounterAfter(rain, restarts) ==
    IF restarts THEN 0 .. rain ELSE {counter + rain}

\* The reports of one sweep: put_readings stores the usable channels of the pods
\* that answered, over what the hour holds already.
Sweep(answered, rain, restarts) ==
    /\ pc = "report"
    /\ LET lost == Cardinality(InSitu \ answered)
       IN bound' = [bound EXCEPT !.gaps = @ + lost, !.wet = @ + (IF rain > 0 THEN 1 ELSE 0),
                                 !.resets = @ + (IF restarts THEN 1 ELSE 0)]
    /\ bound'.gaps <= MaxGaps /\ bound'.wet <= MaxWet /\ bound'.resets <= MaxResets
    /\ counter' \in CounterAfter(rain, restarts)
    /\ fallen' = fallen + rain
    /\ db' = put_readings(db, answered)
    /\ record' = put_readings(record, answered)
    /\ IF "rain" \in answered
       THEN /\ counter_db' = [counter_db EXCEPT ![hour] = counter']
            /\ fallen_db' = [fallen_db EXCEPT ![hour] = fallen']
       ELSE UNCHANGED <<counter_db, fallen_db>>
    /\ pc' = "cycle"
    /\ UNCHANGED <<hour, static, cycles>>

\* poll_context, after the inference of the cycle: the server's vector is stored under
\* whatever time the server gives it, an hour long past or to come included.
PollContext(h) ==
    /\ pc = "cycle"
    /\ db' = put_context(db, h)
    /\ record' = put_context(record, h)
    /\ h # hour => bound.gaps < MaxGaps
    /\ bound' = [bound EXCEPT !.gaps = @ + IF h = hour THEN 0 ELSE 1]
    /\ pc' = "housekeeping"
    /\ UNCHANGED <<hour, counter_db, static, cycles, counter, fallen, fallen_db>>

\* The link is down, or the server has nothing.
NoContext ==
    /\ pc = "cycle"
    /\ bound.gaps < MaxGaps
    /\ bound' = [bound EXCEPT !.gaps = @ + 1]
    /\ pc' = "housekeeping"
    /\ UNCHANGED <<hour, db, counter_db, static, cycles, record, counter, fallen, fallen_db>>

\* prune: rows older than the retention, to the second; a row of the hour exactly
\* that old may or may not be older.
Pruned(h, whole) == h < hour - Retention \/ (whole /\ h = hour - Retention)

\* The end of run_cycle, and the sleep to the next sweep, in this hour or the next.
Housekeeping(whole, dt) ==
    /\ pc = "housekeeping"
    /\ LET old == {h \in Hour : cycles = 0 /\ Pruned(h, whole)}
       IN /\ db' = [h \in Hour |-> IF h \in old THEN {} ELSE db[h]]
          /\ counter_db' = [h \in Hour |-> IF h \in old THEN Missing ELSE counter_db[h]]
    /\ cycles' = (cycles + 1) % PruneEvery
    /\ hour + dt \in Hour
    /\ hour' = hour + dt
    /\ dt = 0 => bound.extra < MaxExtra
    /\ bound' = [bound EXCEPT !.extra = @ + 1 - dt]
    /\ pc' = "report"
    /\ UNCHANGED <<static, record, counter, fallen, fallen_db>>

\* The process starts again: the ring buffer is all it has, and the prune is due.
Reboot ==
    /\ pc = "report" /\ cycles # 0
    /\ cycles' = 0
    /\ UNCHANGED <<pc, hour, db, counter_db, static, record, counter, fallen, fallen_db, bound>>

Next ==
    \/ \E answered \in SUBSET InSitu, rain \in Rain \union {0}, restarts \in BOOLEAN :
           Sweep(answered, rain, restarts)
    \/ \E h \in Hour : PollContext(h)
    \/ NoContext
    \/ \E whole \in BOOLEAN, dt \in 0 .. 1 : Housekeeping(whole, dt)
    \/ Reboot

Spec == Init /\ [][Next]_vars
-----------------------------------------------------------------------------
(* Properties.  They are about the state the inference of a cycle reads.       *)

\* Row r of the context window shows the channels that training saw at that hour.
RowMatches(r) ==
    RowHour(r) >= 1 =>
        LET window == build_window  trained == assemble_trained_channels
        IN  \A c \in Channels : window[c][HISTORY + r] = trained[c][RowHour(r)]

\* From the second row on, the window masks exactly the channels that training would
\* have masked at that hour and shows the others, however much of the record was
\* pruned and whatever time the server gives its vectors (compute_trained_channels
\* against assemble_trained_channels, hourly_matrix, prune).  It is about the masks
\* alone: a fire-weather index that both show may differ in value.
WindowMatchesReference == pc = "cycle" => \A r \in 2 .. Context : RowMatches(r)

\* The same of the first row: the history ahead of the window is long enough for
\* every channel of every row (HISTORY_HOURS).
FirstRowMatchesReference == pc = "cycle" => RowMatches(1)

\* No rain is invented: an increment never exceeds what fell between its two
\* readings, whenever the pod restarted its counter (rain_increment on the last
\* readings of two hours in hourly_matrix).
RainIsNeverInvented ==
    \A h \in 2 .. MaxHours :
        counter_db[h] # Missing /\ counter_db[h - 1] # Missing =>
            rain_step(counter_db[h - 1], counter_db[h]) \in 0 .. fallen_db[h] - fallen_db[h - 1]
=============================================================================
