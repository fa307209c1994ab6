---------------------------- MODULE ModelCorpus -----------------------------
(***************************************************************************)
(* The corpus the model is trained on (synthetic.py): hazard events are    *)
(* seeded at columns and spread over the graph of columns, and every hour  *)
(* is labelled with the events that are active then or within a horizon.   *)
(* What the random generator draws is a choice, the weather series and the *)
(* intensity of an event are left out, and hazards come in any order: each *)
(* only adds its events.                                                   *)
(***************************************************************************)
EXTENDS Integers, Sequences, SequencesExt, FiniteSets, FiniteSetsExt

CONSTANTS
    Column,      \* columns of the corpus, by index
    ProfileOf,   \* [Column -> the site profile]
    Elev,        \* [Column -> elevation]
    Slope,       \* [Column -> slope at 30 m, S30]
    Crossing,    \* [Column -> hours a cyclone needs to reach it]
    Edges,       \* <<i, j, weight>> with i < j
    Hours,       \* length of a column
    Warm,        \* the warm-up period
    Lead,        \* [hazard -> hours after the warm-up before one may start]
    Margin,      \* [hazard -> last hours of the record in which none may start]
    Durations,   \* [hazard -> durations]
    Lags,        \* [hazard -> delays from column to column]
    Downhill,    \* a flood runs to columns lower than its own plus this
    Uphill,      \* a fire to columns no lower than its own less this
    Horizons,    \* [head -> its horizons, 0 for detection]
    MaxSeeds     \* bound: events seeded

VARIABLES
    events,      \* the events of all columns
    flood,       \* the flood that is spreading: frontier, columns seen, duration
    seeds,
    labels       \* [Column -> [Output -> hours with a positive label]]

corpus_vars == <<events, flood, seeds, labels>>

HEADS == {"FL", "UF", "FI", "PO", "LS", "HW", "CY", "GL", "WQ"}
TRAINED_HEADS == HEADS \ {"GL", "WQ"}

Output == UNION {{h} \X Horizons[h] : h \in HEADS}
TrainedOutput == {o \in Output : o[1] \in TRAINED_HEADS}

ASSUME CorpusAssumption ==
    /\ Column \subseteq Nat \ {0} /\ IsFiniteSet(Column) /\ Column # {}
    /\ Elev \in [Column -> Nat] /\ Slope \in [Column -> Nat] /\ Crossing \in [Column -> Nat]
    /\ \A e \in Edges : e[1] \in Column /\ e[2] \in Column /\ e[1] < e[2] /\ e[3] \in Nat \ {0}
    /\ \A e, f \in Edges : e[1] = f[1] /\ e[2] = f[2] => e = f
    /\ Hours \in Nat \ {0} /\ Warm \in Nat /\ Downhill \in Nat /\ Uphill \in Nat /\ MaxSeeds \in Nat
    /\ Lead \in [TRAINED_HEADS -> Nat] /\ Margin \in [TRAINED_HEADS -> Nat]
    /\ \A h \in TRAINED_HEADS : Durations[h] \subseteq Nat \ {0} /\ Lags[h] \subseteq Nat
    /\ Horizons \in [HEADS -> SUBSET Nat]

-----------------------------------------------------------------------------
\* adjacency
Adj ==
    [i \in Column |-> [j \in Column |->
        LET w == {e[3] : e \in {f \in Edges : {f[1], f[2]} = {i, j}}}
        IN  IF w = {} THEN 0 ELSE CHOOSE x \in w : TRUE]]

nbrs(k) == {j \in Column : Adj[k][j] > 0}

\* Columns of the profiles P, or all of them when there is none.
Among(P) ==
    LET of == {k \in Column : ProfileOf[k] \in P}
    IN  IF of = {} THEN Column ELSE of

\* S in the order R, a set of pairs of an element and a later one.
InOrder(S, R) == [i \in 1 .. Cardinality(S) |-> CHOOSE x \in S : Cardinality({y \in S : <<y, x>> \in R}) = i - 1]
Ascending(S) == InOrder(S, {p \in S \X S : p[1] < p[2]})

\* By falling weight; Python's sort is stable, so that of equal ones the first comes first.
ByWeight(weight) ==
    LET S == DOMAIN weight
    IN  InOrder(S, {p \in S \X S : weight[p[1]] > weight[p[2]] \/ (weight[p[1]] = weight[p[2]] /\ p[1] < p[2])})

\* The n highest columns.
FirstBy(S, height, n) == Range(SubSeq(ByWeight([k \in S |-> height[k]]), 1, n))

\* Hours a hazard may start at; with none, the event is passed over.
start(h) == (Warm + Lead[h]) .. (Hours - Margin[h] - 1)

Event(h, k, s, d) == [hazard |-> h, col |-> k, start |-> s, end |-> d]

NoFlood == [frontier |-> <<>>, seen |-> {}, dur |-> 0]

CorpusInit ==
    /\ events = {}
    /\ flood = NoFlood
    /\ seeds = 0
    /\ labels = <<>>

CanSeed == flood = NoFlood /\ seeds < MaxSeeds

Inject(E) ==
    /\ CanSeed
    /\ events' = events \union E
    /\ seeds' = seeds + 1
    /\ UNCHANGED <<flood, labels>>

\* A flood starts in the upper half of the valley columns ...
Upstream ==
    LET valley == Among({"riverine", "village", "urban"})
    IN  FirstBy(valley, Elev, Max({1, Cardinality(valley) \div 2}))

SeedFlood ==
    /\ CanSeed
    /\ \E k \in Upstream, s \in start("FL"), d \in Durations["FL"] :
           flood' = [frontier |-> <<[col |-> k, start |-> s]>>, seen |-> {k}, dur |-> d]
    /\ seeds' = seeds + 1
    /\ UNCHANGED <<events, labels>>

\* ... and runs down the graph, one column of the frontier at a time, later at
\* each; at the end of the record it is cut.
SpreadFlood ==
    /\ flood # NoFlood
    /\ LET f   == Head(flood.frontier)
           new == {j \in nbrs(f.col) \ flood.seen : Elev[j] < Elev[f.col] + Downhill}
       IN  /\ events' = events \union {Event("FL", f.col, f.start, Min({Hours, f.start + flood.dur}))}
           /\ \E lag \in [new -> Lags["FL"]] :
                  LET front == Tail(flood.frontier) \o
                                 [i \in 1 .. Cardinality(new) |->
                                     LET j == Ascending(new)[i] IN [col |-> j, start |-> f.start + lag[j]]]
                  IN  flood' = IF front = <<>> THEN NoFlood
                               ELSE [flood EXCEPT !.frontier = front, !.seen = @ \union new]
    /\ UNCHANGED <<seeds, labels>>

\* A burst over a town spills to some neighbours and lasts an hour longer there.
FlashFlood ==
    \E k \in Among({"urban", "village", "industrial"}), s \in start("UF"), d \in Durations["UF"] :
    \E spilt \in SUBSET nbrs(k) : \E lag \in [spilt -> Lags["UF"]] :
        Inject({Event("UF", k, s, s + d)} \union {Event("UF", j, s + lag[j], s + d + 1) : j \in spilt})

\* A forest fire spreads to some neighbours that are not far below.
Fire ==
    \E k \in Among({"forest"}), s \in start("FI"), d \in Durations["FI"] :
    \E spread \in SUBSET {j \in nbrs(k) : Elev[j] + Uphill >= Elev[k]} : \E lag \in [spread -> Lags["FI"]] :
        Inject({Event("FI", k, s, s + d)} \union {Event("FI", j, s + lag[j], s + lag[j] + d) : j \in spread})

\* Stagnant air lies over all columns, with small offsets.
Pollution ==
    \E s \in start("PO"), d \in Durations["PO"], off \in [Column -> Lags["PO"]] :
        Inject({Event("PO", k, s + off[k], s + off[k] + d) : k \in Column})

Landslide ==
    \E k \in FirstBy(Column, Slope, Min({Cardinality(Column), Max({2, Cardinality(Column) \div 3})})),
       s \in start("LS"), d \in Durations["LS"] :
        Inject({Event("LS", k, s, s + d)})

HeatWave ==
    \E s \in start("HW"), d \in Durations["HW"] : Inject({Event("HW", k, s, s + d) : k \in Column})

\* A cyclone crosses the domain from west to east.
Cyclone ==
    \E s \in start("CY"), d \in Durations["CY"] :
        Inject({Event("CY", k, s + Crossing[k], s + Crossing[k] + d) : k \in Column})

inject_events ==
    SeedFlood \/ SpreadFlood \/ FlashFlood \/ Fire \/ Pollution \/ Landslide \/ HeatWave \/ Cyclone
-----------------------------------------------------------------------------
\* The hours of the record in which a hazard is active at a column, and cumsum of them.
active(h, c) == {t \in 0 .. Hours - 1 : \E e \in events : e.hazard = h /\ e.col = c /\ e.start <= t /\ t < e.end}
cs(A, i) == Cardinality({u \in A : u < i})

\* Mutant: the current hour counts as forecast.
label_FromNow(A, hz, t) == IF hz = 0 THEN t \in A ELSE cs(A, Min({t + hz + 1, Hours})) - cs(A, t) > 0

label(A, hz, t) == IF hz = 0 THEN t \in A ELSE cs(A, Min({t + hz + 1, Hours})) - cs(A, t + 1) > 0

\* _labels, for every column, once all events are there.
make_labels ==
    /\ flood = NoFlood
    /\ labels' = [c \in Column |-> [o \in Output |-> {t \in 0 .. Hours - 1 : label(active(o[1], c), o[2], t)}]]
    /\ UNCHANGED <<events, flood, seeds>>
-----------------------------------------------------------------------------
(* Properties *)

\* The label of an hour is a forecast: at horizon 0 an event is active at that
\* hour, else one is active later, within the horizon and the record.
LabelsAreForecasts ==
    \A c \in Column, o \in Output, t \in 0 .. Hours - 1 :
        t \in labels[c][o] <=>
            \E e \in events, u \in IF o[2] = 0 THEN {t} ELSE t + 1 .. t + o[2] :
                e.hazard = o[1] /\ e.col = c /\ e.start <= u /\ u < e.end /\ u < Hours

\* Nothing happens in the warm-up period: no row without features is positive,
\* but for the horizon that looks past its end.
WarmUpIsQuiet ==
    \A c \in Column, o \in Output : \A t \in labels[c][o] : t + o[2] >= Warm

\* A flood at a column that is not a source came down from a neighbour, later.
FloodsComeDown ==
    \A e \in {f \in events : f.hazard = "FL" /\ f.col \notin Upstream} :
        \E f \in events : /\ f.hazard = "FL" /\ f.col \in nbrs(e.col)
                          /\ Elev[e.col] < Elev[f.col] + Downhill
                          /\ e.start - f.start \in Lags["FL"]

\* What the training learns from is what the generator says it makes: "t+D = an
\* event of that hazard is active at some point in (t, t+D]", a warm-up period
\* that is left "event-free", floods that travel "downstream (lower elev) with
\* lag" (_inject_events and _labels).
CorpusIsSound == labels # <<>> => LabelsAreForecasts /\ WarmUpIsQuiet /\ FloodsComeDown
=============================================================================
