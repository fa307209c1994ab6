--------------------------- MODULE ModelTraining ----------------------------
(***************************************************************************)
(* One run of the offline training script (train.run): the corpus, the     *)
(* held-out-column split, the two training phases, temperatures,           *)
(* thresholds and the export. Weights are told apart by the epoch that     *)
(* produced them; a validation loss is a number or not a number, as it is  *)
(* when training diverges. Calibrated probabilities are scores, and a      *)
(* split's samples of one output the counts of positives and negatives at  *)
(* each score, which is all that a precision-recall curve depends on.      *)
(***************************************************************************)
EXTENDS ReleaseFiles, ModelCorpus, ModelGraph

CONSTANTS
    ValColumns,     \* n_val, the number of columns held out
    MinPos,         \* min_pos of split_by_column
    Tries,          \* n_tries of split_by_column
    MaxNeighbours,  \* MAX_NEIGHBOURS
    Context,        \* CONTEXT_LENGTH
    Periods,        \* GRAPH_PERIODS
    Epochs,
    GraphEpochs,
    BatchSize,      \* samples in a batch of train_graph, the last may have fewer
    Loss,           \* the validation losses an epoch may reach
    NaN,
    Score,          \* calibrated probabilities, as ranks
    ValSamples,     \* the histograms considered of the validation split
    TrainSamples,   \* and of the training split
    MinPositives,   \* MIN_POSITIVES of calibrate.py
    RecallNum,      \* ADVISORY_RECALL = RecallNum / RecallDen
    RecallDen,
    MaxAborts       \* bound: exports that fail or are killed

Samples == [pos : [Score -> Nat], neg : [Score -> Nat]]

ASSUME TrainingAssumption ==
    /\ ValColumns \in 1 .. Cardinality(Column)
    /\ MinPos \in Nat /\ Tries \in Nat \ {0} /\ MaxNeighbours \in Nat
    /\ Context \in Nat \ {0} /\ Periods \in Nat \ {0}
    /\ Epochs \in Nat /\ GraphEpochs \in Nat /\ BatchSize \in Nat \ {0} /\ Loss \subseteq Nat /\ NaN \notin Nat
    /\ Score \subseteq Nat \ {0} /\ IsFiniteSet(Score) /\ Score # {}
    /\ ValSamples \subseteq Samples /\ TrainSamples \subseteq Samples
    /\ MinPositives \in Nat \ {0} /\ RecallNum \in Nat /\ RecallDen \in Nat \ {0} /\ RecallNum <= RecallDen
    /\ MaxAborts \in Nat

VARIABLES
    stage,       \* where run() is
    epoch,       \* epochs of the phase that are done
    val_ids,     \* columns held out
    batch,       \* the samples the optimiser was last given
    w,           \* the weights of the model
    best,        \* best and best_state of train_standalone
    history,     \* validation loss of each phase 1 epoch
    cache_of,    \* the encoder whose embeddings emb_cache holds
    samples,     \* calibrated probabilities of the two splits, until the export
    thr,         \* [Output -> its threshold record]
    out,         \* [FileName -> contents of the file in the output directory]
    aborts

train_vars == <<stage, epoch, val_ids, batch, w, best, history, cache_of, samples, thr, out, aborts>>

train_ids == Column \ val_ids

\* The weights that evaluate_standalone runs.  Stage 3 is not among them.
StandalonePath == <<w.enc, w.heads, w.graph_heads>>
-----------------------------------------------------------------------------
(* data.py: the split, and the samples of the two phases. *)

ColumnsOf(p) == {c \in Column : ProfileOf[c] = p}
Profiles == {ProfileOf[c] : c \in Column}

\* candidate: columns are drawn one per profile and round, in some order of the
\* profiles, until n_val are drawn; a profile that is used up is passed over.
Candidates ==
    {V \in kSubset(ValColumns, Column) :
        \E round \in 0 .. Cardinality(Column) : \A p \in Profiles :
            Cardinality(V \intersect ColumnsOf(p))
                \in {Min({Cardinality(ColumnsOf(p)), n}) : n \in {round, round + 1}}}

\* Positive hours of an output in the columns V, and the outputs the corpus has at all.
Positives(V, o) == SumFunction([c \in V |-> Cardinality(labels[c][o])])
Present == {o \in TrainedOutput : Positives(Column, o) > 0}

\* The key by which a candidate is kept: the outputs it covers, then the worst of them.
Key(V) == <<Cardinality({o \in Present : Positives(V, o) >= MinPos}),
            IF Present = {} THEN 0 ELSE Min({Positives(V, o) : o \in Present})>>
Beats(k, l) == k[1] > l[1] \/ (k[1] = l[1] /\ k[2] > l[2])

split_by_column(V) ==
    \E tried \in SUBSET Candidates :
        /\ Cardinality(tried) \in 1 .. Tries
        /\ V \in tried
        /\ \A U \in tried : ~Beats(Key(U), Key(V))

\* WindowDataset: the hours, from 0, at which a context window ends, and its rows.
WindowEnds == (Context - 1) .. (Hours - 1)
WindowRows(t) == (t - Context + 1) .. t

\* embed_all leaves the hours before a whole window without an embedding.
EmbeddedHours == (Context - 1) .. (Hours - 1)

\* ego_networks: neighbours by weight, then theirs by the best product of weights,
\* cut at MAX_NEIGHBOURS.
Hop1(i) == {j \in Column : Adj[i][j] > 0}
Hop2(i) == {k \in Column \ ({i} \union Hop1(i)) : \E j \in Hop1(i) : Adj[j][k] > 0}
TwoHopWeight(i, k) == Max({Adj[i][j] * Adj[j][k] : j \in Hop1(i)})

ego_network(i) ==
    LET ordered == ByWeight([j \in Hop1(i) |-> Adj[i][j]]) \o ByWeight([k \in Hop2(i) |-> TwoHopWeight(i, k)])
    IN  <<i>> \o SubSeq(ordered, 1, Min({MaxNeighbours, Len(ordered)}))

\* Mutant: samples from the first embedding on.
GraphSampleHours_Early == (Context - 1) .. (Hours - 1)

\* GraphSampleDataset: the hours of a sample and the hours its histories read.
GraphSampleHours == (Context - 1 + Periods) .. (Hours - 1)
HistoryHours(t) == (t - Periods + 1) .. t

\* The sample of column c and hour t: the neighbours that were not dropped are
\* closed up, so that the valid nodes are a prefix, and the rest is padding.
GraphSample(c, t, dropped) ==
    LET nbs   == Tail(ego_network(c))
        kept  == Ascending({i \in DOMAIN nbs : nbs[i] \notin dropped})
        keep  == <<c>> \o [n \in DOMAIN kept |-> nbs[kept[n]]]
        Place == 1 .. 1 + MaxNeighbours
        In(a) == a <= Len(keep)
    IN  [own   |-> <<c, t>>,
         nodes |-> [a \in Place |-> IF In(a) THEN keep[a] ELSE 0],
         valid |-> [a \in Place |-> IF In(a) THEN 1 ELSE 0],
         adj   |-> [a \in Place |-> [b \in Place |-> IF In(a) /\ In(b) THEN Adj[keep[a]][keep[b]] ELSE 0]],
         hours |-> HistoryHours(t)]

\* Every sample that train_graph may draw.
GraphSamples ==
    {GraphSample(x[1], x[2], x[3] \intersect Range(Tail(ego_network(x[1])))) :
        x \in train_ids \X GraphSampleHours \X SUBSET Column}
GraphBatches == UNION {[1 .. n -> GraphSamples] : n \in 1 .. BatchSize}
-----------------------------------------------------------------------------
InitialWeights == [enc |-> 0, heads |-> 0, graph_heads |-> 0, graph |-> 0, temps_for |-> <<>>]

TrainInit ==
    /\ CorpusInit
    /\ stage = "corpus"
    /\ epoch = 0
    /\ val_ids = {}
    /\ batch = <<>>
    /\ w = InitialWeights
    /\ best = [loss |-> NaN, enc |-> 0]
    /\ history = <<>>
    /\ cache_of = 0
    /\ samples = <<>>
    /\ thr = <<>>
    /\ out \in {[f \in FileName |-> c] : c \in {"absent", "old"}}
    /\ aborts = 0

\* generate_corpus: its events, then its labels.
GenerateEvents ==
    /\ stage = "corpus"
    /\ inject_events
    /\ UNCHANGED train_vars

LabelCorpus ==
    /\ stage = "corpus"
    /\ make_labels
    /\ stage' = "split"
    /\ UNCHANGED <<epoch, val_ids, batch, w, best, history, cache_of, samples, thr, out, aborts>>

\* The split.  The corpus is then only read sample by sample, and forgotten here; what
\* the normalisation and the class weights make of the training columns is left out.
Split ==
    /\ stage = "split"
    /\ \E V \in Candidates : split_by_column(V) /\ val_ids' = V
    /\ stage' = "phase1"
    /\ events' = {} /\ seeds' = 0 /\ labels' = <<>> /\ UNCHANGED flood
    /\ UNCHANGED <<epoch, batch, w, best, history, cache_of, samples, thr, out, aborts>>

\* vloss < best, where best starts at infinity and a comparison with NaN is false.
Improves(vloss) == vloss # NaN /\ (best.loss = NaN \/ vloss < best.loss)

\* One epoch of train_standalone: the optimiser moves the encoder and the heads,
\* then the model is evaluated on the held-out columns.
StandaloneEpoch(vloss) ==
    /\ stage = "phase1" /\ epoch < Epochs
    /\ epoch' = epoch + 1
    /\ w' = [w EXCEPT !.enc = epoch + 1, !.heads = epoch + 1]
    /\ \E c \in train_ids, t \in WindowEnds : batch' = <<[nodes |-> <<c>>, hours |-> WindowRows(t)]>>
    /\ history' = Append(history, vloss)
    /\ best' = IF Improves(vloss) THEN [loss |-> vloss, enc |-> epoch + 1] ELSE best
    /\ UNCHANGED <<stage, val_ids, cache_of, samples, thr, out, aborts>>

\* Mutant: the last epoch is kept.
RestoreBest_Last ==
    /\ stage = "phase1" /\ epoch = Epochs
    /\ stage' = "embed"
    /\ batch' = <<>>
    /\ UNCHANGED <<epoch, val_ids, w, best, history, cache_of, samples, thr, out, aborts>>

\* The end of train_standalone: back to the best state, if there is one.
RestoreBest ==
    /\ stage = "phase1" /\ epoch = Epochs
    /\ w' = IF best.loss = NaN THEN w ELSE [w EXCEPT !.enc = best.enc, !.heads = best.enc]
    /\ stage' = "embed"
    /\ batch' = <<>>
    /\ UNCHANGED <<epoch, val_ids, best, history, cache_of, samples, thr, out, aborts>>

EmbedAll ==
    /\ stage = "embed"
    /\ cache_of' = w.enc
    /\ epoch' = 0
    /\ stage' = "phase2"
    /\ UNCHANGED <<val_ids, batch, w, best, history, samples, thr, out, aborts>>

\* One epoch of train_graph: the encoder is frozen, the optimiser holds the graph
\* stage and the heads that use it.  The last epoch is kept, not the best.
GraphEpoch ==
    /\ stage = "phase2" /\ epoch < GraphEpochs
    /\ epoch' = epoch + 1
    /\ w' = [w EXCEPT !.graph = epoch + 1, !.graph_heads = epoch + 1]
    /\ batch' \in GraphBatches
    /\ UNCHANGED <<stage, val_ids, best, history, cache_of, samples, thr, out, aborts>>

EndGraph ==
    /\ stage = "phase2" /\ epoch = GraphEpochs
    /\ stage' = "temperatures"
    /\ batch' = <<>>
    /\ UNCHANGED <<epoch, val_ids, w, best, history, cache_of, samples, thr, out, aborts>>

\* fit_temperatures on the held-out logits of the standalone path, which are the model's
\* without stage 3, and the probabilities of both splits under the new temperatures.
FitTemperatures ==
    /\ stage = "temperatures"
    /\ w' = [w EXCEPT !.temps_for = StandalonePath]
    /\ \E v \in ValSamples, t \in TrainSamples : samples' = [val |-> v, train |-> t]
    /\ stage' = "thresholds"
    /\ UNCHANGED <<epoch, val_ids, batch, best, history, cache_of, thr, out, aborts>>
-----------------------------------------------------------------------------
(* calibrate.py *)

Count(h) == SumFunction(h)
AtLeast(h, t) == SumFunctionOnSet(h, {s \in Score : s >= t})
Thresholds(S) == {s \in Score : S.pos[s] + S.neg[s] > 0}

\* F1 of the operating point t is 2 tp / (predicted + positives); two are compared
\* by cross multiplication.
F1Num(S, t) == AtLeast(S.pos, t)
F1Den(S, t) == AtLeast(S.pos, t) + AtLeast(S.neg, t) + Count(S.pos)
F1AtLeast(S, t, u) == F1Num(S, t) * F1Den(S, u) >= F1Num(S, u) * F1Den(S, t)
RecallOk(S, t) == AtLeast(S.pos, t) * RecallDen >= RecallNum * Count(S.pos)

\* pr_thresholds: argmax takes the first of the ascending thresholds, ok[-1] the last.
BestF1(S) == Min({t \in Thresholds(S) : \A u \in Thresholds(S) : F1AtLeast(S, t, u)})
LastRecall(S) == Max({t \in Thresholds(S) : RecallOk(S, t)})

\* Mutant: the advisory threshold is not kept below the warning.
pr_thresholds_Unordered(S) == [warning |-> BestF1(S), advisory |-> LastRecall(S)]

pr_thresholds(S) ==
    [warning |-> BestF1(S), advisory |-> Min({LastRecall(S), BestF1(S)})]

HasCurve(S) == Count(S.pos) >= MinPositives /\ Count(S.neg) >= MinPositives

\* FIXED_FALLBACK is not of the scores: it comes from no sample.
Fallback == [advisory |-> 0, warning |-> 0]

ThresholdOf(o) ==
    IF o \notin TrainedOutput THEN [source |-> "declared only", at |-> Fallback]
    ELSE IF HasCurve(samples.val) THEN [source |-> "val", at |-> pr_thresholds(samples.val)]
    ELSE IF HasCurve(samples.train) THEN [source |-> "train", at |-> pr_thresholds(samples.train)]
    ELSE [source |-> "fixed", at |-> Fallback]

CalibrateThresholds ==
    /\ stage = "thresholds"
    /\ thr' = [o \in Output |-> ThresholdOf(o)]
    /\ epoch' = 0
    /\ stage' = "export"
    /\ UNCHANGED <<val_ids, batch, w, best, history, cache_of, samples, out, aborts>>
-----------------------------------------------------------------------------
(* export.py: the fp32 graphs, their comparison with torch, the int8 copies, *)
(* and the manifest, which is written last.  epoch counts the files.  What   *)
(* nothing but the text of the manifest reads any more is dropped.           *)

Forget ==
    /\ val_ids' = {}
    /\ samples' = <<>> /\ thr' = <<>>
    /\ best' = [loss |-> NaN, enc |-> 0] /\ history' = <<>>

\* The process is over: only the files are left.
ProcessEnds ==
    /\ stage' = "end" /\ epoch' = 0
    /\ w' = InitialWeights /\ cache_of' = 0

ExportFile ==
    /\ stage = "export"
    /\ out' = [out EXCEPT ![FileOrder[epoch + 1]] = "new"]
    /\ Forget
    /\ \/ /\ epoch + 1 < Len(FileOrder)
          /\ epoch' = epoch + 1
          /\ UNCHANGED <<stage, w, cache_of>>
       \/ /\ epoch + 1 = Len(FileOrder)
          /\ ProcessEnds
    /\ UNCHANGED <<batch, aborts>>

\* The script is killed while it writes a file, the fp32 ones a second time once both
\* are there (_strip_stale_value_info), or an assertion of the comparison with torch
\* fails after that: what is there stays.
AbortExport ==
    /\ stage = "export" /\ aborts < MaxAborts
    /\ \/ epoch = 2 /\ out' = out
       \/ \E i \in {epoch + 1} \union (IF epoch = 2 THEN {1, 2} ELSE {}) :
              out' = [out EXCEPT ![FileOrder[i]] = "partial"]
    /\ Forget /\ ProcessEnds
    /\ aborts' = aborts + 1
    /\ UNCHANGED batch

TrainNext ==
    \/ GenerateEvents \/ LabelCorpus \/ Split
    \/ /\ \/ RestoreBest \/ EmbedAll \/ GraphEpoch \/ EndGraph \/ FitTemperatures
          \/ CalibrateThresholds \/ ExportFile \/ AbortExport
          \/ \E vloss \in Loss \union {NaN} : StandaloneEpoch(vloss)
       /\ UNCHANGED corpus_vars
-----------------------------------------------------------------------------
(* Properties *)

\* A training sample reads rows that exist: a window never begins before the
\* record, a history never before the first whole window (a negative index would
\* wrap around in numpy), its own column comes first and is a training column, and
\* the nodes fit the padded arrays (WindowDataset, embed_all, GraphSampleDataset).
SamplesAreObserved ==
    \A b \in DOMAIN batch :
        LET nodes == IF stage = "phase1" THEN batch[b].nodes ELSE Unpadded(batch[b]).hist
        IN  /\ Head(nodes) \in train_ids /\ Range(nodes) \subseteq Column
            /\ Len(nodes) <= 1 + MaxNeighbours /\ IsInjective(nodes)
            /\ batch[b].hours \subseteq IF stage = "phase1" THEN 0 .. Hours - 1 ELSE EmbeddedHours
            /\ Range(nodes) \intersect Hop2(Head(nodes)) # {}
                  => Hop1(Head(nodes)) \subseteq Range(ego_network(Head(nodes)))

\* The model that is shipped computes what was trained: whatever neighbours the
\* samples of a batch have, every head reads the same from the batched sparse
\* graph as from the dense form of the export - the same histories over the same
\* weights and degrees - and the same without the graph stage, so that neither
\* padding nor the other samples of the batch leak into a sample (graph_forward,
\* against EncoderExport and GraphExport).
GraphStagesAgree ==
    stage = "phase2" => \A graph_on \in [DOMAIN batch -> BOOLEAN] : \A b \in DOMAIN batch :
        graph_forward(HEADS, batch, graph_on)[b]
            = IF graph_on[b] THEN GraphExport(HEADS, batch[b]) ELSE EncoderExport(HEADS, batch[b])

\* The first epoch with the lowest validation loss, if any loss is a number.
BestEpochs ==
    {e \in DOMAIN history : history[e] # NaN
        /\ \A f \in DOMAIN history : history[f] # NaN => history[e] < history[f] \/ (history[e] = history[f] /\ e <= f)}

\* The standalone path that goes into the export is of one epoch of the first phase, the
\* first with the lowest loss if any loss was a number; the graph stage was trained on the
\* embeddings of that encoder; and the temperatures were fitted to the standalone path
\* as it ships, the heads the second phase moved included (run, train_standalone,
\* train_graph).  Of the second phase the last epoch is kept, whatever its loss.
\* Nothing is fitted to the graph path: the export puts the temperatures of the
\* standalone path on its logits as well.
ReleaseIsCoherent ==
    stage = "export" /\ epoch = 0 =>
        /\ BestEpochs # {} => w.enc \in BestEpochs
        /\ w.heads = w.enc /\ cache_of = w.enc
        /\ w.temps_for = StandalonePath

\* A threshold that claims a curve catches the share of events it promises, lies
\* at or below the warning, whose F1 no other score beats, and is labelled
\* validated only when the held-out columns had enough of both classes
\* (pr_thresholds, calibrate_thresholds).
ThresholdsAreSound ==
    stage = "export" /\ epoch = 0 => \A o \in Output :
        LET S == IF thr[o].source = "val" THEN samples.val ELSE samples.train
            a == thr[o].at.advisory
            b == thr[o].at.warning
        IN  /\ thr[o].source \in {"val", "train"} =>
                /\ a <= b /\ a \in Thresholds(S) /\ b \in Thresholds(S)
                /\ RecallNum * Count(S.pos) <= RecallDen * AtLeast(S.pos, a)
                /\ \A s \in Score : F1AtLeast(S, b, s)
            /\ thr[o].source = "train" => ~HasCurve(samples.val)
            /\ o \notin TrainedOutput => thr[o].source = "declared only"
=============================================================================
