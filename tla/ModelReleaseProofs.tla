------------------------- MODULE ModelReleaseProofs -------------------------
(***************************************************************************)
(* Proofs about the way of a model from training to a running node.        *)
(* Training: the corpus has the labels it claims to have, the samples read *)
(* only what is there, the two forms of the graph stage agree, what is     *)
(* exported has one encoder, the first one with the best validation loss,  *)
(* temperatures fitted to the exported weights of the standalone path, and *)
(* thresholds that keep what they promise.  The registry: CURRENT always   *)
(* names a version that is there, which can be loaded unless it was pushed *)
(* to after it was verified, and the registry implements ModelService.     *)
(* Pushes go to any directory at any time; they, promotions and starts may *)
(* be cut short any number of times, and there may be any number of        *)
(* versions.                                                               *)
(***************************************************************************)
EXTENDS ModelRelease, NaturalLemmas, FiniteSetTheorems

\* The stages between the split and the export.
Fitting == {"phase1", "embed", "phase2", "temperatures", "thresholds"}

\* The steps of the script, told apart.
LEMMA TrainSteps ==
    ASSUME [ReleaseNext]_vars
    PROVE  \/ UNCHANGED train_vars
           \/ GenerateEvents \/ LabelCorpus \/ Split
           \/ RestoreBest \/ EmbedAll \/ GraphEpoch \/ EndGraph \/ FitTemperatures
           \/ CalibrateThresholds \/ ExportFile \/ AbortExport
           \/ \E vloss \in Loss \union {NaN} : StandaloneEpoch(vloss)
  BY DEF ReleaseNext, TrainNext, vars

-----------------------------------------------------------------------------
(* The model that is exported *)

Weights == [enc : Nat, heads : Nat, graph_heads : Nat, graph : Nat,
            temps_for : {<<>>} \union (Nat \X Nat \X Nat)]

TrainingTypeOK ==
    /\ epoch \in Nat
    /\ w \in Weights
    /\ best \in [loss : Loss \union {NaN}, enc : Nat]
    /\ history \in Seq(Loss \union {NaN})

\* best_state is of the first epoch with the lowest loss, once a loss was a number.
BestIsFirst ==
    \/ best.loss = NaN /\ \A e \in DOMAIN history : history[e] = NaN
    \/ best.loss # NaN /\ best.enc \in BestEpochs /\ history[best.enc] = best.loss

BestIsKept == BestEpochs # {} => w.enc \in BestEpochs

\* What holds of the weights at each stage on the way to the export.
CoherentInv ==
    /\ stage \in {"corpus", "split"} => epoch = 0 /\ history = <<>> /\ best.loss = NaN
    /\ stage = "phase1" => Len(history) = epoch /\ BestIsFirst
    /\ stage \in Fitting \union {"corpus", "split"} => w.heads = w.enc
    /\ stage \in Fitting \ {"phase1"} => BestIsKept
    /\ stage \in {"phase2", "temperatures", "thresholds"} => cache_of = w.enc
    /\ stage = "thresholds" => w.temps_for = StandalonePath
    /\ ReleaseIsCoherent

\* An epoch keeps best at the first of the lowest losses: a comparison with NaN never
\* replaces it, and an equal loss does not either (vloss < best).
LEMMA FirstBestKept ==
    ASSUME TrainingTypeOK, Len(history) = epoch, BestIsFirst,
           NEW vloss \in Loss \union {NaN}, StandaloneEpoch(vloss)
    PROVE  BestIsFirst'
<1>1. history' = Append(history, vloss) /\ best' = IF Improves(vloss) THEN [loss |-> vloss, enc |-> epoch + 1] ELSE best
  BY DEF StandaloneEpoch
<1>2. /\ DOMAIN history = 1 .. epoch /\ DOMAIN history' = 1 .. epoch + 1
      /\ \A e \in 1 .. epoch : history'[e] = history[e] /\ history[e] \in Loss \union {NaN}
      /\ history'[epoch + 1] = vloss
  BY <1>1 DEF TrainingTypeOK
<1>3. /\ \A l \in Loss \union {NaN} : l # NaN => l \in Nat
      /\ epoch \in Nat /\ best.loss \in Loss \union {NaN}
  BY TrainingAssumption DEF TrainingTypeOK
<1>4. CASE Improves(vloss)
  <2>1. best'.loss = vloss /\ best'.enc = epoch + 1 /\ vloss \in Loss /\ vloss # NaN
    BY <1>1, <1>4 DEF Improves
  <2>2. \A e \in 1 .. epoch : history[e] # NaN => vloss < history[e]
    <3>1. CASE best.loss = NaN
      BY <3>1, <1>2 DEF BestIsFirst
    <3>2. CASE best.loss # NaN
      <4>1. vloss < best.loss
        BY <3>2, <1>4 DEF Improves
      <4>2. best.loss \in Nat /\ vloss \in Nat
        BY <3>2, <1>3, <2>1
      <4>3. \A e \in 1 .. epoch : history[e] # NaN => best.loss < history[e] \/ best.loss = history[e]
        BY <3>2, <1>2 DEF BestIsFirst, BestEpochs
      <4>4. \A e \in 1 .. epoch : history[e] # NaN => history[e] \in Nat
        BY <1>2, <1>3
      <4> QED
        BY <4>1, <4>2, <4>3, <4>4
    <3> QED
      BY <3>1, <3>2
  <2>3. \A f \in 1 .. epoch + 1 : history'[f] # NaN => vloss < history'[f] \/ (vloss = history'[f] /\ epoch + 1 <= f)
    BY <2>2, <1>2 DEF TrainingTypeOK
  <2>4. epoch + 1 \in BestEpochs'
    BY <2>1, <2>3, <1>2 DEF BestEpochs, TrainingTypeOK
  <2> QED
    BY <2>1, <2>4, <1>2 DEF BestIsFirst
<1>5. CASE ~Improves(vloss)
  <2>1. best' = best
    BY <1>1, <1>5
  <2>2. CASE best.loss = NaN
    <3>1. vloss = NaN
      BY <1>5, <2>2 DEF Improves
    <3>2. \A e \in 1 .. epoch + 1 : history'[e] = NaN
      BY <3>1, <1>2, <2>2 DEF BestIsFirst, TrainingTypeOK
    <3> QED
      BY <3>2, <2>1, <2>2, <1>2 DEF BestIsFirst
  <2>3. CASE best.loss # NaN
    <3>1. best.enc \in BestEpochs /\ history[best.enc] = best.loss /\ best.enc \in 1 .. epoch /\ best.loss \in Loss
      BY <2>3, <1>2 DEF BestIsFirst, BestEpochs, TrainingTypeOK
    <3>2. vloss # NaN => best.loss < vloss \/ best.loss = vloss
      <4>1. vloss # NaN => vloss \in Nat /\ best.loss \in Nat /\ ~(vloss < best.loss)
        BY <1>5, <2>3, <1>3 DEF Improves
      <4> QED
        BY <4>1
    <3>3. \A f \in 1 .. epoch + 1 : history'[f] # NaN
             => best.loss < history'[f] \/ (best.loss = history'[f] /\ best.enc <= f)
      <4> SUFFICES ASSUME NEW f \in 1 .. epoch + 1, history'[f] # NaN
                   PROVE  best.loss < history'[f] \/ (best.loss = history'[f] /\ best.enc <= f)
        OBVIOUS
      <4>1. CASE f \in 1 .. epoch
        BY <4>1, <3>1, <1>2 DEF BestEpochs
      <4>2. CASE f = epoch + 1
        BY <4>2, <3>1, <3>2, <1>2, <1>3
      <4> QED
        BY <4>1, <4>2 DEF TrainingTypeOK
    <3>4. best.enc \in BestEpochs'
      BY <3>1, <3>3, <1>2, <2>3 DEF BestEpochs, TrainingTypeOK
    <3> QED
      BY <3>1, <3>4, <2>1, <2>3, <1>2 DEF BestIsFirst
  <2> QED
    BY <2>2, <2>3
<1> QED
  BY <1>4, <1>5

\* An optimiser step keeps the type of the weights.
LEMMA WeightsKept ==
    ASSUME NEW v \in Weights, NEW n \in Nat
    PROVE  /\ [v EXCEPT !.enc = n, !.heads = n] \in Weights
           /\ [v EXCEPT !.graph = n, !.graph_heads = n] \in Weights
<1>1. [v EXCEPT !.enc = n] \in Weights /\ [v EXCEPT !.graph = n] \in Weights
  BY DEF Weights
<1>2. \A u \in Weights : [u EXCEPT !.heads = n] \in Weights /\ [u EXCEPT !.graph_heads = n] \in Weights
  BY DEF Weights
<1> QED
  BY <1>1, <1>2, Zenon

LEMMA TrainingTypeStep == TrainingTypeOK /\ [ReleaseNext]_vars => TrainingTypeOK'
<1> SUFFICES ASSUME TrainingTypeOK, [ReleaseNext]_vars
             PROVE  TrainingTypeOK'
  OBVIOUS
<1> USE DEF TrainingTypeOK
<1>0. w \in Weights /\ epoch + 1 \in Nat
  OBVIOUS
<1>1. CASE UNCHANGED train_vars
  BY <1>1 DEF train_vars
<1>2. CASE GenerateEvents \/ LabelCorpus \/ Split
  <2>1. UNCHANGED <<epoch, w, best, history>>
    BY <1>2, Zenon DEF GenerateEvents, LabelCorpus, Split, train_vars
  <2> QED
    BY <2>1
<1>3. CASE \E vloss \in Loss \union {NaN} : StandaloneEpoch(vloss)
  <2>1. PICK vloss \in Loss \union {NaN} : StandaloneEpoch(vloss)
    BY <1>3
  <2>2. /\ epoch' = epoch + 1 /\ history' = Append(history, vloss)
        /\ w' = [w EXCEPT !.enc = epoch + 1, !.heads = epoch + 1]
        /\ best' = best \/ (vloss \in Loss /\ best' = [loss |-> vloss, enc |-> epoch + 1])
    BY <2>1 DEF StandaloneEpoch, Improves
  <2>3. w' \in Weights
    BY <1>0, <2>2, WeightsKept, Zenon
  <2> QED
    BY <2>2, <2>3
<1>4. CASE RestoreBest
  BY <1>4 DEF RestoreBest, Weights
<1>5. CASE EmbedAll \/ EndGraph \/ CalibrateThresholds
  <2>1. epoch' \in {epoch, 0} /\ UNCHANGED <<w, best, history>>
    BY <1>5, Zenon DEF EmbedAll, EndGraph, CalibrateThresholds
  <2> QED
    BY <2>1
<1>6. CASE GraphEpoch
  <2>1. epoch' = epoch + 1 /\ UNCHANGED <<best, history>> /\ w' = [w EXCEPT !.graph = epoch + 1, !.graph_heads = epoch + 1]
    BY <1>6 DEF GraphEpoch
  <2>2. w' \in Weights
    BY <1>0, <2>1, WeightsKept, Zenon
  <2> QED
    BY <2>1, <2>2
<1>7. CASE FitTemperatures
  BY <1>7 DEF FitTemperatures, StandalonePath, Weights
<1>8. CASE ExportFile \/ AbortExport
  <2>1. /\ best' = [loss |-> NaN, enc |-> 0] /\ history' = <<>>
        /\ epoch' \in {epoch + 1, 0} /\ w' \in {w, InitialWeights}
    BY <1>8, Zenon DEF ExportFile, AbortExport, Forget, ProcessEnds
  <2> QED
    BY <2>1 DEF InitialWeights, Weights
<1> QED
  BY TrainSteps, <1>1, <1>2, <1>3, <1>4, <1>5, <1>6, <1>7, <1>8

LEMMA CoherentStep == TrainingTypeOK /\ CoherentInv /\ [ReleaseNext]_vars => CoherentInv'
<1> SUFFICES ASSUME TrainingTypeOK, CoherentInv, [ReleaseNext]_vars
             PROVE  CoherentInv'
  OBVIOUS
<1> USE DEF CoherentInv, Fitting
<1>1. CASE UNCHANGED train_vars
  BY <1>1 DEF train_vars, BestIsFirst, BestIsKept, BestEpochs, ReleaseIsCoherent, StandalonePath
<1>2. CASE GenerateEvents \/ LabelCorpus
  <2>1. stage \in {"corpus"} /\ stage' \in {"corpus", "split"} /\ UNCHANGED <<epoch, w, best, history>>
    BY <1>2, Zenon DEF GenerateEvents, LabelCorpus, train_vars
  <2> QED
    BY <2>1 DEF ReleaseIsCoherent
<1>3. CASE Split
  <2>1. stage = "split" /\ stage' = "phase1" /\ UNCHANGED <<epoch, w, best, history>>
    BY <1>3 DEF Split
  <2> QED
    BY <2>1 DEF ReleaseIsCoherent, BestIsFirst
<1>4. ASSUME NEW vloss \in Loss \union {NaN}, StandaloneEpoch(vloss)
      PROVE  CoherentInv'
  <2>1. stage = "phase1" /\ stage' = "phase1"
    BY <1>4 DEF StandaloneEpoch
  <2>2. BestIsFirst'
    BY <1>4, <2>1, FirstBestKept
  <2>3. history' = Append(history, vloss) /\ epoch' = epoch + 1
        /\ w' = [w EXCEPT !.enc = epoch + 1, !.heads = epoch + 1]
    BY <1>4 DEF StandaloneEpoch
  <2>4. Len(history') = epoch' /\ w'.heads = w'.enc
    BY <2>1, <2>3 DEF TrainingTypeOK, Weights
  <2> QED
    BY <2>1, <2>2, <2>4 DEF ReleaseIsCoherent
<1>5. CASE RestoreBest
  <2>1. /\ stage = "phase1" /\ stage' = "embed" /\ history' = history
        /\ w' = IF best.loss = NaN THEN w ELSE [w EXCEPT !.enc = best.enc, !.heads = best.enc]
    BY <1>5 DEF RestoreBest
  <2>2. w'.heads = w'.enc
    BY <2>1 DEF TrainingTypeOK, Weights
  <2>3. BestEpochs' = BestEpochs
    BY <2>1 DEF BestEpochs
  <2>4. BestIsKept'
    <3>1. CASE best.loss = NaN
      BY <3>1, <2>1, <2>3 DEF BestIsFirst, BestIsKept, BestEpochs
    <3>2. CASE best.loss # NaN
      <4>1. w'.enc = best.enc
        BY <3>2, <2>1 DEF TrainingTypeOK, Weights
      <4> QED
        BY <4>1, <3>2, <2>1, <2>3 DEF BestIsFirst, BestIsKept
    <3> QED
      BY <3>1, <3>2
  <2> QED
    BY <2>1, <2>2, <2>4 DEF ReleaseIsCoherent
<1>6. CASE EmbedAll \/ EndGraph
  <2>1. /\ stage \in {"embed", "phase2"} /\ stage' \in {"phase2", "temperatures"}
        /\ w' = w /\ history' = history /\ cache_of' \in {w.enc, cache_of} /\ (stage = "embed" => cache_of' = w.enc)
    BY <1>6, Zenon DEF EmbedAll, EndGraph
  <2> QED
    BY <2>1 DEF ReleaseIsCoherent, BestIsKept, BestEpochs
<1>7. CASE GraphEpoch
  <2>1. /\ stage = "phase2" /\ stage' = "phase2" /\ UNCHANGED <<history, cache_of>>
        /\ w'.enc = w.enc /\ w'.heads = w.heads
    BY <1>7 DEF GraphEpoch, TrainingTypeOK, Weights
  <2> QED
    BY <2>1 DEF ReleaseIsCoherent, BestIsKept, BestEpochs
<1>8. CASE FitTemperatures
  <2>1. /\ stage = "temperatures" /\ stage' = "thresholds" /\ UNCHANGED <<history, cache_of>>
        /\ w'.enc = w.enc /\ w'.heads = w.heads /\ w'.temps_for = StandalonePath /\ StandalonePath' = StandalonePath
    BY <1>8 DEF FitTemperatures, TrainingTypeOK, Weights, StandalonePath
  <2> QED
    BY <2>1 DEF ReleaseIsCoherent, BestIsKept, BestEpochs
<1>9. CASE CalibrateThresholds
  <2>1. stage = "thresholds" /\ stage' = "export" /\ UNCHANGED <<history, cache_of, w>>
    BY <1>9 DEF CalibrateThresholds
  <2> QED
    BY <2>1 DEF ReleaseIsCoherent, BestIsKept, BestEpochs, StandalonePath
<1>10. CASE ExportFile \/ AbortExport
  <2>1. (stage' = "export" /\ epoch' = epoch + 1) \/ stage' = "end"
    BY <1>10, Zenon DEF ExportFile, AbortExport, ProcessEnds
  <2> QED
    BY <2>1 DEF ReleaseIsCoherent, TrainingTypeOK
<1> QED
  BY TrainSteps, <1>1, <1>2, <1>3, <1>4, <1>5, <1>6, <1>7, <1>8, <1>9, <1>10

\* For any number of epochs and any losses, what is exported has the encoder of the
\* first epoch with the lowest validation loss, graph heads trained on embeddings of
\* that encoder, and temperatures of the standalone path it ships with; the graph
\* stage is that of its last epoch, and its logits had no part in the temperatures
\* (train_standalone, train_graph, run).
THEOREM CoherentTheorem == ReleaseSpec => []ReleaseIsCoherent
<1>1. ReleaseInit => TrainingTypeOK /\ CoherentInv
  BY TrainingAssumption
  DEF ReleaseInit, TrainInit, InitialWeights, TrainingTypeOK, Weights, CoherentInv, Fitting, ReleaseIsCoherent
<1>2. CoherentInv => ReleaseIsCoherent
  BY DEF CoherentInv
<1> QED
  BY <1>1, <1>2, TrainingTypeStep, CoherentStep, PTL DEF ReleaseSpec

-----------------------------------------------------------------------------
(* Sorted lists, and the graph of the columns *)

\* R puts the elements of S in an order: it is strict and total on S.
Orders(R, S) ==
    /\ \A x \in S : <<x, x>> \notin R
    /\ \A x, y \in S : x # y => <<x, y>> \in R \/ <<y, x>> \in R
    /\ \A x, y, z \in S : <<x, y>> \in R /\ <<y, z>> \in R => <<x, z>> \in R

\* Sorting lists every element once.
LEMMA InOrderLists ==
    ASSUME NEW S, IsFiniteSet(S), NEW R, Orders(R, S)
    PROVE  /\ InOrder(S, R) \in [1 .. Cardinality(S) -> S]
           /\ IsInjective(InOrder(S, R))
           /\ Range(InOrder(S, R)) = S
<1> DEFINE N == Cardinality(S)
           before(x) == {y \in S : <<y, x>> \in R}
           rank == [x \in S |-> Cardinality(before(x)) + 1]
           s == InOrder(S, R)
<1>0. \A x, y : y \in before(x) <=> y \in S /\ <<y, x>> \in R
  OBVIOUS
<1>d. s = [i \in 1 .. N |-> CHOOSE x \in S : Cardinality(before(x)) = i - 1]
  BY Zenon DEF InOrder
<1> HIDE DEF before, s
<1>s. \A i \in 1 .. N : s[i] = CHOOSE x \in S : Cardinality(before(x)) = i - 1
  BY <1>d
<1>7. DOMAIN s = 1 .. N /\ s = [i \in 1 .. N |-> s[i]]
  BY <1>d
<1>r. \A x \in S : rank[x] = Cardinality(before(x)) + 1
  OBVIOUS
<1>t. rank = [x \in S |-> rank[x]]
  OBVIOUS
<1> HIDE DEF rank
<1>1. N \in Nat
  BY FS_CardinalityType
<1>2. \A x \in S : IsFiniteSet(before(x)) /\ Cardinality(before(x)) \in Nat /\ Cardinality(before(x)) < N
  <2> SUFFICES ASSUME NEW x \in S
               PROVE  IsFiniteSet(before(x)) /\ Cardinality(before(x)) \in Nat /\ Cardinality(before(x)) < N
    OBVIOUS
  <2>1. before(x) \in SUBSET (S \ {x})
    BY <1>0 DEF Orders
  <2>2. IsFiniteSet(S \ {x}) /\ Cardinality(S \ {x}) = N - 1
    BY FS_RemoveElement
  <2>3. IsFiniteSet(before(x)) /\ Cardinality(before(x)) <= N - 1
    BY <2>1, <2>2, FS_Subset
  <2>4. Cardinality(before(x)) \in Nat
    BY <2>3, FS_CardinalityType
  <2> QED
    BY <1>1, <2>3, <2>4
<1>3. \A x, y \in S : <<x, y>> \in R => Cardinality(before(x)) < Cardinality(before(y))
  <2> SUFFICES ASSUME NEW x \in S, NEW y \in S, <<x, y>> \in R
               PROVE  Cardinality(before(x)) < Cardinality(before(y))
    OBVIOUS
  <2>1. before(x) \in SUBSET (before(y) \ {x})
    BY <1>0 DEF Orders
  <2>2. IsFiniteSet(before(y) \ {x}) /\ Cardinality(before(y) \ {x}) = Cardinality(before(y)) - 1
    <3>1. x \in before(y) /\ IsFiniteSet(before(y))
      BY <1>0, <1>2
    <3> QED
      BY <3>1, FS_RemoveElement
  <2>3. Cardinality(before(x)) <= Cardinality(before(y)) - 1
    BY <2>1, <2>2, FS_Subset
  <2> QED
    BY <1>2, <2>3
<1>4. rank \in Injection(S, 1 .. N)
  <2>1. rank \in [S -> 1 .. N]
    <3>1. \A x \in S : rank[x] \in 1 .. N
      BY <1>1, <1>2, <1>r
    <3> QED
      BY <1>t, <3>1
  <2>2. ASSUME NEW x \in S, NEW y \in S, rank[x] = rank[y]
        PROVE  x = y
    <3>1. Cardinality(before(x)) = Cardinality(before(y))
      BY <1>2, <1>r, <2>2
    <3>2. ~(<<x, y>> \in R) /\ ~(<<y, x>> \in R)
      BY <1>2, <1>3, <3>1
    <3> QED
      BY <3>2 DEF Orders
  <2> QED
    BY <2>1, <2>2 DEF Injection, IsInjective
<1>5. \A i \in 1 .. N : \E x \in S : rank[x] = i
  <2>1. IsFiniteSet(1 .. N) /\ Cardinality(1 .. N) = N
    BY <1>1, FS_Interval
  <2>2. rank \in Surjection(S, 1 .. N)
    <3> QED
      BY <1>4, <2>1, FS_Injection
  <2> QED
    BY <2>2 DEF Surjection
<1>6. \A i \in 1 .. N : s[i] \in S /\ rank[s[i]] = i
  <2> SUFFICES ASSUME NEW i \in 1 .. N
               PROVE  s[i] \in S /\ rank[s[i]] = i
    OBVIOUS
  <2>1. s[i] = CHOOSE x \in S : Cardinality(before(x)) = i - 1
    BY <1>s
  <2>2. \E x \in S : Cardinality(before(x)) = i - 1
    <3>1. PICK x \in S : rank[x] = i
      BY <1>5
    <3> QED
      BY <1>2, <1>r, <3>1
  <2>3. s[i] \in S /\ Cardinality(before(s[i])) = i - 1
    BY <2>1, <2>2
  <2> QED
    BY <1>1, <1>r, <2>3
<1>8. \A x \in S : rank[x] \in 1 .. N /\ \A y \in S : rank[x] = rank[y] => x = y
  <2> QED
    BY <1>4 DEF Injection, IsInjective
<1> HIDE DEF N
<1>9. s \in [1 .. N -> S]
  BY <1>6, <1>7
<1>10. IsInjective(s)
  BY <1>6, <1>7 DEF IsInjective
<1>11. Range(s) = S
  <2>1. \A x \in S : s[rank[x]] = x
    BY <1>6, <1>8
  <2> QED
    BY <1>7, <1>8, <1>9, <2>1 DEF Range
<1> QED
  BY <1>9, <1>10, <1>11 DEF s, N

\* So does sorting by the numbers themselves ...
LEMMA AscendingLists ==
    ASSUME NEW S \in SUBSET Int, IsFiniteSet(S)
    PROVE  /\ Ascending(S) \in [1 .. Cardinality(S) -> S]
           /\ IsInjective(Ascending(S))
           /\ Range(Ascending(S)) = S
<1> DEFINE R == {p \in S \X S : p[1] < p[2]}
<1>1. Orders(R, S)
  BY DEF Orders
<1>2. Ascending(S) = InOrder(S, R)
  BY DEF Ascending
<1> HIDE DEF R
<1> QED
  BY <1>1, <1>2, InOrderLists

\* ... and by weight.
LEMMA ByWeightLists ==
    ASSUME NEW S \in SUBSET Nat, IsFiniteSet(S), NEW weight \in [S -> Nat]
    PROVE  /\ ByWeight(weight) \in [1 .. Cardinality(S) -> S]
           /\ IsInjective(ByWeight(weight))
           /\ Range(ByWeight(weight)) = S
<1> DEFINE R == {p \in S \X S : weight[p[1]] > weight[p[2]] \/ (weight[p[1]] = weight[p[2]] /\ p[1] < p[2])}
<1>0. \A x, y \in S : <<x, y>> \in R <=> weight[x] > weight[y] \/ (weight[x] = weight[y] /\ x < y)
  OBVIOUS
<1>1. \A x \in S : weight[x] \in Nat /\ x \in Nat
  OBVIOUS
<1>2. ByWeight(weight) = InOrder(S, R)
  <2>1. DOMAIN weight = S
    OBVIOUS
  <2> QED
    BY <2>1 DEF ByWeight
<1> HIDE DEF R
<1>3. Orders(R, S)
  BY <1>0, <1>1 DEF Orders
<1> QED
  BY <1>2, <1>3, InOrderLists

\* The graph of the columns has no direction and no loops.
LEMMA AdjSymmetric ==
    \A i, j \in Column : Adj[i][j] \in Nat /\ Adj[i][j] = Adj[j][i] /\ Adj[i][i] = 0
<1> SUFFICES ASSUME NEW i \in Column, NEW j \in Column
             PROVE  Adj[i][j] \in Nat /\ Adj[i][j] = Adj[j][i] /\ Adj[i][i] = 0
  OBVIOUS
<1> DEFINE W(k, l) == {e[3] : e \in {f \in Edges : {f[1], f[2]} = {k, l}}}
<1>1. \A k, l \in Column : Adj[k][l] = IF W(k, l) = {} THEN 0 ELSE CHOOSE x \in W(k, l) : TRUE
  BY DEF Adj
<1>2. W(i, j) = W(j, i)
  <2>1. {i, j} = {j, i}
    OBVIOUS
  <2> QED
    BY <2>1
<1>3. W(i, j) \subseteq Nat
  BY CorpusAssumption
<1>4. W(i, i) = {}
  <2> SUFFICES ASSUME NEW e \in Edges, {e[1], e[2]} = {i, i}
               PROVE  FALSE
    OBVIOUS
  <2>1. e[1] = i /\ e[2] = i
    OBVIOUS
  <2>2. e[1] < e[2] /\ i \in Nat
    BY CorpusAssumption
  <2> QED
    BY <2>1, <2>2
<1> HIDE DEF W
<1> QED
  BY <1>1, <1>2, <1>3, <1>4

-----------------------------------------------------------------------------
(* The corpus *)

\* Where a flood at column c that begins at t comes from.
Origin(E, c, t) ==
    \/ c \in Upstream
    \/ \E f \in E : /\ f.hazard = "FL" /\ f.col \in nbrs(c)
                    /\ Elev[c] < Elev[f.col] + Downhill
                    /\ t - f.start \in Lags["FL"]

\* The hours events may start at.
AfterWarmUp == {t \in Nat : t >= Warm}

\* A place a flood has come to, and when.
Arrival == [col : Column, start : AfterWarmUp]

\* What holds of the events, the flood under way and the labels until the corpus is
\* forgotten.
CorpusInv ==
    /\ \A e \in events : e.start \in AfterWarmUp
    /\ \A e \in events : e.hazard = "FL" => Origin(events, e.col, e.start)
    /\ flood = NoFlood \/ flood.frontier # <<>>
    /\ flood \in [frontier : Seq(Arrival), seen : SUBSET Column, dur : Nat]
    /\ \A i \in DOMAIN flood.frontier : Origin(events, flood.frontier[i].col, flood.frontier[i].start)
    /\ stage # "corpus" => flood = NoFlood
    /\ stage = "corpus" => labels = <<>>
    /\ labels # <<>> => LabelsAreForecasts /\ \A c \in Column, o \in Output : labels[c][o] \subseteq 0 .. Hours - 1

\* An hour that a hazard may start at lies after the warm-up.
LEMMA Starts ==
    /\ \A h \in TRAINED_HEADS : \A s \in start(h) : s \in AfterWarmUp
    /\ \A h \in TRAINED_HEADS : \A s \in AfterWarmUp, d \in Lags[h] : s + d \in AfterWarmUp
    /\ \A k \in Column, s \in AfterWarmUp : s + Crossing[k] \in AfterWarmUp
<1>1. /\ Warm \in Nat /\ Hours \in Nat
      /\ \A h \in TRAINED_HEADS : Lead[h] \in Nat /\ Margin[h] \in Nat /\ Lags[h] \subseteq Nat
      /\ \A k \in Column : Crossing[k] \in Nat
  BY CorpusAssumption
<1>2. ASSUME NEW h \in TRAINED_HEADS, NEW s \in start(h)
      PROVE  s \in AfterWarmUp
  <2>1. Lead[h] \in Nat /\ Margin[h] \in Nat
    BY <1>1
  <2> QED
    BY <1>1, <2>1 DEF start, AfterWarmUp
<1>3. ASSUME NEW h \in TRAINED_HEADS, NEW s \in AfterWarmUp, NEW d \in Lags[h]
      PROVE  s + d \in AfterWarmUp
  <2>1. d \in Nat
    BY <1>1
  <2> QED
    BY <1>1, <2>1 DEF AfterWarmUp
<1>4. ASSUME NEW k \in Column, NEW s \in AfterWarmUp
      PROVE  s + Crossing[k] \in AfterWarmUp
  <2>1. Crossing[k] \in Nat
    BY <1>1
  <2> QED
    BY <1>1, <2>1 DEF AfterWarmUp
<1> QED
  BY <1>2, <1>3, <1>4

\* More events do not take an origin away.
LEMMA OriginKept ==
    ASSUME NEW E, NEW F, E \subseteq F, NEW c, NEW t, Origin(E, c, t)
    PROVE  Origin(F, c, t)
  BY DEF Origin

\* Events of another hazard than a flood are added.
LEMMA InjectKeeps ==
    ASSUME CorpusInv, stage = "corpus", stage' = stage, NEW E, Inject(E),
           \A e \in E : e.start \in AfterWarmUp /\ e.hazard # "FL"
    PROVE  CorpusInv'
<1>1. events' = events \union E /\ flood' = flood /\ labels' = labels
  BY DEF Inject
<1>2. \A e \in events' : e.start \in AfterWarmUp
  BY <1>1 DEF CorpusInv
<1>3. \A e \in events' : e.hazard = "FL" => Origin(events', e.col, e.start)
  BY <1>1, OriginKept DEF CorpusInv
<1>4. \A i \in DOMAIN flood.frontier : Origin(events', flood.frontier[i].col, flood.frontier[i].start)
  BY <1>1, OriginKept DEF CorpusInv
<1>5. labels' = <<>>
  BY <1>1 DEF CorpusInv
<1>6. flood = NoFlood \/ flood.frontier # <<>>
  BY DEF CorpusInv
<1>7. flood \in [frontier : Seq(Arrival), seen : SUBSET Column, dur : Nat]
  BY DEF CorpusInv
<1>8. (\A e \in events : e.hazard = "FL" => Origin(events, e.col, e.start))'
  BY <1>3 DEF Origin, Upstream, nbrs
<1>9. (\A i \in DOMAIN flood.frontier : Origin(events, flood.frontier[i].col, flood.frontier[i].start))'
  BY <1>1, <1>4
<1> QED
  BY <1>1, <1>2, <1>5, <1>6, <1>7, <1>8, <1>9 DEF CorpusInv

\* The columns that a flood reaches from f, and what they add to the frontier.
Reached(f) == {j \in nbrs(f.col) \ flood.seen : Elev[j] < Elev[f.col] + Downhill}
Arrivals(f, new, lag) ==
    [i \in 1 .. Cardinality(new) |-> LET j == Ascending(new)[i] IN [col |-> j, start |-> f.start + lag[j]]]

\* A flood that moves on leaves an event at its column, from which the columns that
\* join the frontier have it, later.
LEMMA SpreadKeeps ==
    ASSUME CorpusInv, stage = "corpus", stage' = stage, SpreadFlood
    PROVE  CorpusInv'
<1> DEFINE f == Head(flood.frontier)
           T == Tail(flood.frontier)
           new == Reached(f)
           e == Event("FL", f.col, f.start, Min({Hours, f.start + flood.dur}))
           N == Cardinality(new)
<1>0. /\ events' = events \union {e} /\ UNCHANGED <<seeds, labels>>
      /\ flood # NoFlood
      /\ \E lag \in [new -> Lags["FL"]] :
             flood' = IF T \o Arrivals(f, new, lag) = <<>> THEN NoFlood
                      ELSE [flood EXCEPT !.frontier = T \o Arrivals(f, new, lag), !.seen = @ \union new]
  BY Zenon DEF SpreadFlood, Reached, Arrivals
<1>1. /\ flood.frontier \in Seq(Arrival) /\ flood.frontier # <<>> /\ labels = <<>>
      /\ flood \in [frontier : Seq(Arrival), seen : SUBSET Column, dur : Nat]
  BY <1>0 DEF CorpusInv
<1>2. /\ f = flood.frontier[1] /\ 1 \in DOMAIN flood.frontier
      /\ T \in Seq(Arrival) /\ Len(T) = Len(flood.frontier) - 1 /\ Len(T) \in Nat
      /\ \A i \in 1 .. Len(T) : i + 1 \in DOMAIN flood.frontier /\ T[i] = flood.frontier[i + 1]
  BY <1>1
<1>3. f \in Arrival /\ Origin(events, f.col, f.start)
  <2>1. f \in Arrival
    BY <1>1, <1>2
  <2>2. \A i \in DOMAIN flood.frontier : Origin(events, flood.frontier[i].col, flood.frontier[i].start)
    BY DEF CorpusInv
  <2> HIDE DEF f
  <2> QED
    BY <1>2, <2>1, <2>2
<1>t. f.col \in Column /\ f.start \in AfterWarmUp
  BY <1>3 DEF Arrival
<1>5. e.hazard = "FL" /\ e.col = f.col /\ e.start = f.start
  BY DEF Event
<1> HIDE DEF f, T, e
<1>4. \A j : j \in new <=> j \in nbrs(f.col) /\ j \notin flood.seen /\ Elev[j] < Elev[f.col] + Downhill
  BY DEF Reached
<1> HIDE DEF new
<1>8. new \subseteq Column /\ IsFiniteSet(new) /\ N \in Nat /\ new \in SUBSET Int
  <2>1. new \subseteq Column
    BY <1>4 DEF nbrs
  <2>2. IsFiniteSet(new)
    BY <2>1, CorpusAssumption, FS_Subset
  <2>3. new \in SUBSET Int
    BY <2>1, CorpusAssumption
  <2> QED
    BY <2>1, <2>2, <2>3, FS_CardinalityType
<1>7. PICK lag \in [new -> Lags["FL"]] :
          flood' = IF T \o Arrivals(f, new, lag) = <<>> THEN NoFlood
                   ELSE [flood EXCEPT !.frontier = T \o Arrivals(f, new, lag), !.seen = @ \union new]
  BY <1>0
<1> DEFINE more == Arrivals(f, new, lag)
           front == T \o more
<1>g. flood' = IF front = <<>> THEN NoFlood ELSE [flood EXCEPT !.frontier = front, !.seen = @ \union new]
  BY <1>7
<1>9. \A i \in 1 .. N : Ascending(new)[i] \in new
  BY <1>8, AscendingLists
<1>10. \A j \in new : j \in Column /\ lag[j] \in Lags["FL"] /\ f.start + lag[j] \in AfterWarmUp
                        /\ (f.start + lag[j]) - f.start \in Lags["FL"]
  <2> SUFFICES ASSUME NEW j \in new
               PROVE  /\ j \in Column /\ lag[j] \in Lags["FL"] /\ f.start + lag[j] \in AfterWarmUp
                      /\ (f.start + lag[j]) - f.start \in Lags["FL"]
    OBVIOUS
  <2>1. lag[j] \in Lags["FL"] /\ "FL" \in TRAINED_HEADS
    BY <1>7 DEF TRAINED_HEADS, HEADS
  <2>2. lag[j] \in Nat
    BY <2>1, CorpusAssumption
  <2>3. f.start \in AfterWarmUp /\ f.start \in Nat
    BY <1>t DEF AfterWarmUp
  <2>4. (f.start + lag[j]) - f.start = lag[j]
    BY <2>2, <2>3
  <2>5. f.start + lag[j] \in AfterWarmUp
    BY <2>1, <2>3, Starts
  <2> QED
    BY <1>8, <2>1, <2>4, <2>5
<1>11. \A j \in new : Origin(events', j, f.start + lag[j])
  <2> SUFFICES ASSUME NEW j \in new
               PROVE  Origin(events', j, f.start + lag[j])
    OBVIOUS
  <2>1. e \in events'
    BY <1>0
  <2>2. f.col \in nbrs(j) /\ Elev[j] < Elev[f.col] + Downhill
    <3>1. j \in Column /\ f.col \in Column /\ Adj[f.col][j] > 0
      BY <1>t, <1>4, <1>8 DEF nbrs
    <3> QED
      BY <1>4, <3>1, AdjSymmetric DEF nbrs
  <2> QED
    BY <1>5, <1>10, <2>1, <2>2 DEF Origin
<1>12. /\ more = [i \in 1 .. N |-> more[i]]
       /\ \A i \in 1 .. N : more[i] = [col |-> Ascending(new)[i], start |-> f.start + lag[Ascending(new)[i]]]
  BY DEF Arrivals
<1> HIDE DEF more, N
<1>13. \A i \in 1 .. N : more[i] \in Arrival /\ Origin(events', more[i].col, more[i].start)
  <2> SUFFICES ASSUME NEW i \in 1 .. N
               PROVE  more[i] \in Arrival /\ Origin(events', more[i].col, more[i].start)
    OBVIOUS
  <2>1. PICK j \in new : j = Ascending(new)[i]
    BY <1>9
  <2>2. more[i] = [col |-> j, start |-> f.start + lag[j]]
    BY <1>12, <2>1
  <2>3. more[i].col = j /\ more[i].start = f.start + lag[j] /\ more[i] \in Arrival
    BY <1>10, <2>1, <2>2 DEF Arrival
  <2> QED
    BY <1>11, <2>1, <2>3
<1>14. more \in Seq(Arrival) /\ Len(more) = N /\ DOMAIN more = 1 .. N
  BY <1>8, <1>12, <1>13
<1>16. \A i \in 1 .. Len(T) : Origin(events', T[i].col, T[i].start)
  <2>1. \A i \in DOMAIN flood.frontier : Origin(events, flood.frontier[i].col, flood.frontier[i].start)
    BY DEF CorpusInv
  <2> QED
    BY <1>0, <1>2, <2>1, OriginKept
<1>17. front \in Seq(Arrival) /\ \A i \in DOMAIN front : Origin(events', front[i].col, front[i].start)
  <2>1. front \in Seq(Arrival)
    BY <1>14, <1>2
  <2>2. DOMAIN front = 1 .. Len(T) + N
    BY <1>14, <1>2
  <2> SUFFICES ASSUME NEW i \in 1 .. Len(T) + N
               PROVE  Origin(events', front[i].col, front[i].start)
    BY <2>1, <2>2
  <2>3. CASE i \in 1 .. Len(T)
    <3>1. front[i] = T[i]
      BY <1>14, <1>2, <2>3
    <3> QED
      BY <1>16, <2>3, <3>1
  <2>4. CASE i \notin 1 .. Len(T)
    <3>0. Len(T) \in Nat /\ N \in Nat /\ i \in 1 .. Len(T) + N /\ i > Len(T)
      BY <1>8, <1>2, <2>4 DEF N
    <3>1. front[i] = more[i - Len(T)] /\ i - Len(T) \in 1 .. N
      BY <3>0, <1>14, <1>2
    <3> QED
      BY <1>13, <3>1
  <2> QED
    BY <2>3, <2>4
<1>18. /\ flood' = NoFlood \/ flood'.frontier # <<>>
       /\ flood' \in [frontier : Seq(Arrival), seen : SUBSET Column, dur : Nat]
       /\ \A i \in DOMAIN flood'.frontier : Origin(events', flood'.frontier[i].col, flood'.frontier[i].start)
  <2>1. CASE front = <<>>
    <3>1. flood' = NoFlood
      BY <1>g, <2>1
    <3> QED
      BY <3>1 DEF NoFlood
  <2>2. CASE front # <<>>
    <3>1. flood'.frontier = front /\ flood' \in [frontier : Seq(Arrival), seen : SUBSET Column, dur : Nat]
      <4>1. flood' = [flood EXCEPT !.frontier = front, !.seen = flood.seen \union new]
        BY <1>g, <2>2
      <4> HIDE DEF front
      <4> QED
        BY <1>1, <1>8, <1>17, <4>1
    <3> QED
      BY <1>17, <2>2, <3>1
  <2> QED
    BY <2>1, <2>2
<1>19. e.start \in AfterWarmUp /\ Origin(events, e.col, e.start)
  BY <1>3, <1>t, <1>5
<1>20. \A x \in events' : x.start \in AfterWarmUp /\ (x.hazard = "FL" => Origin(events', x.col, x.start))
  <2> SUFFICES ASSUME NEW x \in events'
               PROVE  x.start \in AfterWarmUp /\ (x.hazard = "FL" => Origin(events', x.col, x.start))
    OBVIOUS
  <2>1. x.start \in AfterWarmUp /\ (x.hazard = "FL" => Origin(events, x.col, x.start))
    BY <1>0, <1>19 DEF CorpusInv
  <2> QED
    BY <1>0, <2>1, OriginKept
<1>21. (\A x \in events : x.hazard = "FL" => Origin(events, x.col, x.start))'
  BY <1>20
<1> QED
  BY <1>1, <1>0, <1>18, <1>20, <1>21 DEF CorpusInv

\* How far the count of active hours has come tells whether one lies in between.
LEMMA CountsBetween ==
    ASSUME NEW A, IsFiniteSet(A), A \subseteq Nat, NEW i \in Nat, NEW j \in Nat, i <= j
    PROVE  cs(A, j) - cs(A, i) > 0 <=> \E u \in A : i <= u /\ u < j
<1> DEFINE I == {u \in A : u < i}
           J == {u \in A : u < j}
<1>1. IsFiniteSet(J) /\ Cardinality(J) \in Nat
  BY FS_Subset, FS_CardinalityType
<1>2. I \in SUBSET J
  <2> SUFFICES ASSUME NEW u \in A, u < i
               PROVE  u < j
    OBVIOUS
  <2> QED
    OBVIOUS
<1>3. Cardinality(I) \in Nat /\ Cardinality(I) <= Cardinality(J) /\ (Cardinality(J) = Cardinality(I) => J = I)
  <2> HIDE DEF I, J
  <2> QED
    BY <1>1, <1>2, FS_Subset, FS_CardinalityType
<1>4. cs(A, j) - cs(A, i) > 0 <=> Cardinality(I) # Cardinality(J)
  <2>1. cs(A, j) = Cardinality(J) /\ cs(A, i) = Cardinality(I)
    BY DEF cs
  <2> HIDE DEF I, J
  <2> QED
    BY <1>1, <1>3, <2>1
<1>5. Cardinality(I) # Cardinality(J) <=> \E u \in J : u \notin I
  <2> HIDE DEF I, J
  <2> QED
    BY <1>2, <1>3
<1> QED
  BY <1>4, <1>5

\* A label is positive where it says it is.
LEMMA LabelIsForecast ==
    ASSUME NEW A, A \subseteq 0 .. Hours - 1, NEW hz \in Nat, NEW t \in 0 .. Hours - 1
    PROVE  label(A, hz, t) <=> \E u \in IF hz = 0 THEN {t} ELSE t + 1 .. t + hz : u \in A
<1>0. Hours \in Nat \ {0} /\ t \in Nat
  BY CorpusAssumption
<1>1. CASE hz = 0
  BY <1>1 DEF label
<1>2. CASE hz # 0
  <2> DEFINE m == IF t + hz + 1 <= Hours THEN t + hz + 1 ELSE Hours
  <2>1. Min({t + hz + 1, Hours}) = m
    BY <1>0, MinOfTwo
  <2>2. m \in Nat /\ t + 1 \in Nat /\ t + 1 <= m
    BY <1>0
  <2>3. IsFiniteSet(A) /\ A \subseteq Nat
    <3>1. IsFiniteSet(0 .. Hours - 1)
      BY <1>0, FS_Interval
    <3>2. \A x \in 0 .. Hours - 1 : x \in Nat
      BY <1>0
    <3> QED
      BY <3>1, <3>2, FS_Subset
  <2>4. label(A, hz, t) <=> cs(A, m) - cs(A, t + 1) > 0
    BY <1>2, <2>1 DEF label
  <2>5. label(A, hz, t) <=> \E u \in A : t + 1 <= u /\ u < m
    <3> HIDE DEF m
    <3> QED
      BY <2>2, <2>3, <2>4, CountsBetween
  <2>6. \A u \in A : (t + 1 <= u /\ u < m) <=> u \in t + 1 .. t + hz
    <3> SUFFICES ASSUME NEW u \in 0 .. Hours - 1
                 PROVE  (t + 1 <= u /\ u < m) <=> u \in t + 1 .. t + hz
      OBVIOUS
    <3> QED
      BY <1>0
  <2> QED
    BY <1>2, <2>5, <2>6
<1> QED
  BY <1>1, <1>2

\* Every output has a hazard and a horizon.
LEMMA OutputsAre ==
    \A o \in Output : o[1] \in HEADS /\ o[2] \in Nat
<1> SUFFICES ASSUME NEW h \in HEADS, NEW o \in {h} \X Horizons[h]
             PROVE  o[1] \in HEADS /\ o[2] \in Nat
  BY DEF Output
<1>1. Horizons[h] \subseteq Nat
  BY CorpusAssumption
<1> QED
  BY <1>1

\* The labels are of the hours of the record, and they are forecasts.
LEMMA LabelsComputed ==
    ASSUME make_labels
    PROVE  LabelsAreForecasts' /\ (\A c \in Column, o \in Output : labels[c][o] \subseteq 0 .. Hours - 1)'
<1>1. ASSUME NEW c \in Column, NEW o \in Output
      PROVE  labels'[c][o] = {t \in 0 .. Hours - 1 : label(active(o[1], c), o[2], t)}
  BY <1>1 DEF make_labels
<1>2. ASSUME NEW c \in Column, NEW o \in Output, NEW t \in 0 .. Hours - 1
      PROVE  t \in labels'[c][o] <=>
                 \E e \in events, u \in IF o[2] = 0 THEN {t} ELSE t + 1 .. t + o[2] :
                     e.hazard = o[1] /\ e.col = c /\ e.start <= u /\ u < e.end /\ u < Hours
  <2> DEFINE A == active(o[1], c)
  <2>0. o[2] \in Nat /\ Hours \in Nat /\ t \in Nat /\ t < Hours
    BY OutputsAre, CorpusAssumption
  <2>1. A \subseteq 0 .. Hours - 1
    BY DEF active
  <2>2. t \in labels'[c][o] <=> label(A, o[2], t)
    <3> HIDE DEF A
    <3>1. labels'[c][o] = {i \in 0 .. Hours - 1 : label(A, o[2], i)}
      BY <1>1 DEF A
    <3> QED
      BY <3>1
  <2>3. t \in labels'[c][o] <=> \E u \in IF o[2] = 0 THEN {t} ELSE t + 1 .. t + o[2] : u \in A
    <3> HIDE DEF A
    <3> QED
      BY <2>0, <2>1, <2>2, LabelIsForecast
  <2>4. \A u \in IF o[2] = 0 THEN {t} ELSE t + 1 .. t + o[2] :
            u \in A <=> \E e \in events : e.hazard = o[1] /\ e.col = c /\ e.start <= u /\ u < e.end /\ u < Hours
    <3> SUFFICES ASSUME NEW u \in IF o[2] = 0 THEN {t} ELSE t + 1 .. t + o[2]
                 PROVE  u \in A <=> \E e \in events : e.hazard = o[1] /\ e.col = c /\ e.start <= u /\ u < e.end /\ u < Hours
      OBVIOUS
    <3>1. u \in 0 .. Hours - 1 <=> u < Hours
      BY <2>0
    <3> QED
      BY <3>1 DEF active
  <2> HIDE DEF A
  <2> QED
    BY <2>3, <2>4
<1>3. events' = events
  BY DEF make_labels
<1> QED
  BY <1>1, <1>2, <1>3 DEF LabelsAreForecasts

\* No hazard but the flood adds events of a flood, and none starts in the warm-up.
LEMMA InjectionsKeep ==
    ASSUME CorpusInv, stage = "corpus", stage' = stage,
           FlashFlood \/ Fire \/ Pollution \/ Landslide \/ HeatWave \/ Cyclone
    PROVE  CorpusInv'
<1> DEFINE Quiet(E) == \A e \in E : e.start \in AfterWarmUp /\ e.hazard # "FL"
<1>0. /\ \A h \in {"UF", "FI", "PO", "LS", "HW", "CY"} : h \in TRAINED_HEADS /\ h # "FL"
      /\ \A h, k, s, d : Event(h, k, s, d).hazard = h /\ Event(h, k, s, d).start = s
  BY DEF TRAINED_HEADS, HEADS, Event
<1>1. CASE FlashFlood
  <2>k. PICK k : \E s \in start("UF"), d \in Durations["UF"], spilt \in SUBSET nbrs(k) :
                     \E lag \in [spilt -> Lags["UF"]] :
                         Inject({Event("UF", k, s, s + d)} \union {Event("UF", j, s + lag[j], s + d + 1) : j \in spilt})
    BY <1>1, Zenon DEF FlashFlood
  <2>0. PICK s \in start("UF"), d \in Durations["UF"], spilt \in SUBSET nbrs(k) :
            \E lag \in [spilt -> Lags["UF"]] :
                Inject({Event("UF", k, s, s + d)} \union {Event("UF", j, s + lag[j], s + d + 1) : j \in spilt})
    BY <2>k
  <2>1. PICK lag \in [spilt -> Lags["UF"]] :
            Inject({Event("UF", k, s, s + d)} \union {Event("UF", j, s + lag[j], s + d + 1) : j \in spilt})
    BY <2>0
  <2>2. s \in AfterWarmUp /\ \A j \in spilt : s + lag[j] \in AfterWarmUp
    <3>1. s \in AfterWarmUp /\ \A j \in spilt : lag[j] \in Lags["UF"]
      BY <1>0, Starts
    <3> QED
      BY <1>0, <3>1, Starts
  <2>3. Quiet({Event("UF", k, s, s + d)} \union {Event("UF", j, s + lag[j], s + d + 1) : j \in spilt})
    BY <1>0, <2>2
  <2> QED
    BY <2>1, <2>3, InjectKeeps
<1>2. CASE Fire
  <2>k. PICK k : \E s \in start("FI"), d \in Durations["FI"], spread \in SUBSET {j \in nbrs(k) : Elev[j] + Uphill >= Elev[k]} :
                     \E lag \in [spread -> Lags["FI"]] :
                         Inject({Event("FI", k, s, s + d)} \union {Event("FI", j, s + lag[j], s + lag[j] + d) : j \in spread})
    BY <1>2, Zenon DEF Fire
  <2>0. PICK s \in start("FI"), d \in Durations["FI"], spread \in SUBSET {j \in nbrs(k) : Elev[j] + Uphill >= Elev[k]} :
            \E lag \in [spread -> Lags["FI"]] :
                Inject({Event("FI", k, s, s + d)} \union {Event("FI", j, s + lag[j], s + lag[j] + d) : j \in spread})
    BY <2>k
  <2>1. PICK lag \in [spread -> Lags["FI"]] :
            Inject({Event("FI", k, s, s + d)} \union {Event("FI", j, s + lag[j], s + lag[j] + d) : j \in spread})
    BY <2>0
  <2>2. s \in AfterWarmUp /\ \A j \in spread : s + lag[j] \in AfterWarmUp
    <3>1. s \in AfterWarmUp /\ \A j \in spread : lag[j] \in Lags["FI"]
      BY <1>0, Starts
    <3> QED
      BY <1>0, <3>1, Starts
  <2>3. Quiet({Event("FI", k, s, s + d)} \union {Event("FI", j, s + lag[j], s + lag[j] + d) : j \in spread})
    BY <1>0, <2>2
  <2> QED
    BY <2>1, <2>3, InjectKeeps
<1>3. CASE Pollution
  <2>1. PICK s \in start("PO"), d \in Durations["PO"], off \in [Column -> Lags["PO"]] :
            Inject({Event("PO", k, s + off[k], s + off[k] + d) : k \in Column})
    BY <1>3, Zenon DEF Pollution
  <2>2. \A k \in Column : s + off[k] \in AfterWarmUp
    <3>1. s \in AfterWarmUp /\ \A k \in Column : off[k] \in Lags["PO"]
      BY <1>0, Starts
    <3> QED
      BY <1>0, <3>1, Starts
  <2>3. Quiet({Event("PO", k, s + off[k], s + off[k] + d) : k \in Column})
    BY <1>0, <2>2
  <2> QED
    BY <2>1, <2>3, InjectKeeps
<1>4. CASE Landslide
  <2>k. PICK k : \E s \in start("LS"), d \in Durations["LS"] : Inject({Event("LS", k, s, s + d)})
    BY <1>4, Zenon DEF Landslide
  <2>1. PICK s \in start("LS"), d \in Durations["LS"] : Inject({Event("LS", k, s, s + d)})
    BY <2>k
  <2>2. Quiet({Event("LS", k, s, s + d)})
    BY <1>0, <2>1, Starts
  <2> QED
    BY <2>1, <2>2, InjectKeeps
<1>5. CASE HeatWave
  <2>1. PICK s \in start("HW"), d \in Durations["HW"] : Inject({Event("HW", k, s, s + d) : k \in Column})
    BY <1>5, Zenon DEF HeatWave
  <2>2. Quiet({Event("HW", k, s, s + d) : k \in Column})
    BY <1>0, <2>1, Starts
  <2> QED
    BY <2>1, <2>2, InjectKeeps
<1>6. CASE Cyclone
  <2>1. PICK s \in start("CY"), d \in Durations["CY"] :
            Inject({Event("CY", k, s + Crossing[k], s + Crossing[k] + d) : k \in Column})
    BY <1>6, Zenon DEF Cyclone
  <2>2. \A k \in Column : s + Crossing[k] \in AfterWarmUp
    BY <1>0, <2>1, Starts
  <2>3. Quiet({Event("CY", k, s + Crossing[k], s + Crossing[k] + d) : k \in Column})
    BY <1>0, <2>2
  <2> QED
    BY <2>1, <2>3, InjectKeeps
<1> QED
  BY <1>1, <1>2, <1>3, <1>4, <1>5, <1>6

\* The first columns by a height are columns.
LEMMA FirstByChooses ==
    ASSUME NEW S \in SUBSET Column, NEW height \in [Column -> Nat], NEW n \in 0 .. Cardinality(S)
    PROVE  FirstBy(S, height, n) \subseteq S
<1> DEFINE g == [k \in S |-> height[k]]
           s == ByWeight(g)
<1>1. S \in SUBSET Nat /\ IsFiniteSet(S) /\ Cardinality(S) \in Nat
  BY CorpusAssumption, FS_Subset, FS_CardinalityType
<1>2. g \in [S -> Nat]
  OBVIOUS
<1>3. FirstBy(S, height, n) = Range(SubSeq(s, 1, n))
  BY DEF FirstBy
<1> HIDE DEF g
<1>4. s \in [1 .. Cardinality(S) -> S]
  BY <1>1, <1>2, ByWeightLists
<1> HIDE DEF s
<1>5. SubSeq(s, 1, n) \in Seq(S)
  <2>1. s \in Seq(S) /\ Len(s) = Cardinality(S)
    BY <1>1, <1>4
  <2>2. \A i \in 1 .. n : s[i] \in S
    BY <1>1, <1>4
  <2> QED
    BY <1>1, <2>1, <2>2
<1> QED
  BY <1>3, <1>5 DEF Range

\* Half of a set, or the one element it has.
LEMMA HalfOf ==
    ASSUME NEW n \in Nat \ {0}
    PROVE  Max({1, n \div 2}) \in 0 .. n
<1>1. n \div 2 \in Nat /\ n \div 2 <= n
  OBVIOUS
<1>2. Max({1, n \div 2}) = IF 1 >= n \div 2 THEN 1 ELSE n \div 2
  BY <1>1, MaxOfTwo
<1> QED
  BY <1>1, <1>2

\* A source is a column.
LEMMA SourcesAreColumns == Upstream \subseteq Column
<1> DEFINE P == {"riverine", "village", "urban"}
           valley == Among(P)
           half == Max({1, Cardinality(valley) \div 2})
<1>1. valley \subseteq Column /\ valley # {}
  <2> HIDE DEF P
  <2> QED
    BY CorpusAssumption, Zenon DEF Among
<1>2. Upstream = FirstBy(valley, Elev, half)
  BY DEF Upstream
<1> HIDE DEF valley
<1>3. Cardinality(valley) \in Nat \ {0}
  BY <1>1, CorpusAssumption, FS_Subset, FS_CardinalityType, FS_EmptySet
<1>4. half \in 0 .. Cardinality(valley)
  BY <1>3, HalfOf
<1>5. Elev \in [Column -> Nat]
  BY CorpusAssumption
<1> HIDE DEF half
<1> QED
  BY <1>1, <1>2, <1>4, <1>5, FirstByChooses

\* A flood begins at a source.
LEMMA SeedKeeps ==
    ASSUME CorpusInv, stage = "corpus", stage' = stage, SeedFlood
    PROVE  CorpusInv'
<1>1. PICK k \in Upstream, s \in start("FL"), d \in Durations["FL"] :
          flood' = [frontier |-> <<[col |-> k, start |-> s]>>, seen |-> {k}, dur |-> d]
  BY DEF SeedFlood
<1>2. events' = events /\ labels' = labels
  BY DEF SeedFlood
<1>3. "FL" \in TRAINED_HEADS /\ d \in Nat /\ s \in AfterWarmUp
  <2>1. "FL" \in TRAINED_HEADS
    BY DEF TRAINED_HEADS, HEADS
  <2> QED
    BY <2>1, CorpusAssumption, Starts
<1>4. PICK a : a = [col |-> k, start |-> s]
  OBVIOUS
<1>5. a \in Arrival /\ a.col = k /\ a.start = s
  BY <1>3, <1>4, SourcesAreColumns DEF Arrival
<1>6. flood' = [frontier |-> <<a>>, seen |-> {k}, dur |-> d]
  BY <1>1, <1>4
<1>7. flood' \in [frontier : Seq(Arrival), seen : SUBSET Column, dur : Nat] /\ flood'.frontier = <<a>>
  BY <1>3, <1>5, <1>6, SourcesAreColumns
<1>8. Origin(events', a.col, a.start)
  BY <1>5 DEF Origin
<1>9. \A i \in DOMAIN flood'.frontier : Origin(events', flood'.frontier[i].col, flood'.frontier[i].start)
  BY <1>7, <1>8
<1>10. labels = <<>> /\ \A e \in events : e.start \in AfterWarmUp /\ (e.hazard = "FL" => Origin(events, e.col, e.start))
  BY DEF CorpusInv
<1>11. (\A e \in events : e.hazard = "FL" => Origin(events, e.col, e.start))'
  BY <1>2, <1>10
<1> QED
  BY <1>2, <1>7, <1>9, <1>10, <1>11 DEF CorpusInv

LEMMA CorpusStep == CorpusInv /\ [ReleaseNext]_vars => CorpusInv'
<1> SUFFICES ASSUME CorpusInv, [ReleaseNext]_vars
             PROVE  CorpusInv'
  OBVIOUS
<1>1. CASE UNCHANGED <<corpus_vars, stage>>
  BY <1>1 DEF corpus_vars, CorpusInv, LabelsAreForecasts, Origin
<1>2. CASE GenerateEvents
  <2>1. stage = "corpus" /\ stage' = stage /\ inject_events
    BY <1>2 DEF GenerateEvents, train_vars
  <2> QED
    BY <2>1, SeedKeeps, SpreadKeeps, InjectionsKeep DEF inject_events
<1>3. CASE LabelCorpus
  <2>1. make_labels /\ stage' = "split" /\ UNCHANGED <<events, flood>> /\ flood = NoFlood
    BY <1>3 DEF LabelCorpus, make_labels
  <2>2. LabelsAreForecasts' /\ (\A c \in Column, o \in Output : labels[c][o] \subseteq 0 .. Hours - 1)'
    BY <2>1, LabelsComputed
  <2>3. (\A e \in events : e.hazard = "FL" => Origin(events, e.col, e.start))'
    BY <2>1 DEF CorpusInv, Origin
  <2>4. (\A i \in DOMAIN flood.frontier : Origin(events, flood.frontier[i].col, flood.frontier[i].start))'
    BY <2>1 DEF CorpusInv, Origin
  <2> QED
    BY <2>1, <2>2, <2>3, <2>4 DEF CorpusInv
<1>4. CASE Split
  <2>1. stage' = "phase1" /\ events' = {} /\ labels' = <<>> /\ flood' = flood /\ flood = NoFlood
    BY <1>4 DEF Split, CorpusInv
  <2>2. flood \in [frontier : Seq(Arrival), seen : SUBSET Column, dur : Nat]
    BY DEF CorpusInv
  <2>3. DOMAIN flood'.frontier = {}
    BY <2>1 DEF NoFlood
  <2> QED
    BY <2>1, <2>2, <2>3 DEF CorpusInv
<1>5. CASE UNCHANGED corpus_vars /\ stage # "corpus" /\ stage' # "corpus"
  BY <1>5 DEF corpus_vars, CorpusInv, LabelsAreForecasts, Origin
<1>6. \/ UNCHANGED <<corpus_vars, stage>> \/ GenerateEvents \/ LabelCorpus \/ Split
      \/ UNCHANGED corpus_vars /\ stage # "corpus" /\ stage' # "corpus"
  <2>1. CASE UNCHANGED vars
    BY <2>1 DEF vars, train_vars
  <2>2. CASE UNCHANGED <<corpus_vars, train_vars>>
    BY <2>2 DEF train_vars
  <2>3. CASE /\ \/ RestoreBest \/ EmbedAll \/ GraphEpoch \/ EndGraph \/ FitTemperatures
                \/ CalibrateThresholds \/ ExportFile \/ AbortExport
                \/ \E vloss \in Loss \union {NaN} : StandaloneEpoch(vloss)
             /\ UNCHANGED corpus_vars
    <3>1. stage # "corpus"
      BY <2>3, Zenon DEF RestoreBest, EmbedAll, GraphEpoch, EndGraph, FitTemperatures,
             CalibrateThresholds, ExportFile, AbortExport, StandaloneEpoch
    <3>2. stage' \in {stage, "embed", "phase2", "temperatures", "thresholds", "export", "end"}
      <4>1. CASE RestoreBest \/ EmbedAll \/ GraphEpoch \/ EndGraph \/ FitTemperatures \/ CalibrateThresholds
        BY <4>1, Zenon DEF RestoreBest, EmbedAll, GraphEpoch, EndGraph, FitTemperatures, CalibrateThresholds
      <4>2. CASE ExportFile \/ AbortExport
        BY <4>2 DEF ExportFile, AbortExport, ProcessEnds
      <4>3. CASE \E vloss \in Loss \union {NaN} : StandaloneEpoch(vloss)
        BY <4>3, Zenon DEF StandaloneEpoch
      <4> QED
        BY <2>3, <4>1, <4>2, <4>3
    <3> QED
      BY <2>3, <3>1, <3>2
  <2> QED
    BY <2>1, <2>2, <2>3 DEF ReleaseNext, TrainNext
<1> QED
  BY <1>1, <1>2, <1>3, <1>4, <1>5, <1>6

\* Whatever the corpus: its labels are forecasts of its events, the warm-up is free of
\* them, and a flood at a column that is not a source came down from a neighbour, later
\* (_inject_events and _labels).
THEOREM CorpusTheorem == ReleaseSpec => []CorpusIsSound
<1>1. ReleaseInit => CorpusInv
  BY DEF ReleaseInit, TrainInit, CorpusInit, CorpusInv, NoFlood
<1>2. CorpusInv => CorpusIsSound
  <2> SUFFICES ASSUME CorpusInv, labels # <<>>
               PROVE  LabelsAreForecasts /\ WarmUpIsQuiet /\ FloodsComeDown
    BY DEF CorpusIsSound
  <2>1. LabelsAreForecasts /\ \A c \in Column, o \in Output : labels[c][o] \subseteq 0 .. Hours - 1
    BY DEF CorpusInv
  <2>2. WarmUpIsQuiet
    <3> SUFFICES ASSUME NEW c \in Column, NEW o \in Output, NEW t \in labels[c][o]
                 PROVE  t + o[2] >= Warm
      BY DEF WarmUpIsQuiet
    <3>1. t \in 0 .. Hours - 1 /\ Hours \in Nat /\ Warm \in Nat /\ o[2] \in Nat
      BY <2>1, CorpusAssumption, OutputsAre
    <3>e. \E e \in events, u \in IF o[2] = 0 THEN {t} ELSE t + 1 .. t + o[2] :
              e.hazard = o[1] /\ e.col = c /\ e.start <= u /\ u < e.end /\ u < Hours
      BY <2>1, <3>1, Zenon DEF LabelsAreForecasts
    <3>2. PICK e \in events, u \in IF o[2] = 0 THEN {t} ELSE t + 1 .. t + o[2] : e.start <= u
      BY <3>e
    <3>3. e.start \in Nat /\ e.start >= Warm
      BY <3>2 DEF CorpusInv, AfterWarmUp
    <3>4. u \in Nat /\ u <= t + o[2]
      BY <3>1, <3>2
    <3> QED
      BY <3>1, <3>2, <3>3, <3>4
  <2>3. FloodsComeDown
    <3>1. \A e \in events : e.hazard = "FL" => Origin(events, e.col, e.start)
      BY DEF CorpusInv
    <3> QED
      BY <3>1 DEF FloodsComeDown, Origin
  <2> QED
    BY <2>1, <2>2, <2>3
<1> QED
  BY <1>1, <1>2, CorpusStep, PTL DEF ReleaseSpec

-----------------------------------------------------------------------------
(* The thresholds *)

\* A split with a precision-recall curve has positives and a score of its own.
LEMMA CurveNumbers ==
    ASSUME NEW S \in Samples
    PROVE  /\ Count(S.pos) \in Nat
           /\ \A t \in Nat : AtLeast(S.pos, t) \in Nat /\ AtLeast(S.neg, t) \in Nat /\ AtLeast(S.pos, t) <= Count(S.pos)
           /\ \A s \in Score : s \in Nat /\ S.pos[s] \in Nat /\ S.neg[s] \in Nat
           /\ \A t \in Nat, u \in Nat : t <= u => AtLeast(S.pos, u) <= AtLeast(S.pos, t)
<1>1. S.pos \in [Score -> Nat] /\ S.neg \in [Score -> Nat] /\ IsFiniteSet(Score) /\ \A s \in Score : s \in Nat
  BY TrainingAssumption DEF Samples
<1> DEFINE From(t) == {s \in Score : s >= t}
<1>2. \A t : From(t) \in SUBSET Score /\ IsFiniteSet(From(t))
  BY <1>1, FS_Subset
<1>3. /\ \A h : Count(h) = SumFunctionOnSet(h, DOMAIN h)
      /\ \A h, t : AtLeast(h, t) = SumFunctionOnSet(h, From(t))
  BY DEF Count, AtLeast, SumFunction
<1>4. \A t \in Nat, u \in Nat : t <= u => From(u) \in SUBSET From(t)
  <2> SUFFICES ASSUME NEW t \in Nat, NEW u \in Nat, t <= u, NEW s \in Score, s >= u
               PROVE  s >= t
    OBVIOUS
  <2>1. s \in Nat
    BY <1>1
  <2> QED
    BY <2>1
<1> HIDE DEF From
<1>5. Count(S.pos) = SumFunctionOnSet(S.pos, Score)
  <2>1. DOMAIN S.pos = Score
    BY <1>1
  <2> QED
    BY <1>3, <2>1
<1>6. Count(S.pos) \in Nat
  BY <1>1, <1>5, SumType
<1>7. \A t \in Nat : AtLeast(S.pos, t) \in Nat /\ AtLeast(S.neg, t) \in Nat /\ AtLeast(S.pos, t) <= Count(S.pos)
  BY <1>1, <1>2, <1>3, <1>5, SumType, SumOfMore
<1>8. \A t \in Nat, u \in Nat : t <= u => AtLeast(S.pos, u) <= AtLeast(S.pos, t)
  BY <1>1, <1>2, <1>3, <1>4, SumOfMore
<1> QED
  BY <1>1, <1>6, <1>7, <1>8

\* Scores without a sample do not tell two operating points apart.
LEMMA SameFromNext ==
    ASSUME NEW S \in Samples, NEW t \in Nat, NEW u \in Nat, t <= u,
           \A s \in Score : t <= s /\ s < u => s \notin Thresholds(S)
    PROVE  AtLeast(S.pos, t) = AtLeast(S.pos, u) /\ AtLeast(S.neg, t) = AtLeast(S.neg, u)
<1>1. S.pos \in [Score -> Nat] /\ S.neg \in [Score -> Nat] /\ IsFiniteSet(Score) /\ \A s \in Score : s \in Nat
  BY TrainingAssumption DEF Samples
<1> DEFINE From(x) == {s \in Score : s >= x}
<1>2. \A x : From(x) \in SUBSET Score /\ IsFiniteSet(From(x))
  BY <1>1, FS_Subset
<1>3. \A h, x : AtLeast(h, x) = SumFunctionOnSet(h, From(x))
  BY DEF AtLeast
<1>4. From(u) \in SUBSET From(t)
  <2> SUFFICES ASSUME NEW s \in Score, s >= u
               PROVE  s >= t
    OBVIOUS
  <2>1. s \in Nat
    BY <1>1
  <2> QED
    BY <2>1
<1>5. \A s \in From(t) \ From(u) : S.pos[s] = 0 /\ S.neg[s] = 0
  <2> SUFFICES ASSUME NEW s \in Score, s >= t, ~(s >= u)
               PROVE  S.pos[s] = 0 /\ S.neg[s] = 0
    OBVIOUS
  <2>1. s \in Nat /\ S.pos[s] \in Nat /\ S.neg[s] \in Nat
    BY <1>1
  <2>2. s \notin Thresholds(S)
    BY <2>1
  <2>3. ~(S.pos[s] + S.neg[s] > 0)
    BY <2>2 DEF Thresholds
  <2> QED
    BY <2>1, <2>3
<1> HIDE DEF From
<1> QED
  BY <1>1, <1>2, <1>3, <1>4, <1>5, SumOfMore

\* From a score with none above it on there is nothing.
LEMMA NothingAbove ==
    ASSUME NEW S \in Samples, NEW t \in Nat, \A s \in Score : t <= s => s \notin Thresholds(S)
    PROVE  AtLeast(S.pos, t) = 0
<1>1. S.pos \in [Score -> Nat] /\ S.neg \in [Score -> Nat] /\ IsFiniteSet(Score) /\ \A s \in Score : s \in Nat
  BY TrainingAssumption DEF Samples
<1> DEFINE From == {s \in Score : s >= t}
<1>2. From \in SUBSET Score /\ IsFiniteSet(From)
  BY <1>1, FS_Subset
<1>3. \A s \in From : S.pos[s] = 0
  <2> SUFFICES ASSUME NEW s \in Score, s >= t
               PROVE  S.pos[s] = 0
    OBVIOUS
  <2>1. s \in Nat /\ S.pos[s] \in Nat /\ S.neg[s] \in Nat
    BY <1>1
  <2>2. ~(S.pos[s] + S.neg[s] > 0)
    BY <2>1 DEF Thresholds
  <2> QED
    BY <2>1, <2>2
<1>4. AtLeast(S.pos, t) = SumFunctionOnSet(S.pos, From)
  BY DEF AtLeast
<1> HIDE DEF From
<1> QED
  BY <1>1, <1>2, <1>3, <1>4, SumOfZeroes

\* The lowest threshold takes in every sample.
LEMMA LowestTakesAll ==
    ASSUME NEW S \in Samples, HasCurve(S)
    PROVE  /\ Thresholds(S) \in SUBSET Nat /\ IsFiniteSet(Thresholds(S)) /\ Thresholds(S) # {}
           /\ Count(S.pos) \in Nat \ {0}
           /\ \E t \in Thresholds(S) : AtLeast(S.pos, t) = Count(S.pos)
<1>1. S.pos \in [Score -> Nat] /\ S.neg \in [Score -> Nat] /\ IsFiniteSet(Score) /\ \A s \in Score : s \in Nat
  BY TrainingAssumption DEF Samples
<1>2. Thresholds(S) \in SUBSET Score /\ IsFiniteSet(Thresholds(S))
  BY <1>1, FS_Subset DEF Thresholds
<1>3. Count(S.pos) \in Nat \ {0}
  BY CurveNumbers, TrainingAssumption DEF HasCurve
<1>4. AtLeast(S.pos, 0) = Count(S.pos)
  <2>0. \A s \in Score : s >= 0
    BY <1>1
  <2>1. {s \in Score : s >= 0} = Score
    BY <2>0
  <2>2. DOMAIN S.pos = Score
    BY <1>1
  <2> QED
    BY <2>1, <2>2 DEF AtLeast, Count, SumFunction
<1>5. Thresholds(S) # {}
  <2> SUFFICES ASSUME Thresholds(S) = {}
               PROVE  FALSE
    OBVIOUS
  <2>1. AtLeast(S.pos, 0) = 0
    BY NothingAbove
  <2> QED
    BY <1>3, <1>4, <2>1
<1>6. PICK t \in Thresholds(S) : \A u \in Thresholds(S) : t <= u
  BY <1>1, <1>2, <1>5, LeastNatural
<1>7. AtLeast(S.pos, t) = Count(S.pos)
  <2>1. t \in Nat /\ 0 <= t /\ \A s \in Score : 0 <= s /\ s < t => s \notin Thresholds(S)
    <3>1. t \in Nat
      BY <1>1, <1>2
    <3>2. \A s \in Thresholds(S) : ~(s < t)
      <4> SUFFICES ASSUME NEW s \in Thresholds(S), s < t
                   PROVE  FALSE
        OBVIOUS
      <4>1. t <= s /\ s \in Nat
        BY <1>1, <1>2, <1>6
      <4> QED
        BY <3>1, <4>1
    <3>3. 0 <= t
      BY <3>1
    <3> QED
      BY <3>1, <3>2, <3>3, Zenon
  <2> QED
    BY <1>4, <2>1, SameFromNext
<1> QED
  BY <1>1, <1>2, <1>3, <1>5, <1>7

\* F1 compares as a quotient does.
LEMMA F1Compares ==
    ASSUME NEW S \in Samples, HasCurve(S), NEW t \in Nat, NEW u \in Nat, NEW v \in Nat
    PROVE  /\ F1AtLeast(S, t, t)
           /\ F1AtLeast(S, t, u) \/ F1AtLeast(S, u, t)
           /\ F1AtLeast(S, t, u) /\ F1AtLeast(S, u, v) => F1AtLeast(S, t, v)
           /\ F1Num(S, t) = 0 => F1AtLeast(S, u, t)
<1>1. \A x \in Nat : F1Num(S, x) \in Nat /\ F1Den(S, x) \in Nat \ {0}
  <2> SUFFICES ASSUME NEW x \in Nat
               PROVE  F1Num(S, x) \in Nat /\ F1Den(S, x) \in Nat \ {0}
    OBVIOUS
  <2>1. AtLeast(S.pos, x) \in Nat /\ AtLeast(S.neg, x) \in Nat /\ Count(S.pos) \in Nat \ {0}
    BY CurveNumbers, LowestTakesAll
  <2> QED
    BY <2>1 DEF F1Num, F1Den
<1>2. \A x, y \in Nat : F1Num(S, x) * F1Den(S, y) \in Nat
  BY <1>1, ProductOrder
<1>3. F1AtLeast(S, t, t) /\ (F1AtLeast(S, t, u) \/ F1AtLeast(S, u, t))
  BY <1>2 DEF F1AtLeast
<1>4. F1AtLeast(S, t, u) /\ F1AtLeast(S, u, v) => F1AtLeast(S, t, v)
  BY <1>1, QuotientsTransitive DEF F1AtLeast
<1>5. F1Num(S, t) = 0 => F1AtLeast(S, u, t)
  <2>1. 0 * F1Den(S, u) = 0
    BY <1>1
  <2> QED
    BY <1>2, <2>1 DEF F1AtLeast
<1> QED
  BY <1>3, <1>4, <1>5

\* Of finitely many operating points one has the best F1.
LEMMA SomeBest ==
    ASSUME NEW S \in Samples, HasCurve(S)
    PROVE  \A T \in SUBSET Nat : IsFiniteSet(T) /\ T # {} => \E t \in T : \A u \in T : F1AtLeast(S, t, u)
<1> DEFINE Best(T) == \E t \in T : \A u \in T : F1AtLeast(S, t, u)
           L == {n \in Nat : \A T \in SUBSET Nat : IsFiniteSet(T) /\ T # {} /\ Cardinality(T) = n => Best(T)}
<1>1. 0 \in L
  BY FS_EmptySet
<1>2. ASSUME NEW n \in Nat, n \in L
      PROVE  n + 1 \in L
  <2> SUFFICES ASSUME NEW T \in SUBSET Nat, IsFiniteSet(T), T # {}, Cardinality(T) = n + 1
               PROVE  Best(T)
    OBVIOUS
  <2>1. PICK x \in T : IsFiniteSet(T \ {x}) /\ Cardinality(T \ {x}) = n
    BY OneMoreThan
  <2>2. CASE T \ {x} = {}
    <3>1. \A u \in T : u = x
      BY <2>2
    <3>2. F1AtLeast(S, x, x)
      BY F1Compares
    <3> QED
      BY <3>1, <3>2
  <2>3. CASE T \ {x} # {}
    <3>1. PICK t \in T \ {x} : \A u \in T \ {x} : F1AtLeast(S, t, u)
      BY <1>2, <2>1, <2>3
    <3>2. CASE F1AtLeast(S, t, x)
      <4>1. \A u \in T : F1AtLeast(S, t, u)
        BY <3>1, <3>2
      <4> QED
        BY <4>1
    <3>3. CASE F1AtLeast(S, x, t)
      <4>1. \A u \in T : F1AtLeast(S, x, u)
        BY <3>1, <3>3, F1Compares
      <4> QED
        BY <4>1
    <3> QED
      BY <3>2, <3>3, F1Compares
  <2> QED
    BY <2>2, <2>3
<1>3. Nat \subseteq L
  <2> HIDE DEF L
  <2> QED
    BY <1>1, <1>2, NaturalsByInduction
<1> QED
  BY <1>3, FS_CardinalityType

\* What pr_thresholds promises of a split with a curve.
Sound(S, a, b) ==
    /\ a <= b /\ a \in Thresholds(S) /\ b \in Thresholds(S)
    /\ RecallNum * Count(S.pos) <= RecallDen * AtLeast(S.pos, a)
    /\ \A s \in Score : F1AtLeast(S, b, s)

\* The warning is the best of all scores, those without a sample too.
LEMMA WarningIsBest ==
    ASSUME NEW S \in Samples, HasCurve(S)
    PROVE  BestF1(S) \in Thresholds(S) /\ \A s \in Score : F1AtLeast(S, BestF1(S), s)
<1> DEFINE U == Thresholds(S)
           Bests == {t \in U : \A u \in U : F1AtLeast(S, t, u)}
           b == BestF1(S)
<1>1. U \in SUBSET Nat /\ IsFiniteSet(U) /\ U # {} /\ U \subseteq Score
  BY LowestTakesAll DEF Thresholds
<1>2. \A s \in Score : s \in Nat
  BY CurveNumbers
<1>3. Bests # {} /\ Bests \in SUBSET Nat
  <2> HIDE DEF U
  <2> QED
    BY <1>1, SomeBest
<1>4. b = Min(Bests)
  BY DEF BestF1
<1>5. b \in Bests
  <2> HIDE DEF Bests, b
  <2>1. PICK x \in Bests : \A y \in Bests : x <= y
    BY <1>3, LeastNatural
  <2> QED
    BY <1>4, <2>1 DEF Min
<1> HIDE DEF b
<1>6. b \in U /\ \A u \in U : F1AtLeast(S, b, u)
  BY <1>5
<1> HIDE DEF U, Bests
<1>7. ASSUME NEW s \in Score
      PROVE  F1AtLeast(S, b, s)
  <2> DEFINE Above == {u \in U : s <= u}
  <2>0. s \in Nat /\ b \in Nat
    BY <1>1, <1>2, <1>6
  <2>1. CASE Above = {}
    <3>1. \A x \in Score : s <= x => x \notin U
      BY <2>1
    <3>2. AtLeast(S.pos, s) = 0
      BY <2>0, <3>1, NothingAbove DEF U
    <3> QED
      BY <2>0, <3>2, F1Compares DEF F1Num
  <2>2. CASE Above # {}
    <3>1. PICK m \in Above : \A y \in Above : m <= y
      <4>1. Above \in SUBSET Nat
        BY <1>1
      <4> HIDE DEF Above
      <4> QED
        BY <2>2, <4>1, LeastNatural
    <3>2. m \in U /\ m \in Nat /\ s <= m
      BY <1>1, <3>1
    <3>3. \A x \in Score : s <= x /\ x < m => x \notin U
      <4> SUFFICES ASSUME NEW x \in U, s <= x, x < m
                   PROVE  FALSE
        OBVIOUS
      <4>1. x \in Nat /\ m <= x
        BY <1>1, <3>1
      <4> QED
        BY <3>2, <4>1
    <3>4. AtLeast(S.pos, s) = AtLeast(S.pos, m) /\ AtLeast(S.neg, s) = AtLeast(S.neg, m)
      BY <2>0, <3>2, <3>3, SameFromNext DEF U
    <3>5. F1AtLeast(S, b, m)
      BY <1>6, <3>2
    <3> QED
      BY <3>4, <3>5 DEF F1AtLeast, F1Num, F1Den
  <2> QED
    BY <2>1, <2>2
<1> QED
  BY <1>6, <1>7 DEF b, U

\* Both thresholds are as pr_thresholds says.
LEMMA PrThresholdsSound ==
    ASSUME NEW S \in Samples, HasCurve(S)
    PROVE  Sound(S, pr_thresholds(S).advisory, pr_thresholds(S).warning)
<1> DEFINE U == Thresholds(S)
           Oks == {t \in U : RecallOk(S, t)}
           P == Count(S.pos)
           b == BestF1(S)
           l == LastRecall(S)
           a == IF l <= b THEN l ELSE b
<1>1. U \in SUBSET Nat /\ IsFiniteSet(U) /\ P \in Nat /\ RecallNum \in Nat /\ RecallDen \in Nat /\ RecallNum <= RecallDen
  BY LowestTakesAll, TrainingAssumption
<1>2. b \in U /\ \A s \in Score : F1AtLeast(S, b, s)
  BY WarningIsBest
<1>3. Oks # {}
  <2>1. PICK t \in U : AtLeast(S.pos, t) = P
    BY LowestTakesAll
  <2> HIDE DEF P, U
  <2>2. RecallNum * P <= RecallDen * P
    BY <1>1, ProductGrows
  <2>3. P * RecallDen >= RecallNum * P
    <3>1. RecallNum * P \in Nat /\ RecallDen * P \in Nat /\ P * RecallDen = RecallDen * P
      BY <1>1, ProductOrder
    <3> QED
      BY <2>2, <3>1
  <2>4. RecallOk(S, t)
    BY <2>1, <2>3 DEF RecallOk, P
  <2> QED
    BY <2>4
<1>4. l \in Oks
  <2>1. Oks \in SUBSET Nat /\ IsFiniteSet(Oks)
    <3> HIDE DEF U
    <3> QED
      BY <1>1, FS_Subset
  <2>2. l = Max(Oks)
    BY DEF LastRecall
  <2> HIDE DEF Oks, l
  <2> QED
    BY <1>3, <2>1, <2>2, MaxOfFinite
<1>5. l \in U /\ AtLeast(S.pos, l) * RecallDen >= RecallNum * P
  BY <1>4 DEF RecallOk
<1> HIDE DEF U, Oks, P, l, b
<1>6. l \in Nat /\ b \in Nat
  BY <1>1, <1>2, <1>5
<1>7. pr_thresholds(S).warning = b /\ pr_thresholds(S).advisory = a
  <2>1. Min({l, b}) = a
    BY <1>6, MinOfTwo
  <2> QED
    BY <2>1 DEF pr_thresholds, l, b
<1>8. a \in U /\ a <= b /\ a \in Nat /\ a <= l
  BY <1>2, <1>5, <1>6
<1> HIDE DEF a
<1>9. AtLeast(S.pos, l) \in Nat /\ AtLeast(S.pos, a) \in Nat /\ AtLeast(S.pos, l) <= AtLeast(S.pos, a)
  BY <1>6, <1>8, CurveNumbers
<1>10. RecallNum * P <= RecallDen * AtLeast(S.pos, a)
  <2>1. AtLeast(S.pos, l) * RecallDen <= AtLeast(S.pos, a) * RecallDen
    BY <1>1, <1>9, ProductGrows
  <2>2. /\ AtLeast(S.pos, l) * RecallDen \in Nat /\ AtLeast(S.pos, a) * RecallDen \in Nat
        /\ RecallNum * P \in Nat /\ AtLeast(S.pos, a) * RecallDen = RecallDen * AtLeast(S.pos, a)
    BY <1>1, <1>9, ProductOrder
  <2> QED
    BY <1>5, <2>1, <2>2
<1> QED
  BY <1>2, <1>7, <1>8, <1>10 DEF Sound, U, P

\* The samples are those of the two splits from the temperatures to the export, which
\* begins with the thresholds computed from them.
SplitsSampled == samples.val \in ValSamples /\ samples.train \in TrainSamples

\* What is known of the samples and thresholds at each stage.
ThresholdInv ==
    /\ stage = "thresholds" => SplitsSampled
    /\ stage = "export" /\ epoch = 0 => SplitsSampled /\ thr = [o \in Output |-> ThresholdOf(o)]

LEMMA ThresholdStep == TrainingTypeOK /\ ThresholdInv /\ [ReleaseNext]_vars => ThresholdInv'
<1> SUFFICES ASSUME TrainingTypeOK, ThresholdInv, [ReleaseNext]_vars
             PROVE  ThresholdInv'
  OBVIOUS
<1>1. CASE UNCHANGED train_vars
  BY <1>1 DEF train_vars, ThresholdInv, SplitsSampled, ThresholdOf
<1>2. CASE FitTemperatures
  <2>1. stage' = "thresholds" /\ SplitsSampled'
    BY <1>2 DEF FitTemperatures, SplitsSampled
  <2> QED
    BY <2>1 DEF ThresholdInv
<1>3. CASE CalibrateThresholds
  <2>1. stage = "thresholds" /\ stage' = "export" /\ samples' = samples /\ thr' = [o \in Output |-> ThresholdOf(o)]
    BY <1>3 DEF CalibrateThresholds
  <2>2. SplitsSampled' /\ \A o \in Output : ThresholdOf(o)' = ThresholdOf(o)
    BY <2>1 DEF ThresholdInv, SplitsSampled, ThresholdOf
  <2> QED
    BY <2>1, <2>2 DEF ThresholdInv
<1>4. CASE ExportFile \/ AbortExport
  <2>1. stage' = "end" \/ (stage' = "export" /\ epoch' = epoch + 1)
    BY <1>4, Zenon DEF ExportFile, AbortExport, ProcessEnds
  <2>2. epoch + 1 # 0
    BY DEF TrainingTypeOK
  <2> QED
    BY <2>1, <2>2 DEF ThresholdInv
<1>5. CASE GenerateEvents \/ LabelCorpus \/ Split \/ RestoreBest \/ EmbedAll \/ GraphEpoch \/ EndGraph
           \/ \E vloss \in Loss \union {NaN} : StandaloneEpoch(vloss)
  <2>1. stage' \in {"corpus", "split", "phase1", "embed", "phase2", "temperatures"}
    BY <1>5 DEF GenerateEvents, LabelCorpus, Split, RestoreBest, EmbedAll, GraphEpoch, EndGraph, StandaloneEpoch, train_vars
  <2> QED
    BY <2>1 DEF ThresholdInv
<1> QED
  BY TrainSteps, <1>1, <1>2, <1>3, <1>4, <1>5

\* What a threshold claims of its curve holds of the thresholds the export begins with.
LEMMA ThresholdsOfSamples ==
    ASSUME SplitsSampled, thr = [o \in Output |-> ThresholdOf(o)], NEW o \in Output
    PROVE  LET S == IF thr[o].source = "val" THEN samples.val ELSE samples.train
           IN  /\ thr[o].source \in {"val", "train"} => Sound(S, thr[o].at.advisory, thr[o].at.warning)
               /\ thr[o].source = "train" => ~HasCurve(samples.val)
               /\ o \notin TrainedOutput => thr[o].source = "declared only"
<1>1. samples.val \in Samples /\ samples.train \in Samples
  BY TrainingAssumption DEF SplitsSampled
<1>2. thr[o] = ThresholdOf(o)
  OBVIOUS
<1> DEFINE V == samples.val
           T == samples.train
<1>v. HasCurve(V) => Sound(V, pr_thresholds(V).advisory, pr_thresholds(V).warning)
  BY <1>1, PrThresholdsSound
<1>t. HasCurve(T) => Sound(T, pr_thresholds(T).advisory, pr_thresholds(T).warning)
  BY <1>1, PrThresholdsSound
<1> DEFINE R == thr[o]
<1>3. \/ o \notin TrainedOutput /\ R = [source |-> "declared only", at |-> Fallback]
      \/ o \in TrainedOutput /\ HasCurve(V) /\ R = [source |-> "val", at |-> pr_thresholds(V)]
      \/ o \in TrainedOutput /\ ~HasCurve(V) /\ HasCurve(T) /\ R = [source |-> "train", at |-> pr_thresholds(T)]
      \/ o \in TrainedOutput /\ ~HasCurve(V) /\ R = [source |-> "fixed", at |-> Fallback]
  BY <1>2, Zenon DEF ThresholdOf
<1> HIDE DEF R, V, T
<1>4. /\ R.source = "val" => HasCurve(V) /\ R.at = pr_thresholds(V)
      /\ R.source = "train" => ~HasCurve(V) /\ HasCurve(T) /\ R.at = pr_thresholds(T)
      /\ o \notin TrainedOutput => R.source = "declared only"
  <2>1. CASE o \notin TrainedOutput /\ R = [source |-> "declared only", at |-> Fallback]
    BY <2>1, Zenon
  <2>2. CASE o \in TrainedOutput /\ HasCurve(V) /\ R = [source |-> "val", at |-> pr_thresholds(V)]
    BY <2>2, Zenon
  <2>3. CASE o \in TrainedOutput /\ ~HasCurve(V) /\ HasCurve(T) /\ R = [source |-> "train", at |-> pr_thresholds(T)]
    BY <2>3, Zenon
  <2>4. CASE o \in TrainedOutput /\ ~HasCurve(V) /\ R = [source |-> "fixed", at |-> Fallback]
    BY <2>4, Zenon
  <2> QED
    BY <1>3, <2>1, <2>2, <2>3, <2>4, Zenon
<1>5. R.source = "val" => Sound(V, R.at.advisory, R.at.warning)
  BY <1>v, <1>4, Zenon
<1>6. R.source = "train" => Sound(T, R.at.advisory, R.at.warning)
  BY <1>t, <1>4, Zenon
<1>7. "val" # "train"
  OBVIOUS
<1>8. LET S == IF R.source = "val" THEN V ELSE T
      IN  R.source \in {"val", "train"} => Sound(S, R.at.advisory, R.at.warning)
  BY <1>5, <1>6, <1>7, Zenon
<1> QED
  BY <1>4, <1>8, Zenon DEF R, V, T

\* The thresholds an export begins with keep what their source promises, whatever the
\* samples (pr_thresholds, calibrate_thresholds): the advisory one catches the share of
\* events it is set for and is no higher than the warning, which no score beats.
THEOREM ThresholdTheorem == ReleaseSpec => []ThresholdsAreSound
<1>1. ReleaseInit => ThresholdInv
  BY DEF ReleaseInit, TrainInit, ThresholdInv
<1>2. ThresholdInv => ThresholdsAreSound
  <2> SUFFICES ASSUME ThresholdInv, stage = "export" /\ epoch = 0, NEW o \in Output
               PROVE  LET S == IF thr[o].source = "val" THEN samples.val ELSE samples.train
                      IN  /\ thr[o].source \in {"val", "train"} => Sound(S, thr[o].at.advisory, thr[o].at.warning)
                          /\ thr[o].source = "train" => ~HasCurve(samples.val)
                          /\ o \notin TrainedOutput => thr[o].source = "declared only"
    BY Zenon DEF ThresholdsAreSound, Sound
  <2> QED
    BY ThresholdsOfSamples, Zenon DEF ThresholdInv
<1>3. ReleaseInit => TrainingTypeOK
  BY DEF ReleaseInit, TrainInit, TrainingTypeOK, InitialWeights, Weights
<1> QED
  BY <1>1, <1>2, <1>3, ThresholdStep, TrainingTypeStep, PTL DEF ReleaseSpec

-----------------------------------------------------------------------------
(* The samples of the two phases *)

\* Two sorted groups, one after the other and cut: one of the second stands there only
\* after all of the first.
LEMMA CutOfTwo ==
    ASSUME NEW S, NEW T, S \intersect T = {}, NEW m \in Nat, NEW n \in Nat,
           NEW A \in [1 .. m -> S], IsInjective(A), Range(A) = S,
           NEW B \in [1 .. n -> T], IsInjective(B), NEW l \in 0 .. m + n
    PROVE  LET N == SubSeq(A \o B, 1, l)
           IN  /\ N \in Seq(S \union T) /\ Len(N) = l /\ IsInjective(N)
               /\ Range(N) \intersect T # {} => S \subseteq Range(N)
<1> DEFINE N == SubSeq(A \o B, 1, l)
<1>1. DOMAIN A = 1 .. m /\ DOMAIN B = 1 .. n /\ A \in Seq(S) /\ B \in Seq(T) /\ Len(A) = m /\ Len(B) = n
  OBVIOUS
<1>2. A \in Seq(S \union T) /\ B \in Seq(S \union T)
  BY <1>1
<1> DEFINE C == A \o B
<1>c. C \in Seq(S \union T) /\ Len(C) = m + n /\ \A k \in 1 .. m + n : C[k] = IF k <= m THEN A[k] ELSE B[k - m]
  BY <1>1, <1>2
<1>3. N \in Seq(S \union T) /\ Len(N) = l /\ DOMAIN N = 1 .. l
      /\ \A k \in 1 .. l : N[k] = IF k <= m THEN A[k] ELSE B[k - m]
  <2> HIDE DEF C
  <2>1. N = SubSeq(C, 1, l)
    BY DEF C
  <2>2. \A k \in 1 .. l : N[k] = C[k] /\ k \in 1 .. m + n
    BY <1>c, <2>1
  <2>3. N \in Seq(S \union T) /\ Len(N) = l /\ DOMAIN N = 1 .. l
    BY <1>c, <2>1
  <2> QED
    BY <1>c, <2>2, <2>3
<1> HIDE DEF N
<1>4. \A k \in 1 .. l : (k <= m => k \in 1 .. m /\ N[k] \in S) /\ (k > m => k - m \in 1 .. n /\ N[k] \in T)
  BY <1>3
<1>5. IsInjective(N)
  <2> SUFFICES ASSUME NEW a \in 1 .. l, NEW b \in 1 .. l, N[a] = N[b]
               PROVE  a = b
    BY <1>3 DEF IsInjective
  <2>1. CASE a <= m /\ b <= m
    BY <2>1, <1>1, <1>3, <1>4 DEF IsInjective
  <2>2. CASE a > m /\ b > m
    <3>1. a - m \in 1 .. n /\ b - m \in 1 .. n /\ B[a - m] = B[b - m]
      BY <2>2, <1>3, <1>4
    <3>2. a - m = b - m
      BY <1>1, <3>1 DEF IsInjective
    <3> QED
      BY <3>2
  <2>3. CASE ~(a <= m /\ b <= m) /\ ~(a > m /\ b > m)
    BY <2>3, <1>4
  <2> QED
    BY <2>1, <2>2, <2>3
<1>6. ASSUME Range(N) \intersect T # {}
      PROVE  S \subseteq Range(N)
  <2>1. PICK k \in 1 .. l : N[k] \in T
    BY <1>3, <1>6 DEF Range
  <2>2. k > m
    BY <1>4, <2>1
  <2> SUFFICES ASSUME NEW x \in S
               PROVE  x \in Range(N)
    OBVIOUS
  <2>3. PICK j \in 1 .. m : A[j] = x
    BY <1>1 DEF Range
  <2>4. j \in 1 .. l /\ N[j] = x
    BY <1>3, <2>2, <2>3
  <2> QED
    BY <1>3, <2>4 DEF Range
<1> QED
  BY <1>3, <1>5, <1>6 DEF N

\* The neighbours of a column, and theirs.
LEMMA HopsApart ==
    ASSUME NEW i \in Column
    PROVE  /\ Hop1(i) \in SUBSET (Column \ {i}) /\ Hop2(i) \in SUBSET (Column \ {i})
           /\ Hop1(i) \intersect Hop2(i) = {}
           /\ IsFiniteSet(Hop1(i)) /\ IsFiniteSet(Hop2(i))
           /\ [j \in Hop1(i) |-> Adj[i][j]] \in [Hop1(i) -> Nat]
           /\ [k \in Hop2(i) |-> TwoHopWeight(i, k)] \in [Hop2(i) -> Nat]
<1>1. Hop1(i) \in SUBSET (Column \ {i}) /\ Hop2(i) \in SUBSET (Column \ {i}) /\ Hop1(i) \intersect Hop2(i) = {}
  <2>1. \A j \in Hop1(i) : j \in Column /\ j # i
    BY AdjSymmetric DEF Hop1
  <2>2. \A k \in Hop2(i) : k \in Column /\ k # i /\ k \notin Hop1(i)
    BY DEF Hop2
  <2> QED
    BY <2>1, <2>2
<1>2. IsFiniteSet(Hop1(i)) /\ IsFiniteSet(Hop2(i))
  BY <1>1, CorpusAssumption, FS_Subset
<1>3. \A j \in Hop1(i) : Adj[i][j] \in Nat
  BY <1>1, AdjSymmetric
<1>4. ASSUME NEW k \in Hop2(i)
      PROVE  TwoHopWeight(i, k) \in Nat
  <2> DEFINE f == [j \in Hop1(i) |-> Adj[i][j] * Adj[j][k]]
             P == {Adj[i][j] * Adj[j][k] : j \in Hop1(i)}
  <2>1. \A j \in Hop1(i) : Adj[i][j] \in Nat /\ Adj[j][k] \in Nat
    BY <1>1, AdjSymmetric
  <2>2. \A j \in Hop1(i) : Adj[i][j] * Adj[j][k] \in Nat
    BY <2>1, ProductOrder
  <2>3. P \in SUBSET Nat
    BY <2>2
  <2>4. P # {}
    BY DEF Hop2
  <2>5. IsFiniteSet(P)
    <3>1. \A j \in Hop1(i) : f[j] = Adj[i][j] * Adj[j][k]
      OBVIOUS
    <3>2. f \in Surjection(Hop1(i), P)
      BY <3>1 DEF Surjection
    <3> HIDE DEF f, P
    <3> QED
      BY <1>2, <3>2, FS_Surjection
  <2>6. TwoHopWeight(i, k) = Max(P)
    BY DEF TwoHopWeight
  <2> HIDE DEF P
  <2> QED
    BY <2>3, <2>4, <2>5, <2>6, MaxOfFinite
<1> QED
  BY <1>1, <1>2, <1>3, <1>4

\* The ego network of a column is the column and some of the columns near it, once
\* each; a neighbour of a neighbour is there only when every neighbour is.
LEMMA EgoNetwork ==
    ASSUME NEW i \in Column
    PROVE  LET N == Tail(ego_network(i))
           IN  /\ N \in Seq(Column \ {i}) /\ Len(N) <= MaxNeighbours /\ IsInjective(N)
               /\ ego_network(i) = <<i>> \o N
               /\ Range(N) \intersect Hop2(i) # {} => Hop1(i) \subseteq Range(N)
<1> DEFINE A == ByWeight([j \in Hop1(i) |-> Adj[i][j]])
           B == ByWeight([k \in Hop2(i) |-> TwoHopWeight(i, k)])
           m == Cardinality(Hop1(i))
           n == Cardinality(Hop2(i))
           l == IF MaxNeighbours <= m + n THEN MaxNeighbours ELSE m + n
           M == SubSeq(A \o B, 1, l)
<1>1. /\ A \in [1 .. m -> Hop1(i)] /\ IsInjective(A) /\ Range(A) = Hop1(i)
      /\ B \in [1 .. n -> Hop2(i)] /\ IsInjective(B)
  <2>0. PICK f, g : f = [j \in Hop1(i) |-> Adj[i][j]] /\ g = [k \in Hop2(i) |-> TwoHopWeight(i, k)]
    OBVIOUS
  <2>1. f \in [Hop1(i) -> Nat] /\ g \in [Hop2(i) -> Nat]
    BY <2>0, HopsApart
  <2>2. Hop1(i) \in SUBSET Nat /\ Hop2(i) \in SUBSET Nat /\ IsFiniteSet(Hop1(i)) /\ IsFiniteSet(Hop2(i))
    BY HopsApart, CorpusAssumption
  <2>3. A = ByWeight(f) /\ B = ByWeight(g)
    BY <2>0
  <2> HIDE DEF A, B
  <2> QED
    BY <2>1, <2>2, <2>3, ByWeightLists
<1>2. m \in Nat /\ n \in Nat /\ MaxNeighbours \in Nat
  BY HopsApart, FS_CardinalityType, TrainingAssumption
<1>3. ego_network(i) = <<i>> \o M
  <2>1. ego_network(i) = <<i>> \o SubSeq(A \o B, 1, Min({MaxNeighbours, Len(A \o B)}))
    BY DEF ego_network
  <2>2. Len(A \o B) = m + n
    <3> HIDE DEF A, B
    <3>1. A \in Seq(Hop1(i)) /\ B \in Seq(Hop2(i)) /\ Len(A) = m /\ Len(B) = n
      BY <1>1, <1>2
    <3>2. A \in Seq(Column) /\ B \in Seq(Column)
      BY <3>1, HopsApart
    <3> QED
      BY <3>1, <3>2
  <2>3. Min({MaxNeighbours, m + n}) = l
    BY <1>2, MinOfTwo
  <2> QED
    BY <2>1, <2>2, <2>3
<1> HIDE DEF A, B, m, n
<1>4. l \in 0 .. m + n /\ l <= MaxNeighbours
  BY <1>2
<1> HIDE DEF l
<1>5. /\ M \in Seq(Hop1(i) \union Hop2(i)) /\ Len(M) = l /\ IsInjective(M)
      /\ Range(M) \intersect Hop2(i) # {} => Hop1(i) \subseteq Range(M)
  BY <1>1, <1>2, <1>4, HopsApart, CutOfTwo
<1> HIDE DEF M
<1>6. M \in Seq(Column \ {i})
  BY <1>5, HopsApart
<1>7. Tail(ego_network(i)) = M
  BY <1>3, <1>6
<1> QED
  BY <1>3, <1>4, <1>5, <1>6, <1>7

\* i and the members of the list N at the places K, closed up.
Closed(i, N, K) == <<i>> \o [p \in DOMAIN Ascending(K) |-> N[Ascending(K)[p]]]

\* Closing up keeps the order and what is not dropped.
LEMMA KeptOfList ==
    ASSUME NEW T, NEW i, i \notin T, NEW N \in Seq(T), IsInjective(N), NEW K \in SUBSET DOMAIN N
    PROVE  LET keep == Closed(i, N, K)
           IN  /\ keep \in Seq(T \union {i}) /\ Len(keep) \in 1 .. 1 + Len(N) /\ keep[1] = i
               /\ IsInjective(keep) /\ Range(keep) \subseteq {i} \union Range(N)
<1> DEFINE kept == Ascending(K)
           rest == [p \in DOMAIN kept |-> N[kept[p]]]
           keep == <<i>> \o rest
           n == Cardinality(K)
<1>1. IsFiniteSet(K) /\ n \in Nat /\ n <= Len(N) /\ K \in SUBSET Int
  <2>1. DOMAIN N = 1 .. Len(N) /\ Len(N) \in Nat
    OBVIOUS
  <2>2. IsFiniteSet(1 .. Len(N)) /\ Cardinality(1 .. Len(N)) = Len(N)
    BY <2>1, FirstNumbers
  <2> QED
    <3> HIDE DEF n
    <3>0. K \in SUBSET (1 .. Len(N))
      BY <2>1
    <3>1. IsFiniteSet(K) /\ Cardinality(K) <= Len(N)
      BY <2>2, <3>0, FS_Subset
    <3>2. Cardinality(K) \in Nat
      BY <3>1, FS_CardinalityType
    <3>3. K \in SUBSET Int
      BY <2>1
    <3> QED
      BY <3>1, <3>2, <3>3 DEF n
<1>2. kept \in [1 .. n -> K] /\ IsInjective(kept)
  BY <1>1, AscendingLists
<1> HIDE DEF kept
<1>3. DOMAIN kept = 1 .. n /\ \A p \in 1 .. n : kept[p] \in K /\ kept[p] \in DOMAIN N
  BY <1>2
<1>4. rest \in [1 .. n -> T] /\ \A p \in 1 .. n : rest[p] = N[kept[p]]
  BY <1>3
<1> HIDE DEF rest, n
<1>5. rest \in Seq(T) /\ Len(rest) = n
  BY <1>1, <1>4
<1>6. /\ keep \in Seq(T \union {i}) /\ Len(keep) = 1 + n /\ DOMAIN keep = 1 .. 1 + n
      /\ keep[1] = i /\ \A p \in 2 .. 1 + n : keep[p] = rest[p - 1]
  <2>1. rest \in Seq(T \union {i}) /\ <<i>> \in Seq(T \union {i}) /\ Len(<<i>>) = 1
    BY <1>5
  <2> QED
    BY <1>1, <1>5, <2>1
<1> HIDE DEF keep
<1>7. \A p \in 2 .. 1 + n : p - 1 \in 1 .. n /\ keep[p] = N[kept[p - 1]] /\ keep[p] \in T /\ keep[p] \in Range(N)
  <2> SUFFICES ASSUME NEW p \in 2 .. 1 + n
               PROVE  p - 1 \in 1 .. n /\ keep[p] = N[kept[p - 1]] /\ keep[p] \in T /\ keep[p] \in Range(N)
    OBVIOUS
  <2>1. p - 1 \in 1 .. n
    BY <1>1
  <2> QED
    BY <1>3, <1>4, <1>6, <2>1 DEF Range
<1>8. IsInjective(keep)
  <2> SUFFICES ASSUME NEW a \in 1 .. 1 + n, NEW b \in 1 .. 1 + n, keep[a] = keep[b]
               PROVE  a = b
    BY <1>6 DEF IsInjective
  <2>1. CASE a = 1 \/ b = 1
    BY <2>1, <1>1, <1>6, <1>7
  <2>2. CASE a # 1 /\ b # 1
    <3>1. a \in 2 .. 1 + n /\ b \in 2 .. 1 + n
      BY <2>2, <1>1
    <3>2. kept[a - 1] = kept[b - 1]
      BY <3>1, <1>3, <1>7 DEF IsInjective
    <3>3. a - 1 = b - 1
      BY <3>1, <3>2, <1>2, <1>3, <1>7 DEF IsInjective
    <3> QED
      BY <3>3
  <2> QED
    BY <2>1, <2>2
<1>9. Range(keep) \subseteq {i} \union Range(N)
  <2> SUFFICES ASSUME NEW p \in 1 .. 1 + n
               PROVE  keep[p] = i \/ keep[p] \in Range(N)
    BY <1>6 DEF Range
  <2>1. CASE p = 1
    BY <2>1, <1>6
  <2>2. CASE p # 1
    <3>1. p \in 2 .. 1 + n
      BY <2>2, <1>1
    <3> QED
      BY <3>1, <1>7
  <2> QED
    BY <2>1, <2>2
<1>10. Len(keep) \in 1 .. 1 + Len(N)
  BY <1>1, <1>6
<1> QED
  BY <1>6, <1>8, <1>9, <1>10 DEF keep, rest, kept, Closed

\* The nodes keep of a sample, padded.
Padded(keep, c, t) ==
    LET Place == 1 .. 1 + MaxNeighbours
        In(a) == a <= Len(keep)
    IN  [own   |-> <<c, t>>,
         nodes |-> [a \in Place |-> IF In(a) THEN keep[a] ELSE 0],
         valid |-> [a \in Place |-> IF In(a) THEN 1 ELSE 0],
         adj   |-> [a \in Place |-> [b \in Place |-> IF In(a) /\ In(b) THEN Adj[keep[a]][keep[b]] ELSE 0]],
         hours |-> HistoryHours(t)]

\* The nodes of a sample of column c.
Kept(keep, c) ==
    /\ keep \in Seq(Column) /\ Len(keep) \in 1 .. 1 + MaxNeighbours /\ keep[1] = c /\ IsInjective(keep)
    /\ Range(keep) \subseteq Range(ego_network(c))
    /\ Range(keep) \intersect Hop2(c) # {} => Hop1(c) \subseteq Range(ego_network(c))

\* A sample is its nodes, padded.
LEMMA SampleIsPadded ==
    ASSUME NEW c \in Column, NEW t, NEW dropped
    PROVE  \E keep : Kept(keep, c) /\ GraphSample(c, t, dropped) = Padded(keep, c, t)
<1> DEFINE N == Tail(ego_network(c))
           K == {i \in DOMAIN N : N[i] \notin dropped}
           keep == Closed(c, N, K)
<1>1. GraphSample(c, t, dropped) = Padded(keep, c, t)
  BY DEF GraphSample, Padded, Closed
<1>2. /\ N \in Seq(Column \ {c}) /\ Len(N) <= MaxNeighbours /\ IsInjective(N)
      /\ ego_network(c) = <<c>> \o N
      /\ Range(N) \intersect Hop2(c) # {} => Hop1(c) \subseteq Range(N)
  BY EgoNetwork
<1> HIDE DEF N
<1>3. K \in SUBSET DOMAIN N
  OBVIOUS
<1>4. /\ keep \in Seq((Column \ {c}) \union {c}) /\ Len(keep) \in 1 .. 1 + Len(N) /\ keep[1] = c
      /\ IsInjective(keep) /\ Range(keep) \subseteq {c} \union Range(N)
  <2> DEFINE T == Column \ {c}
  <2>1. c \notin T /\ N \in Seq(T)
    BY <1>2
  <2> HIDE DEF T, K
  <2>2. /\ keep \in Seq(T \union {c}) /\ Len(keep) \in 1 .. 1 + Len(N) /\ keep[1] = c
        /\ IsInjective(keep) /\ Range(keep) \subseteq {c} \union Range(N)
    BY <1>2, <1>3, <2>1, KeptOfList
  <2> QED
    BY <2>2 DEF T
<1> HIDE DEF keep, K
<1>5. Range(ego_network(c)) = {c} \union Range(N)
  <2>1. N \in Seq(Column)
    BY <1>2
  <2>2. \A x : x \in Range(<<c>> \o N) <=> x = c \/ x \in Range(N)
    <3>1. DOMAIN (<<c>> \o N) = 1 .. 1 + Len(N) /\ (<<c>> \o N)[1] = c /\ \A p \in 2 .. 1 + Len(N) : (<<c>> \o N)[p] = N[p - 1]
      BY <2>1
    <3>2. \A p \in 1 .. Len(N) : p + 1 \in 2 .. 1 + Len(N) /\ (p + 1) - 1 = p
      BY <2>1
    <3>3. \A p \in 1 .. 1 + Len(N) : p = 1 \/ p \in 2 .. 1 + Len(N)
      BY <2>1
    <3>4. \A p \in 2 .. 1 + Len(N) : p \in 1 .. 1 + Len(N) /\ p - 1 \in 1 .. Len(N)
      BY <2>1
    <3>5. DOMAIN N = 1 .. Len(N) /\ 1 \in 1 .. 1 + Len(N)
      BY <2>1
    <3> SUFFICES ASSUME NEW x
                 PROVE  x \in Range(<<c>> \o N) <=> x = c \/ x \in Range(N)
      OBVIOUS
    <3>6. ASSUME x \in Range(<<c>> \o N)
          PROVE  x = c \/ x \in Range(N)
      BY <3>1, <3>3, <3>4, <3>5, <3>6 DEF Range
    <3>7. ASSUME x \in Range(N)
          PROVE  x \in Range(<<c>> \o N)
      <4>1. PICK p \in 1 .. Len(N) : N[p] = x
        BY <3>5, <3>7 DEF Range
      <4>2. p + 1 \in 1 .. 1 + Len(N) /\ (<<c>> \o N)[p + 1] = x
        BY <3>1, <3>2, <3>4, <4>1
      <4> QED
        BY <3>1, <4>2 DEF Range
    <3>8. c \in Range(<<c>> \o N)
      BY <3>1, <3>5 DEF Range
    <3> QED
      BY <3>6, <3>7, <3>8
  <2> QED
    BY <1>2, <2>2
<1>6. keep \in Seq(Column)
  <2>1. (Column \ {c}) \union {c} = Column
    OBVIOUS
  <2> QED
    BY <1>4, <2>1
<1>7. Len(keep) \in 1 .. 1 + MaxNeighbours
  <2>1. Len(N) \in Nat /\ MaxNeighbours \in Nat
    BY <1>2, TrainingAssumption
  <2> QED
    BY <1>2, <1>4, <2>1
<1>8. Range(keep) \intersect Hop2(c) # {} => Hop1(c) \subseteq Range(ego_network(c))
  <2>1. c \notin Hop2(c)
    BY HopsApart
  <2> QED
    BY <1>2, <1>4, <1>5, <2>1
<1>9. Kept(keep, c)
  BY <1>4, <1>5, <1>6, <1>7, <1>8 DEF Kept
<1> QED
  BY <1>1, <1>9

\* Taking the padding away gives the nodes back ...
LEMMA UnpaddedNodes ==
    ASSUME NEW c \in Column, NEW t, NEW keep, Kept(keep, c), NEW s, s = Padded(keep, c, t)
    PROVE  /\ SumFunction(s.valid) = Len(keep)
           /\ Unpadded(s).hist = keep
<1> DEFINE n == Len(keep)
           m == 1 + MaxNeighbours
           v == [a \in 1 .. m |-> IF a <= n THEN 1 ELSE 0]
           x == [a \in 1 .. m |-> IF a <= n THEN keep[a] ELSE 0]
<1>1. s.valid = v /\ s.nodes = x
  BY DEF Padded
<1>2. m \in Nat /\ n \in 1 .. m /\ n \in Nat /\ keep \in Seq(Column)
  BY TrainingAssumption DEF Kept
<1> HIDE DEF m
<1>3. SumFunction(v) = n
  <2>1. v \in [1 .. m -> Nat] /\ DOMAIN v = 1 .. m
    OBVIOUS
  <2>2. (\A a \in 1 .. n : v[a] = 1) /\ (\A a \in (1 .. m) \ (1 .. n) : v[a] = 0) /\ 1 .. n \in SUBSET (1 .. m)
    BY <1>2
  <2> HIDE DEF v, n
  <2>3. IsFiniteSet(1 .. m) /\ IsFiniteSet(1 .. n) /\ Cardinality(1 .. n) = n
    BY <1>2, FirstNumbers
  <2>4. SumFunctionOnSet(v, 1 .. n) = n
    BY <2>1, <2>2, <2>3, SumOfOnes
  <2>5. SumFunctionOnSet(v, 1 .. m) = n
    <3>1. PICK S, T : S = 1 .. n /\ T = 1 .. m
      OBVIOUS
    <3>a. v \in [T -> Nat] /\ IsFiniteSet(T) /\ S \in SUBSET T /\ T \in SUBSET T
      BY <2>1, <2>2, <2>3, <3>1
    <3>b. \A a \in T \ S : v[a] = 0
      BY <2>2, <3>1
    <3>2. SumFunctionOnSet(v, S) = SumFunctionOnSet(v, T)
      BY <3>a, <3>b, SumOfMore
    <3> QED
      BY <2>4, <3>1, <3>2
  <2> QED
    BY <2>1, <2>5 DEF SumFunction
<1>4. SubSeq(x, 1, n) = keep
  <2>1. x \in Seq(Column \union {0}) /\ Len(x) = m
    BY <1>2
  <2> HIDE DEF x
  <2>2. SubSeq(x, 1, n) = [a \in 1 .. n |-> x[a]]
    BY <1>2, <2>1
  <2>3. \A a \in 1 .. n : x[a] = keep[a]
    BY <1>2 DEF x
  <2> QED
    BY <1>2, <2>2, <2>3
<1> HIDE DEF v, x
<1>5. Unpadded(s).hist = keep
  BY <1>1, <1>3, <1>4 DEF Unpadded
<1> QED
  BY <1>1, <1>3, <1>5

\* ... and the weights between them.
LEMMA UnpaddedWeights ==
    ASSUME NEW c \in Column, NEW t, NEW keep, Kept(keep, c), NEW s, s = Padded(keep, c, t)
    PROVE  Unpadded(s).adj = [a \in 1 .. Len(keep) |-> [b \in 1 .. Len(keep) |-> Adj[keep[a]][keep[b]]]]
<1> DEFINE n == Len(keep)
           m == 1 + MaxNeighbours
           y == [a \in 1 .. m |-> [b \in 1 .. m |-> IF a <= n /\ b <= n THEN Adj[keep[a]][keep[b]] ELSE 0]]
<1>1. s.adj = y
  BY DEF Padded
<1>2. m \in Nat /\ n \in 1 .. m /\ n \in Nat /\ keep \in Seq(Column)
  BY TrainingAssumption DEF Kept
<1> HIDE DEF m
<1>3. SumFunction(s.valid) = n
  BY UnpaddedNodes
<1>5. \A a \in 1 .. n : SubSeq(y[a], 1, n) = [b \in 1 .. n |-> Adj[keep[a]][keep[b]]]
  <2> SUFFICES ASSUME NEW a \in 1 .. n
               PROVE  SubSeq(y[a], 1, n) = [b \in 1 .. n |-> Adj[keep[a]][keep[b]]]
    OBVIOUS
  <2> DEFINE r == [b \in 1 .. m |-> IF a <= n /\ b <= n THEN Adj[keep[a]][keep[b]] ELSE 0]
  <2>1. y[a] = r
    BY <1>2
  <2>2. \A b \in 1 .. n : r[b] = Adj[keep[a]][keep[b]]
    BY <1>2
  <2>3. r \in Seq(Nat) /\ Len(r) = m
    <3>1. \A b \in 1 .. n : keep[a] \in Column /\ keep[b] \in Column
      BY <1>2
    <3>2. \A b \in 1 .. n : Adj[keep[a]][keep[b]] \in Nat
      BY <3>1, AdjSymmetric
    <3>3. r \in [1 .. m -> Nat]
      BY <1>2, <3>2
    <3> QED
      BY <1>2, <3>3
  <2> HIDE DEF r, y
  <2>4. SubSeq(r, 1, n) = [b \in 1 .. n |-> r[b]]
    BY <1>2, <2>3
  <2> QED
    BY <2>1, <2>2, <2>4
<1> HIDE DEF y
<1>6. Unpadded(s).adj = [a \in 1 .. n |-> SubSeq(y[a], 1, n)]
  BY <1>1, <1>3 DEF Unpadded
<1> QED
  BY <1>5, <1>6

\* The samples the optimiser was given last are samples of the phase.
BatchInv ==
    /\ stage \notin {"phase1", "phase2"} => batch = <<>>
    /\ stage = "phase1" =>
           \/ batch = <<>>
           \/ \E c \in train_ids, t \in WindowEnds : batch = <<[nodes |-> <<c>>, hours |-> WindowRows(t)]>>
    /\ stage = "phase2" => batch = <<>> \/ batch \in GraphBatches

LEMMA BatchStep == BatchInv /\ [ReleaseNext]_vars => BatchInv'
<1> SUFFICES ASSUME BatchInv, [ReleaseNext]_vars
             PROVE  BatchInv'
  OBVIOUS
<1>1. CASE UNCHANGED train_vars
  BY <1>1 DEF train_vars, BatchInv, train_ids, GraphSamples, GraphBatches
<1>2. CASE GenerateEvents \/ LabelCorpus \/ Split
  <2>1. stage \in {"corpus", "split"} /\ batch' = batch /\ stage' \in {"corpus", "split", "phase1"}
    BY <1>2 DEF GenerateEvents, LabelCorpus, Split, train_vars
  <2> QED
    BY <2>1 DEF BatchInv
<1>3. CASE \E vloss \in Loss \union {NaN} : StandaloneEpoch(vloss)
  <2>1. /\ stage' = "phase1" /\ train_ids' = train_ids
        /\ \E c \in train_ids, t \in WindowEnds : batch' = <<[nodes |-> <<c>>, hours |-> WindowRows(t)]>>
    BY <1>3 DEF StandaloneEpoch, train_ids
  <2> QED
    BY <2>1 DEF BatchInv
<1>4. CASE RestoreBest \/ EndGraph
  <2>1. batch' = <<>>
    BY <1>4, Zenon DEF RestoreBest, EndGraph
  <2> QED
    BY <2>1 DEF BatchInv
<1>5. CASE EmbedAll \/ FitTemperatures \/ CalibrateThresholds
  <2>1. stage \in {"embed", "temperatures", "thresholds"} /\ batch' = batch
    BY <1>5, Zenon DEF EmbedAll, FitTemperatures, CalibrateThresholds
  <2>2. batch' = <<>>
    BY <2>1 DEF BatchInv
  <2> QED
    BY <2>2 DEF BatchInv
<1>6. CASE GraphEpoch
  <2>1. stage' = "phase2" /\ val_ids' = val_ids /\ batch' \in GraphBatches
    BY <1>6 DEF GraphEpoch
  <2>2. GraphBatches' = GraphBatches
    BY <2>1 DEF GraphBatches, GraphSamples, train_ids
  <2> QED
    BY <2>1, <2>2 DEF BatchInv
<1>7. CASE ExportFile \/ AbortExport
  <2>1. stage = "export" /\ batch' = batch
    BY <1>7, Zenon DEF ExportFile, AbortExport
  <2>2. batch' = <<>>
    BY <2>1 DEF BatchInv
  <2> QED
    BY <2>2 DEF BatchInv
<1> QED
  BY TrainSteps, <1>1, <1>2, <1>3, <1>4, <1>5, <1>6, <1>7

\* A graph sample has a training column and its nodes.
LEMMA SampleOfColumn ==
    ASSUME NEW s \in GraphSamples
    PROVE  \E c \in train_ids, t \in GraphSampleHours : \E keep : Kept(keep, c) /\ s = Padded(keep, c, t)
<1>1. PICK c \in train_ids, t \in GraphSampleHours : \E dropped : s = GraphSample(c, t, dropped)
  <2>1. PICK x \in train_ids \X GraphSampleHours \X SUBSET Column :
            s = GraphSample(x[1], x[2], x[3] \intersect Range(Tail(ego_network(x[1]))))
    BY DEF GraphSamples
  <2> QED
    BY <2>1
<1>2. c \in Column
  BY DEF train_ids
<1> QED
  BY <1>1, <1>2, SampleIsPadded

\* What SamplesAreObserved asks of one sample of phase 2.
LEMMA SampleObserved ==
    ASSUME NEW s \in GraphSamples
    PROVE  LET nodes == Unpadded(s).hist
           IN  /\ Head(nodes) \in train_ids /\ Range(nodes) \subseteq Column
               /\ Len(nodes) <= 1 + MaxNeighbours /\ IsInjective(nodes)
               /\ s.hours \subseteq EmbeddedHours
               /\ Range(nodes) \intersect Hop2(Head(nodes)) # {}
                     => Hop1(Head(nodes)) \subseteq Range(ego_network(Head(nodes)))
<1>0. PICK c \in train_ids, t \in GraphSampleHours : \E keep : Kept(keep, c) /\ s = Padded(keep, c, t)
  BY SampleOfColumn
<1>1. PICK keep : Kept(keep, c) /\ s = Padded(keep, c, t)
  BY <1>0
<1>2. c \in Column
  BY DEF train_ids
<1>3. Unpadded(s).hist = keep
  BY <1>1, <1>2, UnpaddedNodes
<1>4. Head(keep) = c /\ Range(keep) \subseteq Column /\ Len(keep) <= 1 + MaxNeighbours
  <2>1. keep \in Seq(Column) /\ Len(keep) \in 1 .. 1 + MaxNeighbours /\ keep[1] = c /\ MaxNeighbours \in Nat
    BY <1>1, TrainingAssumption DEF Kept
  <2> QED
    BY <2>1 DEF Range
<1>5. s.hours \subseteq EmbeddedHours
  <2>1. s.hours = (t - Periods + 1) .. t
    BY <1>1 DEF Padded, HistoryHours
  <2>2. t \in (Context - 1 + Periods) .. (Hours - 1) /\ Context \in Nat /\ Periods \in Nat /\ Hours \in Nat
    BY TrainingAssumption, CorpusAssumption DEF GraphSampleHours
  <2> QED
    BY <2>1, <2>2 DEF EmbeddedHours
<1> QED
  BY <1>1, <1>3, <1>4, <1>5 DEF Kept

\* A window of phase 1.
LEMMA WindowObserved ==
    ASSUME NEW c \in train_ids, NEW t \in WindowEnds
    PROVE  LET nodes == <<c>>
           IN  /\ Head(nodes) \in train_ids /\ Range(nodes) \subseteq Column
               /\ Len(nodes) <= 1 + MaxNeighbours /\ IsInjective(nodes)
               /\ WindowRows(t) \subseteq 0 .. Hours - 1
               /\ Range(nodes) \intersect Hop2(Head(nodes)) # {}
                     => Hop1(Head(nodes)) \subseteq Range(ego_network(Head(nodes)))
<1>1. c \in Column /\ MaxNeighbours \in Nat
  BY TrainingAssumption DEF train_ids
<1>2. Range(<<c>>) = {c} /\ Head(<<c>>) = c /\ Len(<<c>>) = 1 /\ IsInjective(<<c>>)
  BY DEF Range, IsInjective
<1>3. c \notin Hop2(c)
  BY <1>1, HopsApart
<1>4. WindowRows(t) \subseteq 0 .. Hours - 1
  <2>1. t \in (Context - 1) .. (Hours - 1) /\ Context \in Nat \ {0} /\ Hours \in Nat
    BY TrainingAssumption, CorpusAssumption DEF WindowEnds
  <2> QED
    BY <2>1 DEF WindowRows
<1> QED
  BY <1>1, <1>2, <1>3, <1>4

\* Training reads only rows and embeddings that exist, of a training column and the
\* columns nearest to it, whatever the graph and the neighbours that are dropped
\* (WindowDataset, ego_networks, GraphSampleDataset).
THEOREM SamplesTheorem == ReleaseSpec => []SamplesAreObserved
<1>1. ReleaseInit => BatchInv
  BY DEF ReleaseInit, TrainInit, BatchInv
<1>2. BatchInv => SamplesAreObserved
  <2> SUFFICES ASSUME BatchInv, NEW b \in DOMAIN batch
               PROVE  LET nodes == IF stage = "phase1" THEN batch[b].nodes ELSE Unpadded(batch[b]).hist
                      IN  /\ Head(nodes) \in train_ids /\ Range(nodes) \subseteq Column
                          /\ Len(nodes) <= 1 + MaxNeighbours /\ IsInjective(nodes)
                          /\ batch[b].hours \subseteq IF stage = "phase1" THEN 0 .. Hours - 1 ELSE EmbeddedHours
                          /\ Range(nodes) \intersect Hop2(Head(nodes)) # {}
                                => Hop1(Head(nodes)) \subseteq Range(ego_network(Head(nodes)))
    BY Zenon DEF SamplesAreObserved
  <2>0. batch # <<>>
    OBVIOUS
  <2>1. CASE stage = "phase1"
    <3>1. PICK c \in train_ids, t \in WindowEnds : batch = <<[nodes |-> <<c>>, hours |-> WindowRows(t)]>>
      BY <2>0, <2>1 DEF BatchInv
    <3>2. batch[b].nodes = <<c>> /\ batch[b].hours = WindowRows(t)
      BY <3>1
    <3>3. batch[b].hours \subseteq 0 .. Hours - 1
      BY <3>2, WindowObserved
    <3> QED
      BY <2>1, <3>2, <3>3, WindowObserved, Zenon
  <2>2. CASE stage # "phase1"
    <3>1. batch \in GraphBatches
      BY <2>0, <2>2 DEF BatchInv
    <3>2. batch[b] \in GraphSamples
      BY <3>1 DEF GraphBatches
    <3> QED
      BY <2>2, <3>2, SampleObserved, Zenon
  <2> QED
    BY <2>1, <2>2
<1> QED
  BY <1>1, <1>2, BatchStep, PTL DEF ReleaseSpec

-----------------------------------------------------------------------------
(* The two forms of the graph stage *)

\* The weights between the nodes of a sample.
Within(keep) == [a \in 1 .. Len(keep) |-> [b \in 1 .. Len(keep) |-> Adj[keep[a]][keep[b]]]]

\* What comes along the edges into node a.
Into(keep, a) == [x \in 1 .. Len(keep) |-> Within(keep)[x][a]]
Weight(keep, a) == SumFunctionOnSet(Into(keep, a), 1 .. Len(keep))

\* What either form gives the root of a sample.
Refined(keep) ==
    [degree   |-> 1 + Weight(keep, 1),
     messages |-> {[from |-> keep[1], w |-> 1, degree |-> 1 + Weight(keep, 1)]} \union
                  {[from |-> keep[x], w |-> Into(keep, 1)[x], degree |-> 1 + Weight(keep, x)] :
                       x \in {y \in 1 .. Len(keep) : Into(keep, 1)[y] > 0}}]

\* Edges have no direction and there are no loops.
LEMMA WithinSymmetric ==
    ASSUME NEW c \in Column, NEW keep, Kept(keep, c)
    PROVE  /\ Len(keep) \in Nat /\ 1 \in 1 .. Len(keep)
           /\ \A a, b \in 1 .. Len(keep) :
                  /\ Within(keep)[a][b] = Adj[keep[a]][keep[b]]
                  /\ Within(keep)[a][b] \in Nat /\ Within(keep)[a][b] = Within(keep)[b][a] /\ Within(keep)[a][a] = 0
                  /\ Into(keep, b)[a] = Within(keep)[a][b]
           /\ \A a \in 1 .. Len(keep) : Into(keep, a) \in [1 .. Len(keep) -> Nat]
<1> DEFINE n == Len(keep)
<1>1. keep \in Seq(Column) /\ n \in Nat /\ 1 \in 1 .. n
  BY DEF Kept
<1> HIDE DEF n
<1>2. \A a \in 1 .. n : keep[a] \in Column
  BY <1>1 DEF n
<1>3. \A a, b \in 1 .. n : Within(keep)[a][b] = Adj[keep[a]][keep[b]]
  BY DEF Within, n
<1>4. \A a, b \in 1 .. n : Within(keep)[a][b] \in Nat /\ Within(keep)[a][b] = Within(keep)[b][a] /\ Within(keep)[a][a] = 0
  BY <1>2, <1>3, AdjSymmetric
<1>5. \A a, b \in 1 .. n : Into(keep, b)[a] = Within(keep)[a][b]
  BY DEF Into, n
<1>6. \A a \in 1 .. n : Into(keep, a) \in [1 .. n -> Nat]
  BY <1>4 DEF Into, n
<1> QED
  BY <1>1, <1>3, <1>4, <1>5, <1>6 DEF n

\* The row of the dense matrix at a node that is not padding: a one at the node, the
\* weights at the other nodes, and zeroes at the padding.
LEMMA DenseRow ==
    ASSUME NEW c \in Column, NEW t, NEW keep, Kept(keep, c), NEW s, s = Padded(keep, c, t),
           NEW a \in 1 .. Len(keep), NEW b \in 1 .. 1 + MaxNeighbours,
           NEW v, v = IF a = b THEN 1 ELSE s.adj[a][b] * s.valid[a] * s.valid[b]
    PROVE  v = IF a = b THEN 1 ELSE IF b <= Len(keep) THEN Into(keep, a)[b] ELSE 0
<1> DEFINE n == Len(keep)
           m == 1 + MaxNeighbours
<1>1. m \in Nat /\ n \in 1 .. m /\ a \in 1 .. m
  BY TrainingAssumption DEF Kept
<1>2. /\ s.valid[a] = 1 /\ s.valid[b] = IF b <= n THEN 1 ELSE 0
      /\ s.adj[a][b] = IF b <= n THEN Adj[keep[a]][keep[b]] ELSE 0
  <2>1. s.valid = [x \in 1 .. m |-> IF x <= n THEN 1 ELSE 0]
    BY DEF Padded
  <2>2. s.adj = [x \in 1 .. m |-> [y \in 1 .. m |-> IF x <= n /\ y <= n THEN Adj[keep[x]][keep[y]] ELSE 0]]
    BY DEF Padded
  <2> QED
    BY <1>1, <2>1, <2>2
<1>3. CASE b <= n
  <2>1. b \in 1 .. n
    BY <1>1, <1>3
  <2>2. Adj[keep[a]][keep[b]] \in Nat /\ Into(keep, a)[b] = Adj[keep[a]][keep[b]]
    BY <2>1, WithinSymmetric
  <2> QED
    BY <1>2, <1>3, <2>2
<1>4. CASE ~(b <= n)
  BY <1>1, <1>2, <1>4
<1> QED
  BY <1>3, <1>4

\* A row with a one instead of a zero, and zeroes beyond S.
LEMMA RowSum ==
    ASSUME NEW T, IsFiniteSet(T), NEW S \in SUBSET T, NEW a \in S,
           NEW h \in [S -> Nat], h[a] = 0, NEW row \in [T -> Nat],
           row[a] = 1, \A b \in S \ {a} : row[b] = h[b], \A b \in T \ S : row[b] = 0
    PROVE  SumFunctionOnSet(row, T) = 1 + SumFunctionOnSet(h, S)
<1>0. PICK R : R = S \ {a}
  OBVIOUS
<1>1. R \in SUBSET T /\ R \in SUBSET S /\ T \in SUBSET T /\ S \in SUBSET S /\ IsFiniteSet(S) /\ IsFiniteSet(R)
  <2>1. R \in SUBSET T /\ R \in SUBSET S /\ T \in SUBSET T /\ S \in SUBSET S
    BY <1>0
  <2> QED
    BY <2>1, FS_Subset
<1>2. SumFunctionOnSet(row, S) = SumFunctionOnSet(row, T)
  BY <1>1, SumOfMore
<1>3. SumFunctionOnSet(row, S) = 1 + SumFunctionOnSet(row, R)
  <2>1. SumFunctionOnSet(row, S) = row[a] + SumFunctionOnSet(row, S \ {a})
    BY <1>1, SumAnyElement
  <2> QED
    BY <1>0, <2>1
<1>4. SumFunctionOnSet(h, R) = SumFunctionOnSet(h, S)
  <2>1. \A b \in S \ R : h[b] = 0
    BY <1>0
  <2> QED
    BY <1>1, <2>1, SumOfMore
<1>5. SumFunctionOnSet(h, R) = SumFunctionOnSet(row, R)
  <2>1. \A b \in R : h[b] = row[b]
    BY <1>0
  <2> QED
    BY <1>0, <1>1, <2>1, SumOfSame
<1> QED
  BY <1>2, <1>3, <1>4, <1>5

\* The degree of a node in the dense matrix.
LEMMA DenseDegree ==
    ASSUME NEW c \in Column, NEW t, NEW keep, Kept(keep, c), NEW s, s = Padded(keep, c, t),
           NEW a \in 1 .. Len(keep),
           NEW row, row = [b \in 1 .. 1 + MaxNeighbours |-> IF a = b THEN 1 ELSE s.adj[a][b] * s.valid[a] * s.valid[b]]
    PROVE  SumFunction(row) = 1 + Weight(keep, a)
<1>1. PICK T, S, h, r, z : T = 1 .. 1 + MaxNeighbours /\ S = 1 .. Len(keep) /\ h = Into(keep, a) /\ r = row /\ z = a
  OBVIOUS
<1>2. MaxNeighbours \in Nat /\ Len(keep) \in 1 .. 1 + MaxNeighbours
  BY TrainingAssumption DEF Kept
<1>3. IsFiniteSet(T) /\ S \in SUBSET T /\ z \in S /\ z \in T
  <2>1. 1 + MaxNeighbours \in Nat
    BY <1>2
  <2>2. IsFiniteSet(T)
    BY <1>1, <2>1, FirstNumbers
  <2> QED
    BY <1>1, <1>2, <2>2
<1>4. h \in [S -> Nat] /\ h[z] = 0
  <2>1. \A b \in 1 .. Len(keep) : Into(keep, b) \in [1 .. Len(keep) -> Nat]
    BY WithinSymmetric
  <2>2. \A b \in 1 .. Len(keep) : Into(keep, b)[b] = 0
    BY WithinSymmetric
  <2> QED
    BY <1>1, <2>1, <2>2
<1>5. ASSUME NEW b \in T
      PROVE  r[b] = IF z = b THEN 1 ELSE IF b <= Len(keep) THEN h[b] ELSE 0
  <2>1. r[b] = IF a = b THEN 1 ELSE s.adj[a][b] * s.valid[a] * s.valid[b]
    BY <1>1
  <2> QED
    BY <1>1, <2>1, DenseRow
<1>6. \A b \in T : b \in S <=> b <= Len(keep)
  BY <1>1, <1>2
<1>7. r[z] = 1 /\ (\A b \in S \ {z} : r[b] = h[b]) /\ (\A b \in T \ S : r[b] = 0)
  BY <1>3, <1>5, <1>6
<1>8. r \in [T -> Nat] /\ DOMAIN r = T
  <2>1. r = [b \in T |-> r[b]] /\ DOMAIN r = T
    BY <1>1
  <2>2. \A b \in T : r[b] \in Nat
    BY <1>4, <1>5, <1>6
  <2> QED
    BY <2>1, <2>2
<1>9. SumFunctionOnSet(r, T) = 1 + SumFunctionOnSet(h, S)
  BY <1>3, <1>4, <1>7, <1>8, RowSum
<1> QED
  BY <1>1, <1>8, <1>9 DEF SumFunction, Weight

\* The dense form of a sample's graph stage.
LEMMA DenseIsRefined ==
    ASSUME NEW c \in Column, NEW t, NEW keep, Kept(keep, c), NEW s, s = Padded(keep, c, t)
    PROVE  DenseGraphStage(s) = Refined(keep)
<1> DEFINE n == Len(keep)
           m == 1 + MaxNeighbours
           A(a, b) == IF a = b THEN 1 ELSE s.adj[a][b] * s.valid[a] * s.valid[b]
           deg(a) == SumFunction([b \in 1 .. m |-> A(a, b)])
           Linked == {p \in 1 .. m : A(1, p) # 0}
           Near == {y \in 1 .. n : Into(keep, 1)[y] > 0}
           D == {[from |-> s.nodes[b], w |-> A(1, b), degree |-> deg(b)] : b \in Linked}
           own == [from |-> keep[1], w |-> 1, degree |-> 1 + Weight(keep, 1)]
           R == {[from |-> keep[x], w |-> Into(keep, 1)[x], degree |-> 1 + Weight(keep, x)] : x \in Near}
<1>1. m \in Nat /\ n \in Nat /\ n \in 1 .. m /\ 1 \in 1 .. n /\ 1 \in 1 .. m
  BY TrainingAssumption DEF Kept
<1>2. DenseGraphStage(s) = [degree |-> deg(1), messages |-> D]
  <2>1. DOMAIN s.valid = 1 .. m
    BY DEF Padded
  <2> QED
    BY <2>1 DEF DenseGraphStage
<1>3. \A b \in 1 .. m : A(1, b) = IF 1 = b THEN 1 ELSE IF b <= n THEN Into(keep, 1)[b] ELSE 0
  <2> SUFFICES ASSUME NEW b \in 1 .. m
               PROVE  A(1, b) = IF 1 = b THEN 1 ELSE IF b <= n THEN Into(keep, 1)[b] ELSE 0
    OBVIOUS
  <2> QED
    BY <1>1, DenseRow
<1>4. \A a \in 1 .. n : deg(a) = 1 + Weight(keep, a)
  <2> SUFFICES ASSUME NEW a \in 1 .. n
               PROVE  deg(a) = 1 + Weight(keep, a)
    OBVIOUS
  <2> QED
    BY DenseDegree
<1>5. \A b \in 1 .. n : s.nodes[b] = keep[b] /\ b \in 1 .. m
  <2>1. s.nodes = [b \in 1 .. m |-> IF b <= n THEN keep[b] ELSE 0]
    BY DEF Padded
  <2> QED
    BY <1>1, <2>1
<1>6. Into(keep, 1)[1] = 0 /\ \A b \in 1 .. n : Into(keep, 1)[b] \in Nat
  <2>1. \A a, b \in 1 .. n :
            /\ Within(keep)[a][b] \in Nat /\ Within(keep)[a][a] = 0
            /\ Into(keep, b)[a] = Within(keep)[a][b]
    BY WithinSymmetric
  <2> HIDE DEF n
  <2> QED
    BY <1>1, <2>1
<1>7. \A p : p \in Linked <=> p = 1 \/ p \in Near
  <2>1. \A p \in 1 .. m : p <= n <=> p \in 1 .. n
    BY <1>1
  <2>2. Linked \subseteq 1 .. m /\ Near \subseteq 1 .. n /\ \A p \in 1 .. m : p \in Linked <=> A(1, p) # 0
    OBVIOUS
  <2>3. \A p \in 1 .. n : p \in Near <=> Into(keep, 1)[p] # 0
    BY <1>6
  <2> HIDE DEF A, m, n, Linked, Near
  <2>4. \A p \in 1 .. m : p # 1 => (p \in Linked <=> p \in Near)
    BY <1>1, <1>3, <1>5, <2>1, <2>2, <2>3
  <2>5. 1 \in Linked
    BY <1>1, <1>3, <2>2
  <2> QED
    BY <1>5, <2>2, <2>4, <2>5
<1> HIDE DEF Linked, A, deg, m
<1>8. \A p \in Near : p \in 1 .. n /\ p # 1 /\ A(1, p) = Into(keep, 1)[p] /\ s.nodes[p] = keep[p] /\ deg(p) = 1 + Weight(keep, p)
  BY <1>3, <1>4, <1>5, <1>6
<1>9. A(1, 1) = 1 /\ s.nodes[1] = keep[1] /\ deg(1) = 1 + Weight(keep, 1)
  BY <1>1, <1>3, <1>4, <1>5
<1> HIDE DEF Near
<1>10. D = {own} \union R
  <2> HIDE DEF own
  <2>1. [from |-> s.nodes[1], w |-> A(1, 1), degree |-> deg(1)] = own
    BY <1>9 DEF own
  <2>2. \A p \in Near : [from |-> s.nodes[p], w |-> A(1, p), degree |-> deg(p)]
                          = [from |-> keep[p], w |-> Into(keep, 1)[p], degree |-> 1 + Weight(keep, p)]
    BY <1>8
  <2>3. ASSUME NEW d \in D
        PROVE  d \in {own} \union R
    <3>1. PICK b \in Linked : d = [from |-> s.nodes[b], w |-> A(1, b), degree |-> deg(b)]
      OBVIOUS
    <3> QED
      BY <1>7, <2>1, <2>2, <3>1
  <2>4. own \in D
    BY <1>7, <2>1
  <2>5. ASSUME NEW d \in R
        PROVE  d \in D
    <3>1. PICK x \in Near : d = [from |-> keep[x], w |-> Into(keep, 1)[x], degree |-> 1 + Weight(keep, x)]
      OBVIOUS
    <3>2. x \in Linked /\ d = [from |-> s.nodes[x], w |-> A(1, x), degree |-> deg(x)]
      BY <1>7, <2>2, <3>1
    <3> QED
      BY <3>2
  <2> HIDE DEF D, R
  <2> QED
    BY <2>3, <2>4, <2>5
<1>11. Refined(keep) = [degree |-> 1 + Weight(keep, 1), messages |-> {own} \union R]
  BY DEF Refined, Near
<1> QED
  BY <1>2, <1>9, <1>10, <1>11

\* Nodes of a sample that something comes from into node a, and the edge it comes along
\* when the sample's nodes are numbered from o + 1.
From(keep, a) == {x \in 1 .. Len(keep) : Into(keep, a)[x] > 0}
Edge(keep, o, x, a) == [src |-> o + x, dst |-> o + a, w |-> Into(keep, a)[x]]

\* The batched graph holds the nodes keep at o + 1 and on, with their edges and no other.
Holds(g, keep, o) ==
    \A a \in 1 .. Len(keep) :
        /\ g.X[o + a] = keep[a]
        /\ {d \in g.edges : d.dst = o + a} = {Edge(keep, o, x, a) : x \in From(keep, a)}

\* The degree of a node in the batched graph.
LEMMA SparseDegree ==
    ASSUME NEW c \in Column, NEW keep, Kept(keep, c), NEW g, NEW o \in Nat, Holds(g, keep, o), NEW a \in 1 .. Len(keep)
    PROVE  Degree(g, o + a) = 1 + Weight(keep, a)
<1>1. PICK N, S, h, E : /\ N = 1 .. Len(keep) /\ S = From(keep, a) /\ h = Into(keep, a)
                        /\ E = {d \in g.edges : d.dst = o + a}
  OBVIOUS
<1>2. PICK f, b : f = [e \in E |-> e.w] /\ b = [x \in S |-> Edge(keep, o, x, a)]
  OBVIOUS
<1>3. N \in SUBSET N /\ IsFiniteSet(N) /\ S \in SUBSET N /\ h \in [N -> Nat] /\ IsFiniteSet(S) /\ \A x \in S : x \in Nat
  <2>1. Len(keep) \in Nat /\ h \in [N -> Nat]
    BY <1>1, WithinSymmetric
  <2>2. IsFiniteSet(N) /\ S \in SUBSET N /\ N \in SUBSET N
    BY <1>1, <2>1, FirstNumbers DEF From
  <2>3. IsFiniteSet(S)
    BY <2>2, FS_Subset
  <2> QED
    BY <1>1, <2>1, <2>2, <2>3
<1>4. E = {Edge(keep, o, x, a) : x \in S}
  BY <1>1 DEF Holds
<1>5. b \in [S -> E] /\ \A x \in S : b[x] = Edge(keep, o, x, a)
  BY <1>2, <1>4
<1>6. \A x \in S : Edge(keep, o, x, a).w = h[x] /\ Edge(keep, o, x, a).src = o + x /\ h[x] \in Nat
  BY <1>1, <1>3 DEF Edge
<1>7. f \in [E -> Nat] /\ DOMAIN f = E /\ \A x \in S : f[b[x]] = h[x]
  <2>1. \A e \in E : e.w \in Nat
    BY <1>4, <1>6
  <2> QED
    BY <1>2, <1>5, <1>6, <2>1
<1>8. \A x, y \in S : b[x] = b[y] => x = y
  <2> SUFFICES ASSUME NEW x \in S, NEW y \in S, b[x] = b[y]
               PROVE  x = y
    OBVIOUS
  <2>1. o + x = o + y
    BY <1>5, <1>6
  <2> QED
    BY <1>3, <2>1
<1>9. {b[x] : x \in S} = E
  BY <1>4, <1>5
<1>10. SumFunctionOnSet(f, E) = SumFunctionOnSet(h, S)
  <2>1. SumFunctionOnSet(f, {b[x] : x \in S}) = SumFunctionOnSet(h, S)
    <3>1. h \in [N -> Nat] /\ S \in SUBSET N /\ IsFiniteSet(S)
      BY <1>3
    <3>2. f \in [E -> Nat] /\ b \in [S -> E] /\ \A x \in S : f[b[x]] = h[x]
      BY <1>5, <1>7
    <3> QED
      BY <1>8, <3>1, <3>2, SumRenamed, SMTT(60)
  <2> QED
    BY <1>9, <2>1
<1>11. SumFunctionOnSet(h, S) = SumFunctionOnSet(h, N)
  <2>1. \A x \in N \ S : h[x] = 0
    BY <1>1, <1>3 DEF From
  <2> QED
    BY <1>3, <2>1, SumOfMore
<1>12. Degree(g, o + a) = 1 + SumFunctionOnSet(f, E)
  <2>1. Degree(g, o + a) = 1 + SumFunction([e \in E |-> e.w])
    BY <1>1, Zenon DEF Degree
  <2> QED
    BY <1>2, <1>7, <2>1 DEF SumFunction
<1>13. Weight(keep, a) = SumFunctionOnSet(h, N)
  BY <1>1 DEF Weight
<1> QED
  BY <1>10, <1>11, <1>12, <1>13

\* What the batched graph gives the root of a sample it holds.
LEMMA SparseIsRefined ==
    ASSUME NEW c \in Column, NEW keep, Kept(keep, c), NEW g, NEW o \in Nat, Holds(g, keep, o)
    PROVE  GraphStage(g, o + 1) = Refined(keep)
<1> DEFINE n == Len(keep)
           E == {d \in g.edges : d.dst = o + 1}
           M == {[from |-> g.X[e.src], w |-> e.w, degree |-> Degree(g, e.src)] : e \in E}
           R == {[from |-> keep[x], w |-> Into(keep, 1)[x], degree |-> 1 + Weight(keep, x)] : x \in From(keep, 1)}
           e(x) == Edge(keep, o, x, 1)
<1>1. n \in Nat /\ 1 \in 1 .. n
  BY DEF Kept
<1>2. \A x \in 1 .. n : g.X[o + x] = keep[x] /\ Degree(g, o + x) = 1 + Weight(keep, x)
  BY SparseDegree DEF Holds
<1>3. \A d : d \in E <=> \E x \in From(keep, 1) : d = e(x)
  <2>1. E = {e(x) : x \in From(keep, 1)}
    BY <1>1 DEF Holds
  <2> HIDE DEF E, e
  <2> QED
    BY <2>1
<1>4. \A x \in From(keep, 1) : e(x).src = o + x /\ e(x).w = Into(keep, 1)[x] /\ x \in 1 .. n
  BY DEF Edge, From
<1>5. \A x \in From(keep, 1) : [from |-> g.X[e(x).src], w |-> e(x).w, degree |-> Degree(g, e(x).src)]
                                 = [from |-> keep[x], w |-> Into(keep, 1)[x], degree |-> 1 + Weight(keep, x)]
  <2> HIDE DEF e, n
  <2> QED
    BY <1>2, <1>4
<1> HIDE DEF E, e
<1>6. ASSUME NEW d \in M
      PROVE  d \in R
  <2>1. PICK y \in E : d = [from |-> g.X[y.src], w |-> y.w, degree |-> Degree(g, y.src)]
    OBVIOUS
  <2>2. PICK x \in From(keep, 1) : y = e(x)
    BY <1>3
  <2> QED
    BY <1>5, <2>1, <2>2
<1>7. ASSUME NEW d \in R
      PROVE  d \in M
  <2>1. PICK x \in From(keep, 1) : d = [from |-> keep[x], w |-> Into(keep, 1)[x], degree |-> 1 + Weight(keep, x)]
    OBVIOUS
  <2>2. e(x) \in E
    BY <1>3
  <2> QED
    BY <1>5, <2>1, <2>2
<1>8. M = R
  <2> HIDE DEF M, R
  <2> QED
    BY <1>6, <1>7
<1>9. GraphStage(g, o + 1) = [degree   |-> Degree(g, o + 1),
                              messages |-> {[from |-> g.X[o + 1], w |-> 1, degree |-> Degree(g, o + 1)]} \union M]
  BY DEF GraphStage, E
<1>10. Refined(keep) = [degree   |-> 1 + Weight(keep, 1),
                        messages |-> {[from |-> keep[1], w |-> 1, degree |-> 1 + Weight(keep, 1)]} \union R]
  BY DEF Refined, From
<1> HIDE DEF M, R
<1>11. g.X[o + 1] = keep[1] /\ Degree(g, o + 1) = 1 + Weight(keep, 1)
  BY <1>1, <1>2
<1> QED
  BY <1>8, <1>9, <1>10, <1>11

\* Where each of the lists of K begins, and where the last one ends, when they stand one
\* behind the other.
Offsets(K, off) ==
    /\ off \in [1 .. Len(K) + 1 -> Nat]
    /\ off[1] = 0
    /\ \A i \in 1 .. Len(K) : off[i + 1] = off[i] + Len(K[i])

\* Offsets grow.
LEMMA OffsetsGrow ==
    ASSUME NEW T, NEW K \in Seq(Seq(T)), NEW off, Offsets(K, off)
    PROVE  \A i, j \in 1 .. Len(K) + 1 : i <= j => off[i] <= off[j]
<1> DEFINE n == Len(K)
           L == {m \in Nat : \A i, j \in 1 .. n + 1 : j = i + m => off[i] <= off[j]}
<1>1. n \in Nat /\ \A i \in 1 .. n + 1 : off[i] \in Nat
  BY DEF Offsets
<1>2. \A i \in 1 .. n : off[i] <= off[i + 1]
  <2> SUFFICES ASSUME NEW i \in 1 .. n
               PROVE  off[i] <= off[i + 1]
    OBVIOUS
  <2>1. K[i] \in Seq(T) /\ off[i] \in Nat
    BY <1>1
  <2>2. Len(K[i]) \in Nat /\ off[i + 1] = off[i] + Len(K[i])
    BY <2>1 DEF Offsets
  <2> QED
    BY <2>1, <2>2
<1> HIDE DEF n
<1>3. 0 \in L
  BY <1>1
<1>4. ASSUME NEW m \in Nat, m \in L
      PROVE  m + 1 \in L
  <2> SUFFICES ASSUME NEW i \in 1 .. n + 1, NEW j \in 1 .. n + 1, j = i + (m + 1)
               PROVE  off[i] <= off[j]
    OBVIOUS
  <2>1. PICK k : k = i + m
    OBVIOUS
  <2>2. k \in 1 .. n /\ k \in 1 .. n + 1 /\ j = k + 1
    BY <1>1, <2>1
  <2>3. off[i] <= off[k] /\ off[k] <= off[j]
    BY <1>2, <1>4, <2>1, <2>2
  <2> QED
    BY <1>1, <2>2, <2>3
<1>5. Nat \subseteq L
  <2> HIDE DEF L
  <2> QED
    BY <1>3, <1>4, NaturalsByInduction
<1> SUFFICES ASSUME NEW i \in 1 .. n + 1, NEW j \in 1 .. n + 1, i <= j
             PROVE  off[i] <= off[j]
  BY DEF n
<1>6. PICK m : m = j - i
  OBVIOUS
<1>7. m \in Nat /\ j = i + m
  BY <1>1, <1>6
<1> QED
  BY <1>5, <1>7

\* Each place lies in one of the lists only.
LEMMA PlacesApart ==
    ASSUME NEW T, NEW K \in Seq(Seq(T)), NEW off, Offsets(K, off),
           NEW b \in 1 .. Len(K), NEW a \in 1 .. Len(K[b]), NEW c \in 1 .. Len(K), NEW d \in 1 .. Len(K[c]),
           off[b] + a = off[c] + d
    PROVE  b = c /\ a = d
<1>0. Len(K) \in Nat /\ K[b] \in Seq(T) /\ K[c] \in Seq(T)
  OBVIOUS
<1>1. PICK ob, oc, oB, oC, lb, lc : /\ ob = off[b] /\ oc = off[c] /\ oB = off[b + 1] /\ oC = off[c + 1]
                                    /\ lb = Len(K[b]) /\ lc = Len(K[c])
  OBVIOUS
<1>2. b + 1 \in 1 .. Len(K) + 1 /\ c + 1 \in 1 .. Len(K) + 1 /\ b \in 1 .. Len(K) + 1 /\ c \in 1 .. Len(K) + 1
  BY <1>0
<1>3. ob \in Nat /\ oc \in Nat /\ lb \in Nat /\ lc \in Nat /\ oB = ob + lb /\ oC = oc + lc
  <2>1. \A i \in 1 .. Len(K) + 1 : off[i] \in Nat
    BY DEF Offsets
  <2>2. off[b + 1] = off[b] + Len(K[b]) /\ off[c + 1] = off[c] + Len(K[c])
    BY DEF Offsets
  <2> QED
    BY <1>0, <1>1, <1>2, <2>1, <2>2
<1>4. a \in Nat /\ d \in Nat /\ 1 <= a /\ a <= lb /\ 1 <= d /\ d <= lc /\ ob + a = oc + d
  BY <1>0, <1>1
<1>5. b < c => oB <= oc
  <2>1. b < c => b + 1 <= c
    BY <1>0
  <2> QED
    BY <1>1, <1>2, <2>1, OffsetsGrow
<1>6. c < b => oC <= ob
  <2>1. c < b => c + 1 <= b
    BY <1>0
  <2> QED
    BY <1>1, <1>2, <2>1, OffsetsGrow
<1>7. ~(b < c) /\ ~(c < b)
  BY <1>3, <1>4, <1>5, <1>6
<1>8. b = c
  BY <1>0, <1>7
<1>9. ob = oc
  BY <1>1, <1>8
<1> QED
  BY <1>3, <1>4, <1>8, <1>9

\* The recursion of FlattenSeq, up to the m-th list.
Flattens(K, m, f) ==
    f = [i \in 1 .. m |-> IF i = 1 THEN K[i] ELSE f[i - 1] \o K[i]]

LEMMA FlattensExists ==
    ASSUME NEW K
    PROVE  \A m \in Nat : \E f : Flattens(K, m, f)
<1> DEFINE L == {m \in Nat : \E f : Flattens(K, m, f)}
<1>1. 0 \in L
  <2> DEFINE f == [i \in 1 .. 0 |-> K]
  <2>1. \A i : i \notin 1 .. 0
    OBVIOUS
  <2>2. Flattens(K, 0, f)
    BY <2>1 DEF Flattens
  <2> QED
    BY <2>2
<1>2. ASSUME NEW m \in Nat, m \in L
      PROVE  m + 1 \in L
  <2>1. PICK f : Flattens(K, m, f)
    BY <1>2
  <2> DEFINE g == [i \in 1 .. m + 1 |-> IF i = 1 THEN K[i] ELSE f[i - 1] \o K[i]]
  <2>2. \A i \in 1 .. m : g[i] = f[i]
    <3> SUFFICES ASSUME NEW i \in 1 .. m
                 PROVE  g[i] = f[i]
      OBVIOUS
    <3>1. i \in 1 .. m + 1
      OBVIOUS
    <3>2. g[i] = IF i = 1 THEN K[i] ELSE f[i - 1] \o K[i]
      BY <3>1, Zenon
    <3>3. f[i] = IF i = 1 THEN K[i] ELSE f[i - 1] \o K[i]
      BY <2>1, Zenon DEF Flattens
    <3> QED
      BY <3>2, <3>3, Zenon
  <2>3. \A i \in 1 .. m + 1 : (IF i = 1 THEN K[i] ELSE f[i - 1] \o K[i]) = (IF i = 1 THEN K[i] ELSE g[i - 1] \o K[i])
    <3> HIDE DEF g
    <3>1. \A i \in 1 .. m + 1 : i # 1 => i - 1 \in 1 .. m
      OBVIOUS
    <3>2. \A i \in 1 .. m + 1 : i # 1 => f[i - 1] = g[i - 1]
      BY <2>2, <3>1
    <3> QED
      BY <3>2, Zenon
  <2>4. \A i \in 1 .. m + 1 : g[i] = IF i = 1 THEN K[i] ELSE g[i - 1] \o K[i]
    BY <2>3, Zenon
  <2>5. g = [i \in 1 .. m + 1 |-> g[i]]
    BY Zenon
  <2> HIDE DEF g
  <2>6. g = [i \in 1 .. m + 1 |-> IF i = 1 THEN K[i] ELSE g[i - 1] \o K[i]]
    BY <2>4, <2>5
  <2>7. Flattens(K, m + 1, g)
    BY <2>6, Zenon DEF Flattens
  <2> QED
    BY <2>7
<1>3. Nat \subseteq L
  <2> HIDE DEF L
  <2> QED
    BY <1>1, <1>2, NaturalsByInduction
<1> QED
  BY <1>3

\* What FlattenSeq has made of the first m lists: each list is at its offset.
Laid(K, off, s, m) ==
    /\ Len(s) = off[m + 1]
    /\ \A b \in 1 .. m : \A a \in 1 .. Len(K[b]) : s[off[b] + a] = K[b][a]

LEMMA LayOneMore ==
    ASSUME NEW T, NEW K \in Seq(Seq(T)), NEW off, Offsets(K, off),
           NEW m \in 1 .. Len(K) - 1, NEW s \in Seq(T), Laid(K, off, s, m), NEW k, k = m + 1
    PROVE  s \o K[k] \in Seq(T) /\ Laid(K, off, s \o K[k], k)
<1>1. k \in 1 .. Len(K) /\ K[k] \in Seq(T) /\ Len(K) \in Nat
  OBVIOUS
<1>2. PICK q : q = K[k]
  OBVIOUS
<1>3. /\ Len(s \o q) = Len(s) + Len(q)
      /\ \A i \in 1 .. Len(s) : (s \o q)[i] = s[i]
      /\ \A i \in 1 .. Len(q) : (s \o q)[Len(s) + i] = q[i]
      /\ s \o q \in Seq(T) /\ Len(q) \in Nat /\ Len(s) \in Nat
  BY <1>1, <1>2
<1>4. Len(s) = off[k] /\ off[k + 1] = off[k] + Len(q)
  BY <1>1, <1>2 DEF Laid, Offsets
<1>5. Len(s \o q) = off[k + 1]
  BY <1>3, <1>4
<1>6. ASSUME NEW b \in 1 .. k, NEW a \in 1 .. Len(K[b])
      PROVE  (s \o q)[off[b] + a] = K[b][a]
  <2>1. CASE b = k
    BY <1>2, <1>3, <1>4, <2>1
  <2>2. CASE b # k
    <3>1. b \in 1 .. m /\ b \in 1 .. Len(K) /\ b + 1 \in 1 .. Len(K) + 1 /\ k \in 1 .. Len(K) + 1 /\ b + 1 <= k /\ b \in 1 .. Len(K) + 1
      BY <1>1, <2>2
    <3>2. off[b + 1] <= off[k]
      BY <3>1, OffsetsGrow
    <3>3. off[b] \in Nat /\ off[b + 1] = off[b] + Len(K[b]) /\ off[k] \in Nat
      BY <3>1 DEF Offsets
    <3>4. PICK p, l, x, o, e : p = off[b] + a /\ l = Len(K[b]) /\ x = a /\ o = off[b] /\ e = off[b + 1]
      OBVIOUS
    <3>5. l \in Nat /\ x \in Nat /\ 1 <= x /\ x <= l
      <4>1. K[b] \in Seq(T)
        BY <3>1
      <4> QED
        BY <3>4, <4>1
    <3>6. p \in 1 .. Len(s)
      <4>1. p = o + x /\ e = o + l /\ o \in Nat /\ e <= off[k]
        BY <3>2, <3>3, <3>4
      <4>2. Len(s) \in Nat /\ Len(s) = off[k]
        BY <1>3, <1>4
      <4> QED
        BY <3>5, <4>1, <4>2
    <3>7. s[p] = K[b][a]
      BY <3>1, <3>4 DEF Laid
    <3> QED
      BY <1>3, <3>4, <3>6, <3>7
  <2> QED
    BY <2>1, <2>2
<1> QED
  BY <1>2, <1>3, <1>5, <1>6 DEF Laid

\* FlattenSeq lays each list at its offset.
LEMMA FlattenLays ==
    ASSUME NEW T, NEW K \in Seq(Seq(T)), Len(K) > 0, NEW off, Offsets(K, off)
    PROVE  \A b \in 1 .. Len(K) : \A a \in 1 .. Len(K[b]) : FlattenSeq(K)[off[b] + a] = K[b][a]
<1> DEFINE fl == CHOOSE f : f = [i \in 1 .. Len(K) |-> IF i = 1 THEN K[i] ELSE f[i - 1] \o K[i]]
<1>1. Len(K) \in Nat
  OBVIOUS
<1>2. FlattenSeq(K) = fl[Len(K)]
  BY <1>1 DEF FlattenSeq
<1>3. Flattens(K, Len(K), fl)
  <2>1. \E f : f = [i \in 1 .. Len(K) |-> IF i = 1 THEN K[i] ELSE f[i - 1] \o K[i]]
    BY <1>1, FlattensExists DEF Flattens
  <2> QED
    BY <2>1, Zenon DEF Flattens
<1> HIDE DEF fl
<1>4. \A i \in 1 .. Len(K) : fl[i] = IF i = 1 THEN K[i] ELSE fl[i - 1] \o K[i]
  BY <1>3, Zenon DEF Flattens
<1> DEFINE L == {m \in Nat : m \in 1 .. Len(K) => fl[m] \in Seq(T) /\ Laid(K, off, fl[m], m)}
<1>5. 0 \in L
  OBVIOUS
<1>6. ASSUME NEW m \in Nat, m \in L
      PROVE  m + 1 \in L
  <2> SUFFICES ASSUME m + 1 \in 1 .. Len(K)
               PROVE  fl[m + 1] \in Seq(T) /\ Laid(K, off, fl[m + 1], m + 1)
    OBVIOUS
  <2>1. CASE m = 0
    <3>1. m + 1 = 1 /\ 1 \in 1 .. Len(K)
      BY <2>1
    <3>2. fl[1] = K[1]
      BY <1>4, <3>1
    <3>3. off[1] = 0 /\ off[1 + 1] = off[1] + Len(K[1]) /\ K[1] \in Seq(T)
      BY <3>1 DEF Offsets
    <3>4. \A b \in 1 .. 1 : b = 1
      OBVIOUS
    <3>5. \A a \in 1 .. Len(K[1]) : 0 + a = a
      OBVIOUS
    <3>6. Len(K[1]) = off[1 + 1]
      BY <3>3
    <3>7. Laid(K, off, fl[1], 1)
      BY <3>2, <3>3, <3>4, <3>5, <3>6 DEF Laid
    <3> QED
      BY <3>1, <3>2, <3>3, <3>7
  <2>2. CASE m # 0
    <3>1. m \in 1 .. Len(K) - 1 /\ m \in 1 .. Len(K)
      BY <1>1, <2>2
    <3>2. PICK k, s : k = m + 1 /\ s = fl[m]
      OBVIOUS
    <3>3. s \in Seq(T) /\ Laid(K, off, s, m)
      BY <1>6, <3>1, <3>2
    <3>4. s \o K[k] \in Seq(T) /\ Laid(K, off, s \o K[k], k)
      BY <3>1, <3>2, <3>3, LayOneMore
    <3>5. fl[k] = s \o K[k]
      <4>1. k \in 1 .. Len(K) /\ k # 1 /\ k - 1 = m
        BY <1>1, <3>1, <3>2
      <4> QED
        BY <1>4, <3>2, <4>1
    <3> QED
      BY <3>2, <3>4, <3>5
  <2> QED
    BY <2>1, <2>2
<1>7. Nat \subseteq L
  <2> HIDE DEF L
  <2> QED
    BY <1>5, <1>6, NaturalsByInduction
<1>8. Laid(K, off, fl[Len(K)], Len(K))
  BY <1>1, <1>7
<1> QED
  BY <1>2, <1>8 DEF Laid

\* The offsets that build_batch_graph computes.
LEMMA SumsAreOffsets ==
    ASSUME NEW T, NEW K \in Seq(Seq(T)), NEW off,
           off = [b \in 1 .. Len(K) + 1 |-> SumFunction([i \in 1 .. b - 1 |-> Len(K[i])])]
    PROVE  Offsets(K, off)
<1> DEFINE n == Len(K)
           H(m) == [i \in 1 .. m |-> Len(K[i])]
<1>1. n \in Nat /\ \A i \in 1 .. n : Len(K[i]) \in Nat
  <2>1. \A i \in 1 .. n : K[i] \in Seq(T)
    OBVIOUS
  <2> QED
    BY <2>1
<1>2. \A m \in 0 .. n : off[m + 1] = SumFunction(H(m))
  <2> SUFFICES ASSUME NEW m \in 0 .. n
               PROVE  off[m + 1] = SumFunction(H(m))
    OBVIOUS
  <2>1. PICK b : b = m + 1
    OBVIOUS
  <2>2. b \in 1 .. n + 1 /\ b - 1 = m
    BY <1>1, <2>1
  <2>3. off[b] = SumFunction([i \in 1 .. b - 1 |-> Len(K[i])])
    BY <2>2
  <2> QED
    BY <2>1, <2>2, <2>3
<1>3. \A m \in 0 .. n : H(m) \in [1 .. m -> Nat]
  BY <1>1
<1>4. SumFunction(H(0)) = 0
  <2>1. DOMAIN H(0) = {}
    OBVIOUS
  <2> QED
    BY <2>1, SumOfNone
<1>5. ASSUME NEW m \in 1 .. n
      PROVE  off[m] \in Nat /\ off[m + 1] = off[m] + Len(K[m]) /\ off[m + 1] \in Nat
  <2>1. PICK l : l = m - 1
    OBVIOUS
  <2>2. l \in Nat /\ l \in 0 .. n /\ m = l + 1 /\ m \in 0 .. n
    BY <1>1, <2>1
  <2>3. PICK h, g : h = H(l) /\ g = H(m)
    OBVIOUS
  <2>4. h \in [1 .. l -> Nat] /\ g \in [1 .. m -> Nat]
    BY <1>3, <2>2, <2>3
  <2>5. g[m] = Len(K[m]) /\ \A x \in 1 .. l : g[x] = h[x]
    BY <2>2, <2>3
  <2> HIDE DEF H
  <2>6. SumFunction(g) = SumFunction(h) + g[m] /\ SumFunction(g) \in Nat /\ SumFunction(h) \in Nat
    BY <2>2, <2>4, <2>5, SumOfLonger
  <2> QED
    BY <1>2, <2>2, <2>3, <2>5, <2>6
<1>6. off[1] = 0
  <2>1. 0 \in 0 .. n /\ 0 + 1 = 1
    BY <1>1
  <2> HIDE DEF H
  <2> QED
    BY <1>2, <1>4, <2>1
<1>7. \A b \in 1 .. n + 1 : off[b] \in Nat
  <2> SUFFICES ASSUME NEW b \in 1 .. n + 1
               PROVE  off[b] \in Nat
    OBVIOUS
  <2>1. CASE b \in 1 .. n
    BY <1>5, <2>1
  <2>2. CASE b = n + 1 /\ n # 0
    <3>1. n \in 1 .. n
      BY <1>1, <2>2
    <3> QED
      BY <1>5, <2>2, <3>1
  <2>3. CASE b = 1
    BY <1>6, <2>3
  <2> QED
    BY <1>1, <2>1, <2>2, <2>3
<1>8. off \in [1 .. n + 1 -> Nat]
  <2>1. off = [b \in 1 .. n + 1 |-> off[b]]
    OBVIOUS
  <2> QED
    BY <1>7, <2>1
<1> QED
  BY <1>5, <1>6, <1>8 DEF Offsets

\* The edges that build_batch_graph makes of one sample.
LEMMA EdgesOfSample ==
    ASSUME NEW c \in Column, NEW keep, Kept(keep, c), NEW o \in Nat, NEW adj, adj = Within(keep), NEW d
    PROVE  (\E e \in Positive(adj) : d = [src |-> o + e[1], dst |-> o + e[2], w |-> adj[e[1]][e[2]]])
               <=> \E a \in 1 .. Len(keep) : \E x \in From(keep, a) : d = Edge(keep, o, x, a)
<1> DEFINE n == Len(keep)
<1>1. \A a, x \in 1 .. n : adj[x][a] = Into(keep, a)[x]
  BY WithinSymmetric
<1>2. DOMAIN adj = 1 .. n
  BY DEF Within
<1>3. ASSUME NEW e \in Positive(adj), d = [src |-> o + e[1], dst |-> o + e[2], w |-> adj[e[1]][e[2]]]
      PROVE  \E a \in 1 .. n : \E x \in From(keep, a) : d = Edge(keep, o, x, a)
  <2>1. e[1] \in 1 .. n /\ e[2] \in 1 .. n /\ adj[e[1]][e[2]] > 0
    BY <1>2 DEF Positive
  <2>2. e[1] \in From(keep, e[2]) /\ d = Edge(keep, o, e[1], e[2])
    BY <1>1, <1>3, <2>1 DEF From, Edge
  <2> QED
    BY <2>1, <2>2
<1>4. ASSUME NEW a \in 1 .. n, NEW x \in From(keep, a), d = Edge(keep, o, x, a)
      PROVE  \E e \in Positive(adj) : d = [src |-> o + e[1], dst |-> o + e[2], w |-> adj[e[1]][e[2]]]
  <2>1. x \in 1 .. n /\ adj[x][a] > 0 /\ adj[x][a] = Into(keep, a)[x]
    BY <1>1 DEF From
  <2>2. <<x, a>> \in Positive(adj)
    BY <1>2, <2>1 DEF Positive
  <2>3. d = [src |-> o + <<x, a>>[1], dst |-> o + <<x, a>>[2], w |-> adj[<<x, a>>[1]][<<x, a>>[2]]]
    BY <1>4, <2>1 DEF Edge
  <2> QED
    BY <2>2, <2>3
<1> QED
  BY <1>3, <1>4

\* The nodes of a sample.
NodesOf(s, keep) == \E c \in Column : Kept(keep, c) /\ \E t : s = Padded(keep, c, t)

\* Graphs side by side: each sample's nodes and edges, at its offset.
LEMMA SideBySide ==
    ASSUME NEW K \in Seq(Seq(Column)), NEW off, Offsets(K, off), NEW g,
           \A b \in 1 .. Len(K) : \A a \in 1 .. Len(K[b]) : g.X[off[b] + a] = K[b][a],
           \A d : d \in g.edges <=>
               \E b \in 1 .. Len(K) : \E a \in 1 .. Len(K[b]) : \E x \in From(K[b], a) : d = Edge(K[b], off[b], x, a)
    PROVE  \A b \in 1 .. Len(K) : Holds(g, K[b], off[b])
<1> SUFFICES ASSUME NEW b \in 1 .. Len(K), NEW a \in 1 .. Len(K[b])
             PROVE  {d \in g.edges : d.dst = off[b] + a} = {Edge(K[b], off[b], x, a) : x \in From(K[b], a)}
  BY Zenon DEF Holds
<1>1. \A k, o, x, y : Edge(k, o, x, y).dst = o + y
  BY DEF Edge
<1>2. ASSUME NEW d \in g.edges, d.dst = off[b] + a
      PROVE  d \in {Edge(K[b], off[b], x, a) : x \in From(K[b], a)}
  <2>1. PICK c \in 1 .. Len(K) : \E y \in 1 .. Len(K[c]) : \E x \in From(K[c], y) : d = Edge(K[c], off[c], x, y)
    BY Zenon
  <2>2. PICK y \in 1 .. Len(K[c]) : \E x \in From(K[c], y) : d = Edge(K[c], off[c], x, y)
    BY <2>1, Zenon
  <2>3. PICK x \in From(K[c], y) : d = Edge(K[c], off[c], x, y)
    BY <2>2, Zenon
  <2>4. off[b] + a = off[c] + y
    <3>1. d.dst = off[c] + y
      BY ONLY <1>1, <2>3
    <3> QED
      BY ONLY <1>2, <3>1
  <2>5. b = c /\ a = y
    BY <2>4, PlacesApart
  <2> QED
    BY <2>3, <2>5, Zenon
<1>3. ASSUME NEW x \in From(K[b], a)
      PROVE  Edge(K[b], off[b], x, a) \in g.edges /\ Edge(K[b], off[b], x, a).dst = off[b] + a
  <2>1. Edge(K[b], off[b], x, a).dst = off[b] + a
    BY ONLY <1>1
  <2>2. PICK e : e = Edge(K[b], off[b], x, a)
    OBVIOUS
  <2>3. e \in g.edges
    BY <2>2, Zenon
  <2> QED
    BY ONLY <2>1, <2>2, <2>3
<1> QED
  BY <1>2, <1>3, Zenon

\* The same as EdgesOfSample, of any list of nodes.
LEMMA EdgesOfAny ==
    ASSUME NEW d
    PROVE  \A keep, o, adj : (\E c \in Column : Kept(keep, c)) /\ o \in Nat /\ adj = Within(keep) =>
               ((\E e \in Positive(adj) : d = [src |-> o + e[1], dst |-> o + e[2], w |-> adj[e[1]][e[2]]])
                    <=> \E a \in 1 .. Len(keep) : \E x \in From(keep, a) : d = Edge(keep, o, x, a))
<1> SUFFICES ASSUME NEW keep, NEW o, NEW adj, NEW c \in Column, Kept(keep, c), o \in Nat, adj = Within(keep)
             PROVE  ((\E e \in Positive(adj) : d = [src |-> o + e[1], dst |-> o + e[2], w |-> adj[e[1]][e[2]]])
                    <=> \E a \in 1 .. Len(keep) : \E x \in From(keep, a) : d = Edge(keep, o, x, a))
  BY Zenon
<1> QED
  BY EdgesOfSample, SMTT(30)

\* The batched graph holds every sample.
LEMMA BatchHolds ==
    ASSUME NEW B, NEW K \in Seq(Seq(Column)), Len(K) > 0, DOMAIN B = 1 .. Len(K),
           \A b \in 1 .. Len(K) : NodesOf(B[b], K[b]),
           NEW g, g = sparse_from_padded(B)
    PROVE  \E off : Offsets(K, off) /\ \A b \in 1 .. Len(K) : g.roots[b] = off[b] + 1 /\ Holds(g, K[b], off[b])
<1> DEFINE n == Len(K)
<1>a. PICK off : off = [b \in 1 .. Len(K) + 1 |-> SumFunction([i \in 1 .. b - 1 |-> Len(K[i])])]
  OBVIOUS
<1>0. n \in Nat /\ K = [b \in 1 .. n |-> K[b]]
  OBVIOUS
<1>1. Offsets(K, off)
  BY <1>a, SumsAreOffsets
<1>2. PICK U : U = [b \in DOMAIN B |-> Unpadded(B[b])]
  OBVIOUS
<1>3. DOMAIN U = 1 .. n /\ \A b \in 1 .. n : U[b].hist = K[b] /\ U[b].adj = Within(K[b])
  <2>1. DOMAIN U = 1 .. n /\ \A b \in 1 .. n : U[b] = Unpadded(B[b])
    BY <1>2
  <2>2. ASSUME NEW b \in 1 .. n
        PROVE  Unpadded(B[b]).hist = K[b] /\ Unpadded(B[b]).adj = Within(K[b])
    <3>1. PICK keep, s : keep = K[b] /\ s = B[b]
      OBVIOUS
    <3>2. PICK c \in Column : Kept(keep, c) /\ \E t : s = Padded(keep, c, t)
      BY <3>1 DEF NodesOf
    <3>3. PICK t : s = Padded(keep, c, t)
      BY <3>2
    <3>4. Unpadded(s).hist = keep
      BY <3>2, <3>3, UnpaddedNodes
    <3>5. Unpadded(s).adj = Within(keep)
      BY <3>2, <3>3, UnpaddedWeights DEF Within
    <3> QED
      BY <3>1, <3>4, <3>5
  <2> QED
    BY <2>1, <2>2
<1> DEFINE of(b) == SumFunction([i \in 1 .. b - 1 |-> Len(U[i].hist)])
           Made(b) == {[src |-> of(b) + e[1], dst |-> of(b) + e[2], w |-> U[b].adj[e[1]][e[2]]] : e \in Positive(U[b].adj)}
<1>4. \A b \in 1 .. n : of(b) = off[b]
  <2> SUFFICES ASSUME NEW b \in 1 .. n
               PROVE  of(b) = off[b]
    OBVIOUS
  <2>1. b \in 1 .. n + 1 /\ \A i \in 1 .. b - 1 : i \in 1 .. n
    BY <1>0
  <2>2. [i \in 1 .. b - 1 |-> Len(U[i].hist)] = [i \in 1 .. b - 1 |-> Len(K[i])]
    <3>1. \A i \in 1 .. b - 1 : Len(U[i].hist) = Len(K[i])
      BY <1>3, <2>1
    <3> QED
      BY <3>1
  <2>3. off[b] = SumFunction([i \in 1 .. b - 1 |-> Len(K[i])])
    BY <1>a, <2>1
  <2> QED
    BY <2>2, <2>3
<1>5. /\ g.X = FlattenSeq(K)
      /\ g.edges = UNION {Made(b) : b \in 1 .. n}
      /\ g.roots = [b \in 1 .. n |-> of(b) + 1]
  <2>1. g = build_batch_graph(U)
    <3>1. DOMAIN U = DOMAIN B
      BY <1>2
    <3> QED
      BY <1>2 DEF sparse_from_padded
  <2>2. [b \in DOMAIN U |-> U[b].hist] = K
    <3>1. \A b \in 1 .. n : U[b].hist = K[b]
      BY <1>3
    <3> QED
      BY <1>0, <1>3, <3>1
  <2>3. PICK X, E, R : X = FlattenSeq(K) /\ E = UNION {Made(b) : b \in 1 .. n} /\ R = [b \in 1 .. n |-> of(b) + 1]
    OBVIOUS
  <2>4. g = [X |-> X, edges |-> E, roots |-> R]
    BY <1>3, <2>1, <2>2, <2>3 DEF build_batch_graph
  <2>5. g.X = X /\ g.edges = E /\ g.roots = R
    BY ONLY <2>4
  <2> QED
    BY <2>3, <2>5, Zenon
<1> HIDE DEF of
<1>6. \A b \in 1 .. n : \A a \in 1 .. Len(K[b]) : g.X[off[b] + a] = K[b][a]
  <2>1. \A b \in 1 .. Len(K) : \A a \in 1 .. Len(K[b]) : FlattenSeq(K)[off[b] + a] = K[b][a]
    <3>1. K \in Seq(Seq(Column)) /\ Len(K) > 0 /\ Offsets(K, off)
      BY <1>1
    <3> QED
      BY ONLY <3>1, FlattenLays
  <2> QED
    BY <1>5, <2>1, Zenon
<1>7. ASSUME NEW d
      PROVE  d \in g.edges <=>
                 \E b \in 1 .. n : \E a \in 1 .. Len(K[b]) : \E x \in From(K[b], a) : d = Edge(K[b], off[b], x, a)
  <2>1. d \in g.edges <=> \E b \in 1 .. n : d \in Made(b)
    <3> HIDE DEF Made
    <3> QED
      BY <1>5
  <2> DEFINE New(adj, o) == \E e \in Positive(adj) : d = [src |-> o + e[1], dst |-> o + e[2], w |-> adj[e[1]][e[2]]]
             Old(keep, o) == \E a \in 1 .. Len(keep) : \E x \in From(keep, a) : d = Edge(keep, o, x, a)
  <2>2. \A keep, o, adj : (\E c \in Column : Kept(keep, c)) /\ o \in Nat /\ adj = Within(keep) => (New(adj, o) <=> Old(keep, o))
    BY EdgesOfAny
  <2>3. \A b \in 1 .. n : d \in Made(b) <=> New(U[b].adj, of(b))
    OBVIOUS
  <2> HIDE DEF Made, New, Old
  <2>4. ASSUME NEW b \in 1 .. n
        PROVE  d \in Made(b) <=> Old(K[b], off[b])
    <3>1. \E c \in Column : Kept(K[b], c)
      BY DEF NodesOf
    <3>2. b \in 1 .. n + 1
      BY <1>0
    <3>3. off[b] \in Nat
      BY <1>1, <3>2 DEF Offsets
    <3>4. New(U[b].adj, off[b]) <=> Old(K[b], off[b])
      BY ONLY <1>3, <2>2, <3>1, <3>3, Zenon
    <3> QED
      BY <1>4, <2>3, <3>4, Zenon
  <2>5. (\E b \in 1 .. n : d \in Made(b)) <=> \E b \in 1 .. n : Old(K[b], off[b])
    BY <2>4, Zenon
  <2> QED
    BY <2>1, <2>5 DEF Old
<1>8. \A b \in 1 .. n : Holds(g, K[b], off[b])
  <2>1. K \in Seq(Seq(Column)) /\ Offsets(K, off)
    BY <1>1
  <2>2. \A b \in 1 .. Len(K) : Holds(g, K[b], off[b])
    BY ONLY <2>1, <1>6, <1>7, SideBySide, Zenon
  <2> QED
    BY <2>2
<1>9. \A b \in 1 .. n : g.roots[b] = off[b] + 1
  BY <1>4, <1>5
<1> QED
  BY <1>1, <1>8, <1>9

\* A sample has its nodes, and the dense form gives its root what Refined says.
LEMMA SampleHasNodes ==
    ASSUME NEW s \in GraphSamples
    PROVE  \E keep \in Seq(Column) : NodesOf(s, keep) /\ DenseGraphStage(s) = Refined(keep)
<1>1. PICK c \in train_ids, t \in GraphSampleHours : \E k : Kept(k, c) /\ s = Padded(k, c, t)
  BY SampleOfColumn
<1>2. PICK keep : Kept(keep, c) /\ s = Padded(keep, c, t)
  BY <1>1
<1>3. c \in Column
  BY DEF train_ids
<1>4. keep \in Seq(Column)
  BY <1>2 DEF Kept
<1>5. NodesOf(s, keep)
  BY <1>2, <1>3 DEF NodesOf
<1>6. DenseGraphStage(s) = Refined(keep)
  BY <1>2, <1>3, DenseIsRefined
<1> QED
  BY <1>4, <1>5, <1>6

\* The two forms of the graph stage agree on each sample of a batch.
LEMMA StagesAgree ==
    ASSUME NEW B \in GraphBatches, NEW g, g = sparse_from_padded(B)
    PROVE  \A b \in DOMAIN B : GraphStage(g, g.roots[b]) = DenseGraphStage(B[b])
<1>1. PICK n \in 1 .. BatchSize : B \in [1 .. n -> GraphSamples]
  BY DEF GraphBatches
<1>2. n \in Nat /\ n > 0
  BY TrainingAssumption
<1> DEFINE Nodes(s) == CHOOSE keep \in Seq(Column) : NodesOf(s, keep) /\ DenseGraphStage(s) = Refined(keep)
<1>3. \A s \in GraphSamples : Nodes(s) \in Seq(Column) /\ NodesOf(s, Nodes(s)) /\ DenseGraphStage(s) = Refined(Nodes(s))
  BY SampleHasNodes
<1> HIDE DEF Nodes
<1>4. PICK K : K = [b \in 1 .. n |-> Nodes(B[b])]
  OBVIOUS
<1>5. /\ \A b \in 1 .. n : K[b] \in Seq(Column) /\ NodesOf(B[b], K[b]) /\ DenseGraphStage(B[b]) = Refined(K[b])
      /\ K \in Seq(Seq(Column)) /\ Len(K) = n /\ DOMAIN B = 1 .. n
  <2>1. \A b \in 1 .. n : K[b] \in Seq(Column) /\ NodesOf(B[b], K[b]) /\ DenseGraphStage(B[b]) = Refined(K[b])
    BY <1>1, <1>3, <1>4
  <2>2. K \in [1 .. n -> Seq(Column)]
    BY <1>4, <2>1
  <2>3. K \in Seq(Seq(Column)) /\ Len(K) = n
    BY <1>2, <2>2
  <2> QED
    BY <1>1, <2>1, <2>3
<1>7. PICK off : Offsets(K, off) /\ \A b \in 1 .. Len(K) : g.roots[b] = off[b] + 1 /\ Holds(g, K[b], off[b])
  <2>1. \A b \in 1 .. Len(K) : NodesOf(B[b], K[b])
    BY <1>5
  <2>2. K \in Seq(Seq(Column)) /\ Len(K) > 0 /\ DOMAIN B = 1 .. Len(K)
    BY <1>2, <1>5
  <2> QED
    BY <2>1, <2>2, BatchHolds
<1>8. ASSUME NEW b \in 1 .. n
      PROVE  GraphStage(g, g.roots[b]) = DenseGraphStage(B[b])
  <2>1. PICK o, keep : o = off[b] /\ keep = K[b]
    OBVIOUS
  <2>2. o \in Nat /\ Holds(g, keep, o) /\ g.roots[b] = o + 1
    <3>1. b \in 1 .. Len(K) + 1 /\ b \in 1 .. Len(K)
      BY <1>2, <1>5
    <3> QED
      BY <1>7, <2>1, <3>1 DEF Offsets
  <2>3. PICK c \in Column : Kept(keep, c)
    BY <1>5, <2>1 DEF NodesOf
  <2>4. GraphStage(g, o + 1) = Refined(keep)
    BY <2>2, <2>3, SparseIsRefined
  <2> QED
    BY <1>5, <2>1, <2>2, <2>4
<1> QED
  BY <1>5, <1>8

\* A batch of phase 2 gives every head what the exported models give it.
LEMMA BatchAgrees ==
    ASSUME NEW B \in GraphBatches, NEW graph_on \in [DOMAIN B -> BOOLEAN], NEW b \in DOMAIN B
    PROVE  graph_forward(HEADS, B, graph_on)[b]
               = IF graph_on[b] THEN GraphExport(HEADS, B[b]) ELSE EncoderExport(HEADS, B[b])
<1>1. PICK g : g = sparse_from_padded(B)
  OBVIOUS
<1>2. graph_forward(HEADS, B, graph_on)[b]
        = [h \in HEADS |-> HeadReads(h, B[b].own, IF graph_on[b] THEN {GraphStage(g, g.roots[b])} ELSE {})]
  BY <1>1 DEF graph_forward
<1>3. GraphStage(g, g.roots[b]) = DenseGraphStage(B[b])
  BY <1>1, StagesAgree
<1>4. CASE graph_on[b]
  BY <1>2, <1>3, <1>4, Zenon DEF GraphExport
<1>5. CASE ~graph_on[b]
  BY <1>2, <1>5, Zenon DEF EncoderExport
<1> QED
  BY <1>4, <1>5

\* The model that is exported computes what was trained, whatever the graph of columns,
\* the neighbours dropped, the number of samples in a batch and those it is applied to
\* (graph_forward, EncoderExport, GraphExport).
THEOREM GraphTheorem == ReleaseSpec => []GraphStagesAgree
<1>1. ReleaseInit => BatchInv
  BY DEF ReleaseInit, TrainInit, BatchInv
<1>2. BatchInv => GraphStagesAgree
  <2> SUFFICES ASSUME BatchInv, stage = "phase2",
                      NEW graph_on \in [DOMAIN batch -> BOOLEAN], NEW b \in DOMAIN batch
               PROVE  graph_forward(HEADS, batch, graph_on)[b]
                        = IF graph_on[b] THEN GraphExport(HEADS, batch[b]) ELSE EncoderExport(HEADS, batch[b])
    BY DEF GraphStagesAgree
  <2>1. batch # <<>>
    OBVIOUS
  <2>2. batch \in GraphBatches
    BY <2>1 DEF BatchInv
  <2> QED
    BY <2>2, BatchAgrees
<1> QED
  BY <1>1, <1>2, BatchStep, PTL DEF ReleaseSpec

-----------------------------------------------------------------------------
(* The registry and the node *)

\* The files by name.
LEMMA Files ==
    /\ FileName = {"encoder_fp32", "graph_fp32", "encoder_int8", "graph_int8", "manifest"}
    /\ \A i \in 1 .. 5 : FileOrder[i] \in FileName /\ (FileOrder[i] = "manifest" <=> i = 5)
    /\ Len(FileOrder) = 5
<1>1. \A i \in 1 .. 5 : \/ i = 1 /\ FileOrder[i] = "encoder_fp32"
                        \/ i = 2 /\ FileOrder[i] = "graph_fp32"
                        \/ i = 3 /\ FileOrder[i] = "encoder_int8"
                        \/ i = 4 /\ FileOrder[i] = "graph_int8"
                        \/ i = 5 /\ FileOrder[i] = "manifest"
  BY DEF FileOrder
<1>2. DOMAIN FileOrder = 1 .. 5 /\ Len(FileOrder) = 5
  BY DEF FileOrder
<1>3. FileName = {FileOrder[i] : i \in 1 .. 5}
  BY <1>2 DEF FileName, Range
<1>4. FileName = {"encoder_fp32", "graph_fp32", "encoder_int8", "graph_int8", "manifest"}
  BY <1>1, <1>3
<1> QED
  BY <1>1, <1>2, <1>3, <1>4

-----------------------------------------------------------------------------
(* The output directory *)

\* The manifest is the last file of an export: it is new only when the script is over.
OutInv ==
    /\ out \in [FileName -> Content]
    /\ stage = "export" => epoch \in 0 .. 4
    /\ stage # "end" => out["manifest"] # "new"

\* One file of the output directory is written.
LEMMA OutExcept ==
    ASSUME OutInv, NEW f \in FileName, NEW c \in Content, out' = [out EXCEPT ![f] = c]
    PROVE  /\ out' \in [FileName -> Content]
           /\ f # "manifest" \/ c # "new" => (out'["manifest"] = "new" => out["manifest"] = "new")
  BY Files DEF OutInv

\* What a step of the training script does to the output directory.
LEMMA OutStep ==
    ASSUME OutInv, TrainNext
    PROVE  OutInv' /\ (out["manifest"] = "new" => out' = out)
<1>1. CASE ExportFile
  <2>1. epoch + 1 \in 1 .. 5 /\ FileOrder[epoch + 1] \in FileName /\ stage = "export"
    BY <1>1, Files DEF ExportFile, OutInv
  <2>2. out' = [out EXCEPT ![FileOrder[epoch + 1]] = "new"] /\ out' \in [FileName -> Content]
    BY <1>1, <2>1, OutExcept DEF ExportFile, Content, Release
  <2>3. CASE epoch + 1 < 5 /\ epoch' = epoch + 1 /\ stage' = stage
    <3>1. FileOrder[epoch + 1] # "manifest"
      BY <2>1, <2>3, Files
    <3>2. out'["manifest"] # "new"
      BY <2>1, <2>2, <3>1, OutExcept DEF OutInv, Content, Release
    <3> QED
      BY <2>1, <2>2, <2>3, <3>2 DEF OutInv
  <2>4. CASE stage' = "end"
    BY <2>1, <2>2, <2>4 DEF OutInv
  <2> QED
    BY <1>1, <2>3, <2>4, Files DEF ExportFile, ProcessEnds
<1>2. CASE AbortExport
  <2>1. stage = "export" /\ stage' = "end" /\ out["manifest"] # "new" /\ epoch \in 0 .. 4
    BY <1>2 DEF AbortExport, ProcessEnds, OutInv
  <2>2. CASE out' = out
    BY <2>1, <2>2 DEF OutInv
  <2>3. CASE \E i \in {epoch + 1} \union (IF epoch = 2 THEN {1, 2} ELSE {}) :
                 out' = [out EXCEPT ![FileOrder[i]] = "partial"]
    <3>0. \A i \in {epoch + 1} \union (IF epoch = 2 THEN {1, 2} ELSE {}) : i \in 1 .. 5
      BY <2>1
    <3>1. PICK i \in 1 .. 5 : out' = [out EXCEPT ![FileOrder[i]] = "partial"]
      BY <2>3, <3>0, Zenon
    <3>2. out' \in [FileName -> Content]
      BY <3>1, Files, OutExcept DEF Content
    <3> QED
      BY <2>1, <3>2 DEF OutInv
  <2> QED
    BY <1>2, <2>2, <2>3 DEF AbortExport
<1>3. CASE ~ExportFile /\ ~AbortExport
  <2>1. CASE GenerateEvents \/ LabelCorpus \/ Split
    BY <2>1 DEF OutInv, GenerateEvents, LabelCorpus, Split, train_vars
  <2>2. CASE RestoreBest \/ EmbedAll \/ GraphEpoch \/ EndGraph \/ FitTemperatures
             \/ \E vloss \in Loss \union {NaN} : StandaloneEpoch(vloss)
    <3>1. /\ stage \in {"phase1", "embed", "phase2", "temperatures"}
          /\ stage' \in {"phase1", "embed", "phase2", "temperatures", "thresholds"}
          /\ out' = out
      BY <2>2, Zenon DEF RestoreBest, EmbedAll, GraphEpoch, EndGraph, FitTemperatures, StandaloneEpoch
    <3> QED
      BY <3>1 DEF OutInv
  <2>3. CASE CalibrateThresholds
    BY <2>3 DEF OutInv, CalibrateThresholds
  <2> QED
    BY <1>3, <2>1, <2>2, <2>3 DEF TrainNext
<1> QED
  BY <1>1, <1>2, <1>3
-----------------------------------------------------------------------------
(* The registry *)

\* What a promotion that is under way has verified is still there, and still verified
\* unless a push came since.
RegistryInv ==
    /\ RegistryTypeOK
    /\ CurrentCanBeLoaded
    /\ promoting # "absent" =>
           /\ dir[promoting]["manifest"] # "absent"
           /\ promoting \notin touched => verify_version(dir[promoting])

\* One file of a version directory is copied, whole or cut short.
LEMMA DirExcept ==
    ASSUME RegistryTypeOK, OutInv, NEW v \in Version, NEW f \in FileName, PushFile(v, f, out)
    PROVE  /\ dir' \in [Version -> [FileName -> Content]]
           /\ \A u \in Version \ {v} : dir'[u] = dir[u]
           /\ \A g \in FileName \ {f} : dir'[v][g] = dir[v][g]
           /\ dir'[v][f] \in {out[f], "partial"} \ {"absent"}
           /\ faults' \in 0 .. MaxFaults
<1>1. out[f] \in Content /\ "partial" \in Content /\ dir \in [Version -> [FileName -> Content]]
      /\ faults \in 0 .. MaxFaults /\ MaxFaults \in Nat
  BY RegistryAssumption DEF RegistryTypeOK, OutInv, Content
<1>2. PICK c \in {out[f], "partial"} : dir' = [dir EXCEPT ![v][f] = c]
  BY DEF PushFile
<1>3. faults' = faults \/ (faults < MaxFaults /\ faults' = faults + 1)
  BY DEF PushFile
<1>4. out[f] # "absent"
  BY DEF PushFile
<1> QED
  BY <1>1, <1>2, <1>3, <1>4

\* A copy makes no manifest go away.
LEMMA ManifestStays ==
    ASSUME RegistryTypeOK, OutInv, NEW v \in Version, NEW f \in FileName, PushFile(v, f, out),
           NEW u \in Version, dir[u]["manifest"] # "absent"
    PROVE  dir'[u]["manifest"] # "absent"
<1>1. "manifest" \in FileName
  BY Files
<1>2. CASE u # v
  BY <1>2, DirExcept
<1>3. CASE u = v /\ f # "manifest"
  BY <1>1, <1>3, DirExcept
<1>4. CASE u = v /\ f = "manifest"
  BY <1>4, DirExcept
<1> QED
  BY <1>2, <1>3, <1>4

\* The invariant holds initially.
LEMMA RegistryInvInit == RegistryInit => RegistryInv
<1> SUFFICES ASSUME RegistryInit PROVE RegistryInv
  OBVIOUS
<1>1. FirstVersion \in Version /\ "absent" \notin Version /\ MaxFaults \in Nat
  BY RegistryAssumption
<1>2. RegistryTypeOK
  <2>1. dir \in [Version -> [FileName -> Content]]
    BY DEF RegistryInit, Content, Release
  <2>2. /\ current \in Version /\ activated \subseteq Release /\ touched \subseteq Version
        /\ enc \in Content /\ gr \in Content /\ faults \in 0 .. MaxFaults
    BY <1>1 DEF RegistryInit, Content, Release
  <2>3. at_risk \in BOOLEAN
    BY DEF RegistryInit
  <2> QED
    BY <2>1, <2>2, <2>3, Zenon DEF RegistryInit, RegistryTypeOK
<1>3. \A f \in FileName : dir[current][f] = "old"
  BY <1>1 DEF RegistryInit
<1>4. CurrentCanBeLoaded
  BY <1>1, <1>3, Files DEF RegistryInit, CurrentCanBeLoaded, resolve_version, verify_version, Release, GraphFile
<1> QED
  BY <1>2, <1>4 DEF RegistryInv, RegistryInit

\* A push may change any directory, and then the version is among those touched; it
\* leaves the others as they were verified.
LEMMA RegistryInvStep == OutInv /\ RegistryInv /\ [ReleaseNext]_vars => RegistryInv'
<1> SUFFICES ASSUME OutInv, RegistryInv, [ReleaseNext]_vars
             PROVE  RegistryInv'
  OBVIOUS
<1> USE DEF RegistryInv
<1>0. "absent" \notin Version /\ MaxFaults \in Nat
  BY RegistryAssumption
<1>1. CASE UNCHANGED registry_vars
  BY <1>1 DEF registry_vars, RegistryTypeOK, CurrentCanBeLoaded, resolve_version, verify_version
<1>2. ASSUME NEW v \in Version, NEW f \in FileName, PushFile(v, f, out)
      PROVE  RegistryInv'
  <2>1. /\ UNCHANGED <<current, tmp, promoting, node, bundle, enc, gr>>
        /\ activated' = activated \union WholeIn(dir'[current])
        /\ touched' = touched \union ({v} \intersect {current, promoting})
        /\ at_risk' = (at_risk \/ (Opening /\ v = bundle))
    BY <1>2, Zenon DEF PushFile, node_vars
  <2>2. RegistryTypeOK'
    <3>1. activated' \subseteq Release /\ touched' \subseteq Version
      BY <2>1 DEF RegistryTypeOK, WholeIn
    <3>2. at_risk' \in BOOLEAN
      BY <2>1, Zenon DEF RegistryTypeOK
    <3>3. dir' \in [Version -> [FileName -> Content]] /\ faults' \in 0 .. MaxFaults
      BY <1>2, DirExcept
    <3> QED
      BY <2>1, <3>1, <3>2, <3>3, Zenon DEF RegistryTypeOK
  <2>3. ASSUME NEW u \in Version, u \in {current, promoting}, dir[u]["manifest"] # "absent",
               u \notin touched => verify_version(dir[u])
        PROVE  dir'[u]["manifest"] # "absent" /\ (u \notin touched' => verify_version(dir'[u]))
    <3>1. dir'[u]["manifest"] # "absent"
      BY <1>2, <2>3, ManifestStays
    <3>2. CASE u = v
      BY <2>1, <2>3, <3>1, <3>2
    <3>3. CASE u # v
      <4>1. dir'[u] = dir[u] /\ (u \notin touched' => u \notin touched)
        BY <1>2, <2>1, <3>3, DirExcept
      <4> QED
        BY <2>3, <3>1, <4>1
    <3> QED
      BY <3>2, <3>3
  <2>4. current \in Version /\ (promoting # "absent" => promoting \in Version)
    BY DEF RegistryTypeOK, CurrentCanBeLoaded, resolve_version
  <2>5. CurrentCanBeLoaded'
    BY <2>1, <2>3, <2>4 DEF CurrentCanBeLoaded, resolve_version
  <2> QED
    BY <2>1, <2>2, <2>3, <2>4, <2>5
<1>3. ASSUME NEW v \in Version, SetCurrentVerify(v)
      PROVE  RegistryInv'
  <2>1. /\ promoting' = v /\ touched' = touched \ {v} /\ verify_version(dir[v])
        /\ UNCHANGED <<dir, current, tmp, node, bundle, enc, gr, activated, at_risk, faults>>
    BY <1>3 DEF SetCurrentVerify, node_vars
  <2>2. RegistryTypeOK'
    BY <2>1 DEF RegistryTypeOK
  <2>3. dir[v]["manifest"] # "absent"
    BY <2>1 DEF verify_version, Release
  <2>4. CurrentCanBeLoaded'
    BY <2>1 DEF CurrentCanBeLoaded, resolve_version, verify_version
  <2> QED
    BY <2>1, <2>2, <2>3, <2>4 DEF verify_version
<1>4. CASE SetCurrentWrite
  BY <1>4 DEF SetCurrentWrite, RegistryTypeOK, CurrentCanBeLoaded, resolve_version, verify_version, node_vars
<1>5. CASE SetCurrentReplace
  <2>1. /\ promoting \in Version /\ tmp = promoting /\ dir[promoting]["manifest"] # "absent"
        /\ promoting \notin touched => verify_version(dir[promoting])
    BY <1>5 DEF SetCurrentReplace, RegistryTypeOK
  <2>2. /\ current' = tmp /\ tmp' = "absent" /\ promoting' = "absent"
        /\ activated' = activated \union WholeIn(dir[tmp])
        /\ touched' = touched \intersect {tmp}
        /\ UNCHANGED <<dir, node, bundle, enc, gr, at_risk, faults>>
    BY <1>5 DEF SetCurrentReplace, node_vars
  <2>3. RegistryTypeOK'
    BY <2>1, <2>2 DEF RegistryTypeOK, WholeIn
  <2>4. CurrentCanBeLoaded'
    BY <1>0, <2>1, <2>2 DEF CurrentCanBeLoaded, resolve_version, verify_version
  <2> QED
    BY <2>2, <2>3, <2>4
<1>6. CASE CutPromotion
  <2>1. faults' \in 0 .. MaxFaults
    <3>1. faults \in 0 .. MaxFaults
      BY DEF RegistryTypeOK
    <3>2. faults < MaxFaults /\ faults' = faults + 1
      BY <1>6 DEF CutPromotion
    <3> QED
      BY <1>0, <3>1, <3>2
  <2>2. /\ tmp' \in {tmp, "partial"} /\ promoting' = "absent" /\ touched' = touched \intersect {current}
        /\ UNCHANGED <<dir, current, node, bundle, enc, gr, activated, at_risk>>
    BY <1>6 DEF CutPromotion, node_vars
  <2>3. RegistryTypeOK'
    BY <2>1, <2>2 DEF RegistryTypeOK
  <2> QED
    BY <2>2, <2>3 DEF CurrentCanBeLoaded, resolve_version, verify_version
<1>7. CASE NodeNext
  <2>1. RegistryTypeOK'
    <3>1. CASE LoadBundle
      BY <3>1 DEF LoadBundle, RegistryTypeOK, resolve_version
    <3>2. CASE OpenEncoder
      BY <3>2 DEF OpenEncoder, RegistryTypeOK, Content
    <3>3. CASE OpenGraph
      BY <3>3 DEF OpenGraph, RegistryTypeOK, Content
    <3>4. CASE NodeStops
      BY <3>4 DEF NodeStops, RegistryTypeOK, Content
    <3> QED
      BY <1>7, <3>1, <3>2, <3>3, <3>4 DEF NodeNext
  <2>2. UNCHANGED <<dir, current, promoting, touched>>
    BY <1>7 DEF NodeNext, LoadBundle, OpenEncoder, OpenGraph, NodeStops
  <2> QED
    BY <2>1, <2>2 DEF CurrentCanBeLoaded, resolve_version, verify_version
<1> QED
  BY <1>1, <1>2, <1>3, <1>4, <1>5, <1>6, <1>7 DEF ReleaseNext, vars, OperatorNext, Push

\* However often a push, a promotion or a start was cut short and wherever files are
\* pushed, CURRENT names a version that is there, and one that can be loaded unless a
\* push changed its directory after set_current had verified it (set_current verifies
\* and then replaces CURRENT in one step; nothing keeps a push away in between).
THEOREM CurrentTheorem == ReleaseSpec => [](RegistryTypeOK /\ CurrentCanBeLoaded)
<1>1. ReleaseInit => OutInv /\ RegistryInv
  <2>1. TrainInit => OutInv
    BY Files DEF TrainInit, OutInv, Content, Release
  <2> QED
    BY <2>1, RegistryInvInit DEF ReleaseInit
<1>2. OutInv /\ [ReleaseNext]_vars => OutInv'
  <2>1. CASE UNCHANGED train_vars
    BY <2>1 DEF train_vars, OutInv
  <2> QED
    BY <2>1, OutStep DEF ReleaseNext, vars
<1>3. RegistryInv => RegistryTypeOK /\ CurrentCanBeLoaded
  BY DEF RegistryInv
<1> QED
  BY <1>1, <1>2, <1>3, RegistryInvStep, PTL DEF ReleaseSpec

\* Directories, CURRENT, the promotion under way and the sessions keep their types
\* (model_registry.py).
THEOREM RegistryTypeTheorem == ReleaseSpec => []RegistryTypeOK
  BY CurrentTheorem, PTL

-----------------------------------------------------------------------------
(* The refinement *)

\* The new manifest is nowhere before the export wrote it, CURRENT's directory holds
\* nothing whole that was not activated, and until a push comes the bundle is what
\* the node verified.
BundleAsVerified ==
    /\ bundle \in Version /\ verify_version(dir[bundle])
    /\ dir[bundle]["manifest"] \in activated
    /\ node = "encoder open" => enc = dir[bundle]["manifest"]

ServiceInv ==
    /\ \A v \in Version : dir[v]["manifest"] = "new" => out["manifest"] = "new"
    /\ "new" \in activated => out["manifest"] = "new"
    /\ WholeIn(dir[current]) \subseteq activated
    /\ Opening /\ ~at_risk => BundleAsVerified
    /\ node = "encoder open" => enc \in Release

\* The files the node opens are among those the manifest lists.
LEMMA FilesOpened == EncoderFile \in GraphFile /\ GraphFileUsed \in GraphFile
  BY Files DEF EncoderFile, GraphFileUsed, GraphFile

LEMMA ServiceInvInit == TrainInit /\ RegistryInit => ServiceInv
<1> SUFFICES ASSUME TrainInit, RegistryInit PROVE ServiceInv
  OBVIOUS
<1>1. FirstVersion \in Version
  BY RegistryAssumption
<1>2. /\ activated = {"old"} /\ current = FirstVersion /\ node = "down"
      /\ \A v \in Version, f \in FileName : dir[v][f] = IF v = FirstVersion THEN "old" ELSE "absent"
      /\ "manifest" \in FileName
  BY Files DEF RegistryInit
<1>3. WholeIn(dir[current]) \subseteq {"old"}
  BY <1>1, <1>2 DEF WholeIn
<1> QED
  BY <1>1, <1>2, <1>3 DEF ServiceInv, Opening

\* A copy puts into a directory what the output directory has.
LEMMA ManifestCopied ==
    ASSUME RegistryTypeOK, OutInv, ServiceInv, NEW v \in Version, NEW f \in FileName, PushFile(v, f, out)
    PROVE  \A u \in Version : dir'[u]["manifest"] = "new" => out["manifest"] = "new"
<1>1. "manifest" \in FileName
  BY Files
<1>2. ASSUME NEW u \in Version, dir'[u]["manifest"] = "new" PROVE out["manifest"] = "new"
  <2>1. CASE u = v /\ f = "manifest"
    BY <1>2, <2>1, DirExcept
  <2>2. CASE u = v /\ f # "manifest"
    <3>1. dir'[v]["manifest"] = dir[v]["manifest"]
      BY <1>1, <2>2, DirExcept
    <3> QED
      BY <1>2, <2>2, <3>1 DEF ServiceInv
  <2>3. CASE u # v
    <3>1. dir'[u] = dir[u]
      BY <2>3, DirExcept
    <3>2. dir[u]["manifest"] = "new" => out["manifest"] = "new"
      BY Zenon DEF ServiceInv
    <3> QED
      BY <1>2, <3>1, <3>2
  <2> QED
    BY <2>1, <2>2, <2>3
<1> QED
  BY <1>2

\* The step of the invariant: what comes to the bundle's directory while the node opens
\* it puts the bundle at risk.
LEMMA ServiceInvStep ==
    ASSUME OutInv, RegistryInv, ServiceInv, [ReleaseNext]_vars
    PROVE  ServiceInv'
<1> USE DEF ServiceInv
<1>0. RegistryTypeOK /\ "manifest" \in FileName /\ current \in Version
  BY Files DEF RegistryInv, RegistryTypeOK, CurrentCanBeLoaded, resolve_version
<1>1. CASE TrainNext /\ UNCHANGED registry_vars
  <2>1. out["manifest"] = "new" => out'["manifest"] = "new"
    BY <1>1, OutStep
  <2> QED
    BY <1>1, <2>1 DEF registry_vars, WholeIn, Opening, BundleAsVerified, verify_version
<1>2. CASE UNCHANGED vars
  BY <1>2 DEF vars, train_vars, registry_vars, WholeIn, Opening, BundleAsVerified, verify_version
<1>3. ASSUME NEW v \in Version, NEW f \in FileName, PushFile(v, f, out), UNCHANGED train_vars
      PROVE  ServiceInv'
  <2>1. /\ UNCHANGED <<current, node, bundle, enc, out>>
        /\ activated' = activated \union WholeIn(dir'[current])
        /\ at_risk' = (at_risk \/ (Opening /\ v = bundle))
    BY <1>3, Zenon DEF PushFile, node_vars, train_vars
  <2>2. \A u \in Version : dir'[u]["manifest"] = "new" => out["manifest"] = "new"
    BY <1>0, <1>3, ManifestCopied
  <2>3. "new" \in activated' => out["manifest"] = "new"
    BY <1>0, <2>1, <2>2 DEF WholeIn
  <2>4. WholeIn(dir[current])' \subseteq activated'
    <3>1. WholeIn(dir[current])' = WholeIn(dir'[current])
      BY <2>1 DEF WholeIn, verify_version
    <3> QED
      BY <2>1, <3>1
  <2>5. ASSUME Opening', ~at_risk' PROVE BundleAsVerified'
    <3>1. Opening
      BY <2>1, <2>5, Zenon DEF Opening
    <3>2. ~at_risk /\ v # bundle
      BY <2>1, <2>5, <3>1, Zenon
    <3>3. BundleAsVerified
      BY <3>1, <3>2
    <3>4. dir'[bundle] = dir[bundle]
      BY <1>0, <1>3, <3>2, <3>3, DirExcept DEF BundleAsVerified
    <3> QED
      BY <2>1, <3>3, <3>4 DEF BundleAsVerified, verify_version
  <2> QED
    BY <2>1, <2>2, <2>3, <2>4, <2>5
<1>4. CASE SetCurrentReplace /\ UNCHANGED train_vars
  <2>1. /\ tmp \in Version /\ current' = tmp
        /\ UNCHANGED <<dir, node, bundle, enc, at_risk, out>>
        /\ activated' = activated \union WholeIn(dir[tmp])
    BY <1>0, <1>4 DEF SetCurrentReplace, RegistryTypeOK, node_vars, train_vars
  <2>2. "new" \in activated' => out'["manifest"] = "new"
    BY <2>1 DEF WholeIn
  <2>3. WholeIn(dir[current])' = WholeIn(dir[tmp])
    BY <2>1 DEF WholeIn, verify_version
  <2>4. Opening' /\ ~at_risk' => BundleAsVerified'
    BY <2>1 DEF Opening, BundleAsVerified, verify_version
  <2> QED
    BY <2>1, <2>2, <2>3, <2>4
<1>5. CASE ((\E v \in Version : SetCurrentVerify(v)) \/ SetCurrentWrite \/ CutPromotion) /\ UNCHANGED train_vars
  <2>1. UNCHANGED <<dir, current, node, bundle, enc, activated, at_risk, out>>
    BY <1>5 DEF SetCurrentVerify, SetCurrentWrite, CutPromotion, node_vars, train_vars
  <2> QED
    BY <2>1 DEF WholeIn, Opening, BundleAsVerified, verify_version
<1>6. CASE NodeNext /\ UNCHANGED train_vars
  <2>1. UNCHANGED <<dir, current, activated, out>>
    BY <1>6 DEF NodeNext, LoadBundle, OpenEncoder, OpenGraph, NodeStops, train_vars
  <2>2. /\ \A v \in Version : dir'[v]["manifest"] = "new" => out'["manifest"] = "new"
        /\ "new" \in activated' => out'["manifest"] = "new"
        /\ WholeIn(dir[current])' \subseteq activated'
    BY <2>1 DEF WholeIn, verify_version
  <2>3. CASE LoadBundle
    <3>1. bundle' = current /\ node' = "loaded" /\ verify_version(dir[current])
      BY <2>3 DEF LoadBundle
    <3>2. dir[current]["manifest"] \in activated
      BY <3>1 DEF WholeIn, verify_version
    <3>3. BundleAsVerified'
      BY <1>0, <2>1, <3>1, <3>2 DEF BundleAsVerified, verify_version
    <3> QED
      BY <2>2, <3>1, <3>3
  <2>4. CASE OpenEncoder
    <3>1. /\ bundle' = bundle /\ at_risk' = at_risk /\ Opening /\ node' = "encoder open"
          /\ enc' = dir[bundle][EncoderFile] /\ dir[bundle][EncoderFile] \in Release
      BY <2>4 DEF OpenEncoder, Opening
    <3>2. ~at_risk' => BundleAsVerified'
      <4>1. ~at_risk' => BundleAsVerified
        BY <3>1, Zenon
      <4> QED
        BY <2>1, <3>1, <4>1, FilesOpened DEF BundleAsVerified, verify_version
    <3> QED
      BY <2>2, <3>1, <3>2
  <2>5. CASE OpenGraph \/ NodeStops
    <3>1. node' \in {"running", "down"}
      BY <2>5 DEF OpenGraph, NodeStops
    <3> QED
      BY <2>2, <3>1 DEF Opening
  <2> QED
    BY <1>6, <2>3, <2>4, <2>5 DEF NodeNext
<1> QED
  BY <1>1, <1>2, <1>3, <1>4, <1>5, <1>6 DEF ReleaseNext, OperatorNext, Push, vars, train_vars

\* A release that is whole in a version directory was published.
LEMMA WholeIsPublished ==
    ASSUME ServiceInv, NEW v \in Version
    PROVE  WholeIn(dir[v]) \in SUBSET Release
           /\ WholeIn(dir[v]) \subseteq {"old"} \union (IF out["manifest"] = "new" THEN {"new"} ELSE {})
  BY DEF ServiceInv, WholeIn, Release

\* The invariant of the refinement: every step of the release maps to a step of the
\* service or to a stuttering step.
LEMMA ServiceStep ==
    ASSUME OutInv, RegistryInv, ServiceInv, [ReleaseNext]_vars
    PROVE  [Service!Next]_(Service!service_vars)
<1>0. RegistryTypeOK /\ "manifest" \in FileName /\ "new" \in Release /\ "old" \in Release /\ at_risk \in BOOLEAN
  BY Files DEF RegistryInv, RegistryTypeOK, Release
<1> DEFINE published == {"old"} \union (IF out["manifest"] = "new" THEN {"new"} ELSE {})
           serving == IF node # "running" THEN "nothing" ELSE IF enc = gr THEN enc ELSE "a mixture"
<1> USE DEF Service!Next, Service!service_vars, Service!Publish, Service!Write, Service!Serve, Service!Stop
<1>1. CASE TrainNext /\ UNCHANGED registry_vars
  <2>1. out' = out \/ (out["manifest"] # "new")
    BY <1>1, OutStep
  <2>2. activated' = activated /\ at_risk' = at_risk /\ serving' = serving
    BY <1>1 DEF registry_vars
  <2>3. published' = published \/ published' = published \union {"new"}
    BY <2>1
  <2> QED
    BY <1>0, <2>2, <2>3
<1>2. CASE UNCHANGED vars
  BY <1>2 DEF vars, train_vars, registry_vars
<1>3. ASSUME NEW v \in Version, NEW f \in FileName, PushFile(v, f, out), UNCHANGED train_vars
      PROVE  [Service!Next]_(Service!service_vars)
  <2>1. /\ UNCHANGED <<node, enc, gr, out>> /\ activated' = activated \union WholeIn(dir'[current])
        /\ at_risk' = (at_risk \/ (Opening /\ v = bundle))
    BY <1>3, Zenon DEF PushFile, node_vars, train_vars
  <2>2. at_risk' \in {at_risk, TRUE}
    BY <1>0, <2>1, Zenon
  <2>3. ServiceInv' /\ current \in Version /\ current' = current
    BY <1>0, <1>3, ServiceInvStep
    DEF PushFile, RegistryInv, RegistryTypeOK, CurrentCanBeLoaded, resolve_version
  <2>4. WholeIn(dir'[current]) \subseteq published /\ WholeIn(dir'[current]) \in SUBSET Release
    <3>1. dir'[current]["manifest"] = "new" => out["manifest"] = "new"
      BY <2>1, <2>3 DEF ServiceInv
    <3> QED
      BY <3>1 DEF WholeIn, Release
  <2>5. published' = published /\ serving' = serving
    BY <2>1
  <2>6. Service!Write(WholeIn(dir'[current]))
    BY <2>1, <2>2, <2>4, <2>5
  <2> QED
    BY <2>4, <2>6
<1>4. CASE SetCurrentReplace /\ UNCHANGED train_vars
  <2>1. /\ tmp \in Version /\ UNCHANGED <<node, enc, gr, at_risk, out>>
        /\ activated' = activated \union WholeIn(dir[tmp])
    BY <1>0, <1>4 DEF SetCurrentReplace, RegistryTypeOK, node_vars, train_vars
  <2>2. WholeIn(dir[tmp]) \in SUBSET Release /\ WholeIn(dir[tmp]) \subseteq published
    BY <2>1, WholeIsPublished
  <2>3. published' = published /\ serving' = serving
    BY <2>1
  <2>4. Service!Write(WholeIn(dir[tmp]))
    BY <2>1, <2>2, <2>3
  <2> QED
    BY <2>2, <2>4
<1>5. CASE ((\E v \in Version : SetCurrentVerify(v)) \/ SetCurrentWrite \/ CutPromotion) /\ UNCHANGED train_vars
  <2>1. UNCHANGED <<node, enc, gr, activated, at_risk, out>>
    BY <1>5 DEF SetCurrentVerify, SetCurrentWrite, CutPromotion, node_vars, train_vars
  <2> QED
    BY <2>1
<1>6. CASE NodeNext /\ UNCHANGED train_vars
  <2>1. UNCHANGED <<activated, out>>
    BY <1>6 DEF NodeNext, LoadBundle, OpenEncoder, OpenGraph, NodeStops, train_vars
  <2>2. published' = published
    BY <2>1
  <2>3. CASE LoadBundle \/ OpenEncoder
    <3>1. node # "running" /\ node' # "running" /\ at_risk' = at_risk
      BY <2>3 DEF LoadBundle, OpenEncoder
    <3> QED
      BY <2>1, <2>2, <3>1
  <2>4. CASE OpenGraph
    <3>1. /\ node = "encoder open" /\ node' = "running" /\ enc' = enc /\ at_risk' = at_risk
          /\ gr' = dir[bundle][GraphFileUsed] /\ gr' \in Release
      BY <2>4 DEF OpenGraph
    <3>2. serving = "nothing" /\ serving' \in Release \union {"a mixture"}
      BY <3>1 DEF ServiceInv
    <3>3. ~at_risk => serving' \in activated
      <4>1. ~at_risk => BundleAsVerified
        BY <3>1, Zenon DEF ServiceInv, Opening
      <4> QED
        BY <3>1, <4>1, FilesOpened DEF BundleAsVerified, verify_version
    <3>4. PICK r \in Release \union {"a mixture"} : r = serving'
      BY <3>2
    <3>5. r \in activated \/ at_risk
      BY <3>3, <3>4, Zenon
    <3> QED
      BY <2>1, <2>2, <3>1, <3>2, <3>4, <3>5
  <2>5. CASE NodeStops
    <3>1. node' = "down" /\ at_risk' = FALSE
      BY <2>5 DEF NodeStops
    <3> QED
      BY <2>1, <2>2, <3>1
  <2> QED
    BY <1>6, <2>3, <2>4, <2>5 DEF NodeNext
<1> QED
  BY <1>1, <1>2, <1>3, <1>4, <1>5, <1>6 DEF ReleaseNext, OperatorNext, Push, vars, train_vars

\* Wherever and whenever files are pushed, whatever is cut short and however the steps
\* of the three parties interleave, the node only ever runs the two graphs of one
\* release whose export finished and which was whole where CURRENT pointed, unless a
\* push changed the bundle between its verification and the opening of its files
\* (model_registry.py as a whole).
THEOREM ServiceTheorem == ReleaseSpec => ServiceImplemented
<1>1. ReleaseInit => Service!Init
  <2> SUFFICES ASSUME ReleaseInit PROVE Service!Init
    OBVIOUS
  <2>1. out["manifest"] # "new" /\ node = "down" /\ activated = {"old"} /\ at_risk = FALSE
    BY Files DEF ReleaseInit, RegistryInit, TrainInit
  <2> QED
    BY <2>1 DEF Service!Init, Release
<1>2. ReleaseInit => OutInv /\ RegistryInv /\ ServiceInv
  <2>1. TrainInit => OutInv
    BY Files DEF TrainInit, OutInv, Content, Release
  <2> QED
    BY <2>1, RegistryInvInit, ServiceInvInit DEF ReleaseInit
<1>3. OutInv /\ [ReleaseNext]_vars => OutInv'
  <2>1. CASE UNCHANGED train_vars
    BY <2>1 DEF train_vars, OutInv
  <2> QED
    BY <2>1, OutStep DEF ReleaseNext, vars
<1>4. OutInv /\ RegistryInv /\ ServiceInv /\ [ReleaseNext]_vars => ServiceInv'
  BY ServiceInvStep
<1>5. OutInv /\ RegistryInv /\ ServiceInv /\ [ReleaseNext]_vars => [Service!Next]_(Service!service_vars)
  BY ServiceStep
<1> QED
  BY <1>1, <1>2, <1>3, <1>4, <1>5, RegistryInvStep, PTL DEF ReleaseSpec, ServiceImplemented, Service!Spec
=============================================================================
