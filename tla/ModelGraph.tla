----------------------------- MODULE ModelGraph -----------------------------
(***************************************************************************)
(* The graph stage in its two forms.  Training batches ego networks as one *)
(* sparse graph (sparse_from_padded, build_batch_graph, GraphStage); the   *)
(* exported model works on each padded sample with a dense matrix          *)
(* (DenseGraphStage).  A padded sample has an entry for every place of     *)
(* the arrays, 0 for the node of a place that is padding.  A history is    *)
(* told apart by its node: what the root of a sample gets is one layer of  *)
(* a graph convolution, a sum over its neighbours and itself that depends  *)
(* on whose history comes along which edge, the weight, and the degrees.   *)
(***************************************************************************)
EXTENDS Naturals, Sequences, SequencesExt

\* What sparse_from_padded takes of a sample: as many places as are valid.
Unpadded(s) ==
    LET n == SumFunction(s.valid)
    IN  [hist |-> SubSeq(s.nodes, 1, n), adj |-> [a \in 1 .. n |-> SubSeq(s.adj[a], 1, n)]]

Positive(adj) == {e \in (DOMAIN adj) \X (DOMAIN adj) : adj[e[1]][e[2]] > 0}

\* Mutant: the edges of every sample are numbered from its own first node.
build_batch_graph_NoOffset(samples) ==
    LET off(b) == SumFunction([i \in 1 .. b - 1 |-> Len(samples[i].hist)])
    IN  [X     |-> FlattenSeq([b \in DOMAIN samples |-> samples[b].hist]),
         edges |-> UNION {{[src |-> e[1], dst |-> e[2], w |-> samples[b].adj[e[1]][e[2]]]
                               : e \in Positive(samples[b].adj)} : b \in DOMAIN samples},
         roots |-> [b \in DOMAIN samples |-> off(b) + 1]]

\* The samples one after another; the edges and the root of each are moved by the
\* number of nodes before it.
build_batch_graph(samples) ==
    LET off(b) == SumFunction([i \in 1 .. b - 1 |-> Len(samples[i].hist)])
    IN  [X     |-> FlattenSeq([b \in DOMAIN samples |-> samples[b].hist]),
         edges |-> UNION {{[src |-> off(b) + e[1], dst |-> off(b) + e[2], w |-> samples[b].adj[e[1]][e[2]]]
                               : e \in Positive(samples[b].adj)} : b \in DOMAIN samples},
         roots |-> [b \in DOMAIN samples |-> off(b) + 1]]

sparse_from_padded(batch) == build_batch_graph([b \in DOMAIN batch |-> Unpadded(batch[b])])

\* GCNConv adds a self-loop of weight 1 to every node and scales by the degrees.
Degree(g, v) == 1 + SumFunction([e \in {d \in g.edges : d.dst = v} |-> e.w])

\* What reaches node r.
GraphStage(g, r) ==
    [degree   |-> Degree(g, r),
     messages |-> {[from |-> g.X[r], w |-> 1, degree |-> Degree(g, r)]} \union
                  {[from |-> g.X[e.src], w |-> e.w, degree |-> Degree(g, e.src)] : e \in {d \in g.edges : d.dst = r}}]

\* The same at place 1 of a padded sample: A_hat is A between valid nodes, with
\* ones on the diagonal.
DenseGraphStage(s) ==
    LET Place == DOMAIN s.valid
        A_hat(a, b) == IF a = b THEN 1 ELSE s.adj[a][b] * s.valid[a] * s.valid[b]
        deg(a) == SumFunction([b \in Place |-> A_hat(a, b)])
    IN  [degree   |-> deg(1),
         messages |-> {[from |-> s.nodes[b], w |-> A_hat(1, b), degree |-> deg(b)]
                           : b \in {p \in Place : A_hat(1, p) # 0}}]
-----------------------------------------------------------------------------
\* HazardHeads.forward: a head reads the embedding, or, if it is one of the four,
\* the embedding refined; refinement is empty when the graph stage did not run.
GRAPH_HEADS == {"FL", "UF", "FI", "PO"}
HeadReads(h, emb, refinement) == [emb |-> emb, plus |-> IF h \in GRAPH_HEADS THEN refinement ELSE {}]

\* graph_forward: what each head of each sample reads in training, where the graph
\* stage is applied to the samples flagged graph_on.
graph_forward(heads, batch, graph_on) ==
    LET g == sparse_from_padded(batch)
    IN  [b \in DOMAIN batch |-> [h \in heads |->
            HeadReads(h, batch[b].own, IF graph_on[b] THEN {GraphStage(g, g.roots[b])} ELSE {})]]

\* The two exported models: the one that always runs, and the one with neighbours.
EncoderExport(heads, s) == [h \in heads |-> HeadReads(h, s.own, {})]
GraphExport(heads, s) == [h \in heads |-> HeadReads(h, s.own, {DenseGraphStage(s)})]
=============================================================================
