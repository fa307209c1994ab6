--------------------------- MODULE ModelRegistry ----------------------------
(***************************************************************************)
(* The model registry on the head node (model_registry.py) and the start   *)
(* of inference from it (HeadNode.__init__, inference.py).  An operator    *)
(* copies a version directory file by file, promotes or rolls back with    *)
(* set_current, and the node loads what CURRENT names; each of them may be *)
(* cut short, and they do not wait for one another.  Copying is external:  *)
(* the registry only finds its result on disk.  Nothing in the code keeps  *)
(* a push away from a directory that CURRENT names, that is being promoted *)
(* or that the node is loading, and here nothing does.  The network and    *)
(* the copy may truncate a file, which the checksums and onnxruntime both  *)
(* refuse.                                                                 *)
(***************************************************************************)
EXTENDS ReleaseFiles

CONSTANTS
    Version,      \* names of version directories
    FirstVersion, \* the one installed with the node
    PreferInt8,   \* Config.prefer_int8
    MaxFaults     \* bound: copies and promotions cut short, and files copied into a
                  \* directory in use

ASSUME RegistryAssumption ==
    /\ FirstVersion \in Version /\ "absent" \notin Version
    /\ PreferInt8 \in BOOLEAN /\ MaxFaults \in Nat

VARIABLES
    dir,         \* [Version -> [FileName -> Content]]
    current,     \* what the file CURRENT names, or "absent"
    tmp,         \* what CURRENT.tmp names
    promoting,   \* the version set_current has verified, or "absent"
    node,        \* the node's process
    bundle,      \* the version load_bundle returned
    enc,         \* what the two inference sessions were opened on
    gr,
    activated,   \* history: the releases the directory CURRENT names has held whole
    touched,     \* history: current and promoted version pushed to since it was verified
    at_risk,     \* history: the bundle was pushed to before the node had opened it
    faults

registry_vars == <<dir, current, tmp, promoting, node, bundle, enc, gr, activated, touched, at_risk, faults>>
node_vars == <<node, bundle, enc, gr>>

RegistryTypeOK ==
    /\ dir \in [Version -> [FileName -> Content]]
    /\ current \in Version \union {"absent"}
    /\ tmp \in Version \union {"absent", "partial"}
    /\ promoting \in Version \union {"absent"}
    /\ node \in {"down", "loaded", "encoder open", "running"}
    /\ bundle \in Version \union {"absent"}
    /\ enc \in Content /\ gr \in Content
    /\ activated \subseteq Release /\ touched \subseteq Version /\ at_risk \in BOOLEAN
    /\ faults \in 0 .. MaxFaults

\* Mutant: the files are there, their sums are not compared.
verify_version_Exists(d) == d["manifest"] \in Release /\ \A f \in GraphFile : d[f] \in Release

\* verify_version: the manifest can be read, every file it lists is there with the
\* sum it gives, and so are the two that the weight hash is taken over.
verify_version(d) == d["manifest"] \in Release /\ \A f \in GraphFile : d[f] = d["manifest"]

\* resolve_version("current"): raises without CURRENT or without a manifest.
resolve_version == current # "absent" /\ dir[current]["manifest"] # "absent"

RegistryInit ==
    /\ dir = [v \in Version |-> [f \in FileName |-> IF v = FirstVersion THEN "old" ELSE "absent"]]
    /\ current = FirstVersion
    /\ tmp = "absent" /\ promoting = "absent"
    /\ node = "down" /\ bundle = "absent" /\ enc = "absent" /\ gr = "absent"
    /\ activated = {"old"} /\ touched = {} /\ at_risk = FALSE
    /\ faults = 0

\* The releases a directory holds whole.
WholeIn(d) == {r \in Release : verify_version(d) /\ d["manifest"] = r}

Opening == node \in {"loaded", "encoder open"}
InUse == {current, promoting} \union (IF Opening THEN {bundle} ELSE {})

\* The operator copies one file of src into a version directory, whichever it is.
PushFile(v, f, src) ==
    /\ src[f] # "absent"
    /\ \E cut \in BOOLEAN :
           LET fault == cut \/ v \in InUse
           IN  /\ fault => faults < MaxFaults
               /\ faults' = IF fault THEN faults + 1 ELSE faults
               /\ dir' = [dir EXCEPT ![v][f] = IF cut THEN "partial" ELSE src[f]]
    /\ activated' = activated \union WholeIn(dir'[current])
    /\ touched' = touched \union ({v} \intersect {current, promoting})
    /\ at_risk' = (at_risk \/ (Opening /\ v = bundle))
    /\ UNCHANGED <<current, tmp, promoting, node_vars>>

\* Mutant: promoted without being verified.
SetCurrentVerify_Skipped(v) ==
    /\ promoting = "absent" /\ dir[v]["manifest"] # "absent"
    /\ promoting' = v
    /\ touched' = touched \ {v}
    /\ UNCHANGED <<dir, current, tmp, node_vars, activated, at_risk, faults>>

\* set_current: verify, write CURRENT.tmp, replace CURRENT.
SetCurrentVerify(v) ==
    /\ promoting = "absent" /\ verify_version(dir[v])
    /\ promoting' = v
    /\ touched' = touched \ {v}
    /\ UNCHANGED <<dir, current, tmp, node_vars, activated, at_risk, faults>>

SetCurrentWrite ==
    /\ promoting # "absent" /\ tmp # promoting
    /\ tmp' = promoting
    /\ UNCHANGED <<dir, current, promoting, node_vars, activated, touched, at_risk, faults>>

SetCurrentReplace ==
    /\ promoting # "absent" /\ tmp = promoting
    /\ current' = tmp
    /\ activated' = activated \union WholeIn(dir[tmp])
    /\ touched' = touched \intersect {tmp}
    /\ tmp' = "absent" /\ promoting' = "absent"
    /\ UNCHANGED <<dir, node_vars, at_risk, faults>>

\* Mutant: CURRENT itself is being written.
CutPromotion_InPlace ==
    /\ promoting # "absent" /\ faults < MaxFaults
    /\ current' \in {current, "partial"}
    /\ promoting' = "absent" /\ faults' = faults + 1
    /\ UNCHANGED <<dir, tmp, node_vars, activated, touched, at_risk>>

\* The promotion is killed; CURRENT.tmp stays as it is or half written.
CutPromotion ==
    /\ promoting # "absent" /\ faults < MaxFaults
    /\ tmp' \in {tmp, "partial"}
    /\ promoting' = "absent" /\ faults' = faults + 1
    /\ touched' = touched \intersect {current}
    /\ UNCHANGED <<dir, current, node_vars, activated, at_risk>>

\* load_bundle: an error ends the process, which changes nothing.
LoadBundle ==
    /\ node = "down"
    /\ resolve_version /\ verify_version(dir[current])
    /\ bundle' = current
    /\ node' = "loaded"
    /\ UNCHANGED <<dir, current, tmp, promoting, enc, gr, activated, touched, at_risk, faults>>

EncoderFile == IF PreferInt8 THEN "encoder_int8" ELSE "encoder_fp32"
GraphFileUsed == IF PreferInt8 THEN "graph_int8" ELSE "graph_fp32"

\* Inferencer.__init__ opens the two files one after the other.
OpenEncoder ==
    /\ node = "loaded" /\ dir[bundle][EncoderFile] \in Release
    /\ enc' = dir[bundle][EncoderFile]
    /\ node' = "encoder open"
    /\ UNCHANGED <<dir, current, tmp, promoting, bundle, gr, activated, touched, at_risk, faults>>

OpenGraph ==
    /\ node = "encoder open" /\ dir[bundle][GraphFileUsed] \in Release
    /\ gr' = dir[bundle][GraphFileUsed]
    /\ node' = "running"
    /\ UNCHANGED <<dir, current, tmp, promoting, bundle, enc, activated, touched, at_risk, faults>>

\* The process stops at any point: a crash, a restart, or a file that does not open.
NodeStops ==
    /\ node # "down"
    /\ node' = "down" /\ bundle' = "absent" /\ enc' = "absent" /\ gr' = "absent"
    /\ at_risk' = FALSE
    /\ UNCHANGED <<dir, current, tmp, promoting, activated, touched, faults>>

NodeNext == LoadBundle \/ OpenEncoder \/ OpenGraph \/ NodeStops

OperatorNext ==
    \/ \E v \in Version : SetCurrentVerify(v)
    \/ SetCurrentWrite \/ SetCurrentReplace \/ CutPromotion
-----------------------------------------------------------------------------
(* Properties *)

\* Whatever was cut short, CURRENT always names a version that is there, and one that can
\* be loaded unless a push changed its directory after set_current had verified it, be
\* it between the verification and the replacement: a node that restarts never meets a
\* version that the promotion did not verify (set_current).
CurrentCanBeLoaded ==
    resolve_version /\ (current \notin touched => verify_version(dir[current]))
=============================================================================
