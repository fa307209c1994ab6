---------------------------- MODULE ModelRelease ----------------------------
(***************************************************************************)
(* A model on its way from the training machine to a running head node:    *)
(* the training script writes an output directory, the operator copies     *)
(* from it into the registry once the export has begun, also while it is   *)
(* written, and the node loads from there.  The whole implements           *)
(* ModelService.                                                           *)
(***************************************************************************)
EXTENDS ModelTraining, ModelRegistry

vars == <<corpus_vars, train_vars, registry_vars>>

ReleaseInit == TrainInit /\ RegistryInit

Push == \E v \in Version, f \in FileName : PushFile(v, f, out)

\* Until the export has written its first file the two machines share nothing, and
\* a step of one commutes with a step of the other: those of the training come first.
ReleaseNext ==
    \/ TrainNext /\ UNCHANGED registry_vars
    \/ /\ stage = "end" \/ (stage = "export" /\ epoch > 0)
       /\ NodeNext \/ OperatorNext \/ Push
       /\ UNCHANGED <<corpus_vars, train_vars>>

ReleaseSpec == ReleaseInit /\ [][ReleaseNext]_vars

\* What is published is what has a manifest; what is served is the release that
\* both sessions were opened on.
Service == INSTANCE ModelService WITH
    Nothing   <- "nothing",
    Mixture   <- "a mixture",
    published <- {"old"} \union (IF out["manifest"] = "new" THEN {"new"} ELSE {}),
    serving   <- IF node # "running" THEN "nothing" ELSE IF enc = gr THEN enc ELSE "a mixture"

\* The node only ever runs the two graphs of one release whose export finished and
\* which was whole where CURRENT pointed, whatever is copied where and when, unless a
\* push changed the bundle's directory between its verification and the opening of the
\* files (model_registry.py as a whole, against ModelService).
ServiceImplemented == Service!Spec
=============================================================================
