---------------------------- MODULE ReleaseFiles ----------------------------
(***************************************************************************)
(* The files of a model release, in the order export_and_verify writes     *)
(* them: the directory of a version holds one of each.  Two releases are   *)
(* told apart, an earlier and a new one; a copy cut short is neither.  A   *)
(* sha256 of the manifest is the release whose file has that sum.          *)
(***************************************************************************)
EXTENDS Integers, Sequences, SequencesExt

FileOrder == <<"encoder_fp32", "graph_fp32", "encoder_int8", "graph_int8", "manifest">>
FileName  == Range(FileOrder)
GraphFile == FileName \ {"manifest"}
Release   == {"old", "new"}
Content   == Release \union {"absent", "partial"}
=============================================================================
