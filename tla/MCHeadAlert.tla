---------------------------- MODULE MCHeadAlert -----------------------------
(* Two heads, and a crash anywhere.                                            *)
EXTENDS HeadAlert

MCHeadOrder == <<"FL", "FI">>
=============================================================================
