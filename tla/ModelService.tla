---------------------------- MODULE ModelService ----------------------------
(***************************************************************************)
(* What the model registry does of what its head comment promises the head *)
(* node: the two graphs it runs are those of one release that the training *)
(* pipeline finished and that was whole in the directory CURRENT named.  A *)
(* corrupted or half-copied push is refused, never run, except one that    *)
(* comes between the node's verification of the bundle and the opening of  *)
(* its files: then it may run anything that opens.                         *)
(***************************************************************************)
CONSTANTS Release, Mixture, Nothing

VARIABLES
    published,   \* releases whose manifest was written
    activated,   \* releases that were whole where CURRENT pointed
    at_risk,     \* the verified bundle was pushed to before it was opened
    serving      \* the release the node runs, a mixture, or Nothing

service_vars == <<published, activated, at_risk, serving>>

Init ==
    /\ activated \in SUBSET Release
    /\ published = activated
    /\ at_risk = FALSE
    /\ serving = Nothing

Publish(r) ==
    /\ published' = published \union {r}
    /\ UNCHANGED <<activated, at_risk, serving>>

\* A promotion, or a push into a directory in use.
Write(released) ==
    /\ released \subseteq published
    /\ activated' = activated \union released
    /\ at_risk' \in {at_risk, TRUE}
    /\ UNCHANGED <<published, serving>>

Serve(r) ==
    /\ serving = Nothing
    /\ r \in activated \/ at_risk
    /\ serving' = r
    /\ UNCHANGED <<published, activated, at_risk>>

Stop ==
    /\ serving' = Nothing
    /\ at_risk' = FALSE
    /\ UNCHANGED <<published, activated>>

Next ==
    \/ Stop
    \/ \E r \in Release : Publish(r)
    \/ \E released \in SUBSET Release : Write(released)
    \/ \E r \in Release \union {Mixture} : Serve(r)

Spec == Init /\ [][Next]_service_vars
=============================================================================
