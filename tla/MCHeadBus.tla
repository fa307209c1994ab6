----------------------------- MODULE MCHeadBus ------------------------------
(* Two pods on the wire.  set_pods leaves one of them out, or carries an       *)
(* address the bus master refuses, which leaves the node without any pod.      *)
EXTENDS HeadBus

MCAddr        == {1, 2}
MCValidAddr   == 1 .. 4
MCDefaultList == <<1, 2>>
MCPollLists   == {<<2>>, <<0>>}
MCCadences    == {7}

\* The elevated and the baseline cadence of the Linux side, five and sixty times the
\* cadence the supervisor's deadline was computed from.
MCConfiguredCadences == {25, 300}
=============================================================================
