----------------------------- MODULE HeadLinux ------------------------------
(***************************************************************************)
(* The Linux side of the head node as it is run: node.py, which is on the  *)
(* line protocol, or a client of the bridge that is to replace it.         *)
(***************************************************************************)
EXTENDS HeadNode, HeadBridge

VARIABLE app    \* "node" or "client"

LinuxInit == Init /\ BridgeInit /\ app \in {"node", "client"}

NodeStep   == app = "node" /\ NodeNext /\ UNCHANGED <<bridge_vars, app>>
ClientStep == app = "client" /\ BridgeNext /\ UNCHANGED <<vars, app>>

LinuxSpec == LinuxInit /\ [][NodeStep \/ ClientStep]_<<vars, bridge_vars, app>>
=============================================================================
