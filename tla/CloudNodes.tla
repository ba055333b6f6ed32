------------------------------ MODULE CloudNodes ------------------------------
(* The edge nodes the cloud's metadata service may name, and those that the     *)
(* cloud's configuration lists.                                               *)
CONSTANTS Nodes, Configured

ASSUME NodesAssumption == Configured \subseteq Nodes
=============================================================================
