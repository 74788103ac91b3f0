----------------------------- MODULE MCCluster ------------------------------
(* Cluster membership for TLC: a node with configured peers and one that    *)
(* watches Kubernetes, or two with configured peers.                        *)
EXTENDS Cluster, TLC
=============================================================================
