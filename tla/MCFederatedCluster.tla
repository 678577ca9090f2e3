-------------------------- MODULE MCFederatedCluster --------------------------
(* The life of a member cluster: with cascading deletion and a service     *)
(* account token, or with neither.                                         *)
EXTENDS FederatedCluster

MCKinds == {[cascade |-> b, useToken |-> b] : b \in BOOLEAN}
==============================================================================
