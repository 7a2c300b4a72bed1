----------------------------- MODULE Deployment -----------------------------
(* What every module about the control plane shares: the regions, each with *)
(* its MongoDB and its MinIO, one of them the authority; Etcd spans them.   *)
CONSTANTS Regions, Authority, None

ASSUME AuthorityIsRegion == Authority \in Regions
ASSUME NoneIsNoRegion == None \notin Regions
=============================================================================
