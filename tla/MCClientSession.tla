-------------------------- MODULE MCClientSession ---------------------------
(* An instance of client calls over one endpoint for TLC. *)
EXTENDS ClientSession

OneEndpoint == {"madre.sock"}
OneDirectory == {"data"}
SharedEndpoint == [k \in Kernels |-> "madre.sock"]
SharedDirectory == [k \in Kernels |-> "data"]
=============================================================================
