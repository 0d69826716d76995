---------------------------- MODULE MCLifecycle ----------------------------
(* An instance of Lifecycle: one deployment, two clients.                 *)
EXTENDS Lifecycle

MCClients == {"c1", "c2"}
=============================================================================
