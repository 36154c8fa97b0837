---------------------------- MODULE MCLifecycle ----------------------------
(* Two revisions of the service: the old one embeds one migration less than *)
(* the new one, which runs in two instances.                                *)
EXTENDS Lifecycle

CONSTANTS old, new1, new2

MCInstances == {old, new1, new2}
MCLatest == [i \in MCInstances |-> IF i = old THEN 1 ELSE 2]

Deploying == {old, new1}
DeployingLatest == [i \in Deploying |-> MCLatest[i]]
=============================================================================
