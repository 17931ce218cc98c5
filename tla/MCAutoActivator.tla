-------------------------- MODULE MCAutoActivator --------------------------
(* Small instances of AutoActivator for TLC. *)
EXTENDS AutoActivator, TLC

CONSTANTS r1, r2, r3

ThreeReplicas == {r1, r2, r3}

TwoReplicas == {r1, r2}

(* Each replica on a host of its own, which stands for the host as well:   *)
(* they are interchangeable. *)
Apart == [r \in Replicas |-> r]

Interchangeable == Permutations(Replicas)

(* All replicas on the host of the first. *)
Together == [r \in Replicas |-> r1]
=============================================================================
