--------------------------- MODULE MCVMController ---------------------------
(* Small instances of VMController for TLC. *)
EXTENDS VMController, TLC

\* What a cluster with the CustomResourceDefinition of deploy/crd.yaml serves.
CRDKinds == {<<"ci.openshift.io/v1alpha1", "VirtualMachine">>}

\* A cluster in which the owner that the secrets name were served, too.
OwnerKinds == CRDKinds \cup {<<"v1alpha1", "virtualmachine.ci.openshift.io">>}

=============================================================================
