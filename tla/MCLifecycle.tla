---------------------------- MODULE MCLifecycle ----------------------------
(* Lifecycle on small instances: the VM is a model value. *)
EXTENDS Lifecycle

CONSTANT dev

OneVM == {dev}
=============================================================================
