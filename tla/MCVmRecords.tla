---------------------------- MODULE MCVmRecords ----------------------------
(* VmRecords on small instances: VMs and endpoints are model values. *)
EXTENDS VmRecords, TLC

CONSTANTS dev, lab, e1, e2, e3

TwoVMs == {dev, lab}
OneVM == {dev}
OnlyLab == {lab}
Nobody == {}
SomeEndpoints == {e1, e2, e3}
Symmetry == Permutations(SomeEndpoints)

\* One field at a time, or the disk and another.
SingleEdits == {{"gpu"}, {"disk", "net"}, {"port"}}
\* Two fields of the mapping in one edit.
DoubleEdits == {{"net", "gpu"}}

DevOperations == ({"create", "start", "edit", "delete", "exit", "cancel"} \X {dev})
AllOperations == DevOperations \cup {<<"create", lab>>, <<"report", lab>>}
EditOperations == {<<"edit", dev>>}
=============================================================================
