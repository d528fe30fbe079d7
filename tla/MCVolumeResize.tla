--------------------------- MODULE MCVolumeResize ---------------------------
(* Model-checking instances of VolumeResize: volume names as model values. *)
EXTENDS VolumeResize

CONSTANTS data, logs

OneVolume == <<data>>
TwoVolumes == <<data, logs>>

\* Replica 1's claim is still Pending (not yet provisioned) at the start.
UnboundReplicaOne == {<<1, data>>}
====
