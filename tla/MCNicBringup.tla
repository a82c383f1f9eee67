---------------------------- MODULE MCNicBringup ----------------------------
(* Instances of NicBringup: the two active ports of the J773g.              *)
EXTENDS NicBringup
J773Ports == {0, 2}
J773Classes == {"net", "other", "none"}
=============================================================================
