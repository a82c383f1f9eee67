--------------------------- MODULE MCPcieSession ---------------------------
(* Instances of PcieSession: the J773g, whose power_gates are gate 151 and   *)
(* aggregators without a register.  Gate 150 stands for the parents of gate  *)
(* 151, gate 148 for the gates above those.                                  *)
EXTENDS PcieSession
Runs == INSTANCE PerstnRuns

J773PowerGates == {"g379", "g151"}
J773Virtual == {"g379"}
J773Direct == {"g150", "g151"}
J773Chain == {"g148", "g150", "g151"}

\* One boot of every shape of the RUN series.
AllBoots == {Runs!Letters["O"], Runs!Run17} \cup Runs!InitBoots

PostInitReplay == {Runs!Init15}
=============================================================================
