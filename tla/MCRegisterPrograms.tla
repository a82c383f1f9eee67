------------------------- MODULE MCRegisterPrograms -------------------------
(* Instances of RegisterPrograms: the boots of perstn-run.sh on the J773g,  *)
(* and the switches no RUN uses.                                            *)
EXTENDS RegisterPrograms
Runs == INSTANCE PerstnRuns

\* The boots that differ in what is modelled here.
NakedBoots ==
    <<Runs!Letters["O"], Runs!Letters["R"], Runs!Letters["S"],
      Runs!Numbers[2], Runs!Numbers[3], Runs!Numbers[4]>>

InitBoots == <<Runs!Init11, Runs!Init18, Runs!Init19, Runs!Init20, Runs!Init21, Runs!Init22>>

MoreBoots ==
    <<Runs!InitBoot({"refclk_pre", "refclk_cgen", "no_kick", "t602x_init", "t602x_msimap"}),
      Runs!Boot({"kick_aggressive", "t602x_init", "t602x_aggressive"}, "none", "filtered")>>

SocBoots == <<Runs!Soc25, Runs!Soc26, Runs!Soc27, Runs!Soc28, Runs!Soc29, Runs!Soc31>>

AllOrders == NakedBoots \o InitBoots \o MoreBoots \o SocBoots

\* Scripts/m1n1/logs/S/nic-runtime.txt:276-293, and the axi2af entry.
J773Tunables ==
    [axi2af |-> <<[off |-> 0, mask |-> 0 .. 7 \cup {31}, value |-> {2, 3, 4, 31}]>>,
     pcieclkgen |-> <<[off |-> 0, mask |-> 5 .. 9, value |-> {5, 9}]>>,
     cio3pllcore |->
         <<[off |-> 0, mask |-> {0, 1, 3, 9, 11}, value |-> {0, 9, 11}],
           [off |-> 256, mask |-> 0 .. 23, value |-> {2, 4, 5, 7, 14, 16, 17, 19}]>>]

\* iBoot's word at axi_sub5+0 is 0x81f55, axi+0 is 0x1c; a pin is an input with
\* its pull-up on; pcie_init has yet to release the ports.
J773Handoff ==
    [r \in Regs |->
        CASE r = Sub5(0) -> {0, 2, 4, 6, 8, 9, 10, 11, 12, 19}
          [] r = <<"axi", 0>> -> {2, 3, 4}
          [] r[1] \in {"perst", "clkreq"} -> {7, 8, 9}
          [] r[1] = "cpu gate" -> {4}
          [] r = Rvbar -> {0, 16, 19}
          [] OTHER -> {}]
J773Ports == {0, 2}
=============================================================================
