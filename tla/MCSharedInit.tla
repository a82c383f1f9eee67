---------------------------- MODULE MCSharedInit ----------------------------
(* Instances of SharedInit: the boots of perstn-run.sh on the J773g, whose  *)
(* port 1 has no bridge.                                                    *)
EXTENDS SharedInit
Runs == INSTANCE PerstnRuns

\* Every replay of the RUN series, the plain replay after pcie_init, and the
\* two switches no RUN uses.
AllBoots ==
    Runs!ReplayBoots
    \cup {Runs!Boot({}, Runs!AtMarker, "filtered"),
          Runs!Replay({"phycmn_first", "phyif_ctrl_run"}, Runs!AtMarker),
          Runs!Replay({"phycmn_first", "phycmn_early"}, Runs!AtMarker)}

PostInitBoots == {Runs!Boot({}, Runs!AtMarker, "filtered")}

PhyIpOnly == {"phy_ip"}

J773Props == {"axi2af", "phy", "cio3pllcore", "pcieclkgen"}
\* Of the J773g's 175 entries (Scripts/m1n1/logs/S/nic-runtime.txt:69-255) one a
\* slice, and then the first and the last word of every slice and one word past
\* the window.
J773PhyIp ==
    [pll |-> <<56>>,
     auspma |-> <<40960, 73728, 106496, 32764, 32768, 65532, 65536, 98300, 98304,
                  131068, 131072>>]

\* The reg entries of the ports: 0x497048000, 0x497050000 and 0x497058000, of
\* 0x8000 bytes each, with phy_ip at 0x497040000.
J773PhyExtra ==
    [i \in 0 .. 2 |-> CASE i = 0 -> 32768 .. 65535
                       [] i = 1 -> 65536 .. 98303
                       [] i = 2 -> 98304 .. 131071]
J773Ports == {0, 2}
=============================================================================
