----------------------------- MODULE PerstnRuns -----------------------------
(***************************************************************************)
(* The boots the operator can order: the flags Scripts/m1n1/perstn-run.sh  *)
(* passes to perstn.py for each RUN letter or number, kept to the flags    *)
(* that steer what is modelled.  A boot is the set of its switches, the    *)
(* checkpoint of its one phy_ip probe and the way steps 6.g and 6.h write  *)
(* phy_ip.                                                                 *)
(***************************************************************************)

Base == {"no_pcie_init", "preinit_probe", "pmgr_enable", "pmgr_per_port",
         "gate_poke", "phy_ip_probe", "t8140_replay", "phy_ip_diag"}

Boot(flags, at, apply) == [flags |-> flags, at |-> at, apply |-> apply]

\* A boot of the replay series: BASE_FLAGS and some more.
Replay(more, at) == Boot(Base \cup more, at, "filtered")

\* RUN I to RUN S: one hypothesis per boot.
Letters ==
    [I |-> Replay({"phycmn_early"}, "post-7.phycmn-early"),
     J |-> Replay({"extra_tunables"}, "post-5.5.extra-tunables"),
     K |-> Replay({"extra_tunables", "phycmn_early"}, "post-7.phycmn-early"),
     L |-> Replay({"phy4_x10_early"}, "post-6.i.phy4-x10-early"),
     M |-> Replay({"extra_tunables", "only_cio3pllcore"}, "post-5.5.extra-tunables"),
     N |-> Replay({"extra_tunables", "only_pcieclkgen"}, "post-5.5.extra-tunables"),
     O |-> Replay({"extra_tunables", "reachable_scan"}, "none"),
     P |-> Replay({"extra_tunables", "phy_ip_write_probe"}, "post-5.5.extra-tunables"),
     Q |-> Replay({"naked_write_test", "reachable_scan"}, "none"),
     R |-> Replay({"naked_write_test", "reachable_scan"}, "none"),
     S |-> Replay({"naked_write_test", "axi2af_naked", "pcieclkgen_naked",
                   "reachable_scan"}, "none")]

\* RUN 1 to RUN 10 grow out of RUN S.
Applies == {"axi2af_naked", "reachable_scan", "phycmn_early"}
ReadOnly == Applies \cup {"naked_readonly"}
SetBit5 == ReadOnly \cup {"set5_only", "t8122_post"}

Numbers ==
    <<Replay(Applies \cup {"naked_write_test", "pcieclkgen_naked"}, "none"),
      Replay(Applies \cup {"naked_write_test", "pcieclkgen_naked", "cio3_sub5"}, "none"),
      Replay(Applies \cup {"naked_write_test", "pcieclkgen_naked", "cio3_common"}, "none"),
      Replay(ReadOnly \cup {"pcieclkgen_naked"}, "none"),
      Replay(ReadOnly \cup {"pcieclkgen_naked", "phy_ip_write_probe"}, "post-7.phycmn-early"),
      Replay(ReadOnly \cup {"pcieclkgen_naked", "t8122_post"}, "none"),
      Replay(SetBit5, "none"),
      Replay(SetBit5 \cup {"phy4_x10_early"}, "none"),
      Replay(SetBit5 \cup {"phy4_x10_early"}, "none"),
      Boot(Base \cup SetBit5 \cup {"phy4_x10_early"}, "none", "stub")>>

\* RUN 11 to RUN 23 let m1n1 run p.pcie_init; RUN 17 is a replay again.
AtMarker == "post-6.f.T8140-marker"
InitBoot(flags) == Boot({"preinit_probe", "tier3"} \cup flags, AtMarker, "filtered")
Init11 == InitBoot({"pmgr_enable", "pmgr_per_port", "gate_poke"})
Init12 == InitBoot({"gate_poke"})
Init13 == InitBoot({"gate_poke", "post_init_phy_ip"})
Init14 == InitBoot({"post_init_phy_ip"})
Init15 == InitBoot({"replay_post_init"})
Run17 == Boot({"no_pcie_init", "preinit_probe", "gate_poke", "t8140_replay",
               "phy_ip_diag", "reachable_scan"}, "none", "local")
Init18 == InitBoot({"clkreq_periph"})
Refclk == {"clkreq_periph", "refclk_pre", "refclk_post"}
Init19 == InitBoot(Refclk)
Init20 == InitBoot(Refclk \cup {"t602x_init", "t602x_aggressive", "t602x_do_again"})
Init21 == InitBoot(Refclk \cup {"perst_resequence"})
Init22 == InitBoot(Refclk \cup {"endpoint_diag"})
Init23 == InitBoot(Refclk \cup {"endpoint_diag", "gate_poke"})

\* RUN 25 to RUN 31 are boots of soc_bringup.py.
SocBoot(flags) == Boot({"soc", "smp_start"} \cup flags, "none", "none")
Soc25 == SocBoot({"soc_recon", "smp_diag", "acio_status"})
Soc26 == SocBoot({"smp_diag", "smp_probe", "soc_recon"})
Soc27 == SocBoot({"smp_probe", "smp_release_probe"})
Soc28 == SocBoot({"smp_probe", "enable_core_parse", "core_diff_scan"})
Soc29 == SocBoot({"smp_probe", "cpustart_decode"})
Soc31 == SocBoot({"smp_probe", "cpustart_scan"})

LetterBoots == {Letters[r] : r \in DOMAIN Letters}
NumberBoots == {Numbers[r] : r \in DOMAIN Numbers}
ReplayBoots == LetterBoots \cup NumberBoots \cup {Run17}
InitBoots == {Init11, Init12, Init13, Init14, Init15, Init18, Init19, Init20,
              Init21, Init22, Init23}

\* What the argument parser of perstn.py refuses.
Refused(b) ==
    \/ {"naked_write_test", "naked_readonly"} \subseteq b.flags
    \/ {"pcieclkgen_naked", "set5_only"} \subseteq b.flags
    \/ {"replay_post_init", "t8140_replay"} \subseteq b.flags
=============================================================================
