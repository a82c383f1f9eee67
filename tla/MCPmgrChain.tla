---------------------------- MODULE MCPmgrChain ----------------------------
(* Parent graphs for PmgrChain. *)
EXTENDS PmgrChain

\* The ancestors of gate 151 on the J773g, as Phase 0.5 prints them
\* (Scripts/m1n1/logs/S/nic-runtime.txt:445-456): APCIE_SYS_ST (150), ANS
\* (148), APCIE_ST (149), APCIE_SYS_GP (136), APCIE_GP (135) and the virtual
\* fabric devices 134, 32, 34, 33.
ApcieDevice == {151, 150, 149, 148, 136, 135, 134, 34, 33, 32}
ApcieVirtual == {134, 34, 33, 32}
ApcieParents ==
    [d \in ApcieDevice |->
        CASE d = 151 -> <<150, 136>>
          [] d = 150 -> <<148, 149>>
          [] d = 149 -> <<148, 0>>
          [] d = 148 -> <<134, 0>>
          [] d = 136 -> <<135, 0>>
          [] d = 135 -> <<134, 0>>
          [] d = 134 -> <<32, 34>>
          [] d = 34  -> <<33, 0>>
          [] OTHER   -> <<0, 0>>]

\* A malformed ADT: a cycle, an id that is not listed, a gate that names
\* itself, and a tail deeper than the recursion bound.
MalformedDevice == {1, 2, 3, 4}
MalformedVirtual == {3}
MalformedParents ==
    [d \in MalformedDevice |->
        CASE d = 1 -> <<2, 4>>
          [] d = 2 -> <<2, 3>>
          [] d = 3 -> <<1, 4>>
          [] OTHER -> <<9, 0>>]

\* The handoff the Phase D docstring reports: gate 151 over gate 150.
PairDevice == {151, 150}
PairParents == [d \in PairDevice |-> IF d = 151 THEN <<150, 0>> ELSE <<0, 0>>]
=============================================================================
