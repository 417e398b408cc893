---------------------------- MODULE MCSmpBoot32 ----------------------------
(* Instances of SmpBoot32: the machine states a boot loader may leave.     *)
EXTENDS SmpBoot32

(* D-cache on or off outside HYP mode, off in HYP mode; the cores may come *)
(* up in different modes.                                                  *)
AnyMode == {e \in Entry : e.hyp[Boot] => ~e.hsctlr}

(* As above, with every core in the boot core's mode: what a hypervisor    *)
(* kernel, which leaves each core in the mode it has, relies on.           *)
SameMode == {e \in AnyMode : \A c \in Core : e.hyp[c] = e.hyp[Boot]}

(* The boot loader hands over in HYP mode with the D-cache on.             *)
CachedHyp ==
  {e \in Entry : e.hsctlr /\ ~e.sctlr /\ \A c \in Core : e.hyp[c]}

UpTo4 == 2..4
UpTo2 == 1..2
Two == {2}
One == {1}
Imx6 == {"imx6"}
Imx7 == {"imx7"}
TwoCores == {"imx7", "zynq7000"}
ZeroedBss == {FALSE}
AnyBss == BOOLEAN
=============================================================================
