----------------------------- MODULE ModeSwitch -----------------------------
(***************************************************************************)
(* platform_init() of tk1 and imx6: from secure SVC mode to the mode the   *)
(* kernel is configured for, through monitor mode, with interrupts and     *)
(* devices given to the nonsecure world on the way.                        *)
(***************************************************************************)
EXTENDS Integers, Sequences

CONSTANT NumIrqs   \* the numbers of interrupts a GIC may have
ASSUME IrqAssumption == NumIrqs \subseteq Nat

(* The configuration: CONFIG_ARM_..._MODE, and CONFIG_ARM_MONITOR_HOOK,    *)
(* which imx6 refuses to compile.                                          *)
Builds == {b \in [plat : {"tk1", "imx6"}, mode : {"svc", "ns_svc", "hyp", "mon"}, hook : BOOLEAN] :
             b.plat = "imx6" => ~b.hook /\ b.mode # "hyp"}
Modes == {"svc", "mon", "hyp"}

VARIABLES
  build,          \* what this elfloader is built as
  nirqs,          \* interrupts of this GIC
  todo,           \* the calls of platform_init() still to make
  stuck,          \* an undefined instruction was taken
  mode,           \* CPSR.M
  scr,            \* the bits set in the secure configuration register
  sp,             \* the stack pointers, banked by mode
  mon_init_done,
  group1,         \* the interrupts in group 1 ...
  low,            \* ... and those at the one priority
  open,           \* what the nonsecure world may use
  mvbar           \* the monitor's vectors are installed
vars == <<build, nirqs, todo, stuck, mode, scr, sp, mon_init_done, group1, low, open, mvbar>>

Secure == mode = "mon" \/ "NS" \notin scr

(* Mutant: the interrupts are routed from the nonsecure side.              *)
ProgramRouteLate(b) ==
  IF b.plat = "imx6" THEN
    CASE b.mode = "ns_svc" -> <<"mon", "scu", "cp", "smp", "csu", "ns_svc", "irqs">>
      [] b.mode = "mon"    -> <<"mon">>
      [] OTHER             -> <<>>
  ELSE (IF b.hook THEN <<"mon", "hook">> ELSE <<>>) \o <<"cp">> \o
    CASE b.mode = "ns_svc" -> <<"mon", "ns_svc", "irqs">>
      [] b.mode = "hyp"    -> <<"mon", "hyp", "irqs">>
      [] b.mode = "mon"    -> <<"mon">>
      [] OTHER             -> <<>>

(* platform_init(): the calls the configuration compiles in.               *)
Program(b) ==
  IF b.plat = "imx6" THEN
    CASE b.mode = "ns_svc" -> <<"mon", "scu", "cp", "smp", "csu", "irqs", "ns_svc">>
      [] b.mode = "mon"    -> <<"mon">>
      [] OTHER             -> <<>>
  ELSE (IF b.hook THEN <<"mon", "hook">> ELSE <<>>) \o <<"cp">> \o
    CASE b.mode = "ns_svc" -> <<"mon", "irqs", "ns_svc">>
      [] b.mode = "hyp"    -> <<"mon", "irqs", "hyp">>
      [] b.mode = "mon"    -> <<"mon">>
      [] OTHER             -> <<>>

(* Entered in SVC mode of either world.  imx6 sets mon_init_done itself,   *)
(* as .bss may hold anything; tk1 is loaded as an ELF file.                *)
Init ==
  /\ build \in Builds /\ nirqs \in NumIrqs
  /\ todo = Program(build)
  /\ stuck = FALSE /\ mode = "svc" /\ scr \in {{}, {"NS"}, {"SCD", "SIF"}}
  /\ sp = [m \in Modes |-> IF m = "svc" THEN "stack" ELSE "unset"]
  /\ mon_init_done = FALSE
  /\ group1 = {} /\ low = {} /\ open = {} /\ mvbar = FALSE

At(call) == ~stuck /\ todo # <<>> /\ Head(todo) = call
Return == todo' = Tail(todo) /\ UNCHANGED <<build, nirqs, stuck>>

(* The nonsecure world has no access to SCR, NSACR, CSU and SCU.           *)
Undefined ==
  /\ ~stuck /\ ~Secure /\ todo # <<>> /\ Head(todo) \in {"mon", "scu", "cp", "smp", "csu"}
  /\ stuck' = TRUE
  /\ UNCHANGED <<build, nirqs, todo, mode, scr, sp, mon_init_done, group1, low, open, mvbar>>

(* Mutant: sp is banked, and monitor mode's own one is used.               *)
SwitchToMonModeSpLost ==
  /\ At("mon") /\ Secure /\ build.plat = "tk1"
  /\ IF mon_init_done THEN UNCHANGED <<mode, scr, mon_init_done>>
     ELSE scr' = {"HCE"} /\ mode' = "mon" /\ mon_init_done' = TRUE
  /\ Return /\ UNCHANGED <<sp, group1, low, open, mvbar>>

(* switch_to_mon_mode(), once.  Its own test of SCR.NS comes behind the    *)
(* read of SCR that the nonsecure world cannot make.  tk1 writes SCR.      *)
SwitchToMonMode ==
  /\ At("mon") /\ Secure /\ build.plat = "tk1"
  /\ IF mon_init_done THEN UNCHANGED <<mode, scr, sp, mon_init_done>>
     ELSE /\ scr' = {"HCE"} /\ mode' = "mon" /\ mon_init_done' = TRUE
          /\ sp' = [sp EXCEPT !["mon"] = sp[mode]]
  /\ Return /\ UNCHANGED <<group1, low, open, mvbar>>
SwitchToMonModeImx6 ==
  /\ At("mon") /\ Secure /\ build.plat = "imx6"
  /\ IF mon_init_done THEN UNCHANGED <<mode, sp, mon_init_done>>
     ELSE /\ mode' = "mon" /\ mon_init_done' = TRUE
          /\ sp' = [sp EXCEPT !["mon"] = sp[mode]]
  /\ Return /\ UNCHANGED <<scr, group1, low, open, mvbar>>

(* install_monitor_hook(), behind its switch to monitor mode.              *)
InstallMonitorHook ==
  /\ At("hook")
  /\ mvbar' = TRUE
  /\ Return /\ UNCHANGED <<mode, scr, sp, mon_init_done, group1, low, open>>

Grant(call) ==
  /\ At(call) /\ Secure
  /\ open' = open \union {call}
  /\ Return /\ UNCHANGED <<mode, scr, sp, mon_init_done, group1, low, mvbar>>
EnableScuNsAccess == Grant("scu")
EnableNsAccessCp == build.plat = "tk1" /\ Grant("cp")
EnableNsAccessCpImx6 == build.plat = "imx6" /\ Grant("cp")
SetSmpBit == Grant("smp")
SetCsu == Grant("csu")

(* The two loops of route_irqs_to_nonsecure(): 32 and 4 interrupts to a    *)
(* register; "in non-secure mode will not work".                           *)
RouteIrqs ==
  /\ At("irqs")
  /\ group1' = IF Secure THEN {32 * (i \div 32) + k : i \in 0 .. nirqs - 1, k \in 0..31} ELSE group1
  /\ low' = IF Secure THEN {4 * (i \div 4) + k : i \in 0 .. nirqs - 1, k \in 0..3} ELSE low
  /\ Return /\ UNCHANGED <<mode, scr, sp, mon_init_done, open, mvbar>>
RouteIrqsToNonsecure == build.plat = "tk1" /\ RouteIrqs
RouteIrqsToNonsecureImx6 == build.plat = "imx6" /\ RouteIrqs

(* switch_to_hyp_mode(): cps from monitor mode.  The flush of the D-cache  *)
(* before it is not modelled.                                              *)
SwitchToHypMode ==
  /\ At("hyp") /\ build.plat = "tk1"
  /\ scr' = (scr \union {"HCE", "NS"}) \ {"SCD", "SIF"}
  /\ mode' = "hyp" /\ sp' = [sp EXCEPT !["hyp"] = sp[mode]]
  /\ Return /\ UNCHANGED <<mon_init_done, group1, low, open, mvbar>>

(* tk1's switch_to_ns_svc_mode(): back in SVC mode sp is SVC's own again,  *)
(* and saved and restored only there.                                      *)
SwitchToNsSvcMode ==
  /\ At("ns_svc") /\ build.plat = "tk1"
  /\ mode' = "svc" /\ scr' = scr \union {"NS"}
  /\ Return /\ UNCHANGED <<sp, mon_init_done, group1, low, open, mvbar>>

(* imx6: the return from monitor mode at the end of platform_init().       *)
ModeSwitchNs ==
  /\ At("ns_svc") /\ build.plat = "imx6"
  /\ scr' = {"NS"} /\ mode' = "svc" /\ sp' = [sp EXCEPT !["svc"] = sp[mode]]
  /\ Return /\ UNCHANGED <<mon_init_done, group1, low, open, mvbar>>

Next ==
  \/ Undefined \/ SwitchToMonMode \/ SwitchToMonModeImx6 \/ InstallMonitorHook
  \/ EnableScuNsAccess \/ EnableNsAccessCp \/ EnableNsAccessCpImx6 \/ SetSmpBit \/ SetCsu
  \/ RouteIrqsToNonsecure \/ RouteIrqsToNonsecureImx6 \/ SwitchToHypMode \/ SwitchToNsSvcMode \/ ModeSwitchNs

Spec == Init /\ [][Next]_vars

-----------------------------------------------------------------------------
(* Properties.                                                             *)
(* Whatever modes the loader goes through, the stack pointer it has there  *)
(* points into its own stack (the mov of sp around each cps).  Into which  *)
(* frame is not modelled: that is up to the compiler's inlining.           *)
StackKept == sp[mode] = "stack"

(* platform_init() ends in the mode and world it is configured for.  In    *)
(* the nonsecure world every interrupt is then in group 1 at one priority, *)
(* floating point is allowed, and hypervisor calls and smc are not         *)
(* disabled in HYP mode.                                                   *)
Configured == (todo = <<>> /\ ~stuck /\ build.mode # "svc") =>
  CASE build.mode = "mon" -> mode = "mon" /\ "NS" \notin scr
    [] OTHER ->
       /\ mode = IF build.mode = "hyp" THEN "hyp" ELSE "svc"
       /\ "NS" \in scr
       /\ 0 .. nirqs - 1 \subseteq group1 \intersect low
       /\ "cp" \in open
       /\ build.mode = "hyp" => "HCE" \in scr /\ "SCD" \notin scr
       /\ build.hook => mvbar
=============================================================================
