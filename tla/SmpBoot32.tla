------------------------------ MODULE SmpBoot32 ------------------------------
(***************************************************************************)
(* The multicore start of the 32-bit ARM elfloader: the boot core runs     *)
(* main() (sys_boot.c) down to smp_boot() and init_cpus(), which starts    *)
(* the secondary cores (APs) through the platform's reset controller; each *)
(* AP numbers itself with an ldrex/strex loop on smp_aps_index (crt0.S),   *)
(* takes the stack of that number, and waits in non_boot_main() for        *)
(* non_boot_lock.                                                          *)
(*                                                                         *)
(* Caches are modelled as far as the hand-over needs them: what main()     *)
(* writes while its D-cache is on is "dirty", and memory, which is all an  *)
(* AP can read before it enables its own MMU, is stale until a clean.      *)
(* Cleaning, disabling and invalidating are the steps of mmu.S and         *)
(* mmu-hyp.S.  Caches are private to a core, as on Cortex-A9.              *)
(***************************************************************************)
EXTENDS Integers, FiniteSets

CONSTANTS
  MaxNodes,    \* CONFIG_MAX_NUM_NODES
  HwCores,     \* the cores the chip has
  CoreCounts,  \* what the SCU (or L2CTLR) may report
  HypKernel,   \* CONFIG_ARM_HYPERVISOR_SUPPORT
  Platforms,   \* whose init_cpus(): among "imx6", "imx7" and "zynq7000"
  Entries,     \* the machine states the boot loader may hand over
  LockImage    \* non_boot_lock's possible contents at entry (.bss)

Boot == 0
Core == 0..HwCores-1
AP == Core \ {Boot}
NoStack == -1
PageSize == 4096

Entry ==
  [hyp : [Core -> BOOLEAN],   \* is_hyp_mode() of each core at its first step
   sctlr : BOOLEAN,           \* boot core's SCTLR.C
   hsctlr : BOOLEAN]          \* boot core's HSCTLR.C

ASSUME ConfigAssumption ==
  /\ MaxNodes \in Nat \ {0}
  /\ HwCores \in Nat \ {0}
  /\ CoreCounts \subseteq 1..HwCores
  /\ "zynq7000" \in Platforms => HwCores <= 2
  /\ HypKernel \in BOOLEAN
  /\ Platforms \subseteq {"imx6", "imx7", "zynq7000"}
  /\ Entries \subseteq Entry
  /\ LockImage \subseteq BOOLEAN

(* What main() leaves in memory for the kernel and for the APs.            *)
Image == {"kernel_image", "kernel_info", "user_info"}
Data == Image \union {"_boot_pd", "_lpae_boot_pgd", "non_boot_lock"}

BootPC == {"_start", "load_images", "leave_hyp", "init_vspace", "smp_boot",
           "init_cpus", "stop_core", "set_cpu_jump", "power_up", "power_wait",
           "enable_cpu", "set_lock", "enable_mmu", "jump", "kernel", "abort"}
ApPC == {"reset", "lost", "imx_non_boot", "ldrex", "strex", "set_sp",
         "disable_dcaches", "spin", "wfi", "ap_leave_hyp", "ap_enable_mmu",
         "ap_jump", "kernel"}

VARIABLES
  platform, \* the platform this elfloader is built for
  pc,       \* where each core is
  hyp,      \* hyp[c]: core c is in HYP mode
  sctlrC,   \* SCTLR.C of each core (D-cache enable outside HYP mode)
  hsctlrC,  \* HSCTLR.C of each core (D-cache enable in HYP mode)
  mem,      \* the Data whose copy in memory is the written one
  dirty,    \* the Data that only the boot core's D-cache holds
  scu,      \* the snoop control unit is enabled
  jump,     \* the cores whose jump-address register is set
  enabled,  \* the cores the loader has taken out of reset
  busy,     \* the cores that run another program than the loader
  pup,      \* i.MX7: a power-up request is pending in the GPC
  num, i,   \* init_cpus(): the cores to run, and the loop variable
  index,    \* smp_aps_index
  r1,       \* register r1 of each core
  excl,     \* excl[c]: core c holds the exclusive reservation
  sp        \* stack pointer, as an offset into core_stack_alloc

bootVars == <<mem, dirty, scu, jump, enabled, busy, pup, num, i>>
apVars == <<index, r1, excl>>
modeVars == <<platform, hyp, sctlrC, hsctlrC>>
vars == <<pc, bootVars, apVars, modeVars, sp>>

Goto(c, l) == pc' = [pc EXCEPT ![c] = l]

(* The D-cache that counts is the one of the mode the core is in.          *)
Cached(c) == IF hyp[c] THEN hsctlrC[c] ELSE sctlrC[c]

(* The boot core stores D: to its D-cache while that is on, else to memory.*)
Write(D) ==
  IF Cached(Boot) THEN mem' = mem /\ dirty' = dirty \union D
                  ELSE mem' = mem \union D /\ dirty' = dirty

(* flush_dcache writes every dirty line back and empties the D-cache.      *)
(* invalidate_dcache empties it and drops what was dirty.                  *)
FlushDcache == mem' = mem \union dirty /\ dirty' = {}
InvalidateDcache == mem' = mem /\ dirty' = {}

(* On zynq7000 the boot loader may have started the other core already.    *)
Init ==
  /\ platform \in Platforms
  /\ busy \in SUBSET (IF platform = "zynq7000" THEN AP ELSE {})
  /\ \E e \in Entries :
       /\ hyp = e.hyp
       /\ sctlrC = [c \in Core |-> c = Boot /\ e.sctlr]
       /\ hsctlrC = [c \in Core |-> c = Boot /\ e.hsctlr]
  /\ \E b \in LockImage : mem = IF b THEN {"non_boot_lock"} ELSE {}
  /\ pc = [c \in Core |-> IF c = Boot THEN "_start" ELSE "reset"]
  /\ dirty = {}
  /\ scu \in BOOLEAN
  /\ jump = {} /\ enabled = {} /\ pup = FALSE
  /\ num = 0 /\ i = 1
  /\ index = 1
  /\ r1 = [c \in Core |-> 0]
  /\ excl = [c \in Core |-> FALSE]
  /\ sp = [c \in Core |-> NoStack]

-----------------------------------------------------------------------------
(* The boot core                                                           *)

(* _start: the stack is the first page of core_stack_alloc.                *)
Start ==
  /\ pc[Boot] = "_start"
  /\ sp' = [sp EXCEPT ![Boot] = PageSize - 16]
  /\ Goto(Boot, "load_images")
  /\ UNCHANGED <<bootVars, apVars, modeVars>>

(* platform_init() and load_images(): the images and their info structures *)
(* are written, or the loader gives up (bad archive, no user image).       *)
Load ==
  /\ pc[Boot] = "load_images"
  /\ \/ Write(Image) /\ Goto(Boot, "leave_hyp")
     \/ Goto(Boot, "abort") /\ UNCHANGED <<mem, dirty>>
  /\ UNCHANGED <<scu, jump, enabled, busy, pup, num, i, apVars, modeVars, sp>>

(* Mutant: leave_hyp() forgotten on the boot core.                         *)
LeaveHypForgotten ==
  /\ pc[Boot] = "leave_hyp"
  /\ Goto(Boot, "init_vspace")
  /\ UNCHANGED <<bootVars, apVars, modeVars, sp>>

(* Without a hypervisor kernel, main() drops to supervisor mode.           *)
LeaveHyp ==
  /\ pc[Boot] = "leave_hyp"
  /\ hyp' = [hyp EXCEPT ![Boot] = @ /\ HypKernel]
  /\ Goto(Boot, "init_vspace")
  /\ UNCHANGED <<bootVars, apVars, platform, sctlrC, hsctlrC, sp>>

(* Mutant: the supervisor tables are built in either mode.                 *)
InitVspaceSvcOnly ==
  /\ pc[Boot] = "init_vspace"
  /\ Write({"_boot_pd"})
  /\ Goto(Boot, IF MaxNodes > 1 THEN "smp_boot" ELSE "enable_mmu")
  /\ UNCHANGED <<scu, jump, enabled, busy, pup, num, i, apVars, modeVars, sp>>

(* init_hyp_boot_vspace() or init_boot_vspace(), by the mode; a            *)
(* single-core build goes straight on to the MMU.                          *)
InitVspace ==
  /\ pc[Boot] = "init_vspace"
  /\ Write({IF hyp[Boot] THEN "_lpae_boot_pgd" ELSE "_boot_pd"})
  /\ Goto(Boot, IF MaxNodes > 1 THEN "smp_boot" ELSE "enable_mmu")
  /\ UNCHANGED <<scu, jump, enabled, busy, pup, num, i, apVars, modeVars, sp>>

(* Mutant: the D-cache is disabled and invalidated without the clean.      *)
DisableDcachesUncleaned ==
  /\ pc[Boot] = "smp_boot"
  /\ InvalidateDcache
  /\ sctlrC' = [sctlrC EXCEPT ![Boot] = FALSE]
  /\ Goto(Boot, "init_cpus")
  /\ UNCHANGED <<scu, jump, enabled, busy, pup, num, i, apVars, platform, hyp, hsctlrC, sp>>

(* smp_boot(): arm_disable_dcaches().  The code looks at SCTLR in every    *)
(* mode: cleans if SCTLR.C, clears SCTLR.C, invalidates.                   *)
DisableDcaches ==
  /\ pc[Boot] = "smp_boot"
  /\ IF sctlrC[Boot] THEN FlushDcache ELSE InvalidateDcache
  /\ sctlrC' = [sctlrC EXCEPT ![Boot] = FALSE]
  /\ Goto(Boot, "init_cpus")
  /\ UNCHANGED <<scu, jump, enabled, busy, pup, num, i, apVars, platform, hyp, hsctlrC, sp>>

(* scu_enable(): nothing to do for an SCU that is on already.              *)
ScuEnable ==
  /\ scu' = TRUE
  /\ IF scu THEN UNCHANGED <<mem, dirty>> ELSE FlushDcache

(* Mutant: the core count is not cut down to the configuration.            *)
InitCpusUnclamped ==
  /\ pc[Boot] = "init_cpus"
  /\ IF platform = "imx6" THEN ScuEnable ELSE UNCHANGED <<scu, mem, dirty>>
  /\ \E n \in CoreCounts :
       /\ num' = n
       /\ Goto(Boot, IF n < MaxNodes THEN "abort" ELSE "set_cpu_jump")
  /\ UNCHANGED <<jump, enabled, busy, pup, i, apVars, modeVars, sp>>

(* init_cpus(), up to its loop: scu_enable() (i.MX6 only), then the number *)
(* of cores, cut down to the configuration or, when too small, a reason to *)
(* abort().                                                                *)
InitCpus ==
  /\ pc[Boot] = "init_cpus"
  /\ IF platform = "imx6" THEN ScuEnable ELSE UNCHANGED <<scu, mem, dirty>>
  /\ \E n \in CoreCounts :
       /\ num' = IF n > MaxNodes THEN MaxNodes ELSE n
       /\ Goto(Boot, IF n < MaxNodes THEN "abort"
                     ELSE IF platform = "zynq7000" THEN "stop_core"
                     ELSE "set_cpu_jump")
  /\ UNCHANGED <<jump, enabled, busy, pup, i, apVars, modeVars, sp>>

(* Mutant: core 1 is taken to be in reset.                                 *)
StopCoreForgotten ==
  /\ pc[Boot] = "stop_core"
  /\ Goto(Boot, "set_cpu_jump")
  /\ UNCHANGED <<bootVars, apVars, modeVars, sp>>

(* zynq_stop_core1(): core 1 is put in reset, whatever it was doing.       *)
StopCore ==
  /\ pc[Boot] = "stop_core"
  /\ busy' = busy \ {1}
  /\ Goto(Boot, "set_cpu_jump")
  /\ UNCHANGED <<mem, dirty, scu, jump, enabled, pup, num, i, apVars, modeVars, sp>>

(* Mutant: the jump address goes to the register of the core before.       *)
SetCpuJumpOffByOne ==
  /\ pc[Boot] = "set_cpu_jump"
  /\ jump' = jump \union {i - 1}
  /\ Goto(Boot, IF platform = "imx7" THEN "power_up" ELSE "enable_cpu")
  /\ UNCHANGED <<mem, dirty, scu, enabled, busy, pup, num, i, apVars, modeVars, sp>>

(* src_set_cpu_jump(i, imx_non_boot), or the store to CPU_JUMP_PTR.        *)
SetCpuJump ==
  /\ pc[Boot] = "set_cpu_jump"
  /\ jump' = jump \union {i}
  /\ Goto(Boot, IF platform = "imx7" THEN "power_up" ELSE "enable_cpu")
  /\ UNCHANGED <<mem, dirty, scu, enabled, busy, pup, num, i, apVars, modeVars, sp>>

(* gpc_core1_up(): request power and poll until the controller clears it.  *)
PowerUp ==
  /\ pc[Boot] = "power_up"
  /\ pup' = TRUE
  /\ Goto(Boot, "power_wait")
  /\ UNCHANGED <<mem, dirty, scu, jump, enabled, busy, num, i, apVars, modeVars, sp>>

PowerWait ==
  /\ pc[Boot] = "power_wait"
  /\ ~pup
  /\ Goto(Boot, "enable_cpu")
  /\ UNCHANGED <<bootVars, apVars, modeVars, sp>>

(* The loop of init_cpus().  On zynq7000 core 1 is the only other core.    *)
MoreCpus == platform # "zynq7000" /\ i + 1 < num

(* src_enable_cpu(i) or zynq_start_core1(), and the step of the loop.      *)
EnableCpu ==
  /\ pc[Boot] = "enable_cpu"
  /\ enabled' = enabled \union {i}
  /\ i' = i + 1
  /\ Goto(Boot, IF MoreCpus THEN "set_cpu_jump" ELSE "set_lock")
  /\ UNCHANGED <<mem, dirty, scu, jump, busy, pup, num, apVars, modeVars, sp>>

(* Mutant: the lock is never released.                                     *)
SetLockForgotten ==
  /\ pc[Boot] = "set_lock"
  /\ Goto(Boot, "enable_mmu")
  /\ UNCHANGED <<bootVars, apVars, modeVars, sp>>

(* smp_boot(): non_boot_lock = 1.                                          *)
SetLock ==
  /\ pc[Boot] = "set_lock"
  /\ Write({"non_boot_lock"})
  /\ Goto(Boot, "enable_mmu")
  /\ UNCHANGED <<scu, jump, enabled, busy, pup, num, i, apVars, modeVars, sp>>

(* arm_enable_mmu cleans the D-cache if SCTLR.C; arm_enable_hyp_mmu has    *)
(* "bleq flush_dcache" behind the test of HSCTLR.C, so it cleans if that   *)
(* bit is clear.  Both then invalidate, and turn MMU and D-cache on.       *)
EnableMmu ==
  /\ pc[Boot] = "enable_mmu"
  /\ IF Cached(Boot) # hyp[Boot] THEN FlushDcache ELSE InvalidateDcache
  /\ IF hyp[Boot]
       THEN hsctlrC' = [hsctlrC EXCEPT ![Boot] = TRUE] /\ UNCHANGED sctlrC
       ELSE sctlrC' = [sctlrC EXCEPT ![Boot] = TRUE] /\ UNCHANGED hsctlrC
  /\ Goto(Boot, "jump")
  /\ UNCHANGED <<scu, jump, enabled, busy, pup, num, i, apVars, platform, hyp, sp>>

(* The jump to kernel_info.virt_entry.                                     *)
JumpToKernel ==
  /\ pc[Boot] = "jump"
  /\ Goto(Boot, "kernel")
  /\ UNCHANGED <<bootVars, apVars, modeVars, sp>>

BootNext ==
  \/ Start \/ Load \/ LeaveHyp \/ InitVspace \/ DisableDcaches
  \/ InitCpus \/ StopCore \/ SetCpuJump \/ PowerUp \/ PowerWait
  \/ EnableCpu \/ SetLock \/ EnableMmu \/ JumpToKernel

(* External: the i.MX7 power controller completes a power-up request.      *)
GpcDone ==
  /\ pup
  /\ pup' = FALSE
  /\ UNCHANGED <<pc, mem, dirty, scu, jump, enabled, busy, num, i, apVars, modeVars, sp>>

-----------------------------------------------------------------------------
(* A secondary core                                                        *)

(* External: the core leaves reset and fetches its jump address, wherever  *)
(* that register points.  A core that never was in reset does not.         *)
LeaveReset(c) ==
  /\ pc[c] = "reset"
  /\ c \in enabled \ busy
  /\ Goto(c, IF c \notin jump THEN "lost"
             ELSE IF platform = "zynq7000" THEN "ldrex" ELSE "imx_non_boot")
  /\ UNCHANGED <<bootVars, apVars, modeVars, sp>>

(* imx_non_boot: invalidate the core's own caches, random after reset.     *)
ImxNonBoot(c) ==
  /\ pc[c] = "imx_non_boot"
  /\ Goto(c, "ldrex")
  /\ UNCHANGED <<bootVars, apVars, modeVars, sp>>

(* non_boot_core: ldrex r1, add r1, r1, #1.                                *)
Ldrex(c) ==
  /\ pc[c] = "ldrex"
  /\ r1' = [r1 EXCEPT ![c] = index + 1]
  /\ excl' = [excl EXCEPT ![c] = TRUE]
  /\ Goto(c, "strex")
  /\ UNCHANGED <<bootVars, index, modeVars, sp>>

(* Mutant: a plain str in the place of the strex.                          *)
StrexPlain(c) ==
  /\ pc[c] = "strex"
  /\ index' = r1[c]
  /\ excl' = [excl EXCEPT ![c] = FALSE]
  /\ Goto(c, "set_sp")
  /\ UNCHANGED <<bootVars, r1, modeVars, sp>>

(* strex succeeds only while the reservation stands, and a success takes   *)
(* away every core's reservation of the word.                              *)
StrexOk(c) ==
  /\ pc[c] = "strex"
  /\ excl[c]
  /\ index' = r1[c]
  /\ excl' = [d \in Core |-> FALSE]
  /\ Goto(c, "set_sp")
  /\ UNCHANGED <<bootVars, r1, modeVars, sp>>

(* It may fail with the reservation standing too (evictions); bne 1b.      *)
StrexFail(c) ==
  /\ pc[c] = "strex"
  /\ excl' = [excl EXCEPT ![c] = FALSE]
  /\ Goto(c, "ldrex")
  /\ UNCHANGED <<bootVars, index, r1, modeVars, sp>>

(* sp = core_stack_alloc - 0x10 + r1 * 0x1000.                             *)
SetSp(c) ==
  /\ pc[c] = "set_sp"
  /\ sp' = [sp EXCEPT ![c] = r1[c] * PageSize - 16]
  /\ Goto(c, "disable_dcaches")
  /\ UNCHANGED <<bootVars, apVars, modeVars>>

(* non_boot_main(): arm_disable_dcaches().                                 *)
ApDisableDcaches(c) ==
  /\ pc[c] = "disable_dcaches"
  /\ sctlrC' = [sctlrC EXCEPT ![c] = FALSE]
  /\ Goto(c, "spin")
  /\ UNCHANGED <<bootVars, apVars, platform, hyp, hsctlrC, sp>>

(* Mutant: if in the place of while.                                       *)
SpinOnce(c) ==
  /\ pc[c] = "spin"
  /\ Goto(c, "ap_leave_hyp")
  /\ UNCHANGED <<bootVars, apVars, modeVars, sp>>

(* while (!non_boot_lock) cpu_idle();  cpu_idle() is dsb; wfi.             *)
Spin(c) ==
  /\ pc[c] = "spin"
  /\ Goto(c, IF "non_boot_lock" \in mem THEN "ap_leave_hyp" ELSE "wfi")
  /\ UNCHANGED <<bootVars, apVars, modeVars, sp>>

(* External: an interrupt becomes pending and ends the wfi.                *)
WakeUp(c) ==
  /\ pc[c] = "wfi"
  /\ Goto(c, "spin")
  /\ UNCHANGED <<bootVars, apVars, modeVars, sp>>

ApLeaveHyp(c) ==
  /\ pc[c] = "ap_leave_hyp"
  /\ hyp' = [hyp EXCEPT ![c] = @ /\ HypKernel]
  /\ Goto(c, "ap_enable_mmu")
  /\ UNCHANGED <<bootVars, apVars, platform, sctlrC, hsctlrC, sp>>

ApEnableMmu(c) ==
  /\ pc[c] = "ap_enable_mmu"
  /\ IF hyp[c]
       THEN hsctlrC' = [hsctlrC EXCEPT ![c] = TRUE] /\ UNCHANGED sctlrC
       ELSE sctlrC' = [sctlrC EXCEPT ![c] = TRUE] /\ UNCHANGED hsctlrC
  /\ Goto(c, "ap_jump")
  /\ UNCHANGED <<bootVars, apVars, platform, hyp, sp>>

ApJump(c) ==
  /\ pc[c] = "ap_jump"
  /\ Goto(c, "kernel")
  /\ UNCHANGED <<bootVars, apVars, modeVars, sp>>

(* The steps an AP takes by itself.                                        *)
ApStep(c) ==
  \/ ImxNonBoot(c) \/ Ldrex(c) \/ StrexOk(c) \/ StrexFail(c) \/ SetSp(c)
  \/ ApDisableDcaches(c) \/ Spin(c) \/ ApLeaveHyp(c) \/ ApEnableMmu(c)
  \/ ApJump(c)

ApNext(c) == LeaveReset(c) \/ WakeUp(c) \/ ApStep(c)

(* abort() loops for ever with no AP started; a system whose cores are all *)
(* in the kernel, or none of the loader's, has left the loader.            *)
Halted ==
  /\ \/ pc[Boot] = "abort"
     \/ pc[Boot] = "kernel" /\ \A c \in enabled \ busy : pc[c] = "kernel"
  /\ UNCHANGED vars

Next == BootNext \/ GpcDone \/ Halted \/ \E c \in AP : ApNext(c)

Spec == Init /\ [][Next]_vars

(* Every core executes its instructions, and the hardware its requests; a  *)
(* store-exclusive that can succeed time and again does so in the end.     *)
(* Whether a core in wfi is ever woken is not in the loader's hands.       *)
Progress ==
  /\ WF_vars(BootNext)
  /\ WF_vars(GpcDone)
  /\ \A c \in AP : /\ WF_vars(LeaveReset(c))
                    /\ WF_vars(ApStep(c))
                    /\ SF_vars(StrexOk(c))

FairSpec == Spec /\ Progress /\ \A c \in AP : WF_vars(WakeUp(c))

(* The same without any interrupt that would end a wfi.                    *)
NoWakeSpec == Spec /\ Progress

-----------------------------------------------------------------------------
(* Properties                                                              *)

TypeOK ==
  /\ pc \in [Core -> BootPC \union ApPC]
  /\ platform \in Platforms
  /\ pc[Boot] \in BootPC /\ \A c \in AP : pc[c] \in ApPC
  /\ hyp \in [Core -> BOOLEAN]
  /\ sctlrC \in [Core -> BOOLEAN] /\ hsctlrC \in [Core -> BOOLEAN]
  /\ mem \subseteq Data /\ dirty \subseteq Data
  /\ scu \in BOOLEAN /\ pup \in BOOLEAN
  /\ jump \subseteq AP /\ enabled \subseteq AP /\ busy \subseteq AP
  /\ num \in 0..MaxNodes /\ i \in 1..MaxNodes
  /\ index \in Nat
  /\ r1 \in [Core -> Nat]
  /\ excl \in [Core -> BOOLEAN]
  /\ sp \in [Core -> Int]

(* Two cores never run on the same page of core_stack_alloc, and none runs *)
(* outside the array: crt0.S takes the page from smp_aps_index, so the     *)
(* numbers the ldrex/strex loop hands out must be distinct and at most     *)
(* CONFIG_MAX_NUM_NODES.                                                   *)
OwnStack ==
  \A c \in Core : sp[c] # NoStack =>
    /\ sp[c] >= 0 /\ sp[c] < MaxNodes * PageSize
    /\ \A d \in Core \ {c} : sp[d] # NoStack =>
         sp[c] - sp[d] >= PageSize \/ sp[d] - sp[c] >= PageSize

(* No AP gets past its spin loop before the boot core has started every    *)
(* core and released them (smp_boot.c: "Spin until the first CPU has       *)
(* finished initialisation").                                              *)
HeldAtGate ==
  \A c \in AP :
    pc[c] \in {"ap_leave_hyp", "ap_enable_mmu", "ap_jump", "kernel"} =>
      /\ pc[Boot] \in {"enable_mmu", "jump", "kernel"}
      /\ enabled = 1..MaxNodes-1

(* Once an AP is out of reset, all that the kernel needs (both images and  *)
(* their info structures) is in memory, where a core with its caches off   *)
(* reads it: the boot core has cleaned its D-cache before starting cores.  *)
(* It holds even where .bss is not zeroed and the lock cannot be trusted.  *)
DataBeforeAps ==
  enabled # {} => Image \subseteq mem

(* A core that turns its MMU on has the page tables of its mode in memory, *)
(* and the boot core enters the kernel with nothing of what it wrote lost. *)
TablesReady ==
  \A c \in Core :
    pc[c] \in {"jump", "ap_jump", "kernel"} =>
      /\ Image \subseteq mem
      /\ (IF hyp[c] THEN "_lpae_boot_pgd" ELSE "_boot_pd") \in mem

(* A core never leaves reset towards an address nobody has set.            *)
NoLostCore == \A c \in AP : pc[c] # "lost"

(* The APs that have a number hold exactly 2..smp_aps_index, one each: the *)
(* kernel sees consecutive cores however their loops interleave.           *)
Numbered == {c \in AP : pc[c] \notin {"reset", "lost", "imx_non_boot", "ldrex", "strex"}}
DenseNumbers ==
  /\ {r1[c] : c \in Numbered} = 2..index
  /\ \A c, d \in Numbered : r1[c] = r1[d] => c = d

(* Every core the configuration asks for reaches the kernel, unless the    *)
(* boot core gives up before it has started any.                           *)
AllReachKernel ==
  <>[](\/ \A c \in 0..MaxNodes-1 : pc[c] = "kernel"
       \/ pc[Boot] = "abort" /\ enabled = {})

(* "Spin until the first CPU has finished initialisation": once it has     *)
(* (it is in the kernel), an AP at the spin loop goes on.                  *)
SpinEnds ==
  \A c \in AP : (pc[Boot] = "kernel" /\ pc[c] \in {"spin", "wfi"}) ~> (pc[c] = "kernel")

(* Nothing the boot core wrote is lost: what main() has stored is in       *)
(* memory or still in the D-cache it is using (mmu.S and mmu-hyp.S: "Clean *)
(* D-Cache if enabled", before the invalidation that would drop it).       *)
CleanedBeforeInvalidate ==
  [][dirty' = {} => dirty \subseteq mem']_vars

-----------------------------------------------------------------------------
(* The inductive invariant, in parts                                       *)

(* The boot loader has the D-cache off in HYP mode.                        *)
NoCachedHyp == \A e \in Entries : e.hyp[Boot] => ~e.hsctlr

Starting == {"set_cpu_jump", "power_up", "power_wait", "enable_cpu"}
Released == {"enable_mmu", "jump", "kernel"}

(* How far the boot core is tells which cores are out of reset.            *)
EnabledInv ==
  /\ pc[Boot] \in Starting =>
       /\ MaxNodes > 1 /\ MaxNodes <= HwCores
       /\ num = MaxNodes /\ i \in 1..num-1
       /\ enabled = 1..i-1
       /\ pc[Boot] # "set_cpu_jump" => i \in jump
  /\ pc[Boot] \in {"set_lock"} \union Released =>
       /\ enabled = 1..MaxNodes-1
       /\ MaxNodes > 1 => MaxNodes <= HwCores
  /\ pc[Boot] \notin {"set_lock"} \union Released \union Starting => enabled = {} /\ i = 1
  /\ pc[Boot] = "stop_core" =>
       /\ MaxNodes > 1 /\ MaxNodes <= HwCores
       /\ num = MaxNodes /\ platform = "zynq7000"
  /\ pc[Boot] \in {"smp_boot", "init_cpus"} => MaxNodes > 1
  /\ platform = "zynq7000" /\ pc[Boot] \in Starting => i = 1
  /\ enabled \subseteq jump
  /\ \A c \in AP : pc[c] # "reset" => c \in enabled
  /\ \A c \in AP : pc[c] # "lost"

(* The numbers: a reservation that stands guards the current index.        *)
NumberInv ==
  /\ index >= 1
  /\ {r1[c] : c \in Numbered} = 2..index
  /\ Cardinality(Numbered) = index - 1
  /\ \A c, d \in Numbered : r1[c] = r1[d] => c = d
  /\ \A c \in AP : pc[c] = "strex" /\ excl[c] => r1[c] = index + 1

StackInv ==
  /\ sp[Boot] \in {NoStack, PageSize - 16}
  /\ \A c \in AP : sp[c] # NoStack => c \in Numbered /\ sp[c] = r1[c] * PageSize - 16

(* The lock word says what the boot core has done.                         *)
LockInv ==
  /\ "non_boot_lock" \in mem => pc[Boot] \in Released
  /\ "non_boot_lock" \in dirty => pc[Boot] \in Released
  /\ \A c \in AP :
       pc[c] \in {"ap_leave_hyp", "ap_enable_mmu", "ap_jump", "kernel"} => pc[Boot] \in Released

(* Only an enabled D-cache outside HYP mode holds dirty data, and from     *)
(* smp_boot() on there is none.                                            *)
CacheInv ==
  /\ hyp[Boot] /\ pc[Boot] \notin {"jump", "kernel"} => ~hsctlrC[Boot]
  /\ dirty # {} => sctlrC[Boot] /\ ~hyp[Boot]
  /\ pc[Boot] \notin {"_start", "load_images", "abort"} => Image \subseteq mem \union dirty
  /\ pc[Boot] \notin {"_start", "load_images", "leave_hyp", "init_vspace", "smp_boot", "abort",
                       "enable_mmu"} => dirty = {}
  /\ MaxNodes > 1 /\ pc[Boot] = "enable_mmu" => dirty = {}
  /\ MaxNodes > 1 /\ pc[Boot] \in Starting \union {"init_cpus", "stop_core", "set_lock", "enable_mmu"}
       => ~sctlrC[Boot]

IInv == TypeOK /\ EnabledInv /\ NumberInv /\ StackInv /\ LockInv /\ CacheInv

-----------------------------------------------------------------------------
(* The start implements the abstract gate: published is the data in        *)
(* memory, open is smp_boot() behind the boot core, a slot is a stack page.*)
Published ==
  /\ Image \subseteq mem
  /\ {"_boot_pd", "_lpae_boot_pgd"} \intersect mem # {}

Gate == INSTANCE StartGate WITH
  BootCore <- Boot,
  Slot <- 0..MaxNodes-1,
  NoSlot <- NoStack,
  published <- Published,
  open <- pc[Boot] \in {"enable_mmu", "jump", "kernel"},
  slot <- [c \in Core |-> IF sp[c] = NoStack THEN NoStack ELSE sp[c] \div PageSize],
  entered <- {c \in Core : pc[c] = "kernel"}

GateSpec == Gate!Spec
=============================================================================
