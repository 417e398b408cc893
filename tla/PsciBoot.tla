------------------------------ MODULE PsciBoot ------------------------------
(***************************************************************************)
(* The multicore start of the AArch64 elfloader (tx1, hikey): init_cpus()  *)
(* asks the firmware (PSCI CPU_ON) for one core after the other, hands     *)
(* each its stack, and waits until that core has raised core_up[] before   *)
(* it goes on; the cores then wait for non_boot_lock.                      *)
(*                                                                         *)
(* On hikey the stack travels as CPU_ON's context id.  On tx1 that does    *)
(* not work, so there is one mailbox word (the first of core_stacks) that  *)
(* the next core must have read before it is used again.                   *)
(***************************************************************************)
EXTENDS Integers, FiniteSets

CONSTANTS
  Builds,       \* the elfloaders and how they are entered: [platform, nodes, hyp, el2, dc]
  CoreUpImage,  \* what core_up[] may hold at entry (.bss): who looks up
  LockImage     \* what non_boot_lock may hold at entry (.bss)

CoresPerCluster == 4
ClusterShift == 256   \* 1 << CLUSTER_ID_SHIFT

(* The firmware's names (MPIDR affinities) of the cores a chip may have.   *)
AnyCpu == (0..3) \union (256..259)
AnyNode == 1..7
Boot == 0
NoStack == -1
NoLine == {NoStack}

ASSUME PsciAssumption ==
  /\ \A b \in Builds :
       /\ b.platform \in {"tx1", "hikey"}
       /\ b.nodes \in 2..8
       /\ b.hyp \in BOOLEAN /\ b.el2 \in BOOLEAN /\ b.dc \in BOOLEAN
       \* The mailbox is read past the boot core's cache: a tx1 is entered at
       \* EL2, where the loader turns the D-cache off, or with the D-cache off.
       /\ b.platform = "tx1" /\ b.dc => b.el2
  /\ CoreUpImage \subseteq SUBSET AnyNode
  /\ LockImage \subseteq BOOLEAN

Image == {"images", "image_infos"}
Data == Image \union {"boot_vspace", "non_boot_lock"}

BootPC == {"_start", "load_images", "leave_hyp", "disable_caches_hyp", "init_vspace", "init_cpus",
           "give_stack", "cpu_on", "wait_up", "set_lock", "enable_mmu", "jump", "kernel", "abort"}
ApPC == {"off", "powering", "core_entry_head", "core_entry", "spin", "ap_leave_hyp",
         "ap_enable_mmu", "ap_jump", "kernel"}

VARIABLES
  build,    \* the elfloader that runs and the state it was entered in
  pc,       \* where each cpu is
  el2,      \* el2[c]: cpu c runs at EL2
  dc,       \* the boot core's D-cache is on
  mem,      \* the Data whose copy in memory is the written one
  dirty,    \* the Data only the boot core's D-cache holds
  mail,     \* tx1: the mailbox word in memory, a node's stack
  i,        \* init_cpus()'s loop variable
  x0,       \* x0[c]: the context id cpu c is started with
  sp,       \* sp[c]: the entry of core_stacks[] cpu c points its stack to
  tpidr,    \* tpidr[c]: the logic ID cpu c will show the kernel
  coreUp,   \* the nodes j with core_up[j] = j in memory
  upLine    \* the boot core's cached copy of core_up[], or NoLine

cacheVars == <<mem, dirty, upLine>>
bootVars == <<dc, mail, i, cacheVars>>
apVars == <<sp, tpidr, coreUp>>
vars == <<build, pc, el2, bootVars, x0, apVars>>

Platform == build.platform
MaxNodes == build.nodes    \* CONFIG_MAX_NUM_NODES
HypKernel == build.hyp     \* CONFIG_ARM_HYPERVISOR_SUPPORT
MaxCores == IF Platform = "tx1" THEN 4 ELSE 8
Cpu == IF Platform = "tx1" THEN 0..3 ELSE AnyCpu
AP == Cpu \ {Boot}
Node == 1..MaxNodes-1

Goto(c, l) == pc' = [pc EXCEPT ![c] = l]

Write(D) ==
  IF dc THEN mem' = mem /\ dirty' = dirty \union D
        ELSE mem' = mem \union D /\ dirty' = dirty

(* flush_dcache cleans and invalidates the whole D-cache.                  *)
FlushDcache ==
  /\ mem' = mem \union dirty /\ dirty' = {}
  /\ upLine' = NoLine

Init ==
  /\ build \in Builds
  /\ el2 = [c \in AnyCpu |-> build.el2]
  /\ dc = build.dc
  /\ \E b \in LockImage : mem = IF b THEN {"non_boot_lock"} ELSE {}
  /\ coreUp \in CoreUpImage
  /\ pc = [c \in AnyCpu |-> IF c = Boot THEN "_start" ELSE "off"]
  /\ dirty = {} /\ upLine = NoLine
  /\ mail = NoStack
  /\ i = 1
  /\ x0 = [c \in AnyCpu |-> NoStack]
  /\ sp = [c \in AnyCpu |-> NoStack]
  /\ tpidr = [c \in AnyCpu |-> NoStack]

-----------------------------------------------------------------------------
(* The boot core                                                           *)

(* _start: sp = core_stack_alloc + 0xff0; it uses no entry of core_stacks, *)
(* entry 0 stands for core_stack_alloc.                                    *)
Start ==
  /\ pc[Boot] = "_start"
  /\ sp' = [sp EXCEPT ![Boot] = 0]
  /\ Goto(Boot, "load_images")
  /\ UNCHANGED <<build, el2, bootVars, x0, tpidr, coreUp>>

Load ==
  /\ pc[Boot] = "load_images"
  /\ \/ Write(Image) /\ Goto(Boot, "leave_hyp")
     \/ Goto(Boot, "abort") /\ UNCHANGED <<mem, dirty>>
  /\ UNCHANGED <<build, el2, dc, mail, i, upLine, x0, apVars>>

(* leave_hyp() flushes, turns MMU and caches of both levels off, and goes  *)
(* down to EL1.  It is called at EL2 without a hypervisor kernel.          *)
LeaveHyp ==
  /\ pc[Boot] = "leave_hyp"
  /\ IF el2[Boot] /\ ~HypKernel
       THEN /\ FlushDcache
            /\ dc' = FALSE
            /\ el2' = [el2 EXCEPT ![Boot] = FALSE]
       ELSE UNCHANGED <<el2, dc, cacheVars>>
  /\ Goto(Boot, "disable_caches_hyp")
  /\ UNCHANGED <<build, mail, i, x0, apVars>>

(* Mutant: disable_caches_hyp() disables without the flush.                *)
DisableCachesHypUnflushed ==
  /\ pc[Boot] = "disable_caches_hyp"
  /\ dc' = (dc /\ ~el2[Boot])
  /\ Goto(Boot, "init_vspace")
  /\ UNCHANGED <<build, el2, cacheVars, mail, i, x0, apVars>>

(* At EL2 disable_caches_hyp(): flush the D-cache and turn it off.         *)
DisableCachesHyp ==
  /\ pc[Boot] = "disable_caches_hyp"
  /\ IF el2[Boot] THEN FlushDcache /\ dc' = FALSE ELSE UNCHANGED <<dc, cacheVars>>
  /\ Goto(Boot, "init_vspace")
  /\ UNCHANGED <<build, el2, mail, i, x0, apVars>>

(* init_hyp_boot_vspace() at EL2, init_boot_vspace() at EL1.               *)
InitVspace ==
  /\ pc[Boot] = "init_vspace"
  /\ Write({"boot_vspace"})
  /\ Goto(Boot, "init_cpus")
  /\ UNCHANGED <<build, el2, dc, mail, i, upLine, x0, apVars>>

(* init_cpus(): more nodes than the chip has cores is a reason to abort(). *)
InitCpus ==
  /\ pc[Boot] = "init_cpus"
  /\ Goto(Boot, IF MaxNodes > MaxCores THEN "abort"
                ELSE IF Platform = "tx1" THEN "give_stack" ELSE "cpu_on")
  /\ UNCHANGED <<build, el2, bootVars, x0, apVars>>

(* tx1: core_stacks[0][0] = &core_stacks[i][0]; dsb sy.  The D-cache is    *)
(* off by now (PsciAssumption), so the word goes to memory.                *)
GiveStack ==
  /\ pc[Boot] = "give_stack"
  /\ mail' = i
  /\ Goto(Boot, "cpu_on")
  /\ UNCHANGED <<build, el2, dc, mem, dirty, i, upLine, x0, apVars>>

(* cpuid = core_id | (cluster_id << CLUSTER_ID_SHIFT); on tx1 just i.      *)
Target(n) ==
  IF Platform = "hikey"
    THEN (n % CoresPerCluster) + (n \div CoresPerCluster) * ClusterShift
    ELSE n

(* Mutant: the stack of the core within its cluster, not of the node.      *)
PsciCpuOnClusterStack ==
  /\ pc[Boot] = "cpu_on"
  /\ \/ /\ Target(i) \in AP /\ pc[Target(i)] = "off"
        /\ pc' = [pc EXCEPT ![Boot] = "wait_up", ![Target(i)] = "powering"]
        /\ x0' = [x0 EXCEPT ![Target(i)] = IF Platform = "tx1" THEN 0 ELSE i % CoresPerCluster]
     \/ /\ Goto(Boot, "abort")
        /\ UNCHANGED x0
  /\ UNCHANGED <<build, el2, bootVars, apVars>>

(* psci_cpu_on(): the firmware takes the request for a core that exists    *)
(* and is off, or refuses with an error code, and then the loader aborts.  *)
PsciCpuOn ==
  /\ pc[Boot] = "cpu_on"
  /\ \/ /\ Target(i) \in AP /\ pc[Target(i)] = "off"
        /\ pc' = [pc EXCEPT ![Boot] = "wait_up", ![Target(i)] = "powering"]
        /\ x0' = [x0 EXCEPT ![Target(i)] = IF Platform = "tx1" THEN 0 ELSE i]
     \/ /\ Goto(Boot, "abort")
        /\ UNCHANGED x0
  /\ UNCHANGED <<build, el2, bootVars, apVars>>

(* What the boot core reads core_up[] to be.                               *)
SeenUp == IF dc THEN upLine ELSE coreUp

(* A read of core_up[] that misses fetches the line.                       *)
FetchUp ==
  /\ pc[Boot] = "wait_up"
  /\ dc /\ upLine = NoLine
  /\ upLine' = coreUp
  /\ UNCHANGED <<build, pc, el2, dc, mem, dirty, mail, i, x0, apVars>>

(* Mutant: <= in the place of < in the loop's condition.                   *)
NextNodeOneMore ==
  /\ i' = i + 1
  /\ Goto(Boot, IF i' > MaxNodes THEN "set_lock"
                ELSE IF Platform = "tx1" THEN "give_stack" ELSE "cpu_on")
  /\ UNCHANGED <<build, el2, dc, cacheVars, mail, x0, apVars>>

(* Where the loop goes after node i.                                       *)
NextNode ==
  /\ i' = i + 1
  /\ Goto(Boot, IF i' >= MaxNodes THEN "set_lock"
                ELSE IF Platform = "tx1" THEN "give_stack" ELSE "cpu_on")
  /\ UNCHANGED <<build, el2, dc, cacheVars, mail, x0, apVars>>

(* Mutant: the wait is left out.                                           *)
WaitUpSkipped ==
  /\ pc[Boot] = "wait_up"
  /\ NextNode

(* while (!is_core_up(i));                                                 *)
WaitUp ==
  /\ pc[Boot] = "wait_up"
  /\ dc => upLine # NoLine
  /\ i \in SeenUp
  /\ NextNode

(* Mutant: the lock is never released.                                     *)
SetLockForgotten ==
  /\ pc[Boot] = "set_lock"
  /\ tpidr' = [tpidr EXCEPT ![Boot] = 0]
  /\ Goto(Boot, "enable_mmu")
  /\ UNCHANGED <<build, el2, bootVars, x0, sp, coreUp>>

(* MSR("tpidr_el1", 0), and smp_boot()'s non_boot_lock = 1.                *)
SetLock ==
  /\ pc[Boot] = "set_lock"
  /\ tpidr' = [tpidr EXCEPT ![Boot] = 0]
  /\ Write({"non_boot_lock"})
  /\ Goto(Boot, "enable_mmu")
  /\ UNCHANGED <<build, el2, dc, mail, i, upLine, x0, sp, coreUp>>

(* arm_enable_mmu and arm_enable_hyp_mmu flush whatever the D-cache's      *)
(* state, and turn MMU and D-cache on.                                     *)
EnableMmu ==
  /\ pc[Boot] = "enable_mmu"
  /\ FlushDcache
  /\ dc' = TRUE
  /\ Goto(Boot, "jump")
  /\ UNCHANGED <<build, el2, mail, i, x0, apVars>>

JumpToKernel ==
  /\ pc[Boot] = "jump"
  /\ Goto(Boot, "kernel")
  /\ UNCHANGED <<build, el2, bootVars, x0, apVars>>

BootNext ==
  \/ Start \/ Load \/ LeaveHyp \/ DisableCachesHyp \/ InitVspace
  \/ InitCpus \/ GiveStack \/ PsciCpuOn
  \/ FetchUp \/ WaitUp \/ SetLock \/ EnableMmu \/ JumpToKernel

(* External: the D-cache writes back a dirty line, or drops a clean one,   *)
(* whenever it likes.                                                      *)
Evict ==
  /\ \/ \E d \in dirty : mem' = mem \union {d} /\ dirty' = dirty \ {d} /\ UNCHANGED upLine
     \/ upLine # NoLine /\ upLine' = NoLine /\ UNCHANGED <<mem, dirty>>
  /\ UNCHANGED <<build, pc, el2, dc, mail, i, x0, apVars>>

-----------------------------------------------------------------------------
(* A secondary core                                                        *)

(* External: the firmware releases the core to core_entry_head.            *)
PowerOn(c) ==
  /\ pc[c] = "powering"
  /\ Goto(c, "core_entry_head")
  /\ UNCHANGED <<build, el2, bootVars, x0, apVars>>

(* core_entry_head: the stack from the mailbox (tx1) or from x0 (hikey).   *)
CoreEntryHead(c) ==
  /\ pc[c] = "core_entry_head"
  /\ sp' = [sp EXCEPT ![c] = IF Platform = "tx1" THEN mail ELSE x0[c]]
  /\ Goto(c, "core_entry")
  /\ UNCHANGED <<build, el2, bootVars, x0, tpidr, coreUp>>

(* Mutant: the core reports in before it has stored its ID, as node 1.     *)
CoreEntryWrongId(c) ==
  /\ pc[c] = "core_entry"
  /\ tpidr' = [tpidr EXCEPT ![c] = 1]
  /\ coreUp' = coreUp \union {sp[c]}
  /\ Goto(c, "spin")
  /\ UNCHANGED <<build, el2, bootVars, x0, sp>>

(* core_entry(): the logic ID is the index of the stack; core_up[id] = id. *)
CoreEntry(c) ==
  /\ pc[c] = "core_entry"
  /\ tpidr' = [tpidr EXCEPT ![c] = sp[c]]
  /\ coreUp' = coreUp \union {sp[c]}
  /\ Goto(c, "spin")
  /\ UNCHANGED <<build, el2, bootVars, x0, sp>>

(* Mutant: the spin loop is left out.                                      *)
SpinSkipped(c) ==
  /\ pc[c] = "spin"
  /\ Goto(c, "ap_leave_hyp")
  /\ UNCHANGED <<build, el2, bootVars, x0, apVars>>

(* non_boot_main(): while (!non_boot_lock);  its D-cache is off.           *)
Spin(c) ==
  /\ pc[c] = "spin"
  /\ "non_boot_lock" \in mem
  /\ Goto(c, "ap_leave_hyp")
  /\ UNCHANGED <<build, el2, bootVars, x0, apVars>>

ApLeaveHyp(c) ==
  /\ pc[c] = "ap_leave_hyp"
  /\ el2' = [el2 EXCEPT ![c] = @ /\ HypKernel]
  /\ Goto(c, "ap_enable_mmu")
  /\ UNCHANGED <<build, bootVars, x0, apVars>>

ApEnableMmu(c) ==
  /\ pc[c] = "ap_enable_mmu"
  /\ Goto(c, "ap_jump")
  /\ UNCHANGED <<build, el2, bootVars, x0, apVars>>

ApJump(c) ==
  /\ pc[c] = "ap_jump"
  /\ Goto(c, "kernel")
  /\ UNCHANGED <<build, el2, bootVars, x0, apVars>>

ApNext(c) ==
  \/ PowerOn(c) \/ CoreEntryHead(c) \/ CoreEntry(c) \/ Spin(c)
  \/ ApLeaveHyp(c) \/ ApEnableMmu(c) \/ ApJump(c)

(* abort() loops for ever, and the cores already started spin; or all the  *)
(* cores asked for are in the kernel.                                      *)
Halted ==
  /\ \/ pc[Boot] = "abort"
     \/ pc[Boot] = "kernel" /\ \A c \in AP : pc[c] \in {"off", "kernel"}
  /\ UNCHANGED vars

Next == BootNext \/ Evict \/ Halted \/ \E c \in AP : ApNext(c)

Spec == Init /\ [][Next]_vars

(* Every core executes, and the firmware starts the core it said it would. *)
FairSpec == Spec /\ WF_vars(BootNext) /\ \A c \in AnyCpu \ {Boot} : WF_vars(ApNext(c))

-----------------------------------------------------------------------------
(* Properties                                                              *)

TypeOK ==
  /\ pc \in [AnyCpu -> BootPC \union ApPC]
  /\ build \in Builds
  /\ pc[Boot] \in BootPC /\ \A c \in AnyCpu \ {Boot} : pc[c] \in ApPC
  /\ el2 \in [AnyCpu -> BOOLEAN] /\ dc \in BOOLEAN
  /\ mem \subseteq Data /\ dirty \subseteq Data
  /\ mail \in Node \union {NoStack}
  /\ i \in 1..MaxNodes
  /\ x0 \in [AnyCpu -> 0..MaxNodes-1 \union {NoStack}]
  /\ sp \in [AnyCpu -> 0..MaxNodes-1 \union {NoStack}]
  /\ tpidr \in [AnyCpu -> 0..MaxNodes-1 \union {NoStack}]
  /\ coreUp \subseteq Node
  /\ upLine = NoLine \/ upLine \subseteq Node

(* The cpu started as node n runs on core_stacks[n], the stack allocated   *)
(* to it, and no other cpu does: the mailbox (or x0) reaches the core it   *)
(* was meant for (tx1/smp.c, comment on init_cpus()).                      *)
OwnStack ==
  /\ \A n \in Node : Target(n) \in Cpu /\ sp[Target(n)] # NoStack => sp[Target(n)] = n
  /\ \A c, d \in Cpu : c # d /\ sp[c] # NoStack => sp[c] # sp[d]

(* A core that waits for the lock shows the kernel the logic ID of the     *)
(* node it was started as, the one the boot core prints for it.            *)
LogicId ==
  \A n \in Node : Target(n) \in AP /\ pc[Target(n)] \notin {"off", "powering", "core_entry_head", "core_entry"}
                    => tpidr[Target(n)] = n

(* The boot core never gives the mailbox a new stack while a core it has   *)
(* started has still to read the old one.                                  *)
MailboxRead ==
  [][mail' # mail => \A c \in AP : pc[c] \notin {"powering", "core_entry_head"}]_vars

(* No AP passes its spin loop before every node is up and the boot core    *)
(* has released them.                                                      *)
HeldAtGate ==
  \A c \in AP : pc[c] \in {"ap_leave_hyp", "ap_enable_mmu", "ap_jump", "kernel"} =>
    /\ pc[Boot] \in {"enable_mmu", "jump", "kernel"}
    /\ coreUp = Node

(* Entered at EL1 with the D-cache on, which efi_head.S allows, nothing    *)
(* flushes or disables the boot core's D-cache before the APs run.         *)
EntryClean == build.el2 \/ ~build.dc

(* A core turns its MMU on only when images, infos and page tables are in  *)
(* memory, and in the mode the boot core built the tables for.             *)
DataInMemory ==
  EntryClean => \A c \in AP : pc[c] \in {"ap_jump", "kernel"} =>
    /\ Image \union {"boot_vspace"} \subseteq mem
    /\ el2[c] = el2[Boot]

(* Every node reaches the kernel unless the loader aborts.  After any      *)
(* other entry the boot core polls core_up[] in memory, not in its cache.  *)
AllReachKernel ==
  EntryClean =>
    <>[](\/ pc[Boot] = "abort"
         \/ pc[Boot] = "kernel" /\ \A n \in Node : pc[Target(n)] = "kernel")

(* The abstract gate: see SmpBoot32.                                       *)
Gate == INSTANCE StartGate WITH
  Core <- AnyCpu,
  BootCore <- Boot,
  Slot <- {0} \union AnyNode,
  NoSlot <- NoStack,
  published <- Image \union {"boot_vspace"} \subseteq IF EntryClean THEN mem ELSE mem \union dirty,
  open <- pc[Boot] \in {"enable_mmu", "jump", "kernel"},
  slot <- sp,
  entered <- {c \in AnyCpu : pc[c] = "kernel"}

GateSpec == Gate!Spec
=============================================================================
