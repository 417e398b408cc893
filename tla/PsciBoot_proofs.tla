--------------------------- MODULE PsciBoot_proofs ---------------------------
(***************************************************************************)
(* Proofs about PsciBoot, for any set of elfloaders its assumption admits: *)
(* both platforms, every number of nodes, every state at entry.            *)
(***************************************************************************)
EXTENDS PsciBoot, TLAPS

(* .bss as a loader of ELF files leaves it.                                *)
BssZeroed == CoreUpImage \subseteq {{}} /\ LockImage \subseteq {FALSE}

Secondary == AnyCpu \ {Boot}
Fits == MaxNodes <= MaxCores
CpuOf == [n \in AnyNode |-> Target(n)]

(* The boot core before, in and behind the loop of init_cpus(), and the    *)
(* cores that have no stack yet, and that have raised their core_up[].     *)
Early == {"_start", "load_images", "leave_hyp", "disable_caches_hyp", "init_vspace", "init_cpus"}
Looping == {"give_stack", "cpu_on", "wait_up"}
Released == {"enable_mmu", "jump", "kernel"}
Unstacked == {"off", "powering", "core_entry_head"}
Passed == {"ap_leave_hyp", "ap_enable_mmu", "ap_jump", "kernel"}
Late == {"spin"} \union Passed

(***************************************************************************)
(* The configuration                                                       *)
(***************************************************************************)
(* What PsciAssumption says of the elfloader that runs.                    *)
LEMMA Config ==
  ASSUME build \in Builds
  PROVE  /\ Platform \in {"tx1", "hikey"} /\ MaxNodes \in 2..8
         /\ Node \subseteq AnyNode /\ Node = 1 .. MaxNodes - 1
         /\ AP \subseteq Secondary /\ Boot \in AnyCpu /\ Boot \notin Secondary
<1>1. Platform \in {"tx1", "hikey"} /\ MaxNodes \in 2..8
  BY PsciAssumption DEF Platform, MaxNodes
<1>2. AP \subseteq Secondary /\ Boot \in AnyCpu /\ Boot \notin Secondary
  BY DEF AP, Cpu, Secondary, AnyCpu, Boot
<1> QED BY <1>1, <1>2 DEF Node, AnyNode

(* Two nodes are two cpus, and with no more nodes than cores each node's   *)
(* cpu is one of the chip's other cores.                                   *)
LEMMA Targets ==
  ASSUME build \in Builds
  PROVE  /\ \A n, m \in AnyNode : CpuOf[n] = CpuOf[m] => n = m
         /\ Fits => \A n \in Node : CpuOf[n] \in AP
<1>1. Platform \in {"tx1", "hikey"} /\ MaxNodes \in 2..8 /\ Node = 1 .. MaxNodes - 1 /\ Node \subseteq AnyNode
  BY Config
<1>2. CASE Platform = "tx1"
  <2>1. \A n \in AnyNode : CpuOf[n] = n
    BY <1>2 DEF CpuOf, Target
  <2>2. Fits => \A n \in Node : n \in AP
    BY <1>1, <1>2 DEF Fits, MaxCores, AP, Cpu, Boot
  <2> QED BY <1>1, <2>1, <2>2
<1>3. CASE Platform = "hikey"
  <2>1. \A n \in AnyNode : CpuOf[n] = IF n < 4 THEN n ELSE 252 + n
    <3> SUFFICES ASSUME NEW n \in AnyNode PROVE CpuOf[n] = IF n < 4 THEN n ELSE 252 + n
      OBVIOUS
    <3>1. CpuOf[n] = (n % 4) + (n \div 4) * 256
      BY <1>3 DEF CpuOf, Target, CoresPerCluster, ClusterShift
    <3>2. n \in 1..7
      BY DEF AnyNode
    <3> QED BY <3>1, <3>2
  <2>2. \A n \in AnyNode : CpuOf[n] \in AP
    BY <1>3, <2>1 DEF AnyNode, AP, Cpu, AnyCpu, Boot
  <2>3. ASSUME NEW n \in AnyNode, NEW m \in AnyNode, CpuOf[n] = CpuOf[m] PROVE n = m
    <3>1. n \in Nat /\ m \in Nat
      BY DEF AnyNode
    <3> QED BY <2>1, <2>3, <3>1
  <2> QED BY <1>1, <2>2, <2>3
<1> QED BY <1>1, <1>2, <1>3

(* The elfloader stays what it is.                                         *)
LEMMA BuildFixed ==
  ASSUME UNCHANGED build
  PROVE  /\ UNCHANGED <<Platform, MaxNodes, HypKernel, MaxCores, Cpu, AP, Node>>
         /\ UNCHANGED <<Fits, CpuOf>>
<1>1. UNCHANGED <<Platform, MaxNodes, HypKernel, MaxCores, Cpu, AP, Node>>
  BY DEF Platform, MaxNodes, HypKernel, MaxCores, Cpu, AP, Node
<1>2. Fits' = Fits
  BY <1>1 DEF Fits
<1>3. CpuOf' = CpuOf
  BY <1>1 DEF CpuOf, Target
<1> QED BY <1>1, <1>2, <1>3

(***************************************************************************)
(* The inductive invariant                                                 *)
(***************************************************************************)
(* Where the boot core is in its loop: all other cores are off before it,  *)
(* and behind it every node has had its turn.                              *)
LoopInv ==
  /\ pc[Boot] \in Early => i = 1 /\ \A c \in Secondary : pc[c] = "off"
  /\ pc[Boot] \in Looping => i < MaxNodes /\ Fits
  /\ pc[Boot] \in {"set_lock"} \union Released => i = MaxNodes /\ Fits

(* The hand-shake: a core that has been started is that of a node whose    *)
(* turn is over, and has then reported, or of the one waited for, and then *)
(* the mailbox still holds its stack.                                      *)
MailInv ==
  /\ Platform = "tx1" /\ pc[Boot] \in {"cpu_on", "wait_up"} => mail = i
  /\ \A c \in Secondary : pc[c] # "off" =>
       \E n \in Node : c = CpuOf[n] /\ (n < i \/ (n = i /\ pc[Boot] = "wait_up"))
  /\ \A n \in Node : n < i => CpuOf[n] \in AP /\ pc[CpuOf[n]] \in Late
  /\ upLine = NoLine \/ upLine \subseteq coreUp

(* What each core has, by how far it is.                                   *)
StackInv ==
  /\ sp[Boot] \in {0, NoStack}
  /\ \A c \in Secondary : pc[c] \in Unstacked => sp[c] = NoStack
  /\ \A n \in Node : CpuOf[n] \in AP =>
       /\ pc[CpuOf[n]] \notin Unstacked => sp[CpuOf[n]] = n
       /\ pc[CpuOf[n]] \in Late => tpidr[CpuOf[n]] = n
       /\ Platform = "hikey" /\ pc[CpuOf[n]] # "off" => x0[CpuOf[n]] = n
       /\ n \in coreUp <=> pc[CpuOf[n]] \in Late
  /\ \A n \in coreUp : CpuOf[n] \in AP

(* The lock is set, and passed, only with the loop behind.                 *)
LockInv ==
  /\ "non_boot_lock" \in mem \union dirty => pc[Boot] \in Released
  /\ \A c \in Secondary : pc[c] \in Passed => pc[Boot] \in Released

IInv == TypeOK /\ LoopInv /\ MailInv /\ StackInv /\ LockInv

LEMMA InitIInv == BssZeroed /\ Init => IInv
<1> SUFFICES ASSUME BssZeroed, Init PROVE IInv
  OBVIOUS
<1>1. build \in Builds
  BY DEF Init
<1>2. coreUp = {} /\ "non_boot_lock" \notin mem /\ mem = {} /\ dirty = {} /\ upLine = NoLine
  BY DEF BssZeroed, Init
<1>3. /\ pc \in [AnyCpu -> BootPC \union ApPC] /\ pc[Boot] = "_start" /\ Boot \in AnyCpu
      /\ \A c \in Secondary : pc[c] = "off"
  BY DEF Init, BootPC, ApPC, Secondary, AnyCpu, Boot
<1>4. Node = 1 .. MaxNodes - 1 /\ MaxNodes \in 2..8 /\ AP \subseteq Secondary
  BY <1>1, Config
<1>5. i = 1 /\ mail = NoStack
  BY DEF Init
<1>6. \A c \in AnyCpu : sp[c] = NoStack /\ x0[c] = NoStack /\ tpidr[c] = NoStack
  BY DEF Init
<1>7. el2 \in [AnyCpu -> BOOLEAN] /\ dc \in BOOLEAN
  BY <1>1, PsciAssumption DEF Init
<1>8. TypeOK
  <2>1. x0 \in [AnyCpu -> 0 .. MaxNodes - 1 \union {NoStack}]
        /\ sp \in [AnyCpu -> 0 .. MaxNodes - 1 \union {NoStack}]
        /\ tpidr \in [AnyCpu -> 0 .. MaxNodes - 1 \union {NoStack}]
    BY DEF Init
  <2> QED BY <1>1, <1>2, <1>3, <1>4, <1>5, <1>7, <2>1 DEF TypeOK, BootPC, ApPC, Secondary
<1>9. LoopInv
  BY <1>3, <1>5 DEF LoopInv, Looping, Released
<1>10. MailInv
  BY <1>2, <1>3, <1>4, <1>5 DEF MailInv
<1>11. StackInv
  BY <1>2, <1>3, <1>4, <1>6 DEF StackInv, Unstacked, Late, Passed, Secondary
<1>12. LockInv
  BY <1>2, <1>3 DEF LockInv, Passed
<1> QED BY <1>8, <1>9, <1>10, <1>11, <1>12 DEF IInv

(***************************************************************************)
(* Steps of the boot core                                                  *)
(***************************************************************************)
(* A jump of the boot core moves no other core.                            *)
LEMMA BootGoto ==
  ASSUME TypeOK, NEW l \in BootPC, Goto(Boot, l)
  PROVE  /\ pc' \in [AnyCpu -> BootPC \union ApPC] /\ pc'[Boot] = l
         /\ \A c \in Secondary : pc'[c] = pc[c] /\ pc'[c] \in ApPC
         /\ \A c \in AP : pc'[c] = pc[c]
BY Config DEF TypeOK, Goto, Secondary

(* What main() does outside the loop: it may write data and empty its      *)
(* D-cache, but neither starts a core nor touches what one is given.       *)
LEMMA BootOutside ==
  ASSUME IInv, NEW l \in BootPC, Goto(Boot, l),
         UNCHANGED <<build, mail, i, x0, coreUp>>,
         el2' \in [AnyCpu -> BOOLEAN], dc' \in BOOLEAN,
         mem' \subseteq Data, dirty' \subseteq Data,
         upLine' = upLine \/ upLine' = NoLine,
         \A c \in Secondary : sp'[c] = sp[c] /\ tpidr'[c] = tpidr[c],
         sp' \in [AnyCpu -> 0 .. MaxNodes - 1 \union {NoStack}],
         tpidr' \in [AnyCpu -> 0 .. MaxNodes - 1 \union {NoStack}],
         sp'[Boot] \in {0, NoStack},
         pc[Boot] # "wait_up",
         \/ pc[Boot] \in Early /\ l \in Early \union {"abort"}
         \/ pc[Boot] \in {"set_lock"} \union Released /\ l \in Released,
         l \in Released \/ (mem' \union dirty') \ {"non_boot_lock"} = (mem' \union dirty')
  PROVE  IInv'
<1> USE DEF IInv
<1>1. build \in Builds
  BY DEF TypeOK
<1>2. /\ UNCHANGED <<Platform, MaxNodes, AP, Node, Fits, CpuOf>>
  BY BuildFixed
<1>3. AP \subseteq Secondary /\ Boot \notin Secondary
  BY <1>1, Config
<1>4. /\ pc' \in [AnyCpu -> BootPC \union ApPC] /\ pc'[Boot] = l
      /\ \A c \in Secondary : pc'[c] = pc[c] /\ pc'[c] \in ApPC
      /\ \A c \in AP : pc'[c] = pc[c]
  BY BootGoto
<1>5. TypeOK'
  BY <1>2, <1>4 DEF TypeOK, Secondary
<1>6. LoopInv'
  BY <1>2, <1>4 DEF LoopInv, Early, Looping, Released
<1>7. MailInv'
  BY <1>2, <1>3, <1>4 DEF MailInv, Early, Released
<1>8. StackInv'
  BY <1>2, <1>3, <1>4 DEF StackInv
<1>9. LockInv'
  BY <1>2, <1>4 DEF LockInv, Early, Released
<1> QED BY <1>5, <1>6, <1>7, <1>8, <1>9

(* What it does in the loop, but for CPU_ON, leaves all others as they are.*)
LEMMA BootInLoop ==
  ASSUME IInv, NEW l \in BootPC, Goto(Boot, l),
         UNCHANGED <<build, el2, dc, mem, dirty, upLine, x0, apVars>>,
         mail' \in Node \union {NoStack}, i' \in 1 .. MaxNodes,
         pc[Boot] \in {"init_cpus"} \union Looping
  PROVE  TypeOK' /\ StackInv' /\ LockInv'
<1> USE DEF IInv, apVars
<1>1. build \in Builds
  BY DEF TypeOK
<1>2. UNCHANGED <<Platform, MaxNodes, AP, Node, Fits, CpuOf>>
  BY BuildFixed
<1>3. AP \subseteq Secondary /\ Boot \notin Secondary
  BY <1>1, Config
<1>4. /\ pc' \in [AnyCpu -> BootPC \union ApPC] /\ pc'[Boot] = l
      /\ \A c \in Secondary : pc'[c] = pc[c] /\ pc'[c] \in ApPC
      /\ \A c \in AP : pc'[c] = pc[c]
  BY BootGoto
<1>5. TypeOK'
  BY <1>2, <1>4 DEF TypeOK, Secondary
<1>6. StackInv'
  BY <1>2, <1>3, <1>4 DEF StackInv
<1>7. LockInv'
  BY <1>2, <1>4 DEF LockInv, Looping, Released
<1> QED BY <1>5, <1>6, <1>7

LEMMA InitCpusIInv == ASSUME IInv, InitCpus PROVE IInv'
<1> USE DEF IInv, InitCpus, bootVars, cacheVars
<1>1. build \in Builds
  BY DEF TypeOK
<1>2. /\ Platform \in {"tx1", "hikey"} /\ MaxNodes \in 2..8 /\ AP \subseteq Secondary
      /\ Node = 1 .. MaxNodes - 1
  BY <1>1, Config
<1>3. UNCHANGED <<Platform, MaxNodes, AP, Node, Fits, CpuOf>>
  BY BuildFixed
<1>4. PICK l \in {"abort", "give_stack", "cpu_on"} :
        /\ Goto(Boot, l)
        /\ l = "abort" <=> ~Fits
        /\ l = "cpu_on" => Platform # "tx1"
  <2>1. MaxCores \in {4, 8}
    BY DEF MaxCores
  <2>2. CASE ~Fits
    BY <1>2, <2>1, <2>2 DEF Fits
  <2>3. CASE Fits /\ Platform = "tx1"
    BY <1>2, <2>1, <2>3 DEF Fits
  <2>4. CASE Fits /\ Platform # "tx1"
    BY <1>2, <2>1, <2>4 DEF Fits
  <2> QED BY <2>2, <2>3, <2>4
<1>5. /\ pc'[Boot] = l
      /\ \A c \in Secondary : pc'[c] = pc[c]
      /\ \A c \in AP : pc'[c] = pc[c]
  BY <1>4, BootGoto DEF BootPC
<1>6. TypeOK' /\ StackInv' /\ LockInv'
  BY <1>3, <1>4, BootInLoop DEF TypeOK, BootPC
<1>7. i = 1 /\ \A c \in Secondary : pc[c] = "off"
  BY DEF LoopInv, Early
<1>8. LoopInv'
  BY <1>2, <1>3, <1>4, <1>5, <1>7 DEF LoopInv, Early, Looping, Released
<1>9. MailInv'
  BY <1>2, <1>3, <1>4, <1>5, <1>7 DEF MailInv, apVars
<1> QED BY <1>6, <1>8, <1>9

LEMMA GiveStackIInv == ASSUME IInv, GiveStack PROVE IInv'
<1> USE DEF IInv, GiveStack
<1>1. build \in Builds
  BY DEF TypeOK
<1>2. AP \subseteq Secondary /\ Node = 1 .. MaxNodes - 1 /\ MaxNodes \in 2..8
  BY <1>1, Config
<1>3. UNCHANGED <<Platform, MaxNodes, AP, Node, Fits, CpuOf>>
  BY BuildFixed
<1>4. pc'[Boot] = "cpu_on" /\ \A c \in Secondary : pc'[c] = pc[c]
  BY BootGoto DEF BootPC
<1>5. i \in Node /\ Fits
  BY <1>2 DEF LoopInv, Looping, TypeOK
<1>6. TypeOK' /\ StackInv' /\ LockInv'
  BY <1>3, <1>5, BootInLoop DEF TypeOK, BootPC, Looping
<1>7. LoopInv'
  BY <1>3, <1>4 DEF LoopInv, Early, Looping, Released
<1>8. MailInv'
  BY <1>2, <1>3, <1>4 DEF MailInv, apVars
<1> QED BY <1>6, <1>7, <1>8

(* core_up[i] is only seen once core i has raised it, whether the boot     *)
(* core reads memory or its own cached line.                               *)
LEMMA WaitUpIInv == ASSUME IInv, WaitUp PROVE IInv'
<1> USE DEF IInv, WaitUp, NextNode, cacheVars
<1>1. build \in Builds
  BY DEF TypeOK
<1>2. AP \subseteq Secondary /\ Node = 1 .. MaxNodes - 1 /\ MaxNodes \in 2..8
  BY <1>1, Config
<1>3. UNCHANGED <<Platform, MaxNodes, AP, Node, Fits, CpuOf>>
  BY BuildFixed
<1>4. i \in Node /\ Fits
  BY <1>2 DEF LoopInv, Looping, TypeOK
<1>5. i \in coreUp
  BY DEF MailInv, SeenUp
<1>6. CpuOf[i] \in AP /\ pc[CpuOf[i]] \in Late
  BY <1>4, <1>5 DEF StackInv
<1>7. PICK l \in {"set_lock", "give_stack", "cpu_on"} :
        /\ Goto(Boot, l)
        /\ l = "set_lock" <=> i + 1 >= MaxNodes
        /\ l = "cpu_on" => Platform # "tx1"
  <2>1. CASE i + 1 >= MaxNodes
    BY <2>1
  <2>2. CASE ~(i + 1 >= MaxNodes) /\ Platform = "tx1"
    BY <2>2
  <2>3. CASE ~(i + 1 >= MaxNodes) /\ Platform # "tx1"
    BY <2>3
  <2> QED BY <2>1, <2>2, <2>3
<1>8. pc'[Boot] = l /\ \A c \in Secondary : pc'[c] = pc[c]
  BY <1>7, BootGoto DEF BootPC
<1>9. i' = i + 1 /\ i' \in 1 .. MaxNodes
  BY <1>2, <1>4
<1>10. TypeOK' /\ StackInv' /\ LockInv'
  BY <1>3, <1>7, <1>9, BootInLoop DEF TypeOK, BootPC, Looping
<1>11. LoopInv'
  BY <1>2, <1>3, <1>4, <1>7, <1>8, <1>9 DEF LoopInv, Early, Looping, Released
<1>12. MailInv'
  <2>1. \A n \in Node : n < i' => CpuOf[n] \in AP /\ pc[CpuOf[n]] \in Late
    BY <1>2, <1>4, <1>6, <1>9 DEF MailInv
  <2>2. \A c \in Secondary : pc[c] # "off" => \E n \in Node : c = CpuOf[n] /\ n < i'
    BY <1>2, <1>4, <1>9 DEF MailInv
  <2>3. pc'[Boot] = "cpu_on" => Platform' # "tx1"
    BY <1>3, <1>7, <1>8
  <2>4. pc'[Boot] # "wait_up"
    BY <1>7, <1>8
  <2>5. \A n \in Node' : n < i' => CpuOf'[n] \in AP' /\ pc'[CpuOf'[n]] \in Late
    BY <1>2, <1>3, <1>8, <2>1
  <2>6. \A c \in Secondary : pc'[c] # "off" => \E n \in Node' : c = CpuOf'[n] /\ n < i'
    BY <1>3, <1>8, <2>2
  <2>7. upLine' = NoLine \/ upLine' \subseteq coreUp'
    BY DEF MailInv, apVars
  <2> QED BY <2>3, <2>4, <2>5, <2>6, <2>7 DEF MailInv
<1> QED BY <1>10, <1>11, <1>12

(* CPU_ON: the node whose turn it is gets its core, with its stack's index *)
(* as the context id.                                                      *)
LEMMA PsciCpuOnIInv == ASSUME IInv, PsciCpuOn PROVE IInv'
<1> USE DEF IInv, PsciCpuOn, bootVars, cacheVars, apVars
<1>1. build \in Builds
  BY DEF TypeOK
<1>2. /\ AP \subseteq Secondary /\ Boot \notin Secondary /\ Node = 1 .. MaxNodes - 1
      /\ MaxNodes \in 2..8 /\ Node \subseteq AnyNode /\ Secondary \subseteq AnyCpu
      /\ Platform \in {"tx1", "hikey"}
  BY <1>1, Config DEF Secondary
<1>3. UNCHANGED <<Platform, MaxNodes, AP, Node, Fits, CpuOf>>
  BY BuildFixed
<1>4. i \in Node /\ Fits
  BY <1>2 DEF LoopInv, Looping, TypeOK
<1>5. CpuOf[i] = Target(i)
  BY <1>2, <1>4 DEF CpuOf
<1>6. CASE Goto(Boot, "abort") /\ UNCHANGED x0
  <2>1. pc'[Boot] = "abort" /\ \A c \in Secondary : pc'[c] = pc[c]
    BY <1>6, BootGoto DEF BootPC
  <2>2. TypeOK' /\ StackInv' /\ LockInv'
    BY <1>3, <1>6, BootInLoop DEF TypeOK, BootPC, Looping
  <2>3. LoopInv'
    BY <1>3, <2>1 DEF LoopInv, Early, Looping, Released
  <2>4. MailInv'
    BY <1>2, <1>3, <2>1 DEF MailInv
  <2> QED BY <2>2, <2>3, <2>4
<1>7. CASE /\ CpuOf[i] \in AP /\ pc[CpuOf[i]] = "off"
           /\ pc' = [pc EXCEPT ![Boot] = "wait_up", ![CpuOf[i]] = "powering"]
           /\ x0' = [x0 EXCEPT ![CpuOf[i]] = IF Platform = "tx1" THEN 0 ELSE i]
  <2>1. /\ pc'[Boot] = "wait_up" /\ pc'[CpuOf[i]] = "powering"
        /\ \A c \in Secondary : c # CpuOf[i] => pc'[c] = pc[c]
        /\ pc' \in [AnyCpu -> BootPC \union ApPC]
    <3>1. /\ pc \in [AnyCpu -> BootPC \union ApPC]
          /\ "wait_up" \in BootPC \union ApPC /\ "powering" \in BootPC \union ApPC
      BY DEF TypeOK, BootPC, ApPC
    <3>2. Boot \in AnyCpu /\ CpuOf[i] \in AnyCpu /\ CpuOf[i] # Boot
      BY <1>1, <1>2, <1>7, Config
    <3> HIDE DEF IInv, PsciCpuOn
    <3> QED BY <1>2, <1>7, <3>1, <3>2
  <2>2. /\ x0' \in [AnyCpu -> 0 .. MaxNodes - 1 \union {NoStack}]
        /\ Platform = "hikey" => x0'[CpuOf[i]] = i
        /\ \A c \in Secondary : c # CpuOf[i] => x0'[c] = x0[c]
    BY <1>2, <1>4, <1>7 DEF TypeOK
  <2>3. \A n \in Node : CpuOf[n] = CpuOf[i] <=> n = i
    BY <1>1, <1>2, <1>4, Targets
  <2>4. TypeOK'
    BY <1>2, <1>3, <2>1, <2>2 DEF TypeOK, Secondary, BootPC, ApPC
  <2>5. LoopInv'
    BY <1>3, <2>1, <1>4, <1>2, <1>7 DEF LoopInv, Early, Looping, Released
  <2>6. MailInv'
    <3>1. Platform' = "tx1" => mail' = i'
      BY <1>3, <1>7 DEF MailInv
    <3>2. \A c \in Secondary : pc'[c] # "off" =>
            \E n \in Node : c = CpuOf[n] /\ (n < i \/ (n = i /\ pc'[Boot] = "wait_up"))
      BY <1>2, <1>4, <1>7, <2>1 DEF MailInv
    <3>3. \A n \in Node : n < i => CpuOf[n] \in AP /\ pc'[CpuOf[n]] \in Late
      BY <1>2, <1>4, <1>7, <2>1, <2>3 DEF MailInv, Late, Passed
    <3>4. upLine' = NoLine \/ upLine' \subseteq coreUp'
      BY DEF MailInv
    <3>5. i' = i
      OBVIOUS
    <3> QED BY <1>3, <3>1, <3>2, <3>3, <3>4, <3>5 DEF MailInv
  <2>7. StackInv'
    <3>1. \A c \in Secondary : pc'[c] \in Unstacked => sp[c] = NoStack
      BY <1>2, <1>7, <2>1 DEF StackInv, Unstacked
    <3>2. \A n \in Node : CpuOf[n] \in AP =>
             /\ pc'[CpuOf[n]] \notin Unstacked => sp[CpuOf[n]] = n
             /\ pc'[CpuOf[n]] \in Late => tpidr[CpuOf[n]] = n
             /\ Platform = "hikey" /\ pc'[CpuOf[n]] # "off" => x0'[CpuOf[n]] = n
             /\ n \in coreUp <=> pc'[CpuOf[n]] \in Late
      <4> SUFFICES ASSUME NEW n \in Node, CpuOf[n] \in AP
                   PROVE  /\ pc'[CpuOf[n]] \notin Unstacked => sp[CpuOf[n]] = n
                          /\ pc'[CpuOf[n]] \in Late => tpidr[CpuOf[n]] = n
                          /\ Platform = "hikey" /\ pc'[CpuOf[n]] # "off" => x0'[CpuOf[n]] = n
                          /\ n \in coreUp <=> pc'[CpuOf[n]] \in Late
        OBVIOUS
      <4>1. CASE n = i
        BY <1>7, <2>1, <2>2, <4>1 DEF StackInv, Unstacked, Late, Passed
      <4>2. CASE n # i
        BY <1>2, <2>1, <2>2, <2>3, <4>2 DEF StackInv
      <4> QED BY <4>1, <4>2
    <3> QED BY <1>2, <1>3, <3>1, <3>2 DEF StackInv
  <2>8. LockInv'
    BY <1>2, <1>7, <2>1 DEF LockInv, Passed, Released
  <2> QED BY <2>4, <2>5, <2>6, <2>7, <2>8
<1> QED BY <1>5, <1>6, <1>7

(* What the D-cache holds of core_up[] was in memory when it was fetched.  *)
LEMMA FetchUpIInv == ASSUME IInv, FetchUp PROVE IInv'
<1> USE DEF IInv, FetchUp
<1>1. UNCHANGED <<Platform, MaxNodes, AP, Node, Fits, CpuOf>>
  BY BuildFixed
<1>2. upLine' \subseteq coreUp'
  BY DEF apVars
<1>3. TypeOK'
  BY <1>1 DEF TypeOK, apVars, StackInv
<1>4. LoopInv' /\ StackInv' /\ LockInv'
  BY <1>1 DEF LoopInv, StackInv, LockInv, apVars
<1>5. MailInv'
  BY <1>1, <1>2 DEF MailInv
<1> QED BY <1>3, <1>4, <1>5

LEMMA EvictIInv == ASSUME IInv, Evict PROVE IInv'
<1> USE DEF IInv, Evict
<1>1. UNCHANGED <<Platform, MaxNodes, AP, Node, Fits, CpuOf>>
  BY BuildFixed
<1>2. /\ mem' \union dirty' = mem \union dirty
      /\ upLine' = upLine \/ upLine' = NoLine
  OBVIOUS
<1>3. TypeOK'
  BY <1>1, <1>2 DEF TypeOK, apVars
<1>4. LoopInv' /\ StackInv' /\ LockInv'
  BY <1>1, <1>2 DEF LoopInv, StackInv, LockInv, apVars
<1>5. MailInv'
  BY <1>1, <1>2 DEF MailInv, apVars
<1> QED BY <1>3, <1>4, <1>5

(***************************************************************************)
(* Steps of a secondary core                                               *)
(***************************************************************************)
(* A jump of one core moves no other.                                      *)
LEMMA ApGoto ==
  ASSUME TypeOK, NEW c \in AP, NEW l \in ApPC, Goto(c, l)
  PROVE  /\ pc' \in [AnyCpu -> BootPC \union ApPC] /\ pc'[c] = l
         /\ pc'[Boot] = pc[Boot] /\ c \in Secondary
         /\ \A d \in AnyCpu : d # c => pc'[d] = pc[d]
         /\ \A d \in Secondary : pc'[d] \in ApPC
BY Config DEF TypeOK, Goto, Secondary

(* A core that has left its bed is the one core of one node.               *)
LEMMA NodeOf ==
  ASSUME IInv, NEW c \in AP, pc[c] # "off"
  PROVE  \E n \in Node : /\ c = CpuOf[n]
                         /\ \A m \in Node : CpuOf[m] = c <=> m = n
                         /\ n < i \/ (n = i /\ pc[Boot] = "wait_up")
<1>1. build \in Builds
  BY DEF IInv, TypeOK
<1>2. AP \subseteq Secondary /\ Node \subseteq AnyNode
  BY <1>1, Config
<1>3. PICK n \in Node : c = CpuOf[n] /\ (n < i \/ (n = i /\ pc[Boot] = "wait_up"))
  BY <1>2 DEF IInv, MailInv
<1>4. \A m \in Node : CpuOf[m] = c <=> m = n
  BY <1>1, <1>2, <1>3, Targets
<1> QED BY <1>3, <1>4

LEMMA PowerOnIInv == ASSUME IInv, NEW c \in AP, PowerOn(c) PROVE IInv'
<1> USE DEF IInv, PowerOn, bootVars, cacheVars, apVars
<1>1. UNCHANGED <<Platform, MaxNodes, AP, Node, Fits, CpuOf>>
  BY BuildFixed
<1>2. /\ pc' \in [AnyCpu -> BootPC \union ApPC] /\ pc'[c] = "core_entry_head"
      /\ pc'[Boot] = pc[Boot] /\ c \in Secondary
      /\ \A d \in AnyCpu : d # c => pc'[d] = pc[d]
      /\ \A d \in Secondary : pc'[d] \in ApPC
  BY ApGoto DEF ApPC
<1>3. AP \subseteq Secondary /\ Secondary \subseteq AnyCpu
  BY Config DEF TypeOK, Secondary
<1>4. TypeOK'
  BY <1>1, <1>2 DEF TypeOK, Secondary
<1>5. LoopInv'
  BY <1>1, <1>2, <1>3 DEF LoopInv, Secondary
<1>6. MailInv'
  BY <1>1, <1>2, <1>3 DEF MailInv, Late, Passed
<1>7. StackInv'
  BY <1>1, <1>2, <1>3 DEF StackInv, Unstacked, Late, Passed
<1>8. LockInv'
  BY <1>1, <1>2, <1>3 DEF LockInv, Passed
<1> QED BY <1>4, <1>5, <1>6, <1>7, <1>8

(* core_entry_head takes its own stack: the mailbox still holds it, since  *)
(* the boot core waits for this very core.                                 *)
LEMMA CoreEntryHeadSp ==
  ASSUME IInv, NEW c \in AP, CoreEntryHead(c)
  PROVE  \E n \in Node : /\ c = CpuOf[n]
                         /\ \A m \in Node : CpuOf[m] = c <=> m = n
                         /\ pc[Boot] = "wait_up"
                         /\ sp' = [sp EXCEPT ![c] = n]
<1> USE DEF IInv, CoreEntryHead
<1>1. AP \subseteq Secondary /\ Platform \in {"tx1", "hikey"}
  BY Config DEF TypeOK
<1>2. PICK n \in Node : /\ c = CpuOf[n]
                        /\ \A m \in Node : CpuOf[m] = c <=> m = n
                        /\ n < i \/ (n = i /\ pc[Boot] = "wait_up")
  BY NodeOf
<1>3. n = i /\ pc[Boot] = "wait_up"
  BY <1>2 DEF MailInv, Late, Passed
<1>4. (IF Platform = "tx1" THEN mail ELSE x0[c]) = n
  BY <1>1, <1>2, <1>3 DEF MailInv, StackInv
<1> QED BY <1>2, <1>3, <1>4

LEMMA CoreEntryHeadIInv == ASSUME IInv, NEW c \in AP, CoreEntryHead(c) PROVE IInv'
<1> USE DEF IInv, CoreEntryHead, bootVars, cacheVars
<1>1. UNCHANGED <<Platform, MaxNodes, AP, Node, Fits, CpuOf>>
  BY BuildFixed
<1>2. /\ pc' \in [AnyCpu -> BootPC \union ApPC] /\ pc'[c] = "core_entry"
      /\ pc'[Boot] = pc[Boot] /\ c \in Secondary
      /\ \A d \in AnyCpu : d # c => pc'[d] = pc[d]
      /\ \A d \in Secondary : pc'[d] \in ApPC
  BY ApGoto DEF ApPC
<1>3. /\ AP \subseteq Secondary /\ Secondary \subseteq AnyCpu /\ Boot \notin Secondary
      /\ Node = 1 .. MaxNodes - 1 /\ Boot \in AnyCpu
  BY Config DEF TypeOK, Secondary
<1>4. PICK n \in Node : /\ c = CpuOf[n]
                        /\ \A m \in Node : CpuOf[m] = c <=> m = n
                        /\ sp' = [sp EXCEPT ![c] = n]
  BY CoreEntryHeadSp
<1>8. /\ sp' \in [AnyCpu -> 0 .. MaxNodes - 1 \union {NoStack}]
      /\ sp'[c] = n /\ \A d \in AnyCpu : d # c => sp'[d] = sp[d]
  BY <1>2, <1>3, <1>4 DEF TypeOK
<1>9. TypeOK'
  BY <1>1, <1>2, <1>8 DEF TypeOK, Secondary
<1>10. LoopInv'
  BY <1>1, <1>2, <1>3 DEF LoopInv, Secondary
<1>11. MailInv'
  BY <1>1, <1>2, <1>3 DEF MailInv, Late, Passed
<1>12. StackInv'
  BY <1>1, <1>2, <1>3, <1>4, <1>8 DEF StackInv, Unstacked, Late, Passed
<1>13. LockInv'
  BY <1>1, <1>2, <1>3 DEF LockInv, Passed
<1> QED BY <1>9, <1>10, <1>11, <1>12, <1>13

(* core_entry() raises the core_up[] of the core's own node.               *)
LEMMA CoreEntryIInv == ASSUME IInv, NEW c \in AP, CoreEntry(c) PROVE IInv'
<1> USE DEF IInv, CoreEntry, bootVars, cacheVars
<1>1. UNCHANGED <<Platform, MaxNodes, AP, Node, Fits, CpuOf>>
  BY BuildFixed
<1>2. /\ pc' \in [AnyCpu -> BootPC \union ApPC] /\ pc'[c] = "spin"
      /\ pc'[Boot] = pc[Boot] /\ c \in Secondary
      /\ \A d \in AnyCpu : d # c => pc'[d] = pc[d]
      /\ \A d \in Secondary : pc'[d] \in ApPC
  BY ApGoto DEF ApPC
<1>3. /\ AP \subseteq Secondary /\ Secondary \subseteq AnyCpu /\ Boot \notin Secondary
      /\ Node = 1 .. MaxNodes - 1 /\ Boot \in AnyCpu
  BY Config DEF TypeOK, Secondary
<1>4. PICK n \in Node : c = CpuOf[n] /\ \A m \in Node : CpuOf[m] = c <=> m = n
  BY NodeOf
<1>5. sp[c] = n
  BY <1>4 DEF StackInv, Unstacked
<1>6. /\ tpidr' \in [AnyCpu -> 0 .. MaxNodes - 1 \union {NoStack}]
      /\ tpidr'[c] = n /\ \A d \in AnyCpu : d # c => tpidr'[d] = tpidr[d]
  BY <1>2, <1>3, <1>5 DEF TypeOK
<1>7. coreUp' = coreUp \union {n}
  BY <1>5
<1>8. TypeOK'
  BY <1>1, <1>2, <1>6, <1>7 DEF TypeOK, Secondary
<1>9. LoopInv'
  BY <1>1, <1>2, <1>3 DEF LoopInv, Secondary
<1>10. MailInv'
  BY <1>1, <1>2, <1>3, <1>7 DEF MailInv, Late, Passed
<1>11. StackInv'
  BY <1>1, <1>2, <1>3, <1>4, <1>5, <1>6, <1>7 DEF StackInv, Unstacked, Late, Passed
<1>12. LockInv'
  BY <1>1, <1>2, <1>3 DEF LockInv, Passed
<1> QED BY <1>8, <1>9, <1>10, <1>11, <1>12

(* Behind core_entry() a core changes nothing of the hand-shake.           *)
LEMMA LateIInv ==
  ASSUME IInv, NEW c \in AP, NEW l \in Passed, Goto(c, l), pc[c] \in Late,
         pc[Boot] \in Released, el2' \in [AnyCpu -> BOOLEAN],
         UNCHANGED <<build, bootVars, x0, apVars>>
  PROVE  IInv'
<1> USE DEF IInv, bootVars, cacheVars, apVars
<1>1. UNCHANGED <<Platform, MaxNodes, AP, Node, Fits, CpuOf>>
  BY BuildFixed
<1>2. /\ pc' \in [AnyCpu -> BootPC \union ApPC] /\ pc'[c] = l
      /\ pc'[Boot] = pc[Boot] /\ c \in Secondary
      /\ \A d \in AnyCpu : d # c => pc'[d] = pc[d]
      /\ \A d \in Secondary : pc'[d] \in ApPC
  BY ApGoto DEF ApPC, Passed
<1>3. AP \subseteq Secondary /\ Secondary \subseteq AnyCpu
  BY Config DEF TypeOK, Secondary
<1>4. TypeOK'
  BY <1>1, <1>2 DEF TypeOK, Secondary
<1>5. LoopInv'
  BY <1>1, <1>2, <1>3 DEF LoopInv, Secondary, Early, Released
<1>6. MailInv'
  BY <1>1, <1>2, <1>3 DEF MailInv, Late, Passed
<1>7. StackInv'
  BY <1>1, <1>2, <1>3 DEF StackInv, Unstacked, Late, Passed
<1>8. LockInv'
  BY <1>1, <1>2, <1>3 DEF LockInv
<1> QED BY <1>4, <1>5, <1>6, <1>7, <1>8

LEMMA ApIInv == ASSUME IInv, NEW c \in AP, ApNext(c) PROVE IInv'
<1>1. c \in Secondary /\ c \in AnyCpu
  BY Config DEF IInv, TypeOK, Secondary
<1>2. CASE PowerOn(c)
  BY <1>2, PowerOnIInv
<1>3. CASE CoreEntryHead(c)
  BY <1>3, CoreEntryHeadIInv
<1>4. CASE CoreEntry(c)
  BY <1>4, CoreEntryIInv
<1>5. CASE Spin(c)
  <2>1. pc[c] \in Late /\ pc[Boot] \in Released /\ el2' \in [AnyCpu -> BOOLEAN]
    BY <1>5 DEF Spin, IInv, TypeOK, LockInv, Late
  <2> QED BY <1>5, <2>1, LateIInv DEF Spin, Passed
<1>6. CASE ApLeaveHyp(c)
  <2>1. pc[c] \in Late /\ pc[Boot] \in Released
    BY <1>1, <1>6 DEF ApLeaveHyp, IInv, LockInv, Late, Passed
  <2>2. HypKernel \in BOOLEAN
    BY PsciAssumption DEF IInv, TypeOK, HypKernel
  <2>3. el2' \in [AnyCpu -> BOOLEAN]
    BY <1>1, <1>6, <2>2 DEF ApLeaveHyp, IInv, TypeOK
  <2> QED BY <1>6, <2>1, <2>3, LateIInv DEF ApLeaveHyp, Passed
<1>7. CASE ApEnableMmu(c)
  <2>1. pc[c] \in Late /\ pc[Boot] \in Released /\ el2' \in [AnyCpu -> BOOLEAN]
    BY <1>1, <1>7 DEF ApEnableMmu, IInv, TypeOK, LockInv, Late, Passed
  <2> QED BY <1>7, <2>1, LateIInv DEF ApEnableMmu, Passed
<1>8. CASE ApJump(c)
  <2>1. pc[c] \in Late /\ pc[Boot] \in Released /\ el2' \in [AnyCpu -> BOOLEAN]
    BY <1>1, <1>8 DEF ApJump, IInv, TypeOK, LockInv, Late, Passed
  <2> QED BY <1>8, <2>1, LateIInv DEF ApJump, Passed
<1> QED BY <1>2, <1>3, <1>4, <1>5, <1>6, <1>7, <1>8 DEF ApNext

(***************************************************************************)
(* All steps                                                               *)
(***************************************************************************)
(* main() before and behind the loop.                                      *)
LEMMA OutsideIInv ==
  ASSUME IInv, \/ Start \/ Load \/ LeaveHyp \/ DisableCachesHyp \/ InitVspace
               \/ SetLock \/ EnableMmu \/ JumpToKernel
  PROVE  IInv'
<1> USE DEF bootVars, cacheVars, apVars
<1>1. /\ Boot \in AnyCpu /\ Boot \notin Secondary /\ MaxNodes \in 2..8
      /\ HypKernel \in BOOLEAN
  BY Config, PsciAssumption DEF IInv, TypeOK, HypKernel
<1>2. /\ sp \in [AnyCpu -> 0 .. MaxNodes - 1 \union {NoStack}]
      /\ tpidr \in [AnyCpu -> 0 .. MaxNodes - 1 \union {NoStack}]
      /\ sp[Boot] \in {0, NoStack}
      /\ el2 \in [AnyCpu -> BOOLEAN] /\ dc \in BOOLEAN
      /\ mem \subseteq Data /\ dirty \subseteq Data
  BY DEF IInv, TypeOK, StackInv
<1>3. CASE Start
  <2>1. /\ sp' \in [AnyCpu -> 0 .. MaxNodes - 1 \union {NoStack}] /\ sp'[Boot] = 0
        /\ \A c \in Secondary : sp'[c] = sp[c]
    BY <1>1, <1>2, <1>3 DEF Start, Secondary
  <2> QED BY <1>1, <1>2, <1>3, <2>1, BootOutside DEF Start, Early, BootPC, IInv, LockInv, Released
<1>4. CASE Load
  <2>1. "non_boot_lock" \notin mem \union dirty
    BY <1>4 DEF Load, IInv, LockInv, Released
  <2>2. /\ mem' \subseteq Data /\ dirty' \subseteq Data
        /\ "non_boot_lock" \notin mem' \union dirty'
    BY <1>2, <1>4, <2>1 DEF Load, Write, Image, Data
  <2>3. CASE Goto(Boot, "leave_hyp")
    BY <1>2, <1>4, <2>2, <2>3, BootOutside DEF Load, Early, BootPC
  <2>4. CASE Goto(Boot, "abort")
    BY <1>2, <1>4, <2>2, <2>4, BootOutside DEF Load, Early, BootPC
  <2> QED BY <1>4, <2>3, <2>4 DEF Load
<1>5. CASE LeaveHyp
  <2>1. "non_boot_lock" \notin mem \union dirty
    BY <1>5 DEF LeaveHyp, IInv, LockInv, Released
  <2>2. /\ mem' \subseteq Data /\ dirty' \subseteq Data
        /\ "non_boot_lock" \notin mem' \union dirty'
        /\ el2' \in [AnyCpu -> BOOLEAN] /\ dc' \in BOOLEAN
        /\ upLine' = upLine \/ upLine' = NoLine
    BY <1>2, <1>5, <2>1 DEF LeaveHyp, FlushDcache
  <2> QED BY <1>2, <1>5, <2>2, BootOutside DEF LeaveHyp, Early, BootPC
<1>6. CASE DisableCachesHyp
  <2>1. "non_boot_lock" \notin mem \union dirty
    BY <1>6 DEF DisableCachesHyp, IInv, LockInv, Released
  <2>2. /\ mem' \subseteq Data /\ dirty' \subseteq Data
        /\ "non_boot_lock" \notin mem' \union dirty'
        /\ dc' \in BOOLEAN
        /\ upLine' = upLine \/ upLine' = NoLine
    BY <1>2, <1>6, <2>1 DEF DisableCachesHyp, FlushDcache
  <2> QED BY <1>2, <1>6, <2>2, BootOutside DEF DisableCachesHyp, Early, BootPC
<1>7. CASE InitVspace
  <2>1. "non_boot_lock" \notin mem \union dirty
    BY <1>7 DEF InitVspace, IInv, LockInv, Released
  <2>2. /\ mem' \subseteq Data /\ dirty' \subseteq Data
        /\ "non_boot_lock" \notin mem' \union dirty'
    BY <1>2, <1>7, <2>1 DEF InitVspace, Write, Data
  <2> QED BY <1>2, <1>7, <2>2, BootOutside DEF InitVspace, Early, BootPC
<1>8. CASE SetLock
  <2>1. mem' \subseteq Data /\ dirty' \subseteq Data
    BY <1>2, <1>8 DEF SetLock, Write, Data
  <2>2. /\ tpidr' \in [AnyCpu -> 0 .. MaxNodes - 1 \union {NoStack}]
        /\ \A c \in Secondary : tpidr'[c] = tpidr[c]
    BY <1>1, <1>2, <1>8 DEF SetLock, Secondary
  <2> QED BY <1>2, <1>8, <2>1, <2>2, BootOutside DEF SetLock, Released, BootPC
<1>9. CASE EnableMmu
  <2>1. mem' \subseteq Data /\ dirty' \subseteq Data /\ dc' \in BOOLEAN /\ upLine' = NoLine
    BY <1>2, <1>9 DEF EnableMmu, FlushDcache
  <2> QED BY <1>2, <1>9, <2>1, BootOutside DEF EnableMmu, Released, BootPC
<1>10. CASE JumpToKernel
  BY <1>2, <1>10, BootOutside DEF JumpToKernel, Released, BootPC
<1> QED BY <1>3, <1>4, <1>5, <1>6, <1>7, <1>8, <1>9, <1>10

LEMMA NextIInv == IInv /\ [Next]_vars => IInv'
<1> SUFFICES ASSUME IInv, [Next]_vars PROVE IInv'
  OBVIOUS
<1>1. CASE Start \/ Load \/ LeaveHyp \/ DisableCachesHyp \/ InitVspace \/ SetLock \/ EnableMmu \/ JumpToKernel
  BY <1>1, OutsideIInv
<1>2. CASE InitCpus
  BY <1>2, InitCpusIInv
<1>3. CASE GiveStack
  BY <1>3, GiveStackIInv
<1>4. CASE PsciCpuOn
  BY <1>4, PsciCpuOnIInv
<1>5. CASE FetchUp
  BY <1>5, FetchUpIInv
<1>6. CASE WaitUp
  BY <1>6, WaitUpIInv
<1>7. CASE Evict
  BY <1>7, EvictIInv
<1>8. ASSUME NEW c \in AP, ApNext(c) PROVE IInv'
  BY <1>8, ApIInv
<1>9. CASE UNCHANGED vars
  <2>1. UNCHANGED <<build, mail, i, upLine, coreUp, pc, sp, tpidr, x0, el2, dc, mem, dirty>>
    BY <1>9 DEF vars, bootVars, cacheVars, apVars
  <2>2. UNCHANGED <<Platform, MaxNodes, AP, Node, Fits, CpuOf>>
    BY <2>1, BuildFixed
  <2> QED BY <2>1, <2>2 DEF IInv, TypeOK, LoopInv, MailInv, StackInv, LockInv
<1> QED BY <1>1, <1>2, <1>3, <1>4, <1>5, <1>6, <1>7, <1>8, <1>9 DEF Next, BootNext, Halted

LEMMA Invariance == ASSUME BssZeroed PROVE Spec => []IInv
<1>1. Init => IInv
  BY InitIInv
<1> QED BY <1>1, NextIInv, PTL DEF Spec

(***************************************************************************)
(* The theorems                                                            *)
(***************************************************************************)
(* Type correctness; that core_up[] and the stacks of a build stay inside  *)
(* its nodes rests on the whole invariant.                                 *)
THEOREM TypeCorrect == ASSUME BssZeroed PROVE Spec => []TypeOK
<1>1. IInv => TypeOK
  BY DEF IInv
<1> QED BY <1>1, Invariance, PTL

(* Each core runs on the stack init_cpus() meant for it, and no two share  *)
(* one, although on tx1 all of them get it through the same word.          *)
THEOREM StackOwnership == ASSUME BssZeroed PROVE Spec => []OwnStack
<1>1. IInv => OwnStack
  <2> SUFFICES ASSUME IInv PROVE OwnStack
    OBVIOUS
  <2>1. /\ build \in Builds /\ AP \subseteq Secondary /\ Node \subseteq AnyNode
        /\ Node = 1 .. MaxNodes - 1 /\ MaxNodes \in 2..8 /\ Boot \notin Secondary
    BY Config DEF IInv, TypeOK
  <2>2. \A n \in Node : CpuOf[n] = Target(n)
    BY <2>1 DEF CpuOf
  <2>3. \A c \in Cpu : c = Boot \/ c \in AP
    BY DEF AP
  <2>4. \A n \in Node : CpuOf[n] \in Cpu /\ CpuOf[n] # Boot /\ sp[CpuOf[n]] # NoStack => sp[CpuOf[n]] = n
    BY <2>1, <2>3 DEF IInv, StackInv
  <2>5. \A c \in AP : sp[c] # NoStack => \E n \in Node : c = CpuOf[n] /\ sp[c] = n
    <3> SUFFICES ASSUME NEW c \in AP, sp[c] # NoStack
                 PROVE  \E n \in Node : c = CpuOf[n] /\ sp[c] = n
      OBVIOUS
    <3>1. pc[c] \notin Unstacked
      BY <2>1 DEF IInv, StackInv
    <3>2. PICK n \in Node : c = CpuOf[n]
      BY <3>1, NodeOf DEF Unstacked
    <3> QED BY <3>1, <3>2 DEF IInv, StackInv
  <2>6. \A n \in AnyNode : CpuOf[n] # Boot
    <3>1. \A n \in AnyNode : CpuOf[n] = Target(n) /\ n \in 1..7
      BY DEF CpuOf, AnyNode
    <3>2. \A n \in 1..7 : n # 0 /\ (n % 4) + (n \div 4) * 256 # 0
      OBVIOUS
    <3> QED BY <3>1, <3>2 DEF Target, Boot, CoresPerCluster, ClusterShift
  <2>7. \A c, d \in Cpu : c # d /\ sp[c] # NoStack => sp[c] # sp[d]
    BY <2>1, <2>3, <2>5 DEF IInv, StackInv, NoStack
  <2> QED BY <2>1, <2>2, <2>4, <2>6, <2>7 DEF OwnStack
<1> QED BY <1>1, Invariance, PTL

(* A core shows the kernel the logic ID of the node it was started as.     *)
THEOREM LogicIds == ASSUME BssZeroed PROVE Spec => []LogicId
<1>1. IInv => LogicId
  <2> SUFFICES ASSUME IInv, NEW n \in Node, Target(n) \in AP,
                      pc[Target(n)] \notin {"off", "powering", "core_entry_head", "core_entry"}
               PROVE  tpidr[Target(n)] = n
    BY DEF LogicId
  <2>1. Node \subseteq AnyNode /\ AP \subseteq Secondary
    BY Config DEF IInv, TypeOK
  <2>2. CpuOf[n] = Target(n)
    BY <2>1 DEF CpuOf
  <2>3. pc[CpuOf[n]] \in ApPC
    BY <2>1, <2>2 DEF IInv, TypeOK, Secondary
  <2>4. pc[CpuOf[n]] \in Late
    BY <2>2, <2>3 DEF ApPC, Late, Passed
  <2> QED BY <2>2, <2>4 DEF IInv, StackInv
<1> QED BY <1>1, Invariance, PTL

(* No core passes its spin loop before every node has reported in and the  *)
(* boot core has set non_boot_lock.                                        *)
THEOREM Gating == ASSUME BssZeroed PROVE Spec => []HeldAtGate
<1>1. IInv => HeldAtGate
  <2> SUFFICES ASSUME IInv, NEW c \in AP, pc[c] \in Passed
               PROVE  pc[Boot] \in Released /\ coreUp = Node
    BY DEF HeldAtGate, Passed, Released
  <2>1. Node = 1 .. MaxNodes - 1 /\ MaxNodes \in 2..8 /\ AP \subseteq Secondary
    BY Config DEF IInv, TypeOK
  <2>2. pc[Boot] \in Released
    BY <2>1 DEF IInv, LockInv
  <2>3. i = MaxNodes
    BY <2>2 DEF IInv, LoopInv
  <2>4. \A n \in Node : CpuOf[n] \in AP /\ pc[CpuOf[n]] \in Late
    BY <2>1, <2>3 DEF IInv, MailInv
  <2>5. \A n \in Node : n \in coreUp
    BY <2>4 DEF IInv, StackInv
  <2> QED BY <2>2, <2>5 DEF IInv, TypeOK
<1> QED BY <1>1, Invariance, PTL

(* The mailbox is written again only when every core started so far has    *)
(* read it.                                                                *)
THEOREM MailboxHandshake == ASSUME BssZeroed PROVE Spec => MailboxRead
<1>1. IInv /\ [Next]_vars => [mail' # mail => \A c \in AP : pc[c] \notin {"powering", "core_entry_head"}]_vars
  <2> SUFFICES ASSUME IInv, Next, mail' # mail, NEW c \in AP
               PROVE  pc[c] \notin {"powering", "core_entry_head"}
    OBVIOUS
  <2>1. GiveStack
    BY DEF Next, BootNext, Start, Load, LeaveHyp, DisableCachesHyp, InitVspace, InitCpus, PsciCpuOn,
           FetchUp, WaitUp, NextNode, SetLock, EnableMmu, JumpToKernel, Evict, Halted, ApNext,
           PowerOn, CoreEntryHead, CoreEntry, Spin, ApLeaveHyp, ApEnableMmu, ApJump, bootVars, vars
  <2>2. CASE pc[c] # "off"
    <3>1. PICK n \in Node : c = CpuOf[n] /\ (n < i \/ (n = i /\ pc[Boot] = "wait_up"))
      BY <2>2, NodeOf
    <3>2. n < i
      BY <2>1, <3>1 DEF GiveStack
    <3> QED BY <3>1, <3>2 DEF IInv, MailInv, Late, Passed
  <2>3. CASE pc[c] = "off"
    BY <2>3
  <2> QED BY <2>2, <2>3
<1> QED BY <1>1, Invariance, PTL DEF Spec, MailboxRead

(***************************************************************************)
(* The boot data, and the abstract gate                                    *)
(***************************************************************************)
Uncached == {"init_vspace", "init_cpus", "give_stack", "cpu_on", "wait_up", "set_lock", "enable_mmu"}
Loaded == {"leave_hyp", "disable_caches_hyp"} \union Uncached \union {"jump", "kernel"}
Published == Loaded \ {"leave_hyp", "disable_caches_hyp", "init_vspace"}
InEl1 == {"ap_enable_mmu", "ap_jump", "kernel"}

(* Unless it was entered at EL1 with its D-cache on, the boot core has     *)
(* nothing dirty with the D-cache off, and has it off when the APs run.    *)
CleanInv ==
  /\ ~dc => dirty = {}
  /\ pc[Boot] \in {"_start", "load_images", "leave_hyp", "disable_caches_hyp"} => el2[Boot] \/ ~dc
  /\ pc[Boot] \in Uncached => ~dc
  /\ pc[Boot] \in {"jump", "kernel"} => dirty = {}

(* What is written when, and the exception level of each core.             *)
DataInv ==
  /\ pc[Boot] \in Loaded => Image \subseteq mem \union dirty
  /\ pc[Boot] \in Published => "boot_vspace" \in mem \union dirty
  /\ pc[Boot] \in Early \ {"init_cpus"} => "boot_vspace" \notin mem \union dirty
  /\ pc[Boot] \in {"_start", "load_images", "leave_hyp"} => el2[Boot] = build.el2
  /\ pc[Boot] \in Loaded \ {"leave_hyp"} => el2[Boot] = (build.el2 /\ HypKernel)
  /\ \A c \in Secondary : el2[c] = (build.el2 /\ (pc[c] \in InEl1 => HypKernel))
  /\ pc[Boot] = "_start" => sp[Boot] = NoStack
  /\ pc[Boot] \in {"load_images"} \union Loaded => sp[Boot] = 0
  /\ EntryClean => CleanInv

LEMMA InitDataInv == ASSUME BssZeroed, Init PROVE DataInv
<1>1. build.el2 \in BOOLEAN /\ build.dc \in BOOLEAN
  BY PsciAssumption DEF Init
<1>2. pc[Boot] = "_start" /\ \A c \in Secondary : pc[c] = "off"
  BY DEF Init, Secondary, AnyCpu, Boot
<1>3. /\ \A c \in AnyCpu : el2[c] = build.el2 /\ sp[c] = NoStack
      /\ dc = build.dc /\ dirty = {} /\ mem = {}
  BY DEF Init, BssZeroed
<1>4. Boot \in AnyCpu /\ Secondary \subseteq AnyCpu
  BY DEF Boot, AnyCpu, Secondary
<1> QED BY <1>1, <1>2, <1>3, <1>4 DEF DataInv, CleanInv, EntryClean, Loaded, Uncached, Published, InEl1

LEMMA NextDataInv == ASSUME IInv, DataInv, [Next]_vars PROVE DataInv'
<1>1. /\ Boot \in AnyCpu /\ Boot \notin Secondary /\ AP \subseteq Secondary
      /\ Secondary \subseteq AnyCpu
  BY Config DEF IInv, TypeOK, Secondary
<1>2. build.el2 \in BOOLEAN /\ build.dc \in BOOLEAN /\ build.hyp \in BOOLEAN
  BY PsciAssumption DEF IInv, TypeOK
<1>3. pc \in [AnyCpu -> BootPC \union ApPC] /\ el2 \in [AnyCpu -> BOOLEAN] /\ dc \in BOOLEAN
      /\ sp \in [AnyCpu -> 0 .. MaxNodes - 1 \union {NoStack}] /\ MaxNodes \in 2..8
  BY Config DEF IInv, TypeOK
<1> USE DEF bootVars, cacheVars, apVars, DataInv, CleanInv, EntryClean, HypKernel
<1>4. ASSUME NEW l \in BootPC, Goto(Boot, l)
      PROVE  pc'[Boot] = l /\ \A c \in Secondary : pc'[c] = pc[c]
  BY <1>4, BootGoto DEF IInv
<1>5. CASE Start
  BY <1>1, <1>2, <1>3, <1>4, <1>5 DEF Start, BootPC, Loaded, Uncached, Published, Early
<1>6. CASE Load
  <2>1. CASE Write(Image) /\ Goto(Boot, "leave_hyp")
    <3>1. /\ pc[Boot] = "load_images" /\ pc'[Boot] = "leave_hyp"
          /\ \A c \in Secondary : pc'[c] = pc[c]
      BY <1>4, <1>6, <2>1 DEF Load, BootPC
    <3>2. /\ mem' \union dirty' = mem \union dirty \union Image
          /\ ~dc => dirty' = dirty
      BY <2>1 DEF Write
    <3>3. "boot_vspace" \notin Image
      BY DEF Image
    <3> QED BY <1>6, <3>1, <3>2, <3>3 DEF Load, Loaded, Uncached, Published, Early
  <2>2. CASE Goto(Boot, "abort") /\ UNCHANGED <<mem, dirty>>
    BY <1>1, <1>2, <1>3, <1>4, <1>6, <2>2 DEF Load, BootPC, Loaded, Uncached, Published, Early
  <2> QED BY <1>6, <2>1, <2>2 DEF Load
<1>7. CASE LeaveHyp
  <2>1. pc'[Boot] = "disable_caches_hyp" /\ \A c \in Secondary : pc'[c] = pc[c] /\ el2'[c] = el2[c]
    BY <1>1, <1>3, <1>4, <1>7 DEF LeaveHyp, BootPC
  <2>2. el2'[Boot] = (build.el2 /\ build.hyp)
    BY <1>1, <1>2, <1>3, <1>7 DEF LeaveHyp
  <2> QED BY <1>2, <1>3, <1>7, <2>1, <2>2
          DEF LeaveHyp, FlushDcache, Loaded, Uncached, Published, Early
<1>8. CASE DisableCachesHyp
  BY <1>1, <1>2, <1>3, <1>4, <1>8
     DEF DisableCachesHyp, FlushDcache, BootPC, Loaded, Uncached, Published, Early
<1>9. CASE InitVspace
  <2>1. pc[Boot] = "init_vspace" /\ pc'[Boot] = "init_cpus" /\ \A c \in Secondary : pc'[c] = pc[c]
    BY <1>4, <1>9 DEF InitVspace, BootPC
  <2>2. mem' \union dirty' = mem \union dirty \union {"boot_vspace"}
    BY <1>9 DEF InitVspace, Write
  <2>3. EntryClean => ~dc /\ dirty = {} /\ dirty' = {}
    BY <1>9, <2>1 DEF InitVspace, Write, Uncached
  <2> QED BY <1>9, <2>1, <2>2, <2>3 DEF InitVspace, Loaded, Uncached, Published, Early
<1>10. CASE InitCpus
  <2>1. PICK l \in {"abort", "give_stack", "cpu_on"} : Goto(Boot, l)
    <3>1. CASE MaxNodes > MaxCores
      BY <1>10, <3>1 DEF InitCpus
    <3>2. CASE ~(MaxNodes > MaxCores) /\ Platform = "tx1"
      BY <1>10, <3>2 DEF InitCpus
    <3>3. CASE ~(MaxNodes > MaxCores) /\ Platform # "tx1"
      BY <1>10, <3>3 DEF InitCpus
    <3> QED BY <3>1, <3>2, <3>3
  <2>2. pc'[Boot] = l /\ \A c \in Secondary : pc'[c] = pc[c]
    BY <1>4, <2>1 DEF BootPC
  <2> QED BY <1>10, <2>2 DEF InitCpus, Loaded, Uncached, Published, Early
<1>11. CASE GiveStack
  BY <1>4, <1>11 DEF GiveStack, BootPC, Loaded, Uncached, Published, Early
<1>12. CASE PsciCpuOn
  <2>1. CASE /\ Target(i) \in AP /\ pc[Target(i)] = "off"
             /\ pc' = [pc EXCEPT ![Boot] = "wait_up", ![Target(i)] = "powering"]
    <3>1. pc'[Boot] = "wait_up" /\ \A c \in Secondary : pc'[c] \in InEl1 <=> pc[c] \in InEl1
      BY <1>1, <1>3, <2>1 DEF InEl1
    <3> QED BY <1>12, <3>1 DEF PsciCpuOn, Loaded, Uncached, Published, Early
  <2>2. CASE Goto(Boot, "abort")
    BY <1>4, <1>12, <2>2 DEF PsciCpuOn, BootPC, Loaded, Uncached, Published, Early
  <2> QED BY <1>12, <2>1, <2>2 DEF PsciCpuOn
<1>13. CASE FetchUp
  BY <1>13 DEF FetchUp
<1>14. CASE WaitUp
  <2>1. PICK l \in {"set_lock", "give_stack", "cpu_on"} : Goto(Boot, l)
    <3>1. CASE i' >= MaxNodes
      BY <1>14, <3>1 DEF WaitUp, NextNode
    <3>2. CASE ~(i' >= MaxNodes) /\ Platform = "tx1"
      BY <1>14, <3>2 DEF WaitUp, NextNode
    <3>3. CASE ~(i' >= MaxNodes) /\ Platform # "tx1"
      BY <1>14, <3>3 DEF WaitUp, NextNode
    <3> QED BY <3>1, <3>2, <3>3
  <2>2. pc'[Boot] = l /\ \A c \in Secondary : pc'[c] = pc[c]
    BY <1>4, <2>1 DEF BootPC
  <2> QED BY <1>14, <2>2 DEF WaitUp, NextNode, Loaded, Uncached, Published, Early
<1>15. CASE SetLock
  BY <1>4, <1>15 DEF SetLock, Write, BootPC, Loaded, Uncached, Published, Early
<1>16. CASE EnableMmu
  BY <1>4, <1>16 DEF EnableMmu, FlushDcache, BootPC, Loaded, Uncached, Published, Early
<1>17. CASE JumpToKernel
  BY <1>4, <1>17 DEF JumpToKernel, BootPC, Loaded, Uncached, Published, Early
<1>18. CASE Evict
  BY <1>18 DEF Evict
<1>19. ASSUME NEW c \in AP, ApNext(c) PROVE DataInv'
  <2>1. PICK l \in ApPC : /\ Goto(c, l)
                          /\ l \in InEl1 <=> pc[c] \in InEl1 \/ ApLeaveHyp(c)
    <3>1. CASE PowerOn(c)
      BY <3>1 DEF PowerOn, ApLeaveHyp, ApPC, InEl1
    <3>2. CASE CoreEntryHead(c)
      BY <3>2 DEF CoreEntryHead, ApLeaveHyp, ApPC, InEl1
    <3>3. CASE CoreEntry(c)
      BY <3>3 DEF CoreEntry, ApLeaveHyp, ApPC, InEl1
    <3>4. CASE Spin(c)
      BY <3>4 DEF Spin, ApLeaveHyp, ApPC, InEl1
    <3>5. CASE ApLeaveHyp(c)
      BY <3>5 DEF ApLeaveHyp, ApPC, InEl1
    <3>6. CASE ApEnableMmu(c)
      BY <3>6 DEF ApEnableMmu, ApLeaveHyp, ApPC, InEl1
    <3>7. CASE ApJump(c)
      BY <3>7 DEF ApJump, ApLeaveHyp, ApPC, InEl1
    <3> QED BY <1>19, <3>1, <3>2, <3>3, <3>4, <3>5, <3>6, <3>7 DEF ApNext
  <2>2. /\ pc'[c] = l /\ pc'[Boot] = pc[Boot] /\ c \in Secondary
        /\ \A d \in Secondary : d # c => pc'[d] = pc[d]
    BY <1>1, <2>1, ApGoto DEF IInv
  <2>3. UNCHANGED <<build, dc, mem, dirty, upLine>> /\ sp'[Boot] = sp[Boot]
    BY <1>1, <1>3, <1>19, <2>2
       DEF ApNext, PowerOn, CoreEntryHead, CoreEntry, Spin, ApLeaveHyp, ApEnableMmu, ApJump
  <2>4. CASE ApLeaveHyp(c)
    <3>1. /\ el2'[c] = (el2[c] /\ build.hyp)
          /\ \A d \in AnyCpu : d # c => el2'[d] = el2[d]
          /\ pc[c] = "ap_leave_hyp" /\ pc'[c] = "ap_enable_mmu"
      BY <1>1, <1>3, <2>2, <2>4, ApGoto DEF ApLeaveHyp, ApPC, IInv
    <3>2. \A d \in Secondary : el2'[d] = (build.el2 /\ (pc'[d] \in InEl1 => build.hyp))
      BY <1>1, <1>2, <2>2, <3>1 DEF InEl1
    <3>3. el2'[Boot] = el2[Boot]
      BY <1>1, <2>2, <3>1
    <3> QED BY <2>2, <2>3, <3>2, <3>3
  <2>5. CASE ~ApLeaveHyp(c)
    <3>1. UNCHANGED el2
      BY <1>19, <2>5 DEF ApNext, PowerOn, CoreEntryHead, CoreEntry, Spin, ApEnableMmu, ApJump
    <3> QED BY <2>1, <2>2, <2>3, <2>5, <3>1
  <2> QED BY <2>4, <2>5
<1>20. CASE UNCHANGED vars
  BY <1>20 DEF vars
<1> QED BY <1>5, <1>6, <1>7, <1>8, <1>9, <1>10, <1>11, <1>12, <1>13, <1>14, <1>15, <1>16, <1>17,
           <1>18, <1>19, <1>20 DEF Next, BootNext, Halted

LEMMA DataInvariance == ASSUME BssZeroed PROVE Spec => [](IInv /\ DataInv)
<1>1. Init => IInv /\ DataInv
  BY InitIInv, InitDataInv
<1>2. (IInv /\ DataInv) /\ [Next]_vars => (IInv /\ DataInv)'
  BY NextIInv, NextDataInv
<1> QED BY <1>1, <1>2, PTL DEF Spec

(* A core that turns its MMU on finds images, infos and page tables in     *)
(* memory, and is at the exception level the boot core built them for.     *)
THEOREM DataVisible == ASSUME BssZeroed PROVE Spec => []DataInMemory
<1>1. IInv /\ DataInv => DataInMemory
  <2> SUFFICES ASSUME IInv, DataInv, EntryClean, NEW c \in AP, pc[c] \in {"ap_jump", "kernel"}
               PROVE  Image \union {"boot_vspace"} \subseteq mem /\ el2[c] = el2[Boot]
    BY DEF DataInMemory
  <2>1. AP \subseteq Secondary
    BY Config DEF IInv, TypeOK
  <2>2. pc[Boot] \in Released
    BY <2>1 DEF IInv, LockInv, Passed
  <2>3. dirty = {}
    BY <2>2 DEF DataInv, CleanInv, Uncached, Released
  <2>4. Image \union {"boot_vspace"} \subseteq mem
    BY <2>2, <2>3 DEF DataInv, Released, Loaded, Uncached, Published
  <2>5. el2[c] = (build.el2 /\ HypKernel) /\ el2[Boot] = (build.el2 /\ HypKernel)
    BY <2>1, <2>2 DEF DataInv, InEl1, Released, Loaded, Uncached
  <2> QED BY <2>4, <2>5
<1> QED BY <1>1, DataInvariance, PTL

(***************************************************************************)
(* The hand-shake implements the gate of StartGate                         *)
(***************************************************************************)
Vspace == "boot_vspace" \in mem \union dirty
Pub == Image \union {"boot_vspace"} \subseteq IF EntryClean THEN mem ELSE mem \union dirty
Opened == pc[Boot] \in {"enable_mmu", "jump", "kernel"}
Entered == {c \in AnyCpu : pc[c] = "kernel"}
PubInv == Vspace => Pub
GateInv == IInv /\ DataInv /\ PubInv

(* Data once written is never lost, and only InitVspace writes the tables. *)
LEMMA Monotone ==
  ASSUME [Next]_vars
  PROVE  /\ UNCHANGED build
         /\ mem \subseteq mem' /\ mem \union dirty \subseteq mem' \union dirty'
         /\ ~InitVspace => (Vspace' <=> Vspace)
<1> USE DEF bootVars, cacheVars, apVars, Vspace
<1>1. CASE Start
  BY <1>1 DEF Start
<1>2. CASE Load
  BY <1>2 DEF Load, Write, Image
<1>3. CASE LeaveHyp
  BY <1>3 DEF LeaveHyp, FlushDcache
<1>4. CASE DisableCachesHyp
  BY <1>4 DEF DisableCachesHyp, FlushDcache
<1>5. CASE InitVspace
  BY <1>5 DEF InitVspace, Write
<1>6. CASE InitCpus \/ GiveStack \/ PsciCpuOn \/ FetchUp \/ WaitUp \/ JumpToKernel
  BY <1>6 DEF InitCpus, GiveStack, PsciCpuOn, FetchUp, WaitUp, NextNode, JumpToKernel
<1>7. CASE SetLock
  BY <1>7 DEF SetLock, Write
<1>8. CASE EnableMmu
  BY <1>8 DEF EnableMmu, FlushDcache
<1>9. CASE Evict
  BY <1>9 DEF Evict
<1>10. ASSUME NEW c \in AP, ApNext(c) PROVE UNCHANGED <<build, mem, dirty>>
  BY <1>10 DEF ApNext, PowerOn, CoreEntryHead, CoreEntry, Spin, ApLeaveHyp, ApEnableMmu, ApJump
<1>11. CASE UNCHANGED vars
  BY <1>11 DEF vars
<1> QED BY <1>1, <1>2, <1>3, <1>4, <1>5, <1>6, <1>7, <1>8, <1>9, <1>10, <1>11
        DEF Next, BootNext, Halted

LEMMA NextPubInv == ASSUME GateInv, [Next]_vars PROVE PubInv'
<1> USE DEF Pub, EntryClean
<1>1. /\ UNCHANGED build
      /\ mem \subseteq mem' /\ mem \union dirty \subseteq mem' \union dirty'
      /\ ~InitVspace => (Vspace' <=> Vspace)
  BY Monotone
<1>2. CASE InitVspace
  <2>1. Image \subseteq mem \union dirty
    BY <1>2 DEF InitVspace, GateInv, DataInv, Loaded, Uncached
  <2>2. EntryClean => ~dc /\ dirty = {}
    BY <1>2 DEF InitVspace, GateInv, DataInv, CleanInv, Uncached
  <2>3. Image \union {"boot_vspace"} \subseteq mem' \union dirty'
    BY <1>2, <2>1 DEF InitVspace, Write
  <2>4. EntryClean => Image \union {"boot_vspace"} \subseteq mem'
    BY <1>2, <2>1, <2>2 DEF InitVspace, Write
  <2> QED BY <1>1, <2>3, <2>4 DEF PubInv
<1>3. CASE ~InitVspace
  BY <1>1, <1>3 DEF GateInv, PubInv
<1> QED BY <1>2, <1>3

(* The gate stutters when the boot data, the gate, the stacks and the      *)
(* cores in the kernel stay as they are.                                   *)
LEMMA GateStutter ==
  ASSUME GateInv, [Next]_vars, ~InitVspace, UNCHANGED sp,
         pc'[Boot] \in Released <=> pc[Boot] \in Released,
         \A c \in AnyCpu : pc'[c] = "kernel" <=> pc[c] = "kernel"
  PROVE  UNCHANGED <<Pub, Opened, sp, Entered>>
<1>1. PubInv' /\ (Vspace' <=> Vspace)
  BY NextPubInv, Monotone
<1>2. Pub => Vspace
  BY DEF Pub, Vspace
<1>3. Pub' => Vspace'
  BY DEF Pub, Vspace
<1>4. Pub' = Pub
  BY <1>1, <1>2, <1>3 DEF PubInv, GateInv, Pub
<1>5. Opened' = Opened
  BY DEF Opened, Released
<1>6. Entered' = Entered
  BY DEF Entered
<1> QED BY <1>4, <1>5, <1>6

(* A step of the code is a step of the gate, or none.                      *)
GateStep == [Gate!Next]_<<Pub, Opened, sp, Entered>>

(* What the steps that the gate can see do to it.                          *)
LEMMA GateStart == ASSUME GateInv, Start PROVE Gate!Claim(Boot) /\ UNCHANGED Entered
<1>1. pc[Boot] = "_start" /\ Boot \in AnyCpu
  BY DEF Start, AnyCpu, Boot
<1>2. \A d \in AnyCpu : sp[d] = NoStack
  <2>1. \A d \in Secondary : pc[d] = "off"
    BY <1>1 DEF GateInv, IInv, LoopInv, Early
  <2> QED BY <1>1, <2>1 DEF GateInv, IInv, StackInv, DataInv, Unstacked, Secondary
<1>3. sp' = [sp EXCEPT ![Boot] = 0] /\ 0 \in {0} \union AnyNode /\ 0 # NoStack
  BY DEF Start, NoStack
<1>4. pc'[Boot] = "load_images" /\ \A d \in AnyCpu : d # Boot => pc'[d] = pc[d]
  BY <1>1 DEF Start, Goto, GateInv, IInv, TypeOK
<1>5. UNCHANGED <<Pub, Opened, Entered>>
  BY <1>1, <1>4 DEF Start, bootVars, cacheVars, Pub, EntryClean, Opened, Entered
<1>6. \E s \in {0} \union AnyNode : (\A d \in AnyCpu : sp[d] # s) /\ sp' = [sp EXCEPT ![Boot] = s]
  BY <1>2, <1>3
<1> QED BY <1>1, <1>2, <1>5, <1>6 DEF Gate!Claim, Pub, Opened, Entered

LEMMA GateCoreEntryHead ==
  ASSUME GateInv, NEW c \in AP, CoreEntryHead(c)
  PROVE  Gate!Claim(c)
<1>1. /\ AP \subseteq Secondary /\ Secondary \subseteq AnyCpu /\ Node \subseteq AnyNode
      /\ Boot \notin Secondary /\ build \in Builds /\ Node = 1 .. MaxNodes - 1
      /\ AnyCpu \subseteq Secondary \union {Boot}
  BY Config DEF GateInv, IInv, TypeOK, Secondary
<1>2. PICK n \in Node : /\ c = CpuOf[n]
                        /\ \A m \in Node : CpuOf[m] = c <=> m = n
                        /\ pc[Boot] = "wait_up"
                        /\ sp' = [sp EXCEPT ![c] = n]
  BY CoreEntryHeadSp DEF GateInv
<1>3. sp[c] = NoStack
  BY <1>1 DEF CoreEntryHead, GateInv, IInv, StackInv, Unstacked
<1>4. Fits
  BY <1>2 DEF GateInv, IInv, LoopInv, Looping
<1>5. \A d \in AnyCpu : sp[d] # n
  <2> SUFFICES ASSUME NEW d \in AnyCpu, sp[d] = n PROVE FALSE
    OBVIOUS
  <2>1. n # 0 /\ n # NoStack
    BY <1>1 DEF NoStack, AnyNode
  <2>2. d # Boot
    BY <2>1 DEF GateInv, IInv, StackInv
  <2>3. d \in Secondary /\ pc[d] \notin Unstacked
    BY <1>1, <2>1, <2>2 DEF GateInv, IInv, StackInv
  <2>4. PICK m \in Node : d = CpuOf[m]
    BY <2>3 DEF GateInv, IInv, MailInv, Unstacked
  <2>5. CpuOf[m] \in AP
    BY <1>1, <1>4, Targets
  <2>6. sp[d] = m
    BY <2>3, <2>4, <2>5 DEF GateInv, IInv, StackInv
  <2> QED BY <1>2, <1>3, <2>1, <2>4, <2>6
<1>6. Pub
  BY <1>2 DEF GateInv, PubInv, DataInv, Vspace, Published, Loaded, Uncached
<1>7. /\ pc'[Boot] = pc[Boot] /\ pc'[c] = "core_entry" /\ pc[c] = "core_entry_head"
      /\ \A d \in AnyCpu : d # c => pc'[d] = pc[d]
  BY ApGoto DEF CoreEntryHead, GateInv, IInv, ApPC
<1>8. UNCHANGED <<Pub, Opened, Entered>>
  <2>1. UNCHANGED Pub
    BY DEF CoreEntryHead, bootVars, cacheVars, Pub, EntryClean
  <2>2. UNCHANGED Opened
    BY <1>7 DEF Opened
  <2>3. \A d \in AnyCpu : pc'[d] = "kernel" <=> pc[d] = "kernel"
    BY <1>7
  <2> QED BY <2>1, <2>2, <2>3 DEF Entered
<1>9. \E s \in {0} \union AnyNode : (\A d \in AnyCpu : sp[d] # s) /\ sp' = [sp EXCEPT ![c] = s]
  BY <1>1, <1>2, <1>5
<1> QED BY <1>3, <1>6, <1>8, <1>9 DEF Gate!Claim, Pub, Opened, Entered

(* A core that goes from its jump into the kernel enters by the gate.      *)
LEMMA GateEnter ==
  ASSUME GateInv, NEW c \in AnyCpu, pc[c] # "kernel", pc' = [pc EXCEPT ![c] = "kernel"],
         pc[Boot] \in Released, pc'[Boot] \in Released, sp[c] # NoStack,
         UNCHANGED <<build, mem, dirty, sp>>
  PROVE  Gate!Enter(c)
<1>1. Pub
  BY DEF GateInv, PubInv, DataInv, Vspace, Published, Loaded, Uncached, Released
<1>2. UNCHANGED Pub
  BY DEF Pub, EntryClean
<1>3. Opened /\ Opened'
  BY DEF Opened, Released
<1>4. \A d \in AnyCpu : pc'[d] = "kernel" <=> (d = c \/ pc[d] = "kernel")
  BY DEF GateInv, IInv, TypeOK
<1>5. Entered' = Entered \union {c} /\ c \notin Entered
  BY <1>4 DEF Entered
<1> QED BY <1>1, <1>2, <1>3, <1>5 DEF Gate!Enter, Pub, Opened, Entered

LEMMA GateNext == ASSUME GateInv, [Next]_vars PROVE GateStep
<1> USE DEF bootVars, cacheVars, apVars
<1>1. /\ Boot \in AnyCpu /\ Boot \notin Secondary /\ AP \subseteq Secondary
      /\ Secondary \subseteq AnyCpu /\ Node \subseteq AnyNode
  BY Config DEF GateInv, IInv, TypeOK, Secondary
<1>2. pc \in [AnyCpu -> BootPC \union ApPC]
  BY DEF GateInv, IInv, TypeOK
<1>3. ASSUME NEW l \in BootPC, Goto(Boot, l), l # "kernel", pc[Boot] # "kernel", UNCHANGED sp,
             l \in Released <=> pc[Boot] \in Released, ~InitVspace
      PROVE  GateStep
  <2>1. pc'[Boot] = l /\ \A d \in AnyCpu : d # Boot => pc'[d] = pc[d]
    BY <1>1, <1>2, <1>3 DEF Goto
  <2>2. \A d \in AnyCpu : pc'[d] = "kernel" <=> pc[d] = "kernel"
    BY <1>3, <2>1
  <2>3. UNCHANGED <<Pub, Opened, sp, Entered>>
    BY <1>3, <2>1, <2>2, GateStutter
  <2> QED BY <2>3 DEF GateStep
<1>4. CASE Start
  BY <1>1, <1>4, GateStart DEF GateStep, Gate!Next
<1>5. CASE InitVspace
  <2>1. pc[Boot] = "init_vspace" /\ pc'[Boot] = "init_cpus" /\ \A d \in AnyCpu : d # Boot => pc'[d] = pc[d]
    BY <1>1, <1>2, <1>5 DEF InitVspace, Goto
  <2>2. PubInv' /\ UNCHANGED build
    BY NextPubInv, <1>5 DEF InitVspace
  <2>3. Vspace' /\ ~Vspace
    BY <1>5, <2>1 DEF InitVspace, Write, Vspace, GateInv, DataInv, Early
  <2>4. Pub' /\ ~Pub
    BY <2>2, <2>3 DEF PubInv, Pub, Vspace
  <2>5. UNCHANGED <<Opened, Entered, sp>>
    BY <1>1, <1>5, <2>1 DEF InitVspace, Opened, Entered
  <2>6. Gate!Publish
    BY <2>4, <2>5 DEF Gate!Publish, Pub, Opened, Entered
  <2> QED BY <2>6 DEF GateStep, Gate!Next
<1>6. CASE Load
  BY <1>3, <1>6 DEF Load, BootPC, Released, InitVspace
<1>7. CASE LeaveHyp
  BY <1>3, <1>7 DEF LeaveHyp, BootPC, Released, InitVspace
<1>8. CASE DisableCachesHyp
  BY <1>3, <1>8 DEF DisableCachesHyp, BootPC, Released, InitVspace
<1>9. CASE InitCpus
  <2>1. PICK l \in {"abort", "give_stack", "cpu_on"} : Goto(Boot, l)
    <3>1. CASE MaxNodes > MaxCores
      BY <1>9, <3>1 DEF InitCpus
    <3>2. CASE ~(MaxNodes > MaxCores) /\ Platform = "tx1"
      BY <1>9, <3>2 DEF InitCpus
    <3>3. CASE ~(MaxNodes > MaxCores) /\ Platform # "tx1"
      BY <1>9, <3>3 DEF InitCpus
    <3> QED BY <3>1, <3>2, <3>3
  <2> QED BY <1>3, <1>9, <2>1 DEF InitCpus, BootPC, Released, InitVspace
<1>10. CASE GiveStack
  BY <1>3, <1>10 DEF GiveStack, BootPC, Released, InitVspace
<1>11. CASE PsciCpuOn
  <2>1. CASE /\ Target(i) \in AP /\ pc[Target(i)] = "off"
             /\ pc' = [pc EXCEPT ![Boot] = "wait_up", ![Target(i)] = "powering"]
    <3>1. pc[Boot] = "cpu_on" /\ pc'[Boot] = "wait_up"
      BY <1>1, <1>2, <1>11, <2>1 DEF PsciCpuOn
    <3>2. \A d \in AnyCpu : pc'[d] = "kernel" <=> pc[d] = "kernel"
      BY <1>1, <1>2, <2>1, <3>1
    <3>3. UNCHANGED <<Pub, Opened, sp, Entered>>
      BY <1>11, <3>1, <3>2, GateStutter DEF PsciCpuOn, InitVspace, Released
    <3> QED BY <3>3 DEF GateStep
  <2>2. CASE Goto(Boot, "abort")
    BY <1>3, <1>11, <2>2 DEF PsciCpuOn, BootPC, Released, InitVspace
  <2> QED BY <1>11, <2>1, <2>2 DEF PsciCpuOn
<1>12. CASE FetchUp \/ Evict \/ UNCHANGED vars
  <2>1. UNCHANGED <<pc, sp>>
    BY <1>12 DEF FetchUp, Evict, vars
  <2>2. CASE InitVspace
    BY <2>2, <1>5
  <2>3. CASE ~InitVspace
    <3>1. UNCHANGED <<Pub, Opened, sp, Entered>>
      BY <2>1, <2>3, GateStutter
    <3> QED BY <3>1 DEF GateStep
  <2> QED BY <2>2, <2>3
<1>13. CASE WaitUp
  <2>1. PICK l \in {"set_lock", "give_stack", "cpu_on"} : Goto(Boot, l)
    <3>1. CASE i' >= MaxNodes
      BY <1>13, <3>1 DEF WaitUp, NextNode
    <3>2. CASE ~(i' >= MaxNodes) /\ Platform = "tx1"
      BY <1>13, <3>2 DEF WaitUp, NextNode
    <3>3. CASE ~(i' >= MaxNodes) /\ Platform # "tx1"
      BY <1>13, <3>3 DEF WaitUp, NextNode
    <3> QED BY <3>1, <3>2, <3>3
  <2> QED BY <1>3, <1>13, <2>1 DEF WaitUp, NextNode, BootPC, Released, InitVspace
<1>14. CASE SetLock
  <2>1. pc[Boot] = "set_lock" /\ pc'[Boot] = "enable_mmu" /\ \A d \in AnyCpu : d # Boot => pc'[d] = pc[d]
    BY <1>1, <1>2, <1>14 DEF SetLock, Goto
  <2>2. ~InitVspace
    BY <2>1 DEF InitVspace
  <2>3. Vspace /\ Vspace'
    BY <2>1, <2>2, Monotone DEF GateInv, DataInv, Vspace, Published, Loaded, Uncached
  <2>4. Pub /\ Pub'
    BY <2>3, NextPubInv DEF GateInv, PubInv
  <2>5. ~Opened /\ Opened' /\ UNCHANGED <<sp, Entered>>
    BY <1>1, <1>14, <2>1 DEF SetLock, Opened, Entered
  <2>6. Pub' = Pub
    BY <2>4 DEF Pub
  <2>7. Gate!Open
    BY <2>4, <2>5, <2>6 DEF Gate!Open, Pub, Opened, Entered
  <2> QED BY <2>7 DEF GateStep, Gate!Next
<1>15. CASE EnableMmu
  BY <1>3, <1>15 DEF EnableMmu, BootPC, Released, InitVspace
<1>16. CASE JumpToKernel
  <2>1. /\ pc[Boot] = "jump" /\ pc' = [pc EXCEPT ![Boot] = "kernel"] /\ pc'[Boot] = "kernel"
    BY <1>1, <1>2, <1>16 DEF JumpToKernel, Goto
  <2>2. sp[Boot] # NoStack
    BY <2>1 DEF GateInv, DataInv, Loaded, NoStack
  <2>3. Gate!Enter(Boot)
    BY <1>1, <1>16, <2>1, <2>2, GateEnter DEF JumpToKernel, Released
  <2> QED BY <1>1, <2>3 DEF GateStep, Gate!Next
<1>17. ASSUME NEW c \in AP, ApNext(c) PROVE GateStep
  <2>1. CASE CoreEntryHead(c)
    BY <1>1, <2>1, GateCoreEntryHead DEF GateStep, Gate!Next
  <2>2. CASE ApJump(c)
    <3>1. pc[c] = "ap_jump" /\ pc' = [pc EXCEPT ![c] = "kernel"] /\ pc'[Boot] = pc[Boot]
      BY <1>1, <1>2, <2>2 DEF ApJump, Goto
    <3>2. pc[Boot] \in Released
      BY <1>1, <3>1 DEF GateInv, IInv, LockInv, Passed
    <3>3. PICK n \in Node : c = CpuOf[n]
      BY <3>1, NodeOf DEF GateInv
    <3>4. sp[c] = n /\ n # NoStack
      BY <1>1, <3>1, <3>3 DEF GateInv, IInv, StackInv, Unstacked, NoStack, AnyNode
    <3>5. Gate!Enter(c)
      BY <1>1, <2>2, <3>1, <3>2, <3>4, GateEnter DEF ApJump
    <3> QED BY <1>1, <3>5 DEF GateStep, Gate!Next
  <2>3. CASE PowerOn(c) \/ CoreEntry(c) \/ Spin(c) \/ ApLeaveHyp(c) \/ ApEnableMmu(c)
    <3>1. PICK l \in ApPC \ {"kernel"} : Goto(c, l) /\ pc[c] # "kernel"
      <4>1. CASE PowerOn(c)
        BY <4>1 DEF PowerOn, ApPC
      <4>2. CASE CoreEntry(c)
        BY <4>2 DEF CoreEntry, ApPC
      <4>3. CASE Spin(c)
        BY <4>3 DEF Spin, ApPC
      <4>4. CASE ApLeaveHyp(c)
        BY <4>4 DEF ApLeaveHyp, ApPC
      <4>5. CASE ApEnableMmu(c)
        BY <4>5 DEF ApEnableMmu, ApPC
      <4> QED BY <2>3, <4>1, <4>2, <4>3, <4>4, <4>5
    <3>2. pc'[c] = l /\ pc'[Boot] = pc[Boot] /\ \A d \in AnyCpu : d # c => pc'[d] = pc[d]
      BY <3>1, ApGoto DEF GateInv, IInv
    <3>3. UNCHANGED <<sp, mem, dirty>>
      BY <2>3 DEF PowerOn, CoreEntry, Spin, ApLeaveHyp, ApEnableMmu
    <3>4. CASE InitVspace
      BY <3>4, <1>5
    <3>5. CASE ~InitVspace
      <4>1. UNCHANGED <<Pub, Opened, sp, Entered>>
        BY <3>1, <3>2, <3>3, <3>5, GateStutter
      <4> QED BY <4>1 DEF GateStep
    <3> QED BY <3>4, <3>5
  <2> QED BY <1>17, <2>1, <2>2, <2>3 DEF ApNext
<1> QED BY <1>4, <1>5, <1>6, <1>7, <1>8, <1>9, <1>10, <1>11, <1>12, <1>13, <1>14, <1>15, <1>16,
           <1>17 DEF Next, BootNext, Halted

LEMMA GateInit == ASSUME BssZeroed, Init PROVE Gate!Init /\ PubInv
<1>1. mem = {} /\ dirty = {}
  BY DEF BssZeroed, Init
<1>2. Boot \in AnyCpu /\ \A c \in AnyCpu : pc[c] \in {"_start", "off"}
  BY DEF Init, AnyCpu, Boot
<1>3. sp = [c \in AnyCpu |-> NoStack]
  BY DEF Init
<1>4. ~Pub /\ PubInv
  BY <1>1 DEF Pub, PubInv, Vspace
<1>5. ~Opened /\ Entered = {}
  BY <1>2 DEF Opened, Entered
<1> QED BY <1>3, <1>4, <1>5 DEF Gate!Init, Pub, Opened, Entered

(* The firmware start with its mailbox implements the gate: stacks are     *)
(* claimed once each and behind the boot data, and no core is in the       *)
(* kernel before the gate opens.                                           *)
THEOREM ImplementsGate == ASSUME BssZeroed PROVE Spec => GateSpec
<1>1. Init => GateInv /\ Gate!Init
  BY InitIInv, InitDataInv, GateInit DEF GateInv
<1>2. GateInv /\ [Next]_vars => GateInv'
  BY NextIInv, NextDataInv, NextPubInv DEF GateInv
<1>3. GateInv /\ [Next]_vars => [Gate!Next]_Gate!gvars
  BY GateNext DEF GateStep, Gate!gvars, Pub, Opened, Entered
<1> QED BY <1>1, <1>2, <1>3, PTL DEF Spec, GateSpec, Gate!Spec
=============================================================================
