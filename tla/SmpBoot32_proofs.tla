-------------------------- MODULE SmpBoot32_proofs --------------------------
(***************************************************************************)
(* Proofs about SmpBoot32, for every number of cores and nodes, every      *)
(* platform and every machine state at entry that its assumptions admit.   *)
(***************************************************************************)
EXTENDS SmpBoot32, FiniteSetTheorems, TLAPS

(***************************************************************************)
(* Control flow.  What a jump of one core leaves alone, stated once.       *)
(***************************************************************************)
(* The boot core is a core, and no AP.                                     *)
LEMMA BootIsCore == Boot \in Core /\ Boot \notin AP /\ AP \subseteq Core
  BY ConfigAssumption DEF Boot, Core, AP

(* A jump of the boot core moves no AP, and keeps the type of pc.          *)
LEMMA BootGoto ==
  ASSUME TypeOK, NEW l \in BootPC, Goto(Boot, l)
  PROVE  /\ pc' \in [Core -> BootPC \union ApPC]
         /\ pc'[Boot] = l
         /\ \A d \in AP : pc'[d] = pc[d] /\ pc'[d] \in ApPC
  BY BootIsCore DEF TypeOK, Goto

(* A jump of an AP moves neither the boot core nor another AP.             *)
LEMMA ApGoto ==
  ASSUME TypeOK, NEW c \in AP, NEW l \in ApPC, Goto(c, l)
  PROVE  /\ pc' \in [Core -> BootPC \union ApPC]
         /\ pc'[Boot] = pc[Boot] /\ pc'[Boot] \in BootPC
         /\ pc'[c] = l
         /\ \A d \in AP : pc'[d] \in ApPC
         /\ \A d \in AP \ {c} : pc'[d] = pc[d]
  BY BootIsCore DEF TypeOK, Goto


(***************************************************************************)
(* Types                                                                   *)
(***************************************************************************)
(* The boot loader hands over a state of the right type.                   *)
LEMMA TypeInit == Init => TypeOK
  <1> SUFFICES ASSUME Init PROVE TypeOK
    OBVIOUS
  <1> USE ConfigAssumption DEF Init
  <1>1. PICK e \in Entries : /\ hyp = e.hyp
                             /\ sctlrC = [c \in Core |-> c = Boot /\ e.sctlr]
                             /\ hsctlrC = [c \in Core |-> c = Boot /\ e.hsctlr]
    OBVIOUS
  <1>2. hyp \in [Core -> BOOLEAN]
    BY <1>1 DEF Entry
  <1>3. sctlrC \in [Core -> BOOLEAN] /\ hsctlrC \in [Core -> BOOLEAN]
    BY <1>1
  <1>4. pc \in [Core -> BootPC \union ApPC]
    BY DEF BootPC, ApPC
  <1>5. pc[Boot] \in BootPC /\ \A c \in AP : pc[c] \in ApPC
    BY BootIsCore DEF BootPC, ApPC, AP
  <1>6. mem \subseteq Data /\ dirty \subseteq Data
    BY DEF Data
  <1>7. num \in 0..MaxNodes /\ i \in 1..MaxNodes /\ index \in Nat
    OBVIOUS
  <1>8. r1 \in [Core -> Nat] /\ excl \in [Core -> BOOLEAN] /\ sp \in [Core -> Int]
    BY DEF NoStack
  <1>9. busy \subseteq AP
    OBVIOUS
  <1> QED
    BY <1>2, <1>3, <1>4, <1>5, <1>6, <1>7, <1>8, <1>9 DEF TypeOK

(* Every step keeps the types.                                             *)
LEMMA TypeNext == TypeOK /\ EnabledInv /\ [Next]_vars => TypeOK'
  <1> SUFFICES ASSUME TypeOK, EnabledInv, [Next]_vars PROVE TypeOK'
    OBVIOUS
  <1> USE BootIsCore DEF TypeOK, bootVars, apVars, modeVars
  <1>1. CASE Start
    BY <1>1, BootGoto, "load_images" \in BootPC DEF Start, PageSize, BootPC
  <1>2. CASE Load
    <2>1. mem' \subseteq Data /\ dirty' \subseteq Data
      BY <1>2 DEF Load, Write, Image, Data
    <2> QED
      BY <1>2, <2>1, BootGoto DEF Load, BootPC
  <1>3. CASE LeaveHyp
    BY <1>3, BootGoto DEF LeaveHyp, BootPC
  <1>4. CASE InitVspace
    <2>1. mem' \subseteq Data /\ dirty' \subseteq Data
      BY <1>4 DEF InitVspace, Write, Data
    <2>2. \E l \in BootPC : Goto(Boot, l)
      BY <1>4 DEF InitVspace, BootPC
    <2> QED
      BY <1>4, <2>1, <2>2, BootGoto DEF InitVspace
  <1>5. CASE DisableDcaches
    <2>1. mem' \subseteq Data /\ dirty' \subseteq Data
      BY <1>5 DEF DisableDcaches, FlushDcache, InvalidateDcache
    <2> QED
      BY <1>5, <2>1, BootGoto DEF DisableDcaches, BootPC
  <1>6. CASE InitCpus
    <2>1. mem' \subseteq Data /\ dirty' \subseteq Data
      BY <1>6 DEF InitCpus, ScuEnable, FlushDcache
    <2>2. \E l \in BootPC : Goto(Boot, l)
      BY <1>6 DEF InitCpus, BootPC
    <2>3. num' \in 0..MaxNodes
      BY <1>6, ConfigAssumption DEF InitCpus
    <2> QED
      BY <1>6, <2>1, <2>2, <2>3, BootGoto DEF InitCpus, ScuEnable
  <1>7. CASE StopCore
    BY <1>7, BootGoto DEF StopCore, BootPC
  <1>8. CASE SetCpuJump
    <2>1. i \in AP
      BY <1>8, ConfigAssumption DEF SetCpuJump, EnabledInv, Starting, AP, Core, Boot
    <2>2. \E l \in BootPC : Goto(Boot, l)
      BY <1>8 DEF SetCpuJump, BootPC
    <2> QED
      BY <1>8, <2>1, <2>2, BootGoto DEF SetCpuJump
  <1>9. CASE PowerUp
    BY <1>9, BootGoto DEF PowerUp, BootPC
  <1>10. CASE PowerWait
    BY <1>10, BootGoto DEF PowerWait, BootPC
  <1>11. CASE EnableCpu
    <2>1. i \in AP /\ i + 1 \in 1..MaxNodes
      BY <1>11, ConfigAssumption DEF EnableCpu, EnabledInv, Starting, AP, Core, Boot
    <2>2. \E l \in BootPC : Goto(Boot, l)
      BY <1>11 DEF EnableCpu, BootPC
    <2> QED
      BY <1>11, <2>1, <2>2, BootGoto DEF EnableCpu
  <1>12. CASE SetLock
    <2>1. mem' \subseteq Data /\ dirty' \subseteq Data
      BY <1>12 DEF SetLock, Write, Data
    <2> QED
      BY <1>12, <2>1, BootGoto DEF SetLock, BootPC
  <1>13. CASE EnableMmu
    <2>1. mem' \subseteq Data /\ dirty' \subseteq Data
      BY <1>13 DEF EnableMmu, FlushDcache, InvalidateDcache
    <2> QED
      BY <1>13, <2>1, BootGoto DEF EnableMmu, BootPC
  <1>14. CASE JumpToKernel
    BY <1>14, BootGoto DEF JumpToKernel, BootPC
  <1>15. CASE GpcDone
    BY <1>15 DEF GpcDone
  <1>16. CASE Halted \/ UNCHANGED vars
    BY <1>16 DEF Halted, vars
  <1>17. ASSUME NEW c \in AP, ApNext(c) PROVE TypeOK'
    <2>1. CASE LeaveReset(c)
      <3>1. \E l \in ApPC : Goto(c, l)
        BY <2>1 DEF LeaveReset, ApPC
      <3> QED
        BY <2>1, <3>1, ApGoto DEF LeaveReset
    <2>2. CASE ImxNonBoot(c)
      BY <2>2, ApGoto DEF ImxNonBoot, ApPC
    <2>3. CASE Ldrex(c)
      BY <2>3, ApGoto DEF Ldrex, ApPC
    <2>4. CASE StrexOk(c)
      BY <2>4, ApGoto DEF StrexOk, ApPC
    <2>5. CASE StrexFail(c)
      BY <2>5, ApGoto DEF StrexFail, ApPC
    <2>6. CASE SetSp(c)
      BY <2>6, ApGoto DEF SetSp, ApPC, PageSize
    <2>7. CASE ApDisableDcaches(c)
      BY <2>7, ApGoto DEF ApDisableDcaches, ApPC
    <2>8. CASE Spin(c)
      <3>1. \E l \in ApPC : Goto(c, l)
        BY <2>8 DEF Spin, ApPC
      <3> QED
        BY <2>8, <3>1, ApGoto DEF Spin
    <2>9. CASE WakeUp(c)
      BY <2>9, ApGoto DEF WakeUp, ApPC
    <2>10. CASE ApLeaveHyp(c)
      BY <2>10, ApGoto DEF ApLeaveHyp, ApPC
    <2>11. CASE ApEnableMmu(c)
      BY <2>11, ApGoto DEF ApEnableMmu, ApPC
    <2>12. CASE ApJump(c)
      BY <2>12, ApGoto DEF ApJump, ApPC
    <2> QED
      BY <1>17, <2>1, <2>2, <2>3, <2>4, <2>5, <2>6, <2>7, <2>8, <2>9, <2>10, <2>11, <2>12
         DEF ApNext, ApStep
  <1> QED
    BY <1>1, <1>2, <1>3, <1>4, <1>5, <1>6, <1>7, <1>8, <1>9, <1>10, <1>11, <1>12, <1>13,
       <1>14, <1>15, <1>16, <1>17 DEF Next, BootNext

(***************************************************************************)
(* Which cores are out of reset, at each point of the boot core            *)
(***************************************************************************)
(* An elfloader stays the one it was built as.                             *)
LEMMA PlatformFixed == [Next]_vars => platform' = platform
  <1> SUFFICES ASSUME [Next]_vars PROVE platform' = platform
    OBVIOUS
  <1> USE DEF modeVars
  <1>1. CASE BootNext
    BY <1>1 DEF BootNext, Start, Load, LeaveHyp, InitVspace, DisableDcaches, InitCpus, StopCore,
           SetCpuJump, PowerUp, PowerWait, EnableCpu, SetLock, EnableMmu, JumpToKernel
  <1>2. CASE GpcDone \/ Halted \/ UNCHANGED vars
    BY <1>2 DEF GpcDone, Halted, vars
  <1>3. ASSUME NEW c \in AP, ApNext(c) PROVE platform' = platform
    BY <1>3 DEF ApNext, LeaveReset, WakeUp, ApStep, ImxNonBoot, Ldrex, StrexOk, StrexFail, SetSp,
           ApDisableDcaches, Spin, ApLeaveHyp, ApEnableMmu, ApJump
  <1> QED
    BY <1>1, <1>2, <1>3 DEF Next

(* At entry no AP is out of reset.                                         *)
LEMMA EnabledInit == Init => EnabledInv
  BY ConfigAssumption, BootIsCore DEF Init, EnabledInv, Starting, Released, AP

(* A step of an AP that is out of reset disturbs no part of it.            *)
LEMMA EnabledAp ==
  ASSUME TypeOK, EnabledInv, NEW c \in AP, NEW l \in ApPC, Goto(c, l),
         c \in enabled, l # "lost", UNCHANGED <<platform, enabled, jump, num, i>>
  PROVE  EnabledInv'
  <1>1. pc'[Boot] = pc[Boot]
    BY ApGoto
  <1>2. \A d \in AP : pc'[d] # "reset" => d \in enabled
    BY ApGoto DEF EnabledInv
  <1>3. \A d \in AP : pc'[d] # "lost"
    BY ApGoto DEF EnabledInv
  <1> QED
    BY <1>1, <1>2, <1>3 DEF EnabledInv

(* Nor does a step of the boot core between labels that say the same.      *)
LEMMA EnabledBoot ==
  ASSUME TypeOK, EnabledInv, NEW l \in BootPC, Goto(Boot, l),
         UNCHANGED <<platform, jump, enabled, num, i>>,
         \/ l \in {"load_images", "leave_hyp", "init_vspace", "abort"} /\ enabled = {} /\ i = 1
         \/ l \in {"smp_boot", "init_cpus"} /\ MaxNodes > 1 /\ enabled = {} /\ i = 1
         \/ l \in Released /\ pc[Boot] \in {"set_lock"} \union Released
         \/ l \in {"power_up", "power_wait", "enable_cpu"} /\ pc[Boot] \in Starting /\ i \in jump
  PROVE  EnabledInv'
  <1>1. pc'[Boot] = l /\ \A d \in AP : pc'[d] = pc[d]
    BY BootGoto
  <1> QED
    BY <1>1 DEF EnabledInv, Starting, Released

(* Every step keeps the account of which cores are out of reset.           *)
LEMMA EnabledNext == TypeOK /\ EnabledInv /\ [Next]_vars => EnabledInv'
  <1> SUFFICES ASSUME TypeOK, EnabledInv, [Next]_vars PROVE EnabledInv'
    OBVIOUS
  <1>0. platform' = platform
    BY PlatformFixed
  <1> USE <1>0, BootIsCore, ConfigAssumption DEF bootVars
  <1>1. CASE Start
    BY <1>1, EnabledBoot DEF Start, EnabledInv, Starting, Released, BootPC
  <1>2. CASE Load
    BY <1>2, EnabledBoot DEF Load, EnabledInv, Starting, Released, BootPC
  <1>3. CASE LeaveHyp
    BY <1>3, EnabledBoot DEF LeaveHyp, EnabledInv, Starting, Released, BootPC
  <1>4. CASE InitVspace
    <2>1. enabled = {} /\ i = 1
      BY <1>4 DEF InitVspace, EnabledInv, Starting, Released
    <2>2. CASE MaxNodes > 1
      BY <1>4, <2>1, <2>2, EnabledBoot DEF InitVspace, BootPC
    <2>3. CASE ~(MaxNodes > 1)
      <3>1. 1..MaxNodes-1 = {}
        BY <2>3
      <3>2. pc'[Boot] = "enable_mmu" /\ \A d \in AP : pc'[d] = pc[d]
        BY <1>4, <2>3, BootGoto DEF InitVspace, BootPC
      <3> QED
        BY <1>4, <2>1, <2>3, <3>1, <3>2 DEF InitVspace, EnabledInv, Starting, Released
    <2> QED
      BY <2>2, <2>3
  <1>5. CASE DisableDcaches
    BY <1>5, EnabledBoot DEF DisableDcaches, EnabledInv, Starting, Released, BootPC
  <1>6. CASE InitCpus
    <2>1. enabled = {} /\ i = 1 /\ MaxNodes > 1
      BY <1>6 DEF InitCpus, EnabledInv, Starting, Released
    <2>2. \A d \in AP : pc'[d] = pc[d]
      BY <1>6, BootGoto DEF InitCpus, BootPC
    <2>3. \/ pc'[Boot] = "abort"
          \/ /\ pc'[Boot] = "stop_core" \/ pc'[Boot] = "set_cpu_jump"
             /\ pc'[Boot] = "stop_core" => platform = "zynq7000"
             /\ MaxNodes <= HwCores /\ num' = MaxNodes
      <3>1. PICK n \in CoreCounts :
              /\ num' = IF n > MaxNodes THEN MaxNodes ELSE n
              /\ Goto(Boot, IF n < MaxNodes THEN "abort"
                            ELSE IF platform = "zynq7000" THEN "stop_core"
                            ELSE "set_cpu_jump")
        BY <1>6 DEF InitCpus
      <3>2. n \in Nat /\ n <= HwCores
        OBVIOUS
      <3> QED
        BY <3>1, <3>2, BootGoto DEF BootPC
    <2>4. enabled' = {} /\ i' = 1 /\ UNCHANGED jump
      BY <1>6, <2>1 DEF InitCpus
    <2> QED
      BY <2>1, <2>2, <2>3, <2>4 DEF EnabledInv, Starting, Released
  <1>7. CASE StopCore
    <2>1. pc'[Boot] = "set_cpu_jump" /\ \A d \in AP : pc'[d] = pc[d]
      BY <1>7, BootGoto DEF StopCore, BootPC
    <2> QED
      BY <1>7, <2>1 DEF StopCore, EnabledInv, Starting, Released
  <1>8. CASE SetCpuJump
    <2>1. pc'[Boot] \in {"power_up", "enable_cpu"} /\ \A d \in AP : pc'[d] = pc[d]
      BY <1>8, BootGoto DEF SetCpuJump, BootPC
    <2> QED
      BY <1>8, <2>1 DEF SetCpuJump, EnabledInv, Starting, Released
  <1>9. CASE PowerUp
    BY <1>9, EnabledBoot DEF PowerUp, EnabledInv, Starting, BootPC
  <1>10. CASE PowerWait
    BY <1>10, EnabledBoot DEF PowerWait, EnabledInv, Starting, BootPC
  <1>11. CASE EnableCpu
    <2>1. /\ MaxNodes > 1 /\ MaxNodes <= HwCores /\ num = MaxNodes
          /\ i \in 1..num-1 /\ enabled = 1..i-1 /\ i \in jump
          /\ platform = "zynq7000" => i = 1
      BY <1>11 DEF EnableCpu, EnabledInv, Starting
    <2>2. enabled' = 1..i'-1 /\ i' = i + 1
      BY <1>11, <2>1 DEF EnableCpu
    <2>3. \/ pc'[Boot] = "set_cpu_jump" /\ platform # "zynq7000" /\ i' < num
          \/ pc'[Boot] = "set_lock" /\ i' = MaxNodes
      <3>1. CASE platform # "zynq7000" /\ i' < num
        BY <1>11, <3>1, BootGoto DEF EnableCpu, MoreCpus, BootPC
      <3>2. CASE ~(platform # "zynq7000" /\ i' < num)
        <4>1. pc'[Boot] = "set_lock"
          BY <1>11, <3>2, BootGoto DEF EnableCpu, MoreCpus, BootPC
        <4>2. i' = MaxNodes
          <5>1. platform = "zynq7000" => MaxNodes <= 2
            BY <2>1 DEF TypeOK
          <5> QED
            BY <2>1, <2>2, <3>2, <5>1
        <4> QED
          BY <4>1, <4>2
      <3> QED
        BY <3>1, <3>2
    <2>4. \A d \in AP : pc'[d] = pc[d]
      BY <1>11, BootGoto DEF EnableCpu, BootPC
    <2>5. enabled \subseteq enabled' /\ enabled' \subseteq jump' /\ num' = num /\ jump' = jump
      BY <1>11, <2>1 DEF EnableCpu, EnabledInv
    <2> QED
      BY <2>1, <2>2, <2>3, <2>4, <2>5 DEF EnabledInv, Starting, Released
  <1>12. CASE SetLock
    BY <1>12, EnabledBoot DEF SetLock, Released, BootPC
  <1>13. CASE EnableMmu
    BY <1>13, EnabledBoot DEF EnableMmu, Released, BootPC
  <1>14. CASE JumpToKernel
    BY <1>14, EnabledBoot DEF JumpToKernel, Released, BootPC
  <1>15. CASE GpcDone
    BY <1>15 DEF GpcDone, EnabledInv
  <1>16. CASE Halted \/ UNCHANGED vars
    BY <1>16 DEF Halted, vars, EnabledInv
  <1>17. ASSUME NEW c \in AP, ApNext(c) PROVE EnabledInv'
    <2>1. pc[c] # "reset" => c \in enabled
      BY DEF EnabledInv
    <2>2. CASE LeaveReset(c)
      <3>1. c \in jump
        BY <2>2 DEF LeaveReset, EnabledInv
      <3>2. \E l \in ApPC \ {"lost"} : Goto(c, l)
        BY <2>2, <3>1 DEF LeaveReset, ApPC
      <3> QED
        BY <2>2, <3>2, EnabledAp DEF LeaveReset
    <2>3. CASE WakeUp(c)
      BY <2>1, <2>3, EnabledAp DEF WakeUp, ApPC
    <2>4. CASE ApStep(c)
      <3>1. pc[c] # "reset" /\ UNCHANGED bootVars
        BY <2>4 DEF ApStep, ImxNonBoot, Ldrex, StrexOk, StrexFail, SetSp, ApDisableDcaches,
               Spin, ApLeaveHyp, ApEnableMmu, ApJump
      <3>2. \E l \in ApPC \ {"lost"} : Goto(c, l)
        BY <2>4 DEF ApStep, ImxNonBoot, Ldrex, StrexOk, StrexFail, SetSp, ApDisableDcaches,
               Spin, ApLeaveHyp, ApEnableMmu, ApJump, ApPC
      <3> QED
        BY <2>1, <3>1, <3>2, EnabledAp
    <2> QED
      BY <1>17, <2>2, <2>3, <2>4 DEF ApNext
  <1> QED
    BY <1>1, <1>2, <1>3, <1>4, <1>5, <1>6, <1>7, <1>8, <1>9, <1>10, <1>11, <1>12, <1>13,
       <1>14, <1>15, <1>16, <1>17 DEF Next, BootNext

(***************************************************************************)
(* The numbers the ldrex/strex loop hands out                              *)
(***************************************************************************)
(* The labels at which an AP has no number yet.                            *)
Unnumbered == {"reset", "lost", "imx_non_boot", "ldrex", "strex"}

(* The APs that have a number are finitely many.                           *)
LEMMA NumberedFinite == IsFiniteSet(Numbered) /\ Cardinality(Numbered) \in Nat
  <1>1. IsFiniteSet(0..HwCores-1)
    BY FS_Interval, ConfigAssumption
  <1>2. Numbered \subseteq 0..HwCores-1
    BY DEF Numbered, AP, Core
  <1> QED
    BY <1>1, <1>2, FS_Subset, FS_CardinalityType

(* At entry no AP has a number, and smp_aps_index is 1.                    *)
LEMMA NumberInit == Init => NumberInv
  <1> SUFFICES ASSUME Init PROVE NumberInv
    OBVIOUS
  <1>1. Numbered = {}
    BY BootIsCore DEF Init, Numbered, AP
  <1>2. Cardinality({}) = 0
    BY FS_EmptySet
  <1> QED
    BY <1>1, <1>2, BootIsCore DEF Init, NumberInv

(* It survives every step that keeps the numbers, the reservations and     *)
(* which APs have a number.                                                *)
LEMMA NumberFrame ==
  ASSUME NumberInv, UNCHANGED <<index, r1>>, Numbered' = Numbered,
         \A c \in AP : pc'[c] = "strex" /\ excl'[c] => pc[c] = "strex" /\ excl[c]
  PROVE  NumberInv'
  BY DEF NumberInv

(* A step of the boot core gives no number.                                *)
LEMMA NumberBoot ==
  ASSUME TypeOK, NumberInv, NEW l \in BootPC, Goto(Boot, l), UNCHANGED apVars
  PROVE  NumberInv' /\ Numbered' = Numbered
  <1>1. \A d \in AP : pc'[d] = pc[d]
    BY BootGoto
  <1>2. Numbered' = Numbered
    BY <1>1 DEF Numbered
  <1> QED
    BY <1>1, <1>2, NumberFrame DEF apVars

(* A step of the boot core is a jump of its own and leaves the numbers.    *)
LEMMA BootLabel == BootNext => /\ \E l \in BootPC : Goto(Boot, l)
                               /\ UNCHANGED apVars
  <1> USE DEF BootPC
  <1>1. Start \/ Load \/ LeaveHyp \/ InitVspace \/ DisableDcaches \/ StopCore
        => (\E l \in BootPC : Goto(Boot, l)) /\ UNCHANGED apVars
    BY DEF Start, Load, LeaveHyp, InitVspace, DisableDcaches, StopCore
  <1>2. InitCpus => (\E l \in BootPC : Goto(Boot, l)) /\ UNCHANGED apVars
    BY DEF InitCpus
  <1>3. SetCpuJump \/ PowerUp \/ PowerWait \/ EnableCpu
        => (\E l \in BootPC : Goto(Boot, l)) /\ UNCHANGED apVars
    BY DEF SetCpuJump, PowerUp, PowerWait, EnableCpu
  <1>4. SetLock \/ EnableMmu \/ JumpToKernel
        => (\E l \in BootPC : Goto(Boot, l)) /\ UNCHANGED apVars
    BY DEF SetLock, EnableMmu, JumpToKernel
  <1> QED
    BY <1>1, <1>2, <1>3, <1>4 DEF BootNext

(* A successful strex: the reservation guards smp_aps_index, so the next   *)
(* number is the one after the last, and new.                              *)
LEMMA NumberStrexOk ==
  ASSUME TypeOK, NumberInv, NEW c \in AP, StrexOk(c)
  PROVE  NumberInv' /\ Numbered' = Numbered \union {c}
  <1>1. r1[c] = index + 1 /\ index' = index + 1 /\ r1' = r1 /\ index \in Nat /\ index >= 1
    BY DEF StrexOk, NumberInv, TypeOK
  <1>2. c \notin Numbered
    BY DEF StrexOk, Numbered
  <1>3. Numbered' = Numbered \union {c}
    BY ApGoto, "set_sp" \in ApPC DEF StrexOk, Numbered, ApPC
  <1>4. {r1'[d] : d \in Numbered'} = 2..index'
    <2>1. {r1'[d] : d \in Numbered'} = {r1[d] : d \in Numbered} \union {r1[c]}
      BY <1>1, <1>3
    <2>2. {r1[d] : d \in Numbered} = 2..index
      BY DEF NumberInv
    <2> QED
      BY <1>1, <2>1, <2>2
  <1>5. Cardinality(Numbered') = index' - 1
    <2>1. Cardinality(Numbered \union {c}) = Cardinality(Numbered) + 1
      BY <1>2, NumberedFinite, FS_AddElement
    <2>2. Cardinality(Numbered) = index - 1
      BY DEF NumberInv
    <2>3. Cardinality(Numbered \union {c}) = index' - 1
      BY <1>1, <2>1, <2>2
    <2> QED
      BY <1>3, <2>3
  <1>6. \A d, e \in Numbered' : r1'[d] = r1'[e] => d = e
    <2>1. \A d \in Numbered : r1[d] \in 2..index
      BY DEF NumberInv
    <2>2. \A d \in Numbered : r1[d] # index + 1
      BY <1>1, <2>1
    <2> QED
      BY <1>1, <1>3, <2>2 DEF NumberInv
  <1>7. \A d \in AP : ~excl'[d]
    BY BootIsCore DEF StrexOk
  <1> QED
    BY <1>1, <1>3, <1>4, <1>5, <1>6, <1>7 DEF NumberInv

(* Every other step of an AP: it keeps its number, or the lack of one.     *)
LEMMA NumberAp ==
  ASSUME TypeOK, NumberInv, NEW c \in AP, NEW l \in ApPC, Goto(c, l),
         pc[c] \in Unnumbered <=> l \in Unnumbered,
         UNCHANGED index,
         \/ UNCHANGED <<r1, excl>> /\ l # "strex"
         \/ r1' = [r1 EXCEPT ![c] = index + 1] /\ pc[c] = "ldrex"
            /\ excl' = [excl EXCEPT ![c] = TRUE]
         \/ UNCHANGED r1 /\ excl' = [excl EXCEPT ![c] = FALSE] /\ l = "ldrex"
  PROVE  NumberInv' /\ Numbered' = Numbered
  <1>1. \A d \in AP \ {c} : pc'[d] = pc[d]
    BY ApGoto
  <1>2. pc'[c] = l
    BY ApGoto
  <1>3. Numbered' = Numbered
    BY <1>1, <1>2 DEF Numbered, Unnumbered
  <1>4. CASE UNCHANGED <<r1, excl>> /\ l # "strex"
    BY <1>1, <1>2, <1>3, <1>4, NumberFrame
  <1>5. CASE /\ r1' = [r1 EXCEPT ![c] = index + 1] /\ pc[c] = "ldrex"
             /\ excl' = [excl EXCEPT ![c] = TRUE]
    <2>1. c \notin Numbered /\ \A d \in AP \ {c} : r1'[d] = r1[d] /\ excl'[d] = excl[d]
      BY <1>5, BootIsCore DEF Numbered, TypeOK
    <2>2. r1'[c] = index' + 1
      BY <1>5, BootIsCore DEF TypeOK
    <2>3. \A d \in Numbered : r1'[d] = r1[d]
      BY <2>1 DEF Numbered
    <2>4. {r1'[d] : d \in Numbered'} = {r1[d] : d \in Numbered}
      BY <1>3, <2>3
    <2>5. \A d \in AP : pc'[d] = "strex" /\ excl'[d] => r1'[d] = index' + 1
      BY <1>1, <2>1, <2>2 DEF NumberInv
    <2> QED
      BY <1>3, <2>3, <2>4, <2>5 DEF NumberInv
  <1>6. CASE UNCHANGED r1 /\ excl' = [excl EXCEPT ![c] = FALSE] /\ l = "ldrex"
    <2>1. \A d \in AP \ {c} : excl'[d] = excl[d]
      BY <1>6, BootIsCore DEF TypeOK
    <2> QED
      BY <1>1, <1>2, <1>3, <1>6, <2>1, NumberFrame
  <1> QED
    BY <1>3, <1>4, <1>5, <1>6

(* A step of an AP keeps the numbers dense and unique.                     *)
LEMMA NumberApNext ==
  ASSUME TypeOK, NumberInv, NEW c \in AP, ApNext(c), ~StrexOk(c)
  PROVE  NumberInv' /\ Numbered' = Numbered
  <1> USE DEF Unnumbered, apVars
  <1>1. CASE LeaveReset(c)
    <2>1. \E l \in ApPC : l \in {"lost", "ldrex", "imx_non_boot"} /\ Goto(c, l)
      BY <1>1 DEF LeaveReset, ApPC
    <2> QED
      BY <1>1, <2>1, NumberAp DEF LeaveReset
  <1>2. CASE ImxNonBoot(c)
    BY <1>2, NumberAp DEF ImxNonBoot, ApPC
  <1>3. CASE Ldrex(c)
    BY <1>3, NumberAp DEF Ldrex, ApPC
  <1>4. CASE StrexFail(c)
    BY <1>4, NumberAp DEF StrexFail, ApPC
  <1>5. CASE SetSp(c)
    BY <1>5, NumberAp DEF SetSp, ApPC
  <1>6. CASE ApDisableDcaches(c)
    BY <1>6, NumberAp DEF ApDisableDcaches, ApPC
  <1>7. CASE Spin(c)
    <2>1. \E l \in ApPC : l \in {"wfi", "ap_leave_hyp"} /\ Goto(c, l)
      BY <1>7 DEF Spin, ApPC
    <2> QED
      BY <1>7, <2>1, NumberAp DEF Spin
  <1>8. CASE WakeUp(c)
    BY <1>8, NumberAp DEF WakeUp, ApPC
  <1>9. CASE ApLeaveHyp(c)
    BY <1>9, NumberAp DEF ApLeaveHyp, ApPC
  <1>10. CASE ApEnableMmu(c)
    BY <1>10, NumberAp DEF ApEnableMmu, ApPC
  <1>11. CASE ApJump(c)
    BY <1>11, NumberAp DEF ApJump, ApPC
  <1> QED
    BY <1>1, <1>2, <1>3, <1>4, <1>5, <1>6, <1>7, <1>8, <1>9, <1>10, <1>11 DEF ApNext, ApStep

(* Every step keeps the numbers dense and unique.                          *)
LEMMA NumberNext == TypeOK /\ NumberInv /\ [Next]_vars => NumberInv'
  <1> SUFFICES ASSUME TypeOK, NumberInv, [Next]_vars PROVE NumberInv'
    OBVIOUS
  <1>1. CASE BootNext
    BY <1>1, BootLabel, NumberBoot
  <1>2. CASE GpcDone \/ Halted \/ UNCHANGED vars
    <2>1. UNCHANGED <<pc, index, r1, excl>>
      BY <1>2 DEF GpcDone, Halted, vars, apVars
    <2> QED
      BY <2>1 DEF NumberInv, Numbered
  <1>3. ASSUME NEW c \in AP, ApNext(c) PROVE NumberInv'
    BY <1>3, NumberStrexOk, NumberApNext
  <1> QED
    BY <1>1, <1>2, <1>3 DEF Next

(* No number is larger than the configuration allows.                      *)
LEMMA IndexBound == TypeOK /\ EnabledInv /\ NumberInv => index <= MaxNodes
  <1> SUFFICES ASSUME TypeOK, EnabledInv, NumberInv PROVE index <= MaxNodes
    OBVIOUS
  <1>1. Numbered \subseteq enabled
    BY DEF Numbered, EnabledInv
  <1>2. enabled \subseteq 1..MaxNodes-1
    BY ConfigAssumption DEF EnabledInv, Starting, Released, TypeOK
  <1>3. IsFiniteSet(1..MaxNodes-1) /\ Cardinality(1..MaxNodes-1) = MaxNodes-1
    <2>1. CASE 1 > MaxNodes-1
      BY <2>1, ConfigAssumption, FS_Interval
    <2>2. CASE 1 <= MaxNodes-1
      BY <2>2, ConfigAssumption, FS_Interval
    <2> QED
      BY <2>1, <2>2, ConfigAssumption
  <1>4. Cardinality(Numbered) <= MaxNodes-1
    BY <1>1, <1>2, <1>3, FS_Subset
  <1> QED
    BY <1>4, ConfigAssumption DEF NumberInv, TypeOK

(***************************************************************************)
(* Stacks                                                                  *)
(***************************************************************************)
(* At entry no core has a stack.                                           *)
LEMMA StackInit == Init => StackInv
  BY BootIsCore DEF Init, StackInv, NoStack

(* Every step keeps each stack pointer at the page of the core's number.   *)
LEMMA StackNext == TypeOK /\ NumberInv /\ StackInv /\ [Next]_vars => StackInv'
  <1> SUFFICES ASSUME TypeOK, NumberInv, StackInv, [Next]_vars PROVE StackInv'
    OBVIOUS
  <1>1. CASE BootNext
    <2>1. Numbered' = Numbered /\ UNCHANGED r1
      BY <1>1, BootLabel, NumberBoot DEF apVars
    <2>2. \/ UNCHANGED sp
          \/ sp' = [sp EXCEPT ![Boot] = PageSize - 16]
      BY <1>1 DEF BootNext, Start, Load, LeaveHyp, InitVspace, DisableDcaches, InitCpus, StopCore,
             SetCpuJump, PowerUp, PowerWait, EnableCpu, SetLock, EnableMmu, JumpToKernel
    <2>3. /\ sp'[Boot] \in {NoStack, PageSize - 16}
          /\ \A c \in AP : sp'[c] = sp[c]
      BY <2>2, BootIsCore DEF StackInv, TypeOK
    <2> QED
      BY <2>1, <2>3 DEF StackInv
  <1>2. CASE GpcDone \/ Halted \/ UNCHANGED vars
    <2>1. UNCHANGED <<pc, r1, sp>>
      BY <1>2 DEF GpcDone, Halted, vars, apVars
    <2> QED
      BY <2>1 DEF StackInv, Numbered
  <1>3. ASSUME NEW c \in AP, ApNext(c) PROVE StackInv'
    <2>1. CASE SetSp(c)
      <3>1. Numbered' = Numbered
        BY <1>3, <2>1, NumberApNext DEF SetSp, StrexOk
      <3>2. c \in Numbered /\ UNCHANGED r1
        BY <2>1 DEF SetSp, Numbered, apVars
      <3>3. /\ sp'[Boot] = sp[Boot] /\ sp'[c] = r1[c] * PageSize - 16
            /\ \A d \in AP \ {c} : sp'[d] = sp[d]
        BY <2>1, BootIsCore DEF SetSp, TypeOK
      <3> QED
        BY <3>1, <3>2, <3>3 DEF StackInv
    <2>2. CASE ~SetSp(c)
      <3>1. UNCHANGED sp
        BY <1>3, <2>2 DEF ApNext, ApStep, LeaveReset, ImxNonBoot, Ldrex, StrexOk, StrexFail,
               ApDisableDcaches, Spin, WakeUp, ApLeaveHyp, ApEnableMmu, ApJump
      <3>2. Numbered \subseteq Numbered'
        BY <1>3, NumberApNext, NumberStrexOk
      <3>3. \A d \in Numbered : r1'[d] = r1[d]
        <4>1. CASE Ldrex(c)
          BY <4>1, BootIsCore DEF Ldrex, Numbered, TypeOK
        <4>2. CASE ~Ldrex(c)
          BY <1>3, <4>2 DEF ApNext, ApStep, LeaveReset, ImxNonBoot, StrexOk, StrexFail, SetSp,
                 ApDisableDcaches, Spin, WakeUp, ApLeaveHyp, ApEnableMmu, ApJump, apVars
        <4> QED
          BY <4>1, <4>2
      <3> QED
        BY <3>1, <3>2, <3>3 DEF StackInv
    <2> QED
      BY <2>1, <2>2
  <1> QED
    BY <1>1, <1>2, <1>3 DEF Next

(* Unique numbers up to the configured count are disjoint stacks in bounds.*)
LEMMA StacksApart == TypeOK /\ EnabledInv /\ NumberInv /\ StackInv => OwnStack
  <1> SUFFICES ASSUME TypeOK, EnabledInv, NumberInv, StackInv PROVE OwnStack
    OBVIOUS
  <1>1. index <= MaxNodes /\ index \in Nat
    BY IndexBound DEF TypeOK
  <1>2. \A c \in Numbered : r1[c] \in 2..index
    BY DEF NumberInv
  <1>3. \A c \in AP : sp[c] # NoStack => /\ c \in Numbered
                                       /\ sp[c] = r1[c] * PageSize - 16
    BY DEF StackInv
  <1>4. ASSUME NEW c \in Core, sp[c] # NoStack
        PROVE  sp[c] >= 0 /\ sp[c] < MaxNodes * PageSize
    <2>1. CASE c = Boot
      BY <1>4, <2>1, ConfigAssumption DEF StackInv, PageSize
    <2>2. CASE c \in AP
      <3>1. r1[c] \in 2..MaxNodes /\ sp[c] = r1[c] * PageSize - 16
        BY <1>1, <1>2, <1>3, <1>4, <2>2, ConfigAssumption
      <3> QED
        BY <3>1, ConfigAssumption DEF PageSize
    <2> QED
      BY <2>1, <2>2 DEF AP
  <1>5. ASSUME NEW c \in Core, NEW d \in Core \ {c}, sp[c] # NoStack, sp[d] # NoStack
        PROVE  sp[c] - sp[d] >= PageSize \/ sp[d] - sp[c] >= PageSize
    <2>1. CASE c = Boot
      <3>1. sp[c] = PageSize - 16 /\ sp[d] = r1[d] * PageSize - 16 /\ r1[d] \in 2..index
        BY <1>2, <1>3, <1>5, <2>1 DEF StackInv, AP
      <3> QED
        BY <3>1, <1>1 DEF PageSize
    <2>2. CASE d = Boot
      <3>1. sp[d] = PageSize - 16 /\ sp[c] = r1[c] * PageSize - 16 /\ r1[c] \in 2..index
        BY <1>2, <1>3, <1>5, <2>2 DEF StackInv, AP
      <3> QED
        BY <3>1, <1>1 DEF PageSize
    <2>3. CASE c # Boot /\ d # Boot
      <3>1. /\ sp[c] = r1[c] * PageSize - 16 /\ r1[c] \in 2..index
            /\ sp[d] = r1[d] * PageSize - 16 /\ r1[d] \in 2..index
        BY <1>2, <1>3, <1>5, <2>3 DEF AP
      <3>2. r1[c] # r1[d]
        BY <1>3, <1>5, <2>3 DEF NumberInv, AP
      <3>3. r1[c] >= r1[d] + 1 \/ r1[d] >= r1[c] + 1
        BY <1>1, <3>1, <3>2
      <3> QED
        BY <3>1, <3>3, <1>1 DEF PageSize
    <2> QED
      BY <2>1, <2>2, <2>3
  <1> QED
    BY <1>4, <1>5 DEF OwnStack

(***************************************************************************)
(* The lock, where .bss is zeroed                                          *)
(***************************************************************************)
(* The labels behind the spin loop.                                         *)
PastSpin == {"ap_leave_hyp", "ap_enable_mmu", "ap_jump", "kernel"}

(* With .bss zeroed the lock word is not set at entry.                     *)
LEMMA LockInit == LockImage \subseteq {FALSE} /\ Init => LockInv
  BY BootIsCore DEF Init, LockInv, AP

(* A step of the boot core sets the lock word only when it is done.        *)
LEMMA LockBoot ==
  ASSUME TypeOK, LockInv, NEW l \in BootPC, Goto(Boot, l),
         pc[Boot] \in Released => l \in Released,
         \/ mem' \union dirty' \subseteq mem \union dirty
         \/ l \in Released
         \/ "non_boot_lock" \notin (mem' \union dirty') \ (mem \union dirty)
  PROVE  LockInv'
  <1>1. pc'[Boot] = l /\ \A d \in AP : pc'[d] = pc[d]
    BY BootGoto
  <1>2. "non_boot_lock" \in mem' \union dirty' => l \in Released
    BY DEF LockInv
  <1> QED
    BY <1>1, <1>2 DEF LockInv

(* Every step keeps the lock word behind the boot core.                    *)
LEMMA LockNext == TypeOK /\ LockInv /\ [Next]_vars => LockInv'
  <1> SUFFICES ASSUME TypeOK, LockInv, [Next]_vars PROVE LockInv'
    OBVIOUS
  <1> USE DEF Released
  <1>1. CASE Start
    BY <1>1, LockBoot DEF Start, BootPC, bootVars
  <1>2. CASE Load
    BY <1>2, LockBoot DEF Load, Write, Image, BootPC
  <1>3. CASE LeaveHyp
    BY <1>3, LockBoot DEF LeaveHyp, BootPC, bootVars
  <1>4. CASE InitVspace
    <2>1. PICK l \in BootPC : Goto(Boot, l)
      BY <1>4 DEF InitVspace, BootPC
    <2>2. "non_boot_lock" \notin (mem' \union dirty') \ (mem \union dirty)
      BY <1>4 DEF InitVspace, Write
    <2>3. pc[Boot] \notin Released
      BY <1>4 DEF InitVspace
    <2> QED
      BY <2>1, <2>2, <2>3, LockBoot
  <1>5. CASE DisableDcaches
    BY <1>5, LockBoot DEF DisableDcaches, FlushDcache, InvalidateDcache, BootPC
  <1>6. CASE InitCpus
    <2>1. PICK l \in BootPC : Goto(Boot, l)
      BY <1>6 DEF InitCpus, BootPC
    <2>2. mem' \union dirty' \subseteq mem \union dirty
      BY <1>6 DEF InitCpus, ScuEnable, FlushDcache
    <2>3. pc[Boot] \notin Released
      BY <1>6 DEF InitCpus
    <2> QED
      BY <2>1, <2>2, <2>3, LockBoot
  <1>7. CASE StopCore
    BY <1>7, LockBoot DEF StopCore, BootPC
  <1>8. CASE SetCpuJump
    BY <1>8, LockBoot DEF SetCpuJump, BootPC
  <1>9. CASE PowerUp
    BY <1>9, LockBoot DEF PowerUp, BootPC
  <1>10. CASE PowerWait
    BY <1>10, LockBoot DEF PowerWait, BootPC, bootVars
  <1>11. CASE EnableCpu
    BY <1>11, LockBoot DEF EnableCpu, BootPC
  <1>12. CASE SetLock
    BY <1>12, LockBoot DEF SetLock, BootPC
  <1>13. CASE EnableMmu
    BY <1>13, LockBoot DEF EnableMmu, BootPC
  <1>14. CASE JumpToKernel
    BY <1>14, LockBoot DEF JumpToKernel, BootPC
  <1>15. CASE GpcDone \/ Halted \/ UNCHANGED vars
    BY <1>15 DEF GpcDone, Halted, vars, bootVars, LockInv
  <1>16. ASSUME NEW c \in AP, ApNext(c) PROVE LockInv'
    <2>1. UNCHANGED <<mem, dirty>>
      BY <1>16 DEF ApNext, ApStep, LeaveReset, ImxNonBoot, Ldrex, StrexOk, StrexFail, SetSp,
             ApDisableDcaches, Spin, WakeUp, ApLeaveHyp, ApEnableMmu, ApJump, bootVars
    <2>2. PICK l \in ApPC : Goto(c, l) /\ (l \in PastSpin =>
             pc[c] \in PastSpin \/ "non_boot_lock" \in mem)
      <3> USE DEF ApPC, PastSpin
      <3>1. CASE LeaveReset(c)
        BY <3>1 DEF LeaveReset
      <3>2. CASE ImxNonBoot(c) \/ Ldrex(c) \/ StrexOk(c) \/ StrexFail(c)
        BY <3>2 DEF ImxNonBoot, Ldrex, StrexOk, StrexFail
      <3>3. CASE SetSp(c) \/ ApDisableDcaches(c) \/ WakeUp(c)
        BY <3>3 DEF SetSp, ApDisableDcaches, WakeUp
      <3>4. CASE Spin(c)
        BY <3>4 DEF Spin
      <3>5. CASE ApLeaveHyp(c) \/ ApEnableMmu(c) \/ ApJump(c)
        BY <3>5 DEF ApLeaveHyp, ApEnableMmu, ApJump
      <3> QED
        BY <1>16, <3>1, <3>2, <3>3, <3>4, <3>5 DEF ApNext, ApStep
    <2>3. pc'[Boot] = pc[Boot] /\ pc'[c] = l /\ \A d \in AP \ {c} : pc'[d] = pc[d]
      BY <2>2, ApGoto
    <2> QED
      BY <2>1, <2>2, <2>3 DEF LockInv, PastSpin
  <1> QED
    BY <1>1, <1>2, <1>3, <1>4, <1>5, <1>6, <1>7, <1>8, <1>9, <1>10, <1>11, <1>12, <1>13,
       <1>14, <1>15, <1>16 DEF Next, BootNext

(***************************************************************************)
(* The boot core's D-cache, off in HYP mode at entry                       *)
(***************************************************************************)
(* At entry no D-cache in use holds dirty data.                            *)
LEMMA CacheInit == NoCachedHyp /\ Init => CacheInv
  <1> SUFFICES ASSUME NoCachedHyp, Init PROVE CacheInv
    OBVIOUS
  <1>1. PICK e \in Entries : hyp = e.hyp /\ hsctlrC = [c \in Core |-> c = Boot /\ e.hsctlr]
    BY DEF Init
  <1>2. hyp[Boot] => ~hsctlrC[Boot]
    BY <1>1, BootIsCore DEF NoCachedHyp
  <1>3. pc[Boot] = "_start" /\ dirty = {}
    BY BootIsCore DEF Init
  <1> QED
    BY <1>2, <1>3 DEF CacheInv, Starting

(* Every step keeps dirty data in an enabled D-cache outside HYP mode.     *)
LEMMA CacheNext == TypeOK /\ EnabledInv /\ CacheInv /\ [Next]_vars => CacheInv'
  <1> SUFFICES ASSUME TypeOK, EnabledInv, CacheInv, [Next]_vars PROVE CacheInv'
    OBVIOUS
  <1> USE BootIsCore DEF Starting
  <1>1. CASE Start
    BY <1>1, BootGoto DEF Start, BootPC, bootVars, modeVars, CacheInv
  <1>2. CASE Load
    <2>1. pc'[Boot] \in {"leave_hyp", "abort"} /\ UNCHANGED modeVars
      BY <1>2, BootGoto DEF Load, BootPC
    <2>2. pc'[Boot] = "leave_hyp" => Image \subseteq mem' \union dirty'
      BY <1>2, BootGoto DEF Load, BootPC, Write
    <2>3. dirty' # {} => sctlrC[Boot] /\ ~hyp[Boot]
      BY <1>2 DEF Load, Write, Cached, CacheInv
    <2> QED
      BY <1>2, <2>1, <2>2, <2>3 DEF Load, modeVars, CacheInv
  <1>3. CASE LeaveHyp
    <2>1. pc'[Boot] = "init_vspace" /\ (hyp'[Boot] => hyp[Boot])
      BY <1>3, BootGoto DEF LeaveHyp, BootPC, TypeOK
    <2> QED
      BY <1>3, <2>1 DEF LeaveHyp, bootVars, CacheInv
  <1>4. CASE InitVspace
    <2>1. pc'[Boot] \in {"smp_boot", "enable_mmu"} /\ (pc'[Boot] = "enable_mmu" => ~(MaxNodes > 1))
      BY <1>4, BootGoto DEF InitVspace, BootPC
    <2>2. Image \subseteq mem' \union dirty' /\ (dirty' # {} => sctlrC[Boot] /\ ~hyp[Boot])
      BY <1>4 DEF InitVspace, Write, Cached, CacheInv
    <2> QED
      BY <1>4, <2>1, <2>2 DEF InitVspace, modeVars, CacheInv
  <1>5. CASE DisableDcaches
    <2>1. pc'[Boot] = "init_cpus" /\ ~sctlrC'[Boot]
      BY <1>5, BootGoto DEF DisableDcaches, BootPC, TypeOK
    <2>2. dirty' = {} /\ Image \subseteq mem'
      BY <1>5 DEF DisableDcaches, FlushDcache, InvalidateDcache, CacheInv
    <2> QED
      BY <1>5, <2>1, <2>2 DEF DisableDcaches, CacheInv
  <1>6. CASE InitCpus
    <2>1. pc'[Boot] \in {"abort", "stop_core", "set_cpu_jump"}
      BY <1>6, BootGoto DEF InitCpus, BootPC
    <2>2. dirty' = {} /\ mem' = mem /\ UNCHANGED modeVars
      BY <1>6 DEF InitCpus, ScuEnable, FlushDcache, CacheInv
    <2>3. MaxNodes > 1
      BY <1>6 DEF InitCpus, EnabledInv
    <2> QED
      BY <1>6, <2>1, <2>2, <2>3 DEF InitCpus, modeVars, CacheInv
  <1>7. CASE StopCore
    BY <1>7, BootGoto DEF StopCore, BootPC, modeVars, CacheInv, EnabledInv
  <1>8. CASE SetCpuJump \/ PowerUp \/ PowerWait \/ EnableCpu
    <2>1. pc'[Boot] \in {"set_cpu_jump", "power_up", "power_wait", "enable_cpu", "set_lock"}
      BY <1>8, BootGoto DEF SetCpuJump, PowerUp, PowerWait, EnableCpu, BootPC
    <2>2. UNCHANGED <<mem, dirty, modeVars>> /\ pc[Boot] \in Starting
      BY <1>8 DEF SetCpuJump, PowerUp, PowerWait, EnableCpu, bootVars
    <2>3. MaxNodes > 1
      BY <2>2 DEF EnabledInv
    <2> QED
      BY <2>1, <2>2, <2>3 DEF modeVars, CacheInv
  <1>9. CASE SetLock
    <2>1. pc'[Boot] = "enable_mmu" /\ pc[Boot] = "set_lock"
      BY <1>9, BootGoto DEF SetLock, BootPC
    <2>2. MaxNodes > 1 => ~Cached(Boot)
      BY <2>1 DEF CacheInv, Cached
    <2>3. dirty = {} /\ Image \subseteq mem
      BY <2>1 DEF CacheInv
    <2>4. MaxNodes > 1 => dirty' = {}
      BY <1>9, <2>2, <2>3 DEF SetLock, Write
    <2>5. Image \subseteq mem' \union dirty' /\ (dirty' # {} => Cached(Boot))
      BY <1>9, <2>3 DEF SetLock, Write
    <2> QED
      BY <1>9, <2>1, <2>4, <2>5 DEF SetLock, modeVars, CacheInv, Cached
  <1>10. CASE EnableMmu
    <2>1. pc'[Boot] = "jump"
      BY <1>10, BootGoto DEF EnableMmu, BootPC
    <2>2. dirty' = {} /\ Image \subseteq mem'
      BY <1>10 DEF EnableMmu, FlushDcache, InvalidateDcache, CacheInv, Cached
    <2> QED
      BY <2>1, <2>2 DEF CacheInv
  <1>11. CASE JumpToKernel
    BY <1>11, BootGoto DEF JumpToKernel, BootPC, bootVars, modeVars, CacheInv
  <1>12. CASE GpcDone \/ Halted \/ UNCHANGED vars
    BY <1>12 DEF GpcDone, Halted, vars, bootVars, modeVars, CacheInv
  <1>13. ASSUME NEW c \in AP, ApNext(c) PROVE CacheInv'
    <2>1. UNCHANGED <<mem, dirty>>
      BY <1>13 DEF ApNext, ApStep, LeaveReset, ImxNonBoot, Ldrex, StrexOk, StrexFail, SetSp,
             ApDisableDcaches, Spin, WakeUp, ApLeaveHyp, ApEnableMmu, ApJump, bootVars
    <2>2. pc'[Boot] = pc[Boot]
      BY <1>13 DEF TypeOK, Goto, ApNext, ApStep, LeaveReset, ImxNonBoot, Ldrex, StrexOk, StrexFail,
             SetSp, ApDisableDcaches, Spin, WakeUp, ApLeaveHyp, ApEnableMmu, ApJump
    <2>3. hyp'[Boot] = hyp[Boot] /\ sctlrC'[Boot] = sctlrC[Boot] /\ hsctlrC'[Boot] = hsctlrC[Boot]
      <3>1. CASE UNCHANGED modeVars
        BY <3>1 DEF modeVars
      <3>2. CASE ApDisableDcaches(c) \/ ApLeaveHyp(c) \/ ApEnableMmu(c)
        BY <3>2 DEF ApDisableDcaches, ApLeaveHyp, ApEnableMmu, TypeOK
      <3> QED
        BY <1>13, <3>1, <3>2 DEF ApNext, ApStep, LeaveReset, ImxNonBoot, Ldrex, StrexOk, StrexFail,
               SetSp, Spin, WakeUp, ApJump
    <2> QED
      BY <2>1, <2>2, <2>3 DEF CacheInv
  <1> QED
    BY <1>1, <1>2, <1>3, <1>4, <1>5, <1>6, <1>7, <1>8, <1>9, <1>10, <1>11, <1>12, <1>13
       DEF Next, BootNext

(***************************************************************************)
(* The theorems                                                            *)
(***************************************************************************)

(* Type correctness, with the reset state of the cores it depends on.      *)
THEOREM TypeCorrect == Spec => []TypeOK
  <1>1. Init => TypeOK /\ EnabledInv
    BY TypeInit, EnabledInit
  <1>2. (TypeOK /\ EnabledInv) /\ [Next]_vars => (TypeOK /\ EnabledInv)'
    BY TypeNext, EnabledNext
  <1> QED
    BY <1>1, <1>2, PTL DEF Spec

(* No core leaves reset for an address that was not set (smp.c writes the  *)
(* jump register of a core before it enables that core).                   *)
THEOREM NoCoreLost == Spec => []NoLostCore
  <1>1. Init => TypeOK /\ EnabledInv
    BY TypeInit, EnabledInit
  <1>2. (TypeOK /\ EnabledInv) /\ [Next]_vars => (TypeOK /\ EnabledInv)'
    BY TypeNext, EnabledNext
  <1>3. TypeOK /\ EnabledInv => NoLostCore
    BY DEF EnabledInv, NoLostCore
  <1> QED
    BY <1>1, <1>2, <1>3, PTL DEF Spec

(* The numbers of the APs are 2..smp_aps_index, each given once, however   *)
(* their ldrex/strex loops (crt0.S) interleave.                            *)
THEOREM Dense == Spec => []DenseNumbers
  <1>1. Init => TypeOK /\ EnabledInv /\ NumberInv
    BY TypeInit, EnabledInit, NumberInit
  <1>2. (TypeOK /\ EnabledInv /\ NumberInv) /\ [Next]_vars => (TypeOK /\ EnabledInv /\ NumberInv)'
    BY TypeNext, EnabledNext, NumberNext
  <1>3. TypeOK /\ EnabledInv /\ NumberInv => DenseNumbers
    BY DEF NumberInv, DenseNumbers
  <1> QED
    BY <1>1, <1>2, <1>3, PTL DEF Spec

(* Every core has a page of core_stack_alloc to itself, inside the array.  *)
THEOREM StackOwnership == Spec => []OwnStack
  <1> DEFINE Inv == TypeOK /\ EnabledInv /\ NumberInv /\ StackInv
  <1>1. Init => Inv
    BY TypeInit, EnabledInit, NumberInit, StackInit
  <1>2. Inv /\ [Next]_vars => Inv'
    BY TypeNext, EnabledNext, NumberNext, StackNext
  <1>3. Inv => OwnStack
    BY StacksApart
  <1> QED
    BY <1>1, <1>2, <1>3, PTL DEF Spec

(* No AP passes the spin loop of non_boot_main() before the boot core has  *)
(* started every core and released them, if .bss is zeroed at entry.       *)
THEOREM Gating == ASSUME LockImage \subseteq {FALSE} PROVE Spec => []HeldAtGate
  <1> DEFINE Inv == TypeOK /\ EnabledInv /\ LockInv
  <1>1. Init => Inv
    BY TypeInit, EnabledInit, LockInit
  <1>2. Inv /\ [Next]_vars => Inv'
    BY TypeNext, EnabledNext, LockNext
  <1>3. Inv => HeldAtGate
    BY DEF EnabledInv, LockInv, Released, HeldAtGate
  <1> QED
    BY <1>1, <1>2, <1>3, PTL DEF Spec

(* When the first AP leaves reset, both images and their info structures   *)
(* are in memory: nothing of them is left in, or lost from, the D-cache.   *)
THEOREM DataFirst == ASSUME NoCachedHyp PROVE Spec => []DataBeforeAps
  <1> DEFINE Inv == TypeOK /\ EnabledInv /\ CacheInv
  <1>1. Init => Inv
    BY TypeInit, EnabledInit, CacheInit
  <1>2. Inv /\ [Next]_vars => Inv'
    BY TypeNext, EnabledNext, CacheNext
  <1>3. Inv => DataBeforeAps
    <2> SUFFICES ASSUME Inv, enabled # {} PROVE Image \subseteq mem
      BY DEF DataBeforeAps
    <2>1. pc[Boot] \in {"set_lock"} \union Released \union Starting
      BY DEF EnabledInv
    <2>2. CASE pc[Boot] = "enable_mmu" /\ ~(MaxNodes > 1)
      <3>1. 1..MaxNodes-1 = {}
        BY <2>2, ConfigAssumption
      <3> QED
        BY <2>2, <3>1 DEF EnabledInv
    <2>3. CASE ~(pc[Boot] = "enable_mmu" /\ ~(MaxNodes > 1))
      BY <2>1, <2>3 DEF CacheInv, Released, Starting
    <2> QED
      BY <2>2, <2>3
  <1> QED
    BY <1>1, <1>2, <1>3, PTL DEF Spec

(* No invalidation drops data: whenever the boot core empties its D-cache, *)
(* what was dirty in it is in memory.                                      *)
THEOREM NothingDropped == ASSUME NoCachedHyp PROVE Spec => CleanedBeforeInvalidate
  <1> DEFINE Inv == TypeOK /\ EnabledInv /\ CacheInv
  <1>1. Init => Inv
    BY TypeInit, EnabledInit, CacheInit
  <1>2. Inv /\ [Next]_vars => Inv'
    BY TypeNext, EnabledNext, CacheNext
  <1>3. Inv /\ [Next]_vars => [dirty' = {} => dirty \subseteq mem']_vars
    <2> SUFFICES ASSUME Inv, Next, dirty' = {} PROVE dirty \subseteq mem'
      OBVIOUS
    <2>1. CASE DisableDcaches
      BY <2>1 DEF DisableDcaches, FlushDcache, InvalidateDcache, CacheInv
    <2>2. CASE EnableMmu
      BY <2>2 DEF EnableMmu, FlushDcache, InvalidateDcache, CacheInv, Cached
    <2>3. CASE InitCpus
      BY <2>3 DEF InitCpus, ScuEnable, FlushDcache
    <2>4. CASE ~DisableDcaches /\ ~EnableMmu /\ ~InitCpus
      <3>1. dirty \subseteq dirty'
        BY <2>4 DEF Next, BootNext, Start, Load, LeaveHyp, InitVspace, StopCore, SetCpuJump, PowerUp,
               PowerWait, EnableCpu, SetLock, JumpToKernel, GpcDone, Halted, ApNext, ApStep,
               LeaveReset, ImxNonBoot, Ldrex, StrexOk, StrexFail, SetSp, ApDisableDcaches, Spin,
               WakeUp, ApLeaveHyp, ApEnableMmu, ApJump, Write, bootVars, vars
      <3> QED
        BY <3>1
    <2> QED
      BY <2>1, <2>2, <2>3, <2>4
  <1> QED
    BY <1>1, <1>2, <1>3, PTL DEF Spec, CleanedBeforeInvalidate

(***************************************************************************)
(* The page tables of the 32-bit start, and that it implements the gate of *)
(* StartGate, for every number of cores and nodes and every platform.      *)
(***************************************************************************)
(* A hypervisor kernel relies on all cores being handed over in one mode.  *)
SameModes == HypKernel => \A e \in Entries : \A c \in Core : e.hyp[c] = e.hyp[Boot]

(***************************************************************************)
(* What is written stays written                                           *)
(***************************************************************************)
(* The steps that change the mode of the boot core or its data.            *)
Writers == LeaveHyp \/ Load \/ InitVspace \/ DisableDcaches \/ InitCpus \/ SetLock \/ EnableMmu

(* Every other step leaves them alone.                                     *)
LEMMA OnlyWriters ==
  ASSUME TypeOK, [Next]_vars, ~Writers
  PROVE  UNCHANGED <<mem, dirty>> /\ hyp'[Boot] = hyp[Boot]
<1> USE BootIsCore DEF bootVars, modeVars
<1>1. CASE Start \/ StopCore \/ SetCpuJump \/ PowerUp \/ PowerWait \/ EnableCpu \/ JumpToKernel
  BY <1>1 DEF Start, StopCore, SetCpuJump, PowerUp, PowerWait, EnableCpu, JumpToKernel
<1>2. CASE GpcDone \/ Halted \/ UNCHANGED vars
  BY <1>2 DEF GpcDone, Halted, vars
<1>3. ASSUME NEW c \in AP, ApNext(c) PROVE UNCHANGED <<mem, dirty>> /\ hyp'[Boot] = hyp[Boot]
  <2>1. UNCHANGED <<mem, dirty>>
    BY <1>3 DEF ApNext, ApStep, LeaveReset, ImxNonBoot, Ldrex, StrexOk, StrexFail, SetSp,
           ApDisableDcaches, Spin, WakeUp, ApLeaveHyp, ApEnableMmu, ApJump
  <2>2. CASE ApLeaveHyp(c)
    BY <2>1, <2>2 DEF ApLeaveHyp, TypeOK
  <2>3. CASE ~ApLeaveHyp(c)
    BY <1>3, <2>1, <2>3 DEF ApNext, ApStep, LeaveReset, ImxNonBoot, Ldrex, StrexOk, StrexFail,
           SetSp, ApDisableDcaches, Spin, WakeUp, ApEnableMmu, ApJump
  <2> QED BY <2>2, <2>3
<1> QED BY <1>1, <1>2, <1>3 DEF Next, BootNext, Writers

(* A copy in memory stays, and nothing written is dropped by a cache       *)
(* operation of the boot core.                                             *)
LEMMA Kept ==
  ASSUME TypeOK, CacheInv, [Next]_vars
  PROVE  mem \subseteq mem' /\ mem \union dirty \subseteq mem' \union dirty'
<1>1. CASE Load
  BY <1>1 DEF Load, Write
<1>2. CASE LeaveHyp
  BY <1>2 DEF LeaveHyp, bootVars
<1>3. CASE InitVspace
  BY <1>3 DEF InitVspace, Write
<1>4. CASE DisableDcaches
  BY <1>4 DEF DisableDcaches, FlushDcache, InvalidateDcache, CacheInv
<1>5. CASE InitCpus
  BY <1>5 DEF InitCpus, ScuEnable, FlushDcache
<1>6. CASE SetLock
  BY <1>6 DEF SetLock, Write
<1>7. CASE EnableMmu
  BY <1>7 DEF EnableMmu, FlushDcache, InvalidateDcache, CacheInv, Cached
<1>8. CASE ~Writers
  BY <1>8, OnlyWriters
<1> QED BY <1>1, <1>2, <1>3, <1>4, <1>5, <1>6, <1>7, <1>8 DEF Writers

(***************************************************************************)
(* The tables of the mode                                                  *)
(***************************************************************************)
Table(h) == IF h THEN "_lpae_boot_pgd" ELSE "_boot_pd"
NoTables == {"_start", "load_images", "leave_hyp", "init_vspace", "abort"}

(* The boot core has built the tables of the mode it is in, and that is    *)
(* HYP mode only for a hypervisor kernel.                                  *)
TableInv ==
  /\ pc[Boot] \notin NoTables => Table(hyp[Boot]) \in mem \union dirty
  /\ pc[Boot] \notin NoTables \ {"init_vspace"} => (hyp[Boot] => HypKernel)

LEMMA TableInit == Init => TableInv
BY BootIsCore DEF Init, TableInv, NoTables

(* How the boot core's label moves with regard to the tables.              *)
LEMMA TableNext ==
  ASSUME TypeOK, CacheInv, TableInv, [Next]_vars
  PROVE  TableInv'
<1> USE BootIsCore DEF NoTables
<1>0. mem \union dirty \subseteq mem' \union dirty'
  BY Kept
<1>1. CASE Start
  BY <1>1, BootGoto DEF Start, BootPC, TableInv
<1>2. CASE Load
  BY <1>2, BootGoto DEF Load, BootPC, TableInv
<1>3. CASE LeaveHyp
  <2>1. pc'[Boot] = "init_vspace"
    BY <1>3, BootGoto DEF LeaveHyp, BootPC
  <2>2. hyp'[Boot] => HypKernel
    BY <1>3 DEF LeaveHyp, TypeOK
  <2> QED BY <2>1, <2>2 DEF TableInv
<1>4. CASE InitVspace
  <2>1. UNCHANGED hyp /\ pc[Boot] = "init_vspace"
    BY <1>4 DEF InitVspace, modeVars
  <2>2. Table(hyp[Boot]) \in mem' \union dirty'
    BY <1>4 DEF InitVspace, Write, Table
  <2> QED BY <2>1, <2>2 DEF TableInv
<1>5. ASSUME hyp'[Boot] = hyp[Boot], pc'[Boot] \in NoTables => pc[Boot] \in NoTables \/ pc'[Boot] = "abort",
             pc[Boot] \in NoTables => pc'[Boot] = pc[Boot]
      PROVE  TableInv'
  BY <1>0, <1>5 DEF TableInv
<1>6. CASE DisableDcaches \/ InitCpus \/ SetLock \/ EnableMmu
  <2>1. hyp'[Boot] = hyp[Boot] /\ pc[Boot] \notin NoTables
    BY <1>6 DEF DisableDcaches, InitCpus, SetLock, EnableMmu, modeVars
  <2>2. \E l \in BootPC : Goto(Boot, l) /\ l \notin NoTables \ {"abort"}
    <3>1. CASE InitCpus
      <4>1. PICK l \in {"abort", "stop_core", "set_cpu_jump"} : Goto(Boot, l)
        BY <3>1 DEF InitCpus
      <4> QED BY <4>1 DEF BootPC
    <3>2. CASE DisableDcaches \/ SetLock \/ EnableMmu
      BY <3>2 DEF DisableDcaches, SetLock, EnableMmu, BootPC
    <3> QED BY <1>6, <3>1, <3>2
  <2>3. pc'[Boot] \notin NoTables \ {"abort"}
    BY <2>2, BootGoto
  <2> QED BY <2>1, <2>3, <1>5
<1>7. CASE StopCore \/ SetCpuJump \/ PowerUp \/ PowerWait \/ EnableCpu \/ JumpToKernel
  <2>1. hyp'[Boot] = hyp[Boot] /\ pc[Boot] \notin NoTables
    BY <1>7 DEF StopCore, SetCpuJump, PowerUp, PowerWait, EnableCpu, JumpToKernel, modeVars
  <2>2. \E l \in BootPC : Goto(Boot, l) /\ l \notin NoTables
    BY <1>7 DEF StopCore, SetCpuJump, PowerUp, PowerWait, EnableCpu, JumpToKernel, BootPC
  <2>3. pc'[Boot] \notin NoTables
    BY <2>2, BootGoto
  <2> QED BY <2>1, <2>3, <1>5
<1>8. CASE GpcDone \/ Halted \/ UNCHANGED vars
  BY <1>5, <1>8 DEF GpcDone, Halted, vars, modeVars
<1>9. ASSUME NEW c \in AP, ApNext(c) PROVE TableInv'
  <2>1. pc'[Boot] = pc[Boot]
    BY <1>9 DEF TypeOK, Goto, ApNext, ApStep, LeaveReset, ImxNonBoot, Ldrex, StrexOk, StrexFail,
           SetSp, ApDisableDcaches, Spin, WakeUp, ApLeaveHyp, ApEnableMmu, ApJump
  <2>2. hyp'[Boot] = hyp[Boot]
    BY <1>9 DEF TypeOK, ApNext, ApStep, LeaveReset, ImxNonBoot, Ldrex, StrexOk, StrexFail,
           SetSp, ApDisableDcaches, Spin, WakeUp, ApLeaveHyp, ApEnableMmu, ApJump, modeVars
  <2> QED BY <2>1, <2>2, <1>5
<1> QED BY <1>1, <1>2, <1>3, <1>4, <1>6, <1>7, <1>8, <1>9 DEF Next, BootNext

(* Past leave_hyp() an AP is in HYP mode only for a hypervisor kernel, and *)
(* with one, in the boot core's mode.                                      *)
ApInTables == {"ap_enable_mmu", "ap_jump", "kernel"}
ModeInv ==
  /\ HypKernel => \A c \in AP : hyp[c] = hyp[Boot]
  /\ \A c \in AP : pc[c] \in ApInTables /\ hyp[c] => HypKernel

LEMMA ModeInit == ASSUME SameModes, Init PROVE ModeInv
<1>1. PICK e \in Entries : hyp = e.hyp
  BY DEF Init
<1>2. \A c \in AP : pc[c] = "reset"
  BY BootIsCore DEF Init, AP
<1> QED BY <1>1, <1>2, BootIsCore DEF SameModes, ModeInv, ApInTables

LEMMA ModeNext ==
  ASSUME TypeOK, ModeInv, [Next]_vars
  PROVE  ModeInv'
<1> USE BootIsCore
<1>1. ASSUME UNCHANGED hyp, \A c \in AP : pc'[c] \in ApInTables => pc[c] \in ApInTables
      PROVE  ModeInv'
  BY <1>1 DEF ModeInv
<1>2. CASE LeaveHyp
  <2>1. \A d \in AP : pc'[d] = pc[d] /\ hyp'[d] = hyp[d]
    BY <1>2, BootGoto DEF LeaveHyp, BootPC, TypeOK
  <2>2. HypKernel => hyp'[Boot] = hyp[Boot]
    BY <1>2 DEF LeaveHyp, TypeOK
  <2> QED BY <2>1, <2>2 DEF ModeInv
<1>3. CASE BootNext /\ ~LeaveHyp
  <2>1. UNCHANGED hyp
    BY <1>3 DEF BootNext, Start, Load, InitVspace, DisableDcaches, InitCpus, StopCore, SetCpuJump,
           PowerUp, PowerWait, EnableCpu, SetLock, EnableMmu, JumpToKernel, modeVars
  <2>2. \A d \in AP : pc'[d] = pc[d]
    BY <1>3, BootLabel, BootGoto
  <2> QED BY <1>1, <2>1, <2>2
<1>4. CASE GpcDone \/ Halted \/ UNCHANGED vars
  BY <1>1, <1>4 DEF GpcDone, Halted, vars, modeVars
<1>5. ASSUME NEW c \in AP, ApNext(c) PROVE ModeInv'
  <2>1. CASE ApLeaveHyp(c)
    <3>1. \A d \in AP : d # c => pc'[d] = pc[d]
      BY <2>1 DEF ApLeaveHyp, Goto, TypeOK
    <3>2. /\ hyp'[c] = (hyp[c] /\ HypKernel) /\ hyp'[Boot] = hyp[Boot]
          /\ \A d \in AP : d # c => hyp'[d] = hyp[d]
      BY <2>1 DEF ApLeaveHyp, TypeOK
    <3>3. HypKernel => hyp'[c] = hyp[c]
      BY <3>2 DEF TypeOK
    <3> QED BY <3>1, <3>2, <3>3 DEF ModeInv
  <2>2. CASE ApEnableMmu(c) \/ ApJump(c)
    <3>1. UNCHANGED hyp /\ pc[c] \in ApInTables
      BY <2>2 DEF ApEnableMmu, ApJump, modeVars, ApInTables
    <3>2. \A d \in AP : d # c => pc'[d] = pc[d]
      BY <2>2 DEF ApEnableMmu, ApJump, Goto, TypeOK
    <3> QED BY <1>1, <3>1, <3>2
  <2>3. CASE \/ LeaveReset(c) \/ ImxNonBoot(c) \/ Ldrex(c) \/ StrexOk(c) \/ StrexFail(c)
             \/ SetSp(c) \/ ApDisableDcaches(c) \/ Spin(c) \/ WakeUp(c)
    <3>1. UNCHANGED hyp
      BY <2>3 DEF LeaveReset, ImxNonBoot, Ldrex, StrexOk, StrexFail, SetSp, ApDisableDcaches,
             Spin, WakeUp, modeVars
    <3>2. \E l \in ApPC \ ApInTables : Goto(c, l)
      <4> USE DEF ApPC, ApInTables
      <4>1. CASE LeaveReset(c)
        BY <4>1 DEF LeaveReset
      <4>2. CASE Spin(c)
        BY <4>2 DEF Spin
      <4>3. CASE ~LeaveReset(c) /\ ~Spin(c)
        BY <2>3, <4>3 DEF ImxNonBoot, Ldrex, StrexOk, StrexFail, SetSp, ApDisableDcaches, WakeUp
      <4> QED BY <4>1, <4>2, <4>3
    <3>3. pc'[c] \notin ApInTables /\ \A d \in AP : d # c => pc'[d] = pc[d]
      BY <3>2, ApGoto
    <3> QED BY <1>1, <3>1, <3>3
  <2> QED BY <1>5, <2>1, <2>2, <2>3 DEF ApNext, ApStep
<1> QED BY <1>2, <1>3, <1>4, <1>5 DEF Next

(* With an AP out of reset, or the boot core behind the MMU, nothing of    *)
(* the data is left in the D-cache.                                        *)
LEMMA CleanBehind ==
  ASSUME TypeOK, EnabledInv, CacheInv,
         pc[Boot] \in {"jump", "kernel"} \/ enabled # {}
  PROVE  pc[Boot] \notin NoTables /\ dirty = {} /\ Image \subseteq mem
<1>1. pc[Boot] \in {"set_lock"} \union Released \union Starting
  BY DEF EnabledInv, Released
<1>2. pc[Boot] = "enable_mmu" => MaxNodes > 1
  <2>1. ASSUME pc[Boot] = "enable_mmu", ~(MaxNodes > 1) PROVE FALSE
    <3>1. 1..MaxNodes-1 = {}
      BY <2>1, ConfigAssumption
    <3> QED BY <2>1, <3>1 DEF EnabledInv, Released
  <2> QED BY <2>1
<1>3. dirty = {}
  BY <1>1, <1>2 DEF CacheInv, Released, Starting
<1>4. Image \subseteq mem \union dirty /\ pc[Boot] \notin NoTables
  BY <1>1 DEF CacheInv, Released, Starting, NoTables
<1> QED BY <1>3, <1>4

(* Whoever turns its MMU on has the tables of its mode in memory, and the  *)
(* images are there, whatever .bss holds (main(), non_boot_main()).        *)
THEOREM TablesBuilt == ASSUME NoCachedHyp, SameModes PROVE Spec => []TablesReady
<1> DEFINE Inv == TypeOK /\ EnabledInv /\ CacheInv /\ TableInv /\ ModeInv
<1>1. Init => Inv
  BY TypeInit, EnabledInit, CacheInit, TableInit, ModeInit
<1>2. Inv /\ [Next]_vars => Inv'
  BY TypeNext, EnabledNext, CacheNext, TableNext, ModeNext
<1>3. Inv => TablesReady
  <2> SUFFICES ASSUME Inv, NEW c \in Core, pc[c] \in {"jump", "ap_jump", "kernel"}
               PROVE  Image \subseteq mem /\ Table(hyp[c]) \in mem
    BY DEF TablesReady, Table
  <2>1. pc[Boot] \in {"jump", "kernel"} \/ enabled # {}
    <3>1. CASE c = Boot
      BY <3>1 DEF TypeOK, BootPC
    <3>2. CASE c \in AP
      BY <3>2 DEF EnabledInv
    <3> QED BY <3>1, <3>2 DEF AP
  <2>2. pc[Boot] \notin NoTables /\ dirty = {} /\ Image \subseteq mem
    BY <2>1, CleanBehind
  <2>3. Table(hyp[Boot]) \in mem /\ (hyp[Boot] => HypKernel)
    BY <2>2 DEF TableInv, NoTables
  <2>4. hyp[c] = hyp[Boot]
    <3>1. CASE c \in AP
      <4>1. pc[c] \in ApInTables
        BY <3>1 DEF TypeOK, ApPC, ApInTables
      <4> QED BY <2>3, <3>1, <4>1, BootIsCore DEF ModeInv, TypeOK
    <3> QED BY <3>1 DEF AP
  <2> QED BY <2>2, <2>3, <2>4
<1> QED BY <1>1, <1>2, <1>3, PTL DEF Spec

(***************************************************************************)
(* The gate                                                                *)
(***************************************************************************)
(* The gate's variables, as Gate maps them.                                *)
Opened == pc[Boot] \in {"enable_mmu", "jump", "kernel"}
Slots == [c \in Core |-> IF sp[c] = NoStack THEN NoStack ELSE sp[c] \div PageSize]
Entered == {c \in Core : pc[c] = "kernel"}

(* A core has its stack from the step on that takes it.                    *)
ClaimInv ==
  /\ pc[Boot] = "_start" <=> sp[Boot] = NoStack
  /\ \A c \in AP : pc[c] \in Unnumbered \union {"set_sp"} <=> sp[c] = NoStack

LEMMA ClaimInit == Init => ClaimInv
BY BootIsCore DEF Init, ClaimInv, Unnumbered, AP

LEMMA ClaimNext ==
  ASSUME TypeOK, ClaimInv, [Next]_vars
  PROVE  ClaimInv'
<1> USE BootIsCore DEF Unnumbered
<1>1. CASE Start
  <2>1. pc'[Boot] = "load_images" /\ \A d \in AP : pc'[d] = pc[d]
    BY <1>1, BootGoto DEF Start, BootPC
  <2>2. sp'[Boot] # NoStack /\ \A d \in AP : sp'[d] = sp[d]
    BY <1>1 DEF Start, TypeOK, NoStack, PageSize
  <2> QED BY <2>1, <2>2 DEF ClaimInv
<1>2. CASE BootNext /\ ~Start
  <2>1. UNCHANGED sp /\ pc[Boot] # "_start"
    BY <1>2 DEF BootNext, Load, LeaveHyp, InitVspace, DisableDcaches, InitCpus, StopCore, SetCpuJump,
           PowerUp, PowerWait, EnableCpu, SetLock, EnableMmu, JumpToKernel
  <2>2. \E l \in BootPC \ {"_start"} : Goto(Boot, l)
    <3> USE DEF BootPC
    <3>1. CASE InitCpus
      <4>1. PICK l \in {"abort", "stop_core", "set_cpu_jump"} : Goto(Boot, l)
        BY <3>1 DEF InitCpus
      <4> QED BY <4>1
    <3>2. CASE Load \/ LeaveHyp \/ InitVspace \/ DisableDcaches \/ StopCore \/ SetCpuJump
      BY <3>2 DEF Load, LeaveHyp, InitVspace, DisableDcaches, StopCore, SetCpuJump
    <3>3. CASE PowerUp \/ PowerWait \/ EnableCpu \/ SetLock \/ EnableMmu \/ JumpToKernel
      BY <3>3 DEF PowerUp, PowerWait, EnableCpu, SetLock, EnableMmu, JumpToKernel
    <3> QED BY <1>2, <3>1, <3>2, <3>3 DEF BootNext
  <2>3. pc'[Boot] # "_start" /\ \A d \in AP : pc'[d] = pc[d]
    BY <2>2, BootGoto
  <2> QED BY <2>1, <2>3 DEF ClaimInv
<1>3. CASE GpcDone \/ Halted \/ UNCHANGED vars
  BY <1>3 DEF GpcDone, Halted, vars, ClaimInv
<1>4. ASSUME NEW c \in AP, ApNext(c) PROVE ClaimInv'
  <2>1. CASE SetSp(c)
    <3>1. pc'[c] = "disable_dcaches" /\ pc'[Boot] = pc[Boot] /\ \A d \in AP : d # c => pc'[d] = pc[d]
      BY <2>1, ApGoto DEF SetSp, ApPC
    <3>2. sp'[c] = r1[c] * PageSize - 16 /\ sp'[Boot] = sp[Boot] /\ \A d \in AP : d # c => sp'[d] = sp[d]
      BY <2>1 DEF SetSp, TypeOK
    <3>3. sp'[c] # NoStack
      BY <3>2 DEF TypeOK, NoStack, PageSize
    <3> QED BY <3>1, <3>2, <3>3 DEF ClaimInv
  <2>2. CASE ~SetSp(c)
    <3>1. UNCHANGED sp
      BY <1>4, <2>2 DEF ApNext, ApStep, LeaveReset, ImxNonBoot, Ldrex, StrexOk, StrexFail,
             ApDisableDcaches, Spin, WakeUp, ApLeaveHyp, ApEnableMmu, ApJump
    <3>2. \E l \in ApPC : /\ Goto(c, l)
                          /\ l \in Unnumbered \union {"set_sp"} <=> pc[c] \in Unnumbered \union {"set_sp"}
      <4> USE DEF ApPC
      <4>1. CASE LeaveReset(c)
        <5>1. PICK l \in {"lost", "ldrex", "imx_non_boot"} : Goto(c, l)
          BY <4>1 DEF LeaveReset
        <5> QED BY <4>1, <5>1 DEF LeaveReset
      <4>2. CASE Spin(c)
        BY <4>2 DEF Spin
      <4>3. CASE ImxNonBoot(c) \/ Ldrex(c) \/ StrexOk(c) \/ StrexFail(c)
        BY <4>3 DEF ImxNonBoot, Ldrex, StrexOk, StrexFail
      <4>4. CASE ApDisableDcaches(c) \/ WakeUp(c) \/ ApLeaveHyp(c) \/ ApEnableMmu(c) \/ ApJump(c)
        BY <4>4 DEF ApDisableDcaches, WakeUp, ApLeaveHyp, ApEnableMmu, ApJump
      <4> QED BY <1>4, <2>2, <4>1, <4>2, <4>3, <4>4 DEF ApNext, ApStep
    <3>3. PICK l \in ApPC : /\ Goto(c, l)
                            /\ l \in Unnumbered \union {"set_sp"} <=> pc[c] \in Unnumbered \union {"set_sp"}
      BY <3>2
    <3>4. pc'[c] = l /\ pc'[Boot] = pc[Boot] /\ \A d \in AP : d # c => pc'[d] = pc[d]
      BY <3>3, ApGoto
    <3> QED BY <3>1, <3>3, <3>4 DEF ClaimInv
  <2> QED BY <2>1, <2>2
<1> QED BY <1>1, <1>2, <1>3, <1>4 DEF Next

GateInv == IInv /\ TableInv /\ ClaimInv

(* The slot of an AP is its number less one, inside the configuration.     *)
LEMMA SlotOf ==
  ASSUME GateInv
  PROVE  /\ sp[Boot] # NoStack => Slots[Boot] = 0
         /\ \A c \in AP : sp[c] # NoStack => Slots[c] = r1[c] - 1
         /\ \A c \in Core : sp[c] = NoStack => Slots[c] = NoStack
         /\ \A c \in Numbered : r1[c] \in 2..MaxNodes
<1>1. index \in Nat /\ index <= MaxNodes
  BY IndexBound DEF GateInv, IInv, TypeOK
<1>2. \A c \in Numbered : r1[c] \in 2..MaxNodes
  BY <1>1, ConfigAssumption DEF GateInv, IInv, NumberInv
<1>3. ASSUME NEW c \in AP, sp[c] # NoStack PROVE Slots[c] = r1[c] - 1
  <2>1. sp[c] = r1[c] * PageSize - 16 /\ r1[c] \in Nat /\ r1[c] >= 2 /\ c \in Core
    BY <1>2, <1>3, BootIsCore, ConfigAssumption DEF GateInv, IInv, StackInv
  <2>2. (r1[c] * 4096 - 16) \div 4096 = r1[c] - 1
    BY <2>1
  <2> QED BY <1>3, <2>1, <2>2 DEF Slots, PageSize
<1>4. sp[Boot] # NoStack => Slots[Boot] = 0
  BY BootIsCore DEF GateInv, IInv, StackInv, Slots, PageSize
<1> QED BY <1>2, <1>3, <1>4 DEF Slots

(* With an AP out of reset, or the cores released, the data is published.  *)
LEMMA DataPublished ==
  ASSUME GateInv, MaxNodes > 1, enabled # {} \/ pc[Boot] \in {"set_lock"} \union Released
  PROVE  Published
<1>1. enabled # {}
  <2>1. CASE pc[Boot] \in {"set_lock"} \union Released
    <3>1. 1 \in 1..MaxNodes-1
      BY ConfigAssumption
    <3> QED BY <2>1, <3>1 DEF GateInv, IInv, EnabledInv
  <2> QED BY <2>1
<1>2. pc[Boot] \notin NoTables /\ dirty = {} /\ Image \subseteq mem
  BY <1>1, CleanBehind DEF GateInv, IInv
<1>3. Table(hyp[Boot]) \in mem
  BY <1>2 DEF GateInv, TableInv
<1> QED BY <1>2, <1>3 DEF Published, Table

(* A step of the code is a step of the gate, or none.                      *)
GateStep == [Gate!Next]_<<Published, Opened, Slots, Entered>>

(* What leaves gate, stacks and kernel alone publishes the data, or is not *)
(* seen.                                                                   *)
LEMMA GateQuiet ==
  ASSUME GateInv, [Next]_vars, UNCHANGED sp, Opened' <=> Opened,
         \A c \in Core : pc'[c] = "kernel" <=> pc[c] = "kernel"
  PROVE  GateStep
<1>1. Published => Published'
  BY Kept DEF GateInv, IInv, Published
<1>2. UNCHANGED <<Opened, Slots, Entered>>
  BY DEF Opened, Slots, Entered
<1>3. CASE Published' = Published
  BY <1>2, <1>3 DEF GateStep
<1>4. CASE ~Published /\ Published' = TRUE
  <2>1. Gate!Publish
    BY <1>2, <1>4 DEF Gate!Publish, Opened, Slots, Entered
  <2> QED BY <2>1 DEF GateStep, Gate!Next
<1> QED BY <1>1, <1>3, <1>4 DEF Published

(* What a step that sets one stack pointer does to the slots.              *)
LEMMA SlotSet ==
  ASSUME NEW x \in Core, NEW v, NEW k,
         v # NoStack, v \div PageSize = k,
         sp' = [sp EXCEPT ![x] = v], DOMAIN sp = Core
  PROVE  Slots' = [Slots EXCEPT ![x] = k]
<1>1. sp'[x] = v /\ \A d \in Core : d # x => sp'[d] = sp[d]
  OBVIOUS
<1>2. Slots' = [d \in Core |-> IF sp'[d] = NoStack THEN NoStack ELSE sp'[d] \div PageSize]
  BY DEF Slots, NoStack, PageSize
<1>3. \A d \in Core : (IF sp'[d] = NoStack THEN NoStack ELSE sp'[d] \div PageSize)
                       = IF d = x THEN k ELSE Slots[d]
  <2> TAKE d \in Core
  <2>1. CASE d = x
    BY <1>1, <2>1
  <2>2. CASE d # x
    BY <1>1, <2>2 DEF Slots
  <2> QED BY <2>1, <2>2
<1>4. Slots' = [d \in Core |-> IF d = x THEN k ELSE Slots[d]]
  BY <1>2, <1>3
<1>5. DOMAIN Slots = Core
  BY DEF Slots
<1> QED BY <1>4, <1>5

(* The first stack page is nobody else's.                                  *)
LEMMA GateStart == ASSUME GateInv, Start PROVE Gate!Claim(Boot)
<1> USE BootIsCore
<1>1. pc[Boot] = "_start" /\ sp[Boot] = NoStack /\ Slots[Boot] = NoStack
  BY SlotOf DEF Start, GateInv, ClaimInv
<1>2. \A d \in Core : Slots[d] # 0
  <2> SUFFICES ASSUME NEW d \in Core PROVE Slots[d] # 0
    OBVIOUS
  <2>1. CASE sp[d] = NoStack
    BY <2>1, SlotOf DEF NoStack
  <2>2. CASE d \in AP /\ sp[d] # NoStack
    <3>1. Slots[d] = r1[d] - 1 /\ d \in Numbered /\ r1[d] \in 2..MaxNodes
      BY <2>2, SlotOf DEF GateInv, IInv, StackInv
    <3> QED BY <3>1, ConfigAssumption
  <2> QED BY <1>1, <2>1, <2>2 DEF AP
<1>3. sp' = [sp EXCEPT ![Boot] = PageSize - 16] /\ DOMAIN sp = Core
  BY DEF Start, GateInv, IInv, TypeOK
<1>4. Slots' = [Slots EXCEPT ![Boot] = 0]
  <2>1. PageSize - 16 # NoStack /\ (PageSize - 16) \div PageSize = 0
    BY DEF PageSize, NoStack
  <2> QED BY <1>3, <2>1, SlotSet
<1>5. pc'[Boot] = "load_images" /\ \A d \in Core : d # Boot => pc'[d] = pc[d]
  BY DEF Start, Goto, GateInv, IInv, TypeOK
<1>6. UNCHANGED <<Published, Opened, Entered>>
  BY <1>1, <1>5 DEF Start, bootVars, Published, Opened, Entered
<1>7. 0 \in 0..MaxNodes-1
  BY ConfigAssumption
<1>8. \E s \in 0..MaxNodes-1 : (\A d \in Core : Slots[d] # s) /\ Slots' = [Slots EXCEPT ![Boot] = s]
  BY <1>2, <1>4, <1>7
<1> QED BY <1>1, <1>6, <1>8 DEF Gate!Claim, Opened, Slots, Entered

(* A number is held once, so its page is free.                             *)
LEMMA GateSetSp ==
  ASSUME GateInv, MaxNodes > 1, NEW c \in AP, SetSp(c)
  PROVE  Gate!Claim(c)
<1> USE BootIsCore
<1>1. pc[c] = "set_sp" /\ sp[c] = NoStack /\ c \in Core /\ c # Boot
  BY DEF SetSp, GateInv, ClaimInv
<1>2. c \in Numbered /\ r1[c] \in 2..MaxNodes
  BY <1>1, SlotOf DEF Numbered
<1>3. \A d \in Core : Slots[d] # r1[c] - 1
  <2> SUFFICES ASSUME NEW d \in Core, Slots[d] = r1[c] - 1 PROVE FALSE
    OBVIOUS
  <2>1. sp[d] # NoStack
    BY <1>2, SlotOf, ConfigAssumption DEF NoStack
  <2>2. d # Boot
    BY <1>2, <2>1, SlotOf, ConfigAssumption
  <2>3. d \in Numbered /\ r1[d] \in 2..MaxNodes /\ Slots[d] = r1[d] - 1
    BY <2>1, <2>2, SlotOf DEF GateInv, IInv, StackInv, AP
  <2>4. r1[d] = r1[c]
    BY <1>2, <2>3, ConfigAssumption
  <2>5. d = c
    BY <1>2, <2>3, <2>4 DEF GateInv, IInv, NumberInv
  <2> QED BY <1>1, <2>1, <2>5
<1>4. sp' = [sp EXCEPT ![c] = r1[c] * PageSize - 16] /\ DOMAIN sp = Core
  BY DEF SetSp, GateInv, IInv, TypeOK
<1>5. /\ (r1[c] * PageSize - 16) \div PageSize = r1[c] - 1
      /\ r1[c] * PageSize - 16 # NoStack
  BY <1>2, ConfigAssumption DEF PageSize, NoStack
<1>6. Slots' = [Slots EXCEPT ![c] = r1[c] - 1]
  BY <1>1, <1>4, <1>5, SlotSet
<1>7. enabled # {}
  BY <1>1 DEF GateInv, IInv, EnabledInv
<1>8. Published
  BY <1>7, DataPublished
<1>9. /\ pc'[Boot] = pc[Boot] /\ pc'[c] = "disable_dcaches"
      /\ \A d \in Core : d # c => pc'[d] = pc[d]
  BY <1>1 DEF SetSp, Goto, GateInv, IInv, TypeOK
<1>10. UNCHANGED <<Published, Opened, Entered>>
  <2>1. UNCHANGED Published
    BY DEF SetSp, bootVars, Published
  <2>2. \A d \in Core : pc'[d] = "kernel" <=> pc[d] = "kernel"
    BY <1>1, <1>9
  <2> QED BY <1>9, <2>1, <2>2 DEF Opened, Entered
<1>11. r1[c] - 1 \in 0..MaxNodes-1
  BY <1>2, ConfigAssumption
<1>12. \E s \in 0..MaxNodes-1 : (\A d \in Core : Slots[d] # s) /\ Slots' = [Slots EXCEPT ![c] = s]
  BY <1>3, <1>6, <1>11
<1>13. Slots[c] = NoStack
  BY <1>1, SlotOf
<1> QED BY <1>8, <1>10, <1>12, <1>13 DEF Gate!Claim, Opened, Slots, Entered

(* A core with a stack enters when the boot core has released all.         *)
LEMMA GateEnter ==
  ASSUME GateInv, MaxNodes > 1, NEW c \in Core, pc[c] # "kernel", Goto(c, "kernel"),
         pc[Boot] \in Released, sp[c] # NoStack, UNCHANGED <<mem, sp>>
  PROVE  Gate!Enter(c)
<1> USE BootIsCore
<1>1. Published /\ UNCHANGED Published
  BY DataPublished DEF Published
<1>2. pc'[c] = "kernel" /\ \A d \in Core : d # c => pc'[d] = pc[d]
  BY DEF Goto, GateInv, IInv, TypeOK
<1>3. Opened /\ Opened'
  BY <1>2 DEF Opened, Released
<1>4. Entered' = Entered \union {c} /\ c \notin Entered
  BY <1>2 DEF Entered
<1>5. Slots[c] # NoStack
  <2>1. CASE c = Boot
    BY <2>1, SlotOf DEF NoStack
  <2>2. CASE c \in AP
    <3>1. Slots[c] = r1[c] - 1 /\ r1[c] \in 2..MaxNodes
      BY <2>2, SlotOf DEF GateInv, IInv, StackInv
    <3> QED BY <3>1, ConfigAssumption DEF NoStack
  <2> QED BY <2>1, <2>2 DEF AP
<1>6. UNCHANGED Slots
  BY DEF Slots
<1> QED BY <1>1, <1>3, <1>4, <1>5, <1>6 DEF Gate!Enter, Opened, Slots, Entered

LEMMA GateNext == ASSUME GateInv, MaxNodes > 1, [Next]_vars PROVE GateStep
<1> USE BootIsCore
<1>1. ASSUME NEW l \in BootPC, Goto(Boot, l), l # "kernel", pc[Boot] # "kernel", UNCHANGED sp,
             l \in Released <=> pc[Boot] \in Released
      PROVE  GateStep
  <2>1. pc'[Boot] = l /\ \A d \in Core : d # Boot => pc'[d] = pc[d]
    BY <1>1 DEF Goto, GateInv, IInv, TypeOK
  <2>2. \A d \in Core : pc'[d] = "kernel" <=> pc[d] = "kernel"
    BY <1>1, <2>1
  <2>3. Opened' <=> Opened
    BY <1>1, <2>1 DEF Opened, Released
  <2> QED BY <1>1, <2>2, <2>3, GateQuiet
<1>2. CASE Start
  BY <1>2, GateStart DEF GateStep, Gate!Next
<1>3. CASE Load
  BY <1>1, <1>3 DEF Load, BootPC, Released
<1>4. CASE LeaveHyp
  BY <1>1, <1>4 DEF LeaveHyp, BootPC, Released
<1>5. CASE InitVspace
  BY <1>1, <1>5 DEF InitVspace, BootPC, Released
<1>6. CASE DisableDcaches
  BY <1>1, <1>6 DEF DisableDcaches, BootPC, Released
<1>7. CASE InitCpus
  <2>1. PICK l \in {"abort", "stop_core", "set_cpu_jump"} : Goto(Boot, l)
    BY <1>7 DEF InitCpus
  <2> QED BY <1>1, <1>7, <2>1 DEF InitCpus, BootPC, Released
<1>8. CASE StopCore
  BY <1>1, <1>8 DEF StopCore, BootPC, Released
<1>9. CASE SetCpuJump
  BY <1>1, <1>9 DEF SetCpuJump, BootPC, Released
<1>10. CASE PowerUp
  BY <1>1, <1>10 DEF PowerUp, BootPC, Released
<1>11. CASE PowerWait
  BY <1>1, <1>11 DEF PowerWait, BootPC, Released
<1>12. CASE EnableCpu
  BY <1>1, <1>12 DEF EnableCpu, BootPC, Released
<1>13. CASE SetLock
  <2>1. pc[Boot] = "set_lock" /\ pc'[Boot] = "enable_mmu" /\ \A d \in Core : d # Boot => pc'[d] = pc[d]
    BY <1>13 DEF SetLock, Goto, GateInv, IInv, TypeOK
  <2>2. Published
    BY <2>1, DataPublished
  <2>3. Published'
    BY <2>2, Kept DEF GateInv, IInv, Published
  <2>4. ~Opened /\ Opened' /\ UNCHANGED <<Slots, Entered>>
    BY <1>13, <2>1 DEF SetLock, Opened, Slots, Entered
  <2>5. Published' = Published
    BY <2>2, <2>3 DEF Published
  <2>6. Gate!Open
    BY <2>2, <2>4, <2>5 DEF Gate!Open, Opened, Slots, Entered
  <2> QED BY <2>6 DEF GateStep, Gate!Next
<1>14. CASE EnableMmu
  BY <1>1, <1>14 DEF EnableMmu, BootPC, Released
<1>15. CASE JumpToKernel
  <2>1. pc[Boot] = "jump" /\ Goto(Boot, "kernel") /\ UNCHANGED <<mem, sp>>
    BY <1>15 DEF JumpToKernel, bootVars
  <2>2. sp[Boot] # NoStack
    BY <2>1 DEF GateInv, ClaimInv
  <2>3. Gate!Enter(Boot)
    BY <2>1, <2>2, GateEnter DEF Released
  <2> QED BY <2>3 DEF GateStep, Gate!Next
<1>16. CASE GpcDone \/ Halted \/ UNCHANGED vars
  <2>1. UNCHANGED <<pc, sp>>
    BY <1>16 DEF GpcDone, Halted, vars
  <2> QED BY <2>1, GateQuiet DEF Opened
<1>17. ASSUME NEW c \in AP, ApNext(c) PROVE GateStep
  <2>1. CASE SetSp(c)
    BY <2>1, GateSetSp DEF GateStep, Gate!Next
  <2>2. CASE ApJump(c)
    <3>1. pc[c] = "ap_jump" /\ Goto(c, "kernel") /\ UNCHANGED <<mem, sp>>
      BY <2>2 DEF ApJump, bootVars
    <3>2. pc[Boot] \in Released
      BY <3>1 DEF GateInv, IInv, LockInv
    <3>3. sp[c] # NoStack
      BY <3>1 DEF GateInv, ClaimInv, Unnumbered
    <3>4. Gate!Enter(c)
      BY <3>1, <3>2, <3>3, GateEnter
    <3> QED BY <3>4 DEF GateStep, Gate!Next
  <2>3. CASE ~SetSp(c) /\ ~ApJump(c)
    <3>1. UNCHANGED sp
      BY <1>17, <2>3 DEF ApNext, ApStep, LeaveReset, ImxNonBoot, Ldrex, StrexOk, StrexFail,
             ApDisableDcaches, Spin, WakeUp, ApLeaveHyp, ApEnableMmu
    <3>2. \E l \in ApPC \ {"kernel"} : Goto(c, l) /\ pc[c] # "kernel"
      <4> USE DEF ApPC
      <4>1. CASE LeaveReset(c)
        BY <4>1 DEF LeaveReset
      <4>2. CASE Spin(c)
        BY <4>2 DEF Spin
      <4>3. CASE ImxNonBoot(c) \/ Ldrex(c) \/ StrexOk(c) \/ StrexFail(c)
        BY <4>3 DEF ImxNonBoot, Ldrex, StrexOk, StrexFail
      <4>4. CASE ApDisableDcaches(c) \/ WakeUp(c) \/ ApLeaveHyp(c) \/ ApEnableMmu(c)
        BY <4>4 DEF ApDisableDcaches, WakeUp, ApLeaveHyp, ApEnableMmu
      <4> QED BY <1>17, <2>3, <4>1, <4>2, <4>3, <4>4 DEF ApNext, ApStep
    <3>3. pc'[Boot] = pc[Boot] /\ \A d \in Core : pc'[d] = "kernel" <=> pc[d] = "kernel"
      BY <3>2 DEF Goto, GateInv, IInv, TypeOK
    <3> QED BY <3>1, <3>3, GateQuiet DEF Opened
  <2> QED BY <2>1, <2>2, <2>3
<1> QED BY <1>2, <1>3, <1>4, <1>5, <1>6, <1>7, <1>8, <1>9, <1>10, <1>11, <1>12, <1>13, <1>14, <1>15,
           <1>16, <1>17 DEF Next, BootNext

LEMMA GateInit == Init => Gate!Init
<1> SUFFICES ASSUME Init PROVE Gate!Init
  OBVIOUS
<1> USE BootIsCore
<1>1. mem \subseteq {"non_boot_lock"}
  BY DEF Init
<1>2. ~Published
  BY <1>1 DEF Published, Image
<1>3. \A c \in Core : pc[c] \in {"_start", "reset"}
  BY DEF Init
<1>4. ~Opened /\ Entered = {}
  BY <1>3 DEF Opened, Entered
<1>5. Slots = [c \in Core |-> NoStack]
  BY DEF Init, Slots
<1> QED BY <1>2, <1>4, <1>5 DEF Gate!Init, Published, Opened, Slots, Entered

(* A multicore build started with .bss zeroed, and with the D-cache off in *)
(* HYP mode, implements the gate: the ldrex/strex numbers are claims of    *)
(* free stacks behind published data, non_boot_lock is the gate, and no    *)
(* core is in the kernel before it.                                        *)
THEOREM ImplementsGate ==
  ASSUME MaxNodes > 1, LockImage \subseteq {FALSE}, NoCachedHyp
  PROVE  Spec => GateSpec
<1>1. Init => GateInv
  BY TypeInit, EnabledInit, NumberInit, StackInit, LockInit, CacheInit, TableInit, ClaimInit
     DEF GateInv, IInv
<1>2. GateInv /\ [Next]_vars => GateInv'
  BY TypeNext, EnabledNext, NumberNext, StackNext, LockNext, CacheNext, TableNext, ClaimNext
     DEF GateInv, IInv
<1>3. GateInv /\ [Next]_vars => [Gate!Next]_Gate!gvars
  BY GateNext DEF GateStep, Gate!gvars, Opened, Slots, Entered
<1> QED BY <1>1, <1>2, <1>3, GateInit, PTL DEF Spec, GateSpec, Gate!Spec
=============================================================================
