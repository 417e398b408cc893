------------------------------ MODULE StartGate ------------------------------
(***************************************************************************)
(* What a multicore start promises, whatever the platform does to get the  *)
(* secondary cores (APs) running.                                          *)
(*                                                                         *)
(* One boot core publishes the data every core needs (the unpacked images, *)
(* kernel_info, user_info, the page tables), each core takes a stack slot  *)
(* nobody else has, the boot core opens the gate, and no core other than   *)
(* the boot core enters the kernel before the gate is open.  SmpBoot32     *)
(* (ldrex/strex numbering) and PsciBoot (firmware calls) both implement    *)
(* this module.                                                            *)
(***************************************************************************)
EXTENDS Integers

CONSTANTS
  Core,       \* the cores of the platform
  BootCore,   \* the one that runs main()
  Slot,       \* the stack slots, one page each
  NoSlot      \* "has no stack yet"

VARIABLES
  published,  \* the boot data is in the memory every core reads
  open,       \* the gate: non_boot_lock
  slot,       \* slot[c]: the stack of core c
  entered     \* the cores that jumped to the kernel

gvars == <<published, open, slot, entered>>

Init ==
  /\ published = FALSE
  /\ open = FALSE
  /\ slot = [c \in Core |-> NoSlot]
  /\ entered = {}

(* The boot data becomes visible, once.                                    *)
Publish ==
  /\ ~published
  /\ published' = TRUE
  /\ UNCHANGED <<open, slot, entered>>

(* A core takes a free slot.  An AP runs only after the data is published. *)
Claim(c) ==
  /\ slot[c] = NoSlot
  /\ c # BootCore => published
  /\ \E s \in Slot :
       /\ \A d \in Core : slot[d] # s
       /\ slot' = [slot EXCEPT ![c] = s]
  /\ UNCHANGED <<published, open, entered>>

(* The boot core opens the gate, once, behind published data.              *)
Open ==
  /\ published
  /\ ~open
  /\ open' = TRUE
  /\ UNCHANGED <<published, slot, entered>>

(* A core that has a stack enters the kernel, once, through the open gate. *)
Enter(c) ==
  /\ published
  /\ open
  /\ slot[c] # NoSlot
  /\ c \notin entered
  /\ entered' = entered \union {c}
  /\ UNCHANGED <<published, open, slot>>

Next ==
  \/ Publish
  \/ Open
  \/ \E c \in Core : Claim(c) \/ Enter(c)

Spec == Init /\ [][Next]_gvars
=============================================================================
