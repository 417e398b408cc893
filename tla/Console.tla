------------------------------ MODULE Console ------------------------------
(***************************************************************************)
(* printf() on a polled UART, from platform_init() on: each platform's     *)
(* __fputc(), the zynqs' enable_uart(), and exynos5's change of cluster    *)
(* in the middle of the output.  The UART is external: it takes bytes into *)
(* a queue, drops what does not fit, and sends while it is enabled.        *)
(***************************************************************************)
EXTENDS Integers, Sequences, SequencesExt

CONSTANTS
  Drivers,      \* platforms
  Depths,       \* the bytes a transmit queue may hold
  SwitchText,   \* what the A7 of an exynos5 prints
  BootText      \* what main() prints
ASSUME ConsoleAssumption ==
  /\ Depths \subseteq Nat \ {0}
  /\ Drivers \subseteq {"imx6", "imx7", "imx31", "zynq7000", "zynqmp", "bcm2837", "exynos4",
       "exynos5", "realview", "apq8064", "omap3", "nslu2", "am335x", "tk1", "tx1", "tx2",
       "hikey", "odroidc2", "spike"}
  /\ {SwitchText, BootText} \subseteq Seq(STRING)

VARIABLES
  driver, depth,
  a7,           \* an exynos5 started on its A7
  enabled,      \* the transmitter is on
  pc, todo,     \* of each core: where it is, and the characters to print
  fifo, sent,   \* in the UART's queue, and on the line
  boot_reg      \* exynos5: cpu1_boot_reg holds an entry
vars == <<driver, depth, a7, enabled, pc, todo, fifo, sent, boot_reg>>

(* The core main() starts on, and the A15 an exynos5 changes to.           *)
Core == {"first", "a15"}

(* The condition each __fputc() waits for: a queue that is empty, by one   *)
(* flag or another, or one that is not full.                               *)
QueueEmpty == fifo = <<>>
QueueNotFull == Len(fifo) < depth
ReadyImx6 == QueueEmpty        \* TXFE
ReadyImx7 == QueueEmpty
ReadyImx31 == QueueEmpty
ReadyZynq7000 == QueueEmpty    \* UART_CHANNEL_STS_TXEMPTY
ReadyZynqmp == QueueEmpty
ReadyBcm2837 == QueueEmpty     \* MU_LSR_TXIDLE
ReadyExynos4 == QueueEmpty     \* TXBUF_EMPTY
ReadyExynos5 == QueueEmpty
ReadyApq8064 == QueueEmpty     \* USR_TXEMP, and UNTX = 1
ReadyOmap3 == QueueEmpty       \* ULSR_THRE
ReadyNslu2 == QueueEmpty
ReadyAm335x == QueueEmpty
ReadyTk1 == QueueEmpty
ReadyTx1 == QueueEmpty
ReadyTx2 == QueueEmpty
ReadyRealview == QueueNotFull  \* BIT(5) of URST is clear
ReadyHikey == QueueNotFull     \* UARTFR_TXFF is clear
(* Mutant: the flag of the receive queue, which stays empty.               *)
ReadyOdroidc2Receive == TRUE
ReadyOdroidc2 == QueueNotFull  \* UART_TX_FULL is clear
ReadySpike == QueueNotFull     \* external: sbi_console_putchar()

Ready ==
  CASE driver = "imx6" -> ReadyImx6         [] driver = "imx7" -> ReadyImx7
    [] driver = "imx31" -> ReadyImx31       [] driver = "zynq7000" -> ReadyZynq7000
    [] driver = "zynqmp" -> ReadyZynqmp     [] driver = "bcm2837" -> ReadyBcm2837
    [] driver = "exynos4" -> ReadyExynos4   [] driver = "exynos5" -> ReadyExynos5
    [] driver = "apq8064" -> ReadyApq8064   [] driver = "omap3" -> ReadyOmap3
    [] driver = "nslu2" -> ReadyNslu2       [] driver = "am335x" -> ReadyAm335x
    [] driver = "tk1" -> ReadyTk1           [] driver = "tx1" -> ReadyTx1
    [] driver = "tx2" -> ReadyTx2           [] driver = "realview" -> ReadyRealview
    [] driver = "hikey" -> ReadyHikey       [] driver = "odroidc2" -> ReadyOdroidc2
    [] driver = "spike" -> ReadySpike

(* Every driver but spike's calls itself for '\r' after a '\n'.            *)
Behind(c) == IF c = "\n" /\ driver # "spike" THEN <<"\r">> ELSE <<>>

Zynq == driver \in {"zynq7000", "zynqmp"}

Init ==
  /\ driver \in Drivers /\ depth \in Depths
  /\ a7 \in IF driver = "exynos5" THEN BOOLEAN ELSE {FALSE}
  /\ enabled \in IF Zynq THEN BOOLEAN ELSE {TRUE}
  /\ pc = [c \in Core |-> IF c = "first" THEN "platform_init" ELSE "off"]
  /\ todo = [c \in Core |-> <<>>]
  /\ fifo = <<>> /\ sent = <<>>
  /\ boot_reg \in IF driver = "exynos5" THEN BOOLEAN ELSE {FALSE}

Goto(c, label) == pc' = [pc EXCEPT ![c] = label]
Printing(c, text) == todo' = [todo EXCEPT ![c] = text]

(* Mutant: the transmitter is left as the boot loader had it.              *)
PlatformInitDisabled ==
  /\ pc["first"] = "platform_init" /\ ~a7
  /\ Goto("first", "print") /\ Printing("first", BootText)
  /\ UNCHANGED <<driver, depth, a7, enabled, fifo, sent, boot_reg>>

(* platform_init(): the zynqs enable their UART, an exynos5 that is on its *)
(* A15 already clears the boot register.                                   *)
PlatformInit ==
  /\ pc["first"] = "platform_init" /\ ~a7
  /\ enabled' = IF Zynq THEN TRUE ELSE enabled
  /\ boot_reg' = IF driver = "exynos5" THEN FALSE ELSE boot_reg
  /\ Goto("first", "print") /\ Printing("first", BootText)
  /\ UNCHANGED <<driver, depth, a7, fifo, sent>>

(* exynos5: on an A7 a line is printed and the A15 is booted; on the A15  *)
(* the boot register is cleared and main() goes on.                        *)
PlatformInitA7 ==
  /\ pc["first"] = "platform_init" /\ a7
  /\ Goto("first", "print") /\ Printing("first", SwitchText)
  /\ UNCHANGED <<driver, depth, a7, enabled, fifo, sent, boot_reg>>
BootCpu ==
  /\ pc["first"] = "print" /\ todo["first"] = <<>> /\ a7
  /\ boot_reg' = TRUE
  /\ pc' = [first |-> "shutdown", a15 |-> "reset"]
  /\ UNCHANGED <<driver, depth, a7, enabled, todo, fifo, sent>>

(* External: the A15 starts where cpu1_boot_reg says.                      *)
A15Starts ==
  /\ pc["a15"] = "reset" /\ boot_reg
  /\ Goto("a15", "platform_init")
  /\ UNCHANGED <<driver, depth, a7, enabled, todo, fifo, sent, boot_reg>>
PlatformInitA15 ==
  /\ pc["a15"] = "platform_init"
  /\ boot_reg' = FALSE
  /\ Goto("a15", "print") /\ Printing("a15", BootText)
  /\ UNCHANGED <<driver, depth, a7, enabled, fifo, sent>>

(* __fputc() of the next character, once the UART is ready for it.         *)
Fputc(c) ==
  /\ pc[c] = "print" /\ todo[c] # <<>> /\ Ready
  /\ fifo' = IF Len(fifo) < depth THEN Append(fifo, todo[c][1]) ELSE fifo
  /\ Printing(c, Behind(todo[c][1]) \o Tail(todo[c]))
  /\ UNCHANGED <<driver, depth, a7, enabled, pc, sent, boot_reg>>

(* External: the UART sends a byte.                                        *)
Send ==
  /\ enabled /\ fifo # <<>>
  /\ sent' = Append(sent, fifo[1]) /\ fifo' = Tail(fifo)
  /\ UNCHANGED <<driver, depth, a7, enabled, pc, todo, boot_reg>>

CoreStep(c) ==
  \/ c = "first" /\ (PlatformInit \/ PlatformInitA7 \/ BootCpu)
  \/ c = "a15" /\ (A15Starts \/ PlatformInitA15)
  \/ Fputc(c)
Next == Send \/ \E c \in Core : CoreStep(c)
FairSpec == Init /\ [][Next]_vars /\ WF_vars(Send) /\ \A c \in Core : WF_vars(CoreStep(c))

-----------------------------------------------------------------------------
(* Properties.                                                             *)
WithReturns(text) == FlattenSeq([k \in DOMAIN text |-> <<text[k]>> \o Behind(text[k])])
Output == WithReturns((IF a7 THEN SwitchText ELSE <<>>) \o BootText)

(* What is on the line and in the queue is what was printed, from its      *)
(* start: no byte lost, none out of order, each '\r' behind its '\n', and  *)
(* the A7's line before the A15's (each driver's wait for the UART).       *)
OutputInOrder == IsPrefix(sent \o fifo, Output)

(* All that is printed gets on the line: no driver waits for ever, not     *)
(* for a transmitter nobody has enabled either.                            *)
PrintEnds == <>[](sent = Output)
=============================================================================
