-------------------------- MODULE ModeSwitch_proofs --------------------------
(* Proofs about ModeSwitch, for interrupt controllers of any size.         *)
EXTENDS ModeSwitch, TLAPS

(* sp is banked: besides the stack pointer in use, SVC mode's own one must *)
(* be the loader's all the time, as tk1 comes back to it as it left it.    *)
StackInv ==
  /\ DOMAIN sp = Modes /\ mode \in Modes
  /\ sp[mode] = "stack" /\ sp["svc"] = "stack"

LEMMA InitStackInv == Init => StackInv
BY DEF Init, StackInv, Modes

LEMMA NextStackInv == StackInv /\ [Next]_vars => StackInv'
<1> SUFFICES ASSUME StackInv, [Next]_vars PROVE StackInv'
  OBVIOUS
<1> USE DEF StackInv, Modes
<1>1. CASE SwitchToMonMode \/ SwitchToMonModeImx6
  BY <1>1 DEF SwitchToMonMode, SwitchToMonModeImx6
<1>2. CASE SwitchToHypMode
  BY <1>2 DEF SwitchToHypMode
<1>3. CASE SwitchToNsSvcMode
  BY <1>3 DEF SwitchToNsSvcMode
<1>4. CASE ModeSwitchNs
  BY <1>4 DEF ModeSwitchNs
<1>5. ASSUME UNCHANGED <<mode, sp>> PROVE StackInv'
  BY <1>5
<1>6. CASE Undefined \/ InstallMonitorHook \/ EnableScuNsAccess \/ EnableNsAccessCp
           \/ EnableNsAccessCpImx6 \/ SetSmpBit \/ SetCsu
           \/ RouteIrqsToNonsecure \/ RouteIrqsToNonsecureImx6
  BY <1>5, <1>6 DEF Undefined, InstallMonitorHook, EnableScuNsAccess, EnableNsAccessCp,
       EnableNsAccessCpImx6, SetSmpBit, SetCsu, Grant, RouteIrqsToNonsecure,
       RouteIrqsToNonsecureImx6, RouteIrqs
<1>7. CASE UNCHANGED vars
  BY <1>5, <1>7 DEF vars
<1> QED BY <1>1, <1>2, <1>3, <1>4, <1>6, <1>7 DEF Next

(* In every configuration, and whatever the boot loader set SCR to, the    *)
(* loader's stack is under it in each mode it goes through.                *)
THEOREM StackUnderEveryMode == Spec => []StackKept
<1>1. StackInv => StackKept
  BY DEF StackInv, StackKept
<1> QED BY <1>1, InitStackInv, NextStackInv, PTL DEF Spec

(***************************************************************************)
(* The mode and the world platform_init() ends in                          *)
(***************************************************************************)
Calls == {"mon", "hook", "scu", "cp", "smp", "csu", "irqs", "ns_svc", "hyp"}
Left(call) == \E k \in DOMAIN todo : todo[k] = call

(* What the order of the calls is good for: the interrupts are not routed  *)
(* before monitor mode, and the switch to the mode the kernel wants is the *)
(* last call.                                                              *)
Ordered(calls) ==
  /\ calls \in Seq(Calls)
  /\ \A k \in DOMAIN calls : calls[k] = "irqs" => \A j \in DOMAIN calls : k < j => calls[j] # "mon"
  /\ \A k \in DOMAIN calls : calls[k] \in {"ns_svc", "hyp"} => k = Len(calls)
  /\ calls # <<>> => calls[Len(calls)] = build.mode
Routed == 0 .. nirqs - 1 \subseteq group1 \intersect low

(* A call that is not left has had its effect.  Monitor mode, once it is   *)
(* entered, is secure, and left by the last call only.                     *)
ModeInv ==
  build.mode # "svc" =>
    /\ Ordered(todo)
    /\ ~Left("mon") => mon_init_done
    /\ mode = "mon" => mon_init_done
    /\ mon_init_done /\ (todo # <<>> \/ build.mode = "mon") => mode = "mon" /\ "NS" \notin scr
    /\ build.mode # "mon" /\ ~Left("irqs") => Routed
    /\ build.mode # "mon" /\ ~Left("cp") => "cp" \in open
    /\ build.hook /\ ~Left("hook") => mvbar
    /\ build.mode = "ns_svc" /\ todo = <<>> => mode = "svc" /\ "NS" \in scr
    /\ build.mode = "hyp" /\ todo = <<>> => mode = "hyp" /\ {"NS", "HCE"} \subseteq scr /\ "SCD" \notin scr
BuildInv == build \in Builds /\ nirqs \in Nat

(* What a concatenation is made of.                                       *)
LEMMA Joined ==
  ASSUME NEW a \in Seq(Calls), NEW b \in Seq(Calls)
  PROVE  /\ a \o b \in Seq(Calls) /\ Len(a \o b) = Len(a) + Len(b)
         /\ \A k \in 1..Len(a) : (a \o b)[k] = a[k]
         /\ \A k \in 1..Len(b) : (a \o b)[Len(a) + k] = b[k]
OBVIOUS

(* The calls of a tk1, and where its enable_ns_access_cp() is in them.     *)
Tk1(hook, rest) == (IF hook THEN <<"mon", "hook">> ELSE <<>>) \o <<"cp">> \o rest
CpAt(hook) == IF hook THEN 3 ELSE 1
LEMMA Tk1Calls ==
  ASSUME NEW hook \in BOOLEAN, NEW rest \in Seq(Calls)
  PROVE  /\ Tk1(hook, rest) \in Seq(Calls) /\ Len(Tk1(hook, rest)) = CpAt(hook) + Len(rest)
         /\ Tk1(hook, rest)[CpAt(hook)] = "cp"
         /\ hook => Tk1(hook, rest)[1] = "mon" /\ Tk1(hook, rest)[2] = "hook"
         /\ \A k \in 1..Len(rest) : Tk1(hook, rest)[CpAt(hook) + k] = rest[k]
<1> DEFINE n == CpAt(hook)
           p == IF hook THEN <<"mon", "hook">> ELSE <<>>
           c == <<"cp">>
           q == p \o c
<1>1. /\ p \in Seq(Calls) /\ c \in Seq(Calls) /\ Len(c) = 1 /\ c[1] = "cp" /\ Len(p) = n - 1
      /\ hook => p[1] = "mon" /\ p[2] = "hook"
  <2>1. CASE hook
    BY <2>1 DEF Calls, CpAt
  <2>2. CASE ~hook
    BY <2>2 DEF Calls, CpAt
  <2> QED BY <2>1, <2>2
<1>0. n \in {1, 3} /\ (hook => n = 3)
  BY DEF CpAt
<1> HIDE DEF p, c, n
<1>2. /\ q \in Seq(Calls) /\ Len(q) = Len(p) + Len(c)
      /\ \A k \in 1..Len(p) : q[k] = p[k]
      /\ \A k \in 1..Len(c) : q[Len(p) + k] = c[k]
  BY <1>1, Joined
<1>3. Len(q) = n /\ q[n] = "cp" /\ (hook => q[1] = "mon" /\ q[2] = "hook")
  BY <1>0, <1>1, <1>2
<1>4. Tk1(hook, rest) = q \o rest
  BY DEF p, c, Tk1
<1> HIDE DEF q
<1>5. /\ q \o rest \in Seq(Calls) /\ Len(q \o rest) = Len(q) + Len(rest)
      /\ \A k \in 1..Len(q) : (q \o rest)[k] = q[k]
      /\ \A k \in 1..Len(rest) : (q \o rest)[Len(q) + k] = rest[k]
  <2>1. q \in Seq(Calls)
    BY <1>2
  <2> QED BY <2>1, Joined
<1> QED BY <1>0, <1>3, <1>4, <1>5 DEF n

(* The calls a configuration compiles in are in that order.                *)
LEMMA Programs ==
  ASSUME build \in Builds, build.mode # "svc"
  PROVE  /\ Ordered(Program(build)) /\ Program(build) # <<>>
         /\ \A call \in {"mon"} \union (IF build.mode = "mon" THEN {} ELSE {"irqs", "cp"})
                                \union (IF build.hook THEN {"hook"} ELSE {}) :
              \E k \in DOMAIN Program(build) : Program(build)[k] = call
<1> DEFINE s == Program(build)
<1>1. CASE build.plat = "imx6"
  <2>1. build.hook = FALSE /\ build.mode \in {"ns_svc", "mon"}
    BY <1>1 DEF Builds
  <2>2. CASE build.mode = "ns_svc"
    <3>1. s = <<"mon", "scu", "cp", "smp", "csu", "irqs", "ns_svc">>
      BY <1>1, <2>2 DEF Program
    <3> QED BY <2>1, <2>2, <3>1 DEF Ordered, Calls
  <2>3. CASE build.mode = "mon"
    <3>1. s = <<"mon">>
      BY <1>1, <2>3 DEF Program
    <3> QED BY <2>1, <2>3, <3>1 DEF Ordered, Calls
  <2> QED BY <2>1, <2>2, <2>3
<1>2. CASE build.plat = "tk1"
  <2>1. build.hook \in BOOLEAN /\ build.mode \in {"ns_svc", "hyp", "mon"}
    BY <1>2 DEF Builds
  <2> DEFINE rest == IF build.mode = "mon" THEN <<"mon">> ELSE <<"mon", "irqs", build.mode>>
             n == CpAt(build.hook)
  <2>2. /\ rest \in Seq(Calls) /\ rest[1] = "mon" /\ rest[Len(rest)] = build.mode
        /\ Len(rest) = IF build.mode = "mon" THEN 1 ELSE 3
        /\ build.mode # "mon" => rest[2] = "irqs"
    <3>1. CASE build.mode = "mon"
      BY <3>1 DEF Calls
    <3>2. CASE build.mode # "mon"
      BY <2>1, <3>2 DEF Calls
    <3> QED BY <3>1, <3>2
  <2>3. s = Tk1(build.hook, rest)
    BY <1>2, <2>1 DEF Program, Tk1
  <2> HIDE DEF rest, s
  <2>4. /\ s \in Seq(Calls) /\ Len(s) = n + Len(rest) /\ s[n] = "cp"
        /\ build.hook => s[1] = "mon" /\ s[2] = "hook"
        /\ \A k \in 1..Len(rest) : s[n + k] = rest[k]
    <3>1. build.hook \in BOOLEAN /\ rest \in Seq(Calls)
      BY <2>1, <2>2
    <3> QED BY <2>3, <3>1, Tk1Calls, Zenon
  <2> HIDE DEF n
  <2>5. n \in {1, 3} /\ (n = 3 <=> build.hook) /\ Len(s) \in Nat
    BY <2>1, <2>4 DEF n, CpAt
  <2>6. CASE build.mode = "mon"
    <3>1. Len(s) = n + 1 /\ s[n] = "cp" /\ s[n+1] = "mon" /\ DOMAIN s = 1 .. n + 1
      BY <2>2, <2>4, <2>6, <2>5
    <3>2. Ordered(s) /\ s # <<>>
      BY <2>4, <2>6, <2>5, <3>1 DEF Ordered
    <3> QED BY <2>4, <2>6, <2>5, <3>1, <3>2 DEF s
  <2>7. CASE build.mode # "mon"
    <3>1. /\ Len(s) = n + 3 /\ s[n] = "cp" /\ s[n+1] = "mon" /\ s[n+2] = "irqs"
          /\ s[n+3] = build.mode /\ DOMAIN s = 1 .. n + 3
      BY <2>2, <2>4, <2>7, <2>5
    <3>2. Ordered(s) /\ s # <<>>
      BY <2>4, <2>7, <2>5, <3>1 DEF Ordered
    <3> QED BY <2>4, <2>7, <2>5, <3>1, <3>2 DEF s
  <2> QED BY <2>6, <2>7
<1> QED BY <1>1, <1>2 DEF Builds

(* A call made is the first of those left, the others are left.            *)
LEMMA CallMade ==
  ASSUME Ordered(todo), todo # <<>>, todo' = Tail(todo), UNCHANGED build
  PROVE  /\ Ordered(todo)' /\ \A call : Left(call) <=> (call = Head(todo) \/ Left(call)')
         /\ Head(todo) = "irqs" => ~Left("mon")
         /\ Head(todo) \in {"ns_svc", "hyp"} => todo' = <<>> /\ Head(todo) = build.mode
         /\ todo' = <<>> => Head(todo) = build.mode
<1>1. todo \in Seq(Calls) /\ Len(todo) \in Nat /\ Len(todo) > 0 /\ DOMAIN todo = 1..Len(todo)
  BY DEF Ordered
<1>2. /\ todo' \in Seq(Calls) /\ Len(todo') = Len(todo) - 1 /\ DOMAIN todo' = 1 .. Len(todo) - 1
      /\ \A k \in 1 .. Len(todo) - 1 : todo'[k] = todo[k+1]
      /\ Head(todo) = todo[1]
  BY <1>1
<1>3. \A call : Left(call) <=> (call = Head(todo) \/ Left(call)')
  <2> SUFFICES ASSUME NEW call PROVE Left(call) <=> (call = Head(todo) \/ Left(call)')
    OBVIOUS
  <2>1. ASSUME Left(call), call # Head(todo) PROVE Left(call)'
    <3>1. PICK k \in DOMAIN todo : todo[k] = call
      BY <2>1 DEF Left
    <3>2. k - 1 \in 1 .. Len(todo) - 1 /\ todo'[k - 1] = call
      BY <1>1, <1>2, <2>1, <3>1
    <3> QED BY <1>2, <3>2 DEF Left
  <2>2. ASSUME Left(call)' PROVE Left(call)
    <3>1. PICK k \in DOMAIN todo' : todo'[k] = call
      BY <2>2 DEF Left
    <3>2. k + 1 \in DOMAIN todo /\ todo[k + 1] = call
      BY <1>1, <1>2, <3>1
    <3> QED BY <3>2 DEF Left
  <2>3. Left(Head(todo))
    BY <1>1, <1>2 DEF Left
  <2> QED BY <2>1, <2>2, <2>3
<1>4. todo' = <<>> <=> Len(todo) = 1
  <2>1. \A s \in Seq(Calls) : s = <<>> <=> Len(s) = 0
    OBVIOUS
  <2>2. todo' = <<>> <=> Len(todo') = 0
    BY <1>2, <2>1
  <2> QED BY <1>1, <1>2, <2>2
<1>5. Ordered(todo)'
  <2>1. ASSUME NEW k \in DOMAIN todo', todo'[k] = "irqs", NEW j \in DOMAIN todo', k < j
        PROVE  todo'[j] # "mon"
    <3>1. /\ k + 1 \in DOMAIN todo /\ j + 1 \in DOMAIN todo /\ k + 1 < j + 1
          /\ todo[k + 1] = "irqs" /\ todo[j + 1] = todo'[j]
      BY <1>1, <1>2, <2>1
    <3> QED BY <3>1 DEF Ordered
  <2>2. ASSUME NEW k \in DOMAIN todo', todo'[k] \in {"ns_svc", "hyp"} PROVE k = Len(todo')
    <3>1. k + 1 \in DOMAIN todo /\ todo[k + 1] \in {"ns_svc", "hyp"}
      BY <1>1, <1>2, <2>2
    <3>2. k + 1 = Len(todo)
      BY <3>1 DEF Ordered
    <3> QED BY <1>1, <1>2, <3>2
  <2>3. todo' # <<>> => todo'[Len(todo')] = build'.mode
    <3>1. todo[Len(todo)] = build.mode
      BY DEF Ordered
    <3> QED BY <1>1, <1>2, <1>4, <3>1
  <2> QED BY <1>2, <2>1, <2>2, <2>3 DEF Ordered
<1>6. Head(todo) = "irqs" => ~Left("mon")
  <2> SUFFICES ASSUME todo[1] = "irqs", NEW k \in DOMAIN todo PROVE todo[k] # "mon"
    BY <1>2 DEF Left
  <2>1. CASE k = 1
    BY <2>1
  <2>2. CASE k # 1
    <3>1. 1 \in DOMAIN todo /\ 1 < k
      BY <1>1, <2>2
    <3> QED BY <3>1 DEF Ordered
  <2> QED BY <2>1, <2>2
<1>7. Head(todo) \in {"ns_svc", "hyp"} => Len(todo) = 1
  BY <1>1, <1>2 DEF Ordered
<1>8. Len(todo) = 1 => Head(todo) = build.mode
  BY <1>2 DEF Ordered
<1> QED BY <1>3, <1>4, <1>5, <1>6, <1>7, <1>8

(* What the two loops of route_irqs_to_nonsecure() write, 32 and 4         *)
(* interrupts to a register, reaches every interrupt, also when their      *)
(* number is no multiple of 32 or of 4.                                    *)
By32(n) == {32 * (i \div 32) + k : i \in 0 .. n - 1, k \in 0..31}
By4(n) == {4 * (i \div 4) + k : i \in 0 .. n - 1, k \in 0..3}
LEMMA EveryIrqRouted ==
  ASSUME NEW n \in Nat
  PROVE  0 .. n - 1 \subseteq By32(n) /\ 0 .. n - 1 \subseteq By4(n)
<1>1. ASSUME NEW i \in 0 .. n - 1
      PROVE  /\ \E k \in 0..31 : i = 32 * (i \div 32) + k
             /\ \E k \in 0..3 : i = 4 * (i \div 4) + k
  <2>1. i \in Nat
    OBVIOUS
  <2>2. i % 32 \in 0..31 /\ i = 32 * (i \div 32) + (i % 32)
    BY <2>1
  <2>3. i % 4 \in 0..3 /\ i = 4 * (i \div 4) + (i % 4)
    BY <2>1
  <2> QED BY <2>2, <2>3
<1>2. ASSUME NEW i \in 0 .. n - 1 PROVE i \in By32(n)
  BY <1>1 DEF By32
<1>3. ASSUME NEW i \in 0 .. n - 1 PROVE i \in By4(n)
  BY <1>1 DEF By4
<1> QED BY <1>2, <1>3

LEMMA InitModeInv == Init => BuildInv /\ ModeInv
<1> SUFFICES ASSUME Init PROVE BuildInv /\ ModeInv
  OBVIOUS
<1>1. BuildInv /\ todo = Program(build) /\ mon_init_done = FALSE /\ mode = "svc"
  BY IrqAssumption DEF Init, BuildInv
<1> SUFFICES ASSUME build.mode # "svc" PROVE ModeInv
  BY <1>1 DEF ModeInv
<1>2. /\ Ordered(todo) /\ todo # <<>>
      /\ \A call \in {"mon"} \union (IF build.mode = "mon" THEN {} ELSE {"irqs", "cp"})
                             \union (IF build.hook THEN {"hook"} ELSE {}) : Left(call)
  BY <1>1, Programs DEF BuildInv, Left
<1>3. Left("mon") /\ (build.mode # "mon" => Left("irqs") /\ Left("cp")) /\ (build.hook => Left("hook"))
  BY <1>2
<1> HIDE DEF Left
<1> QED BY <1>1, <1>2, <1>3 DEF ModeInv

LEMMA NextModeInv == BuildInv /\ ModeInv /\ [Next]_vars => (BuildInv /\ ModeInv)'
<1> SUFFICES ASSUME BuildInv, ModeInv, [Next]_vars PROVE (BuildInv /\ ModeInv)'
  OBVIOUS
<1>1. UNCHANGED <<build, nirqs>>
  BY DEF Next, vars, Undefined, SwitchToMonMode, SwitchToMonModeImx6, InstallMonitorHook,
       EnableScuNsAccess, EnableNsAccessCp, EnableNsAccessCpImx6, SetSmpBit, SetCsu, Grant,
       RouteIrqsToNonsecure, RouteIrqsToNonsecureImx6, RouteIrqs, SwitchToHypMode,
       SwitchToNsSvcMode, ModeSwitchNs, Return
<1>2. BuildInv'
  BY <1>1 DEF BuildInv
<1> SUFFICES ASSUME build.mode # "svc" PROVE ModeInv'
  BY <1>1, <1>2 DEF ModeInv
<1>3. ASSUME UNCHANGED <<todo, mode, scr, mon_init_done, group1, low, open, mvbar>> PROVE ModeInv'
  BY <1>1, <1>3 DEF ModeInv, Ordered, Left, Routed
<1>4. ASSUME NEW call, At(call), Return
      PROVE  /\ todo # <<>> /\ Ordered(todo)'
             /\ \A c : c # call => (Left(c)' <=> Left(c))
             /\ call = "irqs" => ~Left("mon")
             /\ call \in {"ns_svc", "hyp"} => todo' = <<>> /\ call = build.mode
             /\ todo' = <<>> => call = build.mode
  <2>1. todo # <<>> /\ Head(todo) = call /\ todo' = Tail(todo) /\ Ordered(todo)
    BY <1>4 DEF At, Return, ModeInv
  <2> QED BY <1>1, <2>1, CallMade
<1>5. CASE Undefined
  BY <1>3, <1>5 DEF Undefined
<1>6. CASE SwitchToMonMode \/ SwitchToMonModeImx6
  <2>1. /\ At("mon") /\ Return /\ UNCHANGED <<group1, low, open, mvbar>> /\ mon_init_done'
        /\ IF mon_init_done THEN UNCHANGED <<mode, scr>>
           ELSE mode' = "mon" /\ "NS" \notin scr'
    BY <1>6 DEF SwitchToMonMode, SwitchToMonModeImx6, Secure, ModeInv
  <2>2. todo # <<>> /\ Ordered(todo)' /\ (\A c : c # "mon" => (Left(c)' <=> Left(c)))
        /\ (todo' = <<>> => build.mode = "mon")
    BY <1>4, <2>1
  <2> QED BY <1>1, <2>1, <2>2 DEF ModeInv, Routed
<1>7. CASE InstallMonitorHook
  <2>1. /\ At("hook") /\ Return /\ UNCHANGED <<mode, scr, mon_init_done, group1, low, open>> /\ mvbar'
    BY <1>7 DEF InstallMonitorHook
  <2>2. todo # <<>> /\ Ordered(todo)' /\ (\A c : c # "hook" => (Left(c)' <=> Left(c)))
        /\ (todo' = <<>> => build.mode = "hook")
    BY <1>4, <2>1
  <2>3. build.mode # "hook"
    BY DEF BuildInv, Builds
  <2> QED BY <1>1, <2>1, <2>2, <2>3 DEF ModeInv, Routed
<1>8. ASSUME NEW call \in {"scu", "cp", "smp", "csu"}, Grant(call) PROVE ModeInv'
  <2>1. /\ At(call) /\ Return /\ UNCHANGED <<mode, scr, mon_init_done, group1, low, mvbar>>
        /\ open' = open \union {call}
    BY <1>8 DEF Grant
  <2>2. todo # <<>> /\ Ordered(todo)' /\ (\A c : c # call => (Left(c)' <=> Left(c)))
        /\ (todo' = <<>> => build.mode = call)
    BY <1>4, <2>1
  <2>3. build.mode # call
    BY DEF BuildInv, Builds
  <2> QED BY <1>1, <2>1, <2>2, <2>3 DEF ModeInv, Routed
<1>9. CASE EnableScuNsAccess \/ EnableNsAccessCp \/ EnableNsAccessCpImx6 \/ SetSmpBit \/ SetCsu
  BY <1>8, <1>9 DEF EnableScuNsAccess, EnableNsAccessCp, EnableNsAccessCpImx6, SetSmpBit, SetCsu
<1>10. CASE RouteIrqsToNonsecure \/ RouteIrqsToNonsecureImx6
  <2>1. /\ At("irqs") /\ Return /\ UNCHANGED <<mode, scr, mon_init_done, open, mvbar>>
        /\ Secure => group1' = By32(nirqs) /\ low' = By4(nirqs)
    BY <1>10 DEF RouteIrqsToNonsecure, RouteIrqsToNonsecureImx6, RouteIrqs, By32, By4
  <2>2. todo # <<>> /\ Ordered(todo)' /\ (\A c : c # "irqs" => (Left(c)' <=> Left(c)))
        /\ (todo' = <<>> => build.mode = "irqs") /\ ~Left("mon")
    BY <1>4, <2>1
  <2>3. build.mode # "irqs"
    BY DEF BuildInv, Builds
  <2>4. Secure
    BY <2>2 DEF ModeInv, Secure
  <2>5. Routed'
    <3>1. nirqs \in Nat
      BY DEF BuildInv
    <3>2. 0 .. nirqs - 1 \subseteq group1' /\ 0 .. nirqs - 1 \subseteq low'
      BY <2>1, <2>4, <3>1, EveryIrqRouted
    <3> QED BY <1>1, <3>2 DEF Routed
  <2> QED BY <1>1, <2>1, <2>2, <2>3, <2>5 DEF ModeInv
<1>11. CASE SwitchToHypMode \/ SwitchToNsSvcMode \/ ModeSwitchNs
  <2>1. /\ Return /\ UNCHANGED <<mon_init_done, group1, low, open, mvbar>> /\ "NS" \in scr'
        /\ \/ At("hyp") /\ mode' = "hyp" /\ "HCE" \in scr' /\ "SCD" \notin scr'
           \/ At("ns_svc") /\ mode' = "svc"
    BY <1>11 DEF SwitchToHypMode, SwitchToNsSvcMode, ModeSwitchNs
  <2>2. PICK call \in {"hyp", "ns_svc"} :
          /\ At(call) /\ (call = "hyp" => mode' = "hyp" /\ "HCE" \in scr' /\ "SCD" \notin scr')
          /\ (call = "ns_svc" => mode' = "svc")
    BY <2>1
  <2>3. Ordered(todo)' /\ (\A c : c # call => (Left(c)' <=> Left(c))) /\ todo' = <<>> /\ build.mode = call
    BY <1>4, <2>1, <2>2
  <2> QED BY <1>1, <2>1, <2>2, <2>3 DEF ModeInv, Routed
<1>12. CASE UNCHANGED vars
  BY <1>3, <1>12 DEF vars
<1> QED BY <1>2, <1>5, <1>6, <1>7, <1>9, <1>10, <1>11, <1>12 DEF Next

(* Whatever world and SCR the boot loader leaves, and whatever number of   *)
(* interrupts there is: platform_init() takes no step it could end in      *)
(* another mode or world by, and skips none of what the kernel needs       *)
(* there.                                                                  *)
THEOREM ConfiguredModeReached == Spec => []Configured
<1> DEFINE Inv == BuildInv /\ ModeInv
<1>1. Inv => Configured
  <2> SUFFICES ASSUME Inv, todo = <<>>, build.mode # "svc" PROVE Configured
    BY DEF Configured
  <2>1. \A call : ~Left(call)
    BY DEF Left
  <2>2. build.mode \in {"ns_svc", "hyp", "mon"} /\ build.hook \in BOOLEAN
    BY DEF BuildInv, Builds
  <2> QED BY <2>1, <2>2 DEF ModeInv, Configured, Routed
<1>2. Init => Inv
  BY InitModeInv
<1>3. Inv /\ [Next]_vars => Inv'
  BY NextModeInv
<1> QED BY <1>1, <1>2, <1>3, PTL DEF Spec
=============================================================================
