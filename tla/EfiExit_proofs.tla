--------------------------- MODULE EfiExit_proofs ---------------------------
(* Proofs about EfiExit, for firmware memory maps of any size, with        *)
(* descriptors of any size, and any first guess.                           *)
EXTENDS EfiExit, TLAPS

(* What the two properties do not say and their induction needs: where the *)
(* pool block is, and that the reported key is of the block's own version  *)
(* and never ahead of the map's.                                           *)
NumbersInv ==
  /\ descs \in Nat \ {0} /\ version \in Nat /\ key \in Int /\ copied \in Int
  /\ room \in Nat /\ map_size \in Nat \ {0}
PoolInv ==
  /\ leaked = 0
  /\ pc = "allocate_pool" => room = 0
  /\ pc = "get_memory_map" => room > 0
  /\ pc = "exit_boot_services" => room > 0
  /\ pc = "abort" => (room > 0 <=> refused = "exit_boot_services")
MapInv ==
  /\ pc # "main" => services
  /\ pc = "exit_boot_services" =>
       copied = key /\ key <= version /\ (key = version => descs * DescSize <= room)
  /\ pc = "main" => ~services /\ copied = version /\ descs * DescSize <= room
IInv == NumbersInv /\ PoolInv /\ MapInv

(* A non-zero number of non-empty descriptors takes room.                  *)
LEMMA MapTakesRoom == ASSUME NEW n \in Nat \ {0} PROVE n * DescSize \in Nat \ {0}
  <1>1. DescSize \in Nat \ {0}
    BY EfiAssumption
  <1> QED BY <1>1, SMT

LEMMA InitIInv == Init => IInv
<1> SUFFICES ASSUME Init PROVE IInv
  OBVIOUS
<1>1. {Guess, SizeOf} \subseteq Nat \ {0}
  BY EfiAssumption
<1>2. SizeOf * Guess \in Nat \ {0}
  BY <1>1, SMT
<1>3. descs \in Nat \ {0}
  <2>1. descs \in 1 .. MaxDescs - 1
    BY Zenon DEF Init
  <2>2. MaxDescs \in Nat
    BY EfiAssumption
  <2> QED BY <2>1, <2>2
<1>4. map_size \in Nat \ {0}
  BY <1>2, Zenon DEF Init
<1>5. version \in Nat /\ key \in Int /\ copied \in Int /\ room \in Nat
  <2>1. version = 0 /\ key \in {-1, 0} /\ copied = -1 /\ room = 0
    BY Zenon DEF Init
  <2> QED BY <2>1
<1>6. NumbersInv
  BY <1>3, <1>4, <1>5 DEF NumbersInv
<1>7. PoolInv
  <2>1. pc = "allocate_pool" /\ room = 0 /\ leaked = 0
    BY Zenon DEF Init
  <2> QED BY <2>1 DEF PoolInv
<1>8. MapInv
  <2>1. pc = "allocate_pool" /\ services = TRUE
    BY Zenon DEF Init
  <2> QED BY <2>1, Zenon DEF MapInv
<1> QED BY <1>6, <1>7, <1>8 DEF IInv

(* Whatever happens to the map, its size stays a size and its version goes *)
(* on exactly when it has changed.                                         *)
LEMMA MapGoesOn ==
  ASSUME NEW sizes, MapMay(sizes), NumbersInv
  PROVE /\ descs' \in Nat \ {0} /\ version' \in Nat /\ version <= version'
        /\ descs' # descs => version < version'
BY EfiAssumption DEF MapMay, NumbersInv

LEMMA NextIInv == IInv /\ [Next]_vars => IInv'
<1> SUFFICES ASSUME IInv, [Next]_vars PROVE IInv'
  OBVIOUS
<1> USE DEF IInv
<1>1. CASE AllocatePool
  <2>1. descs' \in Nat \ {0} /\ version' \in Nat
    BY <1>1, MapGoesOn DEF AllocatePool, NumbersInv
  <2>2. NumbersInv'
    BY <1>1, <2>1 DEF AllocatePool, NumbersInv
  <2>3. PoolInv'
    BY <1>1 DEF AllocatePool, PoolInv, NumbersInv
  <2>4. MapInv'
    BY <1>1 DEF AllocatePool, MapInv
  <2> QED BY <2>2, <2>3, <2>4
<1>2. CASE GetMemoryMap
  <2> DEFINE Needed == descs * DescSize
  <2>1. Needed \in Nat \ {0}
    BY MapTakesRoom DEF NumbersInv
  <2>2. Needed + SizeOf \in Nat \ {0}
    BY <2>1, EfiAssumption
  <2> HIDE DEF Needed
  <2>3. CASE Needed > room /\ map_size' = Needed + SizeOf /\ pc' = "allocate_pool"
             /\ FreePool /\ UNCHANGED <<key, refused>>
    <3>1. descs' \in Nat \ {0} /\ version' \in Nat
      BY <2>3, MapGoesOn DEF FreePool, NumbersInv
    <3> QED BY <1>2, <2>2, <2>3, <3>1 DEF GetMemoryMap, FreePool, NumbersInv, PoolInv, MapInv
  <2>4. CASE Needed <= room /\ map_size' = Needed /\ key' = version /\ copied' = version
             /\ pc' = "exit_boot_services" /\ UNCHANGED <<descs, version, room, refused>>
    <3>1. NumbersInv'
      BY <2>1, <2>4 DEF NumbersInv
    <3>2. PoolInv'
      BY <1>2, <2>4 DEF GetMemoryMap, PoolInv
    <3>3. descs' * DescSize = Needed
      BY <2>4 DEF Needed
    <3>4. MapInv'
      BY <1>2, <2>4, <3>3 DEF GetMemoryMap, NumbersInv, MapInv
    <3> QED BY <3>1, <3>2, <3>4
  <2>5. CASE refused' = "get_memory_map" /\ pc' = "abort" /\ FreePool /\ UNCHANGED <<map_size, key>>
    <3>1. descs' \in Nat \ {0} /\ version' \in Nat
      BY <2>5, MapGoesOn DEF FreePool, NumbersInv
    <3> QED BY <1>2, <2>5, <3>1 DEF GetMemoryMap, FreePool, NumbersInv, PoolInv, MapInv
  <2> QED BY <1>2, <2>3, <2>4, <2>5 DEF GetMemoryMap, Needed
<1>3. CASE ExitBootServices
  <2>1. NumbersInv'
    BY <1>3 DEF ExitBootServices, NumbersInv
  <2>2. PoolInv'
    BY <1>3 DEF ExitBootServices, PoolInv
  <2>3. descs' * DescSize = descs * DescSize
    BY <1>3 DEF ExitBootServices
  <2>4. MapInv'
    BY <1>3, <2>3 DEF ExitBootServices, MapInv
  <2> QED BY <2>1, <2>2, <2>4
<1>4. CASE FirmwareEvent
  <2>1. descs' \in Nat \ {0} /\ version' \in Nat /\ version < version'
    BY <1>4, MapGoesOn DEF FirmwareEvent, MapMay, NumbersInv
  <2>2. pc # "main"
    BY <1>4 DEF FirmwareEvent, MapInv
  <2> QED BY <1>4, <2>1, <2>2 DEF FirmwareEvent, NumbersInv, PoolInv, MapInv
<1>5. CASE UNCHANGED vars
  BY <1>5 DEF vars, NumbersInv, PoolInv, MapInv
<1> QED BY <1>1, <1>2, <1>3, <1>4, <1>5 DEF Next, Loader

LEMMA Inductive == Spec => []IInv
BY InitIInv, NextIInv, PTL DEF Spec

(* main() never goes on with boot services, or with a memory map that is   *)
(* older than the exit or does not fit its block.                          *)
THEOREM MapIsTheLast == Spec => []MapAtExit
<1>1. IInv => MapAtExit
  BY DEF IInv, MapInv, MapAtExit
<1> QED BY <1>1, Inductive, PTL

(* However many times the guess is too small, every block of the pool but  *)
(* the last is given back.                                                 *)
THEOREM PoolGivenBack == Spec => []NothingLeaked
<1>1. IInv => NothingLeaked
  BY DEF IInv, PoolInv, NothingLeaked
<1> QED BY <1>1, Inductive, PTL
=============================================================================
