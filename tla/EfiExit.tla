------------------------------ MODULE EfiExit ------------------------------
(***************************************************************************)
(* An EFI image leaves the firmware: efi_exit_boot_services(), which main()*)
(* calls first.  The firmware is external; an allocation may split, and a  *)
(* free may join, an entry of its memory map, and its own events change    *)
(* the map, and with it the key, at any time before the exit.              *)
(***************************************************************************)
EXTENDS Integers

CONSTANTS
  Guess,      \* descriptors guessed at first, 32
  SizeOf,     \* sizeof(efi_memory_desc_t)
  DescSize,   \* the size the firmware's descriptors have
  MaxDescs,   \* bound: the map never grows beyond this
  MaxEvents   \* bound: changes of the map by the firmware's own events
ASSUME EfiAssumption ==
  {Guess, SizeOf, DescSize, MaxDescs} \subseteq Nat \ {0} /\ MaxEvents \in Nat

VARIABLES
  pc,
  services,   \* boot services are available
  descs,      \* descriptors in the firmware's memory map
  version,    \* of the map; what the firmware makes a key of
  map_size,   \* the local of that name
  key,        \* the version get_memory_map() reported
  room,       \* bytes of the pool block, 0 when there is none
  leaked,     \* pool blocks no pointer leads to
  copied,     \* the version of the map that the block holds, -1 if none
  refused     \* the service that failed, "" if none
vars == <<pc, services, descs, version, map_size, key, room, leaked, copied, refused>>

(* efi_early_init() has stored the table the services are called through.  *)
Init ==
  /\ pc = "allocate_pool" /\ services = TRUE
  /\ descs \in 1 .. MaxDescs - 1 /\ version = 0
  /\ map_size = SizeOf * Guess
  /\ key \in {-1, 0}    \* uninitialised
  /\ room = 0 /\ leaked = 0 /\ copied = -1 /\ refused = ""

(* External: what a call or an event may do to the map.                    *)
MapMay(sizes) ==
  \E n \in sizes \intersect 1..MaxDescs :
    /\ descs' = n
    /\ version' = IF n = descs THEN version ELSE version + 1

AllocatePool ==
  /\ pc = "allocate_pool"
  /\ \/ /\ MapMay({descs, descs + 1})
        /\ room' = map_size /\ leaked' = leaked + (IF room > 0 THEN 1 ELSE 0)
        /\ copied' = -1
        /\ pc' = "get_memory_map" /\ UNCHANGED refused
     \/ /\ refused' = "allocate_pool" /\ pc' = "abort"
        /\ UNCHANGED <<descs, version, room, leaked, copied>>
  /\ UNCHANGED <<services, map_size, key>>

FreePool == room' = 0 /\ copied' = -1 /\ MapMay({descs, descs - 1})

(* Mutant: a buffer that is too small is not freed.                        *)
GetMemoryMapLeaks ==
  /\ pc = "get_memory_map"
  /\ \/ /\ descs * DescSize > room
        /\ map_size' = descs * DescSize + SizeOf
        /\ pc' = "allocate_pool"
        /\ UNCHANGED <<descs, version, room, copied, key, refused>>
     \/ /\ descs * DescSize <= room
        /\ map_size' = descs * DescSize /\ key' = version /\ copied' = version
        /\ pc' = "exit_boot_services" /\ UNCHANGED <<descs, version, room, refused>>
     \/ /\ refused' = "get_memory_map" /\ pc' = "abort"
        /\ FreePool /\ UNCHANGED <<map_size, key>>
  /\ UNCHANGED <<services, leaked>>

(* Mutant: the guess starts anew.                                          *)
GetMemoryMapStartsOver ==
  /\ pc = "get_memory_map"
  /\ \/ /\ descs * DescSize > room
        /\ map_size' = SizeOf * Guess
        /\ pc' = "allocate_pool"
        /\ FreePool /\ UNCHANGED <<key, refused>>
     \/ /\ descs * DescSize <= room
        /\ map_size' = descs * DescSize /\ key' = version /\ copied' = version
        /\ pc' = "exit_boot_services" /\ UNCHANGED <<descs, version, room, refused>>
     \/ /\ refused' = "get_memory_map" /\ pc' = "abort"
        /\ FreePool /\ UNCHANGED <<map_size, key>>
  /\ UNCHANGED <<services, leaked>>

(* Mutant: the status is not looked at.                                    *)
GetMemoryMapUnchecked ==
  /\ pc = "get_memory_map"
  /\ IF descs * DescSize > room
       THEN map_size' = descs * DescSize /\ UNCHANGED <<key, copied>>
       ELSE map_size' = descs * DescSize /\ key' = version /\ copied' = version
  /\ pc' = "exit_boot_services"
  /\ UNCHANGED <<services, descs, version, room, leaked, refused>>

(* A buffer that is too small is freed, and the size the firmware asks for *)
(* is tried with one descriptor more.                                      *)
GetMemoryMap ==
  /\ pc = "get_memory_map"
  /\ \/ /\ descs * DescSize > room
        /\ map_size' = descs * DescSize + SizeOf
        /\ pc' = "allocate_pool"
        /\ FreePool /\ UNCHANGED <<key, refused>>
     \/ /\ descs * DescSize <= room
        /\ map_size' = descs * DescSize /\ key' = version /\ copied' = version
        /\ pc' = "exit_boot_services" /\ UNCHANGED <<descs, version, room, refused>>
     \/ /\ refused' = "get_memory_map" /\ pc' = "abort"
        /\ FreePool /\ UNCHANGED <<map_size, key>>
  /\ UNCHANGED <<services, leaked>>

(* The firmware refuses a key that is not the map's; the loader gives up.  *)
ExitBootServices ==
  /\ pc = "exit_boot_services"
  /\ IF key = version THEN pc' = "main" /\ services' = FALSE /\ UNCHANGED refused
     ELSE pc' = "abort" /\ refused' = "exit_boot_services" /\ UNCHANGED services
  /\ UNCHANGED <<descs, version, map_size, key, room, leaked, copied>>

(* External: an event of the firmware changes the map.                     *)
FirmwareEvent ==
  /\ services /\ pc # "abort" /\ version < MaxEvents
  /\ MapMay({descs - 1, descs + 1})
  /\ UNCHANGED <<pc, services, map_size, key, room, leaked, copied, refused>>

Loader == AllocatePool \/ GetMemoryMap \/ ExitBootServices
Next == Loader \/ FirmwareEvent
Spec == Init /\ [][Next]_vars
FairSpec == Spec /\ WF_vars(Loader)

-----------------------------------------------------------------------------
(* Properties.                                                             *)

(* main() goes on only with the boot services gone and, in the block, the  *)
(* whole map as it was when they went (the key handed to                   *)
(* exit_boot_services() is that of the copy).                              *)
MapAtExit == pc = "main" => ~services /\ copied = version /\ descs * DescSize <= room

(* However often the guess is repeated, no block of the pool is lost; when *)
(* the loader gives up, only the last refusal leaves the map allocated.    *)
NothingLeaked ==
  /\ leaked = 0
  /\ pc = "abort" => (room > 0 <=> refused = "exit_boot_services")

(* As long as the map cannot grow for ever, the guessing ends: the loader  *)
(* reaches main() or abort() (the loop "again").                           *)
GuessingEnds == <>(pc \in {"main", "abort"})
=============================================================================
