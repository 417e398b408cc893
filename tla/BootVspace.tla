----------------------------- MODULE BootVspace -----------------------------
(***************************************************************************)
(* The page tables the loader turns the MMU on with: 32/mmu.c, 64/mmu.c    *)
(* and map_kernel_window() of arch-riscv/boot.c, and the hardware's walk   *)
(* through them.  Addresses count 4 KiB pages; the tables keep their shape *)
(* and the relations of their sizes, which are constants.                  *)
(***************************************************************************)
EXTENDS Integers, Sequences

CONSTANTS
  SectionPages, \* pages of an ARM section, 1 MiB
  PdEntries,    \* sections in 4 GiB
  Entries,      \* entries of an LPAE, AArch64 or Sv39 table
  BlockPages,   \* pages of a 2 MiB block
  CastGiB,      \* the identity entries of Sv39 whose PTE fits uint32_t
  Entries32,    \* entries of an Sv32 table, of 4 MiB each
  Vectors,      \* the page of ARM_VECTOR_TABLE
  arm_vector_table
ASSUME VspaceAssumption ==
  /\ {SectionPages, PdEntries, Entries, BlockPages, CastGiB, Entries32} \subseteq Nat \ {0}
  /\ Entries > 2 /\ CastGiB <= Entries - 2 /\ arm_vector_table \in Nat
  /\ SectionPages * PdEntries = 4 * Entries * BlockPages
  /\ SectionPages * PdEntries = 2 * Entries32 * BlockPages
  /\ Vectors \in SectionPages * (PdEntries - 1) .. SectionPages * PdEntries - 1

Word32 == SectionPages * PdEntries    \* 4 GiB
GiB == Entries * BlockPages
Neg32(a) == (Word32 - a) % Word32

(* A table from one of its entries on, a page or block, or nothing.        *)
TableAt(t, k) == [kind |-> "table", to |-> t, at |-> k]
Leaf(a) == [kind |-> "leaf", to |-> a]
Empty == [kind |-> "empty"]

(* init_boot_vspace(), 32 bit.                                             *)
InitBootVspace32(first_vaddr, first_paddr) ==
  LET low == first_vaddr \div SectionPages
      last == low + (Neg32(first_vaddr) \div SectionPages) - 1
  IN [_boot_pd |-> [i \in 0 .. PdEntries - 1 |->
        CASE i < low             -> Leaf(i * SectionPages)
          [] low <= i /\ i < last -> Leaf(((i - low) * SectionPages + first_paddr) % Word32)
          [] i = last            -> TableAt("_boot_pt", 0)
          [] OTHER               -> Empty],
      _boot_pt |-> [i \in 0 .. SectionPages - 1 |->
        IF i = Vectors % SectionPages THEN Leaf(arm_vector_table) ELSE Empty]]

(* init_hyp_boot_vspace(), 32 bit: four PMDs, one behind the other.        *)
InitHypBootVspace32(first_vaddr, first_paddr) ==
  LET low == first_vaddr \div BlockPages
      window == Neg32(first_vaddr) \div BlockPages
  IN [_lpae_boot_pgd |-> [i \in 0..3 |-> TableAt("_lpae_boot_pmd", i * Entries)],
      _lpae_boot_pmd |-> [i \in 0 .. 4 * Entries - 1 |->
        CASE i < low                         -> Leaf(i * BlockPages)
          [] low <= i /\ i < low + window    -> Leaf(((i - low) * BlockPages + first_paddr) % Word32)
          [] OTHER                           -> Empty]]

GET_PGD_INDEX(x) == (x \div (GiB * Entries)) % Entries
GET_PUD_INDEX(x) == (x \div GiB) % Entries
GET_PMD_INDEX(x) == (x \div BlockPages) % Entries

(* A table with one entry written, the rest as zeroed memory has it.       *)
Only(k, entry) == [i \in 0 .. Entries - 1 |-> IF i = k THEN entry ELSE Empty]
IdentityPud == [i \in 0 .. Entries - 1 |-> Leaf(i * GiB)]

(* init_boot_vspace(), 64 bit: the window starts at the PMD's first entry. *)
InitBootVspace64(first_vaddr, first_paddr) ==
  [_boot_pgd_down |-> Only(0, TableAt("_boot_pud_down", 0)),
   _boot_pud_down |-> IdentityPud,
   _boot_pgd_up |-> Only(GET_PGD_INDEX(first_vaddr), TableAt("_boot_pud_up", 0)),
   _boot_pud_up |-> Only(GET_PUD_INDEX(first_vaddr), TableAt("_boot_pmd_up", 0)),
   _boot_pmd_up |-> [i \in 0 .. Entries - 1 |-> Leaf(i * BlockPages + first_paddr)]]

(* Mutant: the PMD is filled from its first entry at EL2 too.              *)
InitHypBootVspace64FromZero(first_vaddr, first_paddr) ==
  [_boot_pgd_down |-> [Only(0, TableAt("_boot_pud_down", 0))
                         EXCEPT ![GET_PGD_INDEX(first_vaddr)] = TableAt("_boot_pud_up", 0)],
   _boot_pud_down |-> IdentityPud,
   _boot_pud_up |-> Only(GET_PUD_INDEX(first_vaddr), TableAt("_boot_pmd_up", 0)),
   _boot_pmd_up |-> [i \in 0 .. Entries - 1 |-> Leaf(i * BlockPages + first_paddr)]]

(* init_hyp_boot_vspace(), 64 bit: one PGD for all, the window starts      *)
(* where first_vaddr is.                                                   *)
InitHypBootVspace64(first_vaddr, first_paddr) ==
  LET pmd_index == GET_PMD_INDEX(first_vaddr)
  IN [_boot_pgd_down |-> [Only(0, TableAt("_boot_pud_down", 0))
                            EXCEPT ![GET_PGD_INDEX(first_vaddr)] = TableAt("_boot_pud_up", 0)],
      _boot_pud_down |-> IdentityPud,
      _boot_pud_up |-> Only(GET_PUD_INDEX(first_vaddr), TableAt("_boot_pmd_up", 0)),
      _boot_pmd_up |-> [i \in 0 .. Entries - 1 |->
        IF i < pmd_index THEN Empty ELSE Leaf((i - pmd_index) * BlockPages + first_paddr)]]

-----------------------------------------------------------------------------
(* map_kernel_window().  page << bits is an int: from 2 GiB on it is       *)
(* negative.                                                               *)
IntShift(page, span) ==
  LET low == (page * span) % Word32 IN IF low < Word32 \div 2 THEN low ELSE low - Word32
VirtPhysAligned(virt, phys, span) == virt % span = 0 /\ phys % span = 0

Aborted == [l1pt |-> <<>>]    \* "Kernel not properly aligned"

(* An entry of l1pt takes PTE_LEVEL_BITS of the address, 2 MiB on Sv32,    *)
(* and the hardware takes 4 MiB.                                           *)
MapKernelWindow32(first_vaddr, first_paddr) ==
  LET l1_index == (first_vaddr \div (2 * BlockPages)) % Entries32
  IN IF ~VirtPhysAligned(first_vaddr, first_paddr, BlockPages) THEN Aborted
     ELSE [l1pt |-> [i \in 0 .. Entries32 - 1 |->
             IF i < l1_index THEN Leaf(i * 2 * BlockPages)
             ELSE Leaf((first_paddr + IntShift(i - l1_index, BlockPages)) % Word32)]]

(* Sv39: whole GiB where the kernel is aligned to them, else an l2pt from  *)
(* its first 2 MiB to the end of their GiB.  The PTE of an identity entry  *)
(* is cut to 32 bits.                                                      *)
MapKernelWindow39(first_vaddr, first_paddr) ==
  LET l1_index == (first_vaddr \div GiB) % Entries
      l2_index == (first_vaddr \div BlockPages) % Entries
      identity == [i \in 0 .. Entries - 1 |-> Leaf((i % CastGiB) * GiB)]
  IN IF VirtPhysAligned(first_vaddr, first_paddr, GiB)
     THEN [l1pt |-> [i \in 0 .. Entries - 1 |->
             IF i < l1_index THEN identity[i]
             ELSE Leaf(first_paddr + IntShift(i - l1_index, GiB))]]
     ELSE IF VirtPhysAligned(first_vaddr, first_paddr, BlockPages)
     THEN [l1pt |-> [identity EXCEPT ![l1_index] = TableAt("l2pt", 0)],
           l2pt |-> [i \in 0 .. Entries - 1 |->
             IF i < l2_index THEN Empty
             ELSE Leaf(first_paddr + IntShift(i - l2_index, BlockPages))]]
     ELSE Aborted

-----------------------------------------------------------------------------
(* External: the hardware's walk.  A level takes "fan" entries of "span"   *)
(* pages each; an entry that is no leaf, or one whose address is not a     *)
(* multiple of its span, faults.                                           *)
PageFault == -1
Translate(vspace, root, levels, va) ==
  LET Entry[k \in 0..Len(levels)] ==
        IF k = 0 THEN [entry |-> TableAt(root, 0), span |-> 0]
        ELSE LET up == Entry[k-1]
             IN IF up.entry.kind # "table" THEN up
                ELSE [entry |-> vspace[up.entry.to]
                                  [up.entry.at + ((va \div levels[k].span) % levels[k].fan)],
                      span |-> levels[k].span]
      found == Entry[Len(levels)]
  IN IF found.entry.kind = "leaf" /\ found.entry.to % found.span = 0
     THEN found.entry.to + (va % found.span) ELSE PageFault

Level(span, fan) == [span |-> span, fan |-> fan]
Aarch64Levels == <<Level(GiB * Entries, Entries), Level(GiB, Entries), Level(BlockPages, Entries)>>
Half64 == GiB * Entries * Entries    \* where TTBR1's half starts, for TTBR0's size

(* main() of RISC-V, for the levels it is configured with.                 *)
BuildRiscv(style, first_vaddr, first_paddr) ==
  IF style = "sv32" THEN MapKernelWindow32(first_vaddr, first_paddr)
                    ELSE MapKernelWindow39(first_vaddr, first_paddr)

(* The tables an elfloader builds: main() of ARM chooses by the mode.      *)
(* Walk is the MMU's use of them.                                          *)
Styles == {"arm32", "arm32hyp", "arm64", "arm64hyp", "sv32", "sv39"}
Build(style, first_vaddr, first_paddr) ==
  CASE style = "arm32"    -> InitBootVspace32(first_vaddr, first_paddr)
    [] style = "arm32hyp" -> InitHypBootVspace32(first_vaddr, first_paddr)
    [] style = "arm64"    -> InitBootVspace64(first_vaddr, first_paddr)
    [] style = "arm64hyp" -> InitHypBootVspace64(first_vaddr, first_paddr)
    [] OTHER              -> BuildRiscv(style, first_vaddr, first_paddr)
Walk(style, vspace, va) ==
  CASE style = "arm32"    -> Translate(vspace, "_boot_pd",
                                       <<Level(SectionPages, PdEntries), Level(1, SectionPages)>>, va)
    [] style = "arm32hyp" -> Translate(vspace, "_lpae_boot_pgd",
                                       <<Level(GiB, 4), Level(BlockPages, Entries)>>, va)
    [] style = "arm64"    -> Translate(vspace, IF va < Half64 THEN "_boot_pgd_down" ELSE "_boot_pgd_up",
                                       Aarch64Levels, va)
    [] style = "arm64hyp" -> Translate(vspace, "_boot_pgd_down", Aarch64Levels, va)
    [] style = "sv32"     -> Translate(vspace, "l1pt", <<Level(2 * BlockPages, Entries32)>>, va)
    [] style = "sv39"     -> Translate(vspace, "l1pt", <<Level(GiB, Entries), Level(BlockPages, Entries)>>, va)

-----------------------------------------------------------------------------
(* What the comments promise.  The pages of the window and of the loader's *)
(* one-to-one mapping, by style; 32-bit kernels lie below 4 GiB.           *)
Window(style, first_vaddr, first_paddr) ==
  CASE style = "arm32"                -> first_vaddr .. Word32 - SectionPages - 1
    [] style \in {"arm32hyp", "sv32"} -> first_vaddr .. Word32 - 1
    [] style = "sv39" /\ VirtPhysAligned(first_vaddr, first_paddr, GiB)
                                      -> first_vaddr .. Entries * GiB - 1
    [] OTHER                          -> first_vaddr .. (first_vaddr \div GiB + 1) * GiB - 1
OneToOne(style, first_vaddr) ==
  CASE style \in {"arm32", "arm32hyp", "sv32"} -> 0 .. first_vaddr - 1
    [] style \in {"arm64", "arm64hyp"}         -> 0 .. Entries * GiB - 1
    [] style = "sv39"                          -> 0 .. CastGiB * GiB - 1
MapsKernel(style, vspace, first_vaddr, first_paddr) ==
  \A va \in Window(style, first_vaddr, first_paddr) :
    LET pa == va - first_vaddr + first_paddr
    IN (style \in {"arm32", "arm32hyp", "sv32"} => pa < Word32) => Walk(style, vspace, va) = pa
MapsLoader(style, vspace, first_vaddr) ==
  \A pa \in OneToOne(style, first_vaddr) : Walk(style, vspace, pa) = pa
=============================================================================
