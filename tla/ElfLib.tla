------------------------------- MODULE ElfLib -------------------------------
(***************************************************************************)
(* The ELF library (binaries/elf): what its functions read from a file in  *)
(* memory, through which fields, for both classes, and what elf_loadFile() *)
(* leaves behind.                                                          *)
(*                                                                         *)
(* A file is [base, mem]: the address it lies at and the 16-bit units of   *)
(* memory by byte address.  A unit holds one of Unit values, so a field of *)
(* n bytes holds one of Unit ^ (n / 2); the layout is the real one.        *)
(***************************************************************************)
EXTENDS Integers, Sequences

CONSTANT Unit   \* the values of a 16-bit unit, 2 ^ 16 scaled down
ASSUME UnitAssumption == Unit \in Nat /\ Unit > 3   \* e_ident takes four

(* A C struct, from its members and their sizes in order.  Each member is  *)
(* naturally aligned where it stands, so the compiler adds no padding.     *)
Struct(members) ==
  LET End[n \in 0..Len(members)] == IF n = 0 THEN 0 ELSE End[n-1] + members[n][2]
      Which(name) == CHOOSE n \in DOMAIN members : members[n][1] = name
  IN [size |-> End[Len(members)],
      at |-> [name \in {members[n][1] : n \in DOMAIN members} |-> End[Which(name) - 1]],
      bytes |-> [name \in {members[n][1] : n \in DOMAIN members} |-> members[Which(name)][2]]]

Header32 == Struct(<<
  <<"e_ident", 16>>, <<"e_type", 2>>, <<"e_machine", 2>>, <<"e_version", 4>>, <<"e_entry", 4>>,
  <<"e_phoff", 4>>, <<"e_shoff", 4>>, <<"e_flags", 4>>, <<"e_ehsize", 2>>, <<"e_phentsize", 2>>,
  <<"e_phnum", 2>>, <<"e_shentsize", 2>>, <<"e_shnum", 2>>, <<"e_shstrndx", 2>> >>)
Shdr32 == Struct(<<
  <<"sh_name", 4>>, <<"sh_type", 4>>, <<"sh_flags", 4>>, <<"sh_addr", 4>>, <<"sh_offset", 4>>,
  <<"sh_size", 4>>, <<"sh_link", 4>>, <<"sh_info", 4>>, <<"sh_addralign", 4>>, <<"sh_entsize", 4>> >>)
Phdr32 == Struct(<<
  <<"p_type", 4>>, <<"p_offset", 4>>, <<"p_vaddr", 4>>, <<"p_paddr", 4>>, <<"p_filesz", 4>>,
  <<"p_memsz", 4>>, <<"p_flags", 4>>, <<"p_align", 4>> >>)

Header64 == Struct(<<
  <<"e_ident", 16>>, <<"e_type", 2>>, <<"e_machine", 2>>, <<"e_version", 4>>, <<"e_entry", 8>>,
  <<"e_phoff", 8>>, <<"e_shoff", 8>>, <<"e_flags", 4>>, <<"e_ehsize", 2>>, <<"e_phentsize", 2>>,
  <<"e_phnum", 2>>, <<"e_shentsize", 2>>, <<"e_shnum", 2>>, <<"e_shstrndx", 2>> >>)
Shdr64 == Struct(<<
  <<"sh_name", 4>>, <<"sh_type", 4>>, <<"sh_flags", 8>>, <<"sh_addr", 8>>, <<"sh_offset", 8>>,
  <<"sh_size", 8>>, <<"sh_link", 4>>, <<"sh_info", 4>>, <<"sh_addralign", 8>>, <<"sh_entsize", 8>> >>)
Phdr64 == Struct(<<
  <<"p_type", 4>>, <<"p_flags", 4>>, <<"p_offset", 8>>, <<"p_vaddr", 8>>, <<"p_paddr", 8>>,
  <<"p_filesz", 8>>, <<"p_memsz", 8>>, <<"p_align", 8>> >>)

-----------------------------------------------------------------------------
(* A load of n bytes, little-endian.  With the MMU off it must be aligned  *)
(* to its size.  The value of a faulting load is an odd number, so that a  *)
(* pointer made from one faults in its turn.                               *)
Fault == -1
Load(file, a, n) ==
  IF a % n # 0 THEN Fault
  ELSE LET Value[k \in 0..n \div 2] ==
             IF k = 0 THEN 0 ELSE Unit * Value[k-1] + file.mem[a + n - 2*k]
       IN Value[n \div 2]

Field(file, at, struct, name) == Load(file, at + struct.at[name], struct.bytes[name])
Truncate32(value) == value % (Unit * Unit)   \* assigned to an integer of 4 bytes

NULL == 0
Corrupted == -2    \* the string "<corrupted>", which lies in no file

(* e_ident, two bytes to a unit; the pairs of bytes told apart.            *)
ElfMagic01 == 1    \* ELFMAG0, ELFMAG1
ElfMagic23 == 2    \* ELFMAG2, ELFMAG3
ElfClass32 == 1    \* e_ident[EI_CLASS]
ElfClass64 == 2
IsMagic(file) == Load(file, file.base, 2) = ElfMagic01 /\ Load(file, file.base + 2, 2) = ElfMagic23
Class(file) == Load(file, file.base + 4, 2)

(* sh_name is compared as a whole: strings are told apart by where they    *)
(* start in the string table.                                              *)

-----------------------------------------------------------------------------
(* elf32.c, elf32.h                                                        *)
CheckFile32(file) == IF ~IsMagic(file) THEN -1 ELSE IF Class(file) # ElfClass32 THEN -2 ELSE 0

SectionTable32(file) == file.base + Field(file, file.base, Header32, "e_shoff")
SectionField32(file, s, name) ==
  Field(file, SectionTable32(file) + s * Shdr32.size, Shdr32, name)

ProgramHeaderTable32(file) == file.base + Field(file, file.base, Header32, "e_phoff")
ProgramHeaderField32(file, ph, name) ==
  Field(file, ProgramHeaderTable32(file) + ph * Phdr32.size, Phdr32, name)

NumSections32(file) == Field(file, file.base, Header32, "e_shnum")
NumProgramHeaders32(file) == Field(file, file.base, Header32, "e_phnum")
EntryPoint32(file) == Field(file, file.base, Header32, "e_entry")

(* Always the section e_shstrndx, whatever elf_getStringTable() is asked.  *)
StringTable32(file) ==
  file.base + SectionField32(file, Field(file, file.base, Header32, "e_shstrndx"), "sh_offset")
SegmentStringTable32(file) ==
  IF Field(file, file.base, Header32, "e_shstrndx") = 0 THEN NULL ELSE StringTable32(file)
SectionName32(file, s) ==
  IF SegmentStringTable32(file) = NULL THEN Corrupted
  ELSE SegmentStringTable32(file) + SectionField32(file, s, "sh_name")
SectionSize32(file, s) == SectionField32(file, s, "sh_size")
SectionAddr32(file, s) == SectionField32(file, s, "sh_addr")
Section32(file, s) == file.base + SectionField32(file, s, "sh_offset")

(* The first of the sections that have the name; "is" is strcmp() = 0.     *)
FirstNamed(names, string) ==
  LET named == {s \in DOMAIN names : names[s] = string}
  IN CHOOSE s \in named : \A t \in named : s <= t
SectionNamed32(file, string) ==
  LET names == [s \in 0 .. NumSections32(file) - 1 |-> SectionName32(file, s)]
  IN IF \A s \in DOMAIN names : names[s] # string THEN NULL
     ELSE Section32(file, FirstNamed(names, string))

(* elf32_getSegmentType(), elf32_getSegmentInfo().                         *)
SegmentTable32(file) == Field(file, file.base, Header32, "e_phoff") + file.base
SegmentField32(file, seg, name) ==
  Field(file, SegmentTable32(file) + seg * Phdr32.size, Phdr32, name)

-----------------------------------------------------------------------------
(* elf64.c, elf64.h                                                        *)

(* Mutant: a plain 64-bit load.                                            *)
Read64Plain(file, a) == Load(file, a, 8)

(* elf64_read64(): an archive member is on a 4-byte boundary only.         *)
Read64(file, a) ==
  IF a % 8 = 0 THEN Load(file, a, 8)
  ELSE Load(file, a + 4, 4) * (Unit * Unit) + Load(file, a, 4)

CheckFile64(file) == IF ~IsMagic(file) THEN -1 ELSE IF Class(file) # ElfClass64 THEN -2 ELSE 0

(* The section functions take the 64-bit members as they are.              *)
SectionTable64(file) == file.base + Field(file, file.base, Header64, "e_shoff")

(* Mutant: the table is stepped through by the 32-bit header's size.       *)
SectionField64Stride32(file, s, name) ==
  Field(file, SectionTable64(file) + s * Shdr32.size, Shdr64, name)

SectionField64(file, s, name) ==
  Field(file, SectionTable64(file) + s * Shdr64.size, Shdr64, name)

ProgramHeaderTable64(file) == file.base + Read64(file, file.base + Header64.at["e_phoff"])
ProgramHeaderField64(file, ph, name) ==
  LET at == ProgramHeaderTable64(file) + ph * Phdr64.size
  IN IF name \in {"p_flags", "p_type"} THEN Field(file, at, Phdr64, name)
     ELSE Read64(file, at + Phdr64.at[name])

NumSections64(file) == Field(file, file.base, Header64, "e_shnum")
NumProgramHeaders64(file) == Field(file, file.base, Header64, "e_phnum")
EntryPoint64(file) == Read64(file, file.base + Header64.at["e_entry"])

StringTable64(file, s) == file.base + SectionField64(file, s, "sh_offset")
SegmentStringTable64(file) ==
  LET s == Field(file, file.base, Header64, "e_shstrndx")
  IN IF s = 0 THEN NULL ELSE StringTable64(file, s)
SectionName64(file, s) ==
  IF SegmentStringTable64(file) = NULL THEN Corrupted
  ELSE SegmentStringTable64(file) + SectionField64(file, s, "sh_name")
SectionSize64(file, s) == SectionField64(file, s, "sh_size")
SectionAddr64(file, s) == SectionField64(file, s, "sh_addr")
Section64(file, s) == file.base + SectionField64(file, s, "sh_offset")
SectionNamed64(file, string) ==
  LET names == [s \in 0 .. NumSections64(file) - 1 |-> SectionName64(file, s)]
  IN IF \A s \in DOMAIN names : names[s] # string THEN NULL
     ELSE Section64(file, FirstNamed(names, string))
SegmentTable64(file) == Field(file, file.base, Header64, "e_phoff") + file.base
SegmentField64(file, seg, name) ==
  Field(file, SegmentTable64(file) + seg * Phdr64.size, Phdr64, name)

-----------------------------------------------------------------------------
(* elf.c: by class.  Whatever is not ELFCLASS32 is taken for 64-bit.       *)
IsElf32(file) == Class(file) = ElfClass32

CheckFile(file) == IF IsElf32(file) THEN CheckFile32(file) ELSE CheckFile64(file)
NumProgramHeaders(file) ==
  IF IsElf32(file) THEN NumProgramHeaders32(file) ELSE NumProgramHeaders64(file)
ProgramHeader(file, ph, name) ==
  IF IsElf32(file) THEN ProgramHeaderField32(file, ph, name)
  ELSE ProgramHeaderField64(file, ph, name)
EntryPoint(file) == IF IsElf32(file) THEN EntryPoint32(file) ELSE EntryPoint64(file)

StringTable(file, s) == IF IsElf32(file) THEN StringTable32(file) ELSE StringTable64(file, s)
SegmentStringTable(file) ==
  IF IsElf32(file) THEN SegmentStringTable32(file) ELSE SegmentStringTable64(file)
NumSections(file) == IF IsElf32(file) THEN NumSections32(file) ELSE NumSections64(file)
SectionName(file, s) == IF IsElf32(file) THEN SectionName32(file, s) ELSE SectionName64(file, s)

(* Flags and type are returned in 32 bits, of 64-bit flags as well.        *)
SectionFlags(file, s) ==
  IF IsElf32(file) THEN SectionField32(file, s, "sh_flags")
  ELSE Truncate32(SectionField64(file, s, "sh_flags"))
SectionType(file, s) ==
  IF IsElf32(file) THEN SectionField32(file, s, "sh_type") ELSE SectionField64(file, s, "sh_type")
SectionSize(file, s) == IF IsElf32(file) THEN SectionSize32(file, s) ELSE SectionSize64(file, s)
SectionAddr(file, s) == IF IsElf32(file) THEN SectionAddr32(file, s) ELSE SectionAddr64(file, s)
Section(file, s) == IF IsElf32(file) THEN Section32(file, s) ELSE Section64(file, s)
SectionNamed(file, string) ==
  IF IsElf32(file) THEN SectionNamed32(file, string) ELSE SectionNamed64(file, string)

(* elf_getProgramHeaderInfo(): five results at once.                       *)
InfoFields == {"p_vaddr", "p_paddr", "p_filesz", "p_offset", "p_memsz"}
ProgramHeaderInfo(file, ph) == [name \in InfoFields |-> ProgramHeader(file, ph, name)]

-----------------------------------------------------------------------------
Word64 == (Unit * Unit) * (Unit * Unit)
AddressOf(file, ph, phys) == ProgramHeader(file, ph, IF phys THEN "p_paddr" ELSE "p_vaddr")

(* elf_getMemoryBounds(): <<>> where it returns 0 and sets neither.        *)
MemoryBounds(file, phys) ==
  LET hs == {ph \in 0..NumProgramHeaders(file)-1 : ProgramHeader(file, ph, "p_memsz") # 0}
      starts == {AddressOf(file, ph, phys) : ph \in hs} \union {Word64 - 1}
      ends == {(AddressOf(file, ph, phys) + ProgramHeader(file, ph, "p_memsz")) % Word64 : ph \in hs}
                \union {0}
  IN IF CheckFile(file) # 0 THEN <<>>
     ELSE <<CHOOSE a \in starts : \A b \in starts : a <= b,
            CHOOSE a \in ends : \A b \in ends : b <= a>>

VaddrInProgramHeader(file, ph, vaddr) ==
  LET min == ProgramHeader(file, ph, "p_vaddr")
      max == (min + ProgramHeader(file, ph, "p_memsz")) % Word64
  IN min <= vaddr /\ vaddr < max

VtopProgramHeader(file, ph, vaddr) ==
  (vaddr - ProgramHeader(file, ph, "p_vaddr") + ProgramHeader(file, ph, "p_paddr")) % Word64

(* elf_loadFile(): every header in order, of any type, its file bytes and  *)
(* zeros behind them.  Memory maps an address to the offset of the byte of *)
(* the file that was copied to it, or to ZeroByte; each call writes        *)
(* memsz - filesz zeros, a size_t.                                         *)
ZeroByte == -1

(* Mutant: the rest of a segment is not zeroed.                            *)
LoadSegmentUnfilled(file, ph, phys, mem) ==
  LET dest == AddressOf(file, ph, phys)
      len == ProgramHeader(file, ph, "p_filesz")
      src == ProgramHeader(file, ph, "p_offset")
  IN [a \in DOMAIN mem \union (dest .. dest + len - 1) |->
        IF a \in dest .. dest + len - 1 THEN src + (a - dest) ELSE mem[a]]

LoadSegment(file, ph, phys, mem) ==
  LET dest == AddressOf(file, ph, phys)
      len == ProgramHeader(file, ph, "p_filesz")
      src == ProgramHeader(file, ph, "p_offset")
      zeros == (ProgramHeader(file, ph, "p_memsz") - len) % Word64
      written == dest .. dest + len + zeros - 1
  IN [a \in DOMAIN mem \union written |->
        IF a \notin written THEN mem[a]
        ELSE IF a < dest + len THEN src + (a - dest) ELSE ZeroByte]
LoadFile(file, phys) ==
  LET Loaded[n \in 0..NumProgramHeaders(file)] ==
        IF n = 0 THEN <<>> ELSE LoadSegment(file, n - 1, phys, Loaded[n-1])
  IN IF CheckFile(file) # 0 THEN <<>> ELSE Loaded[NumProgramHeaders(file)]
=============================================================================
