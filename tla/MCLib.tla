-------------------------------- MODULE MCLib --------------------------------
(* The loader's pure functions, asked one question per behaviour.  A       *)
(* question is prepared in Init, an action is the call, and the invariants *)
(* compare its answer with a reference definition.                         *)
EXTENDS ElfLib, MemOps, Printf, BootVspace, CpioStrip, FiniteSets

CONSTANT AskedStyles   \* whose page tables are asked for

H == INSTANCE HashStream

VARIABLES question, answer
vars == <<question, answer>>

NoAnswer == <<>>

-----------------------------------------------------------------------------
(* External: the linker, which writes a file by the ELF standard's offsets *)
(* <<name, offset, size>>.                                                 *)
Layout(class, struct) ==
  CASE struct = "ehdr" /\ class = 1 ->
       {<<"e_entry", 24, 4>>, <<"e_phoff", 28, 4>>, <<"e_shoff", 32, 4>>, <<"e_ehsize", 40, 2>>,
        <<"e_phentsize", 42, 2>>, <<"e_phnum", 44, 2>>, <<"e_shnum", 48, 2>>, <<"e_shstrndx", 50, 2>>}
    [] struct = "ehdr" /\ class # 1 ->
       {<<"e_entry", 24, 8>>, <<"e_phoff", 32, 8>>, <<"e_shoff", 40, 8>>, <<"e_ehsize", 52, 2>>,
        <<"e_phentsize", 54, 2>>, <<"e_phnum", 56, 2>>, <<"e_shnum", 60, 2>>, <<"e_shstrndx", 62, 2>>}
    [] struct = "phdr" /\ class = 1 ->
       {<<"p_type", 0, 4>>, <<"p_offset", 4, 4>>, <<"p_vaddr", 8, 4>>, <<"p_paddr", 12, 4>>,
        <<"p_filesz", 16, 4>>, <<"p_memsz", 20, 4>>, <<"p_flags", 24, 4>>}
    [] struct = "phdr" /\ class # 1 ->
       {<<"p_type", 0, 4>>, <<"p_offset", 8, 8>>, <<"p_vaddr", 16, 8>>, <<"p_paddr", 24, 8>>,
        <<"p_filesz", 32, 8>>, <<"p_memsz", 40, 8>>, <<"p_flags", 4, 4>>}
    [] struct = "shdr" /\ class = 1 ->
       {<<"sh_name", 0, 4>>, <<"sh_type", 4, 4>>, <<"sh_flags", 8, 4>>, <<"sh_addr", 12, 4>>,
        <<"sh_offset", 16, 4>>, <<"sh_size", 20, 4>>}
    [] struct = "shdr" /\ class # 1 ->
       {<<"sh_name", 0, 4>>, <<"sh_type", 4, 4>>, <<"sh_flags", 8, 8>>, <<"sh_addr", 16, 8>>,
        <<"sh_offset", 24, 8>>, <<"sh_size", 32, 8>>}
SizeOf(class, struct) ==
  CASE struct = "ehdr" -> IF class = 1 THEN 52 ELSE 64
    [] struct = "phdr" -> IF class = 1 THEN 32 ELSE 56
    [] struct = "shdr" -> IF class = 1 THEN 40 ELSE 64

Written(class, struct, at, values) ==
  {<<at + m[2], m[3], values[m[1]]>> : m \in {l \in Layout(class, struct) : l[1] \in DOMAIN values}}

(* The program headers lie behind the header, the section headers behind   *)
(* them; a member is <<offset, size, value>>.                              *)
PhdrAt(elf, n) == SizeOf(elf.class, "ehdr") + SizeOf(elf.class, "phdr") * (n - 1)
ShdrAt(elf, n) ==
  PhdrAt(elf, Len(elf.segments) + 1) + SizeOf(elf.class, "shdr") * (n - 1)
HeaderOf(elf) ==
  [e_entry |-> elf.entry, e_phoff |-> PhdrAt(elf, 1), e_shoff |-> ShdrAt(elf, 1),
   e_ehsize |-> SizeOf(elf.class, "ehdr"), e_phentsize |-> SizeOf(elf.class, "phdr"),
   e_phnum |-> Len(elf.segments), e_shentsize |-> SizeOf(elf.class, "shdr"),
   e_shnum |-> Len(elf.sections), e_shstrndx |-> elf.shstrndx]
Ident(elf) == {<<0, 2, IF elf.magic THEN 1 ELSE 0>>, <<2, 2, 2>>, <<4, 2, elf.class>>}
Members(elf) ==
  Ident(elf) \union Written(elf.class, "ehdr", 0, HeaderOf(elf))
    \union (UNION {Written(elf.class, "phdr", PhdrAt(elf, n), elf.segments[n]) : n \in DOMAIN elf.segments})
    \union (UNION {Written(elf.class, "shdr", ShdrAt(elf, n), elf.sections[n]) : n \in DOMAIN elf.sections})

UnitPower(k) == CASE k = 0 -> 1 [] k = 1 -> Unit [] k = 2 -> Unit * Unit [] k = 3 -> Unit * (Unit * Unit)
UnitIn(m, offset) == (m[3] \div UnitPower((offset - m[1]) \div 2)) % Unit
File(elf, base) ==
  LET end == ShdrAt(elf, Len(elf.sections) + 1)
      members == Members(elf)
  IN [base |-> base,
      mem |-> [a \in {base + 2*k : k \in 0 .. (end \div 2) - 1} |->
        LET ms == {m \in members : m[1] <= a - base /\ a - base < m[1] + m[2]}
        IN IF ms = {} THEN 0 ELSE UnitIn(CHOOSE m \in ms : TRUE, a - base)]]

(* Segments that load, that load nothing, whose physical order is not the  *)
(* virtual one, and, of 64 bits, that lie above 4 GiB.                     *)
High(class) == IF class = 1 THEN 0 ELSE 3 * (Unit * Unit)
Seg(type, flags, offset, v, p, filesz, memsz) ==
  [p_type |-> type, p_flags |-> flags, p_offset |-> offset, p_vaddr |-> v, p_paddr |-> p,
   p_filesz |-> filesz, p_memsz |-> memsz]
Sec(name, type, flags, addr, offset, size) ==
  [sh_name |-> name, sh_type |-> type, sh_flags |-> flags, sh_addr |-> addr,
   sh_offset |-> offset, sh_size |-> size]
SegmentLists(class) ==
  LET hi == High(class)
      text == Seg(1, 5, 100, hi + 3000, hi + 500, 7, 7)
      data == Seg(1, 6, 300, hi + 3010, hi + 400, 3, 9)
      stack == Seg(7, 6, 0, 1, 2, 0, 0)
  IN {<<>>, <<text>>, <<text, data>>, <<stack, data, text>>}
SectionLists(class) ==
  LET hi == High(class)
      null == Sec(0, 0, 0, 0, 0, 0)
      code == Sec(1, 1, 6, hi + 3000, 100, 7)
      names == Sec(9, 3, 0, 0, 700, 90)
  IN {<<null>>, <<null, code, names, code>>}
Elves ==
  UNION {[class : {class}, magic : BOOLEAN, entry : {High(class) + 3001},
          shstrndx : {0, 2}, segments : SegmentLists(class),
          sections : SectionLists(class)] : class \in {1, 2, 3}}
GoodElves == {elf \in Elves : elf.shstrndx < Len(elf.sections)}
ASSUME ElvesAssumption == Unit > 54   \* their numbers, up to 3019, fit in four bytes

(* What the calls return for a file, whole.                                *)
ReadAll(file) ==
  [check |-> CheckFile(file), phnum |-> NumProgramHeaders(file), entry |-> EntryPoint(file),
   segments |-> [n \in 1..NumProgramHeaders(file) |->
     [name \in {"p_type", "p_flags"} \union InfoFields |->
        IF name \in InfoFields THEN ProgramHeaderInfo(file, n-1)[name]
                               ELSE ProgramHeader(file, n-1, name)]],
   virtual |-> MemoryBounds(file, FALSE), physical |-> MemoryBounds(file, TRUE)]
ReadSections(file) ==
  [segmentStrings |-> SegmentStringTable(file),
   strings |-> StringTable(file, Load(file, file.base + (IF IsElf32(file) THEN 50 ELSE 62), 2)),
   sections |-> [n \in 1..NumSections(file) |->
     [name |-> SectionName(file, n-1), flags |-> SectionFlags(file, n-1),
      type |-> SectionType(file, n-1), size |-> SectionSize(file, n-1),
      addr |-> SectionAddr(file, n-1), contents |-> Section(file, n-1),
      named |-> SectionNamed(file, SectionName(file, n-1))]],
   segments |-> [n \in 1..NumProgramHeaders(file) |->
     IF IsElf32(file) THEN SegmentField32(file, n-1, "p_vaddr") ELSE SegmentField64(file, n-1, "p_vaddr")]]

-----------------------------------------------------------------------------
AskElf(elf, base) == [kind |-> "elf", elf |-> elf, file |-> File(elf, base)]
AskMemory(d, s, n) == [kind |-> "memory", d |-> d, s |-> s, n |-> n]
AskStrings(a, b, n) == [kind |-> "strings", a |-> a, b |-> b, n |-> n]
AskHash(type, n, m) == [kind |-> "hash", type |-> type, n |-> n, m |-> m]
AskTables(style, v, p) == [kind |-> "tables", style |-> style, first_vaddr |-> v, first_paddr |-> p]
AskStrip(files, owner) == [kind |-> "strip", files |-> files, owner |-> owner]
AskPrint(conversion, n) == [kind |-> "print", conversion |-> conversion, n |-> n]

Strings == {s \o <<0>> : s \in [1..2 -> 0..2]}
Lengths == {0, 1, 54, 55, 56, 57, 63, 64, 65, 119, 120, 128}
Conversions == {<<"d">>, <<"0", "8", "u">>, <<"x">>, <<"p">>, <<"l", "u">>, <<"l", "x">>}

(* Where kernels are linked and loaded: aligned as the style asks, behind  *)
(* the first GiB, on AArch64 in another PGD entry than the loader's, and   *)
(* on Sv39 in the last two GiB.                                            *)
Kernels(style) ==
  CASE style = "arm32"    -> {<<k * SectionPages, p * SectionPages>> : k \in 8 .. PdEntries - 2, p \in {0, 5}}
    [] style = "arm32hyp" -> {<<k * BlockPages, p * BlockPages>> : k \in Entries .. 4 * Entries - 1, p \in {0, 5}}
    [] style = "arm64"    -> {<<Half64 + k * GiB, p * BlockPages>> : k \in Entries .. 2 * Entries, p \in {0, 5}}
    [] style = "arm64hyp" -> {<<k * BlockPages, p * BlockPages>> :
                               k \in Entries * Entries .. Entries * Entries + 2 * Entries, p \in {0, 5}}
    [] style = "sv32"     -> {<<k * 2 * BlockPages, 2 * BlockPages>> : k \in {Entries32 - 3}}
    [] style = "sv39"     -> {<<(Entries - 2) * GiB + k * BlockPages, p * BlockPages>> :
                               k \in 0 .. 2 * Entries - 1, p \in {0, 2, Entries}}

(* External: cpio writes each file's header and data behind the last one's.*)
FileLists == UNION {[1..n -> [name : 1..5, size : {0, 1, 6}]] : n \in 1..2}
Archived(files, owner) ==
  LET Header[k \in 1 .. Len(files) + 1] ==
        IF k = 1 THEN 0
        ELSE NextHeader(DataAt(Header[k-1], files[k-1].name), files[k-1].size)
      At(k) == [namesize |-> files[k].name, filesize |-> files[k].size,
                meta |-> [c_ino |-> owner + k, c_uid |-> owner, c_gid |-> owner, c_mtime |-> owner]]
      Data(k) == DataAt(Header[k], files[k].name)
  IN [a \in {Header[k] : k \in DOMAIN files}
             \union {Data(k) : k \in {j \in DOMAIN files : files[j].size > 0}} |->
        IF \E k \in DOMAIN files : Header[k] = a
          THEN At(CHOOSE k \in DOMAIN files : Header[k] = a)
          ELSE [contents |-> CHOOSE k \in DOMAIN files : Data(k) = a]]

Init ==
  /\ answer = NoAnswer
  /\ \/ \E elf \in GoodElves, base \in {64, 68} : question = AskElf(elf, base)
     \/ \E d, s \in 0..8, n \in 0..19 : question = AskMemory(d, s, n)
     \/ \E a, b \in Strings, n \in 0..3 : question = AskStrings(a, b, n)
     \/ \E type \in {"SHA_256", "MD5"}, n, m \in Lengths : question = AskHash(type, n, m)
     \/ \E style \in AskedStyles : \E k \in Kernels(style) : question = AskTables(style, k[1], k[2])
     \/ \E files \in FileLists, owner \in {0, 7} : question = AskStrip(files, owner)
     \/ \E c \in Conversions, n \in {-2} \union 0..40 : question = AskPrint(c, n)

Asked(kind) == question.kind = kind /\ answer = NoAnswer /\ UNCHANGED question

ReadElf ==
  /\ Asked("elf")
  /\ answer' = IF CheckFile(question.file) # 0
                 THEN <<CheckFile(question.file), MemoryBounds(question.file, TRUE),
                        LoadFile(question.file, TRUE)>>
               ELSE <<ReadAll(question.file), ReadSections(question.file),
                      LoadFile(question.file, FALSE), LoadFile(question.file, TRUE)>>
MoveMemory ==
  /\ Asked("memory")
  /\ answer' = <<MemsetAccesses(question.d, question.n),
                 MemcpyAccesses(question.d, question.s, question.n),
                 [a \in 0 .. question.n - 1 |-> Memset(question.d, question.s - 3, question.n, a)]>>
CompareStrings ==
  /\ Asked("strings")
  /\ answer' = <<Strlen(question.a), Strcmp(question.a, question.b),
                 Strncmp(question.a, question.b, question.n)>>
Message(n) == [k \in 1..n |-> k % 5]
Stack == [len |-> 77, buf |-> [k \in 0..63 |-> H!Stale], blocks |-> <<>>]
HashMessage ==
  /\ Asked("hash")
  /\ LET whole == Message(question.n + question.m)
         first == SubSeq(whole, 1, question.n)
         second == SubSeq(whole, question.n + 1, Len(whole))
     IN answer' = <<H!GetHash(question.type, whole, Stack),
                    H!PadSha256(H!Update(H!Update(H!Init(Stack), first), second)).blocks>>
MapKernel ==
  /\ Asked("tables")
  /\ answer' = <<Build(question.style, question.first_vaddr, question.first_paddr)>>
PrintLine ==
  /\ Asked("print")
  /\ answer' = <<Vxprintf(<<"<", "%">> \o question.conversion \o <<"%", "s">>,
                          <<question.n, <<">", "%">>>>),
                 Puts(<<"a">>), PrintHash(<<question.n % 256>>),
                 Returned(<<"%">> \o question.conversion, <<question.n>>)>>

StripArchive ==
  /\ Asked("strip")
  /\ answer' = <<Strip(Archived(question.files, question.owner), Len(question.files))>>

Next == ReadElf \/ MoveMemory \/ CompareStrings \/ HashMessage \/ MapKernel \/ PrintLine \/ StripArchive
Spec == Init /\ [][Next]_vars

Answered(kind) == question.kind = kind /\ answer # NoAnswer

-----------------------------------------------------------------------------
(* Properties.                                                             *)

(* A file is refused for its magic or its class, and its bounds and its    *)
(* memory are then left alone.  Of any other, every field the loader asks  *)
(* for is the linker's, whole, from a file on a 4-byte boundary as well,   *)
(* and the bounds are those of the segments with memory (elf_checkFile(),  *)
(* elf_getProgramHeaderInfo(), elf64_read64(), elf_getMemoryBounds()).     *)
Bound(elf, address) ==
  LET hs == {n \in DOMAIN elf.segments : elf.segments[n].p_memsz # 0}
  IN IF hs = {} THEN <<Word64 - 1, 0>> ELSE
     <<CHOOSE a \in {elf.segments[n][address] : n \in hs} :
         \A n \in hs : a <= elf.segments[n][address],
       CHOOSE a \in {elf.segments[n][address] + elf.segments[n].p_memsz : n \in hs} :
         \A n \in hs : elf.segments[n][address] + elf.segments[n].p_memsz <= a>>
ElfReads == Answered("elf") =>
  LET elf == question.elf IN
  IF ~elf.magic \/ elf.class = 3
    THEN answer = <<IF elf.magic THEN -2 ELSE -1, <<>>, <<>>>>
    ELSE answer[1] = [check |-> 0, phnum |-> Len(elf.segments), entry |-> elf.entry,
                      segments |-> elf.segments,
                      virtual |-> Bound(elf, "p_vaddr"),
                      physical |-> Bound(elf, "p_paddr")]

(* Names, types, sizes, addresses and contents of the sections are the     *)
(* linker's, and a section is found by its name, the first of several      *)
(* (elf_getSection...(), which take 64-bit members as they lie).           *)
FirstOf(elf, name) ==
  CHOOSE n \in DOMAIN elf.sections : /\ elf.sections[n].sh_name = name
                                     /\ \A k \in 1 .. n - 1 : elf.sections[k].sh_name # name
SectionsRead ==
  (Answered("elf") /\ Len(answer) = 4 /\ (question.elf.class = 1 \/ question.file.base % 8 = 0)) =>
    LET elf == question.elf
        base == question.file.base
        strings == base + elf.sections[elf.shstrndx + 1].sh_offset
        found == answer[2]
    IN /\ found.strings = strings
       /\ found.segmentStrings = IF elf.shstrndx = 0 THEN NULL ELSE strings
       /\ found.segments = [n \in DOMAIN elf.segments |-> elf.segments[n].p_vaddr]
       /\ found.sections = [n \in DOMAIN elf.sections |->
            LET sec == elf.sections[n]
                named == IF elf.shstrndx = 0 THEN elf.sections[1]
                         ELSE elf.sections[FirstOf(elf, sec.sh_name)]
            IN [name |-> IF elf.shstrndx = 0 THEN Corrupted ELSE strings + sec.sh_name,
                flags |-> sec.sh_flags, type |-> sec.sh_type, size |-> sec.sh_size,
                addr |-> sec.sh_addr, contents |-> base + sec.sh_offset,
                named |-> base + named.sh_offset]]

(* elf_loadFile() by physical address leaves at elf_vtopProgramHeader() of *)
(* a virtual address what it leaves there by virtual address: file bytes,  *)
(* zeros up to memsz, and nothing outside elf_getMemoryBounds().           *)
ElfLoads == (Answered("elf") /\ Len(answer) = 4) =>
  LET elf == question.elf
      virt == answer[3]
      phys == answer[4]
      Of(n) == elf.segments[n].p_vaddr .. elf.segments[n].p_vaddr + elf.segments[n].p_memsz - 1
  IN /\ DOMAIN virt = UNION {Of(n) : n \in DOMAIN elf.segments}
     /\ \A n \in DOMAIN elf.segments : \A a \in DOMAIN virt :
          VaddrInProgramHeader(question.file, n - 1, a) <=> a \in Of(n)
     /\ DOMAIN phys = {VtopProgramHeader(question.file, na[1] - 1, na[2]) :
          na \in {x \in (DOMAIN elf.segments) \X (DOMAIN virt) : x[2] \in Of(x[1])}}
     /\ \A a \in DOMAIN phys : answer[1].physical[1] <= a /\ a < answer[1].physical[2]
     /\ \A n \in DOMAIN elf.segments : \A a \in Of(n) :
          LET at == a - elf.segments[n].p_vaddr
          IN /\ virt[a] = IF at < elf.segments[n].p_filesz THEN elf.segments[n].p_offset + at
                          ELSE ZeroByte
             /\ phys[VtopProgramHeader(question.file, n - 1, a)] = virt[a]

(* memset() and memcpy() write every byte of the destination once and none *)
(* outside, never through an address that is not a multiple of the access, *)
(* and memset() the same byte everywhere.  strcmp() and strncmp() are zero *)
(* for equal strings and for equal starts, and only for these.             *)
Text(str) == SubSeq(str, 1, Strlen(str))
Start(str, n) == SubSeq(str, 1, Smaller(n, Strlen(str)))
MemRight ==
  /\ Answered("memory") =>
       LET n == question.n IN
       /\ Covers(answer[1], n) /\ AlignedAt(answer[1], question.d)
       /\ Covers(answer[2], n) /\ AlignedAt(answer[2], question.d) /\ AlignedAt(answer[2], question.s)
       /\ \A a \in 0 .. n - 1 : answer[3][a] = (question.s - 3) % ByteVals
  /\ Answered("strings") =>
       LET a == question.a
           b == question.b
           n == question.n
       IN /\ answer[1] = Len(Text(a))
          /\ answer[2] = 0 <=> Text(a) = Text(b)
          /\ answer[3] = 0 <=> Start(a, n) = Start(b, n)

(* Whatever the length, and whatever the buffer of the hash held before,   *)
(* the blocks hashed are the message, 0x80, zeros and the length in bits,  *)
(* and the same for a message that comes in two parts.                     *)
HashPadded == Answered("hash") =>
  LET message == Message(question.n + question.m)
      bits == 8 * Len(message)
  IN /\ H!Concat(answer[1]) = H!Padded(message, IF question.type = "SHA_256" THEN H!BigEndian(bits)
                                                ELSE H!LittleEndian(bits))
     /\ H!Concat(answer[2]) = H!Padded(message, H!BigEndian(bits))

(* Once the MMU is on, every address of the kernel's window is where       *)
(* load_images() put it, the loader is where it was, and on 32-bit ARM the *)
(* vectors are the loader's ("a 1:1 mapping below the kernel's first       *)
(* vaddr, and a virtual-to-physical mapping above").                       *)
WindowMapped == Answered("tables") =>
  LET v == question.first_vaddr
      p == question.first_paddr
      style == question.style
  IN /\ MapsKernel(style, answer[1], v, p)
     /\ MapsLoader(style, answer[1], v)
     /\ style = "arm32" => Walk(style, answer[1], Vectors) = arm_vector_table

(* What printf() writes for a number that is not negative reads back as    *)
(* that number, the text around it is as given, and a modifier changes     *)
(* nothing; printf() returns the number of characters.                     *)
Value(text, base) ==
  LET Upto[k \in 0..Len(text)] ==
        IF k = 0 THEN 0
        ELSE base * Upto[k-1] + (CHOOSE d \in 1..base : Digit[d] = text[k]) - 1
  IN Upto[Len(text)]
BaseOf(conversion) == IF conversion[Len(conversion)] \in {"x", "p"} THEN 16 ELSE 10
PrintedNumber == (Answered("print") /\ question.n >= 0) =>
  LET line == answer[1]
      number == SubSeq(line, 2, Len(line) - 2)
  IN /\ line[1] = "<" /\ SubSeq(line, Len(line) - 1, Len(line)) = <<">", "%">>
     /\ number # <<>> /\ Value(number, BaseOf(question.conversion)) = question.n
     /\ number[1] = "0" => number = <<"0">>
     /\ answer[4] = Len(number)

(* A stripped archive holds the same files at the same places, and none of *)
(* what the machine that packed it put into their headers: packed anywhere *)
(* else it is the same ("idempotent builds").                              *)
Meta(archive, a) == "meta" \in DOMAIN archive[a]
Stripped == Answered("strip") =>
  LET archive == Archived(question.files, question.owner)
  IN /\ DOMAIN answer[1] = DOMAIN archive
     /\ \A a \in DOMAIN archive :
          IF Meta(archive, a) THEN [answer[1][a] EXCEPT !.meta = archive[a].meta] = archive[a]
                              ELSE answer[1][a] = archive[a]
     /\ \A owner \in {0, 3, 7} :
          Strip(Archived(question.files, owner), Len(question.files)) = answer[1]
=============================================================================
