----------------------------- MODULE LoadImages -----------------------------
(***************************************************************************)
(* load_images() (common.c): the kernel and one user image are taken out   *)
(* of the archive linked into the elfloader and unpacked into physical     *)
(* memory, the kernel where its ELF file asks to be, the user image on the *)
(* pages behind it, and the user image's program headers on the page       *)
(* behind that.  The elfloader runs from the same memory.                  *)
(*                                                                         *)
(* Addresses are numbers modulo Word, as paddr_t is; a page has PageSize   *)
(* of them.  What a cell of memory holds is told apart as far as "who      *)
(* wrote it" and "which byte of which segment" go.                         *)
(***************************************************************************)
EXTENDS Integers, Sequences, FiniteSets, FiniteSetsExt

CONSTANTS
  PageSize,       \* BIT(PAGE_BITS)
  Word,           \* 2 ^ (bits of paddr_t)
  Ram,            \* the addresses that are memory
  Loaders,        \* where the elfloader may lie: [start, end], _start and _end
  Archives,       \* the archives it may carry: sequences of files
  MaxUserImages,  \* max_user_images
  CheckHash,      \* CONFIG_HASH_SHA or CONFIG_HASH_MD5
  HashLen         \* hash_len

Addr == 0..Word-1

(* A program header, and a file of the archive.  "digest" is what          *)
(* get_hash() computes over an image, and the contents of a hash file.     *)
Phdr == [load : BOOLEAN, vaddr : Addr, paddr : Addr, filesz : Addr, memsz : Addr]
IsFile(f) ==
  /\ f.valid \in BOOLEAN
  /\ f.phdrs \in Seq(Phdr)
  /\ f.entry \in Addr
  /\ f.digest \in [1..HashLen -> Nat]

ASSUME ImageAssumption ==
  /\ PageSize \in Nat \ {0} /\ Word \in Nat /\ Word % PageSize = 0 /\ Word > PageSize
  /\ Ram \subseteq Addr
  /\ \A l \in Loaders : l.start \in Addr /\ l.end \in Addr /\ l.start < l.end
  /\ \A a \in Archives : DOMAIN a = 1..Len(a) /\ Len(a) \in Nat /\ \A n \in DOMAIN a : IsFile(a[n])
  /\ MaxUserImages \in Nat \ {0}
  /\ CheckHash \in BOOLEAN
  /\ HashLen \in Nat

VARIABLES
  pc,        \* where load_images() is
  loader,    \* where this elfloader lies
  archive,   \* the archive it carries
  mem,       \* mem[a]: what the cell a holds
  file,      \* the index in the archive of the image being loaded
  slot,      \* 0 while it is the kernel, else the user image's number
  dest,      \* dest_paddr, next_phys_addr
  seg,       \* unpack_elf_to_paddr()'s loop variable
  info,      \* info[s]: the image_info recorded for slot s
  numImages  \* *num_images

input == <<loader, archive>>
vars == <<pc, input, mem, file, slot, dest, seg, info, numImages>>

(* Cells: what was there before, the loader itself, zero, the header page  *)
(* of slot s, byte k of segment i of the image of slot s.                  *)
Old == <<"old", 0, 0, 0>>
Self == <<"loader", 0, 0, 0>>
Zero == <<"zero", 0, 0, 0>>
Header(s) == <<"header", s, 0, 0>>
Byte(s, i, k) == <<"byte", s, i, k>>

NoInfo == <<>>

IsAligned(a) == a % PageSize = 0
RoundUp(a) == ((((a - 1) % Word) \div PageSize + 1) * PageSize) % Word

Init ==
  /\ loader \in Loaders
  /\ archive \in Archives
  /\ mem = [a \in Addr |-> IF a \in loader.start..loader.end-1 THEN Self ELSE Old]
  /\ pc = "get_kernel"
  /\ file = 0 /\ slot = 0 /\ dest = 0 /\ seg = 1
  /\ info = [s \in 0..MaxUserImages |-> NoInfo]
  /\ numImages = 0

-----------------------------------------------------------------------------
(* elf_getMemoryBounds(): over the headers with a memory size.  Without    *)
(* one, min is UINT64_MAX and max is 0.                                    *)
Start(h, phys) == IF phys THEN h.paddr ELSE h.vaddr
Bounds(f, phys) ==
  LET hs == {h \in {f.phdrs[i] : i \in DOMAIN f.phdrs} : h.memsz # 0}
  IN [min |-> Min({Start(h, phys) : h \in hs} \union {Word - 1}),
      max |-> Max({(Start(h, phys) + h.memsz) % Word : h \in hs} \union {0})]

Image == archive[file]
Vaddr == Bounds(Image, FALSE)
MaxVaddr == RoundUp(Vaddr.max)
ImageSize == (MaxVaddr - Vaddr.min) % Word
Offset == (dest - Vaddr.min) % Word   \* phys_virt_offset

(* The n cells from a on.                                                  *)
Cells(a, n) == {b \in Addr : (b - a) % Word < n}

(* regions_overlap(), of two intervals with both ends in them.             *)
RegionsOverlap(startA, endA, startB, endB) == ~(endA < startB) /\ ~(endB < startA)

(* strncmp(a, b, n) = 0: no difference up to n or to the first NUL.        *)
Strncmp0(a, b, n) ==
  \A k \in 1..n : (\A j \in 1..k-1 : a[j] = b[j] /\ a[j] # 0) => a[k] = b[k]

(* External: libcpio's cpio_get_file(), the first file of a name, or 0.    *)
GetFile(name) ==
  LET hits == {n \in DOMAIN archive : archive[n].name = name}
  IN IF hits = {} THEN 0 ELSE Min(hits)

HashFile == GetFile(IF slot = 0 THEN "kernel.bin" ELSE "app.bin")
HashAccepted ==
  CheckHash => /\ HashFile # 0
               /\ Strncmp0(archive[HashFile].digest, Image.digest, HashLen)

-----------------------------------------------------------------------------
Abort == pc' = "abort"

(* load_images(), up to the kernel's load_elf().                           *)
GetKernel ==
  /\ pc = "get_kernel"
  /\ LET k == GetFile("kernel.elf") IN
       IF k # 0 /\ archive[k].valid
         THEN /\ file' = k
              /\ dest' = Bounds(archive[k], TRUE).min
              /\ pc' = "load_elf"
         ELSE Abort /\ UNCHANGED <<file, dest>>
  /\ UNCHANGED <<input, mem, slot, seg, info, numImages>>

(* Mutant: the region is taken without its last page.                      *)
LoadElfShortRange ==
  /\ pc = "load_elf"
  /\ IF /\ IsAligned(dest)
        /\ HashAccepted
        /\ Image.valid
        /\ IsAligned(Vaddr.min)
        /\ ~RegionsOverlap(dest, (dest + ImageSize - PageSize - 1) % Word,
                           loader.start, loader.end - 1)
       THEN pc' = "memset"
       ELSE Abort
  /\ UNCHANGED <<input, mem, file, slot, dest, seg, info, numImages>>

(* Mutant: the digests are printed and not compared.                       *)
LoadElfHashIgnored ==
  /\ pc = "load_elf"
  /\ IF /\ IsAligned(dest)
        /\ Image.valid
        /\ IsAligned(Vaddr.min)
        /\ ~RegionsOverlap(dest, (dest + ImageSize - 1) % Word, loader.start, loader.end - 1)
       THEN pc' = "memset"
       ELSE Abort
  /\ UNCHANGED <<input, mem, file, slot, dest, seg, info, numImages>>

(* load_elf()'s checks, ensure_phys_range_valid() the last of them.  Each  *)
(* that fails aborts.                                                      *)
LoadElf ==
  /\ pc = "load_elf"
  /\ IF /\ IsAligned(dest)
        /\ HashAccepted
        /\ Image.valid
        /\ IsAligned(Vaddr.min)
        /\ ~RegionsOverlap(dest, (dest + ImageSize - 1) % Word, loader.start, loader.end - 1)
       THEN pc' = "memset"
       ELSE Abort
  /\ UNCHANGED <<input, mem, file, slot, dest, seg, info, numImages>>

(* Mutant: the sparse region is not zeroed.                                *)
MemsetForgotten ==
  /\ pc = "memset"
  /\ seg' = 1
  /\ pc' = "memcpy"
  /\ UNCHANGED <<input, mem, file, slot, dest, info, numImages>>

(* unpack_elf_to_paddr(): zero the region (of the size before rounding).   *)
Memset ==
  /\ pc = "memset"
  /\ mem' = [a \in Addr |-> IF a \in Cells(dest, (Vaddr.max - Vaddr.min) % Word)
                            THEN Zero ELSE mem[a]]
  /\ seg' = 1
  /\ pc' = "memcpy"
  /\ UNCHANGED <<input, file, slot, dest, info, numImages>>

(* Mutant: the loop also copies what is not PT_LOAD.                       *)
MemcpyAll ==
  /\ pc = "memcpy"
  /\ seg <= Len(Image.phdrs)
  /\ LET h == Image.phdrs[seg]
         d == (h.vaddr + Offset) % Word
     IN mem' = [a \in Addr |-> IF a \in Cells(d, h.filesz)
                               THEN Byte(slot, seg, (a - d) % Word) ELSE mem[a]]
  /\ seg' = seg + 1
  /\ UNCHANGED <<pc, input, file, slot, dest, info, numImages>>

(* One turn of the loop: a PT_LOAD segment is copied.                      *)
Memcpy ==
  /\ pc = "memcpy"
  /\ seg <= Len(Image.phdrs)
  /\ LET h == Image.phdrs[seg]
         d == (h.vaddr + Offset) % Word
     IN IF h.load
          THEN mem' = [a \in Addr |-> IF a \in Cells(d, h.filesz)
                                      THEN Byte(slot, seg, (a - d) % Word) ELSE mem[a]]
          ELSE mem' = mem
  /\ seg' = seg + 1
  /\ UNCHANGED <<pc, input, file, slot, dest, info, numImages>>

NewInfo ==
  [phys_region_start |-> dest, phys_region_end |-> (dest + ImageSize) % Word,
   virt_region_start |-> Vaddr.min, virt_region_end |-> MaxVaddr,
   virt_entry |-> Image.entry, phys_virt_offset |-> (dest - Vaddr.min) % Word]

(* Mutant: the next image goes on the last page of this one.               *)
RecordInfoNoRound ==
  /\ pc = "memcpy"
  /\ seg > Len(Image.phdrs)
  /\ info' = [info EXCEPT ![slot] = NewInfo]
  /\ dest' = RoundUp((dest + (Vaddr.max - Vaddr.min)) % Word) - PageSize
  /\ pc' = IF slot = 0 THEN "check_first" ELSE "keep_headers"
  /\ UNCHANGED <<input, mem, file, slot, seg, numImages>>

(* The loop is over: record the placement, and round up the destination.   *)
RecordInfo ==
  /\ pc = "memcpy"
  /\ seg > Len(Image.phdrs)
  /\ info' = [info EXCEPT ![slot] = NewInfo]
  /\ dest' = RoundUp((dest + ImageSize) % Word)
  /\ pc' = IF slot = 0 THEN "check_first" ELSE "keep_headers"
  /\ UNCHANGED <<input, mem, file, slot, seg, numImages>>

(* Two words and the program header table, one cell each here.             *)
HeaderSize == 1 + Len(Image.phdrs)

(* Mutant: the headers go to the page before.                              *)
KeepHeadersBefore ==
  /\ pc = "keep_headers"
  /\ mem' = [a \in Addr |-> IF a \in Cells((dest - PageSize) % Word, HeaderSize)
                            THEN Header(slot) ELSE mem[a]]
  /\ dest' = dest
  /\ numImages' = slot
  /\ pc' = "next_user"
  /\ UNCHANGED <<input, file, slot, seg, info>>

(* keep_headers: the program headers, in a page of their own, and back in  *)
(* load_images()'s loop *num_images = i + 1.                               *)
KeepHeaders ==
  /\ pc = "keep_headers"
  /\ mem' = [a \in Addr |-> IF a \in Cells(dest, HeaderSize) THEN Header(slot) ELSE mem[a]]
  /\ dest' = (dest + PageSize) % Word
  /\ numImages' = slot
  /\ pc' = "next_user"
  /\ UNCHANGED <<input, file, slot, seg, info>>

(* The first file of the archive must be the kernel.                       *)
CheckFirst ==
  /\ pc = "check_first"
  /\ IF archive[1].name = "kernel.elf" THEN pc' = "next_user" ELSE Abort
  /\ UNCHANGED <<input, mem, file, slot, dest, seg, info, numImages>>

(* The loop over the user images: file i + 1, if there is one.             *)
NextUser ==
  /\ pc = "next_user"
  /\ IF slot < MaxUserImages /\ slot + 2 <= Len(archive)
       THEN slot' = slot + 1 /\ file' = slot + 2 /\ pc' = "load_elf"
       ELSE pc' = "main" /\ UNCHANGED <<slot, file>>
  /\ UNCHANGED <<input, mem, dest, seg, info, numImages>>

(* Mutant: the number of images is not looked at.                          *)
CheckImagesForgotten ==
  /\ pc = "main"
  /\ pc' = "loaded"
  /\ UNCHANGED <<input, mem, file, slot, dest, seg, info, numImages>>

(* main(): one user image, or abort.                                       *)
CheckImages ==
  /\ pc = "main"
  /\ IF numImages = 1 THEN pc' = "loaded" ELSE Abort
  /\ UNCHANGED <<input, mem, file, slot, dest, seg, info, numImages>>

(* main() goes on behind load_images(), or has aborted.                    *)
Done == pc \in {"loaded", "abort"} /\ UNCHANGED vars

Next ==
  \/ GetKernel \/ LoadElf \/ Memset \/ Memcpy \/ RecordInfo \/ KeepHeaders
  \/ CheckFirst \/ NextUser \/ CheckImages \/ Done

Spec == Init /\ [][Next]_vars

-----------------------------------------------------------------------------
(* Properties                                                              *)

Recorded == {s \in 0..MaxUserImages : info[s] # NoInfo}
Region(s) == Cells(info[s].phys_region_start,
                   (info[s].phys_region_end - info[s].phys_region_start) % Word)
FileOf(s) == IF s = 0 THEN archive[GetFile("kernel.elf")] ELSE archive[s + 1]

(* No two images share a page, and none shares one with the elfloader.     *)
Disjoint ==
  \A s \in Recorded :
    /\ Region(s) \intersect loader.start..loader.end-1 = {}
    /\ \A t \in Recorded \ {s} : Region(s) \intersect Region(t) = {}

(* The elfloader, which still has to unpack and to jump, is never written  *)
(* over by image data, nor by the zeroing of an image's region ("Ensure    *)
(* that the kernel physical load address doesn't overwrite us").  The      *)
(* header page, which load_elf() does not check, may be.                   *)
ImagesMissLoader ==
  \A a \in loader.start..loader.end-1 : mem[a] \in {Self} \union {Header(s) : s \in 1..MaxUserImages}

(* When main() goes on, the memory is what the ELF files say: at each      *)
(* address of an image the byte of the loadable segment that covers it,    *)
(* zero elsewhere (.bss), whatever was there before and whatever has been  *)
(* loaded since.                                                           *)
Covers(h, v) == h.load /\ v \in h.vaddr..h.vaddr + h.filesz - 1
Expected(s, v) ==
  LET f == FileOf(s)
      is == {i \in DOMAIN f.phdrs : Covers(f.phdrs[i], v)}
  IN IF is = {} THEN {Zero} ELSE {Byte(s, i, v - f.phdrs[i].vaddr) : i \in is}
LoadedRight ==
  pc = "loaded" => \A s \in Recorded : \A v \in Bounds(FileOf(s), FALSE).min..Bounds(FileOf(s), FALSE).max-1 :
    mem[(v + info[s].phys_virt_offset) % Word] \in Expected(s, v)

(* The kernel finds the headers of the user image in the page behind the   *)
(* region it is told of (the "magic offsets" the two agree on).            *)
HeadersBehindUser ==
  pc = "loaded" => /\ numImages = 1
                   /\ mem[info[1].phys_region_end % Word] = Header(1)

(* An image is only placed when its hash file is there and says what       *)
(* get_hash() finds ("Check to make sure the hashes are the same"): in all *)
(* of the hash_len bytes.                                                  *)
HashesSame ==
  \A s \in Recorded : CheckHash =>
    LET h == GetFile(IF s = 0 THEN "kernel.bin" ELSE "app.bin")
    IN h # 0 /\ archive[h].digest = FileOf(s).digest
=============================================================================
