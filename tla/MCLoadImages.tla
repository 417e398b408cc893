---------------------------- MODULE MCLoadImages ----------------------------
(* Instances of LoadImages: pages of four cells, an address space of 12    *)
(* pages, of which the last four are no memory.                            *)
EXTENDS LoadImages

H(load, v, p, fsz, msz) == [load |-> load, vaddr |-> v, paddr |-> p, filesz |-> fsz, memsz |-> msz]
F(name, valid, phdrs, entry, digest) ==
  [name |-> name, valid |-> valid, phdrs |-> phdrs, entry |-> entry, digest |-> digest]

RamCells == 0..31

(* Before, behind and between what the images want.                        *)
SomeLoaders ==
  {[start |-> 0, end |-> 4], [start |-> 9, end |-> 12], [start |-> 20, end |-> 26],
   [start |-> 28, end |-> 32]}

Good == <<7, 5>>
Bad == <<7, 6>>

(* Kernels: one segment; text, a note and a sparse data segment; one that  *)
(* is not linear; an unaligned one; one without any segment; not an ELF.   *)
Kernels ==
  {F("kernel.elf", TRUE, <<H(TRUE, 36, 8, 3, 4)>>, 36, Good),
   F("kernel.elf", TRUE, <<H(TRUE, 32, 4, 2, 3), H(FALSE, 32, 4, 1, 2), H(TRUE, 38, 10, 1, 5)>>, 33, Good),
   F("kernel.elf", TRUE, <<H(TRUE, 32, 8, 4, 4), H(TRUE, 36, 16, 2, 2)>>, 32, Good),
   F("kernel.elf", TRUE, <<H(TRUE, 33, 9, 2, 2)>>, 33, Good),
   F("kernel.elf", TRUE, <<>>, 0, Good),
   F("kernel.elf", FALSE, <<>>, 0, Good)}

(* User images: whole pages, half a page, a .bss of pages, none valid.     *)
Users ==
  {F("app", TRUE, <<H(TRUE, 4, 4, 4, 4)>>, 4, Good),
   F("app", TRUE, <<H(TRUE, 4, 4, 1, 2)>>, 5, Good),
   F("app", TRUE, <<H(TRUE, 4, 4, 2, 2), H(FALSE, 6, 6, 1, 1), H(TRUE, 8, 8, 1, 7)>>, 4, Good),
   F("app", TRUE, <<H(TRUE, 5, 5, 1, 1)>>, 5, Good),
   F("app", FALSE, <<>>, 0, Good)}

Hash(name, d) == F(name, FALSE, <<>>, 0, d)

KHash == Hash("kernel.bin", Good)
UHash == Hash("app.bin", Good)

(* In order; without a user image; with the kernel second; without it; a   *)
(* hash file that differs in its last byte; a hash file missing.           *)
SomeArchives ==
  {<<k, u, KHash, UHash>> : k \in Kernels, u \in Users}
    \union {<<k>> : k \in Kernels}
    \union {<<k, KHash>> : k \in Kernels}
    \union {<<u, k, KHash, UHash>> : k \in Kernels, u \in Users}
    \union {<<u, KHash, UHash>> : u \in Users}
    \union {<<k, u, Hash("kernel.bin", Bad), UHash>> : k \in Kernels, u \in Users}
    \union {<<k, u, KHash, Hash("app.bin", Bad)>> : k \in Kernels, u \in Users}
    \union {<<k, u, KHash>> : k \in Kernels, u \in Users}

OneKernel == F("kernel.elf", TRUE, <<H(TRUE, 36, 8, 3, 4)>>, 36, Good)

(* The digests agree up to a byte that is 0 in both.                       *)
NulArchives ==
  {<<OneKernel, F("app", TRUE, <<H(TRUE, 4, 4, 4, 4)>>, 4, <<0, 5>>),
     Hash("kernel.bin", Good), Hash("app.bin", <<0, 9>>)>>}

LowLoader == {[start |-> 0, end |-> 4]}
=============================================================================
