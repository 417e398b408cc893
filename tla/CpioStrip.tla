------------------------------ MODULE CpioStrip ------------------------------
(***************************************************************************)
(* misc/cpio-strip.c: the build's tool that rewrites the metadata in the   *)
(* headers of a CPIO archive in place, through a shared mapping.  libcpio  *)
(* is external.  An archive is what lies at each offset that starts a      *)
(* header or a file; offsets count bytes from the mapping's page boundary. *)
(***************************************************************************)
EXTENDS Integers, Sequences

CONSTANTS
  CPIO_ALIGNMENT,
  HeaderSize        \* sizeof(struct cpio_header)
ASSUME CpioAssumption == CPIO_ALIGNMENT \in Nat \ {0} /\ HeaderSize \in Nat

AlignUp(a) == a + ((-a) % CPIO_ALIGNMENT)

(* External: where libcpio finds the data behind a header and a name of n  *)
(* characters with its NUL, and the next header behind the data.           *)
DataAt(header, n) == AlignUp(header + HeaderSize + n + 1)
NextHeader(data, size) == AlignUp(data + size)

(* Mutant: the NUL behind the name is forgotten.                           *)
GetHeaderNoNul(data, n) ==
  LET p == data - n - HeaderSize IN p - (p % CPIO_ALIGNMENT)

(* get_header(): from a file's data, of a name of n characters.            *)
GetHeader(data, n) ==
  LET p == data - n - 1 - HeaderSize IN p - (p % CPIO_ALIGNMENT)

(* External: cpio_get_entry(), the data of entry i, counted from 0.        *)
EntryAt(archive, i) ==
  LET Header[k \in 0..i] ==
        IF k = 0 THEN 0
        ELSE LET h == archive[Header[k-1]]
             IN NextHeader(DataAt(Header[k-1], h.namesize), h.filesize)
  IN [filename |-> archive[Header[i]].namesize,
      data |-> DataAt(Header[i], archive[Header[i]].namesize)]

(* "%08x" does not fit c_ino with its NUL: the last digit is cut off.      *)
Inode(i) == (11 + i) \div 16

(* The loop's body: the one header's metadata, in place.                   *)
StripEntry(archive, i) ==
  LET entry == EntryAt(archive, i)
      header == GetHeader(entry.data, entry.filename)
  IN [a \in DOMAIN archive \union {header} |->
        IF a # header THEN archive[a]
        ELSE [(IF a \in DOMAIN archive THEN archive[a] ELSE [meta |-> <<>>])
                EXCEPT !.meta = [c_ino |-> Inode(i), c_uid |-> 0, c_gid |-> 0, c_mtime |-> 0]]]

(* main(), for an archive cpio_info() counts file_count entries of.        *)
Strip(archive, file_count) ==
  LET Done[k \in 0..file_count] ==
        IF k = 0 THEN archive ELSE StripEntry(Done[k-1], k - 1)
  IN Done[file_count]
=============================================================================
