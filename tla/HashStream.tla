----------------------------- MODULE HashStream -----------------------------
(***************************************************************************)
(* utils/: SHA-256 and MD5 around their block functions.  A hash state is  *)
(* [len, buf, blocks]: the bytes so far, the buffer for a block that is    *)
(* not full, and the blocks given to processblock(), whose arithmetic is   *)
(* left out.  The sizes are the real ones.                                 *)
(***************************************************************************)
EXTENDS Integers, Sequences

BlockLen == 64
LenAt == 56        \* where the length stands in the last block
Stop == 128        \* 0x80, the byte behind the message
Stale == -1        \* a byte of the buffer nobody has written

Put(buf, at, bytes) ==
  [k \in 0 .. BlockLen - 1 |->
     IF k >= at /\ k < at + Len(bytes) THEN bytes[k - at + 1] ELSE buf[k]]
Fill(buf, from, to) ==
  [k \in 0 .. BlockLen - 1 |-> IF k >= from /\ k < to THEN 0 ELSE buf[k]]
ProcessBlock(s, block) ==
  [s EXCEPT !.blocks = Append(@, [k \in 1..BlockLen |-> block[k - 1]])]

(* sha256_init(), md5_init(): the buffer is left as it is.                 *)
Init(s) == [s EXCEPT !.len = 0, !.blocks = <<>>]

(* Whole blocks of p from byte "from" on are processed where they stand,   *)
(* the rest goes to the start of the buffer.                               *)
WholeBlocks(s, p, from) ==
  LET n == (Len(p) - from) \div BlockLen
      After[k \in 0..n] ==
        IF k = 0 THEN s
        ELSE ProcessBlock(After[k-1], [b \in 0 .. BlockLen - 1 |->
                                         p[from + (k-1) * BlockLen + b + 1]])
  IN [After[n] EXCEPT !.buf = Put(@, 0, SubSeq(p, from + n * BlockLen + 1, Len(p)))]

(* Mutant: the buffer is processed one byte later than it is full.         *)
UpdateLate(s, p) ==
  LET r == s.len % BlockLen
      t == [s EXCEPT !.len = @ + Len(p)]
      filled == Put(s.buf, r, SubSeq(p, 1, BlockLen - r))
  IN IF r = 0 THEN WholeBlocks(t, p, 0)
     ELSE IF Len(p) <= BlockLen - r THEN [t EXCEPT !.buf = Put(@, r, p)]
     ELSE WholeBlocks(ProcessBlock([t EXCEPT !.buf = filled], filled), p, BlockLen - r)

(* sha256_update(), md5_update().                                          *)
Update(s, p) ==
  LET r == s.len % BlockLen
      t == [s EXCEPT !.len = @ + Len(p)]
      filled == Put(s.buf, r, SubSeq(p, 1, BlockLen - r))
  IN IF r = 0 THEN WholeBlocks(t, p, 0)
     ELSE IF Len(p) < BlockLen - r THEN [t EXCEPT !.buf = Put(@, r, p)]
     ELSE WholeBlocks(ProcessBlock([t EXCEPT !.buf = filled], filled), p, BlockLen - r)

(* md5.c repeats the three functions word for word but for the order of    *)
(* the length's bytes.                                                     *)
InitMd5(s) == Init(s)
UpdateMd5(s, p) == Update(s, p)

(* Byte k of an integer, from the least significant.                       *)
ByteOf(v, k) ==
  LET Shifted[n \in 0..7] == IF n = 0 THEN v ELSE Shifted[n-1] \div 256
  IN Shifted[k] % 256
BigEndian(v) == [k \in 1..8 |-> ByteOf(v, 8 - k)]
LittleEndian(v) == [k \in 1..8 |-> ByteOf(v, k - 1)]

(* pad(): 0x80, zeros up to the length, and a block of its own for the     *)
(* length when it does not fit behind the message.                         *)
Pad(s, length) ==
  LET r == (s.len % BlockLen) + 1
      stopped == Put(s.buf, r - 1, <<Stop>>)
      full == Fill(stopped, r, BlockLen)
      t == IF r > LenAt THEN ProcessBlock([s EXCEPT !.buf = full], full)
                        ELSE [s EXCEPT !.buf = stopped]
      last == Put(Fill(t.buf, IF r > LenAt THEN 0 ELSE r, LenAt), LenAt, length)
  IN ProcessBlock([t EXCEPT !.buf = last, !.len = s.len * 8], last)

PadSha256(s) == Pad(s, BigEndian(s.len * 8))
PadMd5(s) == Pad(s, LittleEndian(s.len * 8))

(* get_hash(): the blocks the digest is made of, by the kind of hash.  The *)
(* structure it copies is as uninitialised as its caller left it.          *)
GetHash(hashType, file, stack) ==
  IF hashType = "SHA_256"
    THEN PadSha256(Update(Init(stack), file)).blocks
    ELSE PadMd5(UpdateMd5(InitMd5(stack), file)).blocks

-----------------------------------------------------------------------------
(* External: the padding of FIPS 180-3 and RFC 1321.  The message, one bit *)
(* set, zeros up to 8 bytes short of a multiple of 64, the bit length.     *)
Padded(message, length) ==
  LET zeros == (LenAt - 1 - Len(message)) % BlockLen
  IN message \o <<Stop>> \o [k \in 1..zeros |-> 0] \o length
Concat(blocks) ==
  [k \in 1 .. BlockLen * Len(blocks) |->
     blocks[((k - 1) \div BlockLen) + 1][((k - 1) % BlockLen) + 1]]
=============================================================================
