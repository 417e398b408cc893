------------------------------- MODULE Printf -------------------------------
(***************************************************************************)
(* printf.c: the conversions the loader's printf() knows.  A format is a   *)
(* sequence of characters, the output too; an argument is a number or, for *)
(* %s, a sequence of characters.  int and unsigned long have IntVals and   *)
(* LongVals values, scaled down.                                           *)
(***************************************************************************)
EXTENDS Integers, Sequences

CONSTANTS IntVals, LongVals
ASSUME PrintfAssumption == IntVals \in Nat /\ LongVals \in Nat /\ IntVals <= LongVals

Digit == <<"0", "1", "2", "3", "4", "5", "6", "7", "8", "9", "a", "b", "c", "d", "e", "f">>
Modifiers == {"0", "1", "2", "3", "4", "5", "6", "7", "8", "9", "-", "."}

(* Mutant: the loop ends when one digit is left.                           *)
WriteNumShort(base, n) ==
  LET From[k \in 0..n] == IF k < base THEN <<>> ELSE Append(From[k \div base], Digit[(k % base) + 1])
  IN IF n = 0 THEN <<"0">> ELSE From[n]

(* write_num(): the digits are made from the last to the first.            *)
WriteNum(base, n) ==
  LET From[k \in 0..n] == IF k = 0 THEN <<>> ELSE Append(From[k \div base], Digit[(k % base) + 1])
  IN IF n = 0 THEN <<"0">> ELSE From[n]

(* An int that is passed for the unsigned long of write_num() is extended  *)
(* with its sign, for %u and %x as for %d.                                 *)
SignExtended(arg) ==
  LET low == arg % IntVals
  IN IF low < IntVals \div 2 THEN low ELSE LongVals - IntVals + low

(* vxprintf() after one more character c: what was written, how c will be  *)
(* followed up ("plain", "escape" after %, "long" after %l), and which     *)
(* argument is next.                                                       *)
Emit(st, out) == [st EXCEPT !.out = @ \o out, !.mode = "plain"]
EmitArg(st, out) == [Emit(st, out) EXCEPT !.arg = @ + 1]
Convert(st, c, args) ==
  CASE c \in Modifiers  -> st
    [] c = "s"          -> EmitArg(st, args[st.arg])
    [] c = "p"          -> EmitArg(st, WriteNum(16, args[st.arg] % LongVals))
    [] c = "x"          -> EmitArg(st, WriteNum(16, SignExtended(args[st.arg])))
    [] c \in {"d", "u"} -> EmitArg(st, WriteNum(10, SignExtended(args[st.arg])))
    [] c = "c"          -> EmitArg(st, <<args[st.arg]>>)
    [] c = "l"          -> [st EXCEPT !.mode = "long"]
    [] OTHER            -> Emit(st, <<"?">>)
ConvertLong(st, c, args) ==
  CASE c = "u" -> EmitArg(st, WriteNum(10, args[st.arg] % LongVals))
    [] c = "x" -> EmitArg(st, WriteNum(16, args[st.arg] % LongVals))
    [] OTHER   -> Emit(st, <<"?">>)
Character(st, c, args) ==
  CASE st.mode = "long"                  -> ConvertLong(st, c, args)
    [] st.mode = "plain" /\ c # "%"      -> Emit(st, <<c>>)
    [] st.mode = "plain" /\ c = "%"      -> [st EXCEPT !.mode = "escape"]
    [] st.mode = "escape" /\ c = "%"     -> Emit(st, <<"%">>)
    [] OTHER                             -> Convert(st, c, args)

(* A format must not end in %l: the loop would step over its NUL.          *)
Vxprintf(format, args) ==
  LET After[k \in 0..Len(format)] ==
        IF k = 0 THEN [out |-> <<>>, mode |-> "plain", arg |-> 1]
                 ELSE Character(After[k-1], format[k], args)
  IN After[Len(format)].out

(* printf() and sprintf() return the number of characters written.         *)
Returned(format, args) == Len(Vxprintf(format, args))
Puts(str) == Append(str, "\n")

(* print_hash(): "%02x" for each byte, and the "02" is ignored.            *)
PrintHash(hash) ==
  LET After[k \in 0..Len(hash)] ==
        IF k = 0 THEN <<>> ELSE After[k-1] \o Vxprintf(<<"%", "0", "2", "x">>, <<hash[k]>>)
  IN Append(After[Len(hash)], "\n")
=============================================================================
