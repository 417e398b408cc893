--------------------------- MODULE Console_proofs ---------------------------
(***************************************************************************)
(* What is printed goes out whole and in order, for every text, every size *)
(* of the transmit queue and every driver.                                 *)
(***************************************************************************)
EXTENDS Console, SequenceTheorems, WellFoundedInduction, TLAPS

Char == STRING \union {"\r"}
Texts == Seq(Char)

(***************************************************************************)
(* FlattenSeq(), as the function its definition computes                   *)
(***************************************************************************)
(* A non-empty set of naturals has a least element.                        *)
LEMMA Least ==
  ASSUME NEW T, T \subseteq Nat, T # {}
  PROVE  \E x \in T : \A y \in T : x <= y
<1>1. PICK x \in T : \A y \in T : ~ (<<y, x>> \in OpToRel(<, Nat))
  BY NatLessThanWellFounded, WFMin
<1>2. \A y \in T : ~ (y < x)
  BY <1>1 DEF OpToRel
<1> QED BY <1>2

(* f holds, at i, the first i of the texts s, one behind the other.        *)
Flattens(f, s, n) == f = [i \in 1..n |-> IF i = 1 THEN s[i] ELSE f[i-1] \o s[i]]
Flat(s) == CHOOSE f : Flattens(f, s, Len(s))

LEMMA FlattenIsFlat ==
  ASSUME NEW s, Len(s) # 0
  PROVE  FlattenSeq(s) = Flat(s)[Len(s)]
BY DEF FlattenSeq, Flat, Flattens

LEMMA FlatExists ==
  ASSUME NEW s, NEW N \in Nat
  PROVE  \E f : Flattens(f, s, N)
<1> DEFINE Has(n) == \E f : Flattens(f, s, n)
           Bad == {n \in 0..N : ~Has(n)}
<1>1. SUFFICES ASSUME Bad # {} PROVE FALSE
  OBVIOUS
<1>2. PICK n \in Bad : \A m \in Bad : n <= m
  <2>1. Bad \subseteq Nat
    OBVIOUS
  <2> HIDE DEF Bad
  <2> QED BY <1>1, <2>1, Least
<1>3. n # 0
  <2>1. Flattens([i \in 1..0 |-> 0], s, 0)
    BY DEF Flattens
  <2> QED BY <2>1
<1>4. PICK f : Flattens(f, s, n - 1)
  <2>1. n - 1 \in 0..N /\ n - 1 \notin Bad
    BY <1>2, <1>3
  <2> QED BY <2>1
<1> DEFINE g == [i \in 1..n |-> IF i = n THEN IF n = 1 THEN s[1] ELSE f[n-1] \o s[n] ELSE f[i]]
<1>5. Flattens(g, s, n)
  <2>1. ASSUME NEW i \in 1..n PROVE g[i] = IF i = 1 THEN s[i] ELSE g[i-1] \o s[i]
    <3>1. n \in Nat /\ i \in Nat
      BY <1>2
    <3>2. i < n => f[i] = IF i = 1 THEN s[i] ELSE f[i-1] \o s[i]
      <4>1. i < n => i \in 1 .. n - 1
        BY <3>1
      <4> QED BY <1>4, <4>1 DEF Flattens
    <3>3. CASE i = n
      <4>1. n # 1 => n - 1 \in 1..n /\ n - 1 # n
        BY <3>1, <1>3
      <4> QED BY <3>3, <4>1
    <3>4. CASE i # n
      <4>1. i < n /\ (i # 1 => i - 1 \in 1..n /\ i - 1 # n)
        BY <3>1, <3>4
      <4> QED BY <3>2, <3>4, <4>1
    <3> QED BY <3>3, <3>4
  <2>2. g = [i \in 1..n |-> g[i]]
    OBVIOUS
  <2> HIDE DEF g
  <2> QED BY <2>1, <2>2 DEF Flattens
<1> QED BY <1>2, <1>5

(* Flat() step by step, and its texts are texts.                           *)
LEMMA FlatIs ==
  ASSUME NEW s \in Seq(Texts)
  PROVE  /\ \A i \in 1..Len(s) : Flat(s)[i] = IF i = 1 THEN s[i] ELSE Flat(s)[i-1] \o s[i]
         /\ \A i \in 1..Len(s) : Flat(s)[i] \in Texts
<1>1. Len(s) \in Nat /\ \A i \in 1..Len(s) : s[i] \in Texts
  BY ElementOfSeq, LenProperties
<1>2. Flattens(Flat(s), s, Len(s))
  BY <1>1, FlatExists DEF Flat
<1>3. \A i \in 1..Len(s) : Flat(s)[i] = IF i = 1 THEN s[i] ELSE Flat(s)[i-1] \o s[i]
  <2> DEFINE F == Flat(s)
  <2>1. F = [i \in 1..Len(s) |-> IF i = 1 THEN s[i] ELSE F[i-1] \o s[i]]
    BY <1>2 DEF Flattens
  <2> HIDE DEF F
  <2>2. \A i \in 1..Len(s) : F[i] = IF i = 1 THEN s[i] ELSE F[i-1] \o s[i]
    BY <2>1
  <2> QED BY <2>2 DEF F
<1> DEFINE Bad == {i \in 1..Len(s) : Flat(s)[i] \notin Texts}
<1>4. SUFFICES ASSUME Bad # {} PROVE FALSE
  BY <1>3
<1>5. PICK i \in Bad : \A j \in Bad : i <= j
  <2>1. Bad \subseteq Nat
    BY <1>1
  <2> HIDE DEF Bad
  <2> QED BY <1>4, <2>1, Least
<1>6. CASE i = 1
  BY <1>1, <1>3, <1>5, <1>6
<1>7. CASE i # 1
  <2>1. i - 1 \in 1..Len(s) /\ ~(i <= i - 1) /\ i \in 1..Len(s)
    BY <1>1, <1>5, <1>7
  <2>2. Flat(s)[i-1] \in Texts
    BY <1>5, <2>1
  <2>3. Flat(s)[i-1] \o s[i] \in Texts
    BY <1>1, <2>1, <2>2, ConcatProperties DEF Texts
  <2> QED BY <1>3, <1>5, <1>7, <2>1, <2>3
<1> QED BY <1>6, <1>7

(***************************************************************************)
(* What has gone out of a text after so many of its characters             *)
(***************************************************************************)
Text == (IF a7 THEN SwitchText ELSE <<>>) \o BootText
Pieces == [k \in DOMAIN Text |-> <<Text[k]>> \o Behind(Text[k])]
Sofar(i) == IF i = 0 THEN <<>> ELSE Flat(Pieces)[i]

LEMMA CharText ==
  ASSUME NEW c \in Char
  PROVE  <<c>> \in Texts /\ <<>> \in Texts /\ Len(<<c>>) = 1 /\ <<c>>[1] = c
<1>1. <<>> \in Seq(Char)
  BY EmptySeq
<1>2. Append(<<>>, c) \in Seq(Char)
  BY <1>1, AppendProperties
<1>3. Append(<<>>, c) = <<c>>
  BY <1>1, AppendIsConcat, ConcatEmptySeq
<1> QED BY <1>1, <1>2, <1>3 DEF Texts

LEMMA TextIsText ==
  /\ Text \in Texts /\ Len(Text) \in Nat /\ DOMAIN Text = 1..Len(Text)
  /\ \A k \in 1..Len(Text) : Text[k] \in Char /\ Behind(Text[k]) \in Texts
<1>1. SwitchText \in Texts /\ BootText \in Texts /\ <<>> \in Texts
  <2>1. SwitchText \in Seq(STRING) /\ BootText \in Seq(STRING) /\ STRING \subseteq Char
    BY ConsoleAssumption DEF Char
  <2> QED BY <2>1, SeqMonotonic, EmptySeq DEF Texts
<1>2. Text \in Texts
  <2>1. (IF a7 THEN SwitchText ELSE <<>>) \in Texts
    BY <1>1
  <2> QED BY <1>1, <2>1, ConcatProperties DEF Text, Texts
<1>3. Len(Text) \in Nat /\ DOMAIN Text = 1..Len(Text)
  BY <1>2, LenProperties DEF Texts
<1>4. \A k \in 1..Len(Text) : Text[k] \in Char
  BY <1>2, ElementOfSeq DEF Texts
<1>5. "\r" \in Char
  BY DEF Char
<1>6. \A k \in 1..Len(Text) : Behind(Text[k]) \in Texts
  BY <1>1, <1>5, CharText DEF Behind
<1> QED BY <1>2, <1>3, <1>4, <1>6

LEMMA PiecesAre ==
  /\ Pieces \in Seq(Texts) /\ Len(Pieces) = Len(Text)
  /\ \A k \in 1..Len(Text) : Pieces[k] = <<Text[k]>> \o Behind(Text[k])
<1>1. /\ DOMAIN Text = 1..Len(Text) /\ Len(Text) \in Nat
  BY TextIsText
<1>2. \A k \in 1..Len(Text) : <<Text[k]>> \o Behind(Text[k]) \in Texts
  BY TextIsText, CharText, ConcatProperties DEF Texts
<1>3. Pieces \in [1..Len(Text) -> Texts]
  BY <1>1, <1>2 DEF Pieces
<1> QED BY <1>1, <1>3 DEF Pieces

(* One character further, and the whole.                                   *)
LEMMA SofarNext ==
  /\ Sofar(0) = <<>>
  /\ \A i \in 0..Len(Text) : Sofar(i) \in Texts
  /\ \A i \in 1..Len(Text) : Sofar(i) = Sofar(i-1) \o (<<Text[i]>> \o Behind(Text[i]))
  /\ Output = Sofar(Len(Text))
<1>1. Len(Text) \in Nat /\ Sofar(0) = <<>> /\ <<>> \in Texts
  BY TextIsText, EmptySeq DEF Sofar, Texts
<1>2. ASSUME NEW i \in 1..Len(Text)
      PROVE  /\ Sofar(i) = Flat(Pieces)[i] /\ Sofar(i) \in Texts
             /\ Flat(Pieces)[i] = IF i = 1 THEN Pieces[i] ELSE Flat(Pieces)[i-1] \o Pieces[i]
             /\ Pieces[i] \in Texts /\ Pieces[i] = <<Text[i]>> \o Behind(Text[i])
  <2>1. i # 0 /\ i \in 1..Len(Pieces)
    BY PiecesAre
  <2>2. Pieces[i] \in Texts
    BY <2>1, PiecesAre, ElementOfSeq
  <2>3. Sofar(i) = Flat(Pieces)[i]
    BY <2>1 DEF Sofar
  <2> QED BY <2>1, <2>2, <2>3, PiecesAre, FlatIs
<1>3. \A i \in 0..Len(Text) : Sofar(i) \in Texts
  <2>1. ASSUME NEW i \in 0..Len(Text) PROVE Sofar(i) \in Texts
    <3>1. CASE i = 0
      BY <1>1, <3>1
    <3>2. CASE i # 0
      <4>1. i \in 1..Len(Text)
        BY <3>2
      <4> QED BY <1>2, <4>1
    <3> QED BY <3>1, <3>2
  <2> QED BY <2>1
<1>4. ASSUME NEW i \in 1..Len(Text) PROVE Sofar(i) = Sofar(i-1) \o (<<Text[i]>> \o Behind(Text[i]))
  <2>1. CASE i = 1
    <3>1. Sofar(i) = Pieces[i] /\ Sofar(i-1) = <<>>
      <4>1. i - 1 = 0
        BY <2>1
      <4>2. Sofar(i-1) = <<>>
        BY <1>1, <4>1
      <4> QED BY <1>2, <2>1, <4>2
    <3>2. <<>> \o Pieces[i] = Pieces[i]
      BY <1>2, ConcatEmptySeq DEF Texts
    <3> QED BY <1>2, <3>1, <3>2
  <2>2. CASE i # 1
    <3>1. i - 1 \in 1..Len(Text)
      BY <2>2
    <3> QED BY <1>2, <2>2, <3>1
  <2> QED BY <2>1, <2>2
<1>5. Output = Sofar(Len(Text))
  <2>1. Output = FlattenSeq(Pieces)
    BY DEF Output, WithReturns, Pieces, Text
  <2>2. CASE Len(Text) = 0
    <3>1. FlattenSeq(Pieces) = Pieces
      BY <2>2, PiecesAre DEF FlattenSeq
    <3>2. Pieces = <<>>
      BY <2>2, PiecesAre, EmptySeq
    <3> QED BY <1>1, <2>1, <2>2, <3>1, <3>2
  <2>3. CASE Len(Text) # 0
    <3>1. Len(Text) \in 1..Len(Text)
      BY <1>1, <2>3
    <3>2. FlattenSeq(Pieces) = Flat(Pieces)[Len(Pieces)]
      BY <2>3, PiecesAre, FlattenIsFlat
    <3> QED BY <1>2, <2>1, <3>1, <3>2, PiecesAre
  <2> QED BY <2>2, <2>3
<1> QED BY <1>1, <1>3, <1>4, <1>5

(* t starts with s.                                                        *)
Starts(s, t) == \E u \in Texts : t = s \o u

LEMMA StartsIsPrefix ==
  ASSUME NEW s \in Texts, NEW t \in Texts, Starts(s, t)
  PROVE  IsPrefix(s, t)
<1>1. PICK u \in Texts : t = s \o u
  BY DEF Starts
<1>2. Len(s) \in Nat /\ Len(u) \in Nat /\ Len(t) = Len(s) + Len(u)
  BY <1>1, ConcatProperties, LenProperties DEF Texts
<1>3. CASE Len(s) = 0
  BY <1>2, <1>3, SubSeqEmpty DEF IsPrefix
<1>4. CASE Len(s) # 0
  <2>1. 1 \in 1..Len(s) /\ Len(s) \in 1..Len(s)
    BY <1>2, <1>4
  <2>2. SubSeq(s \o u, 1, Len(s)) = SubSeq(s, 1, Len(s))
    BY <2>1, SubSeqOfConcat1 DEF Texts
  <2> QED BY <1>1, <1>2, <2>2 DEF IsPrefix
<1> QED BY <1>3, <1>4

LEMMA StartsTrans ==
  ASSUME NEW s \in Texts, NEW t \in Texts, NEW u \in Texts, Starts(s, t), Starts(t, u)
  PROVE  Starts(s, u)
<1>1. PICK x \in Texts : t = s \o x
  BY DEF Starts
<1>2. PICK y \in Texts : u = t \o y
  BY DEF Starts
<1>3. u = s \o (x \o y) /\ x \o y \in Texts
  BY <1>1, <1>2, ConcatAssociative, ConcatProperties DEF Texts
<1> QED BY <1>3 DEF Starts

(* The output starts with what has gone out of any number of characters,   *)
(* and with that and the next character.                                   *)
LEMMA OutputStarts ==
  /\ Output \in Texts
  /\ \A i \in 0..Len(Text) : Starts(Sofar(i), Output)
  /\ \A i \in 1..Len(Text) : /\ Sofar(i) = Append(Sofar(i-1), Text[i]) \o Behind(Text[i])
                             /\ Append(Sofar(i-1), Text[i]) \in Texts
                             /\ Starts(Append(Sofar(i-1), Text[i]), Output)
<1>1. Len(Text) \in Nat /\ \A i \in 0..Len(Text) : Sofar(i) \in Texts
  BY TextIsText, SofarNext
<1>2. Output \in Texts /\ Output = Sofar(Len(Text))
  BY <1>1, SofarNext
<1>3. ASSUME NEW i \in 1..Len(Text)
      PROVE  /\ Sofar(i) = Append(Sofar(i-1), Text[i]) \o Behind(Text[i])
             /\ Append(Sofar(i-1), Text[i]) \in Texts
             /\ Starts(Append(Sofar(i-1), Text[i]), Sofar(i))
  <2>1. i - 1 \in 0..Len(Text)
    BY <1>1
  <2>2. Sofar(i-1) \in Texts /\ Text[i] \in Char /\ Behind(Text[i]) \in Texts
    BY <1>1, <2>1, TextIsText
  <2>3. Append(Sofar(i-1), Text[i]) = Sofar(i-1) \o <<Text[i]>>
    BY <2>2, AppendIsConcat DEF Texts
  <2>4. <<Text[i]>> \in Texts
    BY <2>2, CharText
  <2>5. (Sofar(i-1) \o <<Text[i]>>) \o Behind(Text[i]) = Sofar(i-1) \o (<<Text[i]>> \o Behind(Text[i]))
    BY <2>2, <2>4, ConcatAssociative DEF Texts
  <2>6. Append(Sofar(i-1), Text[i]) \in Texts
    BY <2>2, AppendProperties DEF Texts
  <2> QED BY <2>2, <2>3, <2>5, <2>6, SofarNext DEF Starts
<1>4. ASSUME NEW i \in 1..Len(Text) PROVE Starts(Sofar(i-1), Sofar(i))
  <2>1. i - 1 \in 0..Len(Text) /\ Text[i] \in Char /\ Behind(Text[i]) \in Texts
    BY <1>1, TextIsText
  <2>2. <<Text[i]>> \o Behind(Text[i]) \in Texts
    BY <2>1, CharText, ConcatProperties DEF Texts
  <2> QED BY <2>2, SofarNext DEF Starts
<1>5. ASSUME NEW i \in 0..Len(Text) PROVE Starts(Sofar(i), Output)
  <2> DEFINE Good(j) == Starts(Sofar(Len(Text) - j), Output)
             Bad == {j \in 0..Len(Text) : ~Good(j)}
  <2>1. Good(0)
    <3>1. Len(Text) - 0 = Len(Text) /\ <<>> \in Texts /\ Output = Output \o <<>>
      BY <1>1, <1>2, EmptySeq, ConcatEmptySeq DEF Texts
    <3> QED BY <1>2, <3>1 DEF Starts
  <2>2. Bad = {}
    <3>1. SUFFICES ASSUME Bad # {} PROVE FALSE
      OBVIOUS
    <3>2. PICK j \in Bad : \A k \in Bad : j <= k
      <4>1. Bad \subseteq Nat
        BY <1>1
      <4> HIDE DEF Bad
      <4> QED BY <3>1, <4>1, Least
    <3>3. j \in 1..Len(Text) /\ j - 1 \in 0..Len(Text) /\ ~(j <= j - 1)
      <4>1. j \in 0..Len(Text) /\ ~Good(j)
        BY <3>2
      <4>2. j # 0
        BY <2>1, <4>1
      <4> QED BY <1>1, <4>1, <4>2
    <3>4. Good(j - 1)
      <4>1. j - 1 \notin Bad
        BY <3>2, <3>3
      <4> QED BY <3>3, <4>1
    <3> DEFINE m == Len(Text) - j
    <3>5. m + 1 \in 1..Len(Text) /\ m \in 0..Len(Text) /\ m + 1 \in 0..Len(Text)
          /\ (m + 1) - 1 = m /\ Len(Text) - (j - 1) = m + 1
      BY <1>1, <3>3
    <3>6. Starts(Sofar(m + 1), Output)
      BY <3>4, <3>5
    <3>7. Starts(Sofar(m), Sofar(m + 1))
      <4> HIDE DEF m
      <4> QED BY <1>4, <3>5
    <3>8. Starts(Sofar(m), Output)
      <4> HIDE DEF m
      <4> QED BY <1>1, <1>2, <3>5, <3>6, <3>7, StartsTrans
    <3> QED BY <3>2, <3>8
  <2> DEFINE j == Len(Text) - i
  <2>3. j \in 0..Len(Text) /\ Len(Text) - j = i
    BY <1>1
  <2>4. Good(j)
    BY <2>2, <2>3
  <2> QED BY <2>3, <2>4
<1>6. ASSUME NEW i \in 1..Len(Text) PROVE Starts(Append(Sofar(i-1), Text[i]), Output)
  <2>1. i \in 0..Len(Text)
    BY <1>1
  <2> QED BY <1>1, <1>2, <1>3, <1>5, <2>1, StartsTrans
<1> QED BY <1>2, <1>3, <1>5, <1>6

(***************************************************************************)
(* The invariant                                                           *)
(***************************************************************************)
Out == sent \o fifo

(* Core c has printed the first characters of Text, perhaps all but the    *)
(* '\r' of the last, and still has to print those up to the end-th.        *)
Printed(c, end) ==
  \E i \in 0..end :
    \/ Out = Sofar(i) /\ todo[c] = SubSeq(Text, i + 1, end)
    \/ /\ i < end /\ Behind(Text[i+1]) = <<"\r">>
       /\ Out = Append(Sofar(i), Text[i+1])
       /\ todo[c] = <<"\r">> \o SubSeq(Text, i + 2, end)

Switched == IF a7 THEN Len(SwitchText) ELSE Len(Text)    \* where the first core stops
Label == {"platform_init", "print", "shutdown", "off", "reset"}
OutTypes ==
  /\ depth \in Nat \ {0} /\ driver \in Drivers /\ a7 \in BOOLEAN
  /\ fifo \in Texts /\ sent \in Texts
  /\ pc \in [Core -> Label] /\ todo \in [Core -> Texts]
OutInv ==
  /\ OutTypes
  /\ \/ pc["first"] = "platform_init" /\ pc["a15"] = "off" /\ Out = <<>>
     \/ pc["first"] = "print" /\ pc["a15"] = "off" /\ Printed("first", Switched)
     \/ /\ a7 /\ pc["first"] = "shutdown" /\ pc["a15"] \in {"reset", "platform_init"}
        /\ Out = Sofar(Switched)
     \/ a7 /\ pc["first"] = "shutdown" /\ pc["a15"] = "print" /\ Printed("a15", Len(Text))

LEMMA SameText ==
  ASSUME UNCHANGED <<a7, driver>>
  PROVE  /\ Text' = Text /\ \A i \in 0..Len(Text) : Sofar(i)' = Sofar(i)
         /\ Switched' = Switched /\ \A ch : Behind(ch)' = Behind(ch)
<1>1. Text' = Text
  BY DEF Text
<1>2. \A ch : Behind(ch)' = Behind(ch)
  BY DEF Behind
<1>3. Pieces' = Pieces
  BY <1>1, <1>2 DEF Pieces
<1>4. \A i \in 0..Len(Text) : Sofar(i)' = Sofar(i)
  BY <1>3 DEF Sofar
<1>5. Switched' = Switched
  BY <1>1 DEF Switched
<1> QED BY <1>1, <1>2, <1>4, <1>5

(* Whatever a driver waits for, there is room for a byte then.             *)
LEMMA ReadyRoom ==
  ASSUME OutTypes, Ready
  PROVE  Len(fifo) < depth
<1>1. QueueEmpty \/ QueueNotFull
  BY ConsoleAssumption DEF OutTypes, Ready, ReadyImx6, ReadyImx7, ReadyImx31, ReadyZynq7000,
     ReadyZynqmp, ReadyBcm2837, ReadyExynos4, ReadyExynos5, ReadyApq8064, ReadyOmap3,
     ReadyNslu2, ReadyAm335x, ReadyTk1, ReadyTx1, ReadyTx2, ReadyRealview, ReadyHikey,
     ReadyOdroidc2, ReadySpike
<1> QED BY <1>1 DEF OutTypes, QueueEmpty, QueueNotFull

(* What each core prints is its part of the text.                          *)
LEMMA Parts ==
  /\ a7 => /\ Switched \in 0..Len(Text) /\ SubSeq(Text, 1, Switched) = SwitchText
           /\ SubSeq(Text, Switched + 1, Len(Text)) = BootText
  /\ ~a7 => Switched = Len(Text) /\ SubSeq(Text, 1, Len(Text)) = BootText
<1>1. SwitchText \in Texts /\ BootText \in Texts /\ Text \in Texts
  <2>1. SwitchText \in Seq(STRING) /\ BootText \in Seq(STRING) /\ STRING \subseteq Char
    BY ConsoleAssumption DEF Char
  <2> QED BY <2>1, TextIsText, SeqMonotonic DEF Texts
<1>2. /\ Len(SwitchText) \in Nat /\ Len(BootText) \in Nat
  BY <1>1, LenProperties DEF Texts
<1>3. CASE a7
  <2>1. Text = SwitchText \o BootText /\ Switched = Len(SwitchText)
    BY <1>3 DEF Text, Switched
  <2>2. Len(Text) = Len(SwitchText) + Len(BootText)
    BY <1>1, <2>1, ConcatProperties DEF Texts
  <2>3. SubSeq(Text, 1, Switched) = SwitchText
    <3>1. CASE Len(SwitchText) = 0
      <4>1. SwitchText = <<>>
        BY <1>1, <3>1, EmptySeq DEF Texts
      <4> QED BY <2>1, <3>1, <4>1, SubSeqEmpty
    <3>2. CASE Len(SwitchText) # 0
      <4>1. 1 \in 1..Len(SwitchText) /\ Len(SwitchText) \in 1..Len(SwitchText)
        BY <1>2, <3>2
      <4>2. SubSeq(SwitchText \o BootText, 1, Len(SwitchText)) = SubSeq(SwitchText, 1, Len(SwitchText))
        BY <1>1, <4>1, SubSeqOfConcat1 DEF Texts
      <4> QED BY <1>1, <2>1, <4>2, SubSeqFull DEF Texts
    <3> QED BY <3>1, <3>2
  <2>4. SubSeq(Text, Switched + 1, Len(Text)) = BootText
    <3> DEFINE a == Switched + 1
               b == Len(Text)
    <3>1. CASE Len(BootText) = 0
      <4>1. BootText = <<>>
        BY <1>1, <3>1, EmptySeq DEF Texts
      <4>2. a \in Int /\ b \in Int /\ b < a
        BY <1>2, <2>1, <2>2, <3>1
      <4> HIDE DEF a, b
      <4>3. SubSeq(Text, a, b) = <<>>
        BY <4>2, SubSeqEmpty
      <4> QED BY <4>1, <4>3 DEF a, b
    <3>2. CASE Len(BootText) # 0
      <4>1. /\ a \in Len(SwitchText) + 1 .. Len(SwitchText) + Len(BootText)
            /\ b \in Len(SwitchText) + 1 .. Len(SwitchText) + Len(BootText)
            /\ a - Len(SwitchText) = 1 /\ b - Len(SwitchText) = Len(BootText)
        BY <1>2, <2>1, <2>2, <3>2
      <4> HIDE DEF a, b
      <4>2. SubSeq(SwitchText \o BootText, a, b) = SubSeq(BootText, a - Len(SwitchText), b - Len(SwitchText))
        BY <1>1, <4>1, SubSeqOfConcat2 DEF Texts
      <4>3. SubSeq(SwitchText \o BootText, a, b) = BootText
        BY <1>1, <4>1, <4>2, SubSeqFull DEF Texts
      <4> QED BY <2>1, <4>3 DEF a, b
    <3> QED BY <3>1, <3>2
  <2> QED BY <1>2, <1>3, <2>1, <2>2, <2>3, <2>4
<1>4. CASE ~a7
  <2>1. Text = BootText /\ Switched = Len(Text)
    BY <1>1, <1>4, ConcatEmptySeq DEF Text, Switched, Texts
  <2> QED BY <1>1, <1>4, <2>1, SubSeqFull DEF Texts
<1> QED BY <1>3, <1>4

(* A core with nothing to print has printed its part.                      *)
LEMMA PartPrinted ==
  ASSUME NEW c \in Core, NEW end \in 0..Len(Text), Printed(c, end), todo[c] = <<>>
  PROVE  Out = Sofar(end)
<1>1. Text \in Texts /\ Len(Text) \in Nat /\ \A k \in 1..Len(Text) : Text[k] \in Char
  BY TextIsText
<1>2. PICK i \in 0..end :
        \/ Out = Sofar(i) /\ todo[c] = SubSeq(Text, i + 1, end)
        \/ /\ i < end /\ todo[c] = <<"\r">> \o SubSeq(Text, i + 2, end)
  BY DEF Printed
<1>3. todo[c] # <<"\r">> \o SubSeq(Text, i + 2, end)
  <2> DEFINE rest == SubSeq(Text, i + 2, end)
  <2>1. rest \in Texts
    <3>1. \A k \in i + 2 .. end : Text[k] \in Char
      BY <1>1
    <3> QED BY <1>1, <3>1, SubSeqProperties DEF Texts
  <2>2. "\r" \in Char
    BY DEF Char
  <2> HIDE DEF rest
  <2>3. <<"\r">> \in Texts /\ Len(<<"\r">>) = 1 /\ Len(rest) \in Nat
    BY <2>1, <2>2, CharText, LenProperties DEF Texts
  <2>4. Len(<<"\r">> \o rest) = 1 + Len(rest)
    BY <2>1, <2>3, ConcatProperties DEF Texts
  <2>5. Len(<<>>) = 0
    OBVIOUS
  <2>6. <<"\r">> \o rest # <<>>
    BY <2>3, <2>4, <2>5
  <2> QED BY <2>6 DEF rest
<1>4. i = end
  <2>1. Len(SubSeq(Text, i + 1, end)) = 0
    BY <1>2, <1>3
  <2>2. \A k \in i + 1 .. end : Text[k] \in Char
    BY <1>1
  <2>3. Len(SubSeq(Text, i + 1, end)) = IF i + 1 <= end THEN end - (i + 1) + 1 ELSE 0
    BY <1>1, <2>2, SubSeqProperties
  <2> QED BY <1>1, <2>1, <2>3
<1> QED BY <1>2, <1>3, <1>4

(* A character of the text, or the '\r' behind it, goes into the queue.    *)
LEMMA CharPrinted ==
  ASSUME OutTypes, UNCHANGED <<a7, driver>>, NEW c \in Core, NEW end \in 0..Len(Text),
         Printed(c, end), todo[c] # <<>>, Out' = Append(Out, todo[c][1]),
         todo'[c] = Behind(todo[c][1]) \o Tail(todo[c])
  PROVE  Printed(c, end)'
<1>1. /\ Text \in Texts /\ Len(Text) \in Nat
      /\ \A k \in 1..Len(Text) : Text[k] \in Char /\ Behind(Text[k]) \in Texts
  BY TextIsText
<1>2. /\ Text' = Text /\ \A i \in 0..Len(Text) : Sofar(i)' = Sofar(i)
      /\ \A ch : Behind(ch)' = Behind(ch)
  BY SameText
<1>3. \A i \in 1..Len(Text) : /\ Sofar(i) = Append(Sofar(i-1), Text[i]) \o Behind(Text[i])
                             /\ Append(Sofar(i-1), Text[i]) \in Texts
  BY OutputStarts
<1>4. \A t \in Texts : t \o <<>> = t /\ <<>> \o t = t
  BY ConcatEmptySeq DEF Texts
<1>5. PICK i \in 0..end :
        \/ Out = Sofar(i) /\ todo[c] = SubSeq(Text, i + 1, end)
        \/ /\ i < end /\ Behind(Text[i+1]) = <<"\r">>
           /\ Out = Append(Sofar(i), Text[i+1])
           /\ todo[c] = <<"\r">> \o SubSeq(Text, i + 2, end)
  BY DEF Printed
<1> DEFINE rest == SubSeq(Text, i + 2, end)
<1>6. /\ rest \in Texts
      /\ SubSeq(Text, i + 1, end) \in Texts
      /\ Len(SubSeq(Text, i + 1, end)) = IF i + 1 <= end THEN end - i ELSE 0
  <2>1. (\A k \in i + 2 .. end : Text[k] \in Char) /\ (\A k \in i + 1 .. end : Text[k] \in Char)
    BY <1>1
  <2>2. end - (i + 1) + 1 = end - i
    BY <1>1
  <2> QED BY <1>1, <2>1, <2>2, SubSeqProperties DEF Texts
<1>7. i < end => i + 1 \in 0..end /\ i + 1 \in 1..Len(Text) /\ i + 1 \in 0..Len(Text)
                 /\ (i + 1) - 1 = i /\ i \in 0..Len(Text) /\ (i + 1) + 1 = i + 2
  BY <1>1
<1>8. CASE Out = Sofar(i) /\ todo[c] = SubSeq(Text, i + 1, end)
  <2>1. i < end
    <3>1. i >= end => Len(todo[c]) = 0
      BY <1>1, <1>6, <1>8
    <3>2. todo[c] \in Texts
      BY <1>6, <1>8
    <3>3. Len(todo[c]) # 0
      BY <3>2, EmptySeq DEF Texts
    <3> QED BY <1>1, <3>1, <3>3
  <2>2. todo[c][1] = Text[i+1] /\ Tail(todo[c]) = rest
    <3> DEFINE m == i + 1
    <3>1. m \in 1..Len(Text) /\ end \in m..Len(Text)
      BY <1>1, <2>1
    <3> HIDE DEF m
    <3>2. /\ Head(SubSeq(Text, m, end)) = Text[m]
          /\ Tail(SubSeq(Text, m, end)) = SubSeq(Text, m + 1, end)
      BY <1>1, <3>1, HeadTailOfSubSeq DEF Texts
    <3>3. Head(todo[c]) = todo[c][1]
      OBVIOUS
    <3>4. m + 1 = i + 2
      BY <1>1 DEF m
    <3> QED BY <1>8, <3>2, <3>3, <3>4 DEF m
  <2> DEFINE q == Text[i+1]
  <2>3. Out' = Append(Sofar(i), q) /\ Append(Sofar(i), q) \in Texts
        /\ Sofar(i+1) = Append(Sofar(i), q) \o Behind(q)
    BY <1>3, <1>7, <1>8, <2>1, <2>2
  <2>4. CASE Behind(q) = <<"\r">>
    <3>1. todo'[c] = <<"\r">> \o rest
      BY <2>2, <2>4
    <3>2. (Behind(Text[i+1]) = <<"\r">>)' /\ (Out = Append(Sofar(i), Text[i+1]))'
      BY <1>2, <1>7, <2>1, <2>3, <2>4
    <3>3. rest' = rest
      BY <1>2
    <3> HIDE DEF rest, q
    <3>4. (todo[c] = <<"\r">> \o rest)'
      BY <3>1, <3>3
    <3> QED BY <2>1, <3>2, <3>4 DEF Printed, rest
  <2>5. CASE Behind(q) = <<>>
    <3>1. todo'[c] = rest
      BY <1>4, <1>6, <2>2, <2>5
    <3>2. Out' = Sofar(i+1)
      BY <1>4, <2>3, <2>5
    <3>3. (Out = Sofar(i+1))'
      BY <1>2, <1>7, <2>1, <3>2
    <3>4. (todo[c] = SubSeq(Text, (i + 1) + 1, end))'
      BY <1>2, <1>7, <2>1, <3>1
    <3> QED BY <1>7, <2>1, <3>3, <3>4 DEF Printed
  <2> QED BY <2>4, <2>5 DEF Behind
<1>9. CASE /\ i < end /\ Behind(Text[i+1]) = <<"\r">>
           /\ Out = Append(Sofar(i), Text[i+1])
           /\ todo[c] = <<"\r">> \o rest
  <2> DEFINE q == Text[i+1]
  <2>1. "\r" \in Char
    BY DEF Char
  <2>2. <<"\r">> \in Texts /\ Len(<<"\r">>) = 1 /\ <<"\r">>[1] = "\r"
    BY <2>1, CharText
  <2>3. todo[c][1] = "\r" /\ Tail(todo[c]) = rest
    <3> HIDE DEF rest
    <3> DEFINE t == <<"\r">> \o rest
    <3>1. /\ t \in Texts /\ Len(t) = 1 + Len(rest) /\ Len(rest) \in Nat
          /\ \A k \in 1 .. 1 + Len(rest) : t[k] = IF k <= 1 THEN <<"\r">>[k] ELSE rest[k - 1]
      BY <1>6, <2>2, ConcatProperties, LenProperties DEF Texts
    <3> HIDE DEF t
    <3>2. t[1] = "\r"
      BY <2>2, <3>1
    <3>3. t # <<>>
      BY <3>1, EmptySeq DEF Texts
    <3>4. /\ Tail(t) \in Texts /\ Len(Tail(t)) = Len(t) - 1
          /\ \A k \in 1..Len(Tail(t)) : Tail(t)[k] = t[k+1]
      BY <3>1, <3>3, HeadTailProperties DEF Texts
    <3>5. ASSUME NEW k \in 1..Len(Tail(t)) PROVE Tail(t)[k] = rest[k]
      <4>1. k + 1 \in 1 .. 1 + Len(rest) /\ ~(k + 1 <= 1) /\ (k + 1) - 1 = k
        BY <3>1, <3>4
      <4> QED BY <3>1, <3>4, <4>1
    <3>6. Len(Tail(t)) = Len(rest)
      BY <3>1, <3>4
    <3>7. Tail(t) = rest
      BY <1>6, <3>4, <3>5, <3>6, SeqEqual DEF Texts
    <3> QED BY <1>9, <3>2, <3>7 DEF t
  <2>4. Behind("\r") = <<>>
    BY DEF Behind
  <2>5. todo'[c] = rest
    BY <1>4, <1>6, <2>3, <2>4
  <2>6. Out' = Sofar(i+1)
    <3>1. Append(Sofar(i), q) \in Texts /\ Sofar(i+1) = Append(Sofar(i), q) \o <<"\r">>
      BY <1>3, <1>7, <1>9
    <3>2. Append(Append(Sofar(i), q), "\r") = Append(Sofar(i), q) \o <<"\r">>
      BY <2>1, <3>1, AppendIsConcat DEF Texts
    <3> QED BY <1>9, <2>3, <3>1, <3>2
  <2>7. (Out = Sofar(i+1))'
    BY <1>2, <1>7, <1>9, <2>6
  <2>8. (todo[c] = SubSeq(Text, (i + 1) + 1, end))'
    BY <1>2, <1>7, <1>9, <2>5
  <2> QED BY <1>7, <1>9, <2>7, <2>8 DEF Printed
<1> QED BY <1>5, <1>8, <1>9

(* A byte leaves the queue for the line.                                   *)
LEMMA ByteSent ==
  ASSUME OutTypes, fifo # <<>>
  PROVE  /\ Append(sent, fifo[1]) \o Tail(fifo) = Out
         /\ Append(sent, fifo[1]) \in Texts /\ Tail(fifo) \in Texts
<1>1. fifo \in Texts /\ sent \in Texts
  BY DEF OutTypes
<1>2. Head(fifo) \in Char /\ Tail(fifo) \in Texts /\ Head(fifo) = fifo[1]
  BY <1>1, HeadTailProperties DEF Texts
<1>3. Append(sent, fifo[1]) = sent \o <<fifo[1]>> /\ Append(sent, fifo[1]) \in Texts
  BY <1>1, <1>2, AppendIsConcat, AppendProperties DEF Texts
<1>4. (sent \o <<fifo[1]>>) \o Tail(fifo) = sent \o (<<fifo[1]>> \o Tail(fifo))
  BY <1>1, <1>2, CharText, ConcatAssociative DEF Texts
<1>5. <<fifo[1]>> \o Tail(fifo) = fifo
  <2>1. Len(fifo) \in Nat \ {0}
    BY <1>1, EmptySeq DEF Texts
  <2>2. 1 \in 1..Len(fifo) /\ Len(fifo) \in 1..Len(fifo)
    BY <2>1
  <2>3. SubSeq(fifo, 1, Len(fifo)) = <<fifo[1]>> \o SubSeq(fifo, 1 + 1, Len(fifo))
    BY <1>1, <2>2, SubSeqRecursiveFirst DEF Texts
  <2>4. Tail(fifo) = SubSeq(fifo, 2, Len(fifo)) /\ SubSeq(fifo, 1, Len(fifo)) = fifo /\ 1 + 1 = 2
    BY <1>1, TailIsSubSeq, SubSeqFull DEF Texts
  <2> QED BY <2>3, <2>4
<1> QED BY <1>2, <1>3, <1>4, <1>5 DEF Out

(***************************************************************************)
(* Every step keeps it                                                     *)
(***************************************************************************)
LEMMA InitOut == Init => OutInv
<1> SUFFICES ASSUME Init PROVE OutInv
  OBVIOUS
<1>1. <<>> \in Texts /\ <<>> \o <<>> = <<>>
  BY EmptySeq, ConcatEmptySeq DEF Texts
<1>2. OutTypes
  <2>1. depth \in Nat \ {0} /\ driver \in Drivers
    BY ConsoleAssumption DEF Init
  <2>2. a7 \in BOOLEAN
    BY DEF Init
  <2>3. pc \in [Core -> Label]
    BY DEF Init, Label
  <2>4. todo \in [Core -> Texts] /\ fifo \in Texts /\ sent \in Texts
    BY <1>1 DEF Init
  <2> QED BY <2>1, <2>2, <2>3, <2>4 DEF OutTypes
<1>3. pc["first"] = "platform_init" /\ pc["a15"] = "off" /\ Out = <<>>
  BY <1>1 DEF Init, Core, Out
<1> QED BY <1>2, <1>3 DEF OutInv

LEMMA TypesKept ==
  ASSUME OutTypes, [Next]_vars
  PROVE  OutTypes'
<1> USE DEF OutTypes, Label
<1>1. SwitchText \in Texts /\ BootText \in Texts
  <2>1. SwitchText \in Seq(STRING) /\ BootText \in Seq(STRING) /\ STRING \subseteq Char
    BY ConsoleAssumption DEF Char
  <2> QED BY <2>1, SeqMonotonic DEF Texts
<1>2. CASE PlatformInit
  BY <1>1, <1>2 DEF PlatformInit, Goto, Printing, Core
<1>3. CASE PlatformInitA7
  BY <1>1, <1>3 DEF PlatformInitA7, Goto, Printing, Core
<1>4. CASE BootCpu
  BY <1>4 DEF BootCpu, Core
<1>5. CASE A15Starts
  BY <1>5 DEF A15Starts, Goto, Core
<1>6. CASE PlatformInitA15
  BY <1>1, <1>6 DEF PlatformInitA15, Goto, Printing, Core
<1>7. ASSUME NEW c \in Core, Fputc(c) PROVE OutTypes'
  <2>1. todo[c] \in Seq(Char) /\ todo[c] # <<>> /\ fifo \in Seq(Char)
    BY <1>7 DEF Fputc, Texts
  <2>2. todo[c][1] \in Char /\ Tail(todo[c]) \in Seq(Char)
    <3>1. Head(todo[c]) \in Char /\ Tail(todo[c]) \in Seq(Char)
      BY <2>1, HeadTailProperties
    <3> QED BY <3>1
  <2>3. fifo' \in Texts
    <3>1. Append(fifo, todo[c][1]) \in Texts
      BY <2>1, <2>2, AppendProperties DEF Texts
    <3> QED BY <1>7, <3>1 DEF Fputc
  <2>4. Behind(todo[c][1]) \in Texts
    <3>1. "\r" \in Char
      BY DEF Char
    <3>2. <<"\r">> \in Texts /\ <<>> \in Texts
      BY <3>1, CharText
    <3> QED BY <3>2 DEF Behind
  <2>5. Behind(todo[c][1]) \o Tail(todo[c]) \in Texts
    BY <2>2, <2>4, ConcatProperties DEF Texts
  <2>6. todo' \in [Core -> Texts]
    BY <1>7, <2>5 DEF Fputc, Printing
  <2> QED BY <1>7, <2>3, <2>6 DEF Fputc
<1>8. CASE Send
  BY <1>8, ByteSent DEF Send
<1>9. CASE UNCHANGED vars
  BY <1>9 DEF vars
<1> QED BY <1>2, <1>3, <1>4, <1>5, <1>6, <1>7, <1>8, <1>9 DEF Next, CoreStep

(* With Out, the text and what a core has to print as they were, so is how *)
(* far it has come.                                                        *)
LEMMA PrintedKept ==
  ASSUME UNCHANGED <<a7, driver>>, Out' = Out, NEW c \in Core, NEW end \in 0..Len(Text),
         todo'[c] = todo[c]
  PROVE  Printed(c, end)' = Printed(c, end)
<1>1. /\ Text' = Text /\ \A i \in 0..Len(Text) : Sofar(i)' = Sofar(i)
      /\ \A ch : Behind(ch)' = Behind(ch)
  BY SameText
<1>2. \A i \in 0..end : i \in 0..Len(Text)
  BY TextIsText
<1> QED BY <1>1, <1>2 DEF Printed

LEMMA NextOut ==
  ASSUME OutInv, [Next]_vars
  PROVE  OutInv'
<1>1. OutTypes /\ OutTypes'
  BY TypesKept DEF OutInv
<1>2. UNCHANGED <<a7, driver>>
  BY DEF Next, CoreStep, PlatformInit, PlatformInitA7, BootCpu, A15Starts, PlatformInitA15,
     Fputc, Send, vars
<1>3. /\ Text' = Text /\ \A i \in 0..Len(Text) : Sofar(i)' = Sofar(i)
      /\ Switched' = Switched
  BY <1>2, SameText
<1>4. Len(Text) \in Nat /\ Switched \in 0..Len(Text) /\ Len(Text) \in 0..Len(Text)
      /\ 0 \in 0..Len(Text)
  BY <1>1, TextIsText, Parts DEF OutTypes
<1>5. Sofar(0) = <<>> /\ Sofar(0)' = <<>>
  BY <1>3, <1>4, SofarNext
<1>6. CASE PlatformInit
  <2>1. Out' = <<>> /\ pc'["first"] = "print" /\ pc'["a15"] = "off"
    BY <1>1, <1>6 DEF PlatformInit, Goto, OutInv, OutTypes, Core, Out
  <2>2. todo'["first"] = SubSeq(Text, 1, Switched)
    BY <1>1, <1>6, Parts DEF PlatformInit, Printing, OutTypes, Core
  <2>3. (Out = Sofar(0) /\ todo["first"] = SubSeq(Text, 0 + 1, Switched))'
    BY <1>3, <1>5, <2>1, <2>2
  <2>4. Printed("first", Switched)'
    BY <1>3, <1>4, <2>3 DEF Printed
  <2> QED BY <1>1, <2>1, <2>4 DEF OutInv
<1>7. CASE PlatformInitA7
  <2>1. Out' = <<>> /\ pc'["first"] = "print" /\ pc'["a15"] = "off"
    BY <1>1, <1>7 DEF PlatformInitA7, Goto, OutInv, OutTypes, Core, Out
  <2>2. todo'["first"] = SubSeq(Text, 1, Switched)
    BY <1>1, <1>7, Parts DEF PlatformInitA7, Printing, OutTypes, Core
  <2>3. (Out = Sofar(0) /\ todo["first"] = SubSeq(Text, 0 + 1, Switched))'
    BY <1>3, <1>5, <2>1, <2>2
  <2>4. Printed("first", Switched)'
    BY <1>3, <1>4, <2>3 DEF Printed
  <2> QED BY <1>1, <2>1, <2>4 DEF OutInv
<1>8. CASE BootCpu
  <2>1. /\ pc["first"] = "print" /\ todo["first"] = <<>> /\ a7 /\ Out' = Out
        /\ pc'["first"] = "shutdown" /\ pc'["a15"] = "reset"
    BY <1>8 DEF BootCpu, Out
  <2>2. Printed("first", Switched)
    BY <2>1 DEF OutInv
  <2>3. Out = Sofar(Switched)
    BY <1>4, <2>1, <2>2, PartPrinted DEF Core
  <2>4. (Out = Sofar(Switched))'
    BY <1>3, <1>4, <2>1, <2>3
  <2> QED BY <1>1, <1>2, <2>1, <2>4 DEF OutInv
<1>9. CASE A15Starts
  <2>1. /\ pc["a15"] = "reset" /\ pc'["a15"] = "platform_init" /\ Out' = Out
        /\ pc'["first"] = pc["first"]
    BY <1>1, <1>9 DEF A15Starts, Goto, OutTypes, Core, Out
  <2>2. a7 /\ pc["first"] = "shutdown" /\ Out = Sofar(Switched)
    BY <2>1 DEF OutInv
  <2>3. (Out = Sofar(Switched))'
    BY <1>3, <1>4, <2>1, <2>2
  <2> QED BY <1>1, <1>2, <2>1, <2>2, <2>3 DEF OutInv
<1>10. CASE PlatformInitA15
  <2>1. /\ pc["a15"] = "platform_init" /\ pc'["a15"] = "print" /\ Out' = Out
        /\ pc'["first"] = pc["first"] /\ todo'["a15"] = BootText
    BY <1>1, <1>10 DEF PlatformInitA15, Goto, Printing, OutTypes, Core, Out
  <2>2. a7 /\ pc["first"] = "shutdown" /\ Out = Sofar(Switched)
    BY <2>1 DEF OutInv
  <2>3. (Out = Sofar(Switched) /\ todo["a15"] = SubSeq(Text, Switched + 1, Len(Text)))'
    BY <1>3, <1>4, <2>1, <2>2, Parts
  <2>4. Printed("a15", Len(Text))'
    BY <1>3, <1>4, <2>3 DEF Printed
  <2> QED BY <1>1, <1>2, <2>1, <2>2, <2>4 DEF OutInv
<1>11. ASSUME NEW c \in Core, Fputc(c) PROVE OutInv'
  <2>1. /\ pc[c] = "print" /\ todo[c] # <<>> /\ pc' = pc
        /\ todo'[c] = Behind(todo[c][1]) \o Tail(todo[c])
    BY <1>1, <1>11 DEF Fputc, Printing, OutTypes
  <2>2. Out' = Append(Out, todo[c][1])
    <3>1. fifo' = Append(fifo, todo[c][1]) /\ sent' = sent
      BY <1>1, <1>11, ReadyRoom DEF Fputc
    <3>2. fifo \in Texts /\ sent \in Texts /\ todo[c][1] \in Char
      <4>1. todo[c] \in Seq(Char) /\ todo[c] # <<>>
        BY <1>1, <2>1 DEF OutTypes, Texts
      <4>2. Head(todo[c]) \in Char
        BY <4>1, HeadTailProperties
      <4> QED BY <1>1, <4>2 DEF OutTypes
    <3> DEFINE e == todo[c][1]
    <3>3. e \in Char
      BY <3>2
    <3> HIDE DEF e
    <3>4. /\ Append(fifo, e) = fifo \o <<e>> /\ <<e>> \in Texts /\ sent \o fifo \in Texts
          /\ sent \o (fifo \o <<e>>) = (sent \o fifo) \o <<e>>
      BY <3>2, <3>3, AppendIsConcat, CharText, ConcatAssociative, ConcatProperties DEF Texts
    <3>5. Append(sent \o fifo, e) = (sent \o fifo) \o <<e>>
      BY <3>3, <3>4, AppendIsConcat DEF Texts
    <3>6. sent' \o fifo' = Append(sent \o fifo, e)
      BY <3>1, <3>4, <3>5 DEF e
    <3> QED BY <3>6 DEF Out, e
  <2>3. CASE c = "first"
    <3>1. pc["a15"] = "off" /\ Printed(c, Switched)
      BY <2>1, <2>3 DEF OutInv
    <3>2. Printed("first", Switched)'
      <4> DEFINE end == Switched
      <4>1. end \in 0..Len(Text) /\ Printed(c, end) /\ Switched' = end
        BY <1>3, <1>4, <3>1
      <4> HIDE DEF end
      <4>2. Out' = sent' \o fifo'
        BY DEF Out
      <4> QED BY <1>1, <1>2, <2>1, <2>2, <2>3, <4>1, CharPrinted DEF Printed
    <3> QED BY <1>1, <2>1, <2>3, <3>1, <3>2 DEF OutInv
  <2>4. CASE c = "a15"
    <3>1. a7 /\ pc["first"] = "shutdown" /\ Printed(c, Len(Text))
      BY <2>1, <2>4 DEF OutInv
    <3>2. Printed("a15", Len(Text))'
      BY <1>1, <1>2, <1>3, <1>4, <2>1, <2>2, <2>4, <3>1, CharPrinted DEF Printed
    <3> QED BY <1>1, <1>2, <2>1, <2>4, <3>1, <3>2 DEF OutInv
  <2> QED BY <2>3, <2>4 DEF Core
<1>12. CASE Send \/ UNCHANGED vars
  <2>1. Out' = Out /\ pc' = pc /\ todo' = todo
    BY <1>1, <1>12, ByteSent DEF Send, Out, vars
  <2>2. ASSUME NEW c \in Core, NEW end \in 0..Len(Text), Printed(c, end) PROVE Printed(c, end)'
    BY <1>2, <2>1, <2>2, PrintedKept
  <2>3. Printed("first", Switched) => Printed("first", Switched)'
    <3>1. PICK end \in 0..Len(Text) : end = Switched
      BY <1>4
    <3>2. Printed("first", end) => Printed("first", end)'
      BY <2>2 DEF Core
    <3>3. Switched' = end
      BY <1>3, <3>1
    <3>4. Printed("first", Switched)' <=> Printed("first", end)'
      BY <3>3 DEF Printed
    <3> QED BY <3>1, <3>2, <3>4
  <2>4. Printed("a15", Len(Text)) => Printed("a15", Len(Text))'
    <3>1. PICK end \in 0..Len(Text) : end = Len(Text)
      BY <1>4
    <3>2. Printed("a15", end) => Printed("a15", end)'
      BY <2>2 DEF Core
    <3>3. Len(Text)' = end
      BY <1>3, <3>1
    <3>4. Printed("a15", Len(Text))' <=> Printed("a15", end)'
      BY <3>3 DEF Printed
    <3> QED BY <3>1, <3>2, <3>4
  <2>5. Out = Sofar(Switched) => (Out = Sofar(Switched))'
    BY <1>3, <1>4, <2>1
  <2>6. Out = <<>> => (Out = <<>>)'
    BY <2>1
  <2> QED BY <1>1, <1>2, <2>1, <2>3, <2>4, <2>5, <2>6 DEF OutInv
<1> QED BY <1>6, <1>7, <1>8, <1>9, <1>10, <1>11, <1>12 DEF Next, CoreStep

(* No driver loses a byte or changes their order: what is on the line and  *)
(* in the queue is the start of what was printed, whatever it is, however  *)
(* long the queue and on whichever platform, over the exynos5's change of  *)
(* cluster as well (the polling loops of the sys_fputc.c files).           *)
THEOREM PrintedInOrder == FairSpec => []OutputInOrder
<1>1. OutInv => OutputInOrder
  <2> SUFFICES ASSUME OutInv PROVE OutputInOrder
    OBVIOUS
  <2>1. Len(Text) \in Nat /\ Switched \in 0..Len(Text) /\ Len(Text) \in 0..Len(Text)
        /\ 0 \in 0..Len(Text)
    BY TextIsText, Parts DEF OutInv, OutTypes
  <2>2. \A i \in 0..Len(Text) : IsPrefix(Sofar(i), Output)
    BY OutputStarts, StartsIsPrefix, SofarNext
  <2>3. \A i \in 1..Len(Text) : IsPrefix(Append(Sofar(i-1), Text[i]), Output)
    BY OutputStarts, StartsIsPrefix
  <2>4. \A i \in 0..Len(Text) : i < Len(Text) => IsPrefix(Append(Sofar(i), Text[i+1]), Output)
    <3>1. \A i \in 0..Len(Text) : i < Len(Text) => i + 1 \in 1..Len(Text) /\ (i + 1) - 1 = i
      BY <2>1
    <3> QED BY <2>3, <3>1
  <2>5. Sofar(0) = <<>>
    BY SofarNext
  <2>6. ASSUME NEW c, NEW end \in 0..Len(Text), Printed(c, end) PROVE IsPrefix(Out, Output)
    <3>1. PICK i \in 0..end : Out = Sofar(i) \/ (i < end /\ Out = Append(Sofar(i), Text[i+1]))
      BY <2>6 DEF Printed
    <3>2. i \in 0..Len(Text) /\ (i < end => i < Len(Text))
      BY <2>1
    <3> QED BY <2>2, <2>4, <3>1, <3>2
  <2>7. IsPrefix(Out, Output)
    BY <2>1, <2>2, <2>5, <2>6 DEF OutInv
  <2> QED BY <2>7 DEF OutputInOrder, Out
<1> QED BY <1>1, InitOut, NextOut, PTL DEF FairSpec
=============================================================================
