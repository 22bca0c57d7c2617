---------------------------- MODULE Sm3_proofs ----------------------------
(***************************************************************************)
(* For every block size, every alphabet of bytes and every set of inputs:  *)
(* SM3_Update compresses the message in order, however it is cut.          *)
(***************************************************************************)
EXTENDS Sm3, SequenceTheorems, TLAPS

Held == SubSeq(buf, 1, curLen)

Types ==
    /\ sm3pc \in {"ready", "update", "done"}
    /\ data \in Seq(Byte)
    /\ curLen \in 0 .. Block - 1
    /\ buf \in [1 .. Block -> Byte]
    /\ length \in Nat \X Nat

Blocks == \E k \in Nat : Len(hashed) = k * Block

Absorbed ==
    sm3pc # "done" =>
      /\ hashed \in Seq(Byte) /\ msg \in Seq(Byte)
      /\ hashed \o Held \o data = msg
      /\ Blocks

\* Between two Updates nothing is left of data_in.
Consumed == sm3pc # "update" => data = <<>>

Sm3Inv == Types /\ Absorbed /\ Consumed

LEMMA Prefix ==
    ASSUME NEW S, NEW s, NEW n \in Nat, \A i \in 1 .. n : s[i] \in S
    PROVE  /\ SubSeq(s, 1, n) \in Seq(S) /\ Len(SubSeq(s, 1, n)) = n
           /\ \A i \in 1 .. n : SubSeq(s, 1, n)[i] = s[i]
  <1>1. 1 \in Int /\ n \in Int  OBVIOUS
  <1>2. /\ SubSeq(s, 1, n) \in Seq(S)
        /\ Len(SubSeq(s, 1, n)) = IF 1 <= n THEN n - 1 + 1 ELSE 0
        /\ \A i \in 1 .. n - 1 + 1 : SubSeq(s, 1, n)[i] = s[1 + i - 1]
    BY <1>1, SubSeqProperties
  <1> QED  BY <1>2

\* The provers keep track of longer concatenations better by a name.
Cat(a, b) == a \o b

LEMMA CatLaws ==
    \A S : \A a, b, c \in Seq(S) :
      Cat(a, b) \in Seq(S) /\ Cat(Cat(a, b), c) = Cat(a, Cat(b, c))
  BY ConcatProperties, ConcatAssociative DEF Cat

LEMMA Regrouped ==
    ASSUME NEW S, NEW a \in Seq(S), NEW h \in Seq(S), NEW p \in Seq(S), NEW q \in Seq(S)
    PROVE  Cat(Cat(a, h), Cat(p, q)) = Cat(Cat(a, Cat(h, p)), q)
  <1>1. Cat(a, h) \in Seq(S)  BY CatLaws
  <1>2. Cat(Cat(a, h), Cat(p, q)) = Cat(Cat(Cat(a, h), p), q)  BY <1>1, CatLaws
  <1>3. Cat(Cat(a, h), p) = Cat(a, Cat(h, p))  BY CatLaws
  <1> QED  BY <1>2, <1>3

LEMMA TakenOut ==
    ASSUME NEW S, NEW a \in Seq(S), NEW b \in Seq(S), NEW p \in Seq(S), NEW q \in Seq(S)
    PROVE  Cat(a, Cat(Cat(b, p), q)) = Cat(Cat(Cat(a, b), p), q)
  <1>1. Cat(b, p) \in Seq(S)  BY CatLaws
  <1>2. Cat(a, Cat(Cat(b, p), q)) = Cat(Cat(a, Cat(b, p)), q)  BY <1>1, CatLaws
  <1>3. Cat(a, Cat(b, p)) = Cat(Cat(a, b), p)  BY CatLaws
  <1> QED  BY <1>2, <1>3

\* PowersPositive at the three powers the module names.
LEMMA Sizes ==
    /\ Block \in Nat \ {0} /\ ByteBits \in Nat \ {0} /\ WordBytes \in Nat \ {0}
    /\ LenBytes \in 1 .. Block - 1 /\ LenBytes = WordBytes + WordBytes
    /\ ByteMod \in Nat \ {0} /\ WordMod \in Nat \ {0}
    /\ WordMod * WordMod \in Nat /\ WordMod <= WordMod * WordMod
  <1>1. Block \in Nat /\ ByteBits \in Nat \ {0} /\ WordBytes \in Nat \ {0} /\ Block > LenBytes
    BY BlockSize
  <1>2. 2^(ByteBits * WordBytes) \in Nat \ {0}  BY <1>1, PowersPositive
  <1>3. ByteBits * 1 = ByteBits  BY <1>1
  <1>4. 1 \in 0 .. WordBytes  BY <1>1
  <1>5. 2^(ByteBits * 1) \in Nat \ {0}  BY <1>4, PowersPositive, Zenon
  <1>6. ByteMod \in Nat \ {0}  BY <1>3, <1>5, Zenon DEF ByteMod
  <1>7. WordMod \in Nat \ {0}  BY <1>2, Zenon DEF WordMod
  <1>8. WordMod * WordMod \in Nat /\ WordMod <= WordMod * WordMod  BY <1>7
  <1> QED  BY <1>1, <1>6, <1>7, <1>8 DEF LenBytes

LEMMA HeldTyped ==
    ASSUME Types
    PROVE  /\ Held \in Seq(Byte) /\ Len(Held) = curLen
           /\ \A i \in 1 .. curLen : Held[i] = buf[i]
           /\ Block \in Nat \ {0} /\ \A i \in 1 .. curLen : buf[i] \in Byte
  <1>1. Block \in Nat \ {0}  BY Sizes
  <1>2. curLen \in 0 .. Block - 1 /\ \A i \in 1 .. curLen : buf[i] \in Byte
    BY <1>1 DEF Types
  <1>3. /\ Held \in Seq(Byte) /\ Len(Held) = curLen
        /\ \A i \in 1 .. curLen : Held[i] = buf[i]
    BY <1>1, <1>2, Prefix DEF Held
  <1> QED  BY <1>1, <1>2, <1>3

LEMMA Sm3InitInv == Sm3Init => Sm3Inv
  <1> SUFFICES ASSUME Sm3Init PROVE Sm3Inv  OBVIOUS
  <1>1. Block \in Nat \ {0} /\ 0 \in Byte  BY Sizes DEF Byte
  <1>2. Types /\ Consumed  BY <1>1 DEF Sm3Init, Types, Consumed
  <1>3. Held = <<>>  BY SubSeqEmpty DEF Sm3Init, Held
  <1>4. hashed \o Held \o data = msg  BY <1>3 DEF Sm3Init
  <1>5. Len(hashed) = 0 * Block  BY <1>1 DEF Sm3Init
  <1> QED  BY <1>2, <1>4, <1>5 DEF Sm3Init, Sm3Inv, Absorbed, Blocks

LEMMA UpdateInv == ASSUME Sm3Inv, NEW d \in Inputs, Update(d) PROVE Sm3Inv'
  <1>1. d \in Seq(Byte)  BY BlockSize
  <1>2. Types'
    <2>1. length \in Nat \X Nat /\ Len(d) \in Nat  BY <1>1 DEF Sm3Inv, Types
    <2>2. length' \in Nat \X Nat
      <3> DEFINE bits == ByteBits * Len(d)
                 square == WordMod * WordMod
      <3>1. bits \in Nat /\ square \in Nat \ {0} /\ WordMod \in Nat \ {0}  BY <2>1, Sizes
      <3>2. length' = Counted(d)  BY DEF Update
      <3>3. Counted(d) =
              <<length[1] + (bits \div WordMod)
                  + (IF (length[2] + bits) % square < bits THEN 1 ELSE 0),
                (length[2] + bits) % square>>
        BY DEF Counted
      <3> HIDE DEF bits, square
      <3>4. length[1] \in Nat /\ length[2] \in Nat  BY <2>1
      <3>5. (length[2] + bits) % square \in Nat /\ bits \div WordMod \in Nat  BY <3>1, <3>4
      <3> QED  BY <3>2, <3>3, <3>4, <3>5
    <2> QED  BY <1>1, <2>2 DEF Sm3Inv, Types, Update
  <1>3. Consumed'  BY DEF Update, Consumed
  <1>4. /\ hashed \in Seq(Byte) /\ msg \in Seq(Byte) /\ data = <<>>
        /\ hashed \o Held \o data = msg /\ Blocks
    BY DEF Sm3Inv, Absorbed, Consumed, Update
  <1>5. Held \in Seq(Byte)  BY HeldTyped DEF Sm3Inv
  <1>6. hashed \o Held \in Seq(Byte)  BY <1>4, <1>5, ConcatProperties
  <1>7. msg = hashed \o Held  BY <1>4, <1>6, ConcatEmptySeq
  <1>8. Held' = Held /\ hashed' = hashed /\ data' = d /\ msg' = msg \o d
    BY DEF Update, Held
  <1>9. msg' \in Seq(Byte)  BY <1>1, <1>4, <1>8, ConcatProperties
  <1>10. hashed' \o Held' \o data' = msg'  BY <1>7, <1>8
  <1>11. Blocks'  BY <1>4, <1>8 DEF Blocks
  <1> QED  BY <1>2, <1>3, <1>4, <1>8, <1>9, <1>10, <1>11 DEF Sm3Inv, Absorbed

LEMMA AbsorbInv == ASSUME Sm3Inv, Absorb PROVE Sm3Inv'
  <1> DEFINE n == Room
             part == SubSeq(data, 1, n)
             rest == SubSeq(data, n + 1, Len(data))
  <1>1. /\ data \in Seq(Byte) /\ hashed \in Seq(Byte) /\ msg \in Seq(Byte)
        /\ curLen \in 0 .. Block - 1 /\ data # <<>> /\ Blocks
        /\ hashed \o Held \o data = msg /\ \A i \in 1 .. curLen : buf[i] \in Byte
    BY HeldTyped DEF Sm3Inv, Types, Absorbed, Absorb
  <1>2. Held \in Seq(Byte) /\ Len(Held) = curLen /\ Block \in Nat \ {0}
        /\ \A i \in 1 .. curLen : Held[i] = buf[i]
    BY HeldTyped DEF Sm3Inv
  <1>3. Len(data) \in Nat /\ n \in 1 .. Len(data) /\ curLen + n \in 1 .. Block
    BY <1>1, <1>2 DEF Room
  <1>4. /\ part \in Seq(Byte) /\ Len(part) = n
        /\ \A i \in 1 .. n : part[i] = data[i]
    <2>1. \A i \in 1 .. n : data[i] \in Byte  BY <1>1, <1>3, ElementOfSeq
    <2> QED  BY <1>3, <2>1, Prefix
  <1>5. rest \in Seq(Byte) /\ part \o rest = data
    <2>1. \A i \in n + 1 .. Len(data) : data[i] \in Byte  BY <1>1, <1>3, ElementOfSeq
    <2>2. rest \in Seq(Byte)  BY <1>3, <2>1, SubSeqProperties
    <2>3. 1 \in 1 .. Len(data) + 1 /\ n \in 1 - 1 .. Len(data) /\ Len(data) \in n .. Len(data)
      BY <1>3
    <2>4. part \o rest = SubSeq(data, 1, Len(data))
      BY <1>1, <2>3, ConcatAdjacentSubSeq, Zenon
    <2> QED  BY <1>1, <2>2, <2>4, SubSeqFull
  <1>6. /\ DOMAIN buf' = 1 .. Block
        /\ \A i \in 1 .. curLen : buf'[i] = buf[i]
        /\ \A i \in curLen + 1 .. curLen + n : buf'[i] = data[i - curLen]
    <2>1. buf' = [i \in 1 .. Block |->
                    IF i > curLen /\ i <= curLen + n THEN data[i - curLen] ELSE buf[i]]
      BY DEF Absorb, Filled
    <2> HIDE DEF n
    <2> QED  BY <1>1, <1>2, <1>3, <2>1
  <1>7. \A i \in 1 .. curLen + n : buf'[i] \in Byte
    BY <1>1, <1>3, <1>6, ElementOfSeq
  <1>14. buf' \in [1 .. Block -> Byte]
    <2>1. buf \in [1 .. Block -> Byte]  BY DEF Sm3Inv, Types
    <2>2. \A i \in 1 .. Len(data) : data[i] \in Byte  BY <1>1, ElementOfSeq
    <2> HIDE DEF n
    <2> QED  BY <1>1, <1>2, <1>3, <2>1, <2>2 DEF Absorb, Filled, n
  <1>8. /\ Held \o part \in Seq(Byte) /\ Len(Held \o part) = curLen + n
        /\ \A i \in 1 .. curLen + n : (Held \o part)[i] = buf'[i]
    <2>1. /\ Held \o part \in Seq(Byte) /\ Len(Held \o part) = curLen + n
          /\ \A i \in 1 .. curLen + n :
               (Held \o part)[i] = IF i <= curLen THEN Held[i] ELSE part[i - curLen]
      BY <1>2, <1>4, ConcatProperties
    <2>2. \A i \in 1 .. curLen : Held[i] = buf'[i]  BY <1>2, <1>6
    <2>3. \A i \in curLen + 1 .. curLen + n : part[i - curLen] = buf'[i]
      <3> HIDE DEF n, part
      <3> QED  BY <1>1, <1>2, <1>3, <1>4, <1>6
    <2> HIDE DEF n, part
    <2> QED  BY <1>1, <1>2, <1>3, <2>1, <2>2, <2>3
  <1>9. SubSeq(buf', 1, curLen + n) = Held \o part
    <2> DEFINE s == SubSeq(buf', 1, curLen + n)
    <2>1. /\ s \in Seq(Byte) /\ Len(s) = curLen + n
          /\ \A i \in 1 .. curLen + n : s[i] = buf'[i]
      BY <1>1, <1>3, <1>7, Prefix
    <2> QED  BY <1>8, <2>1, SeqEqual
  <1>10. hashed \o (Held \o part) \o rest = msg
    <2>1. /\ hashed \in Seq(Byte) /\ Held \in Seq(Byte)
          /\ part \in Seq(Byte) /\ rest \in Seq(Byte)
      BY <1>1, <1>2, <1>4, <1>5
    <2>2. data = Cat(part, rest)  BY <1>5 DEF Cat
    <2> HIDE DEF part, rest
    <2>3. Cat(Cat(hashed, Held), Cat(part, rest)) = Cat(Cat(hashed, Cat(Held, part)), rest)
      BY <2>1, Regrouped
    <2>4. Cat(Cat(hashed, Held), data) = msg  BY <1>1 DEF Cat
    <2>5. Cat(Cat(hashed, Cat(Held, part)), rest) = msg  BY <2>2, <2>3, <2>4
    <2> QED  BY <2>5 DEF Cat
  <1>11. data' = rest /\ msg' = msg /\ sm3pc' = "update"  BY DEF Absorb
  <1>12. CASE curLen + n = Block
    <2>1. hashed' = hashed \o buf' /\ curLen' = 0  BY <1>12 DEF Absorb
    <2>2. buf' = Held \o part
      <3>3. buf' \in Seq(Byte) /\ Len(buf') = Block  BY <1>2, <1>14
      <3> QED  BY <1>8, <1>12, <3>3, SeqEqual
    <2>3. hashed' \in Seq(Byte) /\ Len(hashed') = Len(hashed) + Block
      BY <1>1, <1>8, <1>12, <2>1, <2>2, ConcatProperties
    <2>4. Held' = <<>>  BY <2>1, SubSeqEmpty DEF Held
    <2>5. hashed' \o Held' \o data' = msg'
      BY <1>10, <1>11, <2>1, <2>2, <2>3, <2>4, ConcatEmptySeq
    <2>6. Blocks'
      <3>1. PICK k \in Nat : Len(hashed) = k * Block  BY <1>1 DEF Blocks
      <3>2. Len(hashed') = (k + 1) * Block  BY <1>2, <2>3, <3>1
      <3> QED  BY <3>2 DEF Blocks
    <2>7. Types'
      BY <1>2, <1>5, <1>11, <1>14, <2>1 DEF Types, Sm3Inv, Absorb
    <2> QED  BY <1>1, <1>11, <2>3, <2>5, <2>6, <2>7 DEF Sm3Inv, Absorbed, Consumed
  <1>13. CASE curLen + n # Block
    <2>1. hashed' = hashed /\ curLen' = curLen + n  BY <1>13 DEF Absorb
    <2>2. Held' = Held \o part  BY <1>9, <2>1 DEF Held
    <2>3. hashed' \o Held' \o data' = msg'  BY <1>10, <1>11, <2>1, <2>2
    <2>4. Types'
      BY <1>1, <1>2, <1>3, <1>5, <1>11, <1>13, <1>14, <2>1 DEF Types, Sm3Inv, Absorb
    <2>5. Blocks'  BY <1>1, <2>1 DEF Blocks
    <2> QED  BY <1>1, <1>11, <2>1, <2>3, <2>4, <2>5 DEF Sm3Inv, Absorbed, Consumed
  <1> QED  BY <1>12, <1>13

LEMMA EndUpdateInv == ASSUME Sm3Inv, EndUpdate PROVE Sm3Inv'
  <1>1. Types'  BY DEF Sm3Inv, Types, EndUpdate
  <1>2. Held' = Held /\ Blocks' = Blocks  BY DEF EndUpdate, Held, Blocks
  <1> QED  BY <1>1, <1>2 DEF Sm3Inv, Absorbed, Consumed, EndUpdate

LEMMA InitAgainInv == ASSUME Sm3Inv, InitAgain PROVE Sm3Inv'
  <1>1. Block \in Nat \ {0}  BY Sizes
  <1>2. Types' /\ Consumed'  BY <1>1 DEF Sm3Inv, Types, Consumed, InitAgain
  <1>3. Held' = <<>>  BY SubSeqEmpty DEF InitAgain, Held
  <1>4. data' = <<>>  BY DEF Sm3Inv, Consumed, InitAgain
  <1>5. Len(hashed') = 0 * Block  BY <1>1 DEF InitAgain
  <1> QED  BY <1>2, <1>3, <1>4, <1>5 DEF InitAgain, Sm3Inv, Absorbed, Blocks

-----------------------------------------------------------------------------
(* SM3_Final *)

LEMMA WordTyped ==
    ASSUME NEW w \in Nat
    PROVE  /\ WordToBytes(w) \in Seq(Byte) /\ Len(WordToBytes(w)) = WordBytes
  <1>1. \A i \in 1 .. WordBytes : (w \div 2^(ByteBits * (WordBytes - i))) % ByteMod \in Byte
    <2> TAKE i \in 1 .. WordBytes
    <2>1. WordBytes - i \in 0 .. WordBytes  BY Sizes
    <2>2. 2^(ByteBits * (WordBytes - i)) \in Nat \ {0}  BY <2>1, PowersPositive, Zenon
    <2>3. ASSUME NEW p \in Nat \ {0} PROVE (w \div p) % ByteMod \in Byte
      BY Sizes DEF Byte
    <2> QED  BY <2>2, <2>3
  <1>2. WordToBytes(w) \in [1 .. WordBytes -> Byte]  BY <1>1, Zenon DEF WordToBytes
  <1> QED  BY <1>2, Sizes

LEMMA PadTyped ==
    ASSUME Types
    PROVE  /\ WithPad \in Seq(Byte) /\ Len(WithPad) = Block
           /\ \A i \in 1 .. Block :
                WithPad[i] = IF i <= curLen THEN buf[i]
                             ELSE IF i = curLen + 1 THEN ByteMod \div 2 ELSE 0
           /\ ByteMod \div 2 \in Byte /\ 0 \in Byte
  <1>1. ByteMod \div 2 \in Byte /\ 0 \in Byte  BY Sizes DEF Byte
  <1>2. \A i \in 1 .. Block :
          WithPad[i] = IF i <= curLen THEN buf[i]
                       ELSE IF i = curLen + 1 THEN ByteMod \div 2 ELSE 0
    BY Sizes DEF Types, WithPad, Pad
  <1>3. WithPad \in [1 .. Block -> Byte]
    <2>1. \A i \in 1 .. Block : WithPad[i] \in Byte  BY <1>1, <1>2 DEF Types
    <2>2. WithPad = [i \in 1 .. Block |-> WithPad[i]]  BY DEF WithPad
    <2> QED  BY <2>1, <2>2
  <1> QED  BY <1>1, <1>2, <1>3, Sizes

\* ConcatProperties with a case each for the two parts.
LEMMA Joined ==
    ASSUME NEW S, NEW s \in Seq(S), NEW t \in Seq(S)
    PROVE  /\ s \o t \in Seq(S) /\ Len(s \o t) = Len(s) + Len(t)
           /\ \A i \in 1 .. Len(s) : (s \o t)[i] = s[i]
           /\ \A i \in Len(s) + 1 .. Len(s) + Len(t) : (s \o t)[i] = t[i - Len(s)]
  <1>1. /\ s \o t \in Seq(S) /\ Len(s \o t) = Len(s) + Len(t)
        /\ \A i \in 1 .. Len(s) + Len(t) :
             (s \o t)[i] = IF i <= Len(s) THEN s[i] ELSE t[i - Len(s)]
    BY ConcatProperties, Zenon
  <1>2. PICK st : st = s \o t  OBVIOUS
  <1>3. \A i \in 1 .. Len(s) + Len(t) : st[i] = IF i <= Len(s) THEN s[i] ELSE t[i - Len(s)]
    BY <1>1, <1>2, Zenon
  <1>4. /\ \A i \in 1 .. Len(s) : st[i] = s[i]
        /\ \A i \in Len(s) + 1 .. Len(s) + Len(t) : st[i] = t[i - Len(s)]
    <2>1. Len(s) \in Nat /\ Len(t) \in Nat  OBVIOUS
    <2> QED  BY <1>3, <2>1
  <1> QED  BY <1>1, <1>2, <1>4, Zenon

\* The zeros behind the one bit: to the length of this block or of the next.
Fill == IF curLen >= Block - LenBytes THEN 2 * Block - 1 - LenBytes - curLen
        ELSE Block - 1 - LenBytes - curLen

OneBit == <<ByteMod \div 2>>

Closed == (Held \o OneBit) \o Zeros(Fill)

LEMMA ClosedElements ==
    ASSUME Types
    PROVE  /\ Held \in Seq(Byte) /\ OneBit \in Seq(Byte) /\ Zeros(Fill) \in Seq(Byte)
           /\ Closed \in Seq(Byte) /\ Len(Closed) = curLen + 1 + Fill /\ Fill \in Nat
           /\ \A i \in 1 .. curLen + 1 + Fill :
                Closed[i] = IF i <= curLen THEN buf[i]
                            ELSE IF i = curLen + 1 THEN ByteMod \div 2 ELSE 0
  <1>1. /\ Held \in Seq(Byte) /\ Len(Held) = curLen
        /\ \A i \in 1 .. curLen : Held[i] = buf[i]
    BY HeldTyped
  <1>2. curLen \in 0 .. Block - 1 /\ Fill \in Nat  BY Sizes DEF Types, Fill
  <1>3. OneBit \in Seq(Byte) /\ Len(OneBit) = 1 /\ OneBit[1] = ByteMod \div 2
    BY PadTyped DEF OneBit
  <1>4. /\ Zeros(Fill) \in Seq(Byte) /\ Len(Zeros(Fill)) = Fill
        /\ \A i \in 1 .. Fill : Zeros(Fill)[i] = 0
    BY <1>2, PadTyped DEF Zeros
  <1> DEFINE h == Held \o OneBit
  <1>5. /\ h \in Seq(Byte) /\ Len(h) = curLen + 1
        /\ \A i \in 1 .. curLen : h[i] = Held[i]
        /\ \A i \in curLen + 1 .. curLen + 1 : h[i] = OneBit[i - curLen]
    <2>1. /\ h \in Seq(Byte) /\ Len(h) = Len(Held) + Len(OneBit)
          /\ \A i \in 1 .. Len(Held) : h[i] = Held[i]
          /\ \A i \in Len(Held) + 1 .. Len(Held) + Len(OneBit) : h[i] = OneBit[i - Len(Held)]
      BY <1>1, <1>3, Joined, Zenon
    <2> QED  BY <1>1, <1>3, <2>1, Zenon
  <1> HIDE DEF h
  <1>6. /\ h \o Zeros(Fill) \in Seq(Byte) /\ Len(h \o Zeros(Fill)) = curLen + 1 + Fill
        /\ \A i \in 1 .. curLen + 1 : (h \o Zeros(Fill))[i] = h[i]
        /\ \A i \in curLen + 1 + 1 .. curLen + 1 + Fill :
             (h \o Zeros(Fill))[i] = Zeros(Fill)[i - (curLen + 1)]
    <2> DEFINE z == Zeros(Fill)
    <2>1. z \in Seq(Byte) /\ Len(z) = Fill  BY <1>4
    <2> HIDE DEF z
    <2>2. /\ h \o z \in Seq(Byte) /\ Len(h \o z) = Len(h) + Len(z)
          /\ \A i \in 1 .. Len(h) : (h \o z)[i] = h[i]
          /\ \A i \in Len(h) + 1 .. Len(h) + Len(z) : (h \o z)[i] = z[i - Len(h)]
      BY <1>5, <2>1, Joined, Zenon
    <2> QED  BY <1>5, <2>1, <2>2, Zenon DEF z
  <1>7. Closed = h \o Zeros(Fill)  BY DEF Closed, h
  <1>8. \A i \in 1 .. curLen : h[i] = buf[i]  BY <1>1, <1>2, <1>5
  <1>9. h[curLen + 1] = ByteMod \div 2  BY <1>2, <1>3, <1>5
  <1>10. \A i \in curLen + 2 .. curLen + 1 + Fill : Zeros(Fill)[i - (curLen + 1)] = 0
    BY <1>2, <1>4
  <1> QED  BY <1>1, <1>2, <1>3, <1>4, <1>6, <1>7, <1>8, <1>9, <1>10

\* The words of the length behind the closed message, in one block or in two.
LEMMA FinalShape ==
    ASSUME Types
    PROVE  FinalBlocks = (Closed \o WordToBytes(length[1])) \o WordToBytes(length[2])
  <1> DEFINE W1 == WordToBytes(length[1])
             W2 == WordToBytes(length[2])
             n == Block - LenBytes
             zero == [i \in 1 .. Block |-> 0]
  <1>1. W1 \in Seq(Byte) /\ W2 \in Seq(Byte)  BY WordTyped DEF Types
  <1>2. /\ Closed \in Seq(Byte) /\ Len(Closed) = curLen + 1 + Fill
        /\ \A i \in 1 .. curLen + 1 + Fill :
             Closed[i] = IF i <= curLen THEN buf[i]
                         ELSE IF i = curLen + 1 THEN ByteMod \div 2 ELSE 0
    BY ClosedElements
  <1>3. /\ WithPad \in Seq(Byte) /\ Len(WithPad) = Block /\ 0 \in Byte
        /\ \A i \in 1 .. Block :
             WithPad[i] = IF i <= curLen THEN buf[i]
                          ELSE IF i = curLen + 1 THEN ByteMod \div 2 ELSE 0
    BY PadTyped
  <1>4. n \in 1 .. Block /\ Block \in Nat /\ curLen \in 0 .. Block - 1
    BY Sizes DEF Types
  <1>5. CASE curLen < n
    <2>1. curLen + 1 + Fill = n  BY <1>4, <1>5, Sizes DEF Fill
    <2>2. \A i \in 1 .. n : WithPad[i] \in Byte  BY <1>3, <1>4, ElementOfSeq
    <2>3. SubSeq(WithPad, 1, n) = Closed
      <3> HIDE DEF n
      <3>1. /\ SubSeq(WithPad, 1, n) \in Seq(Byte) /\ Len(SubSeq(WithPad, 1, n)) = n
            /\ \A i \in 1 .. n : SubSeq(WithPad, 1, n)[i] = WithPad[i]
        BY <1>4, <2>2, Prefix
      <3>2. \A i \in 1 .. n : SubSeq(WithPad, 1, n)[i] = Closed[i]
        BY <1>2, <1>3, <1>4, <2>1, <3>1
      <3> QED  BY <1>2, <2>1, <3>1, <3>2, SeqEqual
    <2>4. FinalBlocks = WithLength(WithPad)  BY <1>4, <1>5, Sizes DEF FinalBlocks, Types
    <2> QED  BY <2>3, <2>4 DEF WithLength
  <1>6. CASE ~(curLen < n)
    <2>1. curLen + 1 + Fill = Block + n  BY <1>4, <1>6, Sizes DEF Fill
    <2> DEFINE Z == SubSeq(zero, 1, n)
    <2>2. Z \in Seq(Byte) /\ Len(Z) = n /\ \A i \in 1 .. n : Z[i] = 0
      <3>1. \A i \in 1 .. n : zero[i] = 0 /\ zero[i] \in Byte  BY <1>3, <1>4
      <3> HIDE DEF zero, n
      <3> QED  BY <1>4, <3>1, Prefix
    <2>3. WithPad \o Z = Closed
      <3> HIDE DEF Z, n
      <3>1. PICK p : p = WithPad \o Z  OBVIOUS
      <3>2. /\ p \in Seq(Byte) /\ Len(p) = Block + n
            /\ \A i \in 1 .. Block : p[i] = WithPad[i]
            /\ \A i \in Block + 1 .. Block + n : p[i] = Z[i - Block]
        <4>1. /\ WithPad \o Z \in Seq(Byte) /\ Len(WithPad \o Z) = Len(WithPad) + Len(Z)
              /\ \A i \in 1 .. Len(WithPad) : (WithPad \o Z)[i] = WithPad[i]
              /\ \A i \in Len(WithPad) + 1 .. Len(WithPad) + Len(Z) :
                   (WithPad \o Z)[i] = Z[i - Len(WithPad)]
          BY <1>3, <2>2, Joined, Zenon
        <4> QED  BY <1>3, <2>2, <3>1, <4>1, Zenon
      <3>3. \A i \in 1 .. Block : WithPad[i] = Closed[i]
        BY <1>2, <1>3, <1>4, <2>1
      <3>4. \A i \in Block + 1 .. Block + n : Z[i - Block] = 0  BY <1>4, <2>2
      <3>5. \A i \in Block + 1 .. Block + n : Closed[i] = 0
        BY <1>2, <1>4, <2>1
      <3>6. \A i \in 1 .. Block + n : p[i] = Closed[i]
        BY <1>4, <3>2, <3>3, <3>4, <3>5
      <3>7. Len(p) = Len(Closed) /\ \A i \in 1 .. Len(p) : p[i] = Closed[i]
        BY <1>2, <2>1, <3>2, <3>6, Zenon
      <3>8. p = Closed  BY <1>2, <3>2, <3>7, SeqEqual, Zenon
      <3> QED  BY <3>1, <3>8
    <2>4. FinalBlocks = WithPad \o WithLength(zero)
      BY <1>4, <1>6, Sizes DEF FinalBlocks, Types
    <2>5. WithLength(zero) = (Z \o W1) \o W2  BY DEF WithLength
    <2>6. WithPad \o ((Z \o W1) \o W2) = ((WithPad \o Z) \o W1) \o W2
      <3>1. WithPad \in Seq(Byte) /\ Z \in Seq(Byte) /\ W1 \in Seq(Byte) /\ W2 \in Seq(Byte)
        BY <1>1, <1>3, <2>2
      <3> HIDE DEF Z, W1, W2
      <3>2. Cat(WithPad, Cat(Cat(Z, W1), W2)) = Cat(Cat(Cat(WithPad, Z), W1), W2)
        BY <3>1, TakenOut
      <3> QED  BY <3>2 DEF Cat
    <2> QED  BY <2>3, <2>4, <2>5, <2>6
  <1> QED  BY <1>5, <1>6

LEMMA FinalInv == ASSUME Sm3Inv, Final PROVE Sm3Inv'
  <1>1. Types  BY DEF Sm3Inv
  <1>2. WordToBytes(length[1]) \in Seq(Byte) /\ WordToBytes(length[2]) \in Seq(Byte)
        /\ Len(WordToBytes(length[1])) = WordBytes /\ Len(WordToBytes(length[2])) = WordBytes
    BY <1>1, WordTyped DEF Types
  <1>3. Closed \in Seq(Byte) /\ Len(Closed) = curLen + 1 + Fill
    BY <1>1, ClosedElements
  <1> DEFINE c == Closed \o WordToBytes(length[1])
             f == FinalBlocks
  <1>4. c \in Seq(Byte) /\ Len(c) = Len(Closed) + WordBytes
    BY <1>2, <1>3, ConcatProperties
  <1>5. f = c \o WordToBytes(length[2])  BY <1>1, FinalShape
  <1> HIDE DEF c, f
  <1>6. f \in Seq(Byte) /\ Len(f) = Len(Closed) + WordBytes + WordBytes
    BY <1>2, <1>4, <1>5, ConcatProperties
  <1>7. Block \in Nat \ {0} /\ Len(f) \in Nat /\ Len(f) >= Block
    BY <1>1, <1>3, <1>6, Sizes DEF Types, Fill
  <1> DEFINE m == Len(f)
             s == SubSeq(f, m - Block + 1, m)
  <1>8. s \in Seq(Byte) /\ Len(s) = Block
    <2>1. m - Block + 1 \in Int /\ m \in Int /\ m - Block + 1 <= m
          /\ m - (m - Block + 1) + 1 = Block
      BY <1>7
    <2>2. \A i \in m - Block + 1 .. m : f[i] \in Byte  BY <1>6, <1>7, ElementOfSeq
    <2> HIDE DEF m
    <2> QED  BY <2>1, <2>2, SubSeqProperties
  <1>9. buf' = s  BY DEF Final, f
  <1> HIDE DEF s
  <1>10. buf' \in [1 .. Block -> Byte]  BY <1>7, <1>8, <1>9
  <1> QED  BY <1>7, <1>10 DEF Sm3Inv, Types, Absorbed, Consumed, Final

LEMMA Sm3NextInv == Sm3Inv /\ [Sm3Next]_sm3vars => Sm3Inv'
  <1> SUFFICES ASSUME Sm3Inv, [Sm3Next]_sm3vars PROVE Sm3Inv'  OBVIOUS
  <1>1. CASE UNCHANGED sm3vars
    BY <1>1 DEF sm3vars, Sm3Inv, Types, Absorbed, Consumed, Held, Blocks
  <1>2. CASE Sm3Next
    BY <1>2, UpdateInv, AbsorbInv, EndUpdateInv, FinalInv, InitAgainInv DEF Sm3Next
  <1> QED  BY <1>1, <1>2

LEMMA Sm3Invariant == Sm3Spec => []Sm3Inv
  BY Sm3InitInv, Sm3NextInv, PTL DEF Sm3Spec

(***************************************************************************)
(* SM3_Update: for every block size, alphabet and cut of the message,      *)
(* what was compressed, what buf holds and what is left of data_in is the  *)
(* message in order, and whole blocks are compressed.                      *)
(***************************************************************************)
THEOREM Sm3AbsorbsInOrder == Sm3Spec => []AbsorbedInOrder
  <1>1. Sm3Inv => AbsorbedInOrder
    <2> SUFFICES ASSUME Sm3Inv, sm3pc # "done"
                 PROVE  /\ hashed \o SubSeq(buf, 1, curLen) \o data = msg
                        /\ Len(hashed) % Block = 0 /\ curLen < Block
      BY DEF AbsorbedInOrder
    <2>1. hashed \o SubSeq(buf, 1, curLen) \o data = msg /\ Blocks
      BY DEF Sm3Inv, Absorbed, Held
    <2>2. PICK k \in Nat : Len(hashed) = k * Block  BY <2>1 DEF Blocks
    <2>3. (k * Block) % Block = 0
      <3>1. \A b \in Nat \ {0} : \A c \in 0 .. b - 1 : (k * b + c) % b = c  OBVIOUS
      <3>2. (k * Block + 0) % Block = 0  BY <3>1, Sizes
      <3> QED  BY <3>2, Sizes
    <2> QED  BY <2>1, <2>2, <2>3, Sizes DEF Sm3Inv, Types
  <1> QED  BY <1>1, Sm3Invariant, PTL

-----------------------------------------------------------------------------
(* The length words *)

Counting ==
    sm3pc # "done" /\ ByteBits * Len(msg) < WordMod => length = <<0, ByteBits * Len(msg)>>

LEMMA UpdateCounts ==
    ASSUME Sm3Inv, Counting, NEW d \in Inputs, Update(d) PROVE Counting'
  <1> DEFINE bits == ByteBits * Len(d)
             sum == ByteBits * Len(msg)
             square == WordMod * WordMod
  <1> SUFFICES ASSUME ByteBits * Len(msg') < WordMod
               PROVE  length' = <<0, ByteBits * Len(msg')>>
    BY DEF Counting
  <1>1. d \in Seq(Byte) /\ msg \in Seq(Byte) /\ sm3pc # "done" /\ msg' = msg \o d
    BY BlockSize DEF Sm3Inv, Absorbed, Update
  <1>2. Len(msg') = Len(msg) + Len(d) /\ Len(msg) \in Nat /\ Len(d) \in Nat
    BY <1>1, ConcatProperties
  <1>3. ByteBits * Len(msg') = sum + bits /\ sum \in Nat /\ bits \in Nat
    BY <1>2, Sizes
  <1>4. WordMod \in Nat \ {0} /\ square \in Nat /\ WordMod <= square  BY Sizes
  <1>5. length' = Counted(d)  BY DEF Update
  <1>6. Counted(d) =
          <<length[1] + (bits \div WordMod)
              + (IF (length[2] + bits) % square < bits THEN 1 ELSE 0),
            (length[2] + bits) % square>>
    BY DEF Counted
  <1>7. sum < WordMod => length = <<0, sum>>  BY <1>1 DEF Counting
  <1> HIDE DEF bits, sum, square
  <1>8. sum < WordMod /\ bits < WordMod /\ sum + bits < square  BY <1>3, <1>4
  <1>9. bits \div WordMod = 0 /\ (sum + bits) % square = sum + bits
    BY <1>3, <1>4, <1>8
  <1> QED  BY <1>3, <1>5, <1>6, <1>7, <1>8, <1>9

(***************************************************************************)
(* Quotients and remainders; and uint32_to_uint8, which keeps the low word *)
(* of what it is given.                                                    *)
(***************************************************************************)
LEMMA Split ==
    ASSUME NEW w \in Nat, NEW S \in Nat \ {0}
    PROVE  \E q \in Nat, r \in 0 .. S - 1 : q = w \div S /\ r = w % S /\ w = q * S + r
  <1>1. w \div S \in Nat /\ w % S \in 0 .. S - 1  OBVIOUS
  <1>2. PICK q \in Nat, r \in 0 .. S - 1 : q = w \div S /\ r = w % S  BY <1>1
  <1>3. \A b, n \in Int : n > 0 => b - n * (b \div n) = b % n  OBVIOUS
  <1>4. w - S * q = r  BY <1>2, <1>3
  <1>5. w = q * S + r  BY <1>4
  <1> QED  BY <1>2, <1>5

LEMMA Division ==
    ASSUME NEW P \in Nat \ {0}, NEW q \in Nat, NEW d \in 0 .. P - 1
    PROVE  (q * P + d) \div P = q /\ (q * P + d) % P = d
  OBVIOUS

LEMMA LowDigit ==
    ASSUME NEW w \in Nat, NEW P \in Nat \ {0}, NEW B \in Nat \ {0}, NEW Q \in Nat \ {0}
    PROVE  (w \div P) % B = ((w % (P * (B * Q))) \div P) % B
  <1>1. PICK M \in Nat \ {0} : M = B * Q  OBVIOUS
  <1>2. PICK S \in Nat \ {0} : S = P * M  OBVIOUS
  <1>3. PICK a \in Nat, u \in 0 .. S - 1 : a = w \div S /\ u = w % S /\ w = a * S + u
    BY Split, Zenon
  <1>4. PICK c \in Nat, d \in 0 .. P - 1 : c = u \div P /\ d = u % P /\ u = c * P + d
    BY Split
  <1>5. PICK h \in Nat, f \in 0 .. B - 1 : h = c \div B /\ f = c % B /\ c = h * B + f
    BY Split, Zenon
  <1>6. PICK q \in Nat : q = a * M + c  OBVIOUS
  <1>7. w = q * P + d
    <2>1. \A i, j, k, m, n \in Int : i * (j * k) + (m * j + n) = (i * k + m) * j + n
      OBVIOUS
    <2>2. a * (P * M) + (c * P + d) = (a * M + c) * P + d  BY <2>1
    <2> QED  BY <1>2, <1>3, <1>4, <1>6, <2>2
  <1>8. w \div P = q  BY <1>7, Division
  <1>9. PICK e \in Nat : e = a * Q + h  OBVIOUS
  <1>10. q = e * B + f
    <2>1. \A i, j, k, m, n \in Int : i * (j * k) + (m * j + n) = (i * k + m) * j + n
      OBVIOUS
    <2>2. a * (B * Q) + (h * B + f) = (a * Q + h) * B + f  BY <2>1
    <2> QED  BY <1>1, <1>5, <1>6, <1>9, <2>2
  <1>11. q % B = f  BY <1>10, Division
  <1> QED  BY <1>1, <1>2, <1>3, <1>4, <1>5, <1>8, <1>11

LEMMA HighDigit ==
    ASSUME NEW b \in Nat, NEW W \in Nat \ {0}, b < W * W
    PROVE  (b \div W) % W = b \div W
  <1>1. PICK h \in Nat, r \in 0 .. W - 1 : h = b \div W /\ r = b % W /\ b = h * W + r
    BY Split, Zenon
  <1>2. h < W
    <2>1. \A i, j \in Nat : i >= j => i * j >= j * j  OBVIOUS
    <2>2. h >= W => h * W >= W * W  BY <2>1
    <2>3. \A i, j, k \in Nat : i + j < k => ~(i >= k)  OBVIOUS
    <2>4. h * W \in Nat /\ W * W \in Nat  OBVIOUS
    <2> QED  BY <1>1, <2>2, <2>3, <2>4
  <1>3. h % W = h  BY <1>2
  <1> QED  BY <1>1, <1>3

LEMMA LowWord ==
    ASSUME NEW w \in Nat
    PROVE  WordToBytes(w) = WordToBytes(w % WordMod)
  <1>1. \A i \in 1 .. WordBytes :
          (w \div 2^(ByteBits * (WordBytes - i))) % ByteMod
            = ((w % WordMod) \div 2^(ByteBits * (WordBytes - i))) % ByteMod
    <2> TAKE i \in 1 .. WordBytes
    <2> DEFINE P == 2^(ByteBits * (WordBytes - i))
               Q == 2^(ByteBits * (i - 1))
    <2>1. /\ WordBytes \in Nat \ {0} /\ ByteBits \in Nat \ {0} /\ ByteMod \in Nat \ {0}
          /\ WordBytes - i \in 0 .. WordBytes /\ i - 1 \in 0 .. WordBytes
          /\ 1 \in 0 .. WordBytes /\ i \in 0 .. WordBytes
      BY Sizes
    <2>2. P \in Nat \ {0} /\ Q \in Nat \ {0}  BY <2>1, PowersPositive, Zenon
    <2>3. 2^(ByteBits * 1) = ByteMod
      <3>1. ByteBits * 1 = ByteBits  BY <2>1
      <3> QED  BY <3>1, Zenon DEF ByteMod
    <2>4. 1 + (i - 1) = i /\ (WordBytes - i) + i = WordBytes  BY <2>1
    <2>5. 2^(ByteBits * i) = ByteMod * Q
      <3>1. 1 + (i - 1) <= WordBytes  BY <2>1
      <3>2. 2^(ByteBits * (1 + (i - 1))) = 2^(ByteBits * 1) * Q
        BY <2>1, <3>1, PowersMultiply, Zenon
      <3> QED  BY <3>2, <2>3, <2>4, Zenon
    <2>6. WordMod = P * (ByteMod * Q)
      <3>1. (WordBytes - i) + i <= WordBytes  BY <2>1
      <3>2. 2^(ByteBits * ((WordBytes - i) + i)) = P * 2^(ByteBits * i)
        BY <2>1, <3>1, PowersMultiply, Zenon
      <3> QED  BY <3>2, <2>4, <2>5, Zenon DEF WordMod
    <2> HIDE DEF P, Q
    <2>7. (w \div P) % ByteMod = ((w % (P * (ByteMod * Q))) \div P) % ByteMod
      <3>1. ByteMod \in Nat \ {0}  BY <2>1
      <3> QED  BY <2>2, <3>1, LowDigit, Zenon
    <2>8. (w \div P) % ByteMod = ((w % WordMod) \div P) % ByteMod
      BY <2>6, <2>7, Zenon
    <2> QED  BY <2>8 DEF P
  <1> QED  BY <1>1, Zenon DEF WordToBytes

(***************************************************************************)
(* SM3_Final, when the length words are the bit length, the lower one with *)
(* the higher still in it: uint32_to_uint8 cuts that off.                  *)
(***************************************************************************)
LEMMA DigestOfFinal ==
    ASSUME Sm3Inv, Final,
           length = <<(ByteBits * Len(msg)) \div WordMod, ByteBits * Len(msg)>>,
           ByteBits * Len(msg) < WordMod * WordMod
    PROVE  hashed' = Padded(msg)
  <1> DEFINE W1 == WordToBytes(length[1])
             W2 == WordToBytes(length[2])
             bits == ByteBits * Len(msg)
  <1>1. Types /\ sm3pc = "ready" /\ data = <<>> /\ hashed \in Seq(Byte) /\ Blocks
        /\ hashed \o Held \o data = msg
        /\ length = <<bits \div WordMod, bits>> /\ bits < WordMod * WordMod
    BY DEF Sm3Inv, Absorbed, Consumed, Final
  <1>2. /\ Held \in Seq(Byte) /\ Len(Held) = curLen /\ OneBit \in Seq(Byte)
        /\ Zeros(Fill) \in Seq(Byte) /\ Closed \in Seq(Byte)
    BY <1>1, ClosedElements, HeldTyped
  <1>3. W1 \in Seq(Byte) /\ W2 \in Seq(Byte)  BY <1>1, WordTyped DEF Types
  <1>4. hashed \o Held \in Seq(Byte) /\ Len(hashed \o Held) = Len(hashed) + curLen
    BY <1>1, <1>2, ConcatProperties
  <1>5. msg = hashed \o Held  BY <1>1, <1>4, ConcatEmptySeq
  <1>6. hashed' = ((hashed \o Closed) \o W1) \o W2
    <2>1. hashed' = hashed \o FinalBlocks  BY DEF Final
    <2>2. FinalBlocks = (Closed \o W1) \o W2  BY <1>1, FinalShape
    <2>3. /\ hashed \in Seq(Byte) /\ Closed \in Seq(Byte)
          /\ W1 \in Seq(Byte) /\ W2 \in Seq(Byte)
      BY <1>1, <1>2, <1>3
    <2> HIDE DEF W1, W2
    <2>4. Cat(hashed, Cat(Cat(Closed, W1), W2)) = Cat(Cat(Cat(hashed, Closed), W1), W2)
      BY <2>3, TakenOut
    <2>5. hashed' = Cat(hashed, Cat(Cat(Closed, W1), W2))  BY <2>1, <2>2 DEF Cat
    <2>6. hashed' = Cat(Cat(Cat(hashed, Closed), W1), W2)  BY <2>4, <2>5
    <2> QED  BY <2>6 DEF Cat
  <1>7. hashed \o Closed = (msg \o OneBit) \o Zeros(Fill)
    <2>1. /\ hashed \in Seq(Byte) /\ Held \in Seq(Byte)
          /\ OneBit \in Seq(Byte) /\ Zeros(Fill) \in Seq(Byte)
      BY <1>1, <1>2
    <2>2. Cat(hashed, Cat(Cat(Held, OneBit), Zeros(Fill)))
            = Cat(Cat(Cat(hashed, Held), OneBit), Zeros(Fill))
      BY <2>1, TakenOut
    <2>3. Closed = Cat(Cat(Held, OneBit), Zeros(Fill)) /\ msg = Cat(hashed, Held)
      BY <1>5 DEF Closed, Cat
    <2>4. Cat(hashed, Closed) = Cat(Cat(msg, OneBit), Zeros(Fill))  BY <2>2, <2>3
    <2> QED  BY <2>4 DEF Cat
  <1>8. Len(msg) % Block = curLen
    <2>1. PICK k \in Nat : Len(hashed) = k * Block  BY <1>1 DEF Blocks
    <2>2. curLen \in 0 .. Block - 1  BY <1>1 DEF Types
    <2>3. (k * Block + curLen) % Block = curLen
      <3>1. \A b \in Nat \ {0} : \A c \in 0 .. b - 1 : (k * b + c) % b = c  OBVIOUS
      <3> QED  BY <2>2, <3>1, Sizes
    <2> QED  BY <1>4, <1>5, <2>1, <2>3
  <1>9. (2 * Block - 1 - LenBytes - curLen) % Block = Fill
    <2> DEFINE x == 2 * Block - 1 - LenBytes - curLen
    <2>1. /\ Block \in Nat \ {0} /\ Fill \in 0 .. Block - 1
          /\ x = Fill \/ x = Block + Fill
      BY <1>1, Sizes DEF Types, Fill
    <2> HIDE DEF x
    <2>2. x % Block = Fill  BY <2>1
    <2> QED  BY <2>2 DEF x
  <1>10. bits \in Nat /\ (bits \div WordMod) % WordMod = bits \div WordMod
    <2>1. Len(msg) \in Nat  BY <1>4, <1>5
    <2>2. bits \in Nat /\ WordMod \in Nat \ {0}  BY <2>1, Sizes
    <2> HIDE DEF bits
    <2> QED  BY <1>1, <2>2, HighDigit
  <1>11. Padded(msg) = (((msg \o OneBit) \o Zeros(Fill)) \o WordToBytes(bits \div WordMod))
                         \o WordToBytes(bits % WordMod)
    BY <1>8, <1>9, <1>10, Zenon DEF Padded, OneBit
  <1>12. W1 = WordToBytes(bits \div WordMod) /\ W2 = WordToBytes(bits % WordMod)
    BY <1>1, <1>10, LowWord
  <1> QED  BY <1>6, <1>7, <1>11, <1>12, Zenon

LEMMA CountingNext ==
    Sm3Inv /\ Counting /\ ShortDigest /\ [Sm3Next]_sm3vars => (Counting /\ ShortDigest)'
  <1> SUFFICES ASSUME Sm3Inv, Counting, ShortDigest, [Sm3Next]_sm3vars
               PROVE  (Counting /\ ShortDigest)'
    OBVIOUS
  <1>1. ASSUME NEW d \in Inputs, Update(d) PROVE (Counting /\ ShortDigest)'
    BY <1>1, UpdateCounts DEF Update, ShortDigest
  <1>2. CASE Absorb  BY <1>2 DEF Absorb, Counting, ShortDigest
  <1>3. CASE EndUpdate  BY <1>3 DEF EndUpdate, Counting, ShortDigest
  <1>4. CASE Final
    <2>1. Counting'  BY <1>4 DEF Final, Counting
    <2>2. msg' = msg  BY <1>4 DEF Final
    <2>3. Padded(msg)' = Padded(msg')  BY DEF Padded, Zeros, WordToBytes
    <2>4. ByteBits * Len(msg) < WordMod => hashed' = Padded(msg)
      <3> SUFFICES ASSUME ByteBits * Len(msg) < WordMod PROVE hashed' = Padded(msg)
        OBVIOUS
      <3>1. Len(msg) \in Nat /\ length = <<0, ByteBits * Len(msg)>>
        BY <1>4, LenProperties DEF Final, Counting, Sm3Inv, Absorbed
      <3>2. ByteBits * Len(msg) \in Nat  BY <3>1, Sizes
      <3>3. \A b \in Nat, m \in Nat \ {0} : b < m => b \div m = 0  OBVIOUS
      <3>4. /\ (ByteBits * Len(msg)) \div WordMod = 0
            /\ ByteBits * Len(msg) < WordMod * WordMod
        BY <3>2, <3>3, Sizes
      <3> QED  BY <1>4, <3>1, <3>4, DigestOfFinal
    <2> QED  BY <2>1, <2>2, <2>3, <2>4 DEF ShortDigest
  <1>5. CASE InitAgain
    <2>1. ByteBits * Len(msg') = 0  BY <1>5, Sizes DEF InitAgain
    <2> QED  BY <1>5, <2>1 DEF InitAgain, Counting, ShortDigest
  <1>6. CASE UNCHANGED sm3vars
    BY <1>6 DEF sm3vars, Counting, ShortDigest, Padded, Zeros, WordToBytes
  <1> QED  BY <1>1, <1>2, <1>3, <1>4, <1>5, <1>6 DEF Sm3Next

(***************************************************************************)
(* SM3_Final: a message of fewer bits than a word counts has the digest of *)
(* the message as the standard pads it, however its Updates are cut.       *)
(***************************************************************************)
THEOREM Sm3ShortDigest == Sm3Spec => []ShortDigest
  <1>1. Sm3Init => Counting /\ ShortDigest
    <2> SUFFICES ASSUME Sm3Init PROVE Counting /\ ShortDigest  OBVIOUS
    <2>1. ByteBits * Len(msg) = 0  BY Sizes DEF Sm3Init
    <2> QED  BY <2>1 DEF Sm3Init, Counting, ShortDigest
  <1> QED  BY <1>1, CountingNext, Sm3Invariant, PTL DEF Sm3Spec

(***************************************************************************)
(* SM3_Update and SM3_Final: a message of one Update has the digest of the *)
(* padded message, whatever its length, up to the standard's limit.        *)
(***************************************************************************)
CountingOnce ==
    sm3pc # "done" =>
      /\ Len(msg) <= MaxLen /\ updates \in Nat
      /\ updates = 0 => msg = <<>> /\ length = <<0, 0>>
      /\ updates <= 1 =>
           length = <<(ByteBits * Len(msg)) \div WordMod, ByteBits * Len(msg)>>

LEMMA UpdateCountsOnce ==
    ASSUME Sm3Inv, CountingOnce, NEW d \in Inputs, Update(d) PROVE CountingOnce'
  <1> DEFINE bits == ByteBits * Len(d)
             square == WordMod * WordMod
  <1>1. /\ d \in Seq(Byte) /\ msg \in Seq(Byte) /\ msg' = msg \o d
        /\ updates \in Nat /\ updates' = updates + 1
        /\ updates = 0 => msg = <<>> /\ length = <<0, 0>>
        /\ Len(msg) + Len(d) <= MaxLen
    BY BlockSize DEF Sm3Inv, Absorbed, Update, CountingOnce
  <1>2. Len(msg') = Len(msg) + Len(d) /\ Len(msg) \in Nat /\ Len(d) \in Nat
    BY <1>1, ConcatProperties
  <1>3. ASSUME updates' <= 1
        PROVE  length' = <<(ByteBits * Len(msg')) \div WordMod, ByteBits * Len(msg')>>
    <2>1. updates = 0  BY <1>1, <1>3
    <2>2. Len(msg') = Len(d)  BY <1>1, <1>2, <2>1
    <2>3. /\ MaxLen \in Nat /\ ByteBits * MaxLen < square /\ WordMod \in Nat \ {0}
          /\ square \in Nat \ {0} /\ ByteBits \in Nat
      BY StandardLength, Sizes
    <2>4. Len(d) <= MaxLen  BY <1>1, <1>2, <2>3
    <2>5. ByteBits * Len(d) <= ByteBits * MaxLen /\ bits \in Nat  BY <1>2, <2>3, <2>4
    <2>6. length' = Counted(d)  BY DEF Update
    <2>7. Counted(d) =
            <<length[1] + (bits \div WordMod)
                + (IF (length[2] + bits) % square < bits THEN 1 ELSE 0),
              (length[2] + bits) % square>>
      BY DEF Counted
    <2>8. length[1] = 0 /\ length[2] = 0  BY <1>1, <2>1
    <2> HIDE DEF bits, square
    <2>9. bits < square  BY <1>2, <2>3, <2>5 DEF bits
    <2>10. (0 + bits) % square = bits  BY <2>3, <2>5, <2>9
    <2>11. bits \div WordMod \in Nat  BY <2>3, <2>5
    <2>12. length' = <<bits \div WordMod, bits>>
      BY <2>5, <2>6, <2>7, <2>8, <2>10, <2>11
    <2> QED  BY <2>2, <2>12 DEF bits
  <1>4. updates' # 0  BY <1>1
  <1>5. updates' \in Nat /\ Len(msg') <= MaxLen  BY <1>1, <1>2
  <1> QED  BY <1>3, <1>4, <1>5 DEF CountingOnce

LEMMA CountingOnceNext ==
    Sm3Inv /\ CountingOnce /\ OneUpdateDigest /\ [Sm3Next]_sm3vars
      => (CountingOnce /\ OneUpdateDigest)'
  <1> SUFFICES ASSUME Sm3Inv, CountingOnce, OneUpdateDigest, [Sm3Next]_sm3vars
               PROVE  (CountingOnce /\ OneUpdateDigest)'
    OBVIOUS
  <1>1. ASSUME NEW d \in Inputs, Update(d) PROVE (CountingOnce /\ OneUpdateDigest)'
    BY <1>1, UpdateCountsOnce DEF Update, OneUpdateDigest
  <1>2. CASE Absorb  BY <1>2 DEF Absorb, CountingOnce, OneUpdateDigest
  <1>3. CASE EndUpdate  BY <1>3 DEF EndUpdate, CountingOnce, OneUpdateDigest
  <1>4. CASE Final
    <2>1. CountingOnce'  BY <1>4 DEF Final, CountingOnce
    <2>2. msg' = msg /\ updates' = updates  BY <1>4 DEF Final
    <2>3. Padded(msg)' = Padded(msg')  BY DEF Padded, Zeros, WordToBytes
    <2>4. updates <= 1 => hashed' = Padded(msg)
      <3> SUFFICES ASSUME updates <= 1 PROVE hashed' = Padded(msg)  OBVIOUS
      <3>1. /\ Len(msg) \in Nat /\ Len(msg) <= MaxLen
            /\ length = <<(ByteBits * Len(msg)) \div WordMod, ByteBits * Len(msg)>>
        BY <1>4, LenProperties DEF Final, CountingOnce, Sm3Inv, Absorbed
      <3>2. MaxLen \in Nat /\ ByteBits * MaxLen < WordMod * WordMod
        BY StandardLength
      <3>3. ByteBits \in Nat /\ WordMod * WordMod \in Nat  BY Sizes
      <3>4. ByteBits * Len(msg) <= ByteBits * MaxLen  BY <3>1, <3>2, <3>3
      <3>5. ByteBits * Len(msg) < WordMod * WordMod
        BY <3>1, <3>2, <3>3, <3>4
      <3> QED  BY <1>4, <3>1, <3>5, DigestOfFinal
    <2> QED  BY <2>1, <2>2, <2>3, <2>4 DEF OneUpdateDigest
  <1>5. CASE InitAgain
    <2>1. ByteBits * Len(msg') = 0 /\ 0 \div WordMod = 0 /\ Len(msg') <= MaxLen
      BY <1>5, Sizes, StandardLength DEF InitAgain
    <2> QED  BY <1>5, <2>1 DEF InitAgain, CountingOnce, OneUpdateDigest
  <1>6. CASE UNCHANGED sm3vars
    BY <1>6 DEF sm3vars, CountingOnce, OneUpdateDigest, Padded, Zeros, WordToBytes
  <1> QED  BY <1>1, <1>2, <1>3, <1>4, <1>5, <1>6 DEF Sm3Next

LEMMA Sm3OneUpdateDigest == Sm3Spec => []OneUpdateDigest
  <1>1. Sm3Init => CountingOnce /\ OneUpdateDigest
    <2> SUFFICES ASSUME Sm3Init PROVE CountingOnce /\ OneUpdateDigest  OBVIOUS
    <2>1. ByteBits * Len(msg) = 0 /\ 0 \div WordMod = 0 /\ Len(msg) <= MaxLen
      BY Sizes, StandardLength DEF Sm3Init
    <2> QED  BY <2>1 DEF Sm3Init, CountingOnce, OneUpdateDigest
  <1> QED  BY <1>1, CountingOnceNext, Sm3Invariant, PTL DEF Sm3Spec

(***************************************************************************)
(* Both: the digest is the one of the padded message, for any block size,  *)
(* widths, inputs and up to the standard's limit of length.                *)
(***************************************************************************)
THEOREM Sm3DigestOfPadded == Sm3Spec => []DigestOfPadded
  BY Sm3ShortDigest, Sm3OneUpdateDigest, PTL DEF DigestOfPadded
=============================================================================
