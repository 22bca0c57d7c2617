-------------------------------- MODULE Sm3 --------------------------------
(***************************************************************************)
(* The streaming part of signtool's gm/sm3.py: SM3_Init, SM3_Update and    *)
(* SM3_Final over a caller's buffer, length and cur_len.  SM3_compress is  *)
(* represented by what it has been given: hashed is everything compressed  *)
(* since SM3_Init, so two messages have one digest exactly if the same     *)
(* bytes went into it.  The code has Block 64, ByteBits 8, WordBytes 4.    *)
(***************************************************************************)
EXTENDS Integers, Sequences

CONSTANTS Block,      \* bytes SM3_compress takes
          ByteBits, WordBytes,
          Inputs,     \* data_in of an Update
          MaxLen, MaxUpdates    \* of a message: bounds of the check

ByteMod == 2^ByteBits
WordMod == 2^(ByteBits * WordBytes)
LenBytes == 2 * WordBytes
Byte == 0 .. ByteMod - 1

ASSUME BlockSize ==
    /\ ByteBits \in Nat \ {0} /\ WordBytes \in Nat \ {0} /\ Block \in Nat
    /\ Block > LenBytes /\ Inputs \subseteq Seq(Byte)

\* The standard is about messages of less than 2^64 bits.
ASSUME StandardLength == MaxLen \in Nat /\ ByteBits * MaxLen < WordMod * WordMod

\* Arithmetic that a prover is not asked to find out.
ASSUME PowersPositive == \A i \in 0 .. WordBytes : 2^(ByteBits * i) \in Nat \ {0}

ASSUME PowersMultiply ==
    \A i, j \in 0 .. WordBytes :
      i + j <= WordBytes => 2^(ByteBits * (i + j)) = 2^(ByteBits * i) * 2^(ByteBits * j)

VARIABLES sm3pc,    \* in which function
          data,     \* data_in from pos on, tmp_len bytes
          buf, curLen, length,
          hashed,
          updates,  \* how many Updates since Init
          msg       \* their data

sm3vars == <<sm3pc, data, buf, curLen, length, hashed, updates, msg>>

Sm3Init ==
    /\ sm3pc = "ready" /\ data = <<>>
    /\ buf = [i \in 1 .. Block |-> 0] /\ curLen = 0 /\ length = <<0, 0>>
    /\ hashed = <<>> /\ updates = 0 /\ msg = <<>>

\* The length words: length[1] is cut off at two words, not at one.
Counted(d) ==
    LET bits == ByteBits * Len(d)
        low  == (length[2] + bits) % (WordMod * WordMod)
    IN  <<length[1] + (bits \div WordMod) + (IF low < bits THEN 1 ELSE 0), low>>

Update(d) ==
    /\ sm3pc = "ready" /\ Len(msg) + Len(d) <= MaxLen /\ updates < MaxUpdates
    /\ sm3pc' = "update" /\ data' = d /\ length' = Counted(d)
    /\ msg' = msg \o d /\ updates' = updates + 1
    /\ UNCHANGED <<buf, curLen, hashed>>

Room == IF Len(data) < Block - curLen THEN Len(data) ELSE Block - curLen

\* A plausible bug: the block is filled from its start.
FilledFromStart(n) ==
    [i \in 1 .. Block |-> IF i <= n THEN data[i] ELSE buf[i]]

\* buf with the next n bytes behind the curLen it holds.
Filled(n) ==
    [i \in 1 .. Block |-> IF i > curLen /\ i <= curLen + n THEN data[i - curLen] ELSE buf[i]]

\* One turn of the loop of SM3_Update.
Absorb ==
    /\ sm3pc = "update" /\ data # <<>>
    /\ buf' = Filled(Room)
    /\ data' = SubSeq(data, Room + 1, Len(data))
    /\ IF curLen + Room = Block
       THEN hashed' = hashed \o buf' /\ curLen' = 0
       ELSE curLen' = curLen + Room /\ UNCHANGED hashed
    /\ UNCHANGED <<sm3pc, length, updates, msg>>

EndUpdate ==
    /\ sm3pc = "update" /\ data = <<>>
    /\ sm3pc' = "ready"
    /\ UNCHANGED <<data, buf, curLen, length, hashed, updates, msg>>

WordToBytes(w) ==
    [i \in 1 .. WordBytes |-> (w \div 2^(ByteBits * (WordBytes - i))) % ByteMod]

Pad == [i \in 1 .. Block |-> IF i = 1 THEN ByteMod \div 2 ELSE 0]

WithPad == [i \in 1 .. Block |-> IF i > curLen THEN Pad[i - curLen] ELSE buf[i]]

WithLength(b) ==
    SubSeq(b, 1, Block - LenBytes) \o WordToBytes(length[1]) \o WordToBytes(length[2])

\* A plausible bug: a block that ends where the length starts is not closed.
FinalBlocksOffByOne ==
    IF curLen > Block - LenBytes
    THEN WithPad \o WithLength([i \in 1 .. Block |-> 0])
    ELSE WithLength(WithPad)

FinalBlocks ==
    IF curLen >= Block - LenBytes
    THEN WithPad \o WithLength([i \in 1 .. Block |-> 0])
    ELSE WithLength(WithPad)

Final ==
    /\ sm3pc = "ready"
    /\ hashed' = hashed \o FinalBlocks
    /\ buf' = SubSeq(FinalBlocks, Len(FinalBlocks) - Block + 1, Len(FinalBlocks))
    /\ curLen' = 0 /\ sm3pc' = "done"
    /\ UNCHANGED <<data, length, updates, msg>>

\* SM3_Init once more on the same buffer, as hmac_sm3 does; buf is not cleared.
InitAgain ==
    /\ sm3pc = "done"
    /\ sm3pc' = "ready" /\ length' = <<0, 0>> /\ curLen' = 0
    /\ hashed' = <<>> /\ updates' = 0 /\ msg' = <<>>
    /\ UNCHANGED <<data, buf>>

Sm3Next == (\E d \in Inputs : Update(d)) \/ Absorb \/ EndUpdate \/ Final \/ InitAgain

Sm3Spec == Sm3Init /\ [][Sm3Next]_sm3vars

-----------------------------------------------------------------------------
(***************************************************************************)
(* Whatever the Updates are cut into, what was compressed, what buf holds  *)
(* and what is left of data_in is the message, in order.                   *)
(***************************************************************************)
AbsorbedInOrder ==
    sm3pc # "done" =>
      /\ hashed \o SubSeq(buf, 1, curLen) \o data = msg
      /\ Len(hashed) % Block = 0 /\ curLen < Block

Zeros(n) == [i \in 1 .. n |-> 0]

\* The padding of the standard: a one bit, zeros, the bit length.
Padded(m) ==
    LET bits == ByteBits * Len(m)
        fill == (2 * Block - 1 - LenBytes - (Len(m) % Block)) % Block
    IN  m \o <<ByteMod \div 2>> \o Zeros(fill)
          \o WordToBytes((bits \div WordMod) % WordMod) \o WordToBytes(bits % WordMod)

\* However many Updates a message of less than a word of bits is cut into.
ShortDigest ==
    sm3pc = "done" /\ ByteBits * Len(msg) < WordMod => hashed = Padded(msg)

\* However long a message of one Update is.
OneUpdateDigest == sm3pc = "done" /\ updates <= 1 => hashed = Padded(msg)

(***************************************************************************)
(* The digest is the one of the padded message.  Several Updates that pass *)
(* one word of bits together lose the carry, see the README.               *)
(***************************************************************************)
DigestOfPadded == ShortDigest /\ OneUpdateDigest
=============================================================================
