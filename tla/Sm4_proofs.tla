----------------------------- MODULE Sm4_proofs -----------------------------
(***************************************************************************)
(* SM4_Decrypt inverts what sm4_cbc_op encrypts, for any word, any two     *)
(* substitutions, any key and any number of rounds that is a multiple of   *)
(* four: the rounds of the decryption go back through the states the       *)
(* encryption went through, seen in the mirror (Out).                      *)
(***************************************************************************)
EXTENDS Sm4, TLAPS

Sm4Types ==
    /\ sm4pc \in {"key", "cbc", "encrypt", "load", "decrypt"}
    /\ iv \in Blocks /\ x \in Blocks /\ r \in 0 .. Rounds
    /\ rk \in [0 .. Rounds - 1 -> Word]
    /\ plain \in Seq(Blocks) /\ cipher \in Seq(Blocks) /\ clear \in Seq(Blocks)
    /\ trace \in Seq([0 .. Rounds -> Blocks])

\* How far the lists are in each phase.
Lengths ==
    /\ Len(cipher) <= Len(plain) /\ Len(clear) <= Len(cipher)
    /\ sm4pc = "key" => Len(cipher) = 0
    /\ sm4pc \in {"key", "cbc", "encrypt"} => Len(clear) = 0
    /\ sm4pc = "encrypt" => Len(cipher) < Len(plain)
    /\ sm4pc = "decrypt" => Len(clear) < Len(cipher)
    /\ Len(trace) = IF sm4pc = "encrypt" THEN Len(cipher) + 1 ELSE Len(cipher)

\* The states of block b: its first one, and n rounds.
Starts(b) == trace[b][0] = XorBlock(Before(cipher, b), plain[b])
RoundsTo(b, n) == \A q \in 0 .. n - 1 : trace[b][q + 1] = Round(trace[b][q], q, rk[q])

Encrypted ==
    /\ \A b \in 1 .. Len(trace) : Starts(b)
    /\ \A b \in 1 .. Len(cipher) : RoundsTo(b, Rounds) /\ cipher[b] = Out(trace[b][Rounds])
    /\ sm4pc = "encrypt" => RoundsTo(Len(trace), r) /\ x = trace[Len(trace)][r]

\* The decryption is at the mirror image of an earlier state.
Mirrored == sm4pc = "decrypt" => x = Out(trace[Len(clear) + 1][Rounds - r])

Sm4Inv == Sm4Types /\ Lengths /\ Encrypted /\ Mirrored /\ Recovered

-----------------------------------------------------------------------------

\* Four consecutive numbers have the four remainders.
LEMMA Remainders ==
    ASSUME NEW q \in Nat
    PROVE  /\ q % 4 \in Four /\ (q + 1) % 4 \in Four /\ (q + 2) % 4 \in Four /\ (q + 3) % 4 \in Four
           /\ q % 4 # (q + 1) % 4 /\ q % 4 # (q + 2) % 4 /\ q % 4 # (q + 3) % 4
  BY DEF Four

\* Round q of the encryption and round p of the decryption meet the same words.
LEMMA MirrorIndex ==
    ASSUME NEW p \in 0 .. Rounds - 1
    PROVE  LET q == Rounds - 1 - p
           IN  /\ q \in 0 .. Rounds - 1 /\ 3 - (p % 4) = q % 4
               /\ 3 - ((p + 1) % 4) = (q + 3) % 4
               /\ 3 - ((p + 2) % 4) = (q + 2) % 4
               /\ 3 - ((p + 3) % 4) = (q + 1) % 4
  <1>. DEFINE q == Rounds - 1 - p
  <1>1. PICK k \in Nat : Rounds = 4 * k
    BY CipherTyped
  <1>2. p \in Nat /\ q \in Nat /\ q + p + 1 = 4 * k
    BY <1>1, CipherTyped
  <1>. QED
    BY <1>1, <1>2, CipherTyped

LEMMA XorTyped ==
    /\ \A a, b \in Blocks : XorBlock(a, b) \in Blocks
    /\ \A s \in Blocks : Out(s) \in Blocks /\ Out(Out(s)) = s
  <1>1. \A a, b \in Blocks : XorBlock(a, b) \in Blocks
    BY XorGroup DEF Blocks, XorBlock
  <1>2. ASSUME NEW s \in Blocks PROVE Out(s) \in Blocks /\ Out(Out(s)) = s
    <2>1. \A i \in Four : 3 - i \in Four /\ 3 - (3 - i) = i
      BY DEF Four
    <2>2. Out(s) \in Blocks
      BY <2>1 DEF Blocks, Out
    <2>3. \A i \in Four : Out(Out(s))[i] = s[i]
      BY <2>1 DEF Out
    <2>4. Out(Out(s)) = [i \in Four |-> Out(Out(s))[i]]
      BY DEF Out
    <2>. QED
      BY <2>2, <2>3, <2>4 DEF Blocks
  <1>. QED
    BY <1>1, <1>2

LEMMA RoundTyped ==
    ASSUME NEW s \in Blocks, NEW q \in Nat, NEW k \in Word
    PROVE  Mid(s, q, k) \in Word /\ Round(s, q, k) \in Blocks
  <1>1. Mid(s, q, k) \in Word
    BY Remainders, XorGroup DEF Mid, Blocks
  <1>2. Xor(s[q % 4], T(Mid(s, q, k))) \in Word
    BY <1>1, Remainders, XorGroup, CipherTyped DEF Blocks
  <1>. QED
    BY <1>1, <1>2 DEF Round, Blocks

(***************************************************************************)
(* One round of SM4Operation with the keys reversed takes the mirror image *)
(* of the state after a round to that of the state before it.              *)
(***************************************************************************)
LEMMA RoundUndone ==
    ASSUME NEW s \in Blocks, NEW p \in 0 .. Rounds - 1, NEW k \in Word
    PROVE  Round(Out(Round(s, Rounds - 1 - p, k)), p, k) = Out(s)
  <1>. DEFINE q == Rounds - 1 - p
              u == Round(s, q, k)
              y == Out(u)
  <1>1. /\ q \in Nat /\ p \in Nat /\ u \in Blocks /\ y \in Blocks
        /\ Mid(s, q, k) \in Word
    BY RoundTyped, XorTyped, CipherTyped
  <1>2. /\ 3 - (p % 4) = q % 4
        /\ 3 - ((p + 1) % 4) = (q + 3) % 4
        /\ 3 - ((p + 2) % 4) = (q + 2) % 4
        /\ 3 - ((p + 3) % 4) = (q + 1) % 4
    BY MirrorIndex
  <1>3. /\ u[(q + 1) % 4] = s[(q + 1) % 4]
        /\ u[(q + 2) % 4] = s[(q + 2) % 4]
        /\ u[(q + 3) % 4] = s[(q + 3) % 4]
        /\ u[q % 4] = Xor(s[q % 4], T(Mid(s, q, k)))
        /\ \A i \in Four : i # q % 4 => u[i] = s[i]
    BY <1>1, Remainders DEF Round, Blocks
  <1>4. /\ y[p % 4] = Xor(s[q % 4], T(Mid(s, q, k)))
        /\ y[(p + 1) % 4] = s[(q + 3) % 4]
        /\ y[(p + 2) % 4] = s[(q + 2) % 4]
        /\ y[(p + 3) % 4] = s[(q + 1) % 4]
    <2>1. p % 4 \in Four /\ (p + 1) % 4 \in Four /\ (p + 2) % 4 \in Four /\ (p + 3) % 4 \in Four
      BY <1>1, Remainders
    <2>2. \A i \in Four : y[i] = u[3 - i]
      BY DEF Out
    <2>. QED
      BY <2>1, <2>2, <1>2, <1>3
  <1>5. Mid(y, p, k) = Mid(s, q, k)
    <2>. DEFINE a == s[(q + 1) % 4]
                b == s[(q + 2) % 4]
                c == s[(q + 3) % 4]
    <2>1. a \in Word /\ b \in Word /\ c \in Word
      BY <1>1, Remainders DEF Blocks
    <2>2. Xor(Xor(c, b), a) = Xor(Xor(a, b), c)
      BY <2>1, XorGroup
    <2>3. Mid(y, p, k) = Xor(Xor(Xor(c, b), a), k)
      BY <1>4 DEF Mid
    <2>. QED
      BY <2>2, <2>3 DEF Mid
  <1>6. Xor(y[p % 4], T(Mid(y, p, k))) = s[q % 4]
    <2>1. s[q % 4] \in Word /\ T(Mid(s, q, k)) \in Word
      BY <1>1, Remainders, CipherTyped DEF Blocks
    <2>. QED
      BY <2>1, <1>4, <1>5, XorGroup
  <1>7. \A i \in Four : Round(y, p, k)[i] = Out(s)[i]
    <2>. SUFFICES ASSUME NEW i \in Four PROVE Round(y, p, k)[i] = s[3 - i]
      BY DEF Out
    <2>1. CASE i = p % 4
      BY <2>1, <1>1, <1>2, <1>6 DEF Round, Blocks
    <2>2. CASE i # p % 4
      <3>1. Round(y, p, k)[i] = u[3 - i]
        BY <2>2, <1>1 DEF Round, Blocks, Out
      <3>2. 3 - i \in Four /\ 3 - i # q % 4
        BY <2>2, <1>1, <1>2, Remainders DEF Four
      <3>. QED
        BY <3>1, <3>2, <1>3
    <2>. QED
      BY <2>1, <2>2
  <1>8. Round(y, p, k) \in Blocks /\ Out(s) \in Blocks
    BY <1>1, RoundTyped, XorTyped
  <1>. QED
    BY <1>7, <1>8 DEF Blocks

\* Decrypting and the exclusive or with the block before give the plain text.
LEMMA BlockRecovered ==
    ASSUME NEW p \in Blocks, NEW c \in Blocks
    PROVE  XorBlock(Out(Out(XorBlock(c, p))), c) = p
  <1>1. Out(Out(XorBlock(c, p))) = XorBlock(c, p)
    BY XorTyped
  <1>2. \A i \in Four : Xor(Xor(c[i], p[i]), c[i]) = p[i]
    BY XorGroup DEF Blocks
  <1>3. XorBlock(XorBlock(c, p), c) = [i \in Four |-> p[i]]
    BY <1>2 DEF XorBlock
  <1>. QED
    BY <1>1, <1>3 DEF Blocks

-----------------------------------------------------------------------------
LEMMA Sm4InitInv == Sm4Init => Sm4Inv
  <1>. SUFFICES ASSUME Sm4Init PROVE Sm4Inv
    OBVIOUS
  <1>1. Sm4Types
    <2>1. PICK d \in Datas : plain = Append(d, PadBlock)
      BY DEF Sm4Init
    <2>2. plain \in Seq(Blocks)
      BY <2>1, CipherTyped
    <2>3. PICK key \in Keys : x = XorBlock(key, FK)
      BY DEF Sm4Init
    <2>4. x \in Blocks
      BY <2>3, XorTyped, CipherTyped
    <2>. QED
      BY <2>2, <2>4, CipherTyped DEF Sm4Init, Sm4Types
  <1>2. Lengths /\ Encrypted /\ Mirrored /\ Recovered
    BY <1>1, CipherTyped DEF Sm4Init, Sm4Types, Lengths, Encrypted, Mirrored, Recovered
  <1>. QED
    BY <1>1, <1>2 DEF Sm4Inv

LEMMA KeyRoundInv == Sm4Inv /\ KeyRound => Sm4Inv'
  <1>. SUFFICES ASSUME Sm4Inv, KeyRound PROVE Sm4Inv'
    OBVIOUS
  <1>. USE DEF Sm4Inv, KeyRound
  <1>1. r \in Nat /\ r < Rounds /\ r \in 0 .. Rounds - 1 /\ r + 1 \in 0 .. Rounds /\ r % 4 \in Four
    BY CipherTyped, Remainders DEF Sm4Types
  <1>2. x' \in Blocks /\ x'[r % 4] \in Word
    <2>1. CK[r] \in Word
      BY <1>1, CipherTyped
    <2>2. Mid(x, r, CK[r]) \in Word
      BY <1>1, <2>1, RoundTyped DEF Sm4Types
    <2>3. Xor(x[r % 4], TKey(Mid(x, r, CK[r]))) \in Word
      BY <1>1, <2>2, XorGroup, CipherTyped DEF Sm4Types, Blocks
    <2>. QED
      BY <1>1, <2>3 DEF Sm4Types, Blocks
  <1>3. Sm4Types'
    BY <1>1, <1>2 DEF Sm4Types
  <1>4. Len(trace) = 0 /\ Len(cipher) = 0 /\ Len(clear) = 0
    BY DEF Lengths, Sm4Types
  <1>. QED
    BY <1>3, <1>4 DEF Sm4Types, Lengths, Encrypted, Mirrored, Recovered

LEMMA StartBlockInv == Sm4Inv /\ StartBlock => Sm4Inv'
  <1>. SUFFICES ASSUME Sm4Inv, StartBlock PROVE Sm4Inv'
    OBVIOUS
  <1>. USE DEF Sm4Inv
  <1>0. 0 \in 0 .. Rounds
    BY CipherTyped
  <1>1. CASE Len(cipher) < Len(plain)
    <2>. DEFINE b == Len(cipher) + 1
                row == [q \in 0 .. Rounds |-> x']
    <2>1. /\ x' = XorBlock(Before(cipher, b), plain[b]) /\ trace' = Append(trace, row)
          /\ sm4pc' = "encrypt" /\ r' = 0
          /\ UNCHANGED <<iv, plain, rk, cipher, clear>>
      BY <1>1 DEF StartBlock
    <2>2. Before(cipher, b) \in Blocks /\ plain[b] \in Blocks
      BY <1>1 DEF Before, Sm4Types
    <2>3. x' \in Blocks /\ row \in [0 .. Rounds -> Blocks]
      BY <2>1, <2>2, XorTyped
    <2>4. Sm4Types'
      BY <2>1, <2>3, <1>0 DEF Sm4Types
    <2>5. Len(trace) = Len(cipher) /\ Len(trace') = b /\ trace'[b] = row
          /\ \A i \in 1 .. Len(trace) : trace'[i] = trace[i]
      BY <2>1, <2>3 DEF StartBlock, Sm4Types, Lengths
    <2>6. Lengths'
      BY <1>1, <2>1, <2>5 DEF Lengths, Sm4Types, StartBlock
    <2>7. Encrypted'
      <3>1. ASSUME NEW i \in 1 .. b PROVE Starts(i)'
        <4>1. CASE i = b
          BY <4>1, <2>1, <2>5, <1>0 DEF Starts, Before
        <4>2. CASE i # b
          BY <4>2, <2>1, <2>5 DEF Starts, Before, Encrypted, Sm4Types
        <4>. QED BY <4>1, <4>2
      <3>2. ASSUME NEW i \in 1 .. Len(cipher)
            PROVE  RoundsTo(i, Rounds)' /\ cipher'[i] = Out(trace'[i][Rounds])
        BY <2>1, <2>5 DEF RoundsTo, Encrypted
      <3>3. RoundsTo(b, 0)' /\ x' = trace'[b][0]
        BY <2>5, <1>0 DEF RoundsTo
      <3>. QED
        BY <3>1, <3>2, <3>3, <2>1, <2>5 DEF Encrypted
    <2>. QED
      BY <2>1, <2>4, <2>6, <2>7 DEF Mirrored, Recovered
  <1>2. CASE ~(Len(cipher) < Len(plain))
    <2>1. sm4pc' = "load" /\ r' = 0 /\ UNCHANGED <<iv, plain, x, rk, cipher, clear, trace>>
      BY <1>2 DEF StartBlock
    <2>2. Sm4Types' /\ Lengths'
      BY <1>0, <2>1 DEF StartBlock, Sm4Types, Lengths
    <2>3. Encrypted'
      BY <2>1 DEF Encrypted, Starts, RoundsTo, Before
    <2>. QED
      BY <2>1, <2>2, <2>3 DEF Mirrored, Recovered
  <1>. QED
    BY <1>1, <1>2

LEMMA EncryptRoundInv == Sm4Inv /\ EncryptRound => Sm4Inv'
  <1>. SUFFICES ASSUME Sm4Inv, EncryptRound PROVE Sm4Inv'
    OBVIOUS
  <1>. USE DEF Sm4Inv
  <1>. DEFINE b == Len(trace)
  <1>1. /\ sm4pc = "encrypt" /\ r \in 0 .. Rounds - 1 /\ r + 1 \in 0 .. Rounds
        /\ r \in Nat /\ Rounds \in Nat
        /\ b = Len(cipher) + 1 /\ b \in 1 .. Len(trace)
        /\ x' = Round(x, r, rk[r]) /\ r' = r + 1
        /\ UNCHANGED <<sm4pc, iv, plain, rk, cipher, clear>>
    BY CipherTyped DEF EncryptRound, Sm4Types, Lengths
  <1>2. x' \in Blocks
    BY <1>1, RoundTyped DEF Sm4Types
  <1>3. trace' = [trace EXCEPT ![b] = [trace[b] EXCEPT ![r + 1] = x']]
    BY DEF EncryptRound
  <1>4. trace[b] \in [0 .. Rounds -> Blocks]
    BY <1>1 DEF Sm4Types
  <1>5. /\ trace' \in Seq([0 .. Rounds -> Blocks]) /\ Len(trace') = b
        /\ \A i \in 1 .. b : i # b => trace'[i] = trace[i]
        /\ trace'[b][r + 1] = x'
        /\ \A q \in 0 .. Rounds : q # r + 1 => trace'[b][q] = trace[b][q]
    <2>1. [trace[b] EXCEPT ![r + 1] = x'] \in [0 .. Rounds -> Blocks]
      BY <1>2, <1>4
    <2>2. trace \in Seq([0 .. Rounds -> Blocks]) /\ b \in DOMAIN trace
      BY <1>1 DEF Sm4Types
    <2>3. /\ trace' \in Seq([0 .. Rounds -> Blocks]) /\ Len(trace') = b
          /\ \A i \in 1 .. b : i # b => trace'[i] = trace[i]
          /\ trace'[b] = [trace[b] EXCEPT ![r + 1] = x']
      BY <2>1, <2>2, <1>3
    <2>. QED
      BY <2>3, <1>1, <1>4
  <1>6. Sm4Types' /\ Lengths'
    BY <1>1, <1>2, <1>5 DEF Sm4Types, Lengths
  <1>7. Encrypted'
    <2>1. ASSUME NEW i \in 1 .. b PROVE Starts(i)'
      <3>1. 0 \in 0 .. Rounds /\ 0 # r + 1
        BY <1>1, CipherTyped
      <3>2. trace'[i][0] = trace[i][0]
        BY <3>1, <1>5
      <3>. QED
        BY <3>2, <1>1 DEF Encrypted, Starts, Before
    <2>2. ASSUME NEW i \in 1 .. Len(cipher)
          PROVE  RoundsTo(i, Rounds)' /\ cipher'[i] = Out(trace'[i][Rounds])
      <3>1. i \in 1 .. b /\ i # b
        BY <1>1 DEF Sm4Types
      <3>. QED
        BY <3>1, <1>1, <1>5 DEF Encrypted, RoundsTo
    <2>3. ASSUME NEW q \in 0 .. r
          PROVE  trace'[b][q + 1] = Round(trace'[b][q], q, rk'[q])
      <3>1. trace'[b][q] = trace[b][q]
        BY <1>1, <1>5
      <3>2. CASE q = r
        BY <3>1, <3>2, <1>1, <1>5 DEF Encrypted
      <3>3. CASE q # r
        <4>1. q \in 0 .. r - 1 /\ q + 1 \in 0 .. Rounds /\ q + 1 # r + 1
          BY <3>3, <1>1
        <4>. QED
          BY <4>1, <3>1, <1>1, <1>5 DEF Encrypted, RoundsTo
      <3>. QED BY <3>2, <3>3
    <2>4. RoundsTo(Len(trace), r)' /\ x' = trace'[b][r']
      BY <2>3, <1>1, <1>5 DEF RoundsTo
    <2>. QED
      BY <2>1, <2>2, <2>4, <1>1, <1>5 DEF Encrypted
  <1>. QED
    BY <1>1, <1>6, <1>7 DEF Mirrored, Recovered

LEMMA EndBlockInv == Sm4Inv /\ EndBlock => Sm4Inv'
  <1>. SUFFICES ASSUME Sm4Inv, EndBlock PROVE Sm4Inv'
    OBVIOUS
  <1>. USE DEF Sm4Inv
  <1>. DEFINE b == Len(trace)
  <1>1. /\ sm4pc = "encrypt" /\ r = Rounds /\ cipher' = Append(cipher, Out(x))
        /\ sm4pc' = "cbc" /\ UNCHANGED <<iv, plain, x, r, rk, clear, trace>>
    BY DEF EndBlock
  <1>2. Out(x) \in Blocks
    BY XorTyped DEF Sm4Types
  <1>3. /\ b = Len(cipher) + 1 /\ Len(cipher') = b /\ cipher'[b] = Out(x)
        /\ \A i \in 1 .. Len(cipher) : cipher'[i] = cipher[i]
        /\ cipher' \in Seq(Blocks)
    BY <1>1, <1>2 DEF Sm4Types, Lengths
  <1>4. Sm4Types' /\ Lengths'
    BY <1>1, <1>3 DEF Sm4Types, Lengths
  <1>5. Encrypted'
    <2>1. ASSUME NEW i \in 1 .. b PROVE Starts(i)'
      BY <1>1, <1>3 DEF Encrypted, Starts, Before, Sm4Types
    <2>2. ASSUME NEW i \in 1 .. b
          PROVE  RoundsTo(i, Rounds)' /\ cipher'[i] = Out(trace'[i][Rounds])
      <3>1. CASE i = b
        BY <3>1, <1>1, <1>3 DEF Encrypted, RoundsTo
      <3>2. CASE i # b
        <4>1. i \in 1 .. Len(cipher)
          BY <3>2, <1>3 DEF Sm4Types
        <4>. QED
          BY <4>1, <1>1, <1>3 DEF Encrypted, RoundsTo
      <3>. QED BY <3>1, <3>2
    <2>. QED
      BY <2>1, <2>2, <1>1, <1>3 DEF Encrypted
  <1>. QED
    BY <1>1, <1>4, <1>5 DEF Mirrored, Recovered

LEMMA LoadBlockInv == Sm4Inv /\ LoadBlock => Sm4Inv'
  <1>. SUFFICES ASSUME Sm4Inv, LoadBlock PROVE Sm4Inv'
    OBVIOUS
  <1>. USE DEF Sm4Inv, LoadBlock
  <1>. DEFINE b == Len(clear) + 1
  <1>1. b \in 1 .. Len(cipher) /\ cipher[b] \in Blocks /\ 0 \in 0 .. Rounds /\ Rounds - 0 = Rounds
    BY CipherTyped DEF Sm4Types, Lengths
  <1>2. Sm4Types' /\ Lengths'
    BY <1>1 DEF Sm4Types, Lengths
  <1>3. Encrypted'
    BY DEF Encrypted, Starts, RoundsTo, Before
  <1>4. Mirrored'
    BY <1>1 DEF Mirrored, Encrypted
  <1>. QED
    BY <1>2, <1>3, <1>4 DEF Recovered

LEMMA DecryptRoundInv == Sm4Inv /\ DecryptRound => Sm4Inv'
  <1>. SUFFICES ASSUME Sm4Inv, DecryptRound PROVE Sm4Inv'
    OBVIOUS
  <1>. USE DEF Sm4Inv
  <1>. DEFINE b == Len(clear) + 1
              q == Rounds - 1 - r
              s == trace[b][q]
  <1>1. /\ sm4pc = "decrypt" /\ r \in 0 .. Rounds - 1 /\ q \in 0 .. Rounds - 1
        /\ q + 1 = Rounds - r /\ q = Rounds - (r + 1) /\ r + 1 \in 0 .. Rounds
        /\ b \in 1 .. Len(cipher) /\ b \in 1 .. Len(trace)
        /\ r' = r + 1 /\ x' = Round(x, r, rk[q])
        /\ UNCHANGED <<sm4pc, iv, plain, rk, cipher, clear, trace>>
    BY CipherTyped DEF DecryptRound, ReversedKey, Sm4Types, Lengths
  <1>2. s \in Blocks /\ rk[q] \in Word
    <2>1. rk[q] \in Word
      BY <1>1 DEF Sm4Types
    <2>2. q \in 0 .. Rounds /\ trace[b] \in [0 .. Rounds -> Blocks]
      BY <1>1, CipherTyped DEF Sm4Types
    <2>. QED
      BY <2>1, <2>2
  <1>3. x = Out(Round(s, q, rk[q]))
    BY <1>1 DEF Mirrored, Encrypted, RoundsTo
  <1>4. x' = Out(s)
    BY <1>1, <1>2, <1>3, RoundUndone
  <1>5. Sm4Types' /\ Lengths'
    BY <1>1, <1>2, <1>4, XorTyped DEF Sm4Types, Lengths
  <1>6. Encrypted'
    BY <1>1 DEF Encrypted, Starts, RoundsTo, Before
  <1>7. Mirrored'
    BY <1>1, <1>4 DEF Mirrored
  <1>. QED
    BY <1>1, <1>5, <1>6, <1>7 DEF Recovered

LEMMA EndLoadInv == Sm4Inv /\ EndLoad => Sm4Inv'
  <1>. SUFFICES ASSUME Sm4Inv, EndLoad PROVE Sm4Inv'
    OBVIOUS
  <1>. USE DEF Sm4Inv
  <1>. DEFINE b == Len(clear) + 1
              c == Before(cipher, b)
  <1>1. /\ sm4pc = "decrypt" /\ r = Rounds /\ sm4pc' = "load"
        /\ clear' = Append(clear, XorBlock(Out(x), c))
        /\ UNCHANGED <<iv, plain, x, r, rk, cipher, trace>>
    BY DEF EndLoad
  <1>2. /\ b \in 1 .. Len(cipher) /\ b \in 1 .. Len(trace) /\ b \in 1 .. Len(plain)
        /\ Rounds - Rounds = 0
    BY <1>1, CipherTyped DEF Sm4Types, Lengths
  <1>3. c \in Blocks /\ plain[b] \in Blocks
    BY <1>2 DEF Before, Sm4Types
  <1>4. x = Out(XorBlock(c, plain[b]))
    BY <1>1, <1>2 DEF Mirrored, Encrypted, Starts
  <1>5. XorBlock(Out(x), c) = plain[b]
    BY <1>3, <1>4, BlockRecovered
  <1>6. Sm4Types' /\ Lengths'
    BY <1>1, <1>2, <1>3, <1>5 DEF Sm4Types, Lengths
  <1>7. Encrypted'
    BY <1>1 DEF Encrypted, Starts, RoundsTo, Before
  <1>8. Recovered'
    BY <1>1, <1>3, <1>5 DEF Recovered, Sm4Types
  <1>. QED
    BY <1>1, <1>6, <1>7, <1>8 DEF Mirrored

LEMMA Sm4NextInv == Sm4Inv /\ [Sm4Next]_sm4vars => Sm4Inv'
  <1>. SUFFICES ASSUME Sm4Inv, [Sm4Next]_sm4vars PROVE Sm4Inv'
    OBVIOUS
  <1>1. CASE EndKeyExt
    BY <1>1 DEF Sm4Inv, EndKeyExt, Sm4Types, Lengths, Encrypted, Starts, RoundsTo,
                Before, Mirrored, Recovered
  <1>2. CASE UNCHANGED sm4vars
    BY <1>2 DEF sm4vars, Sm4Inv, Sm4Types, Lengths, Encrypted, Starts, RoundsTo,
                Before, Mirrored, Recovered
  <1>. QED
    BY <1>1, <1>2, KeyRoundInv, StartBlockInv, EncryptRoundInv, EndBlockInv, LoadBlockInv,
       DecryptRoundInv, EndLoadInv DEF Sm4Next

(***************************************************************************)
(* Every block the boot loader decrypts is the block that was encrypted:   *)
(* the substitutions need not even be invertible.                          *)
(***************************************************************************)
THEOREM Sm4RecoversImage == Sm4Spec => []Recovered
  <1>1. Sm4Inv => Recovered
    BY DEF Sm4Inv
  <1>. QED
    BY Sm4InitInv, Sm4NextInv, <1>1, PTL DEF Sm4Spec
=============================================================================
