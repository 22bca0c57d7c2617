-------------------------------- MODULE Sm4 --------------------------------
(***************************************************************************)
(* signtool's gm/sm4.py: SM4KeyExt, SM4Operation round by round, and       *)
(* sm4_cbc_op, which enc_img.py and the platforms encrypt an image with;   *)
(* then what a boot loader does with the result: SM4_Decrypt of each block *)
(* and the exclusive or with the block of cipher text before it.           *)
(*                                                                         *)
(* A word, its exclusive or and the two substitutions are parameters.      *)
(***************************************************************************)
EXTENDS Integers, Sequences

CONSTANTS Word, Zero, Xor(_, _),
          T(_),     \* ByteSub, then L1
          TKey(_),  \* ByteSub, then L2
          FK, CK,   \* the constants of SM4KeyExt
          Rounds,   \* 32
          Keys, Ivs, Datas,     \* key_in, iv_in, data_in (whole blocks)
          PadBlock  \* 16 bytes of 16

Four == 0 .. 3
Blocks == [Four -> Word]

ASSUME XorGroup ==
    /\ \A a, b \in Word : Xor(a, b) \in Word /\ Xor(a, b) = Xor(b, a)
    /\ \A a, b, c \in Word : Xor(Xor(a, b), c) = Xor(a, Xor(b, c))
    /\ \A a, b \in Word : Xor(Xor(a, b), b) = a

ASSUME CipherTyped ==
    /\ \A a \in Word : T(a) \in Word /\ TKey(a) \in Word
    /\ Zero \in Word /\ Rounds \in Nat /\ Rounds % 4 = 0
    /\ FK \in Blocks /\ CK \in [0 .. Rounds - 1 -> Word]
    /\ Keys \subseteq Blocks /\ Ivs \subseteq Blocks /\ PadBlock \in Blocks
    /\ Datas \subseteq Seq(Blocks)

VARIABLES sm4pc,
          iv, plain,    \* plain is data_in_padding
          x,            \* x0, x1, x2, x3
          r,            \* the round
          rk,           \* the round keys
          cipher,       \* out
          clear,        \* what the boot loader has decrypted
          trace         \* x after each round of each block, encrypted

sm4vars == <<sm4pc, iv, plain, x, r, rk, cipher, clear, trace>>

XorBlock(a, b) == [i \in Four |-> Xor(a[i], b[i])]

\* return x3, x2, x1, x0
Out(s) == [i \in Four |-> s[3 - i]]

Mid(s, q, k) ==
    Xor(Xor(Xor(s[(q + 1) % 4], s[(q + 2) % 4]), s[(q + 3) % 4]), k)

Sm4Init ==
    /\ sm4pc = "key" /\ iv \in Ivs
    /\ \E d \in Datas : plain = Append(d, PadBlock)
    /\ \E key \in Keys : x = XorBlock(key, FK)
    /\ r = 0 /\ rk = [q \in 0 .. Rounds - 1 |-> Zero]
    /\ cipher = <<>> /\ clear = <<>> /\ trace = <<>>

KeyRound ==
    /\ sm4pc = "key" /\ r < Rounds
    /\ x' = [x EXCEPT ![r % 4] = Xor(@, TKey(Mid(x, r, CK[r])))]
    /\ rk' = [rk EXCEPT ![r] = x'[r % 4]]
    /\ r' = r + 1
    /\ UNCHANGED <<sm4pc, iv, plain, cipher, clear, trace>>

EndKeyExt ==
    /\ sm4pc = "key" /\ r = Rounds
    /\ sm4pc' = "cbc"
    /\ UNCHANGED <<iv, plain, x, r, rk, cipher, clear, trace>>

\* tmp_out before block b
Before(list, b) == IF b = 1 THEN iv ELSE list[b - 1]

StartBlock ==
    /\ sm4pc = "cbc"
    /\ IF Len(cipher) < Len(plain)
       THEN /\ x' = XorBlock(Before(cipher, Len(cipher) + 1), plain[Len(cipher) + 1])
            /\ trace' = Append(trace, [q \in 0 .. Rounds |-> x'])
            /\ sm4pc' = "encrypt"
       ELSE sm4pc' = "load" /\ UNCHANGED <<x, trace>>
    /\ r' = 0
    /\ UNCHANGED <<iv, plain, rk, cipher, clear>>

Round(s, q, k) == [s EXCEPT ![q % 4] = Xor(@, T(Mid(s, q, k)))]

EncryptRound ==
    /\ sm4pc = "encrypt" /\ r < Rounds
    /\ x' = Round(x, r, rk[r])
    /\ trace' = [trace EXCEPT ![Len(trace)][r + 1] = x']
    /\ r' = r + 1
    /\ UNCHANGED <<sm4pc, iv, plain, rk, cipher, clear>>

EndBlock ==
    /\ sm4pc = "encrypt" /\ r = Rounds
    /\ cipher' = Append(cipher, Out(x))
    /\ sm4pc' = "cbc"
    /\ UNCHANGED <<iv, plain, x, r, rk, clear, trace>>

-----------------------------------------------------------------------------

LoadBlock ==
    /\ sm4pc = "load" /\ Len(clear) < Len(cipher)
    /\ x' = cipher[Len(clear) + 1]
    /\ r' = 0 /\ sm4pc' = "decrypt"
    /\ UNCHANGED <<iv, plain, rk, cipher, clear, trace>>

\* A plausible bug: the round keys are not put in reverse order.
KeyAsIs(q) == rk[q]

\* CryptFlag 1
ReversedKey(q) == rk[Rounds - 1 - q]

DecryptRound ==
    /\ sm4pc = "decrypt" /\ r < Rounds
    /\ x' = Round(x, r, ReversedKey(r))
    /\ r' = r + 1
    /\ UNCHANGED <<sm4pc, iv, plain, rk, cipher, clear, trace>>

EndLoad ==
    /\ sm4pc = "decrypt" /\ r = Rounds
    /\ clear' = Append(clear, XorBlock(Out(x), Before(cipher, Len(clear) + 1)))
    /\ sm4pc' = "load"
    /\ UNCHANGED <<iv, plain, x, r, rk, cipher, trace>>

Sm4Next ==
    \/ KeyRound \/ EndKeyExt
    \/ StartBlock \/ EncryptRound \/ EndBlock
    \/ LoadBlock \/ DecryptRound \/ EndLoad

Sm4Spec == Sm4Init /\ [][Sm4Next]_sm4vars

-----------------------------------------------------------------------------
(***************************************************************************)
(* What the boot loader decrypts is the image sm4_cbc_op was given, block  *)
(* for block, the padding behind it.                                       *)
(***************************************************************************)
Recovered == \A b \in DOMAIN clear : clear[b] = plain[b]
=============================================================================
