-------------------------------- MODULE MCGm --------------------------------
(***************************************************************************)
(* The key is derived with SM3 before the image is encrypted with SM4.     *)
(* Bytes of two bits, words of two bytes and blocks of eight, so that the  *)
(* lengths reach a second block and a second length word; SM4 with two bit *)
(* words and four rounds.                                                  *)
(***************************************************************************)
EXTENDS Sm3, Sm4

MCInputs == {<<>>, <<1>>, <<3, 1, 2>>, <<2, 0, 1, 3>>, <<1, 2, 3, 1, 0, 2, 1>>,
             <<3, 2, 1, 0, 1, 2, 3, 0, 2>>}

MCWord == 0 .. 3
\* bit by bit
MCXor(a, b) == 2 * (((a \div 2) + (b \div 2)) % 2) + ((a + b) % 2)
\* neither is a permutation, and need not be one
MCT(a) == (<<2, 0, 3, 0>>)[a + 1]
MCTKey(a) == (<<1, 3, 0, 2>>)[a + 1]

Four4(a, b, c, d) == [i \in 0 .. 3 |-> (<<a, b, c, d>>)[i + 1]]
MCFK == Four4(2, 1, 3, 0)
MCCK == [i \in 0 .. 3 |-> (3 * i + 1) % 4]
MCKeys == {Four4(0, 1, 2, 3), Four4(3, 3, 0, 1)}
MCIvs == {Four4(0, 0, 0, 0), Four4(1, 2, 0, 3)}
MCDatas == {<<>>, <<Four4(0, 0, 0, 0)>>, <<Four4(1, 3, 2, 0), Four4(1, 3, 2, 0)>>,
            <<Four4(2, 2, 1, 3), Four4(0, 1, 3, 0)>>}
MCPadBlock == Four4(1, 1, 1, 1)

CipherIdle == sm4pc = "key" /\ r = 0

GmInit == Sm3Init /\ Sm4Init

GmNext ==
    \/ CipherIdle /\ Sm3Next /\ UNCHANGED sm4vars
    \/ sm3pc = "done" /\ Sm4Next /\ UNCHANGED sm3vars

GmSpec == GmInit /\ [][GmNext]_<<sm3vars, sm4vars>>
=============================================================================
