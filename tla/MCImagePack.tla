---------------------------- MODULE MCImagePack ----------------------------
(***************************************************************************)
(* Images of 0x6F0 bytes (shorter than the certificate's place plus its    *)
(* length), of 0x1234 (not whole cipher blocks), of 0xC010 (more than the  *)
(* on-chip ROM takes) and of 2^32, here 0x200000 (a field I overflows).    *)
(* Options that a platform does not read are left at their default.        *)
(***************************************************************************)
EXTENDS ImagePack

MCPayloads == {\h6F0, \h1234, \hC010, \h200000}
MCTails == {\h100, \h7F0, \h7F1}
MCCerts == {\h500, \h618}
MCPartitions == {\h100000, \h300000}

MCOptions ==
    {a \in [platform: {"hi1910", "ascend610", "as31xm1"},
            before: BOOLEAN, large: BOOLEAN, S: BOOLEAN, D: BOOLEAN, B: BOOLEAN,
            addsoc: BOOLEAN, addcms: BOOLEAN, pss: BOOLEAN, nvcnt: BOOLEAN,
            sm: BOOLEAN, enc: {"no", "aes", "sm4"}, esbc: BOOLEAN,
            payload: MCPayloads, cert: MCCerts, tail: MCTails, partition: MCPartitions,
            hashtree: BOOLEAN] :
       /\ a.large \/ ~a.hashtree \/ a.partition = \h300000 => a.before
       /\ a.tail # \h100 => a.addcms
       /\ a.esbc => a.platform # "hi1910"
       /\ a.enc # "no" => a.platform # "hi1910"
       /\ a.cert # \h618 => a.addsoc
       /\ a.nvcnt => a.platform # "hi1910"
       /\ a.pss => a.platform = "ascend610" /\ a.addcms
       /\ a.sm => a.platform = "as31xm1" /\ a.enc = "no"}
=============================================================================
