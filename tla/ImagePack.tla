----------------------------- MODULE ImagePack -----------------------------
(***************************************************************************)
(* The signing tools of meta-hisilicon on one image: esbc_header.py puts   *)
(* its header to the image, image_pack.py packs it for a platform,         *)
(* enc_img.py encrypts what was packed.  A tool writes a temporary file    *)
(* and copies it over its output: file is that temporary file, raw the     *)
(* input of image_pack.py.                                                 *)
(***************************************************************************)
EXTENDS ImageFile

CONSTANTS Options,      \* the command lines: a subset of Args
          Payloads,     \* sizes of the image
          Tails,        \* sizes of the cms, ini and crl files
          Partitions,   \* partition_size, in bytes
          Certs,        \* sizes of the certificate
          SigLen, HashTreeLen, BcmLen, TagLen,
          Word32        \* 2^32

H1910 == INSTANCE PlatformHi1910
A610  == INSTANCE PlatformAscend610
H1111 == INSTANCE PlatformHi1111A

Args == [platform: {"hi1910", "ascend610", "as31xm1"},
         before: BOOLEAN, large: BOOLEAN, S: BOOLEAN, D: BOOLEAN, B: BOOLEAN,
         addsoc: BOOLEAN, addcms: BOOLEAN, pss: BOOLEAN, nvcnt: BOOLEAN,
         sm: BOOLEAN, enc: {"no", "aes", "sm4"}, esbc: BOOLEAN,
         payload: Payloads, cert: Certs, tail: Tails, partition: Partitions,
         hashtree: BOOLEAN]

\* What the fields of the headers leave room for.
ASSUME SizesFit ==
    /\ Options \subseteq Args
    /\ Payloads \subseteq Nat \ {0} /\ Tails \subseteq Nat /\ Partitions \subseteq Nat
    /\ Certs \subseteq 1 .. \h618 /\ SigLen \in 1 .. \h200 /\ TagLen \in 1 .. 31
    /\ HashTreeLen \in Nat \ {0} /\ BcmLen \in 1 .. \h1000
    /\ Word32 \in Nat /\ Word32 > \h20000

\* partition_size is a number of megabytes; with 0 the seek to the address raises.
ASSUME Megabytes == \A p \in Partitions : p >= \h100000

VARIABLES args, \* the command line
          pc,   \* the next call of main
          raw,  \* the image as image_pack.py finds it
          file  \* the file being written

vars == <<args, pc, raw, file>>

n == raw.size   \* code_len

Start(a) == IF a.before THEN "image" ELSE "huawei"

Init ==
    /\ args \in Options
    /\ pc = IF args.esbc THEN "esbc" ELSE Start(args)
    /\ raw = Write(Empty, "payload", 0, args.payload)
    /\ file = Empty

(***************************************************************************)
(* esbc_header.py: the payload, and its header before or behind it.        *)
(***************************************************************************)
EsbcLen == IF args.before \/ args.platform = "as31xm1" THEN \h100 ELSE \h70

EsbcHeader ==
    /\ pc = "esbc"
    /\ raw' = IF args.platform = "hi1910" THEN raw
              ELSE IF args.before
              THEN Write(raw, "esbc", raw.size, EsbcLen)
              ELSE Write(Write(Empty, "payload", \h100, raw.size), "esbc", 0, EsbcLen)
    /\ pc' = Start(args)
    /\ UNCHANGED <<args, file>>

-----------------------------------------------------------------------------

WriteHeaderHuawei ==
    /\ pc = "huawei"
    /\ \/ /\ args.platform = "hi1910" /\ ~H1910!HeaderRaises(args, n)
          /\ file' = H1910!WriteHeaderHuawei(file, args)
       \/ /\ args.platform = "ascend610" /\ ~A610!HeaderRaises(args, n)
          /\ file' = A610!WriteSingleHeader(file, args, 0, n)
       \/ /\ args.platform = "as31xm1" /\ ~H1111!HeaderRaises(args, n)
          /\ file' = H1111!WriteSingleHeader(file, args, 0, n)
    /\ pc' = IF args.D THEN "customer"
             ELSE IF args.before THEN "cms"
             ELSE IF args.B THEN "bcm"
             ELSE "image"
    /\ UNCHANGED <<args, raw>>

WriteHeaderCustomer ==
    /\ pc = "customer"
    /\ \/ /\ args.platform = "hi1910"
          /\ file' = H1910!WriteHeaderCustomer(file, args)
       \/ /\ args.platform = "ascend610"
          /\ file' = A610!WriteSingleHeader(file, args, 1, n)
       \/ /\ args.platform = "as31xm1"
          /\ file' = H1111!WriteSingleHeader(file, args, 1, n)
    /\ pc' = IF args.before THEN "cms" ELSE "image"
    /\ UNCHANGED <<args, raw>>

WriteHeaderBcm ==
    /\ pc = "bcm"
    /\ \/ args.platform = "ascend610" /\ file' = A610!WriteHeaderBcm(file)
       \/ args.platform = "as31xm1" /\ file' = H1111!WriteHeaderBcm(file)
    /\ pc' = "image"
    /\ UNCHANGED <<args, raw>>

WriteImage ==
    /\ pc = "image"
    /\ \/ /\ args.platform = "hi1910"
          /\ file' = H1910!WriteImage(file, args, raw)
       \/ /\ args.platform = "ascend610" /\ ~A610!ImageRaises(args, n)
          /\ file' = A610!WriteImage(file, args, raw)
       \/ /\ args.platform = "as31xm1" /\ ~H1111!ImageRaises(args)
          /\ file' = H1111!WriteImage(file, args, raw)
    /\ pc' = IF args.before THEN "huawei" ELSE "cms"
    /\ UNCHANGED <<args, raw>>

WriteCms ==
    /\ pc = "cms"
    /\ \/ ~args.addcms /\ file' = file
       \/ /\ args.addcms /\ args.platform = "hi1910"
          /\ file' = H1910!WriteCms(file, args, n)
       \/ /\ args.addcms /\ args.platform = "ascend610"
          /\ file' = A610!WriteCms(file, args, n)
       \/ /\ args.addcms /\ args.platform = "as31xm1"
          /\ file' = H1111!WriteCms(file, args, n)
    /\ pc' = IF args.before THEN "hashtree" ELSE "extern"
    /\ UNCHANGED <<args, raw>>

WriteHashTree ==
    /\ pc = "hashtree" /\ args.hashtree
    /\ \/ args.platform = "ascend610" /\ file' = A610!WriteHashTree(file, n)
       \/ args.platform = "as31xm1" /\ file' = H1111!WriteHashTree(file, n)
    /\ pc' = "address"
    /\ UNCHANGED <<args, raw>>

\* write_header_huawei_address, then write_version
WriteAddress ==
    /\ pc = "address"
    /\ \/ /\ args.platform = "ascend610"
          /\ file' = A610!WriteVersion(A610!WriteHeaderAddress(file, args, n), args)
       \/ /\ args.platform = "as31xm1"
          /\ file' = H1111!WriteVersion(H1111!WriteHeaderAddress(file, args, n), args)
    /\ pc' = "extern"
    /\ UNCHANGED <<args, raw>>

\* write_extern, and the copy over the output file
WriteExtern ==
    /\ pc = "extern"
    /\ \/ /\ args.platform = "hi1910" /\ ~H1910!MagicRaises(file, args)
          /\ file' = H1910!WriteExtern(file, args)
       \/ /\ args.platform = "ascend610" /\ ~A610!ExternRaises(file, args)
          /\ file' = A610!WriteExtern(file, args, n)
       \/ /\ args.platform = "as31xm1" /\ ~H1111!ExternRaises(file, args)
          /\ file' = H1111!WriteExtern(file, args, n)
    /\ pc' = "packed"
    /\ UNCHANGED <<args, raw>>

(***************************************************************************)
(* A call ends with an exception: hi1910 has no write_header_bcm and no    *)
(* write_hash_tree, a field is too small, the image of a block cipher is   *)
(* not whole blocks, the hash tree is missing.  The output is not touched. *)
(***************************************************************************)
Raise ==
    /\ \/ /\ pc = "huawei"
          /\ \/ args.platform = "hi1910" /\ H1910!HeaderRaises(args, n)
             \/ args.platform = "ascend610" /\ A610!HeaderRaises(args, n)
             \/ args.platform = "as31xm1" /\ H1111!HeaderRaises(args, n)
       \/ pc = "bcm" /\ args.platform = "hi1910"
       \/ /\ pc = "image"
          /\ \/ args.platform = "ascend610" /\ A610!ImageRaises(args, n)
             \/ args.platform = "as31xm1" /\ H1111!ImageRaises(args)
       \/ pc = "hashtree" /\ (args.platform = "hi1910" \/ ~args.hashtree)
       \/ /\ pc = "extern"
          /\ \/ args.platform = "hi1910" /\ H1910!MagicRaises(file, args)
             \/ args.platform = "ascend610" /\ A610!ExternRaises(file, args)
             \/ args.platform = "as31xm1" /\ H1111!ExternRaises(file, args)
    /\ pc' = "raised"
    /\ UNCHANGED <<args, raw, file>>

(***************************************************************************)
(* enc_img.py on the packed image: its first 0x2000 bytes are copied, salt *)
(* and flag written into the headers, all behind 0x2000 encrypted and the  *)
(* headers hashed again, at the places of ascend610 whatever the platform. *)
(***************************************************************************)
EncHead(F) ==
    [ext  |-> {e \in F.ext : e.at + e.len <= \h2000},
     size |-> IF F.size < \h2000 THEN F.size ELSE \h2000]

EncSaltAndIv(F, h) ==
    PutPiece(Write(F, "salt", A610!Base(h) + \h46C, \h30),
             Holding(1, Piece("encflag", A610!Base(h) + \h464, 4)))

EncFrom == IF args.S THEN 0 ELSE \h2000

EncImage(F, e) ==
    LET one  == EncSaltAndIv(EncHead(F), 0)
        both == IF args.B THEN one ELSE EncSaltAndIv(one, 1)
        len  == F.size - EncFrom + IF e = "sm4" THEN 16 ELSE 0
        all  == Write(both, "cipher", EncFrom, len)
        hash == WriteHash(all, A610!At(args, 0), A610!Cover)
    IN  IF args.B THEN hash ELSE WriteHash(hash, A610!At(args, \h1000), A610!Cover)

EncImg(e) ==
    /\ pc = "packed" /\ args.platform # "hi1910" /\ ~args.before /\ args.enc = "no"
    /\ e = "sm4" => (file.size - EncFrom) % 16 = 0
    /\ file' = EncImage(file, e)
    /\ args' = [args EXCEPT !.enc = e]
    /\ pc' = "encrypted"
    /\ UNCHANGED raw

Next ==
    \/ EsbcHeader
    \/ WriteHeaderHuawei \/ WriteHeaderCustomer \/ WriteHeaderBcm
    \/ WriteImage \/ WriteCms \/ WriteHashTree \/ WriteAddress \/ WriteExtern
    \/ Raise
    \/ \E e \in {"aes", "sm4"} : EncImg(e)

Spec == Init /\ [][Next]_vars

-----------------------------------------------------------------------------
\* What the boot loader finds in the finished file.

Done == pc \in {"packed", "encrypted"}

Headers == IF args.D /\ args.platform # "hi1910" THEN {0, 1} ELSE {0}

HeaderAt(h) ==
    CASE args.platform = "hi1910"    -> H1910!At(args, 0)
      [] args.platform = "ascend610" -> A610!HeaderAt(args, h, n)
      [] args.platform = "as31xm1"   -> H1111!HeaderAt(args, h, n)

ImageAt ==
    CASE args.platform = "hi1910"    -> H1910!ImageAt(args)
      [] args.platform = "ascend610" -> A610!ImageAt(args)
      [] args.platform = "as31xm1"   -> H1111!ImageAt(args)

Encrypted == args.enc # "no" /\ args.platform # "hi1910"

(***************************************************************************)
(* The command lines the properties are about.  Outside of them pieces are *)
(* lost: -S is honoured in full by hi1910 with --addsoc only; -D and -B    *)
(* share the place 0x1000; with the header behind the image, certificate   *)
(* and signature are written into the image, the cipher is not put in      *)
(* front of the header, and nothing compares the partition with the image. *)
(***************************************************************************)
Supported ==
    /\ args.S => args.platform = "hi1910" /\ args.addsoc
    /\ ~(args.D /\ args.B)
    /\ args.before =>
         /\ ~args.addsoc /\ ~args.B /\ ~Encrypted
         /\ n + \h20000 + HashTreeLen <= args.partition
    /\ args.tail <= \h7F0   \* ini and crl are 0x800 apart
    /\ pc = "encrypted" => args.platform = "ascend610"

\* Types: every piece lies inside the file.
TypeOK ==
    /\ pc \in {"esbc", "huawei", "customer", "bcm", "image", "cms", "hashtree",
               "address", "extern", "packed", "raised", "encrypted"}
    /\ \A F \in {raw, file} :
         \A e \in F.ext : e.at \in Nat /\ e.len \in Nat /\ e.at + e.len <= F.size

(***************************************************************************)
(* The header leads to the image, and every byte of the image is there:    *)
(* nothing written after it (hashes, tail, hash tree, address, magic) or   *)
(* before it (headers, certificates) lies on it.                           *)
(***************************************************************************)
CodeReachable ==
    Done /\ Supported =>
      /\ IF Encrypted THEN Has(file, "cipher", ImageAt)
         ELSE Copied(raw.ext, ImageAt) \subseteq file.ext
      /\ \A h \in Headers : \E e \in file.ext :
           /\ e.f = "head" /\ e.at = HeaderAt(h)
           /\ \/ args.before /\ e.val = ImageAt
              \/ args.S /\ HeaderAt(h) - e.val = ImageAt
              \/ ~args.S /\ e.val = ImageAt - IF args.platform = "as31xm1" THEN 0
                                              ELSE HeaderAt(h)

(***************************************************************************)
(* Every piece the options ask for is whole in the finished file, at the   *)
(* place the header declares or the loader computes.                       *)
(***************************************************************************)
CertAt == IF args.platform = "as31xm1" THEN \h600 ELSE \h500

SigAt == IF args.platform = "hi1910" THEN \h1500 ELSE \hE00

PiecesWhole ==
    Done /\ Supported =>
      /\ \A h \in Headers : args.addsoc =>
           /\ Has(file, "cert", HeaderAt(h) + CertAt)
           /\ Has(file, "sig", HeaderAt(h) + SigAt)
           /\ args.platform = "hi1910" =>
                /\ args.cert <= \h500 => Has(file, "cert", HeaderAt(h) + \h1000)
                /\ Has(file, "sig", HeaderAt(h) + \h1700)
      /\ args.nvcnt /\ args.platform = "ascend610" =>
           \A h \in Headers : Has(file, "nvcnt", HeaderAt(h) + \hB18)
      /\ args.B /\ args.platform # "hi1910" => Has(file, "bcm", \h1000)
      /\ args.addcms /\ pc = "packed" =>
           \E c \in file.ext : /\ c.f = "cms"
                               /\ \E i \in file.ext : i.f = "ini" /\ Has(file, "crl", i.at + \h800)
      /\ args.before => /\ Has(file, "hashtree", n + \h1FF00)
                        /\ Has(file, "version", args.partition - 4)
                        /\ \E e \in file.ext : e.f = "address" /\ e.val = n

(***************************************************************************)
(* The hash behind a header is the hash of what the header holds in the    *)
(* end: salt, flag and code_len are written before it is taken.  as31xm1   *)
(* with the header behind the image breaks it, see the README.             *)
(***************************************************************************)
Cover == IF args.platform = "as31xm1" THEN H1111!Cover ELSE A610!Cover

HeadHashFresh ==
    Done /\ Supported /\ args.platform # "hi1910"
      /\ ~(args.platform = "as31xm1" /\ args.before)
    => \A h \in Headers : \E e \in file.ext :
         /\ e.f = "hash" /\ e.at = HeaderAt(h) + Cover
         /\ e.over = Seen(file, HeaderAt(h), HeaderAt(h) + Cover)

(***************************************************************************)
(* The size noted beside the magic number is the size of the file.  A file *)
(* of 4 GB or more with the header behind it notes 0; sm4 of enc_img.py    *)
(* adds a block, and hi1910 -S without -D a second header, after it.       *)
(***************************************************************************)
SizeRecorded ==
    Done /\ Supported /\ (args.S => args.D) /\ ~(pc = "encrypted" /\ args.enc = "sm4")
    => \E e \in file.ext :
         /\ e.f = "magic"
         /\ e.val = IF args.before /\ file.size >= Word32 THEN 0 ELSE file.size

(***************************************************************************)
(* The image is encrypted exactly if every header says so, and then every  *)
(* header holds the salt the key is derived from, under its hash.          *)
(***************************************************************************)
KeyMaterialKept ==
    Done /\ Supported /\ args.platform # "hi1910" =>
      \A h \in Headers :
        /\ \E e \in file.ext : /\ e.f = "encflag"
                               /\ ~Apart(e, HeaderAt(h), HeaderAt(h) + Cover)
                               /\ e.val = 1 <=> \E c \in file.ext : c.f = "cipher"
        /\ Encrypted => \E e \in file.ext : \E s \in e.over :
             e.f = "hash" /\ s.f = "salt" /\ s \in file.ext
               /\ ~Apart(s, HeaderAt(h), HeaderAt(h) + Cover)
=============================================================================
