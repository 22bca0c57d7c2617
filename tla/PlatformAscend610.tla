------------------------- MODULE PlatformAscend610 -------------------------
(***************************************************************************)
(* hi_platform/platform_ascend610.py: the header of 0x4BC bytes, its hash  *)
(* behind it, the certificate at 0x500 and the signature at 0xE00 of the   *)
(* header.  a is the record of the command line, n is code_len, h is       *)
(* head_type: 0 for the first header, 1 for the customer's.                *)
(***************************************************************************)
EXTENDS ImageFile

CONSTANTS SigLen, HashTreeLen, BcmLen, \* sizes of the input files
          Word32                                \* 2^32, the limit of a field I

Base(h) == IF h = 1 THEN \h1000 ELSE 0

At(a, at) == IF a.S THEN \hC000 + at ELSE at

HeaderAt(a, h, n) == At(a, Base(h) + IF a.before THEN n ELSE 0)

\* A plausible bug: the customer's header leads where the first one does.
SameCodeOffset(a, h) ==
    IF a.before THEN 0
    ELSE IF a.S THEN \hC000 + Base(h)
    ELSE \h2000

WriteCodeOffset(a, h) ==
    IF a.before THEN 0
    ELSE IF a.S THEN \hC000 + Base(h)
    ELSE \h2000 - Base(h)

Cover == \h4BC

\* The struct: what later writes replace separately is a piece of its own.
Header(a, h, n) ==
    LET at == HeaderAt(a, h, n)
    IN  {Holding(WriteCodeOffset(a, h), Piece("head", at, \h464)),
         Holding(IF a.enc = "no" THEN 0 ELSE 1, Piece("encflag", at + \h464, 4)),
         Piece("encalgo", at + \h468, 4),
         Piece("zeroes", at + \h46C, \h30),
         Piece("headend", at + \h49C, \h20)}

\* MemoryError of __write_code_offset, struct.error of the code_len field.
HeaderRaises(a, n) ==
    \/ ~a.before /\ a.S /\ n > \hC000
    \/ n >= Word32 /\ ~(a.before /\ a.large)

WriteCert(F, a, h) == Write(F, "cert", At(a, Base(h) + \h500), a.cert)

WriteSignature(F, a, h) == Write(F, "sig", At(a, Base(h) + \hE00), SigLen)

WriteHeader(F, a, h, n) ==
    LET at == HeaderAt(a, h, n)
        w  == Put(F, at, at + Cover, Header(a, h, n))
    IN  IF a.nvcnt THEN Write(w, "nvcnt", at + \hB18, 8) ELSE w

\* write_header_huawei (h = 0) and write_header_customer (h = 1)
WriteSingleHeader(F, a, h, n) ==
    WriteHeader(IF a.addsoc THEN WriteSignature(WriteCert(F, a, h), a, h) ELSE F,
                a, h, n)

WriteHeaderBcm(F) == Write(F, "bcm", \h1000, BcmLen)

WriteHeaderHash(F, a, h, n) ==
    WriteHash(F, IF a.S THEN \hC000 + Base(h) ELSE Base(h) + n, Cover)

HeaderWriteSaltAndIv(F, h) == Write(F, "salt", Base(h) + \h46C, \h30)

\* Where the image is written: the position counts for the plain image only.
ImageAt(a) == IF a.S \/ (a.before /\ a.enc = "no") THEN 0 ELSE \h2000

\* CBC of sm4.py adds a block; CTR does not.
CipherLen(a, n) == IF a.enc = "sm4" THEN n + 16 ELSE n

ImageRaises(a, n) == a.enc = "sm4" /\ n % 16 # 0

\* A plausible bug: the customer's header gets no salt.
OneSaltAndIv(F, a) == HeaderWriteSaltAndIv(F, 0)

WriteSaltAndIv(F, a) ==
    IF a.B THEN HeaderWriteSaltAndIv(F, 0)
    ELSE HeaderWriteSaltAndIv(HeaderWriteSaltAndIv(F, 0), 1)

WriteRawImg(F, a, raw) ==
    Put(F, ImageAt(a), ImageAt(a) + raw.size, Copied(raw.ext, ImageAt(a)))

WriteCipher(F, a, raw) ==
    Write(WriteSaltAndIv(F, a), "cipher", ImageAt(a), CipherLen(a, raw.size))

\* A plausible bug: the headers are hashed before the salt is written.
HashThenWriteImage(F, a, raw) ==
    LET w == IF a.before THEN F
             ELSE IF a.B THEN WriteHeaderHash(F, a, 0, 0)
             ELSE WriteHeaderHash(WriteHeaderHash(F, a, 0, 0), a, 1, 0)
    IN  IF a.enc = "no" THEN WriteRawImg(w, a, raw) ELSE WriteCipher(w, a, raw)

WriteImage(F, a, raw) ==
    LET w == IF a.enc = "no" THEN WriteRawImg(F, a, raw) ELSE WriteCipher(F, a, raw)
    IN  IF a.before THEN w
        ELSE IF a.B THEN WriteHeaderHash(w, a, 0, 0)
        ELSE WriteHeaderHash(WriteHeaderHash(w, a, 0, 0), a, 1, 0)

CmsAt(a, n) == n + \h2000 + IF a.before THEN 0 ELSE (32 - (n % 16))

CmsSize(a) == IF a.pss THEN \h4000 ELSE \h2000

\* Each file of the tail: a header of 16 bytes, then the file (__add_in_tail).
WriteCms(F, a, n) ==
    LET cms == Write(F, "cms", CmsAt(a, n), 16 + a.tail)
        ini == Write(cms, "ini", CmsAt(a, n) + CmsSize(a), 16 + a.tail)
    IN  Write(ini, "crl", CmsAt(a, n) + CmsSize(a) + \h800, 16 + a.tail)

WriteHashTree(F, n) == Write(F, "hashtree", n + \h20000 - \h100, HashTreeLen)

WriteHeaderAddress(F, a, n) ==
    IF a.large
    THEN PutPiece(F, Holding(n, Piece("address", a.partition - 12, 8)))
    ELSE PutPiece(F, Holding(n, Piece("address", a.partition - 8, 4)))

WriteVersion(F, a) == Write(F, "version", a.partition - 4, 4)

\* A plausible bug: the size is taken for a signed field.
WriteMagicSigned(F, a, n) ==
    LET fileSize == IF a.before /\ F.size >= Word32 \div 2 THEN 0 ELSE F.size
    IN  PutPiece(F, Holding(fileSize, Piece("magic", n + \h4E0, 24)))

\* __add_magic_number_and_file_size; n is 0 unless the header is behind.
WriteMagic(F, a, n) ==
    LET fileSize == IF a.before /\ F.size >= Word32 THEN 0 ELSE F.size
    IN  PutPiece(F, Holding(fileSize, Piece("magic", n + \h4E0, 24)))

ExternRaises(F, a) == ~a.before /\ F.size >= Word32

WriteExtern(F, a, n) ==
    LET one == WriteHeaderHash(F, a, 0, n)
        all == IF a.D THEN WriteHeaderHash(one, a, 1, n) ELSE one
    IN  IF a.before THEN WriteMagic(all, a, n) ELSE WriteMagic(F, a, 0)
=============================================================================
