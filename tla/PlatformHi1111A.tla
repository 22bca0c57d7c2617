-------------------------- MODULE PlatformHi1111A --------------------------
(***************************************************************************)
(* hi_platform/platform_hi1111A.py (as31xm1 and others): a header of 0x600 *)
(* bytes of which the first 0x560 are hashed, the certificate at 0x600 and *)
(* the signature at 0xE00.  a is the record of the command line, n is      *)
(* code_len, h is head_type.                                               *)
(***************************************************************************)
EXTENDS ImageFile

CONSTANTS SigLen, HashTreeLen, BcmLen, Word32

Base(h) == IF h = 1 THEN \h1000 ELSE 0

At(a, at) == IF a.S THEN \hC000 + at ELSE at

HeaderAt(a, h, n) == At(a, Base(h) + IF a.before THEN n ELSE 0)

Cover == \h560

Header(a, h, n) ==
    LET at == HeaderAt(a, h, n)
    IN  {Holding(IF a.before THEN 0 ELSE \h2000, Piece("head", at, \h484)),
         Holding(IF a.enc = "no" THEN 0 ELSE 1, Piece("encflag", at + \h484, 4)),
         Piece("zeroes", at + \h488, \h58),
         Piece("reserved", at + \h4E0, \h58),
         Piece("headend", at + \h538, \h28),
         Piece("zerohash", at + \h560, \h20),
         Piece("cmsflag", at + \h580, \h10),
         Piece("nonvcnt", at + \h590, 8),
         Piece("tag", at + \h598, \h68)}

HeaderRaises(a, n) == n >= Word32 /\ ~(a.before /\ a.large)

\* The certificate is followed by 0x1E8 bytes of padding.
WriteCert(F, a, h) ==
    LET at == At(a, Base(h) + \h600)
    IN  Put(F, at, at + a.cert + \h1E8,
            {Piece("cert", at, a.cert), Piece("certpad", at + a.cert, \h1E8)})

WriteSignature(F, a, h) ==
    Write(Write(F, "sig", At(a, Base(h) + \hE00), SigLen),
          "signlen", Base(h) + \h488, 4)

WriteHeader(F, a, h, n) ==
    LET at == HeaderAt(a, h, n)
    IN  Put(F, at, at + \h600, Header(a, h, n))

WriteSingleHeader(F, a, h, n) ==
    WriteHeader(IF a.addsoc THEN WriteSignature(WriteCert(F, a, h), a, h) ELSE F,
                a, h, n)

WriteHeaderBcm(F) == Write(F, "bcm", \h1000, BcmLen)

WriteHeaderHash(F, a, h, n) ==
    WriteHash(F, IF a.S \/ ~a.before THEN Base(h) ELSE Base(h) + n, Cover)

(***************************************************************************)
(* sm3_pbkdf2 returns None, which hexlify refuses: no image is encrypted.  *)
(* sm3_cal, which -sm needs, is defined nowhere.                           *)
(***************************************************************************)
ImageRaises(a) == a.enc # "no" \/ (a.sm /\ ~a.before)

ImageAt(a) == IF a.S \/ a.before THEN 0 ELSE \h2000

WriteRawImg(F, a, raw) ==
    Put(F, ImageAt(a), ImageAt(a) + raw.size, Copied(raw.ext, ImageAt(a)))

WriteImage(F, a, raw) ==
    LET w   == WriteRawImg(F, a, raw)
        one == IF a.before THEN w ELSE WriteHeaderHash(w, a, 0, 0)
    IN  IF ~a.B /\ ~a.before /\ a.D THEN WriteHeaderHash(one, a, 1, 0) ELSE one

CmsAt(a, n) == n + \h2000 + IF a.before THEN 0 ELSE (32 - (n % 16))

WriteCms(F, a, n) ==
    LET cms == Write(F, "cms", CmsAt(a, n), 16 + a.tail)
        ini == Write(cms, "ini", CmsAt(a, n) + \h4000, 16 + a.tail)
    IN  Write(ini, "crl", CmsAt(a, n) + \h4800, 16 + a.tail)

WriteHashTree(F, n) == Write(F, "hashtree", n + \h20000 - \h100, HashTreeLen)

WriteHeaderAddress(F, a, n) ==
    IF a.large
    THEN PutPiece(F, Holding(n, Piece("address", a.partition - 12, 8)))
    ELSE PutPiece(F, Holding(n, Piece("address", a.partition - 8, 4)))

WriteVersion(F, a) == Write(F, "version", a.partition - 4, 4)

\* __add_magic_number_and_file_size: magic and size, nvcnt, and code_len.
WriteMagic(F, a, n) ==
    LET fileSize == IF a.before /\ F.size >= Word32 THEN 0 ELSE F.size
        magic    == PutPiece(F, Holding(fileSize, Piece("magic", n + \h580, 12)))
        nvcnt    == IF a.nvcnt THEN Write(magic, "nvcnt", n + \h590, 8) ELSE magic
    IN  IF a.before THEN PutPiece(nvcnt, Holding(n, Piece("codelen", n + \h4E0, 8)))
        ELSE nvcnt

ExternRaises(F, a) == (a.before /\ a.sm) \/ (~a.before /\ F.size >= Word32)

WriteExtern(F, a, n) ==
    LET one == WriteHeaderHash(F, a, 0, n)
        all == IF a.D THEN WriteHeaderHash(one, a, 1, n) ELSE one
    IN  IF a.before THEN WriteMagic(all, a, n) ELSE WriteMagic(F, a, 0)
=============================================================================
