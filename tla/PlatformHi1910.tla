-------------------------- MODULE PlatformHi1910 ---------------------------
(***************************************************************************)
(* hi_platform/platform_hi1910.py: a header of 0x470 bytes without a hash  *)
(* of its own, version, magic and tag behind it, two copies of certificate *)
(* and signature, and a second header of which four fields are written.    *)
(* Everything but the image moves to 0xC000 for the on-chip ROM (-S).      *)
(***************************************************************************)
EXTENDS ImageFile

CONSTANTS SigLen, TagLen, Word32

At(a, at) == IF a.S THEN \hC000 + at ELSE at

\* The header is told of -S only with --addsoc.
CodeOffset(a) == IF a.S /\ a.addsoc THEN \hC000 ELSE \h4000

HeaderRaises(a, n) == (a.addsoc /\ a.S /\ n > \hC000) \/ n >= Word32

WriteCert(F, a) ==
    Write(Write(F, "cert", At(a, \h500), a.cert), "cert", At(a, \h1000), a.cert)

\* A plausible bug: the second copy of the signature starts inside the first.
WriteSignatureTwice(F, a) ==
    Write(Write(F, "sig", At(a, \h1500), SigLen), "sig", At(a, \h1680), SigLen)

WriteSignature(F, a) ==
    Write(Write(F, "sig", At(a, \h1500), SigLen), "sig", At(a, \h1700), SigLen)

WriteTag(F, a) == Write(F, "tag", At(a, \h4A0), TagLen)

WriteHeader(F, a) ==
    PutPiece(F, Holding(CodeOffset(a), Piece("head", At(a, 0), \h470)))

WriteHeaderHuawei(F, a) ==
    LET soc == IF a.addsoc THEN WriteSignature(WriteCert(F, a), a) ELSE F
    IN  WriteHeader(WriteTag(soc, a), a)

\* __write_2nd_header: preamble, hash, code_len and magic.
WriteHeaderCustomer(F, a) ==
    LET at == At(a, \h2000)
    IN  Write(Write(Write(Write(F, "preamble", at, 4), "codehash", at + \h2C, 32),
              "codelen", at + \h460, 4), "headmagic", at + \h46C, 4)

ImageAt(a) == IF a.S THEN 0 ELSE \h4000

WriteImage(F, a, raw) ==
    Put(F, ImageAt(a), ImageAt(a) + raw.size, Copied(raw.ext, ImageAt(a)))

\* The tail starts where write_image left the file position.
CmsAt(a, n) == ImageAt(a) + n + 16

WriteCms(F, a, n) ==
    LET cms == Write(F, "cms", CmsAt(a, n), 16 + a.tail)
        ini == Write(cms, "ini", CmsAt(a, n) + \h2000, 16 + a.tail)
    IN  Write(ini, "crl", CmsAt(a, n) + \h2800, 16 + a.tail)

WriteVersion(F, a) == Write(F, "version", At(a, \h480), 16)

MagicRaises(F, a) == (a.addcms /\ a.S) \/ F.size >= Word32

WriteMagic(F, a) == PutPiece(F, Holding(F.size, Piece("magic", At(a, \h490), 12)))

WriteExtern(F, a) == WriteHeaderCustomer(WriteMagic(WriteVersion(F, a), a), a)
=============================================================================
