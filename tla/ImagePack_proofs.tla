------------------------- MODULE ImagePack_proofs -------------------------
(***************************************************************************)
(* The six invariants of ImagePack, for every command line and any sizes   *)
(* the headers leave room for.  First what one write does to a file, then  *)
(* what each call of main writes where (for ascend610 and as31xm1 with the *)
(* same names of the places, for hi1910 with its own), then the inductive  *)
(* invariant IInv: which pieces lie where after which call.                *)
(***************************************************************************)
EXTENDS ImagePack, TLAPS

-----------------------------------------------------------------------------
(* Files *)

Inside(e, lo, hi) == lo <= e.at /\ e.at + e.len <= hi

Whole(F) ==
    F.size \in Nat /\ \A e \in F.ext : e.at \in Nat /\ e.len \in Nat /\ e.at + e.len <= F.size

\* G is F with what lies in lo .. hi - 1 written over.
Wrote(F, G, lo, hi) ==
    /\ Whole(G)
    /\ F.size <= G.size /\ (hi <= F.size => G.size = F.size)
    /\ \A e \in F.ext : Apart(e, lo, hi) => e \in G.ext
    /\ \A e \in G.ext : e \in F.ext \/ Inside(e, lo, hi)

\* No piece of the file is encrypted.
Plain(F) == \A e \in F.ext : e.f # "cipher"

\* No piece lies across lo or hi.
Boxed(F, lo, hi) == \A e \in F.ext : Apart(e, lo, hi) \/ Inside(e, lo, hi)

LEMMA PutWrote ==
    ASSUME NEW F, Whole(F), NEW lo \in Nat, NEW hi \in Nat, lo <= hi,
           NEW P, \A e \in P : e.at \in Nat /\ e.len \in Nat /\ Inside(e, lo, hi)
    PROVE  /\ Wrote(F, Put(F, lo, hi, P), lo, hi)
           /\ P \subseteq Put(F, lo, hi, P).ext
           /\ hi <= Put(F, lo, hi, P).size
           /\ Plain(F) /\ (\A e \in P : e.f # "cipher") => Plain(Put(F, lo, hi, P))
           /\ \A x, y : Boxed(F, x, y) /\ (\A e \in P : Apart(e, x, y) \/ Inside(e, x, y))
                          => Boxed(Put(F, lo, hi, P), x, y)
  <1> DEFINE G == Put(F, lo, hi, P)
  <1>1. /\ G.ext = {e \in F.ext : Apart(e, lo, hi)} \cup P
        /\ G.size = IF F.size < hi THEN hi ELSE F.size
    BY DEF Put
  <1>2. G.size \in Nat /\ F.size <= G.size /\ hi <= G.size /\ (hi <= F.size => G.size = F.size)
    BY <1>1 DEF Whole
  <1>3. ASSUME NEW e \in G.ext  PROVE e.at \in Nat /\ e.len \in Nat /\ e.at + e.len <= G.size
    <2>1. CASE e \in F.ext  BY <1>2, <2>1 DEF Whole
    <2>2. CASE e \in P  BY <1>2, <2>2 DEF Inside
    <2> QED  BY <1>1, <1>3, <2>1, <2>2
  <1>4. Wrote(F, G, lo, hi)  BY <1>1, <1>2, <1>3 DEF Wrote, Whole
  <1> QED  BY <1>1, <1>2, <1>4 DEF Plain, Boxed

LEMMA HoldingIs ==
    \A f, at, len, v : Holding(v, Piece(f, at, len)) =
                         [f |-> f, at |-> at, len |-> len, val |-> v, over |-> {}]
  BY DEF Holding, Piece

\* One piece is written; of a name that is no cipher's.
LEMMA PieceWrote ==
    ASSUME NEW F, Whole(F), NEW p, p.at \in Nat, p.len \in Nat
    PROVE  /\ Wrote(F, PutPiece(F, p), p.at, p.at + p.len)
           /\ p \in PutPiece(F, p).ext
           /\ p.at + p.len <= PutPiece(F, p).size
           /\ Plain(F) /\ p.f # "cipher" => Plain(PutPiece(F, p))
           /\ \A x, y : Boxed(F, x, y) /\ (Apart(p, x, y) \/ Inside(p, x, y))
                          => Boxed(PutPiece(F, p), x, y)
  <1>1. p.at + p.len \in Nat /\ p.at <= p.at + p.len /\ Inside(p, p.at, p.at + p.len)
    BY DEF Inside
  <1> QED  BY <1>1, PutWrote DEF PutPiece

LEMMA WriteWrote ==
    ASSUME NEW F, Whole(F), NEW f, NEW at \in Nat, NEW len \in Nat
    PROVE  /\ Wrote(F, Write(F, f, at, len), at, at + len)
           /\ Piece(f, at, len) \in Write(F, f, at, len).ext
           /\ at + len <= Write(F, f, at, len).size
           /\ Plain(F) /\ f # "cipher" => Plain(Write(F, f, at, len))
           /\ \A x, y : Boxed(F, x, y) /\ (at + len <= x \/ y <= at \/ (x <= at /\ at + len <= y))
                          => Boxed(Write(F, f, at, len), x, y)
  <1> DEFINE p == Piece(f, at, len)
  <1>1. p.f = f /\ p.at = at /\ p.len = len  BY DEF Piece
  <1>2. Write(F, f, at, len) = PutPiece(F, p)  BY DEF Write
  <1> HIDE DEF p
  <1>3. \A x, y : (Apart(p, x, y) \/ Inside(p, x, y))
                    <=> (at + len <= x \/ y <= at \/ (x <= at /\ at + len <= y))
    BY <1>1 DEF Apart, Inside
  <1>4. /\ Wrote(F, PutPiece(F, p), p.at, p.at + p.len)
        /\ p \in PutPiece(F, p).ext
        /\ p.at + p.len <= PutPiece(F, p).size
        /\ Plain(F) /\ p.f # "cipher" => Plain(PutPiece(F, p))
        /\ \A x, y : Boxed(F, x, y) /\ (Apart(p, x, y) \/ Inside(p, x, y))
                          => Boxed(PutPiece(F, p), x, y)
    BY <1>1, PieceWrote
  <1> QED  BY <1>1, <1>2, <1>3, <1>4 DEF p

LEMMA WriteIn ==
    ASSUME NEW F, Whole(F), NEW f, NEW at \in Nat, NEW len \in Nat
    PROVE  /\ Wrote(F, Write(F, f, at, len), at, at + len)
           /\ Piece(f, at, len) \in Write(F, f, at, len).ext
           /\ at + len <= Write(F, f, at, len).size
  BY WriteWrote

LEMMA WroteWider ==
    ASSUME NEW F, Whole(F), NEW G, NEW lo \in Nat, NEW hi \in Nat, Wrote(F, G, lo, hi),
           NEW x \in Nat, NEW y \in Nat, x <= lo, hi <= y
    PROVE  Wrote(F, G, x, y)
  BY DEF Wrote, Whole, Apart, Inside

LEMMA WroteThen ==
    ASSUME NEW F, Whole(F), NEW G, NEW K, NEW lo \in Nat, NEW hi \in Nat,
           Wrote(F, G, lo, hi), Wrote(G, K, lo, hi)
    PROVE  Wrote(F, K, lo, hi)
  BY DEF Wrote, Whole

LEMMA WroteBoth ==
    ASSUME NEW F, Whole(F), NEW G, NEW K, NEW x \in Nat, NEW y \in Nat,
           NEW lo \in Nat, NEW hi \in Nat, NEW l \in Nat, NEW h \in Nat,
           Wrote(F, G, lo, hi), Wrote(G, K, l, h),
           x <= lo, hi <= y, x <= l, h <= y
    PROVE  Wrote(F, K, x, y)
  <1>1. Whole(G)  BY DEF Wrote
  <1>2. Wrote(F, G, x, y)  BY WroteWider
  <1>3. Wrote(G, K, x, y)  BY <1>1, WroteWider
  <1> QED  BY <1>2, <1>3, WroteThen

\* What lies apart from a write stays, and nothing else comes there.
LEMMA BoxedKept ==
    ASSUME NEW F, NEW G, NEW lo \in Nat, NEW hi \in Nat, Wrote(F, G, lo, hi),
           NEW x \in Nat, NEW y \in Nat, Boxed(F, x, y),
           hi <= x \/ y <= lo \/ (x <= lo /\ hi <= y)
    PROVE  Boxed(G, x, y)
  BY DEF Wrote, Whole, Boxed, Apart, Inside

LEMMA SeenKept ==
    ASSUME NEW F, Whole(F), NEW G, NEW lo \in Nat, NEW hi \in Nat, Wrote(F, G, lo, hi),
           NEW x \in Nat, NEW y \in Nat, Boxed(F, x, y), hi <= x \/ y <= lo
    PROVE  Seen(G, x, y) = Seen(F, x, y)
  <1>1. ASSUME NEW e \in G.ext, ~Apart(e, x, y)  PROVE e \in F.ext
    BY <1>1 DEF Wrote, Whole, Apart, Inside
  <1>2. ASSUME NEW e \in F.ext, ~Apart(e, x, y)  PROVE e \in G.ext
    <2>1. Inside(e, x, y) /\ e.at \in Nat /\ e.len \in Nat  BY <1>2 DEF Boxed, Whole
    <2>2. Apart(e, lo, hi)  BY <2>1 DEF Apart, Inside
    <2> QED  BY <2>2 DEF Wrote
  <1> QED  BY <1>1, <1>2 DEF Seen

\* A hash is taken of what is read, and written behind it.
LEMMA HashWrote ==
    ASSUME NEW F, Whole(F), NEW lo \in Nat, NEW len \in Nat, lo + len <= F.size
    PROVE  /\ Wrote(F, WriteHash(F, lo, len), lo + len, lo + len + 32)
           /\ [f |-> "hash", at |-> lo + len, len |-> 32, val |-> 0, over |-> Seen(F, lo, lo + len)]
                \in WriteHash(F, lo, len).ext
           /\ Plain(F) => Plain(WriteHash(F, lo, len))
  <1> DEFINE p == [f |-> "hash", at |-> lo + len, len |-> 32, val |-> 0,
                   over |-> Seen(F, lo, lo + len)]
  <1>1. ReadLen(F, lo, len) = len  BY DEF ReadLen, Whole
  <1>2. WriteHash(F, lo, len) = PutPiece(F, p)  BY <1>1 DEF WriteHash, Piece
  <1>3. p.at = lo + len /\ p.len = 32 /\ p.f = "hash"  OBVIOUS
  <1> HIDE DEF p
  <1>4. p.at \in Nat /\ p.len \in Nat /\ p.f # "cipher"  BY <1>3
  <1>5. /\ Wrote(F, PutPiece(F, p), p.at, p.at + p.len)
        /\ p \in PutPiece(F, p).ext
        /\ Plain(F) /\ p.f # "cipher" => Plain(PutPiece(F, p))
    BY <1>4, PieceWrote
  <1> QED  BY <1>2, <1>3, <1>4, <1>5 DEF p

\* However much there is to read.
LEMMA HashTyped ==
    ASSUME NEW F, Whole(F), NEW lo \in Nat, NEW len \in Nat
    PROVE  Whole(WriteHash(F, lo, len)) /\ F.size <= WriteHash(F, lo, len).size
  <1> DEFINE at == lo + ReadLen(F, lo, len)
             p == [Piece("hash", at, 32) EXCEPT !.over = Seen(F, lo, at)]
  <1>1. at \in Nat  BY DEF ReadLen, Whole
  <1>2. WriteHash(F, lo, len) = PutPiece(F, p)  BY DEF WriteHash
  <1> HIDE DEF at
  <1>3. p.at = at /\ p.len = 32  BY DEF Piece
  <1> HIDE DEF p
  <1>4. p.at \in Nat /\ p.len \in Nat  BY <1>1, <1>3
  <1>5. Wrote(F, PutPiece(F, p), p.at, p.at + p.len)  BY <1>4, PieceWrote
  <1> QED  BY <1>2, <1>5 DEF Wrote

-----------------------------------------------------------------------------
(* The platforms write the same files *)

LEMMA Same610 ==
    /\ \A F, p : A610!PutPiece(F, p) = PutPiece(F, p)
    /\ \A F, lo, hi, P : A610!Put(F, lo, hi, P) = Put(F, lo, hi, P)
    /\ \A F, f, at, len : A610!Write(F, f, at, len) = Write(F, f, at, len)
    /\ \A f, at, len : A610!Piece(f, at, len) = Piece(f, at, len)
    /\ \A v, p : A610!Holding(v, p) = Holding(v, p)
    /\ \A P, at : A610!Copied(P, at) = Copied(P, at)
    /\ \A F, lo, len : A610!WriteHash(F, lo, len) = WriteHash(F, lo, len)
  <1>1. \A F, lo, hi, P : A610!Put(F, lo, hi, P) = Put(F, lo, hi, P)
    BY DEF Put, A610!Put, Apart, A610!Apart
  <1>2. \A f, at, len : A610!Piece(f, at, len) = Piece(f, at, len)
    BY DEF Piece, A610!Piece
  <1>3. \A F, p : A610!PutPiece(F, p) = PutPiece(F, p)
    BY <1>1 DEF PutPiece, A610!PutPiece
  <1>4. \A F, f, at, len : A610!Write(F, f, at, len) = Write(F, f, at, len)
    BY <1>2, <1>3 DEF Write, A610!Write
  <1>5. \A v, p : A610!Holding(v, p) = Holding(v, p)  BY DEF Holding, A610!Holding
  <1>6. \A P, at : A610!Copied(P, at) = Copied(P, at)  BY DEF Copied, A610!Copied
  <1>7. \A F, lo, len : A610!ReadLen(F, lo, len) = ReadLen(F, lo, len)
    BY DEF ReadLen, A610!ReadLen
  <1>8. \A F, lo, hi : A610!Seen(F, lo, hi) = Seen(F, lo, hi)
    BY DEF Seen, A610!Seen, Apart, A610!Apart
  <1>9. \A F, lo, len : A610!WriteHash(F, lo, len) = WriteHash(F, lo, len)
    BY <1>2, <1>3, <1>7, <1>8 DEF WriteHash, A610!WriteHash
  <1> QED  BY <1>1, <1>2, <1>3, <1>4, <1>5, <1>6, <1>9

LEMMA Same1111 ==
    /\ \A F, p : H1111!PutPiece(F, p) = PutPiece(F, p)
    /\ \A F, lo, hi, P : H1111!Put(F, lo, hi, P) = Put(F, lo, hi, P)
    /\ \A F, f, at, len : H1111!Write(F, f, at, len) = Write(F, f, at, len)
    /\ \A f, at, len : H1111!Piece(f, at, len) = Piece(f, at, len)
    /\ \A v, p : H1111!Holding(v, p) = Holding(v, p)
    /\ \A P, at : H1111!Copied(P, at) = Copied(P, at)
    /\ \A F, lo, len : H1111!WriteHash(F, lo, len) = WriteHash(F, lo, len)
  <1>1. \A F, lo, hi, P : H1111!Put(F, lo, hi, P) = Put(F, lo, hi, P)
    BY DEF Put, H1111!Put, Apart, H1111!Apart
  <1>2. \A f, at, len : H1111!Piece(f, at, len) = Piece(f, at, len)
    BY DEF Piece, H1111!Piece
  <1>3. \A F, p : H1111!PutPiece(F, p) = PutPiece(F, p)
    BY <1>1 DEF PutPiece, H1111!PutPiece
  <1>4. \A F, f, at, len : H1111!Write(F, f, at, len) = Write(F, f, at, len)
    BY <1>2, <1>3 DEF Write, H1111!Write
  <1>5. \A v, p : H1111!Holding(v, p) = Holding(v, p)  BY DEF Holding, H1111!Holding
  <1>6. \A P, at : H1111!Copied(P, at) = Copied(P, at)  BY DEF Copied, H1111!Copied
  <1>7. \A F, lo, len : H1111!ReadLen(F, lo, len) = ReadLen(F, lo, len)
    BY DEF ReadLen, H1111!ReadLen
  <1>8. \A F, lo, hi : H1111!Seen(F, lo, hi) = Seen(F, lo, hi)
    BY DEF Seen, H1111!Seen, Apart, H1111!Apart
  <1>9. \A F, lo, len : H1111!WriteHash(F, lo, len) = WriteHash(F, lo, len)
    BY <1>2, <1>3, <1>7, <1>8 DEF WriteHash, H1111!WriteHash
  <1> QED  BY <1>1, <1>2, <1>3, <1>4, <1>5, <1>6, <1>9

LEMMA Same1910 ==
    /\ \A F, p : H1910!PutPiece(F, p) = PutPiece(F, p)
    /\ \A F, lo, hi, P : H1910!Put(F, lo, hi, P) = Put(F, lo, hi, P)
    /\ \A F, f, at, len : H1910!Write(F, f, at, len) = Write(F, f, at, len)
    /\ \A f, at, len : H1910!Piece(f, at, len) = Piece(f, at, len)
    /\ \A v, p : H1910!Holding(v, p) = Holding(v, p)
    /\ \A P, at : H1910!Copied(P, at) = Copied(P, at)
  <1>1. \A F, lo, hi, P : H1910!Put(F, lo, hi, P) = Put(F, lo, hi, P)
    BY DEF Put, H1910!Put, Apart, H1910!Apart
  <1>2. \A f, at, len : H1910!Piece(f, at, len) = Piece(f, at, len)
    BY DEF Piece, H1910!Piece
  <1>3. \A F, p : H1910!PutPiece(F, p) = PutPiece(F, p)
    BY <1>1 DEF PutPiece, H1910!PutPiece
  <1>4. \A F, f, at, len : H1910!Write(F, f, at, len) = Write(F, f, at, len)
    BY <1>2, <1>3 DEF Write, H1910!Write
  <1>5. \A v, p : H1910!Holding(v, p) = Holding(v, p)  BY DEF Holding, H1910!Holding
  <1>6. \A P, at : H1910!Copied(P, at) = Copied(P, at)  BY DEF Copied, H1910!Copied
  <1> QED  BY <1>1, <1>2, <1>3, <1>4, <1>5, <1>6

\* What the sizes are known to be.
LEMMA ArgsTyped ==
    ASSUME NEW a \in Args
    PROVE  /\ a.cert \in Certs /\ a.tail \in Tails /\ a.partition \in Partitions
           /\ a.payload \in Payloads
           /\ a.platform \in {"hi1910", "ascend610", "as31xm1"}
           /\ a.enc \in {"no", "aes", "sm4"}
  BY Zenon DEF Args

LEMMA InputSizes ==
    /\ SigLen \in Nat /\ 0 < SigLen /\ SigLen <= \h200
    /\ TagLen \in Nat /\ TagLen <= 31
    /\ HashTreeLen \in Nat /\ 0 < HashTreeLen
    /\ BcmLen \in Nat /\ 0 < BcmLen /\ BcmLen <= \h1000
    /\ Word32 \in Nat
  <1>1. SigLen \in 1 .. \h200 /\ TagLen \in 1 .. 31 /\ HashTreeLen \in Nat \ {0}
        /\ BcmLen \in 1 .. \h1000 /\ Word32 \in Nat
    BY SizesFit, SMT
  <1> QED  BY <1>1, SMT

LEMMA Sizes ==
    ASSUME NEW a \in Args
    PROVE  /\ a.cert \in Nat /\ 0 < a.cert /\ a.cert <= \h618
           /\ a.tail \in Nat /\ a.partition \in Nat /\ a.partition >= \h100000
           /\ a.payload \in Nat /\ 0 < a.payload
           /\ a.platform \in {"hi1910", "ascend610", "as31xm1"}
           /\ a.enc \in {"no", "aes", "sm4"}
           /\ SigLen \in Nat /\ 0 < SigLen /\ SigLen <= \h200
           /\ TagLen \in Nat /\ TagLen <= 31
           /\ HashTreeLen \in Nat /\ 0 < HashTreeLen
           /\ BcmLen \in Nat /\ 0 < BcmLen /\ BcmLen <= \h1000
           /\ Word32 \in Nat
  <1> HIDE DEF Args
  <1> DEFINE c == a.cert
             t == a.tail
             p == a.partition
             q == a.payload
  <1>1. c \in Certs /\ t \in Tails /\ p \in Partitions /\ q \in Payloads  BY ArgsTyped
  <1> HIDE DEF c, t, p, q
  <1>2. c \in Nat /\ 0 < c /\ c <= \h618 /\ t \in Nat /\ p \in Nat /\ p >= \h100000
        /\ q \in Nat /\ 0 < q
    BY <1>1, SizesFit, Megabytes, SMT
  <1>3. /\ SigLen \in Nat /\ 0 < SigLen /\ SigLen <= \h200
        /\ TagLen \in Nat /\ TagLen <= 31
        /\ HashTreeLen \in Nat /\ 0 < HashTreeLen
        /\ BcmLen \in Nat /\ 0 < BcmLen /\ BcmLen <= \h1000
        /\ Word32 \in Nat
    BY InputSizes, SMT
  <1> QED  BY <1>2, <1>3, ArgsTyped, SMT DEF c, t, p, q

-----------------------------------------------------------------------------
(* ascend610 and as31xm1: what lies where *)

Later(h) == IF h = 1 THEN \h1000 ELSE 0

HeadLen(a) == IF a.platform = "as31xm1" THEN \h484 ELSE \h464

CertOff(a) == IF a.platform = "as31xm1" THEN \h600 ELSE \h500

Covered(a) == IF a.platform = "as31xm1" THEN \h560 ELSE \h4BC

HeadLo(a, h, m) == Later(h) + IF a.before THEN m ELSE 0

Leads(a, h) ==
    IF a.before THEN 0
    ELSE IF a.platform = "as31xm1" THEN \h2000
    ELSE \h2000 - Later(h)

\* The command lines the properties are about, for an image of m bytes.
Fits(a, m) ==
    /\ a \in Args /\ m \in Nat /\ 0 < m
    /\ a.platform \in {"ascend610", "as31xm1"} /\ ~a.S
    /\ ~(a.D /\ a.B)
    /\ a.before => /\ ~a.addsoc /\ ~a.B /\ a.enc = "no"
                   /\ m + \h20000 + HashTreeLen <= a.partition
    /\ a.tail <= \h7F0

Headed(a, m, F, h) ==
    LET at == HeadLo(a, h, m)
    IN  /\ Holding(Leads(a, h), Piece("head", at, HeadLen(a))) \in F.ext
        /\ Holding(IF a.enc = "no" THEN 0 ELSE 1, Piece("encflag", at + HeadLen(a), 4)) \in F.ext
        /\ a.addsoc => /\ Piece("cert", at + CertOff(a), a.cert) \in F.ext
                       /\ Piece("sig", at + \hE00, SigLen) \in F.ext
        /\ a.nvcnt /\ a.platform = "ascend610" => Piece("nvcnt", at + \hB18, 8) \in F.ext

HeadBoxed(a, m, F, h) == Boxed(F, HeadLo(a, h, m), HeadLo(a, h, m) + Covered(a))

LEMMA PieceKept ==
    ASSUME NEW F, NEW G, NEW lo, NEW hi, Wrote(F, G, lo, hi),
           NEW v, NEW f, NEW at, NEW len, at + len <= lo \/ hi <= at
    PROVE  /\ Holding(v, Piece(f, at, len)) \in F.ext => Holding(v, Piece(f, at, len)) \in G.ext
           /\ Piece(f, at, len) \in F.ext => Piece(f, at, len) \in G.ext
  <1>1. Apart(Holding(v, Piece(f, at, len)), lo, hi) /\ Apart(Piece(f, at, len), lo, hi)
    BY DEF Apart, Holding, Piece
  <1> QED  BY <1>1 DEF Wrote

LEMMA Places ==
    ASSUME NEW a, NEW m, Fits(a, m), NEW h \in {0, 1}
    PROVE  /\ HeadLo(a, h, m) \in Nat /\ HeadLen(a) \in Nat /\ CertOff(a) \in Nat
           /\ Covered(a) \in Nat
           /\ HeadLen(a) >= \h464 /\ HeadLen(a) + 4 + \h30 < Covered(a) + 1000
           /\ Covered(a) + \h3C <= CertOff(a) /\ CertOff(a) + \h618 <= \hC18
           /\ a.cert \in Nat /\ a.cert <= \h618 /\ SigLen \in Nat /\ SigLen <= \h200
  <1>1. a \in Args /\ m \in Nat  BY DEF Fits
  <1>2. a.cert \in Nat /\ a.cert <= \h618 /\ SigLen \in Nat /\ SigLen <= \h200
    BY <1>1, Sizes
  <1> QED  BY <1>1, <1>2, SMT DEF HeadLo, Later, HeadLen, CertOff, Covered

LEMMA HeadedKept ==
    ASSUME NEW a, NEW m, Fits(a, m), NEW h \in {0, 1}, NEW F, NEW G,
           NEW lo \in Nat, NEW hi \in Nat, Wrote(F, G, lo, hi), Headed(a, m, F, h),
           \/ hi <= HeadLo(a, h, m) \/ HeadLo(a, h, m) + \h1000 <= lo
           \/ /\ HeadLo(a, h, m) + HeadLen(a) + 4 <= lo
              /\ hi <= HeadLo(a, h, m) + CertOff(a)
    PROVE  Headed(a, m, G, h)
  <1> DEFINE at == HeadLo(a, h, m)
             l == HeadLen(a)
             c == CertOff(a)
             s == a.cert
  <1>1. at \in Nat /\ l \in Nat /\ c \in Nat /\ s \in Nat /\ s <= \h618 /\ c + \h618 <= \hC18
        /\ SigLen \in Nat /\ SigLen <= \h200 /\ l + 4 <= c
    BY Places, Sizes, SMT DEF Fits, HeadLen, CertOff
  <1>2. hi <= at \/ at + \h1000 <= lo \/ (at + l + 4 <= lo /\ hi <= at + c)
    OBVIOUS
  <1>3. c + s <= \hE00 /\ c <= \hB18
    BY <1>1, SMT DEF CertOff
  <1> HIDE DEF at, l, c, s
  <1>4. /\ at + l <= lo \/ hi <= at
        /\ (at + l) + 4 <= lo \/ hi <= at + l
        /\ (at + c) + s <= lo \/ hi <= at + c
        /\ (at + \hE00) + SigLen <= lo \/ hi <= at + \hE00
        /\ (at + \hB18) + 8 <= lo \/ hi <= at + \hB18
    BY <1>1, <1>2, <1>3, SMT
  <1>5. /\ Holding(Leads(a, h), Piece("head", at, l)) \in G.ext
        /\ Holding(IF a.enc = "no" THEN 0 ELSE 1, Piece("encflag", at + l, 4)) \in G.ext
        /\ a.addsoc => Piece("cert", at + c, s) \in G.ext
        /\ a.addsoc => Piece("sig", at + \hE00, SigLen) \in G.ext
        /\ a.nvcnt /\ a.platform = "ascend610" => Piece("nvcnt", at + \hB18, 8) \in G.ext
    BY <1>4, PieceKept, SMT DEF Headed, at, l, c, s
  <1> QED  BY <1>5 DEF Headed, at, l, c, s

\* A write that may be left out.
LEMMA MaybeWrote ==
    ASSUME NEW F, Whole(F), NEW f, NEW at \in Nat, NEW len \in Nat, NEW G,
           G \in {F, Write(F, f, at, len)}, f # "cipher"
    PROVE  /\ Wrote(F, G, at, at + len)
           /\ G = Write(F, f, at, len) => Piece(f, at, len) \in G.ext
           /\ Plain(F) => Plain(G)
  <1>1. Wrote(F, F, at, at + len)  BY DEF Wrote, Whole
  <1> QED  BY <1>1, WriteWrote

LEMMA HeaderPieces610 ==
    ASSUME NEW a, NEW m, Fits(a, m), a.platform = "ascend610", NEW h \in {0, 1}
    PROVE  /\ A610!HeaderAt(a, h, m) = HeadLo(a, h, m)
           /\ Holding(Leads(a, h), Piece("head", HeadLo(a, h, m), HeadLen(a)))
                \in A610!Header(a, h, m)
           /\ Holding(IF a.enc = "no" THEN 0 ELSE 1,
                      Piece("encflag", HeadLo(a, h, m) + HeadLen(a), 4)) \in A610!Header(a, h, m)
           /\ \A e \in A610!Header(a, h, m) :
                /\ e.at \in Nat /\ e.len \in Nat /\ e.f # "cipher"
                /\ Inside(e, HeadLo(a, h, m), HeadLo(a, h, m) + Covered(a))
  <1>1. A610!HeaderAt(a, h, m) = HeadLo(a, h, m)
    BY SMT DEF A610!HeaderAt, A610!At, A610!Base, HeadLo, Later, Fits
  <1>2. A610!WriteCodeOffset(a, h) = Leads(a, h)
    BY SMT DEF A610!WriteCodeOffset, A610!Base, Leads, Later, Fits
  <1>3. HeadLen(a) = \h464 /\ Covered(a) = \h4BC  BY SMT DEF HeadLen, Covered
  <1> DEFINE at == HeadLo(a, h, m)
             v == Leads(a, h)
             w == IF a.enc = "no" THEN 0 ELSE 1
  <1>4. A610!Header(a, h, m) =
          {Holding(v, Piece("head", at, \h464)), Holding(w, Piece("encflag", at + \h464, 4)),
           Piece("encalgo", at + \h468, 4), Piece("zeroes", at + \h46C, \h30),
           Piece("headend", at + \h49C, \h20)}
    BY <1>1, <1>2, Same610 DEF A610!Header
  <1>5. at \in Nat  BY Places
  <1> HIDE DEF at, v, w
  <1>6. \A e \in A610!Header(a, h, m) :
          /\ e.at \in Nat /\ e.len \in Nat /\ e.f # "cipher" /\ Inside(e, at, at + \h4BC)
    BY <1>4, <1>5, SMT DEF Holding, Piece, Inside
  <1> QED  BY <1>1, <1>3, <1>4, <1>6, SMT DEF at, v, w

\* A header is written with what belongs to it.
HeadWritten(a, m, F, G, h) ==
    /\ Wrote(F, G, HeadLo(a, h, m), HeadLo(a, h, m) + \h1000)
    /\ Headed(a, m, G, h)
    /\ Plain(F) => Plain(G)
    /\ \A k \in {0, 1} : HeadBoxed(a, m, F, k) => HeadBoxed(a, m, G, k)

LEMMA Header610 ==
    ASSUME NEW a, NEW m, Fits(a, m), a.platform = "ascend610", NEW h \in {0, 1},
           NEW F, Whole(F)
    PROVE  HeadWritten(a, m, F, A610!WriteSingleHeader(F, a, h, m), h)
  <1> DEFINE at == HeadLo(a, h, m)
             P == A610!Header(a, h, m)
             F1 == IF a.addsoc THEN Write(F, "cert", at + \h500, a.cert) ELSE F
             F2 == IF a.addsoc THEN Write(F1, "sig", at + \hE00, SigLen) ELSE F1
             F3 == Put(F2, at, at + \h4BC, P)
             G == IF a.nvcnt THEN Write(F3, "nvcnt", at + \hB18, 8) ELSE F3
  <1>1. at \in Nat /\ a.cert \in Nat /\ a.cert <= \h618 /\ SigLen \in Nat /\ SigLen <= \h200
        /\ a.addsoc \in BOOLEAN /\ a.nvcnt \in BOOLEAN
    <2>1. a \in Args  BY DEF Fits
    <2>2. a.addsoc \in BOOLEAN /\ a.nvcnt \in BOOLEAN  BY <2>1, Zenon DEF Args
    <2> QED  BY <2>1, <2>2, Sizes, Places, SMT
  <1>2. A610!WriteSingleHeader(F, a, h, m) = G
    <2>1. A610!HeaderAt(a, h, m) = at  BY HeaderPieces610
    <2>2. A610!Cover = \h4BC  BY DEF A610!Cover
    <2>3. a.addsoc => A610!At(a, A610!Base(h) + \h500) = at + \h500
                      /\ A610!At(a, A610!Base(h) + \hE00) = at + \hE00
      BY SMT DEF A610!At, A610!Base, HeadLo, Later, Fits
    <2>4. a.addsoc => A610!WriteSignature(A610!WriteCert(F, a, h), a, h) = F2
      BY <2>3, Same610 DEF A610!WriteCert, A610!WriteSignature
    <2>5. ~a.addsoc => F2 = F  OBVIOUS
    <2>6. A610!WriteSingleHeader(F, a, h, m) = A610!WriteHeader(F2, a, h, m)
      BY <2>4, <2>5 DEF A610!WriteSingleHeader
    <2> HIDE DEF F2
    <2>7. A610!WriteHeader(F2, a, h, m) = G
      BY <2>1, <2>2, Same610 DEF A610!WriteHeader
    <2> QED  BY <2>6, <2>7
  <1>3. /\ HeadLen(a) = \h464 /\ CertOff(a) = \h500 /\ Covered(a) = \h4BC
    BY SMT DEF HeadLen, CertOff, Covered
  <1>4. /\ Holding(Leads(a, h), Piece("head", at, HeadLen(a))) \in P
        /\ Holding(IF a.enc = "no" THEN 0 ELSE 1, Piece("encflag", at + HeadLen(a), 4)) \in P
        /\ \A e \in P : e.at \in Nat /\ e.len \in Nat /\ e.f # "cipher"
                        /\ Inside(e, at, at + \h4BC)
    BY <1>3, HeaderPieces610
  <1> HIDE DEF at, P
  <1>5. /\ Wrote(F, F1, at + \h500, (at + \h500) + a.cert)
        /\ a.addsoc => Piece("cert", at + \h500, a.cert) \in F1.ext
        /\ Plain(F) => Plain(F1)
    <2> DEFINE x == at + \h500
    <2>1. x \in Nat  BY <1>1, SMT
    <2>2. /\ F1 \in {F, Write(F, "cert", x, a.cert)}
          /\ a.addsoc => F1 = Write(F, "cert", x, a.cert)
      OBVIOUS
    <2> HIDE DEF x, F1
    <2>3. /\ Wrote(F, F1, x, x + a.cert)
          /\ a.addsoc => Piece("cert", x, a.cert) \in F1.ext
          /\ Plain(F) => Plain(F1)
      <3>1. "cert" # "cipher" /\ "sig" # "cipher" /\ "nvcnt" # "cipher"  OBVIOUS
      <3>2. a.cert \in Nat /\ SigLen \in Nat  BY <1>1
      <3> QED  BY <2>1, <2>2, <3>1, <3>2, MaybeWrote, Zenon
    <2> QED  BY <2>3 DEF x
  <1> HIDE DEF F1
  <1>6. /\ Wrote(F1, F2, at + \hE00, (at + \hE00) + SigLen)
        /\ a.addsoc => Piece("sig", at + \hE00, SigLen) \in F2.ext
        /\ Plain(F1) => Plain(F2)
    <2> DEFINE x == at + \hE00
    <2>1. x \in Nat /\ Whole(F1)  BY <1>1, <1>5, SMT DEF Wrote
    <2>2. /\ F2 \in {F1, Write(F1, "sig", x, SigLen)}
          /\ a.addsoc => F2 = Write(F1, "sig", x, SigLen)
      OBVIOUS
    <2> HIDE DEF x, F2
    <2>3. /\ Wrote(F1, F2, x, x + SigLen)
          /\ a.addsoc => Piece("sig", x, SigLen) \in F2.ext
          /\ Plain(F1) => Plain(F2)
      <3>1. "cert" # "cipher" /\ "sig" # "cipher" /\ "nvcnt" # "cipher"  OBVIOUS
      <3>2. a.cert \in Nat /\ SigLen \in Nat  BY <1>1
      <3> QED  BY <2>1, <2>2, <3>1, <3>2, MaybeWrote, Zenon
    <2> QED  BY <2>3 DEF x
  <1> HIDE DEF F2
  <1>7. /\ Wrote(F2, F3, at, at + \h4BC) /\ P \subseteq F3.ext
        /\ Plain(F2) => Plain(F3)
    <2>1. at + \h4BC \in Nat /\ at <= at + \h4BC /\ Whole(F2)  BY <1>1, <1>6, SMT DEF Wrote
    <2> QED  BY <1>1, <1>4, <2>1, PutWrote
  <1> HIDE DEF F3
  <1>8. /\ Wrote(F3, G, at + \hB18, (at + \hB18) + 8)
        /\ a.nvcnt => Piece("nvcnt", at + \hB18, 8) \in G.ext
        /\ Plain(F3) => Plain(G)
    <2> DEFINE x == at + \hB18
    <2>1. x \in Nat /\ Whole(F3) /\ 8 \in Nat  BY <1>1, <1>7, SMT DEF Wrote
    <2>2. /\ G \in {F3, Write(F3, "nvcnt", x, 8)}
          /\ a.nvcnt => G = Write(F3, "nvcnt", x, 8)
      OBVIOUS
    <2> HIDE DEF x, G
    <2>3. /\ Wrote(F3, G, x, x + 8)
          /\ a.nvcnt => Piece("nvcnt", x, 8) \in G.ext
          /\ Plain(F3) => Plain(G)
      <3>1. "cert" # "cipher" /\ "sig" # "cipher" /\ "nvcnt" # "cipher"  OBVIOUS
      <3>2. a.cert \in Nat /\ SigLen \in Nat  BY <1>1
      <3> QED  BY <2>1, <2>2, <3>1, <3>2, MaybeWrote, Zenon
    <2> QED  BY <2>3 DEF x
  <1> HIDE DEF G
  <1>9. Wrote(F, G, at, at + \h1000)
    <2>1. /\ at + \h500 \in Nat /\ (at + \h500) + a.cert \in Nat /\ (at + \h500) + a.cert <= at + \h1000
          /\ at + \hE00 \in Nat /\ (at + \hE00) + SigLen \in Nat /\ (at + \hE00) + SigLen <= at + \h1000
          /\ at + \h4BC \in Nat /\ at + \hB18 \in Nat /\ (at + \hB18) + 8 \in Nat
          /\ at + \h1000 \in Nat /\ at <= at + \h500 /\ at <= at + \hE00 /\ at <= at + \hB18
          /\ at + \h4BC <= at + \h1000 /\ (at + \hB18) + 8 <= at + \h1000 /\ at <= at
      BY <1>1, SMT
    <2>2. Whole(F1) /\ Whole(F2) /\ Whole(F3)  BY <1>5, <1>6, <1>7 DEF Wrote
    <2>3. Wrote(F, F1, at, at + \h1000)  BY <1>1, <1>5, <2>1, <2>2, WroteWider
    <2>4. Wrote(F1, F2, at, at + \h1000)  BY <1>1, <1>6, <2>1, <2>2, WroteWider
    <2>5. Wrote(F2, F3, at, at + \h1000)  BY <1>1, <1>7, <2>1, <2>2, WroteWider
    <2>6. Wrote(F3, G, at, at + \h1000)  BY <1>1, <1>8, <2>1, <2>2, WroteWider
    <2> QED  BY <1>1, <2>1, <2>2, <2>3, <2>4, <2>5, <2>6, WroteThen
  <1>10. Headed(a, m, G, h)
    <2> DEFINE w == IF a.enc = "no" THEN 0 ELSE 1
    <2>1. /\ (at + \h500) + a.cert <= at + \hE00 /\ at + \h4BC <= at + \h500
          /\ at + \h4BC <= at + \hE00 /\ (at + \h500) + a.cert <= at + \hB18
          /\ (at + \hB18) + 8 <= at + \hE00 /\ at + \h464 <= at + \hB18
          /\ (at + \h464) + 4 <= at + \hB18
      BY <1>1, SMT
    <2>2. a.addsoc => Piece("cert", at + \h500, a.cert) \in G.ext
      BY <1>5, <1>6, <1>7, <1>8, <2>1, PieceKept
    <2>3. a.addsoc => Piece("sig", at + \hE00, SigLen) \in G.ext
      BY <1>6, <1>7, <1>8, <2>1, PieceKept
    <2>4. Holding(Leads(a, h), Piece("head", at, \h464)) \in G.ext
      BY <1>3, <1>4, <1>7, <1>8, <2>1, PieceKept
    <2>5. Holding(w, Piece("encflag", at + \h464, 4)) \in G.ext
      <3>1. Holding(w, Piece("encflag", at + \h464, 4)) \in F3.ext  BY <1>3, <1>4, <1>7
      <3> HIDE DEF w
      <3> QED  BY <1>8, <2>1, <3>1, PieceKept
    <2> QED  BY <1>3, <1>8, <2>2, <2>3, <2>4, <2>5 DEF Headed, at
  <1>11. ASSUME NEW k \in {0, 1}, HeadBoxed(a, m, F, k)  PROVE HeadBoxed(a, m, G, k)
    <2> DEFINE x == HeadLo(a, k, m)
               y == HeadLo(a, k, m) + Covered(a)
    <2>1. x \in Nat /\ y \in Nat /\ y = x + \h4BC /\ (x = at \/ x = at + \h1000 \/ at = x + \h1000)
      BY <1>3, Places, SMT DEF HeadLo, Later, at, Fits
    <2>2. Boxed(F, x, y)  BY <1>11 DEF HeadBoxed
    <2> HIDE DEF x, y
    <2>3. /\ at + \h500 \in Nat /\ (at + \h500) + a.cert \in Nat
          /\ at + \hE00 \in Nat /\ (at + \hE00) + SigLen \in Nat
          /\ at + \h4BC \in Nat /\ at + \hB18 \in Nat /\ (at + \hB18) + 8 \in Nat
      BY <1>1, SMT
    <2>4. /\ (at + \h500) + a.cert <= x \/ y <= at + \h500
          /\ (at + \hE00) + SigLen <= x \/ y <= at + \hE00
          /\ at + \h4BC <= x \/ y <= at \/ (x <= at /\ at + \h4BC <= y)
          /\ (at + \hB18) + 8 <= x \/ y <= at + \hB18
      BY <1>1, <2>1, SMT
    <2>5. Boxed(F1, x, y)  BY <1>1, <1>5, <2>1, <2>2, <2>3, <2>4, BoxedKept
    <2>6. Boxed(F2, x, y)  BY <1>1, <1>6, <2>1, <2>3, <2>4, <2>5, BoxedKept
    <2>7. Boxed(F3, x, y)  BY <1>1, <1>7, <2>1, <2>3, <2>4, <2>6, BoxedKept
    <2>8. Boxed(G, x, y)  BY <1>1, <1>8, <2>1, <2>3, <2>4, <2>7, BoxedKept
    <2> QED  BY <2>8 DEF HeadBoxed, x, y
  <1> QED  BY <1>2, <1>5, <1>6, <1>7, <1>8, <1>9, <1>10, <1>11 DEF HeadWritten, at

LEMMA HeaderPieces1111 ==
    ASSUME NEW a, NEW m, Fits(a, m), a.platform = "as31xm1", NEW h \in {0, 1}
    PROVE  /\ H1111!HeaderAt(a, h, m) = HeadLo(a, h, m)
           /\ Holding(Leads(a, h), Piece("head", HeadLo(a, h, m), HeadLen(a)))
                \in H1111!Header(a, h, m)
           /\ Holding(IF a.enc = "no" THEN 0 ELSE 1,
                      Piece("encflag", HeadLo(a, h, m) + HeadLen(a), 4)) \in H1111!Header(a, h, m)
           /\ \A e \in H1111!Header(a, h, m) :
                /\ e.at \in Nat /\ e.len \in Nat /\ e.f # "cipher"
                /\ Inside(e, HeadLo(a, h, m), HeadLo(a, h, m) + \h600)
                /\ \/ Inside(e, HeadLo(a, h, m), HeadLo(a, h, m) + Covered(a))
                   \/ Apart(e, HeadLo(a, h, m), HeadLo(a, h, m) + Covered(a))
  <1>1. H1111!HeaderAt(a, h, m) = HeadLo(a, h, m)
    BY SMT DEF H1111!HeaderAt, H1111!At, H1111!Base, HeadLo, Later, Fits
  <1>2. Leads(a, h) = IF a.before THEN 0 ELSE \h2000
    BY SMT DEF Leads
  <1>3. HeadLen(a) = \h484 /\ Covered(a) = \h560  BY SMT DEF HeadLen, Covered
  <1> DEFINE at == HeadLo(a, h, m)
             v == Leads(a, h)
             w == IF a.enc = "no" THEN 0 ELSE 1
  <1>4. H1111!Header(a, h, m) =
          {Holding(v, Piece("head", at, \h484)), Holding(w, Piece("encflag", at + \h484, 4)),
           Piece("zeroes", at + \h488, \h58), Piece("reserved", at + \h4E0, \h58),
           Piece("headend", at + \h538, \h28), Piece("zerohash", at + \h560, \h20),
           Piece("cmsflag", at + \h580, \h10), Piece("nonvcnt", at + \h590, 8),
           Piece("tag", at + \h598, \h68)}
    BY <1>1, <1>2, Same1111 DEF H1111!Header
  <1>5. at \in Nat  BY Places
  <1> HIDE DEF at, v, w
  <1>6. \A e \in H1111!Header(a, h, m) :
          /\ e.at \in Nat /\ e.len \in Nat /\ e.f # "cipher" /\ Inside(e, at, at + \h600)
          /\ Inside(e, at, at + \h560) \/ Apart(e, at, at + \h560)
    BY <1>4, <1>5, SMT DEF Holding, Piece, Inside, Apart
  <1> QED  BY <1>1, <1>3, <1>4, <1>6, SMT DEF at, v, w

LEMMA Header1111 ==
    ASSUME NEW a, NEW m, Fits(a, m), a.platform = "as31xm1", NEW h \in {0, 1},
           NEW F, Whole(F)
    PROVE  HeadWritten(a, m, F, H1111!WriteSingleHeader(F, a, h, m), h)
  <1> DEFINE at == HeadLo(a, h, m)
             P == H1111!Header(a, h, m)
             C == {Piece("cert", at + \h600, a.cert), Piece("certpad", (at + \h600) + a.cert, \h1E8)}
             F1 == IF a.addsoc THEN Put(F, at + \h600, (at + \h600) + a.cert + \h1E8, C) ELSE F
             F2 == IF a.addsoc THEN Write(F1, "sig", at + \hE00, SigLen) ELSE F1
             F3 == IF a.addsoc THEN Write(F2, "signlen", at + \h488, 4) ELSE F2
             G == Put(F3, at, at + \h600, P)
  <1>1. at \in Nat /\ a.cert \in Nat /\ a.cert <= \h618 /\ SigLen \in Nat /\ SigLen <= \h200
        /\ a.addsoc \in BOOLEAN
    <2>1. a \in Args  BY DEF Fits
    <2>2. a.addsoc \in BOOLEAN  BY <2>1, Zenon DEF Args
    <2> QED  BY <2>1, <2>2, Sizes, Places, SMT
  <1>2. H1111!WriteSingleHeader(F, a, h, m) = G
    <2>1. H1111!HeaderAt(a, h, m) = at  BY HeaderPieces1111
    <2>3. a.addsoc => /\ H1111!At(a, H1111!Base(h) + \h600) = at + \h600
                      /\ H1111!At(a, H1111!Base(h) + \hE00) = at + \hE00
                      /\ H1111!Base(h) + \h488 = at + \h488
      BY SMT DEF H1111!At, H1111!Base, HeadLo, Later, Fits
    <2>4. a.addsoc => H1111!WriteSignature(H1111!WriteCert(F, a, h), a, h) = F3
      BY <2>3, Same1111 DEF H1111!WriteCert, H1111!WriteSignature
    <2>5. ~a.addsoc => F3 = F  OBVIOUS
    <2>6. H1111!WriteSingleHeader(F, a, h, m) = H1111!WriteHeader(F3, a, h, m)
      BY <2>4, <2>5 DEF H1111!WriteSingleHeader
    <2> HIDE DEF F3
    <2>7. H1111!WriteHeader(F3, a, h, m) = G
      BY <2>1, Same1111 DEF H1111!WriteHeader
    <2> QED  BY <2>6, <2>7
  <1>3. /\ HeadLen(a) = \h484 /\ CertOff(a) = \h600 /\ Covered(a) = \h560
    BY SMT DEF HeadLen, CertOff, Covered
  <1>4. /\ Holding(Leads(a, h), Piece("head", at, HeadLen(a))) \in P
        /\ Holding(IF a.enc = "no" THEN 0 ELSE 1, Piece("encflag", at + HeadLen(a), 4)) \in P
        /\ \A e \in P : /\ e.at \in Nat /\ e.len \in Nat /\ e.f # "cipher"
                        /\ Inside(e, at, at + \h600)
                        /\ Inside(e, at, at + \h560) \/ Apart(e, at, at + \h560)
    BY <1>3, HeaderPieces1111
  <1> HIDE DEF at, P
  <1>5. /\ Wrote(F, F1, at + \h600, (at + \h600) + a.cert + \h1E8)
        /\ a.addsoc => Piece("cert", at + \h600, a.cert) \in F1.ext
        /\ Plain(F) => Plain(F1)
    <2> DEFINE x == at + \h600
               y == (at + \h600) + a.cert + \h1E8
    <2>1. x \in Nat /\ y \in Nat /\ x <= y  BY <1>1, SMT
    <2>2. \A e \in C : e.at \in Nat /\ e.len \in Nat /\ e.f # "cipher" /\ Inside(e, x, y)
      BY <1>1, SMT DEF Piece, Inside
    <2>3. Piece("cert", x, a.cert) \in C  OBVIOUS
    <2>4. /\ F1 \in {F, Put(F, x, y, C)}
          /\ a.addsoc => F1 = Put(F, x, y, C)
      OBVIOUS
    <2>5. Wrote(F, F, x, y)  BY DEF Wrote, Whole
    <2> HIDE DEF x, y, C, F1
    <2>6. /\ Wrote(F, Put(F, x, y, C), x, y) /\ C \subseteq Put(F, x, y, C).ext
          /\ Plain(F) => Plain(Put(F, x, y, C))
      BY <2>1, <2>2, PutWrote
    <2>7. /\ Wrote(F, F1, x, y)
          /\ a.addsoc => Piece("cert", x, a.cert) \in F1.ext
          /\ Plain(F) => Plain(F1)
      BY <2>3, <2>4, <2>5, <2>6, Zenon
    <2> QED  BY <2>7 DEF x, y
  <1> HIDE DEF F1
  <1>6. /\ Wrote(F1, F2, at + \hE00, (at + \hE00) + SigLen)
        /\ a.addsoc => Piece("sig", at + \hE00, SigLen) \in F2.ext
        /\ Plain(F1) => Plain(F2)
    <2> DEFINE x == at + \hE00
    <2>1. x \in Nat /\ Whole(F1)  BY <1>1, <1>5, SMT DEF Wrote
    <2>2. /\ F2 \in {F1, Write(F1, "sig", x, SigLen)}
          /\ a.addsoc => F2 = Write(F1, "sig", x, SigLen)
      OBVIOUS
    <2> HIDE DEF x, F2
    <2>3. /\ Wrote(F1, F2, x, x + SigLen)
          /\ a.addsoc => Piece("sig", x, SigLen) \in F2.ext
          /\ Plain(F1) => Plain(F2)
      <3>1. "sig" # "cipher" /\ SigLen \in Nat  BY <1>1
      <3> QED  BY <2>1, <2>2, <3>1, MaybeWrote, Zenon
    <2> QED  BY <2>3 DEF x
  <1> HIDE DEF F2
  <1>7. /\ Wrote(F2, F3, at + \h488, (at + \h488) + 4)
        /\ Plain(F2) => Plain(F3)
    <2> DEFINE x == at + \h488
    <2>1. x \in Nat /\ Whole(F2) /\ 4 \in Nat  BY <1>1, <1>6, SMT DEF Wrote
    <2>2. F3 \in {F2, Write(F2, "signlen", x, 4)}  OBVIOUS
    <2> HIDE DEF x, F3
    <2>3. /\ Wrote(F2, F3, x, x + 4)
          /\ Plain(F2) => Plain(F3)
      <3>1. "signlen" # "cipher"  OBVIOUS
      <3> QED  BY <2>1, <2>2, <3>1, MaybeWrote, Zenon
    <2> QED  BY <2>3 DEF x
  <1> HIDE DEF F3
  <1>8. /\ Wrote(F3, G, at, at + \h600) /\ P \subseteq G.ext
        /\ Plain(F3) => Plain(G)
        /\ \A x, y : Boxed(F3, x, y) /\ (\A e \in P : Apart(e, x, y) \/ Inside(e, x, y))
                          => Boxed(G, x, y)
    <2>1. at + \h600 \in Nat /\ at <= at + \h600 /\ Whole(F3)  BY <1>1, <1>7, SMT DEF Wrote
    <2> QED  BY <1>1, <1>4, <2>1, PutWrote
  <1> HIDE DEF G
  <1>9. Wrote(F, G, at, at + \h1000)
    <2>1. /\ at + \h600 \in Nat /\ (at + \h600) + a.cert + \h1E8 \in Nat
          /\ (at + \h600) + a.cert + \h1E8 <= at + \h1000
          /\ at + \hE00 \in Nat /\ (at + \hE00) + SigLen \in Nat /\ (at + \hE00) + SigLen <= at + \h1000
          /\ at + \h488 \in Nat /\ (at + \h488) + 4 \in Nat
          /\ at + \h1000 \in Nat /\ at <= at + \h600 /\ at <= at + \hE00 /\ at <= at + \h488
          /\ at + \h600 <= at + \h1000 /\ (at + \h488) + 4 <= at + \h1000 /\ at <= at
      BY <1>1, SMT
    <2>2. Whole(F1) /\ Whole(F2) /\ Whole(F3)  BY <1>5, <1>6, <1>7 DEF Wrote
    <2>3. Wrote(F, F1, at, at + \h1000)  BY <1>1, <1>5, <2>1, <2>2, WroteWider
    <2>4. Wrote(F1, F2, at, at + \h1000)  BY <1>1, <1>6, <2>1, <2>2, WroteWider
    <2>5. Wrote(F2, F3, at, at + \h1000)  BY <1>1, <1>7, <2>1, <2>2, WroteWider
    <2>6. Wrote(F3, G, at, at + \h1000)  BY <1>1, <1>8, <2>1, <2>2, WroteWider
    <2> QED  BY <1>1, <2>1, <2>2, <2>3, <2>4, <2>5, <2>6, WroteThen
  <1>10. Headed(a, m, G, h)
    <2> DEFINE w == IF a.enc = "no" THEN 0 ELSE 1
    <2>1. /\ (at + \h600) + a.cert <= at + \hE00 /\ at + \h600 <= at + \hE00
          /\ (at + \h488) + 4 <= at + \h600 /\ (at + \h488) + 4 <= at + \hE00
      BY <1>1, SMT
    <2>2. a.addsoc => Piece("cert", at + \h600, a.cert) \in G.ext
      <3>1. a.addsoc => Piece("cert", at + \h600, a.cert) \in F2.ext
        BY <1>5, <1>6, <2>1, PieceKept
      <3>2. a.addsoc => Piece("cert", at + \h600, a.cert) \in F3.ext
        BY <1>7, <2>1, <3>1, PieceKept
      <3>3. Wrote(F3, G, at, at + \h600) /\ at + \h600 <= at + \h600  BY <1>1, <1>8
      <3> QED  BY <2>1, <3>2, <3>3, PieceKept
    <2>3. a.addsoc => Piece("sig", at + \hE00, SigLen) \in G.ext
      BY <1>6, <1>7, <1>8, <2>1, PieceKept
    <2>4. /\ Holding(Leads(a, h), Piece("head", at, HeadLen(a))) \in G.ext
          /\ Holding(w, Piece("encflag", at + HeadLen(a), 4)) \in G.ext
      BY <1>4, <1>8
    <2>5. a.platform # "ascend610"  OBVIOUS
    <2> QED  BY <1>3, <2>2, <2>3, <2>4, <2>5 DEF Headed, at
  <1>11. ASSUME NEW k \in {0, 1}, HeadBoxed(a, m, F, k)  PROVE HeadBoxed(a, m, G, k)
    <2> DEFINE x == HeadLo(a, k, m)
               y == HeadLo(a, k, m) + Covered(a)
    <2>1. x \in Nat /\ y \in Nat /\ y = x + \h560 /\ (x = at \/ x = at + \h1000 \/ at = x + \h1000)
      BY <1>3, Places, SMT DEF HeadLo, Later, at, Fits
    <2>2. Boxed(F, x, y)  BY <1>11 DEF HeadBoxed
    <2> HIDE DEF x, y
    <2>3. /\ at + \h600 \in Nat /\ (at + \h600) + a.cert + \h1E8 \in Nat
          /\ at + \hE00 \in Nat /\ (at + \hE00) + SigLen \in Nat
          /\ at + \h488 \in Nat /\ (at + \h488) + 4 \in Nat
      BY <1>1, SMT
    <2>4. /\ (at + \h600) + a.cert + \h1E8 <= x \/ y <= at + \h600
          /\ (at + \hE00) + SigLen <= x \/ y <= at + \hE00
          /\ (at + \h488) + 4 <= x \/ y <= at + \h488 \/ (x <= at + \h488 /\ (at + \h488) + 4 <= y)
      BY <1>1, <2>1, SMT
    <2>5. Boxed(F1, x, y)  BY <1>1, <1>5, <2>1, <2>2, <2>3, <2>4, BoxedKept
    <2>6. Boxed(F2, x, y)  BY <1>1, <1>6, <2>1, <2>3, <2>4, <2>5, BoxedKept
    <2>7. Boxed(F3, x, y)  BY <1>1, <1>7, <2>1, <2>3, <2>4, <2>6, BoxedKept
    <2>8. \A e \in P : Apart(e, x, y) \/ Inside(e, x, y)
      BY <1>1, <1>4, <2>1, SMT DEF Apart, Inside
    <2>9. Boxed(G, x, y)  BY <1>8, <2>7, <2>8
    <2> QED  BY <2>9 DEF HeadBoxed, x, y
  <1> QED  BY <1>2, <1>5, <1>6, <1>7, <1>8, <1>9, <1>10, <1>11 DEF HeadWritten, at

-----------------------------------------------------------------------------
(* The other pieces *)

Hs(a) == IF a.D THEN {0, 1} ELSE {0}

ImageLo(a) == IF a.before THEN 0 ELSE \h2000

ImageLen(a, m) == IF a.enc = "sm4" THEN m + 16 ELSE m

ImageIn(a, m, R, F) ==
    IF a.enc = "no" THEN Copied(R, ImageLo(a)) \subseteq F.ext
    ELSE Piece("cipher", ImageLo(a), ImageLen(a, m)) \in F.ext

\* What esbc_header.py may have put to the image.
Source(R, m) ==
    \A e \in R : /\ e \in [f : {"payload", "esbc"}, at : Nat, len : Nat, val : {0}, over : {{}}]
                 /\ e.at + e.len <= m

Salted(a, m, F, h) == Piece("salt", HeadLo(a, h, m) + \h46C, \h30) \in F.ext

Hashed(a, m, F, h) ==
    \E e \in F.ext : /\ e.f = "hash" /\ e.at = HeadLo(a, h, m) + Covered(a) /\ e.len = 32
                     /\ e.over = Seen(F, HeadLo(a, h, m), HeadLo(a, h, m) + Covered(a))

BcmIn(F) == Piece("bcm", \h1000, BcmLen) \in F.ext

TailLo(a, m) == m + \h2000 + IF a.before THEN 0 ELSE 32 - (m % 16)

IniOff(a) == IF a.platform = "as31xm1" \/ a.pss THEN \h4000 ELSE \h2000

Tailed(a, m, F) ==
    /\ Piece("cms", TailLo(a, m), 16 + a.tail) \in F.ext
    /\ Piece("ini", TailLo(a, m) + IniOff(a), 16 + a.tail) \in F.ext
    /\ Piece("crl", (TailLo(a, m) + IniOff(a)) + \h800, 16 + a.tail) \in F.ext

TreeIn(m, F) == Piece("hashtree", m + \h1FF00, HashTreeLen) \in F.ext

EndIn(a, m, F) ==
    /\ \E e \in F.ext : /\ e.f = "address" /\ e.val = m
                        /\ e.at >= a.partition - 12 /\ e.at + e.len <= a.partition
    /\ Piece("version", a.partition - 4, 4) \in F.ext
    /\ a.partition <= F.size

Magic(a, F) ==
    \E e \in F.ext : /\ e.f = "magic"
                     /\ e.val = IF a.before /\ F.size >= Word32 THEN 0 ELSE F.size

LEMMA StillThere ==
    ASSUME NEW F, NEW G, NEW lo, NEW hi, Wrote(F, G, lo, hi),
           NEW f, NEW at, NEW len, Piece(f, at, len) \in F.ext, hi <= at \/ at + len <= lo
    PROVE  Piece(f, at, len) \in G.ext
  BY PieceKept

LEMMA CopiedInside ==
    ASSUME NEW R, NEW m \in Nat, Source(R, m), NEW lo \in Nat
    PROVE  \A e \in Copied(R, lo) : /\ e.at \in Nat /\ e.len \in Nat /\ e.f # "cipher"
                                    /\ Inside(e, lo, lo + m)
  <1>1. SUFFICES ASSUME NEW e \in R
                 PROVE  LET c == [e EXCEPT !.at = lo + @]
                        IN  /\ c.at \in Nat /\ c.len \in Nat /\ c.f # "cipher"
                            /\ Inside(c, lo, lo + m)
    BY DEF Copied
  <1> DEFINE c == [e EXCEPT !.at = lo + @]
  <1>2. e \in [f : {"payload", "esbc"}, at : Nat, len : Nat, val : {0}, over : {{}}]
        /\ e.at + e.len <= m
    BY DEF Source
  <1>3. c.at = lo + e.at /\ c.len = e.len /\ c.f = e.f  BY <1>2
  <1>4. e.at \in Nat /\ e.len \in Nat /\ e.f \in {"payload", "esbc"}  BY <1>2
  <1> HIDE DEF c
  <1>5. c.at \in Nat /\ c.len \in Nat /\ c.f # "cipher" /\ Inside(c, lo, lo + m)
    BY <1>2, <1>3, <1>4 DEF Inside
  <1> QED  BY <1>5 DEF c

LEMMA ImageKept ==
    ASSUME NEW a, NEW m, Fits(a, m), NEW R, Source(R, m), NEW F, NEW G,
           NEW lo \in Nat, NEW hi \in Nat, Wrote(F, G, lo, hi), ImageIn(a, m, R, F),
           hi <= ImageLo(a) \/ ImageLo(a) + ImageLen(a, m) <= lo
    PROVE  ImageIn(a, m, R, G)
  <1> DEFINE x == ImageLo(a)
  <1>1. x \in Nat /\ m \in Nat  BY SMT DEF ImageLo, Fits
  <1>2. CASE a.enc = "no"
    <2>1. ImageLen(a, m) = m  BY <1>2 DEF ImageLen
    <2>2. Copied(R, x) \subseteq F.ext  BY <1>2 DEF ImageIn
    <2>3. \A e \in Copied(R, x) : e.at \in Nat /\ e.len \in Nat /\ Inside(e, x, x + m)
      BY <1>1, CopiedInside
    <2>4. hi <= x \/ x + m <= lo  BY <2>1
    <2> HIDE DEF x
    <2>5. \A e \in Copied(R, x) : Apart(e, lo, hi)
      BY <1>1, <2>3, <2>4, SMT DEF Apart, Inside
    <2>6. Copied(R, x) \subseteq G.ext  BY <2>2, <2>5 DEF Wrote
    <2> QED  BY <1>2, <2>6 DEF ImageIn, x
  <1>3. CASE a.enc # "no"
    <2>1. Piece("cipher", x, ImageLen(a, m)) \in F.ext  BY <1>3 DEF ImageIn
    <2>2. Piece("cipher", x, ImageLen(a, m)) \in G.ext  BY <2>1, PieceKept
    <2> QED  BY <1>3, <2>2 DEF ImageIn
  <1> QED  BY <1>2, <1>3

LEMMA SaltedKept ==
    ASSUME NEW a, NEW m, Fits(a, m), a.platform = "ascend610", NEW h \in {0, 1},
           NEW F, NEW G, NEW lo \in Nat, NEW hi \in Nat, Wrote(F, G, lo, hi),
           Salted(a, m, F, h),
           hi <= HeadLo(a, h, m) \/ HeadLo(a, h, m) + Covered(a) <= lo
    PROVE  Salted(a, m, G, h)
  <1> DEFINE x == HeadLo(a, h, m)
  <1>1. x \in Nat /\ Covered(a) = \h4BC  BY Places, SMT DEF Covered
  <1>2. hi <= x \/ x + \h4BC <= lo  BY <1>1
  <1> HIDE DEF x
  <1>3. hi <= x + \h46C \/ (x + \h46C) + \h30 <= lo  BY <1>1, <1>2, SMT
  <1> QED  BY <1>3, PieceKept DEF Salted, x

LEMMA HashedKept ==
    ASSUME NEW a, NEW m, Fits(a, m), NEW h \in {0, 1}, NEW F, Whole(F), NEW G,
           NEW lo \in Nat, NEW hi \in Nat, Wrote(F, G, lo, hi),
           HeadBoxed(a, m, F, h), Hashed(a, m, F, h),
           hi <= HeadLo(a, h, m) \/ (HeadLo(a, h, m) + Covered(a)) + 32 <= lo
    PROVE  Hashed(a, m, G, h)
  <1> DEFINE x == HeadLo(a, h, m)
             y == HeadLo(a, h, m) + Covered(a)
  <1>1. x \in Nat /\ y \in Nat /\ x <= y  BY Places, SMT
  <1>2. Boxed(F, x, y)  BY DEF HeadBoxed
  <1>3. hi <= x \/ y + 32 <= lo  OBVIOUS
  <1>4. PICK e \in F.ext : e.f = "hash" /\ e.at = y /\ e.len = 32 /\ e.over = Seen(F, x, y)
    BY DEF Hashed
  <1> HIDE DEF x, y
  <1>5. Apart(e, lo, hi)  BY <1>1, <1>3, <1>4 DEF Apart
  <1>6. e \in G.ext  BY <1>5 DEF Wrote
  <1>7. hi <= x \/ y <= lo  BY <1>1, <1>3
  <1>8. Seen(G, x, y) = Seen(F, x, y)  BY <1>1, <1>2, <1>7, SeenKept
  <1> QED  BY <1>4, <1>6, <1>8 DEF Hashed, x, y

LEMMA TailKept ==
    ASSUME NEW a, NEW m, Fits(a, m), NEW F, NEW G,
           NEW lo \in Nat, NEW hi \in Nat, Wrote(F, G, lo, hi), Tailed(a, m, F),
           hi <= TailLo(a, m) \/ TailLo(a, m) + \h5000 <= lo
    PROVE  Tailed(a, m, G)
  <1> DEFINE x == TailLo(a, m)
             i == IniOff(a)
             t == 16 + a.tail
  <1>1. x \in Nat /\ i \in Nat /\ i <= \h4000 /\ t \in Nat /\ t <= \h800
    BY Sizes, SMT DEF TailLo, IniOff, Fits
  <1>2. hi <= x \/ x + \h5000 <= lo  OBVIOUS
  <1> HIDE DEF x, i, t
  <1>3. /\ hi <= x \/ x + t <= lo
        /\ hi <= x + i \/ (x + i) + t <= lo
        /\ hi <= (x + i) + \h800 \/ ((x + i) + \h800) + t <= lo
    BY <1>1, <1>2, SMT
  <1>4. /\ Piece("cms", x, t) \in F.ext
        /\ Piece("ini", x + i, t) \in F.ext
        /\ Piece("crl", (x + i) + \h800, t) \in F.ext
    BY DEF Tailed, x, i, t
  <1>5. /\ Piece("cms", x, t) \in G.ext
        /\ Piece("ini", x + i, t) \in G.ext
        /\ Piece("crl", (x + i) + \h800, t) \in G.ext
    <2>1. Piece("cms", x, t) \in G.ext  BY <1>3, <1>4, StillThere
    <2>2. Piece("ini", x + i, t) \in G.ext  BY <1>3, <1>4, StillThere
    <2>3. Piece("crl", (x + i) + \h800, t) \in G.ext  BY <1>3, <1>4, StillThere
    <2> QED  BY <2>1, <2>2, <2>3
  <1> QED  BY <1>5 DEF Tailed, x, i, t

LEMMA EndKept ==
    ASSUME NEW a, NEW m, Fits(a, m), NEW F, Whole(F), NEW G,
           NEW lo \in Nat, NEW hi \in Nat, Wrote(F, G, lo, hi), EndIn(a, m, F),
           hi + 12 <= a.partition
    PROVE  EndIn(a, m, G)
  <1> DEFINE p == a.partition
  <1>1. p \in Nat  BY Sizes, SMT DEF Fits
  <1>2. PICK e \in F.ext : e.f = "address" /\ e.val = m /\ e.at >= p - 12 /\ e.at + e.len <= p
    BY DEF EndIn
  <1>3. Piece("version", p - 4, 4) \in F.ext /\ p <= F.size  BY DEF EndIn
  <1> HIDE DEF p
  <1>4. e.at \in Nat /\ e.len \in Nat  BY DEF Whole
  <1>5. hi <= e.at /\ hi <= p - 4  BY <1>1, <1>2, <1>4 DEF p
  <1>6. e \in G.ext  BY <1>5 DEF Wrote, Apart
  <1>7. Piece("version", p - 4, 4) \in G.ext  BY <1>3, <1>5, PieceKept
  <1>8. p <= G.size  BY <1>1, <1>3 DEF Wrote, Whole
  <1> QED  BY <1>2, <1>6, <1>7, <1>8 DEF EndIn, p

(***************************************************************************)
(* One header is hashed: the rest of it, and the other header, stay.       *)
(***************************************************************************)
HeadHashed(a, m, F, G, k) ==
    /\ Wrote(F, G, HeadLo(a, k, m) + Covered(a), (HeadLo(a, k, m) + Covered(a)) + 32)
    /\ Plain(F) => Plain(G)
    /\ HeadBoxed(a, m, F, k) => Hashed(a, m, G, k)
    /\ \A h \in {0, 1} :
         /\ Headed(a, m, F, h) => Headed(a, m, G, h)
         /\ HeadBoxed(a, m, F, h) => HeadBoxed(a, m, G, h)
         /\ a.platform = "ascend610" /\ Salted(a, m, F, h) => Salted(a, m, G, h)
         /\ h # k /\ HeadBoxed(a, m, F, h) /\ Hashed(a, m, F, h) => Hashed(a, m, G, h)

LEMMA HashHead ==
    ASSUME NEW a, NEW m, Fits(a, m), NEW k \in {0, 1}, NEW F, Whole(F),
           HeadLo(a, k, m) + Covered(a) <= F.size
    PROVE  HeadHashed(a, m, F, WriteHash(F, HeadLo(a, k, m), Covered(a)), k)
  <1> DEFINE x == HeadLo(a, k, m)
             c == Covered(a)
             y == x + c
             G == WriteHash(F, x, c)
  <1>1. /\ x \in Nat /\ c \in Nat /\ y \in Nat /\ y + 32 \in Nat /\ x <= y
        /\ HeadLen(a) \in Nat /\ CertOff(a) \in Nat /\ HeadLen(a) + 4 <= c
        /\ c + 32 <= CertOff(a) /\ CertOff(a) <= \h1000
    BY Places, SMT DEF HeadLen, Covered, CertOff
  <1>2. /\ Wrote(F, G, y, y + 32)
        /\ [f |-> "hash", at |-> y, len |-> 32, val |-> 0, over |-> Seen(F, x, y)] \in G.ext
        /\ Plain(F) => Plain(G)
    BY <1>1, HashWrote
  <1> HIDE DEF G, y, c, x
  <1>3. ASSUME HeadBoxed(a, m, F, k)  PROVE Hashed(a, m, G, k)
    <2>1. Boxed(F, x, y)  BY <1>3 DEF HeadBoxed, x, y, c
    <2>2. Seen(G, x, y) = Seen(F, x, y)  
      <3>1. y + 32 <= x \/ y <= y  BY <1>1
      <3> QED  BY <1>1, <1>2, <2>1, <3>1, SeenKept
    <2> QED  BY <1>2, <2>2 DEF Hashed, x, y, c
  <1>4. ASSUME NEW h \in {0, 1}
        PROVE  /\ Headed(a, m, F, h) => Headed(a, m, G, h)
               /\ HeadBoxed(a, m, F, h) => HeadBoxed(a, m, G, h)
               /\ a.platform = "ascend610" /\ Salted(a, m, F, h) => Salted(a, m, G, h)
               /\ h # k /\ HeadBoxed(a, m, F, h) /\ Hashed(a, m, F, h) => Hashed(a, m, G, h)
    <2> DEFINE z == HeadLo(a, h, m)
    <2>1. z \in Nat /\ z + c \in Nat /\ (h = k => z = x)
          /\ (h # k => z = x + \h1000 \/ x = z + \h1000)
      BY <1>1, Places, SMT DEF HeadLo, Later, x, Fits
    <2> HIDE DEF z
    <2>2. /\ y + 32 <= z \/ z + \h1000 <= y
             \/ (z + HeadLen(a) + 4 <= y /\ y + 32 <= z + CertOff(a))
          /\ y + 32 <= z \/ z + c <= y
          /\ h # k => y + 32 <= z \/ (z + c) + 32 <= y
      BY <1>1, <2>1, SMT DEF y
    <2>3. Headed(a, m, F, h) => Headed(a, m, G, h)
      BY <1>1, <1>2, <2>2, HeadedKept DEF z
    <2>4. HeadBoxed(a, m, F, h) => HeadBoxed(a, m, G, h)
      BY <1>1, <1>2, <2>1, <2>2, BoxedKept DEF HeadBoxed, z, c
    <2>5. a.platform = "ascend610" /\ Salted(a, m, F, h) => Salted(a, m, G, h)
      BY <1>1, <1>2, <2>2, SaltedKept DEF z, c
    <2>6. h # k /\ HeadBoxed(a, m, F, h) /\ Hashed(a, m, F, h) => Hashed(a, m, G, h)
      BY <1>1, <1>2, <2>2, HashedKept DEF z, c
    <2> QED  BY <2>3, <2>4, <2>5, <2>6
  <1> QED  BY <1>2, <1>3, <1>4 DEF HeadHashed, G, x, y, c

-----------------------------------------------------------------------------
(* The image *)

\* The image is in the file, before any hash is taken.
ImageLaid(a, m, R, F, G) ==
    /\ Whole(G) /\ ImageLo(a) + m <= G.size
    /\ ImageIn(a, m, R, G)
    /\ \A h \in {0, 1} :
         /\ HeadBoxed(a, m, F, h) => HeadBoxed(a, m, G, h)
         /\ ~a.before /\ Headed(a, m, F, h) => Headed(a, m, G, h)
    /\ a.enc # "no" => \A h \in Hs(a) : Salted(a, m, G, h)
    /\ a.B /\ BcmIn(F) => BcmIn(G)
    /\ a.enc = "no" /\ Plain(F) => Plain(G)

LEMMA BcmKept ==
    ASSUME NEW F, NEW G, NEW lo \in Nat, NEW hi \in Nat, Wrote(F, G, lo, hi), BcmIn(F),
           hi <= \h1000 \/ \h2000 <= lo
    PROVE  BcmIn(G)
  <1>1. hi <= \h1000 \/ \h1000 + BcmLen <= lo  BY InputSizes, SMT
  <1> QED  BY <1>1, StillThere DEF BcmIn

LEMMA RawLaid ==
    ASSUME NEW a, NEW m, Fits(a, m), a.enc = "no", NEW R, Source(R, m), NEW F, Whole(F)
    PROVE  ImageLaid(a, m, R, F, Put(F, ImageLo(a), ImageLo(a) + m, Copied(R, ImageLo(a))))
  <1> DEFINE x == ImageLo(a)
             y == ImageLo(a) + m
             P == Copied(R, x)
             G == Put(F, x, y, P)
  <1>1. x \in Nat /\ m \in Nat /\ y \in Nat /\ x <= y /\ y = x + m
        /\ (a.before => x = 0 /\ y = m) /\ (~a.before => x = \h2000)
    BY SMT DEF ImageLo, Fits
  <1>2. \A e \in P : e.at \in Nat /\ e.len \in Nat /\ e.f # "cipher" /\ Inside(e, x, y)
    BY <1>1, CopiedInside
  <1> HIDE DEF P, y
  <1>3. /\ Wrote(F, G, x, y) /\ P \subseteq G.ext /\ y <= G.size /\ (Plain(F) => Plain(G))
    BY <1>1, <1>2, PutWrote
  <1> HIDE DEF G, x
  <1>4. ASSUME NEW h \in {0, 1}
        PROVE  /\ HeadBoxed(a, m, F, h) => HeadBoxed(a, m, G, h)
               /\ ~a.before /\ Headed(a, m, F, h) => Headed(a, m, G, h)
    <2> DEFINE z == HeadLo(a, h, m)
               c == z + Covered(a)
    <2>1. /\ z \in Nat /\ c \in Nat /\ c <= z + \h1000
          /\ a.before => m <= z
          /\ ~a.before => z + \h1000 <= \h2000
      BY <1>1, Places, SMT DEF HeadLo, Later, Covered, Fits
    <2> HIDE DEF z, c
    <2>2. y <= z \/ c <= x  BY <1>1, <2>1, SMT
    <2>3. ~a.before => z + \h1000 <= x  BY <1>1, <2>1, SMT
    <2>4. HeadBoxed(a, m, F, h) => HeadBoxed(a, m, G, h)
      BY <1>1, <1>3, <2>1, <2>2, BoxedKept DEF HeadBoxed, z, c
    <2>5. ~a.before /\ Headed(a, m, F, h) => Headed(a, m, G, h)
      BY <1>1, <1>3, <2>3, HeadedKept DEF z
    <2> QED  BY <2>4, <2>5
  <1>5. a.B /\ BcmIn(F) => BcmIn(G)
    <2>1. a.B => ~a.before  BY DEF Fits
    <2>2. a.B => \h2000 <= x  BY <1>1, <2>1, SMT
    <2> QED  BY <1>1, <1>3, <2>2, BcmKept
  <1>6. ImageIn(a, m, R, G)  BY <1>3 DEF ImageIn, P, x
  <1>7. Whole(G) /\ x + m <= G.size  BY <1>1, <1>3 DEF Wrote
  <1> QED  BY <1>3, <1>4, <1>5, <1>6, <1>7 DEF ImageLaid, G, P, x, y

\* A salt is written into one header.
HeadSalted(a, m, F, G, k) ==
    /\ Whole(G)
    /\ Salted(a, m, G, k)
    /\ k = 0 /\ BcmIn(F) => BcmIn(G)
    /\ \A h \in {0, 1} :
         /\ Headed(a, m, F, h) => Headed(a, m, G, h)
         /\ HeadBoxed(a, m, F, h) => HeadBoxed(a, m, G, h)
         /\ h # k /\ Salted(a, m, F, h) => Salted(a, m, G, h)

LEMMA SaltHead ==
    ASSUME NEW a, NEW m, Fits(a, m), a.platform = "ascend610", ~a.before,
           NEW k \in {0, 1}, NEW F, Whole(F)
    PROVE  HeadSalted(a, m, F, A610!HeaderWriteSaltAndIv(F, k), k)
  <1> DEFINE x == HeadLo(a, k, m)
             at == x + \h46C
             s == \h30
             G == Write(F, "salt", at, s)
  <1>1. A610!HeaderWriteSaltAndIv(F, k) = G
    <2>1. A610!Base(k) = x  BY SMT DEF A610!Base, HeadLo, Later
    <2> QED  BY <2>1, Same610 DEF A610!HeaderWriteSaltAndIv
  <1>2. x \in Nat /\ at \in Nat /\ at = x + \h46C /\ at + s = x + \h49C /\ at + s \in Nat
        /\ s \in Nat /\ (x = 0 \/ x = \h1000) /\ (k = 0 => x = 0)
    BY SMT DEF HeadLo, Later
  <1>3. HeadLen(a) = \h464 /\ Covered(a) = \h4BC /\ CertOff(a) = \h500
    BY SMT DEF HeadLen, Covered, CertOff
  <1>4. at + s <= \h1000 \/ \h2000 <= at \/ k # 0  BY <1>2, SMT
  <1> HIDE DEF s, at
  <1>5. Wrote(F, G, at, at + s) /\ Piece("salt", at, s) \in G.ext
    BY <1>2, WriteIn
  <1> HIDE DEF G, x
  <1>6. ASSUME NEW h \in {0, 1}
        PROVE  /\ Headed(a, m, F, h) => Headed(a, m, G, h)
               /\ HeadBoxed(a, m, F, h) => HeadBoxed(a, m, G, h)
               /\ h # k /\ Salted(a, m, F, h) => Salted(a, m, G, h)
    <2> DEFINE z == HeadLo(a, h, m)
               c == Covered(a)
    <2>1. z \in Nat /\ (h = k => z = x) /\ (h # k => z = x + \h1000 \/ x = z + \h1000)
      BY SMT DEF HeadLo, Later, x
    <2>2. z + c \in Nat /\ z + c = z + \h4BC  BY <1>3, <2>1, SMT
    <2> HIDE DEF z, c
    <2>3. /\ at + s <= z \/ z + \h1000 <= at
             \/ (z + HeadLen(a) + 4 <= at /\ at + s <= z + CertOff(a))
          /\ at + s <= z \/ z + c <= at \/ (z <= at /\ at + s <= z + c)
          /\ h # k => at + s <= z \/ z + c <= at
      BY <1>2, <1>3, <2>1, <2>2, SMT
    <2>4. Headed(a, m, F, h) => Headed(a, m, G, h)
      BY <1>2, <1>5, <2>3, HeadedKept DEF z
    <2>5. HeadBoxed(a, m, F, h) => HeadBoxed(a, m, G, h)
      BY <1>2, <1>5, <2>1, <2>2, <2>3, BoxedKept DEF HeadBoxed, z, c
    <2>6. h # k /\ Salted(a, m, F, h) => Salted(a, m, G, h)
      BY <1>2, <1>5, <2>3, SaltedKept DEF z, c
    <2> QED  BY <2>4, <2>5, <2>6
  <1>7. k = 0 /\ BcmIn(F) => BcmIn(G)  BY <1>2, <1>4, <1>5, BcmKept
  <1>8. Salted(a, m, G, k)  BY <1>5 DEF Salted, at, s, x
  <1>9. Whole(G)  BY <1>5 DEF Wrote
  <1> QED  BY <1>1, <1>6, <1>7, <1>8, <1>9 DEF HeadSalted, G

LEMMA CipherLaid ==
    ASSUME NEW a, NEW m, Fits(a, m), a.platform = "ascend610", a.enc # "no",
           NEW R, Source(R, m), NEW r, r.size = m, r.ext = R, NEW F, Whole(F)
    PROVE  ImageLaid(a, m, R, F, A610!WriteCipher(F, a, r))
  <1> DEFINE S0 == A610!HeaderWriteSaltAndIv(F, 0)
             S1 == A610!HeaderWriteSaltAndIv(S0, 1)
             S == A610!WriteSaltAndIv(F, a)
             x == ImageLo(a)
             l == ImageLen(a, m)
             G == Write(S, "cipher", x, l)
  <1>1. ~a.before /\ ~a.S  BY DEF Fits
  <1>2. A610!WriteCipher(F, a, r) = G
    <2>1. A610!ImageAt(a) = x  BY <1>1 DEF A610!ImageAt, ImageLo
    <2>2. A610!CipherLen(a, r.size) = l  BY DEF A610!CipherLen, ImageLen
    <2> QED  BY <2>1, <2>2, Same610 DEF A610!WriteCipher
  <1>3. HeadSalted(a, m, F, S0, 0)  BY <1>1, SaltHead
  <1>4. HeadSalted(a, m, S0, S1, 1)
    <2>1. Whole(S0)  BY <1>3 DEF HeadSalted
    <2> QED  BY <1>1, <2>1, SaltHead
  <1>5. S = IF a.B THEN S0 ELSE S1  BY Zenon DEF A610!WriteSaltAndIv
  <1>6. x = \h2000 /\ x \in Nat /\ l \in Nat /\ x + l \in Nat /\ x + m <= x + l
    BY <1>1, SMT DEF ImageLo, ImageLen, Fits
  <1>7. a.B => ~a.D  BY DEF Fits
  <1> HIDE DEF S0, S1, S, x, l
  <1>8. /\ Whole(S)
        /\ \A h \in {0, 1} : /\ Headed(a, m, F, h) => Headed(a, m, S, h)
                             /\ HeadBoxed(a, m, F, h) => HeadBoxed(a, m, S, h)
        /\ \A h \in Hs(a) : Salted(a, m, S, h)
        /\ a.B /\ BcmIn(F) => BcmIn(S)
    <2>1. CASE a.B
      <3>1. S = S0 /\ Hs(a) = {0}  BY <1>5, <1>7, <2>1 DEF Hs
      <3> QED  BY <1>3, <3>1 DEF HeadSalted
    <2>2. CASE ~a.B
      <3>1. S = S1 /\ Hs(a) \subseteq {0, 1}  BY <1>5, <2>2 DEF Hs
      <3>2. /\ Whole(S1)
            /\ \A h \in {0, 1} : /\ Headed(a, m, F, h) => Headed(a, m, S1, h)
                                 /\ HeadBoxed(a, m, F, h) => HeadBoxed(a, m, S1, h)
        BY <1>3, <1>4 DEF HeadSalted
      <3>3. Salted(a, m, S1, 0) /\ Salted(a, m, S1, 1)
        BY <1>3, <1>4 DEF HeadSalted
      <3>4. \A h \in {0, 1} : Salted(a, m, S1, h)  BY <3>3
      <3> QED  BY <2>2, <3>1, <3>2, <3>4
    <2> QED  BY <2>1, <2>2
  <1>9. Wrote(S, G, x, x + l) /\ Piece("cipher", x, l) \in G.ext /\ x + l <= G.size
    <2>1. Whole(S)  BY <1>8
    <2> QED  BY <1>6, <2>1, WriteIn
  <1> HIDE DEF G
  <1>10. ASSUME NEW h \in {0, 1}
         PROVE  /\ HeadBoxed(a, m, S, h) => HeadBoxed(a, m, G, h)
                /\ Headed(a, m, S, h) => Headed(a, m, G, h)
                /\ Salted(a, m, S, h) => Salted(a, m, G, h)
    <2> DEFINE z == HeadLo(a, h, m)
               c == z + Covered(a)
    <2>1. z \in Nat /\ c \in Nat /\ c <= x /\ z + \h1000 <= x
      BY <1>1, <1>6, Places, SMT DEF HeadLo, Later, Covered, Fits
    <2> HIDE DEF z, c
    <2>2. HeadBoxed(a, m, S, h) => HeadBoxed(a, m, G, h)
      BY <1>6, <1>9, <2>1, BoxedKept DEF HeadBoxed, z, c
    <2>3. Headed(a, m, S, h) => Headed(a, m, G, h)
      BY <1>6, <1>9, <2>1, HeadedKept DEF z
    <2>4. Salted(a, m, S, h) => Salted(a, m, G, h)
      BY <1>6, <1>9, <2>1, SaltedKept DEF z, c
    <2> QED  BY <2>2, <2>3, <2>4
  <1>11. BcmIn(S) => BcmIn(G)
    <2>1. \h2000 <= x /\ x \in Nat /\ x + l \in Nat  BY <1>6
    <2>2. Wrote(S, G, x, x + l)  BY <1>9
    <2> QED  BY <2>1, <2>2, BcmKept
  <1>12. ImageIn(a, m, R, G)  BY <1>9 DEF ImageIn, x, l
  <1>13. Whole(G) /\ x + m <= G.size
    <2>1. Whole(G)  BY <1>9 DEF Wrote
    <2>2. m \in Nat /\ G.size \in Nat  BY <2>1 DEF Whole, Fits
    <2> QED  BY <1>6, <1>9, <2>1, <2>2, SMT
  <1>14. \A h \in Hs(a) : h \in {0, 1}  BY DEF Hs
  <1>15. \A h \in Hs(a) : Salted(a, m, G, h)  BY <1>8, <1>10, <1>14
  <1>16. \A h \in {0, 1} :
            /\ HeadBoxed(a, m, F, h) => HeadBoxed(a, m, G, h)
            /\ Headed(a, m, F, h) => Headed(a, m, G, h)
    BY <1>8, <1>10
  <1>17. a.B /\ BcmIn(F) => BcmIn(G)  BY <1>8, <1>11
  <1> QED  BY <1>2, <1>12, <1>13, <1>15, <1>16, <1>17 DEF ImageLaid, x

LEMMA HashLaid ==
    ASSUME NEW a, NEW m, Fits(a, m), ~a.before, a.platform = "ascend610" \/ a.enc = "no",
           NEW R, Source(R, m), NEW F, NEW F1, ImageLaid(a, m, R, F, F1),
           NEW k \in {0, 1}, k = 1 => ~a.B
    PROVE  LET G == WriteHash(F1, HeadLo(a, k, m), Covered(a))
           IN  /\ ImageLaid(a, m, R, F, G)
               /\ HeadBoxed(a, m, F, k) => Hashed(a, m, G, k)
               /\ \A h \in {0, 1} : h # k /\ HeadBoxed(a, m, F, h) /\ Hashed(a, m, F1, h)
                                       => Hashed(a, m, G, h)
  <1> DEFINE G == WriteHash(F1, HeadLo(a, k, m), Covered(a))
             lo == HeadLo(a, k, m) + Covered(a)
             x == ImageLo(a)
  <1>1. Whole(F1) /\ x + m <= F1.size  BY DEF ImageLaid
  <1>2. /\ x = \h2000 /\ lo \in Nat /\ lo + 32 \in Nat /\ lo + 32 <= x /\ m \in Nat /\ 0 < m
        /\ (k = 0 => lo + 32 <= \h1000)
    BY SMT DEF HeadLo, Later, Covered, ImageLo, Fits
  <1>3. HeadHashed(a, m, F1, G, k)
    <2>1. F1.size \in Nat  BY <1>1 DEF Whole
    <2>2. lo <= F1.size  BY <1>1, <1>2, <2>1, SMT
    <2> HIDE DEF lo
    <2>3. HeadLo(a, k, m) + Covered(a) <= F1.size  BY <2>2 DEF lo
    <2> QED  BY <1>1, <2>3, HashHead
  <1> HIDE DEF G
  <1>4. Wrote(F1, G, lo, lo + 32) /\ (Plain(F1) => Plain(G))  BY <1>3 DEF HeadHashed
  <1> HIDE DEF lo, x
  <1>5. Whole(G) /\ x + m <= G.size
    <2>1. Whole(G) /\ F1.size <= G.size  BY <1>4 DEF Wrote
    <2>2. F1.size \in Nat /\ G.size \in Nat  BY <1>1, <2>1 DEF Whole
    <2> QED  BY <1>1, <1>2, <2>1, <2>2, SMT
  <1>6. ImageIn(a, m, R, G)
    <2>1. ImageIn(a, m, R, F1)  BY DEF ImageLaid
    <2> QED  BY <1>2, <1>4, <2>1, ImageKept DEF x
  <1>7. /\ HeadBoxed(a, m, F1, k) => Hashed(a, m, G, k)
        /\ \A h \in {0, 1} :
             /\ Headed(a, m, F1, h) => Headed(a, m, G, h)
             /\ HeadBoxed(a, m, F1, h) => HeadBoxed(a, m, G, h)
             /\ a.platform = "ascend610" /\ Salted(a, m, F1, h) => Salted(a, m, G, h)
             /\ h # k /\ HeadBoxed(a, m, F1, h) /\ Hashed(a, m, F1, h) => Hashed(a, m, G, h)
    BY <1>3 DEF HeadHashed
  <1>8. \A h \in {0, 1} : /\ HeadBoxed(a, m, F, h) => HeadBoxed(a, m, F1, h)
                          /\ Headed(a, m, F, h) => Headed(a, m, F1, h)
    BY DEF ImageLaid
  <1>9. \A h \in Hs(a) : h \in {0, 1}  BY DEF Hs
  <1>10. a.enc # "no" => \A h \in Hs(a) : Salted(a, m, G, h)
    <2>1. a.enc # "no" => \A h \in Hs(a) : Salted(a, m, F1, h)  BY DEF ImageLaid
    <2> QED  BY <1>7, <1>9, <2>1
  <1>11. a.B /\ BcmIn(F) => BcmIn(G)
    <2>1. a.B => lo + 32 <= \h1000  BY <1>2
    <2>2. a.B /\ BcmIn(F) => BcmIn(F1)  BY DEF ImageLaid
    <2>3. BcmIn(F1) /\ lo + 32 <= \h1000 => BcmIn(G)  BY <1>2, <1>4, BcmKept
    <2> QED  BY <2>1, <2>2, <2>3
  <1>12. a.enc = "no" /\ Plain(F) => Plain(G)  BY <1>4 DEF ImageLaid
  <1>13. ImageLaid(a, m, R, F, G)
    BY <1>5, <1>6, <1>7, <1>8, <1>10, <1>11, <1>12 DEF ImageLaid, x
  <1> QED  BY <1>7, <1>8, <1>13 DEF G

\* The image is in the file, and what comes before it is hashed.
ImageWritten(a, m, R, F, G) ==
    /\ ImageLaid(a, m, R, F, G)
    /\ ~a.before => \A h \in Hs(a) : HeadBoxed(a, m, F, h) => Hashed(a, m, G, h)

LEMMA HashesLaid ==
    ASSUME NEW a, NEW m, Fits(a, m), ~a.before, a.platform = "ascend610" \/ a.enc = "no",
           NEW R, Source(R, m), NEW F, NEW F1, ImageLaid(a, m, R, F, F1),
           NEW G, NEW F2, F2 = WriteHash(F1, HeadLo(a, 0, m), Covered(a)),
           G \in {F2, WriteHash(F2, HeadLo(a, 1, m), Covered(a))},
           a.D => G = WriteHash(F2, HeadLo(a, 1, m), Covered(a)),
           a.B => G = F2
    PROVE  ImageWritten(a, m, R, F, G)
  <1>1. ImageLaid(a, m, R, F, F2) /\ (HeadBoxed(a, m, F, 0) => Hashed(a, m, F2, 0))
    BY HashLaid
  <1>2. CASE G = F2
    <2>1. ~a.D \/ G = WriteHash(F2, HeadLo(a, 1, m), Covered(a))  OBVIOUS
    <2>2. CASE ~a.D  BY <1>1, <1>2, <2>2 DEF ImageWritten, Hs
    <2>3. CASE a.D
      <3>1. ~a.B  BY <2>3 DEF Fits
      <3>2. G = WriteHash(F2, HeadLo(a, 1, m), Covered(a))  BY <2>3
      <3>3. /\ ImageLaid(a, m, R, F, G)
            /\ HeadBoxed(a, m, F, 1) => Hashed(a, m, G, 1)
            /\ HeadBoxed(a, m, F, 0) /\ Hashed(a, m, F2, 0) => Hashed(a, m, G, 0)
        BY <1>1, <3>1, <3>2, HashLaid
      <3> QED  BY <1>1, <2>3, <3>3 DEF ImageWritten, Hs
    <2> QED  BY <2>2, <2>3
  <1>3. CASE G # F2
    <2>1. ~a.B /\ G = WriteHash(F2, HeadLo(a, 1, m), Covered(a))  BY <1>3
    <2>2. /\ ImageLaid(a, m, R, F, G)
          /\ HeadBoxed(a, m, F, 1) => Hashed(a, m, G, 1)
          /\ HeadBoxed(a, m, F, 0) /\ Hashed(a, m, F2, 0) => Hashed(a, m, G, 0)
      BY <1>1, <2>1, HashLaid
    <2> QED  BY <1>1, <2>2 DEF ImageWritten, Hs
  <1> QED  BY <1>2, <1>3

LEMMA Image610 ==
    ASSUME NEW a, NEW m, Fits(a, m), a.platform = "ascend610",
           NEW R, Source(R, m), NEW r, r.size = m, r.ext = R, NEW F, Whole(F)
    PROVE  ImageWritten(a, m, R, F, A610!WriteImage(F, a, r))
  <1> DEFINE F1 == IF a.enc = "no" THEN A610!WriteRawImg(F, a, r) ELSE A610!WriteCipher(F, a, r)
             F2 == WriteHash(F1, HeadLo(a, 0, m), Covered(a))
             F3 == WriteHash(F2, HeadLo(a, 1, m), Covered(a))
  <1>1. ImageLaid(a, m, R, F, F1)
    <2>1. CASE a.enc = "no"
      <3>1. A610!ImageAt(a) = ImageLo(a)  BY <2>1 DEF A610!ImageAt, ImageLo, Fits
      <3>2. F1 = Put(F, ImageLo(a), ImageLo(a) + m, Copied(R, ImageLo(a)))
        BY <2>1, <3>1, Same610 DEF A610!WriteRawImg
      <3> QED  BY <2>1, <3>2, RawLaid
    <2>2. CASE a.enc # "no"  BY <2>2, CipherLaid
    <2> QED  BY <2>1, <2>2
  <1>2. A610!WriteImage(F, a, r) = IF a.before THEN F1 ELSE IF a.B THEN F2 ELSE F3
    <2>1. ASSUME ~a.before, NEW K
          PROVE  /\ A610!WriteHeaderHash(K, a, 0, 0) = WriteHash(K, HeadLo(a, 0, m), Covered(a))
                 /\ A610!WriteHeaderHash(K, a, 1, 0) = WriteHash(K, HeadLo(a, 1, m), Covered(a))
      <3>1. A610!Cover = Covered(a)  BY DEF A610!Cover, Covered
      <3>2. /\ A610!Base(0) + 0 = HeadLo(a, 0, m) /\ A610!Base(1) + 0 = HeadLo(a, 1, m)
        BY <2>1, SMT DEF A610!Base, HeadLo, Later
      <3>3. ~a.S  BY DEF Fits
      <3> QED  BY <3>1, <3>2, <3>3, Same610 DEF A610!WriteHeaderHash
    <2> HIDE DEF F1
    <2>2. A610!WriteImage(F, a, r) =
            IF a.before THEN F1
            ELSE IF a.B THEN A610!WriteHeaderHash(F1, a, 0, 0)
            ELSE A610!WriteHeaderHash(A610!WriteHeaderHash(F1, a, 0, 0), a, 1, 0)
      BY DEF A610!WriteImage, F1
    <2> QED  BY <2>1, <2>2
  <1> HIDE DEF F1
  <1>3. CASE a.before
    <2>1. A610!WriteImage(F, a, r) = F1  BY <1>2, <1>3
    <2> QED  BY <1>1, <1>3, <2>1 DEF ImageWritten
  <1>4. CASE ~a.before
    <2> DEFINE G == A610!WriteImage(F, a, r)
    <2>1. G \in {F2, F3} /\ (a.B => G = F2) /\ (~a.B => G = F3)  BY <1>2, <1>4
    <2>2. a.D => G = F3  BY <2>1 DEF Fits
    <2> HIDE DEF G
    <2>3. ImageWritten(a, m, R, F, G)  BY <1>1, <1>4, <2>1, <2>2, HashesLaid
    <2> QED  BY <2>3 DEF G
  <1> QED  BY <1>3, <1>4

LEMMA Image1111 ==
    ASSUME NEW a, NEW m, Fits(a, m), a.platform = "as31xm1", a.enc = "no",
           NEW R, Source(R, m), NEW r, r.size = m, r.ext = R, NEW F, Whole(F)
    PROVE  ImageWritten(a, m, R, F, H1111!WriteImage(F, a, r))
  <1> DEFINE F1 == H1111!WriteRawImg(F, a, r)
             F2 == WriteHash(F1, HeadLo(a, 0, m), Covered(a))
             F3 == WriteHash(F2, HeadLo(a, 1, m), Covered(a))
  <1>1. ImageLaid(a, m, R, F, F1)
    <2>1. H1111!ImageAt(a) = ImageLo(a)  BY DEF H1111!ImageAt, ImageLo, Fits
    <2>2. F1 = Put(F, ImageLo(a), ImageLo(a) + m, Copied(R, ImageLo(a)))
      BY <2>1, Same1111 DEF H1111!WriteRawImg
    <2> QED  BY <2>2, RawLaid
  <1>2. H1111!WriteImage(F, a, r) = IF a.before THEN F1 ELSE IF ~a.B /\ a.D THEN F3 ELSE F2
    <2>1. ASSUME ~a.before, NEW K
          PROVE  /\ H1111!WriteHeaderHash(K, a, 0, 0) = WriteHash(K, HeadLo(a, 0, m), Covered(a))
                 /\ H1111!WriteHeaderHash(K, a, 1, 0) = WriteHash(K, HeadLo(a, 1, m), Covered(a))
      <3>1. H1111!Cover = Covered(a)  BY DEF H1111!Cover, Covered
      <3>2. H1111!Base(0) = HeadLo(a, 0, m) /\ H1111!Base(1) = HeadLo(a, 1, m)
        BY <2>1, SMT DEF H1111!Base, HeadLo, Later
      <3> QED  BY <2>1, <3>1, <3>2, Same1111 DEF H1111!WriteHeaderHash
    <2> HIDE DEF F1
    <2> DEFINE w == IF a.before THEN F1 ELSE H1111!WriteHeaderHash(F1, a, 0, 0)
    <2>2. H1111!WriteImage(F, a, r) =
            IF ~a.B /\ ~a.before /\ a.D THEN H1111!WriteHeaderHash(w, a, 1, 0) ELSE w
      BY DEF H1111!WriteImage, F1
    <2>3. CASE a.before  BY <2>2, <2>3
    <2>4. CASE ~a.before  BY <2>1, <2>2, <2>4
    <2> QED  BY <2>3, <2>4
  <1> HIDE DEF F1
  <1>3. CASE a.before
    <2>1. H1111!WriteImage(F, a, r) = F1  BY <1>2, <1>3
    <2> QED  BY <1>1, <1>3, <2>1 DEF ImageWritten
  <1>4. CASE ~a.before
    <2> DEFINE G == H1111!WriteImage(F, a, r)
    <2>1. G \in {F2, F3} /\ (a.B => G = F2) /\ (~a.B /\ a.D => G = F3)  BY <1>2, <1>4
    <2>2. a.D => G = F3  BY <2>1 DEF Fits
    <2> HIDE DEF G
    <2>3. ImageWritten(a, m, R, F, G)  BY <1>1, <1>4, <2>1, <2>2, HashesLaid
    <2> QED  BY <2>3 DEF G
  <1> QED  BY <1>3, <1>4

-----------------------------------------------------------------------------
(* What is written around the image *)

LEMMA Bcm ==
    ASSUME NEW F, Whole(F), NEW G, G \in {A610!WriteHeaderBcm(F), H1111!WriteHeaderBcm(F)}
    PROVE  Wrote(F, G, \h1000, \h2000) /\ BcmIn(G) /\ (Plain(F) => Plain(G))
  <1> DEFINE x == \h1000
             y == \h2000
  <1>1. G = Write(F, "bcm", x, BcmLen)
    BY Same610, Same1111 DEF A610!WriteHeaderBcm, H1111!WriteHeaderBcm
  <1>2. x \in Nat /\ y \in Nat /\ BcmLen \in Nat /\ x + BcmLen \in Nat /\ x <= x /\ x + BcmLen <= y
    BY InputSizes, SMT
  <1> HIDE DEF x, y
  <1>3. Wrote(F, G, x, x + BcmLen) /\ Piece("bcm", x, BcmLen) \in G.ext
    BY <1>1, <1>2, WriteIn
  <1>4. "bcm" # "cipher"  OBVIOUS
  <1>5. Plain(F) => Plain(G)
    <2>1. G \in {F, Write(F, "bcm", x, BcmLen)}  BY <1>1
    <2> QED  BY <1>2, <1>4, <2>1, MaybeWrote
  <1>6. Wrote(F, G, x, y)  BY <1>2, <1>3, WroteWider
  <1> QED  BY <1>3, <1>5, <1>6 DEF BcmIn, x, y

\* Two writes in a row.
LEMMA WritePlain ==
    ASSUME NEW F, Whole(F), NEW f, NEW at \in Nat, NEW len \in Nat, f # "cipher",
           NEW lo \in Nat, NEW hi \in Nat, lo <= at, at + len <= hi
    PROVE  /\ Wrote(F, Write(F, f, at, len), lo, hi)
           /\ Piece(f, at, len) \in Write(F, f, at, len).ext
           /\ Plain(F) => Plain(Write(F, f, at, len))
           /\ Whole(Write(F, f, at, len))
  <1> DEFINE G == Write(F, f, at, len)
  <1>1. Wrote(F, G, at, at + len) /\ Piece(f, at, len) \in G.ext  BY WriteIn
  <1>2. at + len \in Nat  OBVIOUS
  <1>3. Plain(F) => Plain(G)
    <2>1. G \in {F, Write(F, f, at, len)}  OBVIOUS
    <2> QED  BY <2>1, MaybeWrote
  <1> HIDE DEF G
  <1>4. Wrote(F, G, lo, hi)  BY <1>1, <1>2, WroteWider
  <1>5. Whole(G)  BY <1>1 DEF Wrote
  <1> QED  BY <1>1, <1>3, <1>4, <1>5 DEF G

TailWritten(a, m, F, G) ==
    /\ Wrote(F, G, TailLo(a, m), TailLo(a, m) + \h5000)
    /\ Tailed(a, m, G)
    /\ Plain(F) => Plain(G)

LEMMA TailIs ==
    ASSUME NEW a, NEW m, Fits(a, m), NEW F, Whole(F), NEW G,
           G = Write(Write(Write(F, "cms", TailLo(a, m), 16 + a.tail),
                           "ini", TailLo(a, m) + IniOff(a), 16 + a.tail),
                     "crl", (TailLo(a, m) + IniOff(a)) + \h800, 16 + a.tail)
    PROVE  TailWritten(a, m, F, G)
  <1> DEFINE x == TailLo(a, m)
             i == x + IniOff(a)
             c == i + \h800
             t == 16 + a.tail
             hi == x + \h5000
             F1 == Write(F, "cms", x, t)
             F2 == Write(F1, "ini", i, t)
  <1>1. /\ x \in Nat /\ i \in Nat /\ c \in Nat /\ t \in Nat /\ hi \in Nat
        /\ x <= x /\ x + t <= hi /\ x <= i /\ i + t <= hi /\ x <= c /\ c + t <= hi
        /\ x + t <= i /\ i + t <= c /\ x + t <= c
    BY Sizes, SMT DEF TailLo, IniOff, Fits
  <1>2. G = Write(F2, "crl", c, t)  OBVIOUS
  <1>3. "cms" # "cipher" /\ "ini" # "cipher" /\ "crl" # "cipher"  OBVIOUS
  <1> HIDE DEF x, i, c, t, hi
  <1>4. Wrote(F, F1, x, hi) /\ Piece("cms", x, t) \in F1.ext /\ (Plain(F) => Plain(F1))
        /\ Whole(F1)
    BY <1>1, <1>3, WritePlain
  <1> HIDE DEF F1
  <1>5. Wrote(F1, F2, x, hi) /\ Piece("ini", i, t) \in F2.ext /\ (Plain(F1) => Plain(F2))
        /\ Whole(F2)
    BY <1>1, <1>3, <1>4, WritePlain
  <1>6. Wrote(F1, F2, i, i + t)  BY <1>1, <1>4, WriteIn
  <1> HIDE DEF F2
  <1>7. Wrote(F2, G, x, hi) /\ Piece("crl", c, t) \in G.ext /\ (Plain(F2) => Plain(G))
    BY <1>1, <1>2, <1>3, <1>5, WritePlain
  <1>8. Wrote(F2, G, c, c + t)  BY <1>1, <1>2, <1>5, WriteIn
  <1>9. Wrote(F, G, x, hi)
    <2>1. Wrote(F, F2, x, hi)  BY <1>1, <1>4, <1>5, WroteThen
    <2> QED  BY <1>1, <1>7, <2>1, WroteThen
  <1>10. Piece("cms", x, t) \in G.ext
    <2>1. Piece("cms", x, t) \in F2.ext  BY <1>1, <1>4, <1>6, StillThere
    <2> QED  BY <1>1, <1>8, <2>1, StillThere
  <1>11. Piece("ini", i, t) \in G.ext  BY <1>1, <1>5, <1>8, StillThere
  <1>12. Tailed(a, m, G)  BY <1>7, <1>10, <1>11 DEF Tailed, x, i, c, t
  <1> QED  BY <1>4, <1>5, <1>7, <1>9, <1>12 DEF TailWritten, x, hi

LEMMA Tail610 ==
    ASSUME NEW a, NEW m, Fits(a, m), a.platform = "ascend610", NEW F, Whole(F)
    PROVE  TailWritten(a, m, F, A610!WriteCms(F, a, m))
  <1>1. A610!CmsAt(a, m) = TailLo(a, m)  BY DEF A610!CmsAt, TailLo
  <1>2. A610!CmsSize(a) = IniOff(a)  BY DEF A610!CmsSize, IniOff
  <1> QED  BY <1>1, <1>2, TailIs, Same610 DEF A610!WriteCms

LEMMA Tail1111 ==
    ASSUME NEW a, NEW m, Fits(a, m), a.platform = "as31xm1", NEW F, Whole(F)
    PROVE  TailWritten(a, m, F, H1111!WriteCms(F, a, m))
  <1> DEFINE x == TailLo(a, m)
             t == 16 + a.tail
             c == x + \h4800
             i == x + \h4000
             d == (x + IniOff(a)) + \h800
             j == x + IniOff(a)
  <1>1. H1111!CmsAt(a, m) = x  BY DEF H1111!CmsAt, TailLo
  <1>2. x \in Nat /\ IniOff(a) = \h4000  BY SMT DEF TailLo, IniOff, Fits
  <1>3. H1111!WriteCms(F, a, m) = Write(Write(Write(F, "cms", x, t), "ini", i, t), "crl", c, t)
    BY <1>1, Same1111 DEF H1111!WriteCms
  <1>4. i = j /\ c = d  BY <1>2, SMT
  <1> HIDE DEF c, i, d, j
  <1>5. H1111!WriteCms(F, a, m) = Write(Write(Write(F, "cms", x, t), "ini", j, t), "crl", d, t)
    BY <1>3, <1>4
  <1> QED  BY <1>5, TailIs DEF j, d

LEMMA Tree ==
    ASSUME NEW a, NEW m, Fits(a, m), NEW F, Whole(F), NEW G,
           G \in {A610!WriteHashTree(F, m), H1111!WriteHashTree(F, m)}
    PROVE  /\ Wrote(F, G, m + \h1FF00, (m + \h1FF00) + HashTreeLen)
           /\ TreeIn(m, G) /\ (Plain(F) => Plain(G))
  <1> DEFINE x == m + \h1FF00
             y == x + HashTreeLen
             z == m + \h20000 - \h100
  <1>1. G = Write(F, "hashtree", z, HashTreeLen)
    BY Same610, Same1111 DEF A610!WriteHashTree, H1111!WriteHashTree
  <1>2. x = z /\ x \in Nat /\ y \in Nat /\ HashTreeLen \in Nat /\ x <= x /\ y <= y
    BY InputSizes, SMT DEF Fits
  <1>3. "hashtree" # "cipher"  OBVIOUS
  <1> HIDE DEF x, z
  <1>4. /\ Wrote(F, G, x, y) /\ Piece("hashtree", x, HashTreeLen) \in G.ext
        /\ Plain(F) => Plain(G)
    BY <1>1, <1>2, <1>3, WritePlain
  <1> QED  BY <1>4 DEF TreeIn, x

EndWritten(a, m, F, G) ==
    /\ Wrote(F, G, a.partition - 12, a.partition)
    /\ EndIn(a, m, G)
    /\ Plain(F) => Plain(G)

LEMMA EndIs ==
    ASSUME NEW a, NEW m, Fits(a, m), NEW F, Whole(F), NEW F1, NEW G,
           F1 = IF a.large THEN PutPiece(F, Holding(m, Piece("address", a.partition - 12, 8)))
                ELSE PutPiece(F, Holding(m, Piece("address", a.partition - 8, 4))),
           G = Write(F1, "version", a.partition - 4, 4)
    PROVE  EndWritten(a, m, F, G)
  <1> DEFINE p == a.partition
             at == IF a.large THEN p - 12 ELSE p - 8
             l == IF a.large THEN 8 ELSE 4
             lo == p - 12
             v == p - 4
             q == Holding(m, Piece("address", at, l))
  <1>1. F1 = PutPiece(F, q)  OBVIOUS
  <1>2. q.f = "address" /\ q.val = m /\ q.at = at /\ q.len = l  BY DEF Holding, Piece
  <1>3. G = Write(F1, "version", v, 4)  OBVIOUS
  <1>4. p \in Nat /\ p >= \h100000  BY Sizes, SMT DEF Fits
  <1>5. /\ at \in Nat /\ l \in Nat /\ lo \in Nat /\ v \in Nat /\ 4 \in Nat /\ at + l \in Nat
        /\ lo <= at /\ at + l <= v /\ lo <= v /\ v + 4 = p /\ at + l <= p /\ v + 4 <= p
        /\ at >= p - 12
    BY <1>4, SMT
  <1>6. q.f # "cipher" /\ "version" # "cipher"  BY <1>2
  <1> HIDE DEF q, at, l, v, lo
  <1>7. Wrote(F, F1, at, at + l) /\ q \in F1.ext /\ (Plain(F) => Plain(F1))
    <2>1. q.at \in Nat /\ q.len \in Nat  BY <1>2, <1>5
    <2>2. /\ Wrote(F, PutPiece(F, q), q.at, q.at + q.len) /\ q \in PutPiece(F, q).ext
          /\ Plain(F) /\ q.f # "cipher" => Plain(PutPiece(F, q))
      BY <2>1, PieceWrote
    <2> QED  BY <1>1, <1>2, <1>6, <2>2
  <1>8. Whole(F1) /\ Wrote(F, F1, lo, p)
    <2>1. Whole(F1)  BY <1>7 DEF Wrote
    <2> QED  BY <1>4, <1>5, <1>7, <2>1, WroteWider
  <1>9. Wrote(F1, G, v, v + 4) /\ Piece("version", v, 4) \in G.ext /\ v + 4 <= G.size
    BY <1>3, <1>5, <1>8, WriteIn
  <1>10. Wrote(F1, G, lo, p) /\ (Plain(F1) => Plain(G))
    BY <1>3, <1>4, <1>5, <1>6, <1>8, WritePlain
  <1>11. Wrote(F, G, lo, p)  BY <1>4, <1>5, <1>8, <1>10, WroteThen
  <1>12. q \in G.ext
    <2>1. Apart(q, v, v + 4)  BY <1>2, <1>5 DEF Apart
    <2> QED  BY <1>7, <1>9, <2>1 DEF Wrote
  <1>13. EndIn(a, m, G)
    <2>1. q.at >= p - 12 /\ q.at + q.len <= p  BY <1>2, <1>5
    <2>2. p <= G.size  BY <1>5, <1>9
    <2> QED  BY <1>2, <1>9, <1>12, <2>1, <2>2 DEF EndIn, v
  <1> QED  BY <1>7, <1>10, <1>11, <1>13 DEF EndWritten, lo

LEMMA End610 ==
    ASSUME NEW a, NEW m, Fits(a, m), NEW F, Whole(F)
    PROVE  EndWritten(a, m, F, A610!WriteVersion(A610!WriteHeaderAddress(F, a, m), a))
  BY EndIs, Same610 DEF A610!WriteVersion, A610!WriteHeaderAddress

LEMMA End1111 ==
    ASSUME NEW a, NEW m, Fits(a, m), NEW F, Whole(F)
    PROVE  EndWritten(a, m, F, H1111!WriteVersion(H1111!WriteHeaderAddress(F, a, m), a))
  BY EndIs, Same1111 DEF H1111!WriteVersion, H1111!WriteHeaderAddress

-----------------------------------------------------------------------------
(* The magic number and the size *)

SizeNoted(a, F) == IF a.before /\ F.size >= Word32 THEN 0 ELSE F.size

MagicIn(a, F, at, len) == Holding(SizeNoted(a, F), Piece("magic", at, len)) \in F.ext

LEMMA MagicFound ==
    ASSUME NEW a, NEW F, NEW at, NEW len, MagicIn(a, F, at, len)
    PROVE  Magic(a, F)
  <1> DEFINE e == Holding(SizeNoted(a, F), Piece("magic", at, len))
  <1>1. e.f = "magic" /\ e.val = SizeNoted(a, F)  BY HoldingIs
  <1> QED  BY <1>1 DEF MagicIn, Magic, SizeNoted

LEMMA MagicWritten ==
    ASSUME NEW a, NEW F, Whole(F), NEW at \in Nat, NEW len \in Nat, at + len <= F.size, NEW G,
           G = PutPiece(F, Holding(SizeNoted(a, F), Piece("magic", at, len)))
    PROVE  /\ Wrote(F, G, at, at + len) /\ G.size = F.size
           /\ MagicIn(a, G, at, len)
           /\ Plain(F) => Plain(G)
  <1> DEFINE v == SizeNoted(a, F)
             p == Holding(v, Piece("magic", at, len))
  <1>1. p.f = "magic" /\ p.at = at /\ p.len = len  BY HoldingIs
  <1>2. G = PutPiece(F, p)  OBVIOUS
  <1> HIDE DEF p, v
  <1>3. /\ Wrote(F, PutPiece(F, p), p.at, p.at + p.len)
        /\ p \in PutPiece(F, p).ext
        /\ Plain(F) /\ p.f # "cipher" => Plain(PutPiece(F, p))
    BY <1>1, PieceWrote
  <1>4. "magic" # "cipher"  OBVIOUS
  <1>5. Wrote(F, G, at, at + len) /\ p \in G.ext /\ (Plain(F) => Plain(G))
    BY <1>1, <1>2, <1>3, <1>4
  <1>6. G.size = F.size  BY <1>5 DEF Wrote
  <1>7. SizeNoted(a, G) = SizeNoted(a, F)  BY <1>6 DEF SizeNoted
  <1> QED  BY <1>5, <1>6, <1>7 DEF MagicIn, p, v

LEMMA MagicKept ==
    ASSUME NEW a, NEW F, NEW at, NEW len, MagicIn(a, F, at, len), NEW G, NEW lo, NEW hi,
           Wrote(F, G, lo, hi), hi <= F.size, hi <= at \/ at + len <= lo
    PROVE  MagicIn(a, G, at, len)
  <1>1. G.size = F.size  BY DEF Wrote
  <1>2. SizeNoted(a, G) = SizeNoted(a, F)  BY <1>1 DEF SizeNoted
  <1> QED  BY <1>2, PieceKept DEF MagicIn

\* A write between the hash of the first header and its certificate.
GapKept(a, m, F, G) ==
    /\ a.B /\ BcmIn(F) => BcmIn(G)
    /\ \A h \in {0, 1} :
         /\ Headed(a, m, F, h) => Headed(a, m, G, h)
         /\ HeadBoxed(a, m, F, h) => HeadBoxed(a, m, G, h)
         /\ a.platform = "ascend610" /\ Salted(a, m, F, h) => Salted(a, m, G, h)
         /\ HeadBoxed(a, m, F, h) /\ Hashed(a, m, F, h) => Hashed(a, m, G, h)

LEMMA Gap ==
    ASSUME NEW a, NEW m, Fits(a, m), NEW F, Whole(F), NEW G,
           NEW lo \in Nat, NEW hi \in Nat, Wrote(F, G, lo, hi),
           (HeadLo(a, 0, m) + Covered(a)) + 32 <= lo, hi <= HeadLo(a, 0, m) + CertOff(a)
    PROVE  GapKept(a, m, F, G)
  <1> DEFINE x == HeadLo(a, 0, m)
             c == Covered(a)
  <1>1. /\ x \in Nat /\ c \in Nat /\ HeadLen(a) + 4 <= c /\ CertOff(a) <= \h1000
        /\ HeadLen(a) \in Nat /\ CertOff(a) \in Nat /\ c <= \h1000
        /\ ~a.before => x = 0
    BY SMT DEF HeadLen, Covered, CertOff, HeadLo, Later, Fits
  <1>2. (x + c) + 32 <= lo /\ hi <= x + CertOff(a)  OBVIOUS
  <1> HIDE DEF c, x
  <1>3. ASSUME NEW h \in {0, 1}
        PROVE  /\ Headed(a, m, F, h) => Headed(a, m, G, h)
               /\ HeadBoxed(a, m, F, h) => HeadBoxed(a, m, G, h)
               /\ a.platform = "ascend610" /\ Salted(a, m, F, h) => Salted(a, m, G, h)
               /\ HeadBoxed(a, m, F, h) /\ Hashed(a, m, F, h) => Hashed(a, m, G, h)
    <2> DEFINE z == HeadLo(a, h, m)
    <2>1. z \in Nat /\ z + c \in Nat /\ (z = x \/ z = x + \h1000)
      BY <1>1, SMT DEF HeadLo, Later, x, Fits
    <2> HIDE DEF z
    <2>2. /\ hi <= z \/ z + \h1000 <= lo
             \/ (z + HeadLen(a) + 4 <= lo /\ hi <= z + CertOff(a))
          /\ hi <= z \/ z + c <= lo
          /\ hi <= z \/ (z + c) + 32 <= lo
      BY <1>1, <1>2, <2>1, SMT
    <2>3. Headed(a, m, F, h) => Headed(a, m, G, h)
      BY <2>2, HeadedKept DEF z
    <2>4. HeadBoxed(a, m, F, h) => HeadBoxed(a, m, G, h)
      BY <2>1, <2>2, BoxedKept DEF HeadBoxed, z, c
    <2>5. a.platform = "ascend610" /\ Salted(a, m, F, h) => Salted(a, m, G, h)
      BY <2>2, SaltedKept DEF z, c
    <2>6. HeadBoxed(a, m, F, h) /\ Hashed(a, m, F, h) => Hashed(a, m, G, h)
      BY <2>2, HashedKept DEF z, c
    <2> QED  BY <2>3, <2>4, <2>5, <2>6
  <1>4. a.B /\ BcmIn(F) => BcmIn(G)
    <2>1. a.B => hi <= \h1000  BY <1>1, <1>2, SMT DEF Fits
    <2>2. BcmIn(F) /\ hi <= \h1000 => BcmIn(G)  BY BcmKept
    <2> QED  BY <2>1, <2>2
  <1> QED  BY <1>3, <1>4 DEF GapKept

MagicOff(a) == IF a.platform = "as31xm1" THEN \h580 ELSE \h4E0

MagicLen(a) == IF a.platform = "as31xm1" THEN 12 ELSE 24

\* The magic number, and for as31xm1 the counter behind it.
LEMMA Noted ==
    ASSUME NEW a, NEW m, Fits(a, m), NEW F, Whole(F), HeadLo(a, 0, m) + \h2000 <= F.size,
           NEW F1, NEW G,
           F1 = PutPiece(F, Holding(SizeNoted(a, F),
                                    Piece("magic", HeadLo(a, 0, m) + MagicOff(a), MagicLen(a)))),
           \/ G = F1
           \/ a.platform = "as31xm1" /\ G = Write(F1, "nvcnt", HeadLo(a, 0, m) + \h590, 8)
    PROVE  /\ Wrote(F, G, (HeadLo(a, 0, m) + Covered(a)) + 32, HeadLo(a, 0, m) + CertOff(a))
           /\ G.size = F.size
           /\ MagicIn(a, G, HeadLo(a, 0, m) + MagicOff(a), MagicLen(a))
           /\ Plain(F) => Plain(G)
  <1> DEFINE x == HeadLo(a, 0, m)
             at == x + MagicOff(a)
             l == MagicLen(a)
             nv == x + \h590
             lo == (x + Covered(a)) + 32
             hi == x + CertOff(a)
  <1>1. /\ x \in Nat /\ at \in Nat /\ l \in Nat /\ nv \in Nat /\ lo \in Nat /\ hi \in Nat
        /\ lo <= at /\ at + l <= hi /\ at + l \in Nat /\ hi <= x + \h2000
        /\ a.platform = "as31xm1" => lo <= nv /\ nv + 8 <= hi /\ at + l <= nv
    BY SMT DEF HeadLo, Later, MagicOff, MagicLen, Covered, CertOff, Fits
  <1>2. hi <= F.size /\ at + l <= F.size
    BY <1>1, SMT DEF Whole
  <1>3. F1 = PutPiece(F, Holding(SizeNoted(a, F), Piece("magic", at, l)))  OBVIOUS
  <1> HIDE DEF x, at, l, nv, lo, hi
  <1>4. /\ Wrote(F, F1, at, at + l) /\ F1.size = F.size
        /\ MagicIn(a, F1, at, l) /\ (Plain(F) => Plain(F1))
    BY <1>1, <1>2, <1>3, MagicWritten
  <1>5. Wrote(F, F1, lo, hi) /\ Whole(F1)
    <2>1. Wrote(F, F1, lo, hi)  BY <1>1, <1>4, WroteWider
    <2> QED  BY <2>1 DEF Wrote
  <1>6. CASE G = F1
    BY <1>4, <1>5, <1>6 DEF x, at, l, lo, hi
  <1>7. CASE a.platform = "as31xm1" /\ G = Write(F1, "nvcnt", nv, 8)
    <2>1. "nvcnt" # "cipher" /\ 8 \in Nat  OBVIOUS
    <2>2. Wrote(F1, G, lo, hi) /\ (Plain(F1) => Plain(G))
      BY <1>1, <1>5, <1>7, <2>1, WritePlain
    <2>3. Wrote(F1, G, nv, nv + 8)  BY <1>1, <1>5, <1>7, <2>1, WriteIn
    <2>4. nv + 8 <= F1.size
      <3>1. F.size \in Nat  BY DEF Whole
      <3> QED  BY <1>1, <1>2, <1>4, <1>7, <3>1, SMT
    <2>5. MagicIn(a, G, at, l)  BY <1>1, <1>4, <1>7, <2>3, <2>4, MagicKept
    <2>6. G.size = F.size  BY <1>4, <2>3, <2>4 DEF Wrote
    <2>7. Wrote(F, G, lo, hi)  BY <1>1, <1>5, <2>2, WroteThen
    <2> QED  BY <1>4, <2>2, <2>5, <2>6, <2>7 DEF x, at, l, lo, hi
  <1>8. G = F1 \/ (a.platform = "as31xm1" /\ G = Write(F1, "nvcnt", nv, 8))
    BY DEF nv, x
  <1> QED  BY <1>6, <1>7, <1>8

\* write_extern: the magic number, and the hashes of headers behind the image.
ExternDone(a, m, F, G) ==
    /\ Wrote(F, G, HeadLo(a, 0, m), HeadLo(a, 0, m) + \h2000)
    /\ Plain(F) => Plain(G)
    /\ MagicIn(a, G, HeadLo(a, 0, m) + MagicOff(a), MagicLen(a))
    /\ a.B /\ BcmIn(F) => BcmIn(G)
    /\ \A h \in {0, 1} :
         /\ Headed(a, m, F, h) => Headed(a, m, G, h)
         /\ HeadBoxed(a, m, F, h) => HeadBoxed(a, m, G, h)
         /\ a.platform = "ascend610" /\ Salted(a, m, F, h) => Salted(a, m, G, h)
    /\ ~a.before => \A h \in {0, 1} : HeadBoxed(a, m, F, h) /\ Hashed(a, m, F, h)
                                        => Hashed(a, m, G, h)
    /\ a.before /\ a.platform = "ascend610" =>
         \A h \in Hs(a) : HeadBoxed(a, m, F, h) => Hashed(a, m, G, h)

\* The headers behind the image are hashed.
Rehashed(a, m, F, G) ==
    /\ Wrote(F, G, HeadLo(a, 0, m), HeadLo(a, 0, m) + \h2000) /\ G.size = F.size
    /\ Plain(F) => Plain(G)
    /\ \A h \in {0, 1} :
         /\ Headed(a, m, F, h) => Headed(a, m, G, h)
         /\ HeadBoxed(a, m, F, h) => HeadBoxed(a, m, G, h)
         /\ a.platform = "ascend610" /\ Salted(a, m, F, h) => Salted(a, m, G, h)
    /\ \A h \in Hs(a) : HeadBoxed(a, m, F, h) => Hashed(a, m, G, h)

LEMMA Rehash ==
    ASSUME NEW a, NEW m, Fits(a, m), NEW F, Whole(F), HeadLo(a, 0, m) + \h2000 <= F.size,
           NEW F1, NEW G, F1 = WriteHash(F, HeadLo(a, 0, m), Covered(a)),
           G = IF a.D THEN WriteHash(F1, HeadLo(a, 1, m), Covered(a)) ELSE F1
    PROVE  Rehashed(a, m, F, G)
  <1> DEFINE x == HeadLo(a, 0, m)
             y == HeadLo(a, 1, m)
             c == Covered(a)
             l0 == (x + c)
             h0 == (x + c) + 32
             l1 == (y + c)
             h1 == (y + c) + 32
             hi == x + \h2000
  <1>1. /\ x \in Nat /\ y \in Nat /\ l0 \in Nat /\ h0 \in Nat /\ l1 \in Nat /\ h1 \in Nat /\ hi \in Nat
        /\ x <= l0 /\ h0 <= hi /\ x <= l1 /\ h1 <= hi /\ l0 <= hi /\ l1 <= hi
    BY SMT DEF HeadLo, Later, Covered, Fits
  <1>2. F.size \in Nat /\ hi <= F.size  BY DEF Whole
  <1>3. l0 <= F.size /\ l1 <= F.size /\ h0 <= F.size /\ h1 <= F.size  BY <1>1, <1>2
  <1> HIDE DEF l0, h0, l1, h1, hi
  <1>4. HeadHashed(a, m, F, F1, 0)
    <2>1. HeadLo(a, 0, m) + Covered(a) <= F.size  BY <1>3 DEF l0
    <2> QED  BY <2>1, HashHead
  <1>5. Wrote(F, F1, l0, h0)  BY <1>4 DEF HeadHashed, l0, h0
  <1>6. Wrote(F, F1, x, hi) /\ F1.size = F.size /\ Whole(F1)
    <2>1. Wrote(F, F1, x, hi)  BY <1>1, <1>5, WroteWider
    <2> QED  BY <1>3, <1>5, <2>1 DEF Wrote
  <1>7. /\ Plain(F) => Plain(F1)
        /\ HeadBoxed(a, m, F, 0) => Hashed(a, m, F1, 0)
        /\ \A h \in {0, 1} :
             /\ Headed(a, m, F, h) => Headed(a, m, F1, h)
             /\ HeadBoxed(a, m, F, h) => HeadBoxed(a, m, F1, h)
             /\ a.platform = "ascend610" /\ Salted(a, m, F, h) => Salted(a, m, F1, h)
    BY <1>4 DEF HeadHashed
  <1>8. CASE ~a.D
    <2>1. G = F1 /\ Hs(a) = {0}  BY <1>8 DEF Hs
    <2> QED  BY <1>6, <1>7, <2>1 DEF Rehashed, x, hi
  <1>9. CASE a.D
    <2>1. G = WriteHash(F1, y, c) /\ Hs(a) = {0, 1}  BY <1>9 DEF Hs
    <2>2. HeadHashed(a, m, F1, G, 1)
      <3>1. HeadLo(a, 1, m) + Covered(a) <= F1.size  BY <1>3, <1>6 DEF l1
      <3> QED  BY <1>6, <2>1, <3>1, HashHead
    <2>3. Wrote(F1, G, l1, h1)  BY <2>2 DEF HeadHashed, l1, h1
    <2>4. Wrote(F1, G, x, hi) /\ G.size = F.size
      <3>1. Wrote(F1, G, x, hi)  BY <1>1, <1>6, <2>3, WroteWider
      <3> QED  BY <1>3, <1>6, <2>3, <3>1 DEF Wrote
    <2>5. Wrote(F, G, x, hi)  BY <1>1, <1>6, <2>4, WroteThen
    <2>6. /\ Plain(F1) => Plain(G)
          /\ HeadBoxed(a, m, F1, 1) => Hashed(a, m, G, 1)
          /\ HeadBoxed(a, m, F1, 0) /\ Hashed(a, m, F1, 0) => Hashed(a, m, G, 0)
          /\ \A h \in {0, 1} :
               /\ Headed(a, m, F1, h) => Headed(a, m, G, h)
               /\ HeadBoxed(a, m, F1, h) => HeadBoxed(a, m, G, h)
               /\ a.platform = "ascend610" /\ Salted(a, m, F1, h) => Salted(a, m, G, h)
      <3>1. 0 # 1 /\ 0 \in {0, 1} /\ 1 \in {0, 1}  OBVIOUS
      <3> QED  BY <2>2, <3>1 DEF HeadHashed
    <2>7. \A h \in {0, 1} :
             /\ Headed(a, m, F, h) => Headed(a, m, G, h)
             /\ HeadBoxed(a, m, F, h) => HeadBoxed(a, m, G, h)
             /\ a.platform = "ascend610" /\ Salted(a, m, F, h) => Salted(a, m, G, h)
      BY <1>7, <2>6
    <2>8. \A h \in {0, 1} : HeadBoxed(a, m, F, h) => Hashed(a, m, G, h)
      BY <1>7, <2>6
    <2>9. Plain(F) => Plain(G)  BY <1>7, <2>6
    <2> QED  BY <2>1, <2>4, <2>5, <2>7, <2>8, <2>9 DEF Rehashed, x, hi
  <1> QED  BY <1>8, <1>9

\* The header in front: the magic number alone.
LEMMA ExternFront ==
    ASSUME NEW a, NEW m, Fits(a, m), ~a.before, NEW F, Whole(F), HeadLo(a, 0, m) + \h2000 <= F.size,
           NEW F1, NEW G,
           F1 = PutPiece(F, Holding(SizeNoted(a, F),
                                    Piece("magic", HeadLo(a, 0, m) + MagicOff(a), MagicLen(a)))),
           \/ G = F1
           \/ a.platform = "as31xm1" /\ G = Write(F1, "nvcnt", HeadLo(a, 0, m) + \h590, 8)
    PROVE  ExternDone(a, m, F, G)
  <1> DEFINE x == HeadLo(a, 0, m)
             lo == (x + Covered(a)) + 32
             hi == x + CertOff(a)
             top == x + \h2000
  <1>1. /\ x \in Nat /\ lo \in Nat /\ hi \in Nat /\ top \in Nat /\ x <= lo /\ hi <= top
        /\ lo <= lo /\ hi <= hi
    BY SMT DEF HeadLo, Later, Covered, CertOff, Fits
  <1>2. /\ Wrote(F, G, lo, hi) /\ (Plain(F) => Plain(G))
        /\ MagicIn(a, G, x + MagicOff(a), MagicLen(a))
    BY Noted
  <1>3. GapKept(a, m, F, G)  BY <1>1, <1>2, Gap
  <1> HIDE DEF x, lo, hi, top
  <1>4. Wrote(F, G, x, top)  BY <1>1, <1>2, WroteWider
  <1> QED  BY <1>2, <1>3, <1>4 DEF ExternDone, GapKept, x, top

\* as31xm1 notes code_len once more, inside the first header.
LEMMA LenNoted ==
    ASSUME NEW a, NEW m, Fits(a, m), a.platform = "as31xm1", NEW F, Whole(F),
           HeadLo(a, 0, m) + \h2000 <= F.size,
           MagicIn(a, F, HeadLo(a, 0, m) + MagicOff(a), MagicLen(a)),
           NEW G, G = PutPiece(F, Holding(m, Piece("codelen", HeadLo(a, 0, m) + \h4E0, 8)))
    PROVE  /\ Wrote(F, G, HeadLo(a, 0, m), HeadLo(a, 0, m) + \h2000)
           /\ Plain(F) => Plain(G)
           /\ MagicIn(a, G, HeadLo(a, 0, m) + MagicOff(a), MagicLen(a))
           /\ \A h \in {0, 1} : /\ Headed(a, m, F, h) => Headed(a, m, G, h)
                                /\ HeadBoxed(a, m, F, h) => HeadBoxed(a, m, G, h)
  <1> DEFINE x == HeadLo(a, 0, m)
             lo == x + \h4E0
             hi == lo + 8
             at == x + MagicOff(a)
             top == x + \h2000
             p == Holding(m, Piece("codelen", lo, 8))
  <1>1. /\ x \in Nat /\ lo \in Nat /\ hi \in Nat /\ top \in Nat /\ hi <= top /\ x <= lo /\ hi <= at
        /\ lo = x + \h4E0 /\ hi = x + \h4E8
    BY SMT DEF HeadLo, Later, MagicOff, Fits
  <1>2. hi <= F.size  BY <1>1, SMT DEF Whole
  <1>3. p.f # "cipher" /\ p.at = lo /\ p.len = 8  BY HoldingIs
  <1>4. G = PutPiece(F, p)  OBVIOUS
  <1>5. HeadLen(a) = \h484 /\ Covered(a) = \h560 /\ CertOff(a) = \h600
    BY SMT DEF HeadLen, Covered, CertOff
  <1> HIDE DEF p
  <1>6. Wrote(F, G, lo, hi) /\ (Plain(F) => Plain(G))
    <2>1. p.at \in Nat /\ p.len \in Nat  BY <1>1, <1>3
    <2>2. /\ Wrote(F, PutPiece(F, p), p.at, p.at + p.len)
          /\ Plain(F) /\ p.f # "cipher" => Plain(PutPiece(F, p))
      BY <2>1, PieceWrote
    <2> QED  BY <1>3, <1>4, <2>2
  <1> HIDE DEF x, lo, hi, at, top
  <1>7. Wrote(F, G, x, top)  BY <1>1, <1>6, WroteWider
  <1>8. MagicIn(a, G, at, MagicLen(a))
    BY <1>1, <1>2, <1>6, MagicKept DEF at, x
  <1>9. ASSUME NEW h \in {0, 1}
        PROVE  /\ Headed(a, m, F, h) => Headed(a, m, G, h)
               /\ HeadBoxed(a, m, F, h) => HeadBoxed(a, m, G, h)
    <2> DEFINE z == HeadLo(a, h, m)
               c == z + Covered(a)
    <2>1. z \in Nat /\ c \in Nat /\ c = z + \h560 /\ (z = x \/ z = x + \h1000)
      BY <1>1, <1>5, SMT DEF HeadLo, Later, x, Fits
    <2> HIDE DEF z, c
    <2>2. /\ hi <= z \/ (z + HeadLen(a) + 4 <= lo /\ hi <= z + CertOff(a))
          /\ hi <= z \/ (z <= lo /\ hi <= c)
      BY <1>1, <1>5, <2>1, SMT
    <2>3. Headed(a, m, F, h) => Headed(a, m, G, h)
      BY <1>1, <1>6, <2>2, HeadedKept DEF z
    <2>4. HeadBoxed(a, m, F, h) => HeadBoxed(a, m, G, h)
      BY <1>1, <1>6, <2>1, <2>2, BoxedKept DEF HeadBoxed, z, c
    <2> QED  BY <2>3, <2>4
  <1> QED  BY <1>6, <1>7, <1>8, <1>9 DEF x, at, top

\* The header behind the image: it is hashed again.
LEMMA ExternBehind ==
    ASSUME NEW a, NEW m, Fits(a, m), a.before, NEW F, Whole(F), HeadLo(a, 0, m) + \h2000 <= F.size,
           NEW R, Rehashed(a, m, F, R), NEW F1, NEW K, NEW G,
           F1 = PutPiece(R, Holding(SizeNoted(a, R),
                                    Piece("magic", HeadLo(a, 0, m) + MagicOff(a), MagicLen(a)))),
           \/ K = F1
           \/ a.platform = "as31xm1" /\ K = Write(F1, "nvcnt", HeadLo(a, 0, m) + \h590, 8),
           \/ G = K /\ a.platform = "ascend610"
           \/ /\ a.platform = "as31xm1"
              /\ G = PutPiece(K, Holding(m, Piece("codelen", HeadLo(a, 0, m) + \h4E0, 8)))
    PROVE  ExternDone(a, m, F, G)
  <1> DEFINE x == HeadLo(a, 0, m)
             lo == (x + Covered(a)) + 32
             hi == x + CertOff(a)
             top == x + \h2000
  <1>1. /\ x \in Nat /\ lo \in Nat /\ hi \in Nat /\ top \in Nat /\ x <= lo /\ hi <= top
        /\ lo <= lo /\ hi <= hi
    BY SMT DEF HeadLo, Later, Covered, CertOff, Fits
  <1>2. /\ Wrote(F, R, x, top) /\ R.size = F.size /\ Whole(R) /\ top <= F.size
    BY DEF Rehashed, Wrote
  <1>3. /\ Wrote(R, K, lo, hi) /\ (Plain(R) => Plain(K)) /\ K.size = F.size
        /\ MagicIn(a, K, x + MagicOff(a), MagicLen(a))
    BY <1>2, Noted
  <1>4. GapKept(a, m, R, K)  BY <1>1, <1>2, <1>3, Gap
  <1> HIDE DEF x, lo, hi, top
  <1>5. Wrote(R, K, x, top) /\ Whole(K)
    <2>1. Wrote(R, K, x, top)  BY <1>1, <1>2, <1>3, WroteWider
    <2> QED  BY <2>1 DEF Wrote
  <1>6. Wrote(F, K, x, top)  BY <1>1, <1>2, <1>5, WroteThen
  <1>7. ~a.B  BY DEF Fits
  <1>8. /\ Plain(F) => Plain(K)
        /\ \A h \in {0, 1} :
             /\ Headed(a, m, F, h) => Headed(a, m, K, h)
             /\ HeadBoxed(a, m, F, h) => HeadBoxed(a, m, K, h)
             /\ a.platform = "ascend610" /\ Salted(a, m, F, h) => Salted(a, m, K, h)
    BY <1>3, <1>4 DEF Rehashed, GapKept
  <1>9. \A h \in Hs(a) : HeadBoxed(a, m, F, h) => Hashed(a, m, K, h)
    <2>1. \A h \in Hs(a) : h \in {0, 1}  BY DEF Hs
    <2>2. \A h \in Hs(a) : HeadBoxed(a, m, F, h) => Hashed(a, m, R, h)  BY DEF Rehashed
    <2>3. \A h \in {0, 1} : HeadBoxed(a, m, F, h) => HeadBoxed(a, m, R, h)  BY DEF Rehashed
    <2>4. \A h \in {0, 1} : HeadBoxed(a, m, R, h) /\ Hashed(a, m, R, h) => Hashed(a, m, K, h)
      BY <1>4 DEF GapKept
    <2> QED  BY <2>1, <2>2, <2>3, <2>4
  <1>10. CASE a.platform = "ascend610"
    <2>1. G = K  BY <1>10
    <2>2. MagicIn(a, G, x + MagicOff(a), MagicLen(a))  BY <1>3, <2>1
    <2> QED  BY <1>6, <1>7, <1>8, <1>9, <2>1, <2>2 DEF ExternDone, x, top
  <1>11. CASE a.platform = "as31xm1"
    <2>1. G = PutPiece(K, Holding(m, Piece("codelen", x + \h4E0, 8)))  BY <1>11 DEF x
    <2>2. HeadLo(a, 0, m) + \h2000 <= K.size /\ MagicIn(a, K, HeadLo(a, 0, m) + MagicOff(a), MagicLen(a))
      BY <1>3 DEF x
    <2>3. /\ Wrote(K, G, x, top)
          /\ Plain(K) => Plain(G)
          /\ MagicIn(a, G, x + MagicOff(a), MagicLen(a))
          /\ \A h \in {0, 1} : /\ Headed(a, m, K, h) => Headed(a, m, G, h)
                               /\ HeadBoxed(a, m, K, h) => HeadBoxed(a, m, G, h)
      BY <1>5, <1>11, <2>1, <2>2, LenNoted DEF x, top
    <2>4. Wrote(F, G, x, top)  BY <1>1, <1>6, <2>3, WroteThen
    <2>5. MagicIn(a, G, x + MagicOff(a), MagicLen(a))  BY <2>3
    <2>6. Plain(F) => Plain(G)  BY <1>8, <2>3
    <2>7. \A h \in {0, 1} : /\ Headed(a, m, F, h) => Headed(a, m, G, h)
                            /\ HeadBoxed(a, m, F, h) => HeadBoxed(a, m, G, h)
      BY <1>8, <2>3
    <2>8. a.platform # "ascend610"  BY <1>11
    <2> QED  BY <1>7, <2>4, <2>5, <2>6, <2>7, <2>8 DEF ExternDone, x, top
  <1>12. a.platform \in {"ascend610", "as31xm1"}  BY DEF Fits
  <1> QED  BY <1>10, <1>11, <1>12

LEMMA Extern610 ==
    ASSUME NEW a, NEW m, Fits(a, m), a.platform = "ascend610",
           NEW F, Whole(F), HeadLo(a, 0, m) + \h2000 <= F.size
    PROVE  ExternDone(a, m, F, A610!WriteExtern(F, a, m))
  <1> DEFINE R1 == WriteHash(F, HeadLo(a, 0, m), Covered(a))
             R == IF a.D THEN WriteHash(R1, HeadLo(a, 1, m), Covered(a)) ELSE R1
             at == HeadLo(a, 0, m) + MagicOff(a)
             G == A610!WriteExtern(F, a, m)
  <1>1. /\ MagicLen(a) = 24 /\ (a.before => at = m + \h4E0) /\ (~a.before => at = 0 + \h4E0)
    BY SMT DEF MagicLen, MagicOff, HeadLo, Later, Fits
  <1>2. \A K, k : A610!WriteMagic(K, a, k)
                    = PutPiece(K, Holding(SizeNoted(a, K), Piece("magic", k + \h4E0, 24)))
    BY Same610 DEF A610!WriteMagic, SizeNoted
  <1>3. CASE ~a.before
    <2>1. G = A610!WriteMagic(F, a, 0)  BY <1>3 DEF A610!WriteExtern
    <2>2. G = PutPiece(F, Holding(SizeNoted(a, F), Piece("magic", at, MagicLen(a))))
      BY <1>1, <1>2, <1>3, <2>1
    <2> QED  BY <1>3, <2>2, ExternFront DEF at
  <1>4. CASE a.before
    <2>1. \A K : /\ A610!WriteHeaderHash(K, a, 0, m) = WriteHash(K, HeadLo(a, 0, m), Covered(a))
                 /\ A610!WriteHeaderHash(K, a, 1, m) = WriteHash(K, HeadLo(a, 1, m), Covered(a))
      <3>1. A610!Cover = Covered(a)  BY DEF A610!Cover, Covered
      <3>2. A610!Base(0) + m = HeadLo(a, 0, m) /\ A610!Base(1) + m = HeadLo(a, 1, m)
        BY <1>4, SMT DEF A610!Base, HeadLo, Later
      <3>3. ~a.S  BY DEF Fits
      <3> QED  BY <3>1, <3>2, <3>3, Same610 DEF A610!WriteHeaderHash
    <2>2. G = A610!WriteMagic(R, a, m)  BY <1>4, <2>1 DEF A610!WriteExtern
    <2>3. Rehashed(a, m, F, R)  BY Rehash
    <2> HIDE DEF R
    <2>4. G = PutPiece(R, Holding(SizeNoted(a, R), Piece("magic", at, MagicLen(a))))
      BY <1>1, <1>2, <1>4, <2>2
    <2> QED  BY <1>4, <2>3, <2>4, ExternBehind DEF at
  <1> QED  BY <1>3, <1>4

LEMMA Extern1111 ==
    ASSUME NEW a, NEW m, Fits(a, m), a.platform = "as31xm1",
           NEW F, Whole(F), HeadLo(a, 0, m) + \h2000 <= F.size
    PROVE  ExternDone(a, m, F, H1111!WriteExtern(F, a, m))
  <1> DEFINE R1 == WriteHash(F, HeadLo(a, 0, m), Covered(a))
             R == IF a.D THEN WriteHash(R1, HeadLo(a, 1, m), Covered(a)) ELSE R1
             x == HeadLo(a, 0, m)
             at == x + MagicOff(a)
             M(K) == PutPiece(K, Holding(SizeNoted(a, K), Piece("magic", at, MagicLen(a))))
             N(K) == IF a.nvcnt THEN Write(M(K), "nvcnt", x + \h590, 8) ELSE M(K)
             G == H1111!WriteExtern(F, a, m)
  <1>1. /\ MagicLen(a) = 12 /\ (a.before => at = m + \h580 /\ x = m)
        /\ (~a.before => at = 0 + \h580 /\ x = 0)
    BY SMT DEF MagicLen, MagicOff, HeadLo, Later, Fits
  <1>2. \A K, k : H1111!WriteMagic(K, a, k)
                    = LET mm == PutPiece(K, Holding(SizeNoted(a, K), Piece("magic", k + \h580, 12)))
                          nn == IF a.nvcnt THEN Write(mm, "nvcnt", k + \h590, 8) ELSE mm
                      IN  IF a.before THEN PutPiece(nn, Holding(k, Piece("codelen", k + \h4E0, 8)))
                          ELSE nn
    BY Same1111 DEF H1111!WriteMagic, SizeNoted
  <1>3. CASE ~a.before
    <2>1. G = H1111!WriteMagic(F, a, 0)  BY <1>3 DEF H1111!WriteExtern
    <2>2. G = N(F)  BY <1>1, <1>2, <1>3, <2>1
    <2>3. G = M(F) \/ G = Write(M(F), "nvcnt", x + \h590, 8)  BY <2>2
    <2> QED  BY <1>3, <2>3, ExternFront DEF at, x
  <1>4. CASE a.before
    <2>1. \A K : /\ H1111!WriteHeaderHash(K, a, 0, m) = WriteHash(K, HeadLo(a, 0, m), Covered(a))
                 /\ H1111!WriteHeaderHash(K, a, 1, m) = WriteHash(K, HeadLo(a, 1, m), Covered(a))
      <3>1. H1111!Cover = Covered(a)  BY DEF H1111!Cover, Covered
      <3>2. H1111!Base(0) + m = HeadLo(a, 0, m) /\ H1111!Base(1) + m = HeadLo(a, 1, m)
        BY <1>4, SMT DEF H1111!Base, HeadLo, Later
      <3>3. ~a.S  BY DEF Fits
      <3> QED  BY <1>4, <3>1, <3>2, <3>3, Same1111 DEF H1111!WriteHeaderHash
    <2>2. G = H1111!WriteMagic(R, a, m)  BY <1>4, <2>1 DEF H1111!WriteExtern
    <2>3. Rehashed(a, m, F, R)  BY Rehash
    <2> HIDE DEF R
    <2>4. G = PutPiece(N(R), Holding(m, Piece("codelen", x + \h4E0, 8)))
      BY <1>1, <1>2, <1>4, <2>2
    <2>5. N(R) = M(R) \/ N(R) = Write(M(R), "nvcnt", x + \h590, 8)  OBVIOUS
    <2> HIDE DEF N
    <2> QED  BY <1>4, <2>3, <2>4, <2>5, ExternBehind DEF at, x
  <1> QED  BY <1>3, <1>4

-----------------------------------------------------------------------------
(* enc_img.py *)

LEMMA Recoded ==
    ASSUME NEW a, NEW m, Fits(a, m), ~a.before, NEW e \in {"aes", "sm4"},
           NEW b, b = [a EXCEPT !.enc = e]
    PROVE  /\ Fits(b, m) /\ b.enc = e /\ b.enc # "no" /\ b.platform = a.platform
           /\ b.before = a.before /\ b.S = a.S /\ b.D = a.D /\ b.B = a.B
           /\ b.addsoc = a.addsoc /\ b.nvcnt = a.nvcnt /\ b.cert = a.cert
           /\ b.addcms = a.addcms
           /\ Hs(b) = Hs(a) /\ HeadLen(b) = HeadLen(a) /\ CertOff(b) = CertOff(a)
           /\ Covered(b) = Covered(a)
           /\ \A h : HeadLo(b, h, m) = HeadLo(a, h, m) /\ Leads(b, h) = Leads(a, h)
  <1>1. a \in Args  BY DEF Fits
  <1>2. b \in Args  BY <1>1 DEF Args
  <1>3. /\ b.enc = e /\ b.platform = a.platform
        /\ b.before = a.before /\ b.S = a.S /\ b.D = a.D /\ b.B = a.B
        /\ b.addsoc = a.addsoc /\ b.nvcnt = a.nvcnt /\ b.cert = a.cert
        /\ b.addcms = a.addcms /\ b.tail = a.tail /\ b.partition = a.partition
    BY <1>1 DEF Args
  <1>4. Fits(b, m)
    <2> HIDE DEF Args
    <2> QED  BY <1>2, <1>3 DEF Fits
  <1>5. b.enc # "no"  BY <1>3
  <1>6. /\ Hs(b) = Hs(a) /\ HeadLen(b) = HeadLen(a) /\ CertOff(b) = CertOff(a)
        /\ Covered(b) = Covered(a)
        /\ \A h : HeadLo(b, h, m) = HeadLo(a, h, m) /\ Leads(b, h) = Leads(a, h)
    BY <1>3 DEF Hs, HeadLen, CertOff, Covered, HeadLo, Leads
  <1> QED  BY <1>3, <1>4, <1>5, <1>6

\* The first 0x2000 bytes are all that is copied.
LEMMA EncHeadKeeps ==
    ASSUME NEW a, NEW m, Fits(a, m), a.platform = "ascend610", ~a.before,
           NEW F, Whole(F), \h2000 <= F.size
    PROVE  LET G == EncHead(F)
           IN  /\ Whole(G) /\ G.size = \h2000
               /\ \A e \in F.ext : e.at + e.len <= \h2000 => e \in G.ext
               /\ \A h \in {0, 1} : /\ Headed(a, m, F, h) => Headed(a, m, G, h)
                                    /\ HeadBoxed(a, m, F, h) => HeadBoxed(a, m, G, h)
               /\ a.B /\ BcmIn(F) => BcmIn(G)
  <1> DEFINE G == EncHead(F)
             top == \h2000
  <1>1. /\ G.size = top /\ G.ext = {e \in F.ext : e.at + e.len <= top} /\ top \in Nat
    <2>1. F.size \in Nat  BY DEF Whole
    <2> QED  BY <2>1, SMT DEF EncHead
  <1> HIDE DEF G
  <1>2. Whole(G)  BY <1>1, SMT DEF Whole
  <1>3. \A f, at, len, v : at + len <= top =>
          /\ Piece(f, at, len) \in F.ext => Piece(f, at, len) \in G.ext
          /\ Holding(v, Piece(f, at, len)) \in F.ext => Holding(v, Piece(f, at, len)) \in G.ext
    <2>1. \A f, at, len, v : /\ Piece(f, at, len).at = at /\ Piece(f, at, len).len = len
                             /\ Holding(v, Piece(f, at, len)).at = at
                             /\ Holding(v, Piece(f, at, len)).len = len
      BY DEF Piece, Holding
    <2> HIDE DEF top
    <2> QED  BY <1>1, <2>1
  <1>4. \A x, y : Boxed(F, x, y) => Boxed(G, x, y)  BY <1>1 DEF Boxed
  <1>5. ASSUME NEW h \in {0, 1}, Headed(a, m, F, h)  PROVE Headed(a, m, G, h)
    <2> DEFINE x == HeadLo(a, h, m)
               l == HeadLen(a)
               c == CertOff(a)
               s == a.cert
               w == IF a.enc = "no" THEN 0 ELSE 1
    <2>1. /\ x \in Nat /\ (x = 0 \/ x = \h1000) /\ l = \h464 /\ c = \h500
          /\ s \in Nat /\ s <= \h618 /\ SigLen \in Nat /\ SigLen <= \h200
      <3>1. a \in Args  BY DEF Fits
      <3> QED  BY <3>1, Sizes, SMT DEF HeadLo, Later, HeadLen, CertOff
    <2>2. /\ Holding(Leads(a, h), Piece("head", x, l)) \in F.ext
          /\ Holding(w, Piece("encflag", x + l, 4)) \in F.ext
          /\ a.addsoc => Piece("cert", x + c, s) \in F.ext
          /\ a.addsoc => Piece("sig", x + \hE00, SigLen) \in F.ext
          /\ a.nvcnt /\ a.platform = "ascend610" => Piece("nvcnt", x + \hB18, 8) \in F.ext
      BY <1>5 DEF Headed
    <2> HIDE DEF x, l, c, s, w
    <2>3. /\ x + l <= top /\ (x + l) + 4 <= top /\ (x + c) + s <= top
          /\ (x + \hE00) + SigLen <= top /\ (x + \hB18) + 8 <= top
      BY <2>1, SMT
    <2>4. /\ Holding(Leads(a, h), Piece("head", x, l)) \in G.ext
          /\ Holding(w, Piece("encflag", x + l, 4)) \in G.ext
      BY <1>3, <2>2, <2>3
    <2>5. a.addsoc => Piece("cert", x + c, s) \in G.ext
      BY <1>3, <2>2, <2>3
    <2>6. a.addsoc => Piece("sig", x + \hE00, SigLen) \in G.ext
      BY <1>3, <2>2, <2>3
    <2>7. a.nvcnt /\ a.platform = "ascend610" => Piece("nvcnt", x + \hB18, 8) \in G.ext
      BY <1>3, <2>2, <2>3
    <2> QED  BY <2>4, <2>5, <2>6, <2>7 DEF Headed, x, l, c, s, w
  <1>6. BcmIn(F) => BcmIn(G)
    <2>1. \h1000 + BcmLen <= top  BY InputSizes, SMT
    <2> QED  BY <1>3, <2>1 DEF BcmIn
  <1>7. \A e \in F.ext : e.at + e.len <= \h2000 => e \in G.ext  BY <1>1
  <1>8. \A h \in {0, 1} : HeadBoxed(a, m, F, h) => HeadBoxed(a, m, G, h)  BY <1>4 DEF HeadBoxed
  <1>9. \A h \in {0, 1} : Headed(a, m, F, h) => Headed(a, m, G, h)  BY <1>5
  <1> QED  BY <1>1, <1>2, <1>6, <1>7, <1>8, <1>9 DEF G

\* enc_img.py writes salt and flag into one header; b is what a becomes.
Flagged(a, b, m, F, G, k) ==
    /\ Wrote(F, G, HeadLo(a, k, m) + \h464, HeadLo(a, k, m) + \h49C)
    /\ Salted(b, m, G, k)
    /\ Headed(a, m, F, k) => Headed(b, m, G, k)
    /\ k = 0 /\ BcmIn(F) => BcmIn(G)
    /\ \A h \in {0, 1} :
         /\ HeadBoxed(b, m, F, h) => HeadBoxed(b, m, G, h)
         /\ h # k => /\ Headed(a, m, F, h) => Headed(a, m, G, h)
                     /\ Headed(b, m, F, h) => Headed(b, m, G, h)
                     /\ Salted(b, m, F, h) => Salted(b, m, G, h)

LEMMA Flag ==
    ASSUME NEW a, NEW m, Fits(a, m), a.platform = "ascend610", ~a.before, a.enc = "no",
           NEW e \in {"aes", "sm4"}, NEW b, b = [a EXCEPT !.enc = e],
           NEW k \in {0, 1}, NEW F, Whole(F)
    PROVE  Flagged(a, b, m, F, EncSaltAndIv(F, k), k)
  <1> DEFINE x == HeadLo(a, k, m)
             s == x + \h46C
             sl == \h30
             f == x + \h464
             hi == x + \h49C
             F1 == Write(F, "salt", s, sl)
             p == Holding(1, Piece("encflag", f, 4))
             G == EncSaltAndIv(F, k)
  <1>1. /\ Fits(b, m) /\ b.enc # "no" /\ b.platform = a.platform
        /\ b.before = a.before /\ b.addsoc = a.addsoc /\ b.nvcnt = a.nvcnt /\ b.cert = a.cert
        /\ HeadLen(b) = HeadLen(a) /\ CertOff(b) = CertOff(a) /\ Covered(b) = Covered(a)
        /\ \A h : HeadLo(b, h, m) = HeadLo(a, h, m) /\ Leads(b, h) = Leads(a, h)
    BY Recoded
  <1>2. G = PutPiece(F1, p)
    <2>1. A610!Base(k) = x  BY SMT DEF A610!Base, HeadLo, Later
    <2> QED  BY <2>1 DEF EncSaltAndIv
  <1>3. /\ x \in Nat /\ (x = 0 \/ x = \h1000) /\ s \in Nat /\ f \in Nat /\ hi \in Nat /\ sl \in Nat
        /\ s + sl = hi /\ f + 4 <= s /\ f + 4 <= hi /\ f <= s /\ s + sl <= hi /\ f <= f
        /\ f = x + \h464 /\ hi = x + \h49C /\ (k = 0 => x = 0) /\ f + 4 \in Nat
    BY SMT DEF HeadLo, Later
  <1>4. HeadLen(a) = \h464 /\ Covered(a) = \h4BC /\ CertOff(a) = \h500
    BY SMT DEF HeadLen, Covered, CertOff
  <1>5. p.f # "cipher" /\ p.at = f /\ p.len = 4  BY HoldingIs
  <1> HIDE DEF s, sl, f, hi, G, p, x
  <1>6. Wrote(F, F1, s, s + sl) /\ Piece("salt", s, sl) \in F1.ext
    BY <1>3, WriteIn
  <1> HIDE DEF F1
  <1>7. Wrote(F1, G, f, f + 4) /\ p \in G.ext
    <2>1. p.at \in Nat /\ p.len \in Nat /\ Whole(F1)  BY <1>3, <1>5, <1>6 DEF Wrote
    <2>2. /\ Wrote(F1, PutPiece(F1, p), p.at, p.at + p.len) /\ p \in PutPiece(F1, p).ext
      BY <2>1, PieceWrote
    <2> QED  BY <1>2, <1>5, <2>2
  <1>8. Wrote(F, G, f, hi)
    BY <1>3, <1>6, <1>7, WroteBoth
  <1>9. Piece("salt", s, sl) \in G.ext
    BY <1>3, <1>6, <1>7, StillThere
  <1>10. Salted(b, m, G, k)  BY <1>1, <1>9 DEF Salted, s, sl, x
  <1>11. ASSUME Headed(a, m, F, k)  PROVE Headed(b, m, G, k)
    <2> DEFINE c == CertOff(a)
               t == a.cert
    <2>1. /\ Holding(Leads(a, k), Piece("head", x, \h464)) \in F.ext
          /\ a.addsoc => Piece("cert", x + c, t) \in F.ext
          /\ a.addsoc => Piece("sig", x + \hE00, SigLen) \in F.ext
          /\ a.nvcnt /\ a.platform = "ascend610" => Piece("nvcnt", x + \hB18, 8) \in F.ext
      BY <1>4, <1>11 DEF Headed, x
    <2>2. x + \h464 <= f /\ hi <= x + c /\ hi <= x + \hE00 /\ hi <= x + \hB18
      BY <1>3, <1>4, SMT
    <2> HIDE DEF c, t
    <2>3. Holding(Leads(a, k), Piece("head", x, \h464)) \in G.ext
      BY <1>8, <2>1, <2>2, PieceKept
    <2>4. a.addsoc => Piece("cert", x + c, t) \in G.ext  BY <1>8, <2>1, <2>2, StillThere
    <2>5. a.addsoc => Piece("sig", x + \hE00, SigLen) \in G.ext  BY <1>8, <2>1, <2>2, StillThere
    <2>6. a.nvcnt /\ a.platform = "ascend610" => Piece("nvcnt", x + \hB18, 8) \in G.ext
      BY <1>8, <2>1, <2>2, StillThere
    <2>7. Holding(1, Piece("encflag", x + \h464, 4)) \in G.ext
      BY <1>3, <1>7 DEF p
    <2>8. (IF b.enc = "no" THEN 0 ELSE 1) = 1  BY <1>1
    <2> QED  BY <1>1, <1>4, <2>3, <2>4, <2>5, <2>6, <2>7, <2>8 DEF Headed, x, c, t
  <1>12. k = 0 /\ BcmIn(F) => BcmIn(G)
    <2>1. k = 0 => hi <= \h1000  BY <1>3, SMT
    <2>2. BcmIn(F) /\ hi <= \h1000 => BcmIn(G)  BY <1>3, <1>8, BcmKept
    <2> QED  BY <2>1, <2>2
  <1>13. ASSUME NEW h \in {0, 1}
         PROVE  /\ HeadBoxed(b, m, F, h) => HeadBoxed(b, m, G, h)
                /\ h # k => /\ Headed(a, m, F, h) => Headed(a, m, G, h)
                            /\ Headed(b, m, F, h) => Headed(b, m, G, h)
                            /\ Salted(b, m, F, h) => Salted(b, m, G, h)
    <2> DEFINE z == HeadLo(a, h, m)
               y == z + Covered(a)
    <2>1. z \in Nat /\ (h = k => z = x) /\ (h # k => z = x + \h1000 \/ x = z + \h1000)
      BY SMT DEF HeadLo, Later, x
    <2>2. y \in Nat /\ y = z + \h4BC /\ HeadLo(b, h, m) = z /\ HeadLo(b, h, m) + Covered(b) = y
      BY <1>1, <1>4, <2>1, SMT
    <2> HIDE DEF z, y
    <2>3. /\ hi <= z \/ y <= f \/ (z <= f /\ hi <= y)
          /\ h # k => hi <= z \/ z + \h1000 <= f
          /\ h # k => hi <= z \/ y <= f
      BY <1>3, <2>1, <2>2, SMT
    <2>4. HeadBoxed(b, m, F, h) => HeadBoxed(b, m, G, h)
      BY <1>3, <1>8, <2>1, <2>2, <2>3, BoxedKept DEF HeadBoxed
    <2>5. h # k => (Headed(a, m, F, h) => Headed(a, m, G, h))
      BY <1>3, <1>8, <2>3, HeadedKept DEF z
    <2>6. Fits(b, m) /\ b.platform = "ascend610" /\ HeadLo(b, h, m) = z
          /\ HeadLo(b, h, m) + Covered(b) = y
      BY <1>1, <2>2
    <2>7. ASSUME h # k  PROVE Headed(b, m, F, h) => Headed(b, m, G, h)
      <3>1. hi <= HeadLo(b, h, m) \/ HeadLo(b, h, m) + \h1000 <= f  BY <2>3, <2>6, <2>7
      <3> QED  BY <1>3, <1>8, <2>6, <3>1, HeadedKept
    <2>8. ASSUME h # k  PROVE Salted(b, m, F, h) => Salted(b, m, G, h)
      <3>1. hi <= HeadLo(b, h, m) \/ HeadLo(b, h, m) + Covered(b) <= f  BY <2>3, <2>6, <2>8
      <3>2. Fits(b, m) /\ b.platform = "ascend610"  BY <2>6
      <3>3. f \in Nat /\ hi \in Nat  BY <1>3
      <3> QED  BY <1>8, <3>1, <3>2, <3>3, SaltedKept
    <2> QED  BY <2>4, <2>5, <2>7, <2>8
  <1> QED  BY <1>8, <1>10, <1>11, <1>12, <1>13 DEF Flagged, G, f, hi, x

\* What enc_img.py leaves of the packed image, before it takes the hashes.
Recast(b, m, q, G) ==
    /\ Whole(G) /\ \h2000 <= G.size
    /\ \A h \in Hs(b) : /\ Headed(b, m, G, h) /\ HeadBoxed(b, m, G, h)
                        /\ Salted(b, m, G, h)
    /\ b.B => BcmIn(G)
    /\ q \in G.ext

\* The piece that holds the magic number.
Noting(v) == Holding(v, Piece("magic", \h4E0, 24))

LEMMA NotingApart ==
    ASSUME NEW F, NEW G, NEW lo \in Nat, NEW hi \in Nat, Wrote(F, G, lo, hi),
           NEW v, Noting(v) \in F.ext, hi <= \h4E0 \/ \h4F8 <= lo
    PROVE  Noting(v) \in G.ext
  <1> DEFINE x == \h4E0
             y == \h4F8
  <1>1. x + 24 = y  BY SMT
  <1>2. hi <= x \/ y <= lo  OBVIOUS
  <1> HIDE DEF x, y
  <1>3. hi <= x \/ x + 24 <= lo  BY <1>1, <1>2
  <1> QED  BY <1>3, PieceKept DEF Noting, x

LEMMA EncSalts ==
    ASSUME NEW a, NEW m, Fits(a, m), a.platform = "ascend610", ~a.before, a.enc = "no",
           NEW e \in {"aes", "sm4"}, NEW b, b = [a EXCEPT !.enc = e],
           NEW F, Whole(F), F.size = \h2000, a.B => BcmIn(F), NEW v, Noting(v) \in F.ext,
           \A h \in Hs(a) : Headed(a, m, F, h) /\ HeadBoxed(a, m, F, h),
           NEW F1, NEW G, F1 = EncSaltAndIv(F, 0),
           G = IF a.B THEN F1 ELSE EncSaltAndIv(F1, 1)
    PROVE  Recast(b, m, Noting(v), G) /\ G.size = \h2000
  <1> DEFINE l0 == HeadLo(a, 0, m) + \h464
             h0 == HeadLo(a, 0, m) + \h49C
             l1 == HeadLo(a, 1, m) + \h464
             h1 == HeadLo(a, 1, m) + \h49C
             top == \h2000
  <1>1. /\ b.B = a.B /\ Hs(b) = Hs(a) /\ Covered(b) = Covered(a)
        /\ \A h : HeadLo(b, h, m) = HeadLo(a, h, m)
    BY Recoded
  <1>2. /\ l0 \in Nat /\ h0 \in Nat /\ l1 \in Nat /\ h1 \in Nat /\ h0 <= \h4E0 /\ \h4F8 <= l1
        /\ h0 <= top /\ h1 <= top
    BY SMT DEF HeadLo, Later
  <1>3. F.size = top  OBVIOUS
  <1> HIDE DEF l0, h0, l1, h1, top
  <1>4. \A h \in Hs(a) : h \in {0, 1} /\ HeadBoxed(b, m, F, h)
    BY <1>1 DEF Hs, HeadBoxed
  <1>5. 0 \in Hs(a)  BY DEF Hs
  <1>6. Flagged(a, b, m, F, F1, 0)  BY Flag
  <1>7. Wrote(F, F1, l0, h0)  BY <1>6 DEF Flagged, l0, h0
  <1>8. Whole(F1) /\ F1.size = top /\ Noting(v) \in F1.ext
    <2>1. Noting(v) \in F1.ext  BY <1>2, <1>7, NotingApart
    <2> QED  BY <1>2, <1>3, <1>7, <2>1 DEF Wrote
  <1>9. /\ Salted(b, m, F1, 0) /\ Headed(b, m, F1, 0)
        /\ BcmIn(F) => BcmIn(F1)
        /\ \A h \in {0, 1} : /\ HeadBoxed(b, m, F, h) => HeadBoxed(b, m, F1, h)
                             /\ h # 0 => (Headed(a, m, F, h) => Headed(a, m, F1, h))
    BY <1>5, <1>6 DEF Flagged
  <1>10. CASE a.B
    <2>1. G = F1 /\ Hs(a) = {0}  BY <1>10 DEF Hs, Fits
    <2>2. top <= top  BY <1>2, SMT DEF top
    <2>3. \A h \in Hs(b) : /\ Headed(b, m, G, h) /\ HeadBoxed(b, m, G, h) /\ Salted(b, m, G, h)
      BY <1>1, <1>4, <1>9, <2>1
    <2>4. b.B => BcmIn(G)  BY <1>9, <1>10, <2>1
    <2> QED  BY <1>8, <2>1, <2>2, <2>3, <2>4 DEF Recast, top
  <1>11. CASE ~a.B
    <2>1. G = EncSaltAndIv(F1, 1)  BY <1>11
    <2>2. Flagged(a, b, m, F1, G, 1)  BY <1>8, <2>1, Flag
    <2>3. Wrote(F1, G, l1, h1)  BY <2>2 DEF Flagged, l1, h1
    <2>4. Whole(G) /\ G.size = top /\ Noting(v) \in G.ext
      <3>1. Noting(v) \in G.ext  BY <1>2, <1>8, <2>3, NotingApart
      <3> QED  BY <1>2, <1>8, <2>3, <3>1 DEF Wrote
    <2>5. /\ Salted(b, m, G, 1)
          /\ Headed(a, m, F1, 1) => Headed(b, m, G, 1)
          /\ Headed(b, m, F1, 0) => Headed(b, m, G, 0)
          /\ Salted(b, m, F1, 0) => Salted(b, m, G, 0)
          /\ \A h \in {0, 1} : HeadBoxed(b, m, F1, h) => HeadBoxed(b, m, G, h)
      <3>1. 0 # 1 /\ 0 \in {0, 1}  OBVIOUS
      <3> QED  BY <2>2, <3>1 DEF Flagged
    <2>6. 1 \in Hs(a) => Headed(b, m, G, 1)
      <3>1. 1 # 0 /\ 1 \in {0, 1}  OBVIOUS
      <3> QED  BY <1>9, <2>5, <3>1
    <2>7. Headed(b, m, G, 0) /\ Salted(b, m, G, 0)  BY <1>9, <2>5
    <2>8. ASSUME NEW h \in Hs(b)
          PROVE Headed(b, m, G, h) /\ HeadBoxed(b, m, G, h) /\ Salted(b, m, G, h)
      <3>1. h \in {0, 1} /\ HeadBoxed(b, m, G, h)  BY <1>1, <1>4, <1>9, <2>5
      <3> QED  BY <1>1, <2>5, <2>6, <2>7, <3>1
    <2>9. top <= top  BY <1>2, SMT DEF top
    <2> QED  BY <1>1, <1>11, <2>4, <2>8, <2>9 DEF Recast, top
  <1> QED  BY <1>10, <1>11

LEMMA WriteSize ==
    ASSUME NEW F, NEW f, NEW at, NEW len
    PROVE  Write(F, f, at, len).size = IF F.size < at + len THEN at + len ELSE F.size
  BY DEF Write, PutPiece, Put, Piece

LEMMA EncCipher ==
    ASSUME NEW b, NEW m, Fits(b, m), b.platform = "ascend610", ~b.before,
           NEW F, NEW v, Recast(b, m, Noting(v), F), NEW top, top = \h2000, F.size = top,
           NEW len \in Nat, NEW G, G = Write(F, "cipher", top, len)
    PROVE  /\ Recast(b, m, Noting(v), G)
           /\ Piece("cipher", top, len) \in G.ext
           /\ G.size = top + len
  <1> DEFINE hi == top + len
  <1>1. top \in Nat /\ hi \in Nat /\ \h4F8 <= top /\ \h2000 <= top /\ top <= hi  BY SMT
  <1>2. Whole(F)  BY DEF Recast
  <1>3. G.size = top + len
    <2>1. G.size = IF F.size < top + len THEN top + len ELSE F.size  BY WriteSize
    <2>2. F.size = top  OBVIOUS
    <2> QED  BY <1>1, <2>1, <2>2, SMT
  <1>4. Wrote(F, G, top, hi) /\ Piece("cipher", top, len) \in G.ext
    <2> QED  BY <1>1, <1>2, WriteIn
  <1> HIDE DEF hi
  <1>5. ASSUME NEW h \in {0, 1}
        PROVE  /\ HeadBoxed(b, m, F, h) => HeadBoxed(b, m, G, h)
               /\ Headed(b, m, F, h) => Headed(b, m, G, h)
               /\ Salted(b, m, F, h) => Salted(b, m, G, h)
    <2> DEFINE z == HeadLo(b, h, m)
               c == z + Covered(b)
    <2>1. z \in Nat /\ c \in Nat /\ c <= top /\ z + \h1000 <= top
      BY SMT DEF HeadLo, Later, Covered, Fits
    <2> HIDE DEF z, c
    <2>2. HeadBoxed(b, m, F, h) => HeadBoxed(b, m, G, h)
      BY <1>1, <1>4, <2>1, BoxedKept DEF HeadBoxed, z, c
    <2>3. Headed(b, m, F, h) => Headed(b, m, G, h)
      BY <1>1, <1>4, <2>1, HeadedKept DEF z
    <2>4. Salted(b, m, F, h) => Salted(b, m, G, h)
      BY <1>1, <1>4, <2>1, SaltedKept DEF z, c
    <2> QED  BY <2>2, <2>3, <2>4
  <1>6. \A h \in Hs(b) : Headed(b, m, G, h) /\ HeadBoxed(b, m, G, h) /\ Salted(b, m, G, h)
    <2>1. \A h \in Hs(b) : h \in {0, 1}  BY DEF Hs
    <2> QED  BY <1>5, <2>1 DEF Recast
  <1>7. b.B => BcmIn(G)
    <2>1. BcmIn(F) => BcmIn(G)  BY <1>1, <1>4, BcmKept
    <2> QED  BY <2>1 DEF Recast
  <1>8. Noting(v) \in G.ext
    <2>1. Noting(v) \in F.ext  BY DEF Recast
    <2> QED  BY <1>1, <1>4, <2>1, NotingApart
  <1>9. \h2000 <= G.size  BY <1>1, <1>3, SMT DEF hi
  <1>10. Whole(G)  BY <1>4 DEF Wrote
  <1> QED  BY <1>3, <1>4, <1>6, <1>7, <1>8, <1>9, <1>10 DEF Recast

LEMMA EncHash ==
    ASSUME NEW b, NEW m, Fits(b, m), b.platform = "ascend610", ~b.before,
           NEW F, NEW v, Recast(b, m, Noting(v), F),
           NEW k \in {0, 1}, k = 1 => ~b.B,
           NEW top, top = \h2000, NEW len \in Nat, Piece("cipher", top, len) \in F.ext,
           NEW G, G = WriteHash(F, HeadLo(b, k, m), Covered(b))
    PROVE  /\ Recast(b, m, Noting(v), G) /\ G.size = F.size
           /\ Piece("cipher", top, len) \in G.ext
           /\ k \in Hs(b) => Hashed(b, m, G, k)
           /\ \A h \in Hs(b) : h # k /\ Hashed(b, m, F, h) => Hashed(b, m, G, h)
  <1> DEFINE l == HeadLo(b, k, m) + Covered(b)
             hi == l + 32
  <1>1. /\ l \in Nat /\ hi \in Nat /\ top \in Nat /\ hi <= top /\ l <= top
        /\ hi <= \h4E0 \/ \h4F8 <= l
        /\ k = 0 => hi <= \h1000
    BY SMT DEF HeadLo, Later, Covered, Fits
  <1>2. Whole(F) /\ top <= F.size  BY DEF Recast
  <1>3. F.size \in Nat  BY <1>2 DEF Whole
  <1> HIDE DEF l
  <1>4. HeadHashed(b, m, F, G, k)
    <2>1. HeadLo(b, k, m) + Covered(b) <= F.size  BY <1>1, <1>2, <1>3 DEF l
    <2> QED  BY <1>2, <2>1, HashHead
  <1>5. Wrote(F, G, l, hi)  BY <1>4 DEF HeadHashed, l
  <1> HIDE DEF hi
  <1>6. Whole(G) /\ G.size = F.size  BY <1>1, <1>2, <1>3, <1>5 DEF Wrote
  <1>7. Piece("cipher", top, len) \in G.ext
    <2> QED  BY <1>1, <1>5, StillThere
  <1>8. Noting(v) \in G.ext
    <2>1. Noting(v) \in F.ext  BY DEF Recast
    <2> QED  BY <1>1, <1>5, <2>1, NotingApart
  <1>9. b.B => BcmIn(G)
    <2>1. b.B => hi <= \h1000  BY <1>1
    <2>2. BcmIn(F) /\ hi <= \h1000 => BcmIn(G)  BY <1>1, <1>5, BcmKept
    <2> QED  BY <2>1, <2>2 DEF Recast
  <1>10. \A h \in Hs(b) : h \in {0, 1}  BY DEF Hs
  <1>11. /\ HeadBoxed(b, m, F, k) => Hashed(b, m, G, k)
         /\ \A h \in {0, 1} :
              /\ Headed(b, m, F, h) => Headed(b, m, G, h)
              /\ HeadBoxed(b, m, F, h) => HeadBoxed(b, m, G, h)
              /\ Salted(b, m, F, h) => Salted(b, m, G, h)
              /\ h # k /\ HeadBoxed(b, m, F, h) /\ Hashed(b, m, F, h) => Hashed(b, m, G, h)
    BY <1>4 DEF HeadHashed
  <1>12. \A h \in Hs(b) : Headed(b, m, F, h) /\ HeadBoxed(b, m, F, h) /\ Salted(b, m, F, h)
    BY DEF Recast
  <1>13. \A h \in Hs(b) : Headed(b, m, G, h) /\ HeadBoxed(b, m, G, h) /\ Salted(b, m, G, h)
    BY <1>10, <1>11, <1>12
  <1>14. /\ k \in Hs(b) => Hashed(b, m, G, k)
         /\ \A h \in Hs(b) : h # k /\ Hashed(b, m, F, h) => Hashed(b, m, G, h)
    BY <1>10, <1>11, <1>12
  <1>15. Recast(b, m, Noting(v), G)
    BY <1>2, <1>6, <1>8, <1>9, <1>13 DEF Recast
  <1> QED  BY <1>6, <1>7, <1>14, <1>15

LEMMA EncTail ==
    ASSUME NEW b, NEW m, Fits(b, m), b.platform = "ascend610", ~b.before,
           NEW F2, NEW v, Recast(b, m, Noting(v), F2), NEW top, top = \h2000, F2.size = top,
           NEW len \in Nat, NEW F3, NEW F4, NEW F5, NEW G,
           F3 = Write(F2, "cipher", top, len),
           F4 = WriteHash(F3, HeadLo(b, 0, m), Covered(b)),
           F5 = WriteHash(F4, HeadLo(b, 1, m), Covered(b)),
           G = IF b.B THEN F4 ELSE F5
    PROVE  /\ Recast(b, m, Noting(v), G) /\ G.size = top + len
           /\ Piece("cipher", top, len) \in G.ext
           /\ \A h \in Hs(b) : Hashed(b, m, G, h)
  <1>7. /\ Recast(b, m, Noting(v), F3) /\ Piece("cipher", top, len) \in F3.ext
        /\ F3.size = top + len
    BY EncCipher
  <1>8. /\ Recast(b, m, Noting(v), F4) /\ F4.size = F3.size
        /\ Piece("cipher", top, len) \in F4.ext
        /\ 0 \in Hs(b) => Hashed(b, m, F4, 0)
    <2>1. 0 \in {0, 1} /\ (0 = 1 => ~b.B)  OBVIOUS
    <2> QED  BY <1>7, <2>1, EncHash
  <1>9. 0 \in Hs(b)  BY DEF Hs
  <1>10. CASE b.B
    <2>1. G = F4 /\ Hs(b) = {0}  BY <1>10 DEF Hs, Fits
    <2> QED  BY <1>7, <1>8, <2>1
  <1>11. CASE ~b.B
    <2>1. /\ Recast(b, m, Noting(v), F5) /\ F5.size = F4.size
          /\ Piece("cipher", top, len) \in F5.ext
          /\ 1 \in Hs(b) => Hashed(b, m, F5, 1)
          /\ \A h \in Hs(b) : h # 1 /\ Hashed(b, m, F4, h) => Hashed(b, m, F5, h)
      <3>1. 1 \in {0, 1} /\ (1 = 1 => ~b.B)  BY <1>11
      <3> QED  BY <1>8, <3>1, EncHash
    <2>2. G = F5 /\ \A h \in Hs(b) : h = 0 \/ h = 1  BY <1>11 DEF Hs
    <2>3. 0 # 1  OBVIOUS
    <2> QED  BY <1>7, <1>8, <1>9, <2>1, <2>2, <2>3
  <1> QED  BY <1>10, <1>11

\* EncImage, of the command line of the packed image.
EncOf(a, F, e) ==
    LET one  == EncSaltAndIv(EncHead(F), 0)
        both == IF a.B THEN one ELSE EncSaltAndIv(one, 1)
        from == IF a.S THEN 0 ELSE \h2000
        len  == F.size - from + IF e = "sm4" THEN 16 ELSE 0
        all  == Write(both, "cipher", from, len)
        hash == WriteHash(all, A610!At(a, 0), A610!Cover)
    IN  IF a.B THEN hash ELSE WriteHash(hash, A610!At(a, \h1000), A610!Cover)

LEMMA EncImageIs == \A e : EncImage(file, e) = EncOf(args, file, e)
  BY DEF EncImage, EncOf, EncFrom

EncDone(b, m, G) ==
    /\ \A h \in Hs(b) : Headed(b, m, G, h) /\ Hashed(b, m, G, h) /\ Salted(b, m, G, h)
    /\ b.B => BcmIn(G)
    /\ Has(G, "cipher", \h2000)
    /\ b.enc # "sm4" => Magic(b, G)

Becomes(a, b, e) == b = [a EXCEPT !.enc = e]

LEMMA Enc ==
    ASSUME NEW a, NEW m, Fits(a, m), a.platform = "ascend610", ~a.before, a.enc = "no",
           NEW e \in {"aes", "sm4"}, NEW b, Becomes(a, b, e),
           NEW F, Whole(F), \h2000 <= F.size, a.B => BcmIn(F),
           MagicIn(a, F, HeadLo(a, 0, m) + MagicOff(a), MagicLen(a)),
           \A h \in Hs(a) : Headed(a, m, F, h) /\ HeadBoxed(a, m, F, h)
    PROVE  EncDone(b, m, EncOf(a, F, e))
  <1> DEFINE F0 == EncHead(F)
             F1 == EncSaltAndIv(F0, 0)
             F2 == IF a.B THEN F1 ELSE EncSaltAndIv(F1, 1)
             top == \h2000
             len == F.size - top + IF e = "sm4" THEN 16 ELSE 0
             F3 == Write(F2, "cipher", top, len)
             F4 == WriteHash(F3, HeadLo(b, 0, m), Covered(b))
             F5 == WriteHash(F4, HeadLo(b, 1, m), Covered(b))
             G == IF a.B THEN F4 ELSE F5
             v == F.size
  <1>1. /\ Fits(b, m) /\ b.platform = a.platform /\ b.before = a.before /\ b.B = a.B
        /\ b.enc = e /\ b.D = a.D
        /\ Hs(b) = Hs(a) /\ Covered(b) = Covered(a)
        /\ \A h : HeadLo(b, h, m) = HeadLo(a, h, m)
    BY Recoded DEF Becomes
  <1>2. EncOf(a, F, e) = G
    <2>1. A610!At(a, 0) = HeadLo(b, 0, m) /\ A610!At(a, \h1000) = HeadLo(b, 1, m)
      <3>1. ~a.S  BY DEF Fits
      <3>2. HeadLo(a, 0, m) = 0 /\ HeadLo(a, 1, m) = \h1000  BY SMT DEF HeadLo, Later
      <3> QED  BY <1>1, <3>1, <3>2 DEF A610!At
    <2>2. A610!Cover = Covered(b)  BY <1>1 DEF A610!Cover, Covered
    <2>3. (IF a.S THEN 0 ELSE \h2000) = top  BY DEF Fits
    <2> QED  BY <2>1, <2>2, <2>3 DEF EncOf
  <1>3. v \in Nat /\ top <= v /\ len \in Nat /\ (e # "sm4" => top + len = v) /\ top \in Nat
    BY SMT DEF Whole
  <1> HIDE DEF F0, F1, F2, len, F3, F4, F5, G, v, top
  <1>4. /\ Whole(F0) /\ F0.size = \h2000
        /\ \A p \in F.ext : p.at + p.len <= \h2000 => p \in F0.ext
        /\ \A h \in {0, 1} : /\ Headed(a, m, F, h) => Headed(a, m, F0, h)
                             /\ HeadBoxed(a, m, F, h) => HeadBoxed(a, m, F0, h)
        /\ a.B /\ BcmIn(F) => BcmIn(F0)
    BY EncHeadKeeps DEF F0
  <1>5. Noting(v) \in F0.ext
    <2>1. /\ HeadLo(a, 0, m) + MagicOff(a) = \h4E0 /\ MagicLen(a) = 24
      BY SMT DEF HeadLo, Later, MagicOff, MagicLen
    <2>2. SizeNoted(a, F) = v  BY DEF SizeNoted, v
    <2>3. Noting(v) \in F.ext  BY <2>1, <2>2 DEF MagicIn, Noting
    <2>4. Noting(v).at = \h4E0 /\ Noting(v).len = 24  BY HoldingIs DEF Noting
    <2>5. Noting(v).at + Noting(v).len <= \h2000  BY <2>4, SMT
    <2> QED  BY <1>4, <2>3, <2>5
  <1>6. Recast(b, m, Noting(v), F2) /\ F2.size = \h2000
    <2>1. \A h \in Hs(a) : Headed(a, m, F0, h) /\ HeadBoxed(a, m, F0, h)
      <3>1. \A h \in Hs(a) : h \in {0, 1}  BY DEF Hs
      <3> QED  BY <1>4, <3>1
    <2>2. a.B => BcmIn(F0)  BY <1>4
    <2> QED  BY <1>4, <1>5, <2>1, <2>2, EncSalts DEF F1, F2, Becomes
  <1>11. /\ Recast(b, m, Noting(v), G) /\ G.size = top + len
         /\ Piece("cipher", top, len) \in G.ext
         /\ \A h \in Hs(b) : Hashed(b, m, G, h)
    <2>1. Fits(b, m) /\ b.platform = "ascend610" /\ ~b.before  BY <1>1
    <2>2. Recast(b, m, Noting(v), F2) /\ F2.size = top /\ top = \h2000  BY <1>6 DEF top
    <2>3. G = IF b.B THEN F4 ELSE F5  BY <1>1 DEF G
    <2>4. len \in Nat  BY <1>3
    <2>5. /\ F3 = Write(F2, "cipher", top, len)
          /\ F4 = WriteHash(F3, HeadLo(b, 0, m), Covered(b))
          /\ F5 = WriteHash(F4, HeadLo(b, 1, m), Covered(b))
      BY DEF F3, F4, F5
    <2> QED  BY <2>1, <2>2, <2>3, <2>4, <2>5, EncTail
  <1>12. Has(G, "cipher", \h2000)
    <2>1. Piece("cipher", top, len).f = "cipher" /\ Piece("cipher", top, len).at = top
      BY DEF Piece
    <2> QED  BY <1>11, <2>1 DEF Has, top
  <1>13. b.enc # "sm4" => Magic(b, G)
    <2>1. Noting(v).f = "magic" /\ Noting(v).val = v  BY HoldingIs DEF Noting
    <2>2. b.enc # "sm4" => G.size = v  BY <1>1, <1>3, <1>11
    <2>3. Noting(v) \in G.ext  BY <1>11 DEF Recast
    <2> QED  BY <1>1, <2>1, <2>2, <2>3 DEF Magic
  <1> QED  BY <1>2, <1>11, <1>12, <1>13 DEF EncDone, Recast

-----------------------------------------------------------------------------
(* hi1910 *)

FitsHi1910(a, m) ==
    /\ a \in Args /\ m \in Nat /\ 0 < m
    /\ a.platform = "hi1910" /\ ~a.before
    /\ a.S => a.addsoc /\ ~a.addcms /\ m <= \hC000
    /\ a.tail <= \h7F0

Lo1910(a) == IF a.S THEN \hC000 ELSE 0

Image1910(a) == IF a.S THEN 0 ELSE \h4000

Lead1910(a) == IF a.S THEN \hC000 ELSE \h4000

Head1910(a, F) ==
    /\ Holding(Lead1910(a), Piece("head", Lo1910(a), \h470)) \in F.ext
    /\ a.addsoc => /\ Piece("cert", Lo1910(a) + \h500, a.cert) \in F.ext
                   /\ Piece("sig", Lo1910(a) + \h1500, SigLen) \in F.ext
                   /\ Piece("sig", Lo1910(a) + \h1700, SigLen) \in F.ext
                   /\ a.cert <= \h500 => Piece("cert", Lo1910(a) + \h1000, a.cert) \in F.ext

ImageIn1910(a, R, F) == Copied(R, Image1910(a)) \subseteq F.ext

TailLo1910(m) == (\h4000 + m) + 16

Tail1910(a, m, F) ==
    /\ Piece("cms", TailLo1910(m), 16 + a.tail) \in F.ext
    /\ Piece("ini", TailLo1910(m) + \h2000, 16 + a.tail) \in F.ext
    /\ Piece("crl", TailLo1910(m) + \h2800, 16 + a.tail) \in F.ext

LEMMA Places1910 ==
    ASSUME NEW a, NEW m, FitsHi1910(a, m)
    PROVE  /\ Lo1910(a) \in Nat /\ Image1910(a) \in Nat /\ m \in Nat
           /\ TailLo1910(m) \in Nat
           /\ a.cert \in Nat /\ a.cert <= \h618 /\ SigLen \in Nat /\ SigLen <= \h200
           /\ TagLen \in Nat /\ TagLen <= 31
           /\ a.tail \in Nat /\ 16 + a.tail <= \h800
           /\ Image1910(a) + m <= Lo1910(a) \/ Lo1910(a) + \h4000 <= Image1910(a)
           /\ ~a.S => Image1910(a) + m <= TailLo1910(m) /\ Lo1910(a) + \h4000 <= TailLo1910(m)
  <1>1. a \in Args /\ m \in Nat  BY DEF FitsHi1910
  <1>2. /\ a.cert \in Nat /\ a.cert <= \h618 /\ SigLen \in Nat /\ SigLen <= \h200
        /\ TagLen \in Nat /\ TagLen <= 31 /\ a.tail \in Nat
    BY <1>1, Sizes
  <1>3. a.tail <= \h7F0 /\ (a.S => m <= \hC000)  BY DEF FitsHi1910
  <1> QED  BY <1>1, <1>2, <1>3, SMT DEF Lo1910, Image1910, TailLo1910

LEMMA Head1910Kept ==
    ASSUME NEW a, NEW m, FitsHi1910(a, m), NEW F, NEW G,
           NEW lo \in Nat, NEW hi \in Nat, Wrote(F, G, lo, hi), Head1910(a, F),
           \/ hi <= Lo1910(a) \/ Lo1910(a) + \h2000 <= lo
           \/ Lo1910(a) + \h470 <= lo /\ hi <= Lo1910(a) + \h500
    PROVE  Head1910(a, G)
  <1> DEFINE x == Lo1910(a)
             s == a.cert
  <1>1. x \in Nat /\ s \in Nat /\ s <= \h618 /\ SigLen \in Nat /\ SigLen <= \h200
    BY Places1910
  <1>2. hi <= x \/ x + \h2000 <= lo \/ (x + \h470 <= lo /\ hi <= x + \h500)  OBVIOUS
  <1> HIDE DEF x, s
  <1>3. /\ hi <= x \/ x + \h470 <= lo
        /\ hi <= x + \h500 \/ (x + \h500) + s <= lo
        /\ hi <= x + \h1500 \/ (x + \h1500) + SigLen <= lo
        /\ hi <= x + \h1700 \/ (x + \h1700) + SigLen <= lo
        /\ hi <= x + \h1000 \/ (x + \h1000) + s <= lo
    BY <1>1, <1>2, SMT
  <1>4. /\ Holding(Lead1910(a), Piece("head", x, \h470)) \in F.ext
        /\ a.addsoc => Piece("cert", x + \h500, s) \in F.ext
        /\ a.addsoc => Piece("sig", x + \h1500, SigLen) \in F.ext
        /\ a.addsoc => Piece("sig", x + \h1700, SigLen) \in F.ext
        /\ a.addsoc => (a.cert <= \h500 => Piece("cert", x + \h1000, s) \in F.ext)
    BY DEF Head1910, x, s
  <1>5. Holding(Lead1910(a), Piece("head", x, \h470)) \in G.ext
    BY <1>3, <1>4, PieceKept
  <1>6. a.addsoc => Piece("cert", x + \h500, s) \in G.ext  BY <1>3, <1>4, StillThere
  <1>7. a.addsoc => Piece("sig", x + \h1500, SigLen) \in G.ext  BY <1>3, <1>4, StillThere
  <1>8. a.addsoc => Piece("sig", x + \h1700, SigLen) \in G.ext  BY <1>3, <1>4, StillThere
  <1>9. a.addsoc => (a.cert <= \h500 => Piece("cert", x + \h1000, s) \in G.ext)
    BY <1>3, <1>4, StillThere
  <1> QED  BY <1>5, <1>6, <1>7, <1>8, <1>9 DEF Head1910, x, s

LEMMA Image1910Kept ==
    ASSUME NEW a, NEW m, FitsHi1910(a, m), NEW R, Source(R, m), NEW F, NEW G,
           NEW lo \in Nat, NEW hi \in Nat, Wrote(F, G, lo, hi), ImageIn1910(a, R, F),
           hi <= Image1910(a) \/ Image1910(a) + m <= lo
    PROVE  ImageIn1910(a, R, G)
  <1> DEFINE x == Image1910(a)
  <1>1. x \in Nat /\ m \in Nat  BY Places1910
  <1>2. Copied(R, x) \subseteq F.ext  BY DEF ImageIn1910
  <1>3. \A e \in Copied(R, x) : e.at \in Nat /\ e.len \in Nat /\ Inside(e, x, x + m)
    BY <1>1, CopiedInside
  <1>4. hi <= x \/ x + m <= lo  OBVIOUS
  <1> HIDE DEF x
  <1>5. \A e \in Copied(R, x) : Apart(e, lo, hi)
    BY <1>1, <1>3, <1>4, SMT DEF Apart, Inside
  <1>6. Copied(R, x) \subseteq G.ext  BY <1>2, <1>5 DEF Wrote
  <1> QED  BY <1>6 DEF ImageIn1910, x

LEMMA Tail1910Kept ==
    ASSUME NEW a, NEW m, FitsHi1910(a, m), NEW F, NEW G,
           NEW lo \in Nat, NEW hi \in Nat, Wrote(F, G, lo, hi), Tail1910(a, m, F),
           hi <= TailLo1910(m)
    PROVE  Tail1910(a, m, G)
  <1> DEFINE x == TailLo1910(m)
             t == 16 + a.tail
  <1>1. x \in Nat /\ hi <= x  BY Places1910
  <1> HIDE DEF x, t
  <1>2. hi <= x + \h2000 /\ hi <= x + \h2800  BY <1>1, SMT
  <1>3. /\ Piece("cms", x, t) \in F.ext /\ Piece("ini", x + \h2000, t) \in F.ext
        /\ Piece("crl", x + \h2800, t) \in F.ext
    BY DEF Tail1910, x, t
  <1>4. Piece("cms", x, t) \in G.ext  BY <1>1, <1>3, StillThere
  <1>5. Piece("ini", x + \h2000, t) \in G.ext  BY <1>2, <1>3, StillThere
  <1>6. Piece("crl", x + \h2800, t) \in G.ext  BY <1>2, <1>3, StillThere
  <1> QED  BY <1>4, <1>5, <1>6 DEF Tail1910, x, t

\* write_header_huawei
LEMMA Header1910 ==
    ASSUME NEW a, NEW m, FitsHi1910(a, m), NEW F, Whole(F)
    PROVE  Head1910(a, H1910!WriteHeaderHuawei(F, a))
  <1> DEFINE x == Lo1910(a)
             s == a.cert
             o == IF a.addsoc THEN Write(F, "cert", x + \h500, s) ELSE F
             p == IF a.addsoc THEN Write(o, "cert", x + \h1000, s) ELSE o
             q == IF a.addsoc THEN Write(p, "sig", x + \h1500, SigLen) ELSE p
             r == IF a.addsoc THEN Write(q, "sig", x + \h1700, SigLen) ELSE q
             t == Write(r, "tag", x + \h4A0, TagLen)
             h == Holding(Lead1910(a), Piece("head", x, \h470))
             G == PutPiece(t, h)
  <1>1. H1910!WriteHeaderHuawei(F, a) = G
    <2>1. \A at : H1910!At(a, at) = IF a.S THEN \hC000 + at ELSE at  BY DEF H1910!At
    <2>2. /\ H1910!At(a, 0) = x /\ H1910!At(a, \h500) = x + \h500
          /\ H1910!At(a, \h1000) = x + \h1000 /\ H1910!At(a, \h1500) = x + \h1500
          /\ H1910!At(a, \h1700) = x + \h1700 /\ H1910!At(a, \h4A0) = x + \h4A0
      BY <2>1, SMT DEF Lo1910
    <2>3. H1910!CodeOffset(a) = Lead1910(a)
      BY SMT DEF H1910!CodeOffset, Lead1910, FitsHi1910
    <2>4. a.addsoc => H1910!WriteSignature(H1910!WriteCert(F, a), a) = r
      BY <2>2, Same1910 DEF H1910!WriteSignature, H1910!WriteCert
    <2>5. ~a.addsoc => r = F  OBVIOUS
    <2> HIDE DEF r, x
    <2>6. H1910!WriteHeaderHuawei(F, a) = H1910!WriteHeader(H1910!WriteTag(r, a), a)
      BY <2>4, <2>5 DEF H1910!WriteHeaderHuawei
    <2>7. H1910!WriteTag(r, a) = t  BY <2>2, Same1910 DEF H1910!WriteTag
    <2> HIDE DEF t
    <2>8. H1910!WriteHeader(t, a) = G
      BY <2>2, <2>3, Same1910 DEF H1910!WriteHeader
    <2> QED  BY <2>6, <2>7, <2>8
  <1>2. x \in Nat /\ s \in Nat /\ s <= \h618 /\ SigLen \in Nat /\ SigLen <= \h200
        /\ TagLen \in Nat /\ TagLen <= 31
    BY Places1910
  <1> HIDE DEF x, s
  <1>3. /\ x + \h500 \in Nat /\ x + \h1000 \in Nat /\ x + \h1500 \in Nat /\ x + \h1700 \in Nat
        /\ x + \h4A0 \in Nat
        /\ (x + \h500) + s <= x + \h1000 /\ (x + \h500) + s <= x + \h1500
        /\ (x + \h500) + s <= x + \h1700
        /\ s <= \h500 => (x + \h1000) + s <= x + \h1500 /\ (x + \h1000) + s <= x + \h1700
        /\ (x + \h1500) + SigLen <= x + \h1700
        /\ (x + \h4A0) + TagLen <= x + \h500 /\ (x + \h4A0) + TagLen <= x + \h1000
        /\ (x + \h4A0) + TagLen <= x + \h1500 /\ (x + \h4A0) + TagLen <= x + \h1700
        /\ x + \h470 <= x + \h500 /\ x + \h470 <= x + \h1000 /\ x + \h470 <= x + \h1500
        /\ x + \h470 <= x + \h1700 /\ \h470 \in Nat
    BY <1>2, SMT
  <1> DEFINE c1 == x + \h500
             c2 == x + \h1000
             s1 == x + \h1500
             s2 == x + \h1700
             tg == x + \h4A0
             hl == \h470
             small == s <= \h500
  <1>4. /\ c1 \in Nat /\ c2 \in Nat /\ s1 \in Nat /\ s2 \in Nat /\ tg \in Nat /\ hl \in Nat
        /\ c1 + s <= c2 /\ c1 + s <= s1 /\ c1 + s <= s2
        /\ small => c2 + s <= s1 /\ c2 + s <= s2
        /\ s1 + SigLen <= s2
        /\ tg + TagLen <= c1 /\ tg + TagLen <= c2 /\ tg + TagLen <= s1 /\ tg + TagLen <= s2
        /\ x + hl <= c1 /\ x + hl <= c2 /\ x + hl <= s1 /\ x + hl <= s2
    BY <1>3
  <1>5. h.at = x /\ h.len = hl  BY HoldingIs
  <1> HIDE DEF c1, c2, s1, s2, tg, hl, small, o, p, q, r, t, h
  <1>6. a.addsoc => Wrote(F, o, c1, c1 + s) /\ Piece("cert", c1, s) \in o.ext
    BY <1>2, <1>4, WriteIn DEF o, c1
  <1>7. Whole(o)  BY <1>6 DEF o, Wrote
  <1>8. a.addsoc => Wrote(o, p, c2, c2 + s) /\ Piece("cert", c2, s) \in p.ext
    BY <1>2, <1>4, <1>7, WriteIn DEF p, c2
  <1>9. Whole(p)  BY <1>7, <1>8 DEF p, Wrote
  <1>10. a.addsoc => Wrote(p, q, s1, s1 + SigLen) /\ Piece("sig", s1, SigLen) \in q.ext
    BY <1>2, <1>4, <1>9, WriteIn DEF q, s1
  <1>11. Whole(q)  BY <1>9, <1>10 DEF q, Wrote
  <1>12. a.addsoc => Wrote(q, r, s2, s2 + SigLen) /\ Piece("sig", s2, SigLen) \in r.ext
    BY <1>2, <1>4, <1>11, WriteIn DEF r, s2
  <1>13. Whole(r)  BY <1>11, <1>12 DEF r, Wrote
  <1>14. Wrote(r, t, tg, tg + TagLen)
    BY <1>2, <1>4, <1>13, WriteIn DEF t, tg
  <1>15. Wrote(t, G, x, x + hl) /\ h \in G.ext
    <2>1. Whole(t) /\ h.at \in Nat /\ h.len \in Nat  BY <1>2, <1>4, <1>5, <1>14 DEF Wrote
    <2>2. Wrote(t, G, h.at, h.at + h.len) /\ h \in G.ext  BY <2>1, PieceWrote
    <2> QED  BY <1>5, <2>2
  <1> HIDE DEF G
  <1>16. a.addsoc => Piece("cert", c1, s) \in G.ext
    <2>1. a.addsoc => Piece("cert", c1, s) \in p.ext  BY <1>4, <1>6, <1>8, StillThere
    <2>2. a.addsoc => Piece("cert", c1, s) \in q.ext  BY <1>4, <1>10, <2>1, StillThere
    <2>3. a.addsoc => Piece("cert", c1, s) \in r.ext  BY <1>4, <1>12, <2>2, StillThere
    <2>4. a.addsoc => Piece("cert", c1, s) \in t.ext  BY <1>4, <1>14, <2>3, StillThere
    <2> QED  BY <1>4, <1>15, <2>4, StillThere
  <1>17. a.addsoc /\ small => Piece("cert", c2, s) \in G.ext
    <2>2. a.addsoc /\ small => Piece("cert", c2, s) \in q.ext  BY <1>4, <1>8, <1>10, StillThere
    <2>3. a.addsoc /\ small => Piece("cert", c2, s) \in r.ext  BY <1>4, <1>12, <2>2, StillThere
    <2>4. a.addsoc /\ small => Piece("cert", c2, s) \in t.ext  BY <1>4, <1>14, <2>3, StillThere
    <2> QED  BY <1>4, <1>15, <2>4, StillThere
  <1>18. a.addsoc => Piece("sig", s1, SigLen) \in G.ext
    <2>3. a.addsoc => Piece("sig", s1, SigLen) \in r.ext  BY <1>4, <1>10, <1>12, StillThere
    <2>4. a.addsoc => Piece("sig", s1, SigLen) \in t.ext  BY <1>4, <1>14, <2>3, StillThere
    <2> QED  BY <1>4, <1>15, <2>4, StillThere
  <1>19. a.addsoc => Piece("sig", s2, SigLen) \in G.ext
    <2>4. a.addsoc => Piece("sig", s2, SigLen) \in t.ext  BY <1>4, <1>12, <1>14, StillThere
    <2> QED  BY <1>4, <1>15, <2>4, StillThere
  <1>20. Head1910(a, G)
    BY <1>15, <1>16, <1>17, <1>18, <1>19 DEF Head1910, x, s, c1, c2, s1, s2, h, small
  <1> QED  BY <1>1, <1>20

\* What write_header_customer and write_extern write of the second header.
LEMMA Second1910 ==
    ASSUME NEW a, NEW m, FitsHi1910(a, m), NEW F, Whole(F),
           NEW G, G = H1910!WriteHeaderCustomer(F, a)
    PROVE  /\ Wrote(F, G, Lo1910(a) + \h2000, Lo1910(a) + \h2470)
           /\ Lo1910(a) + \h2470 <= G.size
  <1> DEFINE x == Lo1910(a) + \h2000
             hi == Lo1910(a) + \h2470
             u == x + \h2C
             v == x + \h460
             w == x + \h46C
             F1 == Write(F, "preamble", x, 4)
             F2 == Write(F1, "codehash", u, 32)
             F3 == Write(F2, "codelen", v, 4)
  <1>1. G = Write(F3, "headmagic", w, 4)
    <2>1. H1910!At(a, \h2000) = x  BY SMT DEF H1910!At, Lo1910
    <2> QED  BY <2>1, Same1910 DEF H1910!WriteHeaderCustomer
  <1>2. /\ x \in Nat /\ u \in Nat /\ v \in Nat /\ w \in Nat /\ hi \in Nat
        /\ x <= x /\ x <= u /\ x <= v /\ x <= w
        /\ x + 4 <= hi /\ u + 32 <= hi /\ v + 4 <= hi /\ w + 4 <= hi /\ hi <= w + 4
    BY SMT DEF Lo1910
  <1>3. /\ "preamble" # "cipher" /\ "codehash" # "cipher" /\ "codelen" # "cipher"
        /\ "headmagic" # "cipher" /\ 4 \in Nat /\ 32 \in Nat
    OBVIOUS
  <1> HIDE DEF x, hi, u, v, w, F1, F2, F3
  <1>4. Wrote(F, F1, x, hi) /\ Whole(F1)  BY <1>2, <1>3, WritePlain DEF F1
  <1>5. Wrote(F1, F2, x, hi) /\ Whole(F2)  BY <1>2, <1>3, <1>4, WritePlain DEF F2
  <1>6. Wrote(F2, F3, x, hi) /\ Whole(F3)  BY <1>2, <1>3, <1>5, WritePlain DEF F3
  <1>7. Wrote(F3, G, x, hi) /\ Whole(G)  BY <1>1, <1>2, <1>3, <1>6, WritePlain
  <1>8. Wrote(F, F2, x, hi)  BY <1>2, <1>4, <1>5, WroteThen
  <1>9. Wrote(F, F3, x, hi)  BY <1>2, <1>6, <1>8, WroteThen
  <1>10. Wrote(F, G, x, hi)  BY <1>2, <1>7, <1>9, WroteThen
  <1>11. hi <= G.size
    <2>1. w + 4 <= G.size  BY <1>1, <1>2, <1>3, <1>6, WriteIn
    <2>2. G.size \in Nat  BY <1>7 DEF Whole
    <2> QED  BY <1>2, <2>1, <2>2
  <1> QED  BY <1>10, <1>11 DEF x, hi

LEMMA ImageOf1910 ==
    ASSUME NEW a, NEW m, FitsHi1910(a, m), NEW R, Source(R, m),
           NEW r, r.size = m, r.ext = R, NEW F, Whole(F),
           NEW G, G = H1910!WriteImage(F, a, r)
    PROVE  /\ Wrote(F, G, Image1910(a), Image1910(a) + m)
           /\ ImageIn1910(a, R, G) /\ Image1910(a) + m <= G.size
  <1> DEFINE x == Image1910(a)
             y == x + m
             P == Copied(R, x)
  <1>1. G = Put(F, x, y, P)
    <2>1. H1910!ImageAt(a) = x  BY DEF H1910!ImageAt, Image1910
    <2> QED  BY <2>1, Same1910 DEF H1910!WriteImage
  <1>2. x \in Nat /\ y \in Nat /\ x <= y /\ m \in Nat  BY Places1910
  <1>3. \A e \in P : e.at \in Nat /\ e.len \in Nat /\ Inside(e, x, y)
    BY <1>2, CopiedInside
  <1> HIDE DEF x, y, P
  <1>4. Wrote(F, G, x, y) /\ P \subseteq G.ext /\ y <= G.size
    BY <1>1, <1>2, <1>3, PutWrote
  <1> QED  BY <1>4 DEF ImageIn1910, P, x, y

LEMMA TailOf1910 ==
    ASSUME NEW a, NEW m, FitsHi1910(a, m), ~a.S, NEW F, Whole(F),
           NEW G, G = H1910!WriteCms(F, a, m)
    PROVE  /\ Wrote(F, G, TailLo1910(m), TailLo1910(m) + \h3000)
           /\ Tail1910(a, m, G)
  <1> DEFINE x == TailLo1910(m)
             hi == x + \h3000
             i == x + \h2000
             c == x + \h2800
             t == 16 + a.tail
             F1 == Write(F, "cms", x, t)
             F2 == Write(F1, "ini", i, t)
  <1>1. G = Write(F2, "crl", c, t)
    <2>1. H1910!CmsAt(a, m) = x  BY DEF H1910!CmsAt, H1910!ImageAt, TailLo1910
    <2> QED  BY <2>1, Same1910 DEF H1910!WriteCms
  <1>2. x \in Nat /\ t \in Nat /\ t <= \h800
    <2>1. TailLo1910(m) \in Nat /\ a.tail \in Nat /\ 16 + a.tail <= \h800  BY Places1910
    <2> QED  BY <2>1, SMT
  <1> HIDE DEF x, t
  <1>3. /\ i \in Nat /\ c \in Nat /\ hi \in Nat /\ x <= x /\ x <= i /\ x <= c
        /\ x + t <= hi /\ i + t <= hi /\ c + t <= hi
        /\ x + t <= i /\ x + t <= c /\ i + t <= c
    BY <1>2, SMT
  <1>4. "cms" # "cipher" /\ "ini" # "cipher" /\ "crl" # "cipher"  OBVIOUS
  <1> HIDE DEF x, hi, i, c, t, F1, F2
  <1>5. Wrote(F, F1, x, hi) /\ Whole(F1) /\ Piece("cms", x, t) \in F1.ext
    BY <1>2, <1>3, <1>4, WritePlain DEF F1
  <1>6. Wrote(F1, F2, x, hi) /\ Whole(F2) /\ Piece("ini", i, t) \in F2.ext
    <2>1. F2 = Write(F1, "ini", i, t)  BY DEF F2
    <2>2. i \in Nat /\ t \in Nat /\ x \in Nat /\ hi \in Nat /\ x <= i /\ i + t <= hi
      BY <1>2, <1>3
    <2>3. "ini" # "cipher" /\ Whole(F1)  BY <1>5
    <2> QED  BY <2>1, <2>2, <2>3, WritePlain
  <1>7. Wrote(F1, F2, i, i + t)  BY <1>2, <1>3, <1>5, WriteIn DEF F2
  <1>8. Wrote(F2, G, x, hi) /\ Piece("crl", c, t) \in G.ext
    BY <1>1, <1>2, <1>3, <1>4, <1>6, WritePlain
  <1>9. Wrote(F2, G, c, c + t)  BY <1>1, <1>2, <1>3, <1>6, WriteIn
  <1>10. Wrote(F, F2, x, hi)  BY <1>2, <1>3, <1>5, <1>6, WroteThen
  <1>11. Wrote(F, G, x, hi)  BY <1>2, <1>3, <1>8, <1>10, WroteThen
  <1>12. Piece("cms", x, t) \in G.ext
    <2>1. Piece("cms", x, t) \in F2.ext  BY <1>3, <1>5, <1>7, StillThere
    <2> QED  BY <1>3, <1>9, <2>1, StillThere
  <1>13. Piece("ini", i, t) \in G.ext  BY <1>3, <1>6, <1>9, StillThere
  <1> QED  BY <1>8, <1>11, <1>12, <1>13 DEF Tail1910, x, hi, i, c, t

LEMMA Extern1910 ==
    ASSUME NEW a, NEW m, FitsHi1910(a, m), NEW R, Source(R, m), NEW F, Whole(F),
           NEW G, G = H1910!WriteExtern(F, a)
    PROVE  /\ Whole(G)
           /\ Head1910(a, F) => Head1910(a, G)
           /\ ImageIn1910(a, R, F) => ImageIn1910(a, R, G)
           /\ ~a.S /\ Tail1910(a, m, F) => Tail1910(a, m, G)
           /\ Lo1910(a) + \h2470 <= F.size => Magic(a, G)
  <1> DEFINE x == Lo1910(a)
             vl == x + \h480
             ml == x + \h490
             mh == ml + 12
             sl == x + \h2000
             sh == x + \h2470
             F1 == Write(F, "version", vl, 16)
             p == Holding(F1.size, Piece("magic", ml, 12))
             F2 == PutPiece(F1, p)
  <1>1. G = H1910!WriteHeaderCustomer(F2, a)
    <2>1. H1910!At(a, \h480) = vl /\ H1910!At(a, \h490) = ml
      BY SMT DEF H1910!At, Lo1910
    <2>2. H1910!WriteVersion(F, a) = F1
      BY <2>1, Same1910 DEF H1910!WriteVersion
    <2> HIDE DEF F1
    <2>3. H1910!WriteMagic(F1, a) = F2
      BY <2>1, Same1910 DEF H1910!WriteMagic
    <2> HIDE DEF F2
    <2> QED  BY <2>2, <2>3 DEF H1910!WriteExtern
  <1>2. /\ x \in Nat /\ vl \in Nat /\ ml \in Nat /\ mh \in Nat /\ sl \in Nat /\ sh \in Nat
        /\ vl <= vl /\ vl + 16 <= ml /\ vl <= ml /\ vl + 16 <= mh /\ mh <= mh
        /\ ml <= ml /\ mh <= sl /\ mh <= sh /\ vl + 16 <= sh /\ sh <= sh
        /\ vl + 16 \in Nat
        /\ x + \h470 <= vl /\ mh <= x + \h500 /\ x + \h2000 <= sl /\ mh <= x + \h4000
        /\ sh <= x + \h4000 /\ x <= vl /\ x <= sl
    BY SMT DEF Lo1910
  <1>3. /\ Image1910(a) \in Nat /\ m \in Nat
        /\ Image1910(a) + m <= x \/ x + \h4000 <= Image1910(a)
        /\ TailLo1910(m) \in Nat /\ (~a.S => x + \h4000 <= TailLo1910(m))
    BY Places1910
  <1> HIDE DEF x, vl, ml, mh, sl, sh, F1, F2, p
  <1>4. Wrote(F, F1, vl, vl + 16)  BY <1>2, WriteIn DEF F1
  <1>5. Whole(F1)  BY <1>4 DEF Wrote
  <1>6. p.at = ml /\ p.len = 12  BY HoldingIs DEF p
  <1>7. Wrote(F1, F2, ml, mh) /\ p \in F2.ext
    <2>1. p.at \in Nat /\ p.len \in Nat /\ p.at + p.len = mh  BY <1>2, <1>6 DEF mh
    <2>2. Wrote(F1, F2, p.at, p.at + p.len) /\ p \in F2.ext  BY <1>5, <2>1, PieceWrote DEF F2
    <2> QED  BY <1>6, <2>1, <2>2
  <1>8. Wrote(F, F2, vl, mh) /\ Whole(F2)
    <2>1. Wrote(F, F2, vl, mh)  BY <1>2, <1>4, <1>7, WroteBoth
    <2> QED  BY <2>1 DEF Wrote
  <1>9. Wrote(F2, G, sl, sh) /\ Whole(G)
    <2>1. Wrote(F2, G, sl, sh)  BY <1>1, <1>8, Second1910 DEF sl, sh, x
    <2> QED  BY <2>1 DEF Wrote
  <1>10. Head1910(a, F) => Head1910(a, G)
    <2>1. Head1910(a, F) => Head1910(a, F2)
      <3>1. Lo1910(a) + \h470 <= vl /\ mh <= Lo1910(a) + \h500  BY <1>2 DEF x
      <3> QED  BY <1>2, <1>8, <3>1, Head1910Kept
    <2>2. Head1910(a, F2) => Head1910(a, G)
      <3>1. Lo1910(a) + \h2000 <= sl  BY <1>2 DEF x
      <3> QED  BY <1>2, <1>9, <3>1, Head1910Kept
    <2> QED  BY <2>1, <2>2
  <1>11. ImageIn1910(a, R, F) => ImageIn1910(a, R, G)
    <2>1. /\ mh <= Image1910(a) \/ Image1910(a) + m <= vl
          /\ sh <= Image1910(a) \/ Image1910(a) + m <= sl
      BY <1>2, <1>3, SMT
    <2>2. ImageIn1910(a, R, F) => ImageIn1910(a, R, F2)
      BY <1>2, <1>8, <2>1, Image1910Kept
    <2>3. ImageIn1910(a, R, F2) => ImageIn1910(a, R, G)
      BY <1>2, <1>9, <2>1, Image1910Kept
    <2> QED  BY <2>2, <2>3
  <1>12. ASSUME ~a.S, Tail1910(a, m, F)  PROVE Tail1910(a, m, G)
    <2>1. mh <= TailLo1910(m) /\ sh <= TailLo1910(m)
      BY <1>2, <1>3, <1>12, SMT
    <2>2. Tail1910(a, m, F2)  BY <1>2, <1>8, <1>12, <2>1, Tail1910Kept
    <2> QED  BY <1>2, <1>9, <2>1, <2>2, Tail1910Kept
  <1>13. ASSUME sh <= F.size  PROVE Magic(a, G)
    <2>1. F.size \in Nat  BY DEF Whole
    <2>2. F1.size = F.size  BY <1>2, <1>4, <1>13, <2>1 DEF Wrote
    <2>3. F2.size = F.size  BY <1>2, <1>7, <1>13, <2>1, <2>2 DEF Wrote
    <2>4. G.size = F.size  BY <1>2, <1>9, <1>13, <2>1, <2>3 DEF Wrote
    <2>5. p \in G.ext
      <3>1. Apart(p, sl, sh)  BY <1>2, <1>6 DEF Apart, mh
      <3> QED  BY <1>7, <1>9, <3>1 DEF Wrote
    <2>6. p.f = "magic" /\ p.val = F1.size  BY HoldingIs DEF p
    <2>7. ~a.before  BY DEF FitsHi1910
    <2> QED  BY <2>2, <2>4, <2>5, <2>6, <2>7 DEF Magic
  <1> QED  BY <1>9, <1>10, <1>11, <1>12, <1>13 DEF sh, x

-----------------------------------------------------------------------------
(* The inductive invariant *)

\* Which calls are behind main at p.
Titled(a, p) ==
    p \in {"customer", "bcm", "cms", "hashtree", "address", "extern", "packed"}
      \/ (~a.before /\ p = "image")

TitledTwice(a, p) ==
    p \in {"cms", "hashtree", "address", "extern", "packed"} \/ (~a.before /\ p = "image")

Loaded(a, p) ==
    p \in {"cms", "hashtree", "address", "extern", "packed"}
      \/ (a.before /\ p \in {"huawei", "customer"})

\* The image is whole, and the headers in front of it are hashed and salted.
ImageSafe(a, m, R, F) ==
    /\ ImageIn(a, m, R, F) /\ ImageLo(a) + m <= F.size
    /\ a.enc = "no" \/ a.platform = "ascend610"
    /\ ~a.before => \A h \in Hs(a) : Hashed(a, m, F, h)
    /\ a.enc # "no" => \A h \in Hs(a) : Salted(a, m, F, h)

(***************************************************************************)
(* Before call p, for a command line a that Fits (ascend610, as31xm1) and  *)
(* an image of m bytes, the pieces R: no piece lies across the edge of a   *)
(* header (what a hash covers does not change behind its back), and the    *)
(* headers, the image with its hashes, tail, hash tree, address and magic  *)
(* number are in file F once their calls are behind.                       *)
(***************************************************************************)
Facts(a, m, R, F, p) ==
    /\ \A h \in Hs(a) : HeadBoxed(a, m, F, h)
    /\ a.enc = "no" => Plain(F)
    /\ Titled(a, p) => Headed(a, m, F, 0)
    /\ a.D /\ TitledTwice(a, p) => Headed(a, m, F, 1)
    /\ a.B /\ ~a.before /\ p \in {"image", "cms", "extern", "packed"} => BcmIn(F)
    /\ Loaded(a, p) => ImageSafe(a, m, R, F)
    /\ a.addcms /\ p \in {"hashtree", "address", "extern", "packed"} => Tailed(a, m, F)
    /\ a.before /\ p \in {"address", "extern", "packed"} => TreeIn(m, F)
    /\ a.before /\ p \in {"extern", "packed"} => EndIn(a, m, F)
    /\ p = "packed" => /\ MagicIn(a, F, HeadLo(a, 0, m) + MagicOff(a), MagicLen(a))
                       /\ a.before /\ a.platform = "ascend610" =>
                            \A h \in Hs(a) : Hashed(a, m, F, h)

\* The same of hi1910.
Facts1910(a, m, R, F, p) ==
    /\ p \in {"customer", "bcm", "image", "cms", "extern", "packed"} => Head1910(a, F)
    /\ a.D /\ p \in {"image", "cms", "extern", "packed"} => Lo1910(a) + \h2470 <= F.size
    /\ p \in {"cms", "extern", "packed"} => /\ ImageIn1910(a, R, F)
                                            /\ Image1910(a) + m <= F.size
    /\ a.addcms /\ p \in {"extern", "packed"} => Tail1910(a, m, F)
    /\ p = "packed" /\ (a.S => a.D) => Magic(a, F)

\* What a call that was not taken, or raised, leaves impossible.
Flow(a, m, F, p) ==
    /\ a.before => p \notin {"bcm", "encrypted"}
    /\ ~a.before => p \notin {"hashtree", "address"}
    /\ p = "customer" => a.D
    /\ p = "bcm" => a.B /\ ~a.D
    /\ p = "encrypted" => a.enc # "no"
    /\ a.platform = "hi1910" =>
         /\ a.before => p \notin {"address", "extern", "packed"}
         /\ p # "encrypted"
         /\ a.S /\ a.addsoc /\ ~a.before /\ p \in {"customer", "image", "cms", "extern", "packed"}
              => m <= \hC000
         /\ p = "packed" => ~(a.addcms /\ a.S)
    /\ a.platform # "hi1910" /\ ~a.before /\ ~a.S /\ p \in {"cms", "extern", "packed"}
         => \h2000 <= F.size

Calls == {"esbc", "huawei", "customer", "bcm", "image", "cms", "hashtree",
          "address", "extern", "packed", "raised", "encrypted"}

Typed(a, p, r, F) ==
    /\ a \in Args /\ p \in Calls
    /\ r.size \in Nat /\ 0 < r.size /\ Source(r.ext, r.size)
    /\ Whole(F)
    /\ p = "esbc" => F = Empty

\* Of the command line a, the next call p, the image r and the file F.
Inductive(a, p, r, F) ==
    /\ Typed(a, p, r, F)
    /\ Flow(a, r.size, F, p)
    /\ Fits(a, r.size) /\ p # "encrypted" => Facts(a, r.size, r.ext, F, p)
    /\ FitsHi1910(a, r.size) => Facts1910(a, r.size, r.ext, F, p)
    /\ Fits(a, r.size) /\ a.platform = "ascend610" /\ p = "encrypted" => EncDone(a, r.size, F)

IInv == Inductive(args, pc, raw, file)

-----------------------------------------------------------------------------
(* The steps of ascend610 and as31xm1 *)

\* What Facts says of headers and image, and of the rest, late in main.
Body(a, m, R, F) ==
    /\ \A h \in Hs(a) : HeadBoxed(a, m, F, h) /\ Headed(a, m, F, h)
    /\ a.enc = "no" => Plain(F)
    /\ a.B => BcmIn(F)
    /\ ImageSafe(a, m, R, F)

Rest(a, m, F, p) ==
    /\ a.addcms /\ p # "cms" => Tailed(a, m, F)
    /\ a.before /\ p \in {"address", "extern", "packed"} => TreeIn(m, F)
    /\ a.before /\ p \in {"extern", "packed"} => EndIn(a, m, F)
    /\ p = "packed" => /\ MagicIn(a, F, HeadLo(a, 0, m) + MagicOff(a), MagicLen(a))
                       /\ a.before /\ a.platform = "ascend610" =>
                            \A h \in Hs(a) : Hashed(a, m, F, h)

LateCalls == {"cms", "hashtree", "address", "extern", "packed"}

LEMMA LateFacts ==
    ASSUME NEW a, NEW m, Fits(a, m), NEW R, NEW F, NEW p \in LateCalls,
           p \in {"hashtree", "address"} => a.before
    PROVE  Facts(a, m, R, F, p) <=> Body(a, m, R, F) /\ Rest(a, m, F, p)
  <1>1. Titled(a, p) /\ TitledTwice(a, p) /\ Loaded(a, p)
    BY DEF Titled, TitledTwice, Loaded, LateCalls
  <1>2. (\A h \in Hs(a) : Headed(a, m, F, h)) <=> Headed(a, m, F, 0) /\ (a.D => Headed(a, m, F, 1))
    BY DEF Hs
  <1>3. a.B /\ ~a.before /\ p \in {"image", "cms", "extern", "packed"} <=> a.B
    BY DEF Fits, LateCalls
  <1>4. p \in {"hashtree", "address", "extern", "packed"} <=> p # "cms"
    BY DEF LateCalls
  <1>5. (\A h \in Hs(a) : HeadBoxed(a, m, F, h) /\ Headed(a, m, F, h))
          <=> (\A h \in Hs(a) : HeadBoxed(a, m, F, h)) /\ (\A h \in Hs(a) : Headed(a, m, F, h))
    OBVIOUS
  <1>6. ASSUME Facts(a, m, R, F, p)  PROVE Body(a, m, R, F) /\ Rest(a, m, F, p)
    <2>1. Body(a, m, R, F)  BY <1>1, <1>2, <1>3, <1>5, <1>6, Zenon DEF Facts, Body
    <2>2. Rest(a, m, F, p)  BY <1>4, <1>6, Zenon DEF Facts, Rest
    <2> QED  BY <2>1, <2>2
  <1>7. ASSUME Body(a, m, R, F), Rest(a, m, F, p)  PROVE Facts(a, m, R, F, p)
    BY <1>2, <1>3, <1>4, <1>5, <1>7, Zenon DEF Facts, Body, Rest
  <1> QED  BY <1>6, <1>7

\* A write behind the headers and the image.
LEMMA Above ==
    ASSUME NEW a, NEW m, Fits(a, m), NEW R, Source(R, m), NEW F, Whole(F), NEW G,
           NEW lo \in Nat, NEW hi \in Nat, Wrote(F, G, lo, hi), Plain(F) => Plain(G),
           HeadLo(a, 0, m) + \h2000 <= lo, ImageLo(a) + ImageLen(a, m) <= lo,
           Body(a, m, R, F)
    PROVE  Body(a, m, R, G)
  <1>1. ASSUME NEW h \in {0, 1}
        PROVE  /\ Headed(a, m, F, h) => Headed(a, m, G, h)
               /\ HeadBoxed(a, m, F, h) => HeadBoxed(a, m, G, h)
               /\ a.platform = "ascend610" /\ Salted(a, m, F, h) => Salted(a, m, G, h)
               /\ HeadBoxed(a, m, F, h) /\ Hashed(a, m, F, h) => Hashed(a, m, G, h)
    <2> DEFINE z == HeadLo(a, h, m)
               c == z + Covered(a)
    <2>1. z \in Nat /\ c \in Nat /\ z + \h1000 <= lo /\ c <= lo /\ c + 32 <= lo
      BY SMT DEF HeadLo, Later, Covered, Fits
    <2> HIDE DEF z, c
    <2>2. Headed(a, m, F, h) => Headed(a, m, G, h)
      BY <2>1, HeadedKept DEF z
    <2>3. HeadBoxed(a, m, F, h) => HeadBoxed(a, m, G, h)
      BY <2>1, BoxedKept DEF HeadBoxed, z, c
    <2>4. a.platform = "ascend610" /\ Salted(a, m, F, h) => Salted(a, m, G, h)
      BY <2>1, SaltedKept DEF z, c
    <2>5. HeadBoxed(a, m, F, h) /\ Hashed(a, m, F, h) => Hashed(a, m, G, h)
      BY <2>1, HashedKept DEF z, c
    <2> QED  BY <2>2, <2>3, <2>4, <2>5
  <1>2. \A h \in Hs(a) : h \in {0, 1}  BY DEF Hs
  <1>3. /\ \A h \in Hs(a) : HeadBoxed(a, m, F, h) /\ Headed(a, m, F, h)
        /\ a.enc = "no" => Plain(F)
        /\ a.B => BcmIn(F)
        /\ ImageSafe(a, m, R, F)
    BY DEF Body
  <1>4. \A h \in Hs(a) : HeadBoxed(a, m, G, h) /\ Headed(a, m, G, h)
    BY <1>1, <1>2, <1>3
  <1>5. a.B => BcmIn(G)
    <2>1. \h2000 <= lo  BY SMT DEF HeadLo, Later, Fits
    <2> QED  BY <1>3, <2>1, BcmKept
  <1>6. ImageSafe(a, m, R, G)
    <2>1. ImageIn(a, m, R, G)  BY <1>3, ImageKept DEF ImageSafe
    <2>2. ImageLo(a) + m <= G.size
      <3>1. ImageLo(a) \in Nat /\ m \in Nat  BY SMT DEF ImageLo, Fits
      <3> QED  BY <1>3, <3>1 DEF ImageSafe, Wrote, Whole
    <2>3. a.enc = "no" \/ a.platform = "ascend610"  BY <1>3 DEF ImageSafe
    <2>4. ~a.before => \A h \in Hs(a) : Hashed(a, m, G, h)
      BY <1>1, <1>2, <1>3 DEF ImageSafe
    <2>5. a.enc # "no" => \A h \in Hs(a) : Salted(a, m, G, h)
      <3>1. a.enc # "no" => \A h \in Hs(a) : Salted(a, m, F, h)  BY <1>3 DEF ImageSafe
      <3> QED  BY <1>1, <1>2, <2>3, <3>1
    <2> QED  BY <2>1, <2>2, <2>3, <2>4, <2>5 DEF ImageSafe
  <1> QED  BY <1>3, <1>4, <1>5, <1>6 DEF Body

LEMMA BodyExtern ==
    ASSUME NEW a, NEW m, Fits(a, m), NEW R, Source(R, m), NEW F, Whole(F), NEW G,
           ExternDone(a, m, F, G), Body(a, m, R, F)
    PROVE  Body(a, m, R, G)
  <1> DEFINE lo == HeadLo(a, 0, m)
             hi == lo + \h2000
  <1>1. Wrote(F, G, lo, hi)  BY DEF ExternDone
  <1>2. /\ lo \in Nat /\ hi \in Nat /\ ImageLo(a) \in Nat /\ m \in Nat
        /\ hi <= ImageLo(a) \/ (a.before /\ ImageLo(a) + m <= lo)
        /\ a.before => ImageLen(a, m) = m
    BY SMT DEF HeadLo, Later, ImageLo, ImageLen, Fits
  <1>3. \A h \in Hs(a) : h \in {0, 1}  BY DEF Hs
  <1>4. /\ \A h \in Hs(a) : HeadBoxed(a, m, F, h) /\ Headed(a, m, F, h)
        /\ a.enc = "no" => Plain(F)
        /\ a.B => BcmIn(F)
        /\ ImageSafe(a, m, R, F)
    BY DEF Body
  <1> HIDE DEF lo, hi
  <1>5. /\ Plain(F) => Plain(G)
        /\ a.B /\ BcmIn(F) => BcmIn(G)
        /\ \A h \in {0, 1} :
             /\ Headed(a, m, F, h) => Headed(a, m, G, h)
             /\ HeadBoxed(a, m, F, h) => HeadBoxed(a, m, G, h)
             /\ a.platform = "ascend610" /\ Salted(a, m, F, h) => Salted(a, m, G, h)
        /\ ~a.before => \A h \in {0, 1} : HeadBoxed(a, m, F, h) /\ Hashed(a, m, F, h)
                                            => Hashed(a, m, G, h)
    BY DEF ExternDone
  <1>6. ImageSafe(a, m, R, G)
    <2>1. ImageIn(a, m, R, G)
      <3>1. hi <= ImageLo(a) \/ ImageLo(a) + ImageLen(a, m) <= lo  BY <1>2
      <3>2. ImageIn(a, m, R, F)  BY <1>4 DEF ImageSafe
      <3> QED  BY <1>1, <1>2, <3>1, <3>2, ImageKept
    <2>2. ImageLo(a) + m <= G.size
      BY <1>1, <1>2, <1>4 DEF ImageSafe, Wrote, Whole
    <2>3. a.enc = "no" \/ a.platform = "ascend610"  BY <1>4 DEF ImageSafe
    <2>4. ~a.before => \A h \in Hs(a) : Hashed(a, m, G, h)
      BY <1>3, <1>4, <1>5 DEF ImageSafe
    <2>5. a.enc # "no" => \A h \in Hs(a) : Salted(a, m, G, h)
      <3>1. a.enc # "no" => \A h \in Hs(a) : Salted(a, m, F, h)  BY <1>4 DEF ImageSafe
      <3> QED  BY <1>3, <1>5, <2>3, <3>1
    <2> QED  BY <2>1, <2>2, <2>3, <2>4, <2>5 DEF ImageSafe
  <1>7. \A h \in Hs(a) : HeadBoxed(a, m, G, h) /\ Headed(a, m, G, h)
    BY <1>3, <1>4, <1>5
  <1> QED  BY <1>4, <1>5, <1>6, <1>7 DEF Body

LEMMA HeadSpots ==
    ASSUME NEW a, NEW m, Fits(a, m)
    PROVE  /\ m \in Nat /\ HeadLo(a, 0, m) \in Nat /\ HeadLo(a, 1, m) = HeadLo(a, 0, m) + \h1000
           /\ a.before => HeadLo(a, 0, m) = m /\ ImageLo(a) = 0
           /\ ~a.before => HeadLo(a, 0, m) = 0
           /\ a.before => ImageLen(a, m) = m /\ a.enc = "no" /\ ~a.B
  BY SMT DEF HeadLo, Later, ImageLo, ImageLen, Fits

\* Nothing is in the file yet.
LEMMA NothingYet ==
    ASSUME NEW a, NEW m, NEW R,
           NEW p \in {"esbc", "huawei", "image"}, p = "huawei" => ~a.before, p = "image" => a.before
    PROVE  Facts(a, m, R, Empty, p)
  <1>1. Empty.ext = {}  BY DEF Empty
  <1>2. \A h \in Hs(a) : HeadBoxed(a, m, Empty, h)  BY <1>1 DEF HeadBoxed, Boxed
  <1>3. Plain(Empty)  BY <1>1 DEF Plain
  <1>4. ~Titled(a, p) /\ ~TitledTwice(a, p) /\ ~Loaded(a, p)
    BY DEF Titled, TitledTwice, Loaded
  <1> QED  BY <1>2, <1>3, <1>4 DEF Facts

\* A header behind the image leaves it alone.
LEMMA ImageBehind ==
    ASSUME NEW a, NEW m, Fits(a, m), NEW R, Source(R, m), NEW F, Whole(F), NEW G,
           NEW h \in {0, 1}, HeadWritten(a, m, F, G, h), a.before, ImageSafe(a, m, R, F)
    PROVE  ImageSafe(a, m, R, G)
  <1> DEFINE lo == HeadLo(a, h, m)
             hi == lo + \h1000
  <1>1. Wrote(F, G, lo, hi)  BY DEF HeadWritten
  <1>2. /\ lo \in Nat /\ hi \in Nat /\ ImageLo(a) + ImageLen(a, m) <= lo
        /\ ImageLo(a) = 0 /\ m \in Nat
    BY SMT DEF HeadLo, Later, ImageLo, ImageLen, Fits
  <1> HIDE DEF lo, hi
  <1>3. ImageIn(a, m, R, F) /\ ImageLo(a) + m <= F.size  BY DEF ImageSafe
  <1>4. ImageIn(a, m, R, G)  BY <1>1, <1>2, <1>3, ImageKept
  <1>5. ImageLo(a) + m <= G.size  BY <1>1, <1>2, <1>3 DEF Wrote, Whole
  <1>6. a.enc = "no"  BY DEF Fits
  <1> QED  BY <1>4, <1>5, <1>6 DEF ImageSafe

LEMMA FactsFirst ==
    ASSUME NEW a, NEW m, Fits(a, m), NEW R, Source(R, m), NEW F, Whole(F), NEW G,
           Facts(a, m, R, F, "huawei"), HeadWritten(a, m, F, G, 0), NEW q,
           q = IF a.D THEN "customer" ELSE IF a.before THEN "cms" ELSE IF a.B THEN "bcm" ELSE "image"
    PROVE  Facts(a, m, R, G, q)
  <1>1. \A h \in Hs(a) : h \in {0, 1}  BY DEF Hs
  <1>2. Headed(a, m, G, 0) /\ (Plain(F) => Plain(G))
        /\ \A k \in {0, 1} : HeadBoxed(a, m, F, k) => HeadBoxed(a, m, G, k)
    BY DEF HeadWritten
  <1>3. /\ \A h \in Hs(a) : HeadBoxed(a, m, F, h)
        /\ a.enc = "no" => Plain(F)
        /\ a.before => ImageSafe(a, m, R, F)
    BY DEF Facts, Loaded
  <1>4. \A h \in Hs(a) : HeadBoxed(a, m, G, h)  BY <1>1, <1>2, <1>3
  <1>5. a.before => ImageSafe(a, m, R, G)
    <2>1. 0 \in {0, 1}  OBVIOUS
    <2> QED  BY <1>3, <2>1, ImageBehind
  <1>6. Loaded(a, q) => a.before  BY DEF Loaded
  <1>7. ~(a.D /\ TitledTwice(a, q))  BY DEF TitledTwice
  <1>8. ~(a.B /\ ~a.before /\ q \in {"image", "cms", "extern", "packed"})
    BY DEF Fits
  <1>9. q \notin {"hashtree", "address", "extern", "packed"}  OBVIOUS
  <1>10. a.enc = "no" => Plain(G)  BY <1>2, <1>3
  <1> HIDE DEF Titled
  <1> QED  BY <1>2, <1>4, <1>5, <1>6, <1>7, <1>8, <1>9, <1>10, Zenon DEF Facts

LEMMA FactsSecond ==
    ASSUME NEW a, NEW m, Fits(a, m), a.D, NEW R, Source(R, m), NEW F, Whole(F), NEW G,
           Facts(a, m, R, F, "customer"), HeadWritten(a, m, F, G, 1), NEW q,
           q = IF a.before THEN "cms" ELSE "image"
    PROVE  Facts(a, m, R, G, q)
  <1>1. \A h \in Hs(a) : h \in {0, 1}  BY DEF Hs
  <1>2. Headed(a, m, G, 1) /\ (Plain(F) => Plain(G))
        /\ \A k \in {0, 1} : HeadBoxed(a, m, F, k) => HeadBoxed(a, m, G, k)
    BY DEF HeadWritten
  <1>3. /\ \A h \in Hs(a) : HeadBoxed(a, m, F, h)
        /\ a.enc = "no" => Plain(F)
        /\ Headed(a, m, F, 0)
        /\ a.before => ImageSafe(a, m, R, F)
    BY DEF Facts, Loaded, Titled
  <1>4. \A h \in Hs(a) : HeadBoxed(a, m, G, h)  BY <1>1, <1>2, <1>3
  <1>5. a.before => ImageSafe(a, m, R, G)
    <2>1. 1 \in {0, 1}  OBVIOUS
    <2> QED  BY <1>3, <2>1, ImageBehind
  <1>6. Headed(a, m, G, 0)
    <2> DEFINE lo == HeadLo(a, 1, m)
               hi == lo + \h1000
    <2>1. Wrote(F, G, lo, hi)  BY DEF HeadWritten
    <2>2. lo \in Nat /\ hi \in Nat /\ HeadLo(a, 0, m) + \h1000 <= lo
      BY SMT, HeadSpots DEF hi
    <2>3. 0 \in {0, 1}  OBVIOUS
    <2> HIDE DEF lo, hi
    <2> QED  BY <1>3, <2>1, <2>2, <2>3, HeadedKept
  <1>7. Loaded(a, q) => a.before  BY DEF Loaded
  <1>8. ~(a.B /\ ~a.before /\ q \in {"image", "cms", "extern", "packed"})
    BY DEF Fits
  <1>9. q \notin {"hashtree", "address", "extern", "packed"}  OBVIOUS
  <1>10. a.enc = "no" => Plain(G)  BY <1>2, <1>3
  <1> QED  BY <1>2, <1>4, <1>5, <1>6, <1>7, <1>8, <1>9, <1>10, Zenon DEF Facts

LEMMA FactsBcm ==
    ASSUME NEW a, NEW m, Fits(a, m), a.B, ~a.D, ~a.before, NEW R, NEW F, Whole(F), NEW G,
           Facts(a, m, R, F, "bcm"),
           Wrote(F, G, \h1000, \h2000), BcmIn(G), Plain(F) => Plain(G)
    PROVE  Facts(a, m, R, G, "image")
  <1>1. Hs(a) = {0}  BY DEF Hs
  <1>2. HeadBoxed(a, m, F, 0) /\ (a.enc = "no" => Plain(F)) /\ Headed(a, m, F, 0)
    BY <1>1 DEF Facts, Titled
  <1> DEFINE lo == \h1000
             hi == \h2000
             z == HeadLo(a, 0, m)
             c == z + Covered(a)
  <1>3. lo \in Nat /\ hi \in Nat /\ z \in Nat /\ c \in Nat /\ c <= lo /\ z + \h1000 <= lo
    BY SMT DEF HeadLo, Later, Covered, Fits
  <1>4. Wrote(F, G, lo, hi)  OBVIOUS
  <1> HIDE DEF lo, hi
  <1>5. HeadBoxed(a, m, G, 0)
    <2> HIDE DEF z, c
    <2>1. Boxed(F, z, c)  BY <1>2 DEF HeadBoxed, z, c
    <2>2. Boxed(G, z, c)  BY <1>3, <1>4, <2>1, BoxedKept
    <2> QED  BY <2>2 DEF HeadBoxed, z, c
  <1>6. Headed(a, m, G, 0)
    <2>1. 0 \in {0, 1}  OBVIOUS
    <2> QED  BY <1>2, <1>3, <1>4, <2>1, HeadedKept
  <1>7. a.enc = "no" => Plain(G)  BY <1>2
  <1>8. ~Loaded(a, "image")  BY DEF Loaded
  <1>9. \A h \in Hs(a) : HeadBoxed(a, m, G, h)  BY <1>1, <1>5
  <1>10. (a.enc = "no" => Plain(G)) /\ BcmIn(G) /\ ~a.D /\ ~a.before  BY <1>7
  <1> HIDE DEF lo, hi, z, c
  <1> QED  BY <1>6, <1>8, <1>9, <1>10 DEF Facts

LEMMA FactsImage ==
    ASSUME NEW a, NEW m, Fits(a, m), a.platform = "ascend610" \/ a.enc = "no",
           NEW R, NEW F, NEW G, Facts(a, m, R, F, "image"), ImageWritten(a, m, R, F, G),
           NEW q, q = IF a.before THEN "huawei" ELSE "cms"
    PROVE  Facts(a, m, R, G, q)
  <1>1. \A h \in Hs(a) : h \in {0, 1}  BY DEF Hs
  <1>2. /\ ImageLo(a) + m <= G.size /\ ImageIn(a, m, R, G)
        /\ \A h \in {0, 1} :
             /\ HeadBoxed(a, m, F, h) => HeadBoxed(a, m, G, h)
             /\ ~a.before /\ Headed(a, m, F, h) => Headed(a, m, G, h)
        /\ a.enc # "no" => \A h \in Hs(a) : Salted(a, m, G, h)
        /\ a.B /\ BcmIn(F) => BcmIn(G)
        /\ a.enc = "no" /\ Plain(F) => Plain(G)
    BY DEF ImageWritten, ImageLaid
  <1>3. ~a.before => \A h \in Hs(a) : HeadBoxed(a, m, F, h) => Hashed(a, m, G, h)
    BY DEF ImageWritten
  <1>4. /\ \A h \in Hs(a) : HeadBoxed(a, m, F, h)
        /\ a.enc = "no" => Plain(F)
        /\ ~a.before => Headed(a, m, F, 0)
        /\ a.D /\ ~a.before => Headed(a, m, F, 1)
        /\ a.B /\ ~a.before => BcmIn(F)
    BY DEF Facts, Titled, TitledTwice
  <1>5. \A h \in Hs(a) : HeadBoxed(a, m, G, h)  BY <1>1, <1>2, <1>4
  <1>6. a.enc = "no" => Plain(G)  BY <1>2, <1>4
  <1>7. ~a.before => Headed(a, m, G, 0)
    <2>1. 0 \in {0, 1}  OBVIOUS
    <2> QED  BY <1>2, <1>4, <2>1
  <1>8. a.D /\ ~a.before => Headed(a, m, G, 1)
    <2>1. 1 \in {0, 1}  OBVIOUS
    <2> QED  BY <1>2, <1>4, <2>1
  <1>9. a.B /\ ~a.before => BcmIn(G)  BY <1>2, <1>4
  <1>10. ImageSafe(a, m, R, G)
    <2>1. ~a.before => \A h \in Hs(a) : Hashed(a, m, G, h)  BY <1>3, <1>4
    <2> QED  BY <1>2, <2>1, Zenon DEF ImageSafe
  <1>11. CASE a.before
    <2>1. q = "huawei"  BY <1>11
    <2>2. ~Titled(a, q) /\ ~TitledTwice(a, q)
      BY <1>11, <2>1 DEF Titled, TitledTwice
    <2> QED  BY <1>5, <1>6, <1>10, <2>1, <2>2, <1>11, Zenon DEF Facts
  <1>12. CASE ~a.before
    <2>1. q = "cms"  BY <1>12
    <2> QED  BY <1>5, <1>6, <1>7, <1>8, <1>9, <1>10, <1>12, <2>1, Zenon DEF Facts
  <1> QED  BY <1>11, <1>12

LEMMA TailSpots ==
    ASSUME NEW a, NEW m, Fits(a, m)
    PROVE  /\ TailLo(a, m) \in Nat /\ ImageLo(a) \in Nat /\ m \in Nat
           /\ HeadLo(a, 0, m) \in Nat
           /\ HeadLo(a, 0, m) + \h2000 <= TailLo(a, m)
           /\ ImageLo(a) + ImageLen(a, m) <= TailLo(a, m)
           /\ a.before => /\ TailLo(a, m) + \h5000 <= m + \h1FF00
                          /\ (m + \h1FF00) + HashTreeLen + 12 <= a.partition
                          /\ HashTreeLen \in Nat /\ a.partition \in Nat
  <1>1. m \in Nat /\ (a.before => m + \h20000 + HashTreeLen <= a.partition) /\ a \in Args
    BY DEF Fits
  <1>2. HashTreeLen \in Nat /\ a.partition \in Nat  BY <1>1, Sizes
  <1>3. m % 16 \in 0 .. 15  BY <1>1, SMT
  <1>4. ~a.before => TailLo(a, m) \in Nat /\ TailLo(a, m) >= m + \h2000 + 17
    BY <1>1, <1>3, SMT DEF TailLo
  <1>5. a.before => TailLo(a, m) = m + \h2000  BY <1>1, SMT DEF TailLo
  <1> HIDE DEF TailLo
  <1> QED  BY <1>1, <1>2, <1>4, <1>5, SMT DEF HeadLo, Later, ImageLo, ImageLen, Fits

LEMMA FactsCms ==
    ASSUME NEW a, NEW m, Fits(a, m), NEW R, Source(R, m), NEW F, Whole(F), NEW G,
           Facts(a, m, R, F, "cms"),
           IF a.addcms THEN TailWritten(a, m, F, G) ELSE G = F, NEW q,
           q = IF a.before THEN "hashtree" ELSE "extern"
    PROVE  Facts(a, m, R, G, q)
  <1>1. "cms" \in LateCalls /\ q \in LateCalls /\ (q \in {"hashtree", "address"} => a.before)
        /\ q \notin {"address", "packed", "cms"} /\ (a.before => q # "extern")
    BY DEF LateCalls
  <1>2. Body(a, m, R, F)  BY <1>1, LateFacts
  <1>3. Body(a, m, R, G)
    <2>1. CASE ~a.addcms  BY <1>2, <2>1
    <2>2. CASE a.addcms
      <3>1. Wrote(F, G, TailLo(a, m), TailLo(a, m) + \h5000) /\ (Plain(F) => Plain(G))
        BY <2>2 DEF TailWritten
      <3> DEFINE lo == TailLo(a, m)
                 hi == lo + \h5000
      <3>2. lo \in Nat /\ hi \in Nat  BY TailSpots, SMT
      <3>3. HeadLo(a, 0, m) + \h2000 <= lo /\ ImageLo(a) + ImageLen(a, m) <= lo
        BY TailSpots
      <3>4. Wrote(F, G, lo, hi)  BY <3>1
      <3> HIDE DEF lo, hi
      <3> QED  BY <1>2, <3>1, <3>2, <3>3, <3>4, Above
    <2> QED  BY <2>1, <2>2
  <1>4. a.addcms => Tailed(a, m, G)  BY DEF TailWritten
  <1>5. Rest(a, m, G, q)  BY <1>1, <1>4, Zenon DEF Rest
  <1> QED  BY <1>1, <1>3, <1>5, LateFacts

LEMMA FactsTree ==
    ASSUME NEW a, NEW m, Fits(a, m), a.before, NEW R, Source(R, m), NEW F, Whole(F), NEW G,
           Facts(a, m, R, F, "hashtree"),
           Wrote(F, G, m + \h1FF00, (m + \h1FF00) + HashTreeLen), TreeIn(m, G), Plain(F) => Plain(G)
    PROVE  Facts(a, m, R, G, "address")
  <1>1. "hashtree" \in LateCalls /\ "address" \in LateCalls  BY DEF LateCalls
  <1>2. Body(a, m, R, F) /\ Rest(a, m, F, "hashtree")  BY <1>1, LateFacts
  <1> DEFINE lo == m + \h1FF00
             hi == lo + HashTreeLen
             tail == TailLo(a, m) + \h5000
  <1>3. lo \in Nat /\ hi \in Nat /\ HeadLo(a, 0, m) + \h2000 <= lo
        /\ ImageLo(a) + ImageLen(a, m) <= lo /\ TailLo(a, m) + \h5000 <= lo
    <2>1. m \in Nat /\ HashTreeLen \in Nat /\ TailLo(a, m) \in Nat
          /\ TailLo(a, m) + \h5000 <= lo /\ HeadLo(a, 0, m) \in Nat
          /\ HeadLo(a, 0, m) + \h2000 <= TailLo(a, m)
      BY TailSpots
    <2>2. ImageLo(a) + ImageLen(a, m) = m  BY SMT DEF ImageLo, ImageLen, Fits
    <2> QED  BY <2>1, <2>2, SMT
  <1>4. Wrote(F, G, lo, hi)  OBVIOUS
  <1> HIDE DEF lo, hi
  <1>5. Body(a, m, R, G)  BY <1>2, <1>3, <1>4, Above
  <1>6. a.addcms => Tailed(a, m, G)
    <2>1. a.addcms => Tailed(a, m, F)  BY <1>2 DEF Rest
    <2> QED  BY <1>3, <1>4, <2>1, TailKept
  <1>7. Rest(a, m, G, "address")  BY <1>6 DEF Rest
  <1> QED  BY <1>1, <1>5, <1>7, LateFacts

LEMMA FactsEnd ==
    ASSUME NEW a, NEW m, Fits(a, m), a.before, NEW R, Source(R, m), NEW F, Whole(F), NEW G,
           Facts(a, m, R, F, "address"), EndWritten(a, m, F, G)
    PROVE  Facts(a, m, R, G, "extern")
  <1>1. "address" \in LateCalls /\ "extern" \in LateCalls  BY DEF LateCalls
  <1>2. Body(a, m, R, F) /\ Rest(a, m, F, "address")  BY <1>1, LateFacts
  <1> DEFINE lo == a.partition - 12
             hi == a.partition
             tree == m + \h1FF00
  <1>3. /\ lo \in Nat /\ hi \in Nat /\ HeadLo(a, 0, m) + \h2000 <= lo
        /\ ImageLo(a) + ImageLen(a, m) <= lo /\ TailLo(a, m) + \h5000 <= lo
        /\ tree + HashTreeLen <= lo
    <2>1. m \in Nat /\ HashTreeLen \in Nat /\ TailLo(a, m) \in Nat
          /\ TailLo(a, m) + \h5000 <= tree /\ HeadLo(a, 0, m) \in Nat
          /\ HeadLo(a, 0, m) + \h2000 <= TailLo(a, m)
          /\ tree + HashTreeLen + 12 <= hi /\ hi \in Nat
      BY TailSpots
    <2>2. ImageLo(a) + ImageLen(a, m) = m  BY SMT DEF ImageLo, ImageLen, Fits
    <2> QED  BY <2>1, <2>2, SMT
  <1>4. Wrote(F, G, lo, hi) /\ EndIn(a, m, G) /\ (Plain(F) => Plain(G))  BY DEF EndWritten
  <1> HIDE DEF lo, hi, tree
  <1>5. Body(a, m, R, G)  BY <1>2, <1>3, <1>4, Above
  <1>6. a.addcms => Tailed(a, m, G)
    <2>1. a.addcms => Tailed(a, m, F)  BY <1>2 DEF Rest
    <2> QED  BY <1>3, <1>4, <2>1, TailKept
  <1>7. TreeIn(m, G)
    <2>1. TreeIn(m, F)  BY <1>2 DEF Rest
    <2> QED  BY <1>3, <1>4, <2>1, StillThere DEF TreeIn, tree
  <1>8. Rest(a, m, G, "extern")  BY <1>4, <1>6, <1>7 DEF Rest
  <1> QED  BY <1>1, <1>5, <1>8, LateFacts

LEMMA ExternRoom ==
    ASSUME NEW a, NEW m, Fits(a, m), NEW R, NEW F, Whole(F), Facts(a, m, R, F, "extern")
    PROVE  HeadLo(a, 0, m) + \h2000 <= F.size
  <1>1. "extern" \in LateCalls  BY DEF LateCalls
  <1>2. Body(a, m, R, F) /\ Rest(a, m, F, "extern")  BY <1>1, LateFacts
  <1>3. ImageLo(a) + m <= F.size  BY <1>2 DEF Body, ImageSafe
  <1>4. a.before => a.partition <= F.size  BY <1>2 DEF Rest, EndIn
  <1>5. F.size \in Nat  BY DEF Whole
  <1>6. CASE a.before
    <2>1. m \in Nat /\ HashTreeLen \in Nat /\ a.partition \in Nat
          /\ (m + \h1FF00) + HashTreeLen + 12 <= a.partition /\ HeadLo(a, 0, m) = m
      BY <1>6, TailSpots, HeadSpots
    <2> QED  BY <1>4, <1>5, <1>6, <2>1, SMT
  <1>7. CASE ~a.before
    <2>1. ImageLo(a) = \h2000 /\ HeadLo(a, 0, m) = 0 /\ m \in Nat
      BY <1>7, HeadSpots DEF ImageLo
    <2> QED  BY <1>3, <1>5, <2>1, SMT
  <1> QED  BY <1>6, <1>7

LEMMA FactsExtern ==
    ASSUME NEW a, NEW m, Fits(a, m), NEW R, Source(R, m), NEW F, Whole(F), NEW G,
           Facts(a, m, R, F, "extern"), ExternDone(a, m, F, G)
    PROVE  Facts(a, m, R, G, "packed")
  <1>1. "extern" \in LateCalls /\ "packed" \in LateCalls  BY DEF LateCalls
  <1>2. Body(a, m, R, F) /\ Rest(a, m, F, "extern")  BY <1>1, LateFacts
  <1>3. Body(a, m, R, G)  BY <1>2, BodyExtern
  <1> DEFINE lo == HeadLo(a, 0, m)
             hi == lo + \h2000
             tree == m + \h1FF00
  <1>4. Wrote(F, G, lo, hi)  BY DEF ExternDone
  <1>5. lo \in Nat /\ hi \in Nat /\ hi <= TailLo(a, m)
    <2>1. lo \in Nat /\ hi <= TailLo(a, m)  BY TailSpots
    <2> QED  BY <2>1, SMT
  <1>6. a.before => hi <= tree /\ hi + 12 <= a.partition
    <2>1. ASSUME a.before
          PROVE  /\ TailLo(a, m) \in Nat /\ TailLo(a, m) + \h5000 <= tree
                 /\ tree + HashTreeLen + 12 <= a.partition
                 /\ m \in Nat /\ HashTreeLen \in Nat /\ a.partition \in Nat
      BY <2>1, TailSpots
    <2> QED  BY <1>5, <2>1, SMT
  <1> HIDE DEF lo, hi, tree
  <1>7. a.addcms => Tailed(a, m, G)
    <2>1. a.addcms => Tailed(a, m, F)  BY <1>2 DEF Rest
    <2> QED  BY <1>4, <1>5, <2>1, TailKept
  <1>8. a.before => TreeIn(m, G)
    <2>1. a.before => TreeIn(m, F)  BY <1>2 DEF Rest
    <2> QED  BY <1>4, <1>5, <1>6, <2>1, StillThere DEF TreeIn, tree
  <1>9. a.before => EndIn(a, m, G)
    <2>1. a.before => EndIn(a, m, F)  BY <1>2 DEF Rest
    <2> QED  BY <1>4, <1>5, <1>6, <2>1, EndKept
  <1>10. MagicIn(a, G, HeadLo(a, 0, m) + MagicOff(a), MagicLen(a))  BY DEF ExternDone
  <1>11. a.before /\ a.platform = "ascend610" => \A h \in Hs(a) : Hashed(a, m, G, h)
    <2>1. a.before /\ a.platform = "ascend610" =>
             \A h \in Hs(a) : HeadBoxed(a, m, F, h) => Hashed(a, m, G, h)
      BY DEF ExternDone
    <2>2. \A h \in Hs(a) : HeadBoxed(a, m, F, h)  BY <1>2 DEF Body
    <2> QED  BY <2>1, <2>2
  <1>12. Rest(a, m, G, "packed")  BY <1>7, <1>8, <1>9, <1>10, <1>11 DEF Rest
  <1> QED  BY <1>1, <1>3, <1>12, LateFacts

LEMMA FactsRaised ==
    ASSUME NEW a, NEW m, NEW R, NEW F, NEW p, Facts(a, m, R, F, p)
    PROVE  Facts(a, m, R, F, "raised")
  <1>1. (\A h \in Hs(a) : HeadBoxed(a, m, F, h)) /\ (a.enc = "no" => Plain(F))  BY DEF Facts
  <1>2. ~Titled(a, "raised") /\ ~TitledTwice(a, "raised") /\ ~Loaded(a, "raised")
    BY DEF Titled, TitledTwice, Loaded
  <1> QED  BY <1>1, <1>2 DEF Facts

-----------------------------------------------------------------------------
(* The steps of hi1910 *)

LEMMA Facts1910First ==
    ASSUME NEW a, NEW m, FitsHi1910(a, m), NEW R, NEW F, Whole(F),
           NEW q, q = IF a.D THEN "customer" ELSE IF a.before THEN "cms"
                      ELSE IF a.B THEN "bcm" ELSE "image"
    PROVE  Facts1910(a, m, R, H1910!WriteHeaderHuawei(F, a), q)
  <1>1. Head1910(a, H1910!WriteHeaderHuawei(F, a))  BY Header1910
  <1>2. ~(a.D /\ q \in {"image", "cms", "extern", "packed"})
        /\ q # "cms" /\ q # "extern" /\ q # "packed"
    BY DEF FitsHi1910
  <1> QED  BY <1>1, <1>2 DEF Facts1910

LEMMA Facts1910Second ==
    ASSUME NEW a, NEW m, FitsHi1910(a, m), NEW R, NEW F, Whole(F),
           Facts1910(a, m, R, F, "customer"), NEW G, G = H1910!WriteHeaderCustomer(F, a)
    PROVE  Facts1910(a, m, R, G, "image")
  <1>1. Head1910(a, F)  BY DEF Facts1910
  <1> DEFINE lo == Lo1910(a) + \h2000
             hi == Lo1910(a) + \h2470
  <1>2. Wrote(F, G, lo, hi) /\ hi <= G.size  BY Second1910
  <1>3. lo \in Nat /\ hi \in Nat  BY SMT DEF Lo1910
  <1>4. Head1910(a, G)
    <2>1. Lo1910(a) + \h2000 <= lo  BY <1>3, SMT
    <2> HIDE DEF lo, hi
    <2> QED  BY <1>1, <1>2, <1>3, <2>1, Head1910Kept
  <1>5. Lo1910(a) + \h2470 <= G.size  BY <1>2
  <1> QED  BY <1>4, <1>5 DEF Facts1910

LEMMA Facts1910Image ==
    ASSUME NEW a, NEW m, FitsHi1910(a, m), NEW R, Source(R, m), NEW r, r.size = m, r.ext = R,
           NEW F, Whole(F), Facts1910(a, m, R, F, "image"),
           NEW G, G = H1910!WriteImage(F, a, r)
    PROVE  Facts1910(a, m, R, G, "cms")
  <1>1. Head1910(a, F) /\ (a.D => Lo1910(a) + \h2470 <= F.size)  BY DEF Facts1910
  <1> DEFINE lo == Image1910(a)
             hi == lo + m
  <1>2. Wrote(F, G, lo, hi) /\ ImageIn1910(a, R, G) /\ lo + m <= G.size
    BY ImageOf1910
  <1>3. lo \in Nat /\ m \in Nat /\ Lo1910(a) \in Nat
        /\ (lo + m <= Lo1910(a) \/ Lo1910(a) + \h4000 <= lo)
    BY Places1910
  <1>4. hi \in Nat /\ (hi <= Lo1910(a) \/ Lo1910(a) + \h2000 <= lo)  BY <1>3, SMT
  <1>5. Head1910(a, G)
    <2> HIDE DEF lo, hi
    <2> QED  BY <1>1, <1>2, <1>3, <1>4, Head1910Kept
  <1>6. a.D => Lo1910(a) + \h2470 <= G.size
    <2>1. F.size \in Nat /\ G.size \in Nat /\ F.size <= G.size  BY <1>2 DEF Wrote, Whole
    <2> QED  BY <1>1, <1>3, <2>1, SMT
  <1>7. Image1910(a) + m <= G.size  BY <1>2
  <1> QED  BY <1>2, <1>5, <1>6, <1>7 DEF Facts1910

LEMMA Facts1910Cms ==
    ASSUME NEW a, NEW m, FitsHi1910(a, m), NEW R, Source(R, m),
           NEW F, Whole(F), Facts1910(a, m, R, F, "cms"),
           NEW G, IF a.addcms THEN G = H1910!WriteCms(F, a, m) ELSE G = F
    PROVE  Facts1910(a, m, R, G, "extern")
  <1>1. /\ Head1910(a, F) /\ (a.D => Lo1910(a) + \h2470 <= F.size)
        /\ ImageIn1910(a, R, F) /\ Image1910(a) + m <= F.size
    BY DEF Facts1910
  <1>2. CASE ~a.addcms
    <2>1. G = F  BY <1>2
    <2> QED  BY <1>1, <1>2, <2>1 DEF Facts1910
  <1>3. CASE a.addcms
    <2>1. ~a.S  BY <1>3 DEF FitsHi1910
    <2> DEFINE lo == TailLo1910(m)
               hi == lo + \h3000
    <2>2. Wrote(F, G, lo, hi) /\ Tail1910(a, m, G)  BY <1>3, <2>1, TailOf1910
    <2>3. lo \in Nat /\ m \in Nat /\ Lo1910(a) \in Nat /\ Image1910(a) \in Nat
          /\ Image1910(a) + m <= lo /\ Lo1910(a) + \h4000 <= lo
      BY <2>1, Places1910
    <2>4. hi \in Nat /\ Lo1910(a) + \h2000 <= lo  BY <2>3, SMT
    <2>5. F.size \in Nat /\ G.size \in Nat /\ F.size <= G.size  BY <2>2 DEF Wrote, Whole
    <2>6. (a.D => Lo1910(a) + \h2470 <= G.size) /\ Image1910(a) + m <= G.size
      BY <1>1, <2>3, <2>5, SMT
    <2> HIDE DEF lo, hi
    <2>7. Head1910(a, G)  BY <1>1, <2>2, <2>3, <2>4, Head1910Kept
    <2>8. ImageIn1910(a, R, G)  BY <1>1, <2>2, <2>3, <2>4, Image1910Kept
    <2> QED  BY <2>2, <2>6, <2>7, <2>8 DEF Facts1910
  <1> QED  BY <1>2, <1>3

LEMMA Facts1910Extern ==
    ASSUME NEW a, NEW m, FitsHi1910(a, m), NEW R, Source(R, m),
           NEW F, Whole(F), Facts1910(a, m, R, F, "extern"),
           NEW G, G = H1910!WriteExtern(F, a), F.size <= G.size
    PROVE  Facts1910(a, m, R, G, "packed")
  <1>1. /\ Head1910(a, F) /\ (a.D => Lo1910(a) + \h2470 <= F.size)
        /\ ImageIn1910(a, R, F) /\ Image1910(a) + m <= F.size
        /\ a.addcms => Tail1910(a, m, F)
    BY DEF Facts1910
  <1>2. /\ Whole(G)
        /\ Head1910(a, F) => Head1910(a, G)
        /\ ImageIn1910(a, R, F) => ImageIn1910(a, R, G)
        /\ ~a.S /\ Tail1910(a, m, F) => Tail1910(a, m, G)
        /\ Lo1910(a) + \h2470 <= F.size => Magic(a, G)
    BY Extern1910
  <1>3. Lo1910(a) \in Nat /\ Image1910(a) \in Nat /\ m \in Nat  BY Places1910
  <1>4. F.size \in Nat /\ G.size \in Nat  BY <1>2 DEF Whole
  <1>5. (a.D => Lo1910(a) + \h2470 <= G.size) /\ Image1910(a) + m <= G.size
    BY <1>1, <1>3, <1>4, SMT
  <1>6. a.addcms => ~a.S  BY DEF FitsHi1910
  <1>7. a.addcms => Tail1910(a, m, G)  BY <1>1, <1>2, <1>6
  <1>8. (a.S => a.D) => Magic(a, G)
    <2>1. ~a.S => Lo1910(a) + \h2470 <= F.size
      BY <1>1, <1>3, <1>4, SMT DEF Lo1910, Image1910
    <2> QED  BY <1>1, <1>2, <2>1
  <1>9. Head1910(a, G) /\ ImageIn1910(a, R, G)  BY <1>1, <1>2
  <1> QED  BY <1>5, <1>7, <1>8, <1>9 DEF Facts1910

-----------------------------------------------------------------------------
(* What is written for any command line stays a file of whole pieces *)

Grown(F, G) == Whole(G) /\ F.size <= G.size

LEMMA GrownThen ==
    ASSUME NEW F, Whole(F), NEW G, Grown(F, G), NEW K, Grown(G, K)
    PROVE  Grown(F, K)
  BY DEF Grown, Whole

LEMMA GrownWrite ==
    ASSUME NEW F, Whole(F), NEW f, NEW at \in Nat, NEW len \in Nat
    PROVE  /\ Grown(F, Write(F, f, at, len)) /\ at + len <= Write(F, f, at, len).size
  BY WriteIn DEF Grown, Wrote

LEMMA GrownPut ==
    ASSUME NEW F, Whole(F), NEW lo \in Nat, NEW hi \in Nat, lo <= hi,
           NEW P, \A e \in P : e.at \in Nat /\ e.len \in Nat /\ Inside(e, lo, hi)
    PROVE  Grown(F, Put(F, lo, hi, P)) /\ hi <= Put(F, lo, hi, P).size
  BY PutWrote DEF Grown, Wrote

LEMMA GrownHolding ==
    ASSUME NEW F, Whole(F), NEW v, NEW f, NEW at \in Nat, NEW len \in Nat
    PROVE  Grown(F, PutPiece(F, Holding(v, Piece(f, at, len))))
  <1> DEFINE p == Holding(v, Piece(f, at, len))
  <1>1. p.at \in Nat /\ p.len \in Nat  BY HoldingIs
  <1> HIDE DEF p
  <1>2. Grown(F, PutPiece(F, p))  BY <1>1, PieceWrote DEF Grown, Wrote
  <1> QED  BY <1>2 DEF p

LEMMA GrownHash ==
    ASSUME NEW F, Whole(F), NEW lo \in Nat, NEW len \in Nat
    PROVE  Grown(F, WriteHash(F, lo, len))
  BY HashTyped DEF Grown

\* Two writes, three writes.
LEMMA GrownTwo ==
    ASSUME NEW F, Whole(F), NEW f, NEW x \in Nat, NEW l \in Nat,
           NEW g, NEW y \in Nat, NEW k \in Nat
    PROVE  Grown(F, Write(Write(F, f, x, l), g, y, k))
  <1> DEFINE F1 == Write(F, f, x, l)
  <1>1. Grown(F, F1)  BY GrownWrite
  <1> HIDE DEF F1
  <1>2. Grown(F1, Write(F1, g, y, k))  BY <1>1, GrownWrite DEF Grown
  <1> QED  BY <1>1, <1>2, GrownThen DEF F1

LEMMA GrownThree ==
    ASSUME NEW F, Whole(F), NEW f, NEW x \in Nat, NEW l \in Nat,
           NEW g, NEW y \in Nat, NEW k \in Nat, NEW i, NEW z \in Nat, NEW j \in Nat
    PROVE  Grown(F, Write(Write(Write(F, f, x, l), g, y, k), i, z, j))
  <1> DEFINE F1 == Write(Write(F, f, x, l), g, y, k)
  <1>1. Grown(F, F1)  BY GrownTwo
  <1> HIDE DEF F1
  <1>2. Grown(F1, Write(F1, i, z, j))  BY <1>1, GrownWrite DEF Grown
  <1> QED  BY <1>1, <1>2, GrownThen DEF F1

\* The image, and the hashes of what is in front of it.
LEMMA GrownImage ==
    ASSUME NEW R, NEW m \in Nat, Source(R, m), NEW lo \in Nat, NEW F, Whole(F)
    PROVE  Grown(F, Put(F, lo, lo + m, Copied(R, lo)))
           /\ lo + m <= Put(F, lo, lo + m, Copied(R, lo)).size
  <1> DEFINE P == Copied(R, lo)
             hi == lo + m
  <1>1. \A e \in P : e.at \in Nat /\ e.len \in Nat /\ Inside(e, lo, hi)  BY CopiedInside
  <1>2. hi \in Nat /\ lo <= hi  OBVIOUS
  <1> HIDE DEF P, hi
  <1>3. Grown(F, Put(F, lo, hi, P)) /\ hi <= Put(F, lo, hi, P).size  BY <1>1, <1>2, GrownPut
  <1> QED  BY <1>3 DEF P, hi

LEMMA GrownHashes ==
    ASSUME NEW F, Whole(F), NEW x \in Nat, NEW y \in Nat, NEW len \in Nat, NEW G,
           G \in {WriteHash(F, x, len), WriteHash(WriteHash(F, x, len), y, len)}
    PROVE  Grown(F, G)
  <1> DEFINE F1 == WriteHash(F, x, len)
  <1>1. Grown(F, F1)  BY GrownHash
  <1>2. G = F1 \/ G = WriteHash(F1, y, len)  OBVIOUS
  <1> HIDE DEF F1
  <1>3. Grown(F1, WriteHash(F1, y, len))  BY <1>1, GrownHash DEF Grown
  <1>4. Grown(F, WriteHash(F1, y, len))  BY <1>1, <1>3, GrownThen
  <1> QED  BY <1>1, <1>2, <1>4

-----------------------------------------------------------------------------
(* ascend610 *)

LEMMA Spots610 ==
    ASSUME NEW a, NEW m \in Nat, NEW h \in {0, 1}
    PROVE  /\ A610!HeaderAt(a, h, m) \in Nat /\ A610!Cover \in Nat
           /\ A610!HeaderAt(a, h, m) + A610!Cover \in Nat
           /\ A610!HeaderAt(a, h, m) + \hB18 \in Nat
           /\ A610!At(a, A610!Base(h) + \h500) \in Nat /\ A610!At(a, A610!Base(h) + \hE00) \in Nat
           /\ A610!ImageAt(a) \in Nat /\ A610!CmsAt(a, m) \in Nat /\ A610!CmsSize(a) \in Nat
           /\ A610!Base(h) \in Nat /\ A610!Base(h) + \h46C \in Nat
           /\ (IF a.S THEN \hC000 + A610!Base(h) ELSE A610!Base(h) + m) \in Nat
           /\ A610!At(a, 0) \in Nat /\ A610!At(a, \h1000) \in Nat
  <1>1. m % 16 \in 0 .. 15  BY SMT
  <1>2. A610!CmsAt(a, m) \in Nat  BY <1>1, SMT DEF A610!CmsAt
  <1>3. A610!HeaderAt(a, h, m) \in Nat
    BY SMT DEF A610!HeaderAt, A610!At, A610!Base
  <1>4. A610!Base(h) \in Nat  BY SMT DEF A610!Base
  <1>5. A610!ImageAt(a) \in Nat /\ A610!CmsSize(a) \in Nat /\ A610!Cover \in Nat
    BY SMT DEF A610!ImageAt, A610!CmsSize, A610!Cover
  <1>6. \A k \in Nat : A610!At(a, k) \in Nat  BY SMT DEF A610!At
  <1> HIDE DEF A610!At
  <1> QED  BY <1>2, <1>3, <1>4, <1>5, <1>6, SMT

LEMMA GrownHeader610 ==
    ASSUME NEW a \in Args, NEW m \in Nat, NEW h \in {0, 1}, NEW F, Whole(F)
    PROVE  Grown(F, A610!WriteSingleHeader(F, a, h, m))
  <1> DEFINE at == A610!HeaderAt(a, h, m)
             P == A610!Header(a, h, m)
             hi == at + A610!Cover
             F2 == IF a.addsoc THEN A610!WriteSignature(A610!WriteCert(F, a, h), a, h) ELSE F
             F3 == Put(F2, at, hi, P)
  <1>1. at \in Nat /\ hi \in Nat /\ at <= hi /\ at + \hB18 \in Nat /\ hi = at + \h4BC
    BY Spots610, SMT DEF A610!Cover
  <1>2. \A e \in P : e.at \in Nat /\ e.len \in Nat /\ Inside(e, at, hi)
    <2> DEFINE v == A610!WriteCodeOffset(a, h)
               w == IF a.enc = "no" THEN 0 ELSE 1
    <2>1. P = {Holding(v, Piece("head", at, \h464)), Holding(w, Piece("encflag", at + \h464, 4)),
               Piece("encalgo", at + \h468, 4), Piece("zeroes", at + \h46C, \h30),
               Piece("headend", at + \h49C, \h20)}
      BY Same610 DEF A610!Header
    <2> HIDE DEF at, v, w, P, hi
    <2> QED  BY <1>1, <2>1, SMT DEF Holding, Piece, Inside
  <1>3. Grown(F, F2)
    <2>1. CASE a.addsoc
      <3>1. F2 = Write(Write(F, "cert", A610!At(a, A610!Base(h) + \h500), a.cert),
                       "sig", A610!At(a, A610!Base(h) + \hE00), SigLen)
        BY <2>1, Same610 DEF A610!WriteCert, A610!WriteSignature
      <3>2. a.cert \in Nat /\ SigLen \in Nat  BY Sizes
      <3>3. A610!At(a, A610!Base(h) + \h500) \in Nat /\ A610!At(a, A610!Base(h) + \hE00) \in Nat
        BY Spots610
      <3> HIDE DEF F2
      <3> QED  BY <3>1, <3>2, <3>3, GrownTwo
    <2>2. CASE ~a.addsoc
      BY <2>2 DEF Grown, Whole
    <2> QED  BY <2>1, <2>2
  <1>4. A610!WriteSingleHeader(F, a, h, m) = IF a.nvcnt THEN Write(F3, "nvcnt", at + \hB18, 8) ELSE F3
    <2> HIDE DEF P
    <2> QED  BY Same610 DEF A610!WriteSingleHeader, A610!WriteHeader, P
  <1> HIDE DEF F2, P, at, hi
  <1>5. Grown(F2, F3)  BY <1>1, <1>2, <1>3, GrownPut DEF Grown
  <1> HIDE DEF F3
  <1>6. Grown(F, F3)  BY <1>3, <1>5, GrownThen
  <1>7. 8 \in Nat  OBVIOUS
  <1>8. Grown(F3, Write(F3, "nvcnt", at + \hB18, 8))  BY <1>1, <1>6, <1>7, GrownWrite DEF Grown
  <1>9. Grown(F, Write(F3, "nvcnt", at + \hB18, 8))  BY <1>6, <1>8, GrownThen
  <1> QED  BY <1>4, <1>6, <1>9

LEMMA GrownSalts610 ==
    ASSUME NEW a, NEW F, Whole(F)
    PROVE  Grown(F, A610!WriteSaltAndIv(F, a))
  <1> DEFINE x == A610!Base(0) + \h46C
             y == A610!Base(1) + \h46C
             l == \h30
  <1>1. A610!WriteSaltAndIv(F, a) = IF a.B THEN Write(F, "salt", x, l)
                                    ELSE Write(Write(F, "salt", x, l), "salt", y, l)
    BY Same610 DEF A610!WriteSaltAndIv, A610!HeaderWriteSaltAndIv
  <1>2. x \in Nat /\ y \in Nat /\ l \in Nat  BY SMT DEF A610!Base
  <1> HIDE DEF x, y, l
  <1>3. Grown(F, Write(F, "salt", x, l)) /\ Grown(F, Write(Write(F, "salt", x, l), "salt", y, l))
    BY <1>2, GrownWrite, GrownTwo
  <1> QED  BY <1>1, <1>3

LEMMA GrownImage610 ==
    ASSUME NEW a \in Args, NEW m \in Nat, NEW R, Source(R, m), NEW r, r.size = m, r.ext = R,
           NEW F, Whole(F)
    PROVE  LET G == A610!WriteImage(F, a, r)
           IN  Grown(F, G) /\ (~a.before /\ ~a.S => \h2000 <= G.size)
  <1> DEFINE x == A610!ImageAt(a)
             W == IF a.enc = "no" THEN A610!WriteRawImg(F, a, r) ELSE A610!WriteCipher(F, a, r)
             G == A610!WriteImage(F, a, r)
  <1>1. x \in Nat  BY Spots610
  <1>2. Grown(F, W) /\ x <= W.size
    <2>1. CASE a.enc = "no"
      <3>1. W = Put(F, x, x + m, Copied(R, x))  BY <2>1, Same610 DEF A610!WriteRawImg
      <3> HIDE DEF x, W
      <3>2. Grown(F, W) /\ x + m <= W.size  BY <1>1, <3>1, GrownImage
      <3> QED  BY <1>1, <3>2 DEF Grown, Whole
    <2>2. CASE a.enc # "no"
      <3> DEFINE F1 == A610!WriteSaltAndIv(F, a)
                 l == A610!CipherLen(a, m)
      <3>1. W = Write(F1, "cipher", x, l)  BY <2>2, Same610 DEF A610!WriteCipher
      <3>2. l \in Nat  BY SMT DEF A610!CipherLen
      <3>3. Grown(F, F1)  BY GrownSalts610
      <3> HIDE DEF x, W, F1, l
      <3>4. Grown(F1, W) /\ x + l <= W.size  BY <1>1, <3>1, <3>2, <3>3, GrownWrite DEF Grown
      <3>5. Grown(F, W)  BY <3>3, <3>4, GrownThen
      <3> QED  BY <1>1, <3>2, <3>4, <3>5 DEF Grown, Whole
    <2> QED  BY <2>1, <2>2
  <1> DEFINE y == IF a.S THEN \hC000 + A610!Base(0) ELSE A610!Base(0) + 0
             z == IF a.S THEN \hC000 + A610!Base(1) ELSE A610!Base(1) + 0
             c == A610!Cover
  <1>3. y \in Nat /\ z \in Nat /\ c \in Nat  BY SMT DEF A610!Base, A610!Cover
  <1>4. G = IF a.before THEN W
            ELSE IF a.B THEN WriteHash(W, y, c)
            ELSE WriteHash(WriteHash(W, y, c), z, c)
    BY Same610 DEF A610!WriteImage, A610!WriteHeaderHash
  <1>5. ~a.before /\ ~a.S => x = \h2000  BY DEF A610!ImageAt
  <1> HIDE DEF W, y, z, c, G, x
  <1>6. \A K \in {WriteHash(W, y, c), WriteHash(WriteHash(W, y, c), z, c)} : Grown(W, K)
    BY <1>2, <1>3, GrownHashes DEF Grown
  <1>7. G = W \/ Grown(W, G)  BY <1>4, <1>6
  <1>8. Grown(F, G) /\ x <= G.size
    <2>1. CASE G = W  BY <1>2, <2>1
    <2>2. CASE Grown(W, G)
      <3>1. Grown(F, G)  BY <1>2, <2>2, GrownThen
      <3> QED  BY <1>1, <1>2, <2>2, <3>1 DEF Grown, Whole
    <2> QED  BY <1>7, <2>1, <2>2
  <1> QED  BY <1>5, <1>8 DEF G

LEMMA GrownBcm ==
    ASSUME NEW F, Whole(F), NEW G, G \in {A610!WriteHeaderBcm(F), H1111!WriteHeaderBcm(F)}
    PROVE  Grown(F, G)
  BY Bcm DEF Grown, Wrote

LEMMA GrownCms610 ==
    ASSUME NEW a \in Args, NEW m \in Nat, NEW F, Whole(F)
    PROVE  Grown(F, A610!WriteCms(F, a, m))
  <1> DEFINE x == A610!CmsAt(a, m)
             y == x + A610!CmsSize(a)
             z == y + \h800
             t == 16 + a.tail
  <1>1. A610!WriteCms(F, a, m) = Write(Write(Write(F, "cms", x, t), "ini", y, t), "crl", z, t)
    BY Same610 DEF A610!WriteCms
  <1>2. x \in Nat /\ A610!CmsSize(a) \in Nat /\ a.tail \in Nat
    <2>1. 0 \in {0, 1}  OBVIOUS
    <2> QED  BY <2>1, Spots610, Sizes
  <1>3. x \in Nat /\ y \in Nat /\ z \in Nat /\ t \in Nat  BY <1>2, SMT
  <1> HIDE DEF x, y, z, t
  <1> QED  BY <1>1, <1>3, GrownThree

LEMMA GrownTree ==
    ASSUME NEW m \in Nat, NEW F, Whole(F), NEW G,
           G \in {A610!WriteHashTree(F, m), H1111!WriteHashTree(F, m)}
    PROVE  Grown(F, G)
  <1> DEFINE x == m + \h20000 - \h100
  <1>1. G = Write(F, "hashtree", x, HashTreeLen)
    BY Same610, Same1111 DEF A610!WriteHashTree, H1111!WriteHashTree
  <1>2. x \in Nat  BY SMT
  <1>3. HashTreeLen \in Nat  BY InputSizes
  <1> HIDE DEF x
  <1> QED  BY <1>1, <1>2, <1>3, GrownWrite

LEMMA GrownEnd ==
    ASSUME NEW a \in Args, NEW m \in Nat, NEW F, Whole(F), NEW G,
           G \in {A610!WriteVersion(A610!WriteHeaderAddress(F, a, m), a),
                  H1111!WriteVersion(H1111!WriteHeaderAddress(F, a, m), a)}
    PROVE  Grown(F, G)
  <1> DEFINE x == a.partition - 12
             y == a.partition - 8
             z == a.partition - 4
             F1 == IF a.large THEN PutPiece(F, Holding(m, Piece("address", x, 8)))
                   ELSE PutPiece(F, Holding(m, Piece("address", y, 4)))
  <1>1. G = Write(F1, "version", z, 4)
    BY Same610, Same1111 DEF A610!WriteVersion, A610!WriteHeaderAddress,
       H1111!WriteVersion, H1111!WriteHeaderAddress
  <1>2. x \in Nat /\ y \in Nat /\ z \in Nat /\ 4 \in Nat /\ 8 \in Nat  BY Sizes, SMT
  <1> HIDE DEF x, y, z
  <1>3. Grown(F, F1)  BY <1>2, GrownHolding
  <1> HIDE DEF F1
  <1>4. Grown(F1, G)  BY <1>1, <1>2, <1>3, GrownWrite DEF Grown
  <1> QED  BY <1>3, <1>4, GrownThen

LEMMA GrownExtern610 ==
    ASSUME NEW a \in Args, NEW m \in Nat, NEW F, Whole(F)
    PROVE  Grown(F, A610!WriteExtern(F, a, m))
  <1> DEFINE x == IF a.S THEN \hC000 + A610!Base(0) ELSE A610!Base(0) + m
             y == IF a.S THEN \hC000 + A610!Base(1) ELSE A610!Base(1) + m
             c == A610!Cover
             H == IF a.D THEN WriteHash(WriteHash(F, x, c), y, c) ELSE WriteHash(F, x, c)
             W(K) == IF a.before /\ K.size >= Word32 THEN 0 ELSE K.size
             v == m + \h4E0
             w == 0 + \h4E0
             G1 == PutPiece(H, Holding(W(H), Piece("magic", v, 24)))
             G2 == PutPiece(F, Holding(W(F), Piece("magic", w, 24)))
  <1>1. A610!WriteExtern(F, a, m) = IF a.before THEN G1 ELSE G2
    BY Same610 DEF A610!WriteExtern, A610!WriteMagic, A610!WriteHeaderHash
  <1>2. x \in Nat /\ y \in Nat /\ c \in Nat /\ v \in Nat /\ w \in Nat /\ 24 \in Nat
    BY SMT DEF A610!Base, A610!Cover
  <1> HIDE DEF x, y, c, W, v, w
  <1>3. Grown(F, H)  BY <1>2, GrownHashes
  <1> HIDE DEF H
  <1>4. Grown(H, G1)  BY <1>2, <1>3, GrownHolding DEF Grown
  <1>5. Grown(F, G2)  BY <1>2, GrownHolding
  <1> HIDE DEF G1, G2
  <1>6. Grown(F, G1)  BY <1>3, <1>4, GrownThen
  <1> QED  BY <1>1, <1>5, <1>6

-----------------------------------------------------------------------------
(* as31xm1 *)

LEMMA Spots1111 ==
    ASSUME NEW a, NEW m \in Nat, NEW h \in {0, 1}
    PROVE  /\ H1111!HeaderAt(a, h, m) \in Nat
           /\ H1111!At(a, H1111!Base(h) + \h600) \in Nat /\ H1111!At(a, H1111!Base(h) + \hE00) \in Nat
           /\ H1111!ImageAt(a) \in Nat /\ H1111!CmsAt(a, m) \in Nat
           /\ H1111!Base(h) \in Nat /\ H1111!Base(h) + \h488 \in Nat
  <1>1. m % 16 \in 0 .. 15  BY SMT
  <1>2. H1111!CmsAt(a, m) \in Nat  BY <1>1, SMT DEF H1111!CmsAt
  <1>3. H1111!HeaderAt(a, h, m) \in Nat
    BY SMT DEF H1111!HeaderAt, H1111!At, H1111!Base
  <1>4. H1111!Base(h) \in Nat  BY SMT DEF H1111!Base
  <1>5. H1111!ImageAt(a) \in Nat  BY SMT DEF H1111!ImageAt
  <1>6. \A k \in Nat : H1111!At(a, k) \in Nat  BY SMT DEF H1111!At
  <1> HIDE DEF H1111!At
  <1> QED  BY <1>2, <1>3, <1>4, <1>5, <1>6, SMT

LEMMA GrownHeader1111 ==
    ASSUME NEW a \in Args, NEW m \in Nat, NEW h \in {0, 1}, NEW F, Whole(F)
    PROVE  Grown(F, H1111!WriteSingleHeader(F, a, h, m))
  <1> DEFINE at == H1111!HeaderAt(a, h, m)
             P == H1111!Header(a, h, m)
             hi == at + \h600
             F2 == IF a.addsoc THEN H1111!WriteSignature(H1111!WriteCert(F, a, h), a, h) ELSE F
             F3 == Put(F2, at, hi, P)
  <1>1. at \in Nat /\ hi \in Nat /\ at <= hi /\ hi = at + \h600  BY Spots1111, SMT
  <1>2. \A e \in P : e.at \in Nat /\ e.len \in Nat /\ Inside(e, at, hi)
    <2> DEFINE v == IF a.before THEN 0 ELSE \h2000
               w == IF a.enc = "no" THEN 0 ELSE 1
    <2>1. P = {Holding(v, Piece("head", at, \h484)), Holding(w, Piece("encflag", at + \h484, 4)),
               Piece("zeroes", at + \h488, \h58), Piece("reserved", at + \h4E0, \h58),
               Piece("headend", at + \h538, \h28), Piece("zerohash", at + \h560, \h20),
               Piece("cmsflag", at + \h580, \h10), Piece("nonvcnt", at + \h590, 8),
               Piece("tag", at + \h598, \h68)}
      BY Same1111 DEF H1111!Header
    <2> HIDE DEF at, v, w, P, hi
    <2> QED  BY <1>1, <2>1, SMT DEF Holding, Piece, Inside
  <1>3. Grown(F, F2)
    <2>1. CASE a.addsoc
      <3> DEFINE x == H1111!At(a, H1111!Base(h) + \h600)
                 y == x + a.cert + \h1E8
                 C == {Piece("cert", x, a.cert), Piece("certpad", x + a.cert, \h1E8)}
                 F1 == Put(F, x, y, C)
                 u == H1111!At(a, H1111!Base(h) + \hE00)
                 t == H1111!Base(h) + \h488
      <3>1. F2 = Write(Write(F1, "sig", u, SigLen), "signlen", t, 4)
        BY <2>1, Same1111 DEF H1111!WriteCert, H1111!WriteSignature
      <3>2. a.cert \in Nat /\ SigLen \in Nat /\ 4 \in Nat  BY Sizes
      <3>3. x \in Nat /\ u \in Nat /\ t \in Nat  BY Spots1111
      <3>4. y \in Nat /\ x <= y /\ y = x + a.cert + \h1E8  BY <3>2, <3>3, SMT
      <3> HIDE DEF F2, x, y, u, t, F1
      <3>5. \A e \in C : e.at \in Nat /\ e.len \in Nat /\ Inside(e, x, y)
        BY <3>2, <3>3, <3>4, SMT DEF Piece, Inside
      <3> HIDE DEF C
      <3>6. Grown(F, F1)  BY <3>3, <3>4, <3>5, GrownPut DEF F1
      <3>7. Grown(F1, F2)  BY <3>1, <3>2, <3>3, <3>6, GrownTwo DEF Grown
      <3> QED  BY <3>6, <3>7, GrownThen
    <2>2. CASE ~a.addsoc
      BY <2>2 DEF Grown, Whole
    <2> QED  BY <2>1, <2>2
  <1>4. H1111!WriteSingleHeader(F, a, h, m) = F3
    <2> HIDE DEF P
    <2> QED  BY Same1111 DEF H1111!WriteSingleHeader, H1111!WriteHeader, P
  <1> HIDE DEF F2, P, at, hi
  <1>5. Grown(F2, F3)  BY <1>1, <1>2, <1>3, GrownPut DEF Grown
  <1> HIDE DEF F3
  <1> QED  BY <1>3, <1>4, <1>5, GrownThen

LEMMA GrownImage1111 ==
    ASSUME NEW a \in Args, NEW m \in Nat, NEW R, Source(R, m), NEW r, r.size = m, r.ext = R,
           NEW F, Whole(F)
    PROVE  LET G == H1111!WriteImage(F, a, r)
           IN  Grown(F, G) /\ (~a.before /\ ~a.S => \h2000 <= G.size)
  <1> DEFINE x == H1111!ImageAt(a)
             W == H1111!WriteRawImg(F, a, r)
             G == H1111!WriteImage(F, a, r)
  <1>1. x \in Nat  BY SMT DEF H1111!ImageAt
  <1>2. Grown(F, W) /\ x <= W.size
    <2>1. W = Put(F, x, x + m, Copied(R, x))  BY Same1111 DEF H1111!WriteRawImg
    <2> HIDE DEF x, W
    <2>2. Grown(F, W) /\ x + m <= W.size  BY <1>1, <2>1, GrownImage
    <2> QED  BY <1>1, <2>2 DEF Grown, Whole
  <1> DEFINE y == IF a.S \/ ~a.before THEN H1111!Base(0) ELSE H1111!Base(0) + 0
             z == IF a.S \/ ~a.before THEN H1111!Base(1) ELSE H1111!Base(1) + 0
             c == H1111!Cover
  <1>3. y \in Nat /\ z \in Nat /\ c \in Nat  BY SMT DEF H1111!Base, H1111!Cover
  <1>4. G \in {W, WriteHash(W, y, c), WriteHash(WriteHash(W, y, c), z, c)}
    BY Same1111 DEF H1111!WriteImage, H1111!WriteHeaderHash
  <1>5. ~a.before /\ ~a.S => x = \h2000  BY DEF H1111!ImageAt
  <1> HIDE DEF W, y, z, c, G, x
  <1>6. \A K \in {WriteHash(W, y, c), WriteHash(WriteHash(W, y, c), z, c)} : Grown(W, K)
    BY <1>2, <1>3, GrownHashes DEF Grown
  <1>7. G = W \/ Grown(W, G)  BY <1>4, <1>6
  <1>8. Grown(F, G) /\ x <= G.size
    <2>1. CASE G = W  BY <1>2, <2>1
    <2>2. CASE Grown(W, G)
      <3>1. Grown(F, G)  BY <1>2, <2>2, GrownThen
      <3> QED  BY <1>1, <1>2, <2>2, <3>1 DEF Grown, Whole
    <2> QED  BY <1>7, <2>1, <2>2
  <1> QED  BY <1>5, <1>8 DEF G

LEMMA GrownCms1111 ==
    ASSUME NEW a \in Args, NEW m \in Nat, NEW F, Whole(F)
    PROVE  Grown(F, H1111!WriteCms(F, a, m))
  <1> DEFINE x == H1111!CmsAt(a, m)
             y == x + \h4000
             z == x + \h4800
             t == 16 + a.tail
  <1>1. H1111!WriteCms(F, a, m) = Write(Write(Write(F, "cms", x, t), "ini", y, t), "crl", z, t)
    BY Same1111 DEF H1111!WriteCms
  <1>2. x \in Nat /\ a.tail \in Nat
    <2>1. 0 \in {0, 1}  OBVIOUS
    <2> QED  BY <2>1, Spots1111, Sizes
  <1>3. x \in Nat /\ y \in Nat /\ z \in Nat /\ t \in Nat  BY <1>2, SMT
  <1> HIDE DEF x, y, z, t
  <1> QED  BY <1>1, <1>3, GrownThree

LEMMA GrownExtern1111 ==
    ASSUME NEW a \in Args, NEW m \in Nat, NEW F, Whole(F)
    PROVE  Grown(F, H1111!WriteExtern(F, a, m))
  <1> DEFINE x == IF a.S \/ ~a.before THEN H1111!Base(0) ELSE H1111!Base(0) + m
             y == IF a.S \/ ~a.before THEN H1111!Base(1) ELSE H1111!Base(1) + m
             c == H1111!Cover
             H == IF a.before
                  THEN IF a.D THEN WriteHash(WriteHash(F, x, c), y, c) ELSE WriteHash(F, x, c)
                  ELSE F
             s == IF a.before /\ H.size >= Word32 THEN 0 ELSE H.size
             k == IF a.before THEN m ELSE 0
             u == k + \h580
             v == k + \h590
             w == k + \h4E0
             G1 == PutPiece(H, Holding(s, Piece("magic", u, 12)))
             G2 == IF a.nvcnt THEN Write(G1, "nvcnt", v, 8) ELSE G1
             G3 == PutPiece(G2, Holding(m, Piece("codelen", w, 8)))
  <1>1. H1111!WriteExtern(F, a, m) \in {G2, G3}
    <2>1. CASE a.before
      BY <2>1, Same1111 DEF H1111!WriteExtern, H1111!WriteMagic, H1111!WriteHeaderHash
    <2>2. CASE ~a.before
      BY <2>2, Same1111 DEF H1111!WriteExtern, H1111!WriteMagic
    <2> QED  BY <2>1, <2>2
  <1>2. x \in Nat /\ y \in Nat /\ c \in Nat /\ u \in Nat /\ v \in Nat /\ w \in Nat
        /\ 12 \in Nat /\ 8 \in Nat
    BY SMT DEF H1111!Base, H1111!Cover
  <1> HIDE DEF x, y, c, s, u, v, w, k
  <1>3. Grown(F, H)
    <2>1. Grown(F, F)  BY DEF Grown, Whole
    <2> QED  BY <1>2, <2>1, GrownHashes
  <1> HIDE DEF H
  <1>4. Grown(H, G1)  BY <1>2, <1>3, GrownHolding DEF Grown
  <1> HIDE DEF G1
  <1>5. Grown(F, G1)  BY <1>3, <1>4, GrownThen
  <1>6. Grown(F, G2)
    <2>1. Grown(G1, Write(G1, "nvcnt", v, 8))  BY <1>2, <1>5, GrownWrite DEF Grown
    <2>2. Grown(F, Write(G1, "nvcnt", v, 8))  BY <1>5, <2>1, GrownThen
    <2> QED  BY <1>5, <2>2
  <1> HIDE DEF G2
  <1>7. Grown(G2, G3)  BY <1>2, <1>6, GrownHolding DEF Grown
  <1> HIDE DEF G3
  <1>8. Grown(F, G3)  BY <1>6, <1>7, GrownThen
  <1> QED  BY <1>1, <1>6, <1>8

-----------------------------------------------------------------------------
(* hi1910 *)

LEMMA At1910 ==
    ASSUME NEW a
    PROVE  \A k \in Nat : H1910!At(a, k) \in Nat
  BY SMT DEF H1910!At

LEMMA GrownHuawei1910 ==
    ASSUME NEW a \in Args, NEW F, Whole(F)
    PROVE  Grown(F, H1910!WriteHeaderHuawei(F, a))
  <1> DEFINE c1 == H1910!At(a, \h500)
             c2 == H1910!At(a, \h1000)
             s1 == H1910!At(a, \h1500)
             s2 == H1910!At(a, \h1700)
             t == H1910!At(a, \h4A0)
             z == H1910!At(a, 0)
             l == \h470
             C == Write(Write(F, "cert", c1, a.cert), "cert", c2, a.cert)
             S == Write(Write(C, "sig", s1, SigLen), "sig", s2, SigLen)
             T == IF a.addsoc THEN S ELSE F
             U == Write(T, "tag", t, TagLen)
             v == H1910!CodeOffset(a)
             G == PutPiece(U, Holding(v, Piece("head", z, l)))
  <1>1. H1910!WriteHeaderHuawei(F, a) = G
    BY Same1910 DEF H1910!WriteHeaderHuawei, H1910!WriteHeader, H1910!WriteTag,
       H1910!WriteSignature, H1910!WriteCert
  <1>2. c1 \in Nat /\ c2 \in Nat /\ s1 \in Nat /\ s2 \in Nat /\ t \in Nat /\ z \in Nat /\ l \in Nat
    <2>1. \h500 \in Nat /\ \h1000 \in Nat /\ \h1500 \in Nat /\ \h1700 \in Nat /\ \h4A0 \in Nat
          /\ 0 \in Nat /\ l \in Nat
      BY SMT
    <2> QED  BY <2>1, At1910
  <1>3. a.cert \in Nat /\ SigLen \in Nat /\ TagLen \in Nat  BY Sizes
  <1> HIDE DEF c1, c2, s1, s2, t, z, l, v
  <1>4. Grown(F, C)  BY <1>2, <1>3, GrownTwo
  <1> HIDE DEF C
  <1>5. Grown(C, S)  BY <1>2, <1>3, <1>4, GrownTwo DEF Grown
  <1> HIDE DEF S
  <1>6. Grown(F, S)  BY <1>4, <1>5, GrownThen
  <1>7. Grown(F, T)
    <2>1. Grown(F, F)  BY DEF Grown, Whole
    <2> QED  BY <1>6, <2>1
  <1> HIDE DEF T
  <1>8. Grown(T, U)  BY <1>2, <1>3, <1>7, GrownWrite DEF Grown
  <1> HIDE DEF U
  <1>9. Grown(F, U)  BY <1>7, <1>8, GrownThen
  <1>10. Grown(U, G)  BY <1>2, <1>9, GrownHolding DEF Grown
  <1> HIDE DEF G
  <1> QED  BY <1>1, <1>9, <1>10, GrownThen

LEMMA GrownCustomer1910 ==
    ASSUME NEW a \in Args, NEW F, Whole(F)
    PROVE  Grown(F, H1910!WriteHeaderCustomer(F, a))
  <1> DEFINE x == H1910!At(a, \h2000)
             y == x + \h2C
             z == x + \h460
             w == x + \h46C
             F1 == Write(Write(F, "preamble", x, 4), "codehash", y, 32)
             G == Write(Write(F1, "codelen", z, 4), "headmagic", w, 4)
  <1>1. H1910!WriteHeaderCustomer(F, a) = G  BY Same1910 DEF H1910!WriteHeaderCustomer
  <1>2. x \in Nat
    <2>1. \h2000 \in Nat  BY SMT
    <2> QED  BY <2>1, At1910
  <1>3. y \in Nat /\ z \in Nat /\ w \in Nat /\ 4 \in Nat /\ 32 \in Nat  BY <1>2, SMT
  <1> HIDE DEF x, y, z, w
  <1>4. Grown(F, F1)  BY <1>2, <1>3, GrownTwo
  <1> HIDE DEF F1
  <1>5. Grown(F1, G)  BY <1>3, <1>4, GrownTwo DEF Grown
  <1> HIDE DEF G
  <1> QED  BY <1>1, <1>4, <1>5, GrownThen

LEMMA GrownImage1910 ==
    ASSUME NEW a \in Args, NEW m \in Nat, NEW R, Source(R, m), NEW r, r.size = m, r.ext = R,
           NEW F, Whole(F)
    PROVE  Grown(F, H1910!WriteImage(F, a, r))
  <1> DEFINE x == H1910!ImageAt(a)
  <1>1. H1910!WriteImage(F, a, r) = Put(F, x, x + m, Copied(R, x))
    BY Same1910 DEF H1910!WriteImage
  <1>2. x \in Nat  BY SMT DEF H1910!ImageAt
  <1> HIDE DEF x
  <1> QED  BY <1>1, <1>2, GrownImage

LEMMA GrownCms1910 ==
    ASSUME NEW a \in Args, NEW m \in Nat, NEW F, Whole(F)
    PROVE  Grown(F, H1910!WriteCms(F, a, m))
  <1> DEFINE x == H1910!CmsAt(a, m)
             y == x + \h2000
             z == x + \h2800
             t == 16 + a.tail
  <1>1. H1910!WriteCms(F, a, m) = Write(Write(Write(F, "cms", x, t), "ini", y, t), "crl", z, t)
    BY Same1910 DEF H1910!WriteCms
  <1>2. x \in Nat  BY SMT DEF H1910!CmsAt, H1910!ImageAt
  <1>3. y \in Nat /\ z \in Nat /\ t \in Nat  BY <1>2, Sizes, SMT
  <1> HIDE DEF x, y, z, t
  <1> QED  BY <1>1, <1>2, <1>3, GrownThree

LEMMA GrownExtern1910 ==
    ASSUME NEW a \in Args, NEW F, Whole(F)
    PROVE  Grown(F, H1910!WriteExtern(F, a))
  <1> DEFINE x == H1910!At(a, \h480)
             y == H1910!At(a, \h490)
             F1 == Write(F, "version", x, 16)
             F2 == PutPiece(F1, Holding(F1.size, Piece("magic", y, 12)))
  <1>1. H1910!WriteExtern(F, a) = H1910!WriteHeaderCustomer(F2, a)
    BY Same1910 DEF H1910!WriteExtern, H1910!WriteMagic, H1910!WriteVersion
  <1>2. x \in Nat /\ y \in Nat /\ 16 \in Nat /\ 12 \in Nat
    <2>1. \h480 \in Nat /\ \h490 \in Nat  BY SMT
    <2> QED  BY <2>1, At1910
  <1> HIDE DEF x, y
  <1>3. Grown(F, F1)  BY <1>2, GrownWrite
  <1> HIDE DEF F1
  <1>4. Grown(F1, F2)  BY <1>2, <1>3, GrownHolding DEF Grown
  <1> HIDE DEF F2
  <1>5. Grown(F, F2)  BY <1>3, <1>4, GrownThen
  <1>6. Grown(F2, H1910!WriteHeaderCustomer(F2, a))  BY <1>5, GrownCustomer1910 DEF Grown
  <1> QED  BY <1>1, <1>5, <1>6, GrownThen

-----------------------------------------------------------------------------
(* enc_img.py *)

LEMMA WholeSalt ==
    ASSUME NEW F, Whole(F), NEW h \in {0, 1}
    PROVE  Whole(EncSaltAndIv(F, h))
  <1> DEFINE x == A610!Base(h) + \h46C
             y == A610!Base(h) + \h464
             l == \h30
             F1 == Write(F, "salt", x, l)
  <1>1. EncSaltAndIv(F, h) = PutPiece(F1, Holding(1, Piece("encflag", y, 4)))
    BY DEF EncSaltAndIv
  <1>2. x \in Nat /\ y \in Nat /\ l \in Nat /\ 4 \in Nat  BY SMT DEF A610!Base
  <1> HIDE DEF x, y, l
  <1>3. Whole(F1)  BY <1>2, GrownWrite DEF Grown
  <1> HIDE DEF F1
  <1> QED  BY <1>1, <1>2, <1>3, GrownHolding DEF Grown

LEMMA WholeEnc ==
    ASSUME NEW a \in Args, NEW F, Whole(F), ~a.S => \h2000 <= F.size, NEW e
    PROVE  Whole(EncOf(a, F, e))
  <1> DEFINE H    == EncHead(F)
             one  == EncSaltAndIv(H, 0)
             both == IF a.B THEN one ELSE EncSaltAndIv(one, 1)
             from == IF a.S THEN 0 ELSE \h2000
             len  == F.size - from + IF e = "sm4" THEN 16 ELSE 0
             all  == Write(both, "cipher", from, len)
             x    == A610!At(a, 0)
             y    == A610!At(a, \h1000)
             c    == A610!Cover
             G    == IF a.B THEN WriteHash(all, x, c) ELSE WriteHash(WriteHash(all, x, c), y, c)
  <1>1. EncOf(a, F, e) = G  BY DEF EncOf
  <1>2. Whole(H)
    <2>1. F.size \in Nat /\ \A p \in F.ext : p.at \in Nat /\ p.len \in Nat /\ p.at + p.len <= F.size
      BY DEF Whole
    <2>2. H.ext = {p \in F.ext : p.at + p.len <= \h2000}
          /\ H.size = IF F.size < \h2000 THEN F.size ELSE \h2000
      BY DEF EncHead
    <2>3. H.size \in Nat /\ \A p \in F.ext : p.at + p.len <= \h2000 => p.at + p.len <= H.size
      BY <2>1, <2>2, SMT
    <2> HIDE DEF H
    <2>4. \A p \in H.ext : p \in F.ext /\ p.at + p.len <= \h2000  BY <2>2, SMT
    <2> QED  BY <2>1, <2>3, <2>4 DEF Whole
  <1>3. from \in Nat /\ len \in Nat
    <2>1. F.size \in Nat  BY DEF Whole
    <2> QED  BY <2>1, SMT
  <1>4. x \in Nat /\ y \in Nat /\ c \in Nat  BY SMT DEF A610!At, A610!Cover
  <1> HIDE DEF H, from, len, x, y, c
  <1>5. Whole(one)
    <2>1. 0 \in {0, 1}  OBVIOUS
    <2> QED  BY <1>2, <2>1, WholeSalt
  <1> HIDE DEF one
  <1>6. Whole(both)
    <2>1. 1 \in {0, 1}  OBVIOUS
    <2> QED  BY <1>5, <2>1, WholeSalt
  <1> HIDE DEF both
  <1>7. Whole(all)  BY <1>3, <1>6, GrownWrite DEF Grown
  <1> HIDE DEF all
  <1>8. G \in {WriteHash(all, x, c), WriteHash(WriteHash(all, x, c), y, c)}  OBVIOUS
  <1> HIDE DEF G
  <1>9. Whole(G)  BY <1>4, <1>7, <1>8, GrownHashes DEF Grown
  <1> QED  BY <1>1, <1>9

-----------------------------------------------------------------------------
(* Every step keeps it *)

LEMMA Apart1910 ==
    ASSUME NEW a, NEW m
    PROVE  /\ a.platform = "hi1910" => ~Fits(a, m)
           /\ a.platform \in {"ascend610", "as31xm1"} => ~FitsHi1910(a, m)
  BY DEF Fits, FitsHi1910

\* A call that leaves a grown file.
LEMMA Landed ==
    ASSUME NEW a, NEW p, NEW r, NEW F, Typed(a, p, r, F), NEW G, Grown(F, G),
           NEW q \in Calls, q # "esbc", q # "encrypted", Flow(a, r.size, G, q),
           Fits(a, r.size) => Facts(a, r.size, r.ext, G, q),
           FitsHi1910(a, r.size) => Facts1910(a, r.size, r.ext, G, q)
    PROVE  Inductive(a, q, r, G)
  <1>1. Typed(a, q, r, G)  BY DEF Typed, Grown
  <1> QED  BY <1>1, Zenon DEF Inductive

LEMMA StepHuawei ==
    ASSUME NEW a, NEW r, NEW F, Inductive(a, "huawei", r, F), NEW G,
           \/ /\ a.platform = "hi1910" /\ ~H1910!HeaderRaises(a, r.size)
              /\ G = H1910!WriteHeaderHuawei(F, a)
           \/ a.platform = "ascend610" /\ G = A610!WriteSingleHeader(F, a, 0, r.size)
           \/ a.platform = "as31xm1" /\ G = H1111!WriteSingleHeader(F, a, 0, r.size),
           NEW q, q = IF a.D THEN "customer" ELSE IF a.before THEN "cms"
                      ELSE IF a.B THEN "bcm" ELSE "image"
    PROVE  Inductive(a, q, r, G)
  <1> DEFINE m == r.size
             R == r.ext
  <1>1. /\ Typed(a, "huawei", r, F) /\ a \in Args /\ m \in Nat /\ Source(R, m) /\ Whole(F)
    BY DEF Inductive, Typed
  <1>2. /\ Fits(a, m) => Facts(a, m, R, F, "huawei")
    BY DEF Inductive
  <1>3. q \in Calls /\ q # "esbc" /\ q # "encrypted"  BY DEF Calls
  <1>4. 0 \in {0, 1}  OBVIOUS
  <1> HIDE DEF m, R
  <1>5. ASSUME a.platform = "hi1910", ~H1910!HeaderRaises(a, m), G = H1910!WriteHeaderHuawei(F, a)
        PROVE  Inductive(a, q, r, G)
    <2>1. Grown(F, G)  BY <1>1, <1>5, GrownHuawei1910
    <2>2. Flow(a, m, G, q)
      <3>1. a.S /\ a.addsoc => m <= \hC000  BY <1>1, <1>5, SMT DEF H1910!HeaderRaises
      <3> QED  BY <1>5, <3>1 DEF Flow
    <2>3. FitsHi1910(a, m) => Facts1910(a, m, R, G, q)  BY <1>1, <1>5, Facts1910First
    <2>4. ~Fits(a, m)  BY <1>5, Apart1910
    <2> QED  BY <1>1, <1>3, <2>1, <2>2, <2>3, <2>4, Landed DEF m, R
  <1>6. ASSUME a.platform \in {"ascend610", "as31xm1"}, Grown(F, G),
               Fits(a, m) => HeadWritten(a, m, F, G, 0)
        PROVE  Inductive(a, q, r, G)
    <2>1. Flow(a, m, G, q)  BY <1>6 DEF Flow
    <2>2. ~FitsHi1910(a, m)  BY <1>6, Apart1910
    <2>3. Fits(a, m) => Facts(a, m, R, G, q)  BY <1>1, <1>2, <1>6, FactsFirst
    <2> QED  BY <1>1, <1>3, <1>6, <2>1, <2>2, <2>3, Landed DEF m, R
  <1>7. ASSUME a.platform = "ascend610", G = A610!WriteSingleHeader(F, a, 0, m)
        PROVE  Inductive(a, q, r, G)
    <2>1. Grown(F, G)  BY <1>1, <1>4, <1>7, GrownHeader610
    <2>2. Fits(a, m) => HeadWritten(a, m, F, G, 0)  BY <1>1, <1>4, <1>7, Header610
    <2> QED  BY <1>6, <1>7, <2>1, <2>2
  <1>8. ASSUME a.platform = "as31xm1", G = H1111!WriteSingleHeader(F, a, 0, m)
        PROVE  Inductive(a, q, r, G)
    <2>1. Grown(F, G)  BY <1>1, <1>4, <1>8, GrownHeader1111
    <2>2. Fits(a, m) => HeadWritten(a, m, F, G, 0)  BY <1>1, <1>4, <1>8, Header1111
    <2> QED  BY <1>6, <1>8, <2>1, <2>2
  <1> QED  BY <1>5, <1>7, <1>8 DEF m

LEMMA StepCustomer ==
    ASSUME NEW a, NEW r, NEW F, Inductive(a, "customer", r, F), NEW G,
           \/ a.platform = "hi1910" /\ G = H1910!WriteHeaderCustomer(F, a)
           \/ a.platform = "ascend610" /\ G = A610!WriteSingleHeader(F, a, 1, r.size)
           \/ a.platform = "as31xm1" /\ G = H1111!WriteSingleHeader(F, a, 1, r.size),
           NEW q, q = IF a.before THEN "cms" ELSE "image"
    PROVE  Inductive(a, q, r, G)
  <1> DEFINE m == r.size
             R == r.ext
  <1>1. /\ Typed(a, "customer", r, F) /\ a \in Args /\ m \in Nat /\ Source(R, m) /\ Whole(F)
    BY DEF Inductive, Typed
  <1>2. /\ Fits(a, m) => Facts(a, m, R, F, "customer")
        /\ FitsHi1910(a, m) => Facts1910(a, m, R, F, "customer")
        /\ Flow(a, m, F, "customer")
    BY DEF Inductive
  <1>3. q \in Calls /\ q # "esbc" /\ q # "encrypted"  BY DEF Calls
  <1>4. 1 \in {0, 1}  OBVIOUS
  <1>5. a.D  BY <1>2 DEF Flow
  <1> HIDE DEF m, R
  <1>6. ASSUME a.platform = "hi1910", G = H1910!WriteHeaderCustomer(F, a)
        PROVE  Inductive(a, q, r, G)
    <2>1. Grown(F, G)  BY <1>1, <1>6, GrownCustomer1910
    <2>2. Flow(a, m, G, q)
      <3>1. a.S /\ a.addsoc /\ ~a.before => m <= \hC000  BY <1>2, <1>6 DEF Flow
      <3> QED  BY <1>6, <3>1 DEF Flow
    <2>3. FitsHi1910(a, m) => Facts1910(a, m, R, G, q)
      <3>1. FitsHi1910(a, m) => q = "image"  BY DEF FitsHi1910
      <3> QED  BY <1>1, <1>2, <1>6, <3>1, Facts1910Second
    <2>4. ~Fits(a, m)  BY <1>6, Apart1910
    <2> QED  BY <1>1, <1>3, <2>1, <2>2, <2>3, <2>4, Landed DEF m, R
  <1>7. ASSUME a.platform \in {"ascend610", "as31xm1"}, Grown(F, G),
               Fits(a, m) => HeadWritten(a, m, F, G, 1)
        PROVE  Inductive(a, q, r, G)
    <2>1. Flow(a, m, G, q)  BY <1>7 DEF Flow
    <2>2. ~FitsHi1910(a, m)  BY <1>7, Apart1910
    <2>3. Fits(a, m) => Facts(a, m, R, G, q)  BY <1>1, <1>2, <1>5, <1>7, FactsSecond
    <2> QED  BY <1>1, <1>3, <1>7, <2>1, <2>2, <2>3, Landed DEF m, R
  <1>8. ASSUME a.platform = "ascend610", G = A610!WriteSingleHeader(F, a, 1, m)
        PROVE  Inductive(a, q, r, G)
    <2>1. Grown(F, G)  BY <1>1, <1>4, <1>8, GrownHeader610
    <2>2. Fits(a, m) => HeadWritten(a, m, F, G, 1)  BY <1>1, <1>4, <1>8, Header610
    <2> QED  BY <1>7, <1>8, <2>1, <2>2
  <1>9. ASSUME a.platform = "as31xm1", G = H1111!WriteSingleHeader(F, a, 1, m)
        PROVE  Inductive(a, q, r, G)
    <2>1. Grown(F, G)  BY <1>1, <1>4, <1>9, GrownHeader1111
    <2>2. Fits(a, m) => HeadWritten(a, m, F, G, 1)  BY <1>1, <1>4, <1>9, Header1111
    <2> QED  BY <1>7, <1>9, <2>1, <2>2
  <1> QED  BY <1>6, <1>8, <1>9 DEF m

LEMMA StepBcm ==
    ASSUME NEW a, NEW r, NEW F, Inductive(a, "bcm", r, F), NEW G,
           \/ a.platform = "ascend610" /\ G = A610!WriteHeaderBcm(F)
           \/ a.platform = "as31xm1" /\ G = H1111!WriteHeaderBcm(F)
    PROVE  Inductive(a, "image", r, G)
  <1> DEFINE m == r.size
             R == r.ext
             q == "image"
  <1>1. /\ Typed(a, "bcm", r, F) /\ Whole(F)  BY DEF Inductive, Typed
  <1>2. /\ Fits(a, m) => Facts(a, m, R, F, "bcm")
        /\ Flow(a, m, F, "bcm")
    BY DEF Inductive
  <1>3. q \in Calls /\ q # "esbc" /\ q # "encrypted"  BY DEF Calls
  <1>4. a.B /\ ~a.D /\ ~a.before  BY <1>2 DEF Flow
  <1>5. a.platform \in {"ascend610", "as31xm1"}
        /\ G \in {A610!WriteHeaderBcm(F), H1111!WriteHeaderBcm(F)}
    OBVIOUS
  <1> HIDE DEF m, R
  <1>6. Grown(F, G)  BY <1>1, <1>5, GrownBcm
  <1>7. Wrote(F, G, \h1000, \h2000) /\ BcmIn(G) /\ (Plain(F) => Plain(G))  BY <1>1, <1>5, Bcm
  <1>8. Flow(a, m, G, q)  BY <1>4, <1>5 DEF Flow
  <1>9. Fits(a, m) => Facts(a, m, R, G, q)  BY <1>1, <1>2, <1>4, <1>7, FactsBcm
  <1>10. ~FitsHi1910(a, m)  BY <1>5, Apart1910
  <1> HIDE DEF q
  <1>11. Inductive(a, q, r, G)  BY <1>1, <1>3, <1>6, <1>8, <1>9, <1>10, Landed DEF m, R
  <1> QED  BY <1>11 DEF q

LEMMA StepImage ==
    ASSUME NEW a, NEW r, NEW F, Inductive(a, "image", r, F), NEW G,
           \/ a.platform = "hi1910" /\ G = H1910!WriteImage(F, a, r)
           \/ a.platform = "ascend610" /\ G = A610!WriteImage(F, a, r)
           \/ a.platform = "as31xm1" /\ ~H1111!ImageRaises(a) /\ G = H1111!WriteImage(F, a, r),
           NEW q, q = IF a.before THEN "huawei" ELSE "cms"
    PROVE  Inductive(a, q, r, G)
  <1> DEFINE m == r.size
             R == r.ext
  <1>1. /\ Typed(a, "image", r, F) /\ a \in Args /\ m \in Nat /\ Source(R, m) /\ Whole(F)
    BY DEF Inductive, Typed
  <1>2. /\ Fits(a, m) => Facts(a, m, R, F, "image")
        /\ FitsHi1910(a, m) => Facts1910(a, m, R, F, "image")
        /\ Flow(a, m, F, "image")
    BY DEF Inductive
  <1>3. q \in Calls /\ q # "esbc" /\ q # "encrypted"  BY DEF Calls
  <1>4. r.size = m /\ r.ext = R  OBVIOUS
  <1> HIDE DEF m, R
  <1>5. ASSUME a.platform = "hi1910", G = H1910!WriteImage(F, a, r)
        PROVE  Inductive(a, q, r, G)
    <2>1. Grown(F, G)  BY <1>1, <1>4, <1>5, GrownImage1910
    <2>2. Flow(a, m, G, q)
      <3>1. a.S /\ a.addsoc /\ ~a.before => m <= \hC000  BY <1>2, <1>5 DEF Flow
      <3> QED  BY <1>5, <3>1 DEF Flow
    <2>3. FitsHi1910(a, m) => Facts1910(a, m, R, G, q)
      <3>1. FitsHi1910(a, m) => q = "cms"  BY DEF FitsHi1910
      <3> QED  BY <1>1, <1>2, <1>4, <1>5, <3>1, Facts1910Image
    <2>4. ~Fits(a, m)  BY <1>5, Apart1910
    <2> QED  BY <1>1, <1>3, <2>1, <2>2, <2>3, <2>4, Landed DEF m, R
  <1>6. ASSUME a.platform \in {"ascend610", "as31xm1"}, Grown(F, G),
               ~a.before /\ ~a.S => \h2000 <= G.size,
               a.platform = "ascend610" \/ a.enc = "no",
               Fits(a, m) => ImageWritten(a, m, R, F, G)
        PROVE  Inductive(a, q, r, G)
    <2>1. Flow(a, m, G, q)  BY <1>6 DEF Flow
    <2>2. ~FitsHi1910(a, m)  BY <1>6, Apart1910
    <2>3. Fits(a, m) => Facts(a, m, R, G, q)  BY <1>2, <1>6, FactsImage
    <2> QED  BY <1>1, <1>3, <1>6, <2>1, <2>2, <2>3, Landed DEF m, R
  <1>7. ASSUME a.platform = "ascend610", G = A610!WriteImage(F, a, r)
        PROVE  Inductive(a, q, r, G)
    <2>1. Grown(F, G) /\ (~a.before /\ ~a.S => \h2000 <= G.size)
      BY <1>1, <1>4, <1>7, GrownImage610
    <2>2. Fits(a, m) => ImageWritten(a, m, R, F, G)  BY <1>1, <1>4, <1>7, Image610
    <2> QED  BY <1>6, <1>7, <2>1, <2>2
  <1>8. ASSUME a.platform = "as31xm1", ~H1111!ImageRaises(a), G = H1111!WriteImage(F, a, r)
        PROVE  Inductive(a, q, r, G)
    <2>1. a.enc = "no"  BY <1>8 DEF H1111!ImageRaises
    <2>2. Grown(F, G) /\ (~a.before /\ ~a.S => \h2000 <= G.size)
      BY <1>1, <1>4, <1>8, GrownImage1111
    <2>3. Fits(a, m) => ImageWritten(a, m, R, F, G)  BY <1>1, <1>4, <1>8, <2>1, Image1111
    <2> QED  BY <1>6, <1>8, <2>1, <2>2, <2>3
  <1> QED  BY <1>5, <1>7, <1>8

LEMMA StepCms ==
    ASSUME NEW a, NEW r, NEW F, Inductive(a, "cms", r, F), NEW G,
           \/ ~a.addcms /\ G = F
           \/ a.addcms /\ a.platform = "hi1910" /\ G = H1910!WriteCms(F, a, r.size)
           \/ a.addcms /\ a.platform = "ascend610" /\ G = A610!WriteCms(F, a, r.size)
           \/ a.addcms /\ a.platform = "as31xm1" /\ G = H1111!WriteCms(F, a, r.size),
           NEW q, q = IF a.before THEN "hashtree" ELSE "extern"
    PROVE  Inductive(a, q, r, G)
  <1> DEFINE m == r.size
             R == r.ext
  <1>1. /\ Typed(a, "cms", r, F) /\ a \in Args /\ m \in Nat /\ Source(R, m) /\ Whole(F)
    BY DEF Inductive, Typed
  <1>2. /\ Fits(a, m) => Facts(a, m, R, F, "cms")
        /\ FitsHi1910(a, m) => Facts1910(a, m, R, F, "cms")
        /\ Flow(a, m, F, "cms")
    BY DEF Inductive
  <1>3. q \in Calls /\ q # "esbc" /\ q # "encrypted"  BY DEF Calls
  <1> HIDE DEF m, R
  <1>4. Grown(F, G)
    <2>1. CASE ~a.addcms  BY <1>1, <2>1 DEF Grown, Whole
    <2>2. CASE a.addcms
      BY <1>1, <2>2, GrownCms1910, GrownCms610, GrownCms1111 DEF m
    <2> QED  BY <2>1, <2>2
  <1>5. Flow(a, m, G, q)
    <2>1. a.platform = "hi1910" /\ a.S /\ a.addsoc /\ ~a.before => m <= \hC000
      BY <1>2 DEF Flow
    <2>2. a.platform # "hi1910" /\ ~a.before /\ ~a.S => \h2000 <= G.size
      <3>1. a.platform # "hi1910" /\ ~a.before /\ ~a.S => \h2000 <= F.size
        BY <1>2 DEF Flow
      <3>2. F.size <= G.size /\ F.size \in Nat /\ G.size \in Nat  BY <1>1, <1>4 DEF Grown, Whole
      <3> QED  BY <3>1, <3>2, SMT
    <2> QED  BY <2>1, <2>2 DEF Flow
  <1>6. FitsHi1910(a, m) => Facts1910(a, m, R, G, q)
    <2>1. FitsHi1910(a, m) => a.platform = "hi1910" /\ q = "extern"  BY DEF FitsHi1910
    <2>2. a.platform = "hi1910" => IF a.addcms THEN G = H1910!WriteCms(F, a, m) ELSE G = F
      BY DEF m
    <2> QED  BY <1>1, <1>2, <2>1, <2>2, Facts1910Cms
  <1>7. Fits(a, m) => Facts(a, m, R, G, q)
    <2> SUFFICES ASSUME Fits(a, m)  PROVE Facts(a, m, R, G, q)
      OBVIOUS
    <2>1. a.platform # "hi1910"  BY Apart1910
    <2>2. a.addcms => TailWritten(a, m, F, G)
      <3>1. a.platform = "ascend610" => TailWritten(a, m, F, A610!WriteCms(F, a, m))
        BY <1>1, Tail610
      <3>2. a.platform = "as31xm1" => TailWritten(a, m, F, H1111!WriteCms(F, a, m))
        BY <1>1, Tail1111
      <3> QED  BY <2>1, <3>1, <3>2 DEF m
    <2>3. IF a.addcms THEN TailWritten(a, m, F, G) ELSE G = F  BY <2>2
    <2> QED  BY <1>1, <1>2, <2>3, FactsCms
  <1> QED  BY <1>1, <1>3, <1>4, <1>5, <1>6, <1>7, Landed DEF m, R

LEMMA StepTree ==
    ASSUME NEW a, NEW r, NEW F, Inductive(a, "hashtree", r, F), NEW G,
           \/ a.platform = "ascend610" /\ G = A610!WriteHashTree(F, r.size)
           \/ a.platform = "as31xm1" /\ G = H1111!WriteHashTree(F, r.size)
    PROVE  Inductive(a, "address", r, G)
  <1> DEFINE m == r.size
             R == r.ext
             q == "address"
  <1>1. /\ Typed(a, "hashtree", r, F) /\ m \in Nat /\ Source(R, m) /\ Whole(F)
    BY DEF Inductive, Typed
  <1>2. /\ Fits(a, m) => Facts(a, m, R, F, "hashtree")
        /\ Flow(a, m, F, "hashtree")
    BY DEF Inductive
  <1>3. q \in Calls /\ q # "esbc" /\ q # "encrypted"  BY DEF Calls
  <1>4. a.before  BY <1>2 DEF Flow
  <1>5. a.platform \in {"ascend610", "as31xm1"}
        /\ G \in {A610!WriteHashTree(F, m), H1111!WriteHashTree(F, m)}
    OBVIOUS
  <1> HIDE DEF m, R
  <1>6. Grown(F, G)  BY <1>1, <1>5, GrownTree
  <1>7. Flow(a, m, G, q)  BY <1>4, <1>5 DEF Flow
  <1>8. Fits(a, m) => Facts(a, m, R, G, q)
    <2>1. Fits(a, m) => /\ Wrote(F, G, m + \h1FF00, (m + \h1FF00) + HashTreeLen)
                        /\ TreeIn(m, G) /\ (Plain(F) => Plain(G))
      BY <1>1, <1>5, Tree
    <2> QED  BY <1>1, <1>2, <1>4, <2>1, FactsTree
  <1>9. ~FitsHi1910(a, m)  BY <1>5, Apart1910
  <1> HIDE DEF q
  <1>10. Inductive(a, q, r, G)  BY <1>1, <1>3, <1>6, <1>7, <1>8, <1>9, Landed DEF m, R
  <1> QED  BY <1>10 DEF q

LEMMA StepAddress ==
    ASSUME NEW a, NEW r, NEW F, Inductive(a, "address", r, F), NEW G,
           \/ /\ a.platform = "ascend610"
              /\ G = A610!WriteVersion(A610!WriteHeaderAddress(F, a, r.size), a)
           \/ /\ a.platform = "as31xm1"
              /\ G = H1111!WriteVersion(H1111!WriteHeaderAddress(F, a, r.size), a)
    PROVE  Inductive(a, "extern", r, G)
  <1> DEFINE m == r.size
             R == r.ext
             q == "extern"
  <1>1. /\ Typed(a, "address", r, F) /\ a \in Args /\ m \in Nat /\ Source(R, m) /\ Whole(F)
    BY DEF Inductive, Typed
  <1>2. /\ Fits(a, m) => Facts(a, m, R, F, "address")
        /\ Flow(a, m, F, "address")
    BY DEF Inductive
  <1>3. q \in Calls /\ q # "esbc" /\ q # "encrypted"  BY DEF Calls
  <1>4. a.before  BY <1>2 DEF Flow
  <1>5. a.platform \in {"ascend610", "as31xm1"}
        /\ G \in {A610!WriteVersion(A610!WriteHeaderAddress(F, a, m), a),
                  H1111!WriteVersion(H1111!WriteHeaderAddress(F, a, m), a)}
    OBVIOUS
  <1> HIDE DEF m, R
  <1>6. Grown(F, G)  BY <1>1, <1>5, GrownEnd
  <1>7. Flow(a, m, G, q)  BY <1>4, <1>5 DEF Flow
  <1>8. Fits(a, m) => Facts(a, m, R, G, q)
    <2>1. Fits(a, m) => EndWritten(a, m, F, G)  BY <1>1, <1>5, End610, End1111
    <2> QED  BY <1>1, <1>2, <1>4, <2>1, FactsEnd
  <1>9. ~FitsHi1910(a, m)  BY <1>5, Apart1910
  <1> HIDE DEF q
  <1>10. Inductive(a, q, r, G)  BY <1>1, <1>3, <1>6, <1>7, <1>8, <1>9, Landed DEF m, R
  <1> QED  BY <1>10 DEF q

LEMMA StepExtern ==
    ASSUME NEW a, NEW r, NEW F, Inductive(a, "extern", r, F), NEW G,
           \/ /\ a.platform = "hi1910" /\ ~H1910!MagicRaises(F, a)
              /\ G = H1910!WriteExtern(F, a)
           \/ a.platform = "ascend610" /\ G = A610!WriteExtern(F, a, r.size)
           \/ a.platform = "as31xm1" /\ G = H1111!WriteExtern(F, a, r.size)
    PROVE  Inductive(a, "packed", r, G)
  <1> DEFINE m == r.size
             R == r.ext
             q == "packed"
  <1>1. /\ Typed(a, "extern", r, F) /\ a \in Args /\ m \in Nat /\ Source(R, m) /\ Whole(F)
    BY DEF Inductive, Typed
  <1>2. /\ Fits(a, m) => Facts(a, m, R, F, "extern")
        /\ FitsHi1910(a, m) => Facts1910(a, m, R, F, "extern")
        /\ Flow(a, m, F, "extern")
    BY DEF Inductive
  <1>3. q \in Calls /\ q # "esbc" /\ q # "encrypted"  BY DEF Calls
  <1> HIDE DEF m, R
  <1>4. ASSUME a.platform = "hi1910", ~H1910!MagicRaises(F, a), G = H1910!WriteExtern(F, a)
        PROVE  Inductive(a, q, r, G)
    <2>1. Grown(F, G)  BY <1>1, <1>4, GrownExtern1910
    <2>2. Flow(a, m, G, q)
      <3>1. ~(a.addcms /\ a.S)  BY <1>4 DEF H1910!MagicRaises
      <3>2. ~a.before /\ (a.S /\ a.addsoc => m <= \hC000)  BY <1>2, <1>4 DEF Flow
      <3> QED  BY <1>4, <3>1, <3>2 DEF Flow
    <2>3. FitsHi1910(a, m) => Facts1910(a, m, R, G, q)
      <3>1. F.size <= G.size  BY <2>1 DEF Grown
      <3> QED  BY <1>1, <1>2, <1>4, <3>1, Facts1910Extern
    <2>4. ~Fits(a, m)  BY <1>4, Apart1910
    <2> HIDE DEF q
    <2> QED  BY <1>1, <1>3, <2>1, <2>2, <2>3, <2>4, Landed DEF m, R
  <1>5. ASSUME a.platform \in {"ascend610", "as31xm1"}, Grown(F, G),
               Fits(a, m) /\ HeadLo(a, 0, m) + \h2000 <= F.size => ExternDone(a, m, F, G)
        PROVE  Inductive(a, q, r, G)
    <2>1. Flow(a, m, G, q)
      <3>1. ~a.before /\ ~a.S => \h2000 <= F.size  BY <1>2, <1>5 DEF Flow
      <3>2. F.size <= G.size /\ F.size \in Nat /\ G.size \in Nat  BY <1>1, <1>5 DEF Grown, Whole
      <3>3. ~a.before /\ ~a.S => \h2000 <= G.size  BY <3>1, <3>2, SMT
      <3> QED  BY <1>5, <3>3 DEF Flow
    <2>2. ~FitsHi1910(a, m)  BY <1>5, Apart1910
    <2>3. Fits(a, m) => Facts(a, m, R, G, q)
      <3> SUFFICES ASSUME Fits(a, m)  PROVE Facts(a, m, R, G, q)
        OBVIOUS
      <3>1. HeadLo(a, 0, m) + \h2000 <= F.size  BY <1>1, <1>2, ExternRoom
      <3>2. ExternDone(a, m, F, G)  BY <1>5, <3>1
      <3> QED  BY <1>1, <1>2, <3>2, FactsExtern
    <2> HIDE DEF q
    <2> QED  BY <1>1, <1>3, <1>5, <2>1, <2>2, <2>3, Landed DEF m, R
  <1>6. ASSUME a.platform = "ascend610", G = A610!WriteExtern(F, a, m)
        PROVE  Inductive(a, q, r, G)
    <2>1. Grown(F, G)  BY <1>1, <1>6, GrownExtern610
    <2>2. Fits(a, m) /\ HeadLo(a, 0, m) + \h2000 <= F.size => ExternDone(a, m, F, G)
      BY <1>1, <1>6, Extern610
    <2> QED  BY <1>5, <1>6, <2>1, <2>2
  <1>7. ASSUME a.platform = "as31xm1", G = H1111!WriteExtern(F, a, m)
        PROVE  Inductive(a, q, r, G)
    <2>1. Grown(F, G)  BY <1>1, <1>7, GrownExtern1111
    <2>2. Fits(a, m) /\ HeadLo(a, 0, m) + \h2000 <= F.size => ExternDone(a, m, F, G)
      BY <1>1, <1>7, Extern1111
    <2> QED  BY <1>5, <1>7, <2>1, <2>2
  <1> QED  BY <1>4, <1>6, <1>7 DEF m

LEMMA StepRaise ==
    ASSUME NEW a, NEW p, NEW r, NEW F, Inductive(a, p, r, F), p # "encrypted"
    PROVE  Inductive(a, "raised", r, F)
  <1> DEFINE m == r.size
             R == r.ext
             q == "raised"
  <1>1. Typed(a, p, r, F) /\ Whole(F)  BY DEF Inductive, Typed
  <1>2. Fits(a, m) => Facts(a, m, R, F, p)  BY DEF Inductive
  <1>3. q \in Calls /\ q # "esbc" /\ q # "encrypted"  BY DEF Calls
  <1> HIDE DEF m, R
  <1>4. Grown(F, F)  BY <1>1 DEF Grown, Whole
  <1>5. Flow(a, m, F, q)  BY DEF Flow
  <1>6. Fits(a, m) => Facts(a, m, R, F, q)  BY <1>2, FactsRaised
  <1>7. Facts1910(a, m, R, F, q)  BY DEF Facts1910
  <1> HIDE DEF q
  <1>8. Inductive(a, q, r, F)  BY <1>1, <1>3, <1>4, <1>5, <1>6, <1>7, Landed DEF m, R
  <1> QED  BY <1>8 DEF q

LEMMA SourceWrite ==
    ASSUME NEW F, F.size \in Nat, Source(F.ext, F.size), NEW f \in {"payload", "esbc"},
           NEW at \in Nat, NEW len \in Nat
    PROVE  LET G == Write(F, f, at, len)
           IN  /\ Source(G.ext, G.size) /\ G.size \in Nat
               /\ at + len <= G.size /\ F.size <= G.size
  <1> DEFINE p == Piece(f, at, len)
             G == Write(F, f, at, len)
             S == [f : {"payload", "esbc"}, at : Nat, len : Nat, val : {0}, over : {{}}]
  <1>1. p = [f |-> f, at |-> at, len |-> len, val |-> 0, over |-> {}]  BY DEF Piece
  <1>2. p \in S  BY <1>1
  <1>3. p.at = at /\ p.len = len  BY <1>1
  <1>4. G = Put(F, at, at + len, {p})
    <2> HIDE DEF p
    <2> QED  BY <1>3 DEF Write, PutPiece, p
  <1> HIDE DEF p, S
  <1>5. /\ \A e \in G.ext : e \in F.ext \/ e = p
        /\ G.size = IF F.size < at + len THEN at + len ELSE F.size
    BY <1>4 DEF Put
  <1> HIDE DEF G
  <1>6. G.size \in Nat /\ at + len <= G.size /\ F.size <= G.size  BY <1>5, SMT
  <1>7. \A e \in F.ext : e \in S /\ e.at + e.len <= F.size  BY DEF Source, S
  <1>8. \A e \in S : e.at \in Nat /\ e.len \in Nat  BY DEF S
  <1>9. \A e \in G.ext : e \in S /\ e.at + e.len <= G.size
    <2> TAKE e \in G.ext
    <2>1. CASE e = p  BY <1>2, <1>3, <1>6, <2>1
    <2>2. CASE e \in F.ext
      <3>1. e \in S /\ e.at + e.len <= F.size /\ e.at \in Nat /\ e.len \in Nat
        BY <1>7, <1>8, <2>2
      <3> QED  BY <1>6, <3>1, SMT
    <2> QED  BY <1>5, <2>1, <2>2
  <1> QED  BY <1>6, <1>9 DEF Source, S, G

LEMMA SourceEmpty == Empty.size = 0 /\ Empty.size \in Nat /\ Source(Empty.ext, Empty.size)
  BY DEF Empty, Source

\* Before the first call of image_pack.py.
LEMMA Fresh ==
    ASSUME NEW a \in Args, NEW r, r.size \in Nat, 0 < r.size, Source(r.ext, r.size),
           NEW p \in {"esbc", "huawei", "image"}, p = "huawei" => ~a.before, p = "image" => a.before
    PROVE  Inductive(a, p, r, Empty)
  <1>1. Whole(Empty)  BY DEF Empty, Whole
  <1>2. Typed(a, p, r, Empty)  BY <1>1 DEF Typed, Calls
  <1>3. Flow(a, r.size, Empty, p)  BY DEF Flow
  <1>4. Facts(a, r.size, r.ext, Empty, p)  BY NothingYet
  <1>5. FitsHi1910(a, r.size) => Facts1910(a, r.size, r.ext, Empty, p)
    BY DEF FitsHi1910, Facts1910
  <1> QED  BY <1>2, <1>3, <1>4, <1>5, Zenon DEF Inductive

LEMMA StepEsbc ==
    ASSUME NEW a, NEW r, NEW F, Inductive(a, "esbc", r, F),
           NEW l \in Nat, NEW x \in Nat, NEW s,
           \/ s = r
           \/ s = Write(r, "esbc", r.size, l)
           \/ s = Write(Write(Empty, "payload", x, r.size), "esbc", 0, l)
    PROVE  Inductive(a, Start(a), s, F)
  <1>1. a \in Args /\ r.size \in Nat /\ 0 < r.size /\ Source(r.ext, r.size) /\ F = Empty
    BY DEF Inductive, Typed
  <1>2. "esbc" \in {"payload", "esbc"} /\ "payload" \in {"payload", "esbc"} /\ 0 \in Nat
    OBVIOUS
  <1>3. s.size \in Nat /\ 0 < s.size /\ Source(s.ext, s.size)
    <2>1. CASE s = r  BY <1>1, <2>1
    <2>2. CASE s = Write(r, "esbc", r.size, l)
      <3>1. Source(s.ext, s.size) /\ s.size \in Nat /\ r.size <= s.size
        BY <1>1, <1>2, <2>2, SourceWrite
      <3> QED  BY <1>1, <3>1
    <2>3. CASE s = Write(Write(Empty, "payload", x, r.size), "esbc", 0, l)
      <3> DEFINE F1 == Write(Empty, "payload", x, r.size)
      <3>1. Source(F1.ext, F1.size) /\ F1.size \in Nat /\ x + r.size <= F1.size
        BY <1>1, <1>2, SourceEmpty, SourceWrite
      <3> HIDE DEF F1
      <3>2. Source(s.ext, s.size) /\ s.size \in Nat /\ F1.size <= s.size
        BY <1>2, <2>3, <3>1, SourceWrite DEF F1
      <3> QED  BY <1>1, <3>1, <3>2
    <2> QED  BY <2>1, <2>2, <2>3
  <1>4. Start(a) \in {"esbc", "huawei", "image"} /\ (Start(a) = "huawei" => ~a.before)
        /\ (Start(a) = "image" => a.before)
    BY DEF Start
  <1> QED  BY <1>1, <1>3, <1>4, Fresh

LEMMA StepEnc ==
    ASSUME NEW a, NEW r, NEW F, Inductive(a, "packed", r, F), a.platform # "hi1910",
           ~a.before, a.enc = "no", NEW e \in {"aes", "sm4"}, NEW b, Becomes(a, b, e)
    PROVE  Inductive(b, "encrypted", r, EncOf(a, F, e))
  <1> DEFINE m == r.size
             R == r.ext
             G == EncOf(a, F, e)
  <1>1. /\ a \in Args /\ m \in Nat /\ 0 < m /\ Source(R, m) /\ Whole(F)
        /\ Flow(a, m, F, "packed")
        /\ Fits(a, m) => Facts(a, m, R, F, "packed")
    BY DEF Inductive, Typed
  <1>2. ~a.S => \h2000 <= F.size  BY <1>1 DEF Flow
  <1> HIDE DEF m, R, G
  <1>3. Whole(G)  BY <1>1, <1>2, WholeEnc DEF G
  <1>4. b \in Args /\ b.enc = e /\ b.platform = a.platform /\ b.before = a.before
        /\ b.S = a.S /\ b.D = a.D /\ b.B = a.B /\ b.tail = a.tail
    BY <1>1 DEF Args, Becomes
  <1>5. Typed(b, "encrypted", r, G)  BY <1>1, <1>3, <1>4 DEF Typed, Calls, m, R
  <1>6. Flow(b, m, G, "encrypted")  BY <1>4 DEF Flow
  <1>7. ~FitsHi1910(b, m)  BY <1>4 DEF FitsHi1910
  <1>8. Fits(b, m) /\ b.platform = "ascend610" => EncDone(b, m, G)
    <2> SUFFICES ASSUME Fits(b, m), b.platform = "ascend610"  PROVE EncDone(b, m, G)
      OBVIOUS
    <2>1. Fits(a, m)  BY <1>1, <1>4 DEF Fits
    <2>2. Facts(a, m, R, F, "packed")  BY <1>1, <2>1
    <2>3. "packed" \in LateCalls  BY DEF LateCalls
    <2>4. Body(a, m, R, F) /\ Rest(a, m, F, "packed")  BY <2>1, <2>2, <2>3, LateFacts
    <2>5. \A h \in Hs(a) : Headed(a, m, F, h) /\ HeadBoxed(a, m, F, h)  BY <2>4 DEF Body
    <2>6. a.B => BcmIn(F)  BY <2>4 DEF Body
    <2>7. MagicIn(a, F, HeadLo(a, 0, m) + MagicOff(a), MagicLen(a))  BY <2>4 DEF Rest
    <2>8. \h2000 <= F.size  BY <1>2, <2>1 DEF Fits
    <2>9. a.platform = "ascend610"  BY <1>4
    <2> QED  BY <1>1, <2>1, <2>5, <2>6, <2>7, <2>8, <2>9, Enc DEF G
  <1>9. Inductive(b, "encrypted", r, G)  BY <1>5, <1>6, <1>7, <1>8 DEF Inductive, m, R
  <1> QED  BY <1>9 DEF G

-----------------------------------------------------------------------------

LEMMA IInvInit == Init => IInv
  <1> SUFFICES ASSUME Init  PROVE IInv
    OBVIOUS
  <1>1. args \in Args  BY SizesFit DEF Init
  <1>2. args.payload \in Nat /\ 0 < args.payload  BY <1>1, Sizes
  <1>3. raw = Write(Empty, "payload", 0, args.payload) /\ file = Empty  BY DEF Init
  <1>4. raw.size \in Nat /\ 0 < raw.size /\ Source(raw.ext, raw.size)
    <2>1. "payload" \in {"payload", "esbc"} /\ 0 \in Nat  OBVIOUS
    <2>2. Source(raw.ext, raw.size) /\ raw.size \in Nat /\ 0 + args.payload <= raw.size
      BY <1>2, <1>3, <2>1, SourceEmpty, SourceWrite
    <2> QED  BY <1>2, <2>2
  <1>5. pc \in {"esbc", "huawei", "image"} /\ (pc = "huawei" => ~args.before)
        /\ (pc = "image" => args.before)
    BY DEF Init, Start
  <1> QED  BY <1>1, <1>3, <1>4, <1>5, Fresh DEF IInv

LEMMA IInvNext == IInv /\ [Next]_vars => IInv'
  <1> SUFFICES ASSUME IInv, [Next]_vars  PROVE IInv'
    OBVIOUS
  <1>1. Inductive(args, pc, raw, file)  BY DEF IInv
  <1>2. SUFFICES Inductive(args', pc', raw', file')  BY DEF IInv
  <1>3. CASE EsbcHeader
    <2>1. pc = "esbc" /\ pc' = Start(args) /\ args' = args /\ file' = file  BY <1>3 DEF EsbcHeader
    <2>2. EsbcLen \in Nat /\ \h100 \in Nat  BY SMT DEF EsbcLen
    <2>3. \/ raw' = raw
          \/ raw' = Write(raw, "esbc", raw.size, EsbcLen)
          \/ raw' = Write(Write(Empty, "payload", \h100, raw.size), "esbc", 0, EsbcLen)
      BY <1>3 DEF EsbcHeader
    <2> DEFINE x == \h100
    <2> HIDE DEF x
    <2>4. Inductive(args, Start(args), raw', file)
      BY <1>1, <2>1, <2>2, <2>3, StepEsbc DEF x
    <2> QED  BY <2>1, <2>4
  <1>4. CASE WriteHeaderHuawei
    BY <1>1, <1>4, StepHuawei DEF WriteHeaderHuawei, n
  <1>5. CASE WriteHeaderCustomer
    BY <1>1, <1>5, StepCustomer DEF WriteHeaderCustomer, n
  <1>6. CASE WriteHeaderBcm
    BY <1>1, <1>6, StepBcm DEF WriteHeaderBcm, n
  <1>7. CASE WriteImage
    BY <1>1, <1>7, StepImage DEF WriteImage, n
  <1>8. CASE WriteCms
    BY <1>1, <1>8, StepCms DEF WriteCms, n
  <1>9. CASE WriteHashTree
    BY <1>1, <1>9, StepTree DEF WriteHashTree, n
  <1>10. CASE WriteAddress
    BY <1>1, <1>10, StepAddress DEF WriteAddress, n
  <1>11. CASE WriteExtern
    BY <1>1, <1>11, StepExtern DEF WriteExtern, n
  <1>12. CASE Raise
    BY <1>1, <1>12, StepRaise DEF Raise
  <1>13. CASE \E e \in {"aes", "sm4"} : EncImg(e)
    <2>1. PICK e \in {"aes", "sm4"} : EncImg(e)  BY <1>13
    <2>2. /\ pc = "packed" /\ args.platform # "hi1910" /\ ~args.before /\ args.enc = "no"
          /\ file' = EncImage(file, e) /\ pc' = "encrypted" /\ raw' = raw
          /\ args' = [args EXCEPT !.enc = e]
      BY <2>1 DEF EncImg
    <2>3. Becomes(args, args', e)  BY <2>2 DEF Becomes
    <2>4. file' = EncOf(args, file, e)  BY <2>2, EncImageIs
    <2>5. Inductive(args, "packed", raw, file)  BY <1>1, <2>2
    <2>6. args.platform # "hi1910" /\ ~args.before /\ args.enc = "no"  BY <2>2
    <2>7. Inductive(args', "encrypted", raw, EncOf(args, file, e))
      BY <2>3, <2>5, <2>6, StepEnc
    <2> QED  BY <2>2, <2>4, <2>7
  <1>14. CASE UNCHANGED vars
    BY <1>1, <1>14 DEF vars
  <1> QED
    BY <1>3, <1>4, <1>5, <1>6, <1>7, <1>8, <1>9, <1>10, <1>11, <1>12, <1>13, <1>14 DEF Next

\* IInv holds of every state: after each call of main, the pieces written so
\* far are still whole and at the places the later calls count on.
THEOREM ImagePackInductive == Spec => []IInv
  BY IInvInit, IInvNext, PTL DEF Spec

-----------------------------------------------------------------------------
(* What it says of the finished file *)

\* ascend610 and as31xm1, packed or encrypted.
Finished(a, m, R, F) ==
    /\ \A h \in Hs(a) : Headed(a, m, F, h)
    /\ IF a.enc = "no" THEN Plain(F) /\ Copied(R, ImageLo(a)) \subseteq F.ext
       ELSE Has(F, "cipher", ImageLo(a))
    /\ ~(a.platform = "as31xm1" /\ a.before) => \A h \in Hs(a) : Hashed(a, m, F, h)
    /\ a.enc # "no" => a.platform = "ascend610" /\ \A h \in Hs(a) : Salted(a, m, F, h)
    /\ a.B => BcmIn(F)

LEMMA FinishedPacked ==
    ASSUME NEW a, NEW m, Fits(a, m), NEW R, NEW F, Body(a, m, R, F), Rest(a, m, F, "packed")
    PROVE  Finished(a, m, R, F)
  <1>1. /\ \A h \in Hs(a) : Headed(a, m, F, h)
        /\ a.enc = "no" => Plain(F)
        /\ a.B => BcmIn(F)
        /\ ImageSafe(a, m, R, F)
    BY DEF Body
  <1>2. IF a.enc = "no" THEN Copied(R, ImageLo(a)) \subseteq F.ext ELSE Has(F, "cipher", ImageLo(a))
    <2>1. ImageIn(a, m, R, F)  BY <1>1 DEF ImageSafe
    <2>2. CASE a.enc = "no"  BY <2>1, <2>2 DEF ImageIn
    <2>3. CASE a.enc # "no"
      <3> DEFINE c == Piece("cipher", ImageLo(a), ImageLen(a, m))
      <3>1. c \in F.ext  BY <2>1, <2>3 DEF ImageIn
      <3>2. c.f = "cipher" /\ c.at = ImageLo(a)  BY DEF Piece
      <3> HIDE DEF c
      <3> QED  BY <2>3, <3>1, <3>2 DEF Has
    <2> QED  BY <2>2, <2>3
  <1>3. ~(a.platform = "as31xm1" /\ a.before) => \A h \in Hs(a) : Hashed(a, m, F, h)
    <2>1. ~a.before => \A h \in Hs(a) : Hashed(a, m, F, h)  BY <1>1 DEF ImageSafe
    <2>2. a.before /\ a.platform = "ascend610" => \A h \in Hs(a) : Hashed(a, m, F, h)
      BY DEF Rest
    <2>3. a.platform = "ascend610" \/ a.platform = "as31xm1"  BY DEF Fits
    <2> QED  BY <2>1, <2>2, <2>3
  <1>4. a.enc # "no" => a.platform = "ascend610" /\ \A h \in Hs(a) : Salted(a, m, F, h)
    BY <1>1 DEF ImageSafe
  <1> QED  BY <1>1, <1>2, <1>3, <1>4, Zenon DEF Finished

LEMMA FinishedEnc ==
    ASSUME NEW a, NEW m, Fits(a, m), NEW R, NEW F, EncDone(a, m, F), a.platform = "ascend610",
           ~a.before, a.enc # "no"
    PROVE  Finished(a, m, R, F)
  <1>1. ImageLo(a) = \h2000  BY DEF ImageLo
  <1>2. /\ \A h \in Hs(a) : Headed(a, m, F, h) /\ Hashed(a, m, F, h) /\ Salted(a, m, F, h)
        /\ a.B => BcmIn(F)
        /\ Has(F, "cipher", ImageLo(a))
    BY <1>1 DEF EncDone
  <1> QED  BY <1>2 DEF Finished

\* The two kinds of command line.
LEMMA DoneCases ==
    ASSUME IInv, Done, Supported
    PROVE  \/ /\ args.platform # "hi1910" /\ Fits(args, n)
              /\ Finished(args, n, raw.ext, file)
              /\ pc = "packed" => Rest(args, n, file, "packed")
              /\ pc = "encrypted" => ~args.before /\ EncDone(args, n, file)
           \/ /\ args.platform = "hi1910" /\ FitsHi1910(args, n) /\ pc = "packed"
              /\ Facts1910(args, n, raw.ext, file, "packed")
  <1> DEFINE a == args
             m == n
             R == raw.ext
             F == file
  <1>1. /\ a \in Args /\ m \in Nat /\ 0 < m /\ Flow(a, m, F, pc)
        /\ Fits(a, m) /\ pc # "encrypted" => Facts(a, m, R, F, pc)
        /\ FitsHi1910(a, m) => Facts1910(a, m, R, F, pc)
        /\ Fits(a, m) /\ a.platform = "ascend610" /\ pc = "encrypted" => EncDone(a, m, F)
    BY DEF IInv, Inductive, Typed, n
  <1>2. a.platform \in {"hi1910", "ascend610", "as31xm1"}  BY <1>1, ArgsTyped
  <1>3. pc = "packed" \/ pc = "encrypted"  BY DEF Done
  <1>4. /\ a.S => a.platform = "hi1910" /\ a.addsoc
        /\ ~(a.D /\ a.B)
        /\ a.before => /\ ~a.addsoc /\ ~a.B /\ (a.enc = "no" \/ a.platform = "hi1910")
                       /\ m + \h20000 + HashTreeLen <= a.partition
        /\ a.tail <= \h7F0
        /\ pc = "encrypted" => a.platform = "ascend610"
    BY DEF Supported, Encrypted
  <1> HIDE DEF a, m, R, F
  <1>5. CASE a.platform = "hi1910"
    <2>1. pc = "packed"  BY <1>3, <1>4, <1>5
    <2>2. ~a.before /\ ~(a.addcms /\ a.S) /\ (a.S /\ a.addsoc /\ ~a.before => m <= \hC000)
      BY <1>1, <1>5, <2>1 DEF Flow
    <2>3. FitsHi1910(a, m)  BY <1>1, <1>4, <1>5, <2>2 DEF FitsHi1910
    <2> QED  BY <1>1, <1>5, <2>1, <2>3 DEF a, m, R, F
  <1>6. CASE a.platform # "hi1910"
    <2>1. Fits(a, m)  BY <1>1, <1>2, <1>4, <1>6 DEF Fits
    <2>2. CASE pc = "packed"
      <3>1. Facts(a, m, R, F, "packed")  BY <1>1, <2>1, <2>2
      <3>2. "packed" \in LateCalls  BY DEF LateCalls
      <3>3. Body(a, m, R, F) /\ Rest(a, m, F, "packed")  BY <2>1, <3>1, <3>2, LateFacts
      <3>4. Finished(a, m, R, F)  BY <2>1, <3>3, FinishedPacked
      <3> QED  BY <1>6, <2>1, <2>2, <3>3, <3>4 DEF a, m, R, F
    <2>3. CASE pc = "encrypted"
      <3>1. a.platform = "ascend610" /\ ~a.before /\ a.enc # "no"  BY <1>1, <1>4, <2>3 DEF Flow
      <3>2. EncDone(a, m, F)  BY <1>1, <2>1, <2>3, <3>1
      <3>3. Finished(a, m, R, F)  BY <2>1, <3>1, <3>2, FinishedEnc
      <3> QED  BY <1>6, <2>1, <2>3, <3>1, <3>2, <3>3 DEF a, m, R, F
    <2> QED  BY <1>3, <2>2, <2>3
  <1> QED  BY <1>5, <1>6

\* What the properties call the places of header and image.
LEMMA Named ==
    ASSUME args.platform # "hi1910", Fits(args, n)
    PROVE  /\ Headers = Hs(args)
           /\ \A h \in Headers : h \in {0, 1} /\ HeaderAt(h) = HeadLo(args, h, n)
           /\ ImageAt = ImageLo(args)
           /\ CertAt = CertOff(args) /\ SigAt = \hE00
           /\ Cover = Covered(args)
           /\ Encrypted <=> args.enc # "no"
  <1> DEFINE a == args
             m == n
  <1>1. Headers = Hs(a)  BY DEF Headers, Hs
  <1>2. a.platform = "ascend610" \/ a.platform = "as31xm1"  BY DEF Fits
  <1>3. ~a.S /\ (a.before => a.enc = "no")  BY DEF Fits
  <1>4. \A h \in Headers : h \in {0, 1}  BY DEF Headers
  <1>5. \A h \in Headers : HeaderAt(h) = HeadLo(a, h, m)
    <2> TAKE h \in Headers
    <2>1. CASE a.platform = "ascend610"
      <3>1. A610!HeaderAt(a, h, m) = HeadLo(a, h, m)  BY <1>4, <2>1, HeaderPieces610
      <3> QED  BY <2>1, <3>1 DEF HeaderAt
    <2>2. CASE a.platform = "as31xm1"
      <3>1. H1111!HeaderAt(a, h, m) = HeadLo(a, h, m)  BY <1>4, <2>2, HeaderPieces1111
      <3> QED  BY <2>2, <3>1 DEF HeaderAt
    <2> QED  BY <1>2, <2>1, <2>2
  <1>6. ImageAt = ImageLo(a)
    BY <1>2, <1>3 DEF ImageAt, ImageLo, A610!ImageAt, H1111!ImageAt
  <1>7. CertAt = CertOff(a) /\ SigAt = \hE00  BY <1>2 DEF CertAt, CertOff, SigAt
  <1>8. Cover = Covered(a)  BY <1>2 DEF Cover, Covered, A610!Cover, H1111!Cover
  <1>9. Encrypted <=> a.enc # "no"  BY DEF Encrypted
  <1> QED  BY <1>1, <1>4, <1>5, <1>6, <1>7, <1>8, <1>9

LEMMA Named1910 ==
    ASSUME args.platform = "hi1910"
    PROVE  /\ Headers = {0} /\ HeaderAt(0) = Lo1910(args) /\ ImageAt = Image1910(args)
           /\ CertAt = \h500 /\ SigAt = \h1500 /\ ~Encrypted
  <1>1. Headers = {0} /\ CertAt = \h500 /\ SigAt = \h1500 /\ ~Encrypted
    BY DEF Headers, CertAt, SigAt, Encrypted
  <1>2. HeaderAt(0) = Lo1910(args)
    <2>1. H1910!At(args, 0) = Lo1910(args)  BY SMT DEF H1910!At, Lo1910
    <2> QED  BY <2>1 DEF HeaderAt
  <1>3. ImageAt = Image1910(args)  BY DEF ImageAt, H1910!ImageAt, Image1910
  <1> QED  BY <1>1, <1>2, <1>3

-----------------------------------------------------------------------------
(* The properties *)

\* Every piece lies inside the image or the file, for all command lines.
THEOREM ImagePackTypeOK == Spec => []TypeOK
  <1>1. IInv => TypeOK
    <2> SUFFICES ASSUME IInv  PROVE TypeOK
      OBVIOUS
    <2>1. pc \in Calls /\ Source(raw.ext, raw.size) /\ Whole(file)
      BY DEF IInv, Inductive, Typed
    <2>2. \A e \in raw.ext : e.at \in Nat /\ e.len \in Nat /\ e.at + e.len <= raw.size
      BY <2>1 DEF Source
    <2>3. \A e \in file.ext : e.at \in Nat /\ e.len \in Nat /\ e.at + e.len <= file.size
      BY <2>1 DEF Whole
    <2> QED  BY <2>1, <2>2, <2>3 DEF TypeOK, Calls
  <1> QED  BY <1>1, ImagePackInductive, PTL

\* A header of ascend610 or as31xm1 leads to the image.
LEMMA HeaderLeads ==
    ASSUME args.platform # "hi1910", Fits(args, n), NEW F, NEW h \in Headers,
           Headed(args, n, F, h)
    PROVE  \E e \in F.ext :
             /\ e.f = "head" /\ e.at = HeaderAt(h)
             /\ \/ args.before /\ e.val = ImageAt
                \/ args.S /\ HeaderAt(h) - e.val = ImageAt
                \/ ~args.S /\ e.val = ImageAt - IF args.platform = "as31xm1" THEN 0
                                                ELSE HeaderAt(h)
  <1> DEFINE x == HeadLo(args, h, n)
             p == Holding(Leads(args, h), Piece("head", x, HeadLen(args)))
  <1>1. p \in F.ext  BY DEF Headed
  <1>2. HeaderAt(h) = x /\ ImageAt = ImageLo(args) /\ h \in {0, 1}  BY Named
  <1>3. p.f = "head" /\ p.at = x /\ p.val = Leads(args, h)  BY HoldingIs
  <1>4. args.before => Leads(args, h) = ImageLo(args)  BY DEF Leads, ImageLo
  <1>5. ~args.before => Leads(args, h) = ImageLo(args) - IF args.platform = "as31xm1" THEN 0 ELSE x
    <2>1. ~args.before => x = Later(h) /\ ImageLo(args) = \h2000 /\ Later(h) \in Nat
      BY <1>2, SMT DEF HeadLo, Later, ImageLo
    <2> HIDE DEF x
    <2> QED  BY <2>1, SMT DEF Leads
  <1>6. ~args.S  BY DEF Fits
  <1> HIDE DEF p, x
  <1> QED  BY <1>1, <1>2, <1>3, <1>4, <1>5, <1>6

\* In a finished file the headers lead to the image, and the whole image is
\* there: none of the later writes of main lies on it.
THEOREM ImagePackCodeReachable == Spec => []CodeReachable
  <1>1. IInv => CodeReachable
    <2> SUFFICES ASSUME IInv, Done, Supported
                 PROVE  /\ IF Encrypted THEN Has(file, "cipher", ImageAt)
                           ELSE Copied(raw.ext, ImageAt) \subseteq file.ext
                        /\ \A h \in Headers : \E e \in file.ext :
                             /\ e.f = "head" /\ e.at = HeaderAt(h)
                             /\ \/ args.before /\ e.val = ImageAt
                                \/ args.S /\ HeaderAt(h) - e.val = ImageAt
                                \/ ~args.S /\ e.val = ImageAt - IF args.platform = "as31xm1" THEN 0
                                                                ELSE HeaderAt(h)
      BY DEF CodeReachable
    <2>1. CASE /\ args.platform # "hi1910" /\ Fits(args, n)
               /\ Finished(args, n, raw.ext, file)
      <3>1. Headers = Hs(args) /\ ImageAt = ImageLo(args) /\ (Encrypted <=> args.enc # "no")
        BY <2>1, Named
      <3>2. IF args.enc = "no" THEN Copied(raw.ext, ImageLo(args)) \subseteq file.ext
            ELSE Has(file, "cipher", ImageLo(args))
        BY <2>1 DEF Finished
      <3>3. IF Encrypted THEN Has(file, "cipher", ImageAt)
            ELSE Copied(raw.ext, ImageAt) \subseteq file.ext
        BY <3>1, <3>2
      <3>4. \A h \in Headers : Headed(args, n, file, h)  BY <2>1, <3>1 DEF Finished
      <3> QED  BY <2>1, <3>3, <3>4, HeaderLeads
    <2>2. CASE /\ args.platform = "hi1910" /\ FitsHi1910(args, n)
               /\ pc = "packed" /\ Facts1910(args, n, raw.ext, file, "packed")
      <3>1. Head1910(args, file) /\ ImageIn1910(args, raw.ext, file)  BY <2>2 DEF Facts1910
      <3>2. Headers = {0} /\ HeaderAt(0) = Lo1910(args) /\ ImageAt = Image1910(args) /\ ~Encrypted
        BY <2>2, Named1910
      <3>3. Copied(raw.ext, ImageAt) \subseteq file.ext  BY <3>1, <3>2 DEF ImageIn1910
      <3> DEFINE p == Holding(Lead1910(args), Piece("head", Lo1910(args), \h470))
      <3>4. p \in file.ext  BY <3>1 DEF Head1910
      <3>5. p.f = "head" /\ p.at = Lo1910(args) /\ p.val = Lead1910(args)  BY HoldingIs
      <3>6. IF args.S THEN Lo1910(args) - Lead1910(args) = Image1910(args)
            ELSE Lead1910(args) = Image1910(args) - Lo1910(args)
        BY SMT DEF Lo1910, Lead1910, Image1910
      <3> HIDE DEF p
      <3> QED  BY <2>2, <3>2, <3>3, <3>4, <3>5, <3>6
    <2> QED  BY <2>1, <2>2, DoneCases
  <1> QED  BY <1>1, ImagePackInductive, PTL

LEMMA PieceHas ==
    ASSUME NEW F, NEW f, NEW at, NEW len, Piece(f, at, len) \in F.ext
    PROVE  Has(F, f, at)
  <1> DEFINE p == Piece(f, at, len)
  <1>1. p \in F.ext /\ p.f = f /\ p.at = at  BY DEF Piece
  <1> HIDE DEF p
  <1> QED  BY <1>1 DEF Has

\* The tail, wherever it lies.
LEMMA TailHas ==
    ASSUME NEW F, NEW x, NEW y, NEW z, z = y + \h800, NEW l,
           Piece("cms", x, l) \in F.ext, Piece("ini", y, l) \in F.ext, Piece("crl", z, l) \in F.ext
    PROVE  \E c \in F.ext : /\ c.f = "cms"
                            /\ \E i \in F.ext : i.f = "ini" /\ Has(F, "crl", i.at + \h800)
  <1>1. Has(F, "crl", z)  BY PieceHas
  <1> DEFINE c == Piece("cms", x, l)
             i == Piece("ini", y, l)
  <1>2. c.f = "cms" /\ i.f = "ini" /\ i.at = y /\ c \in F.ext /\ i \in F.ext  BY DEF Piece
  <1>3. i.at + \h800 = z  BY <1>2
  <1> HIDE DEF c, i
  <1> QED  BY <1>1, <1>2, <1>3

\* In a finished file certificate, signature, tail, hash tree, address and the
\* other pieces the options ask for are whole, where they are looked for.
THEOREM ImagePackPiecesWhole == Spec => []PiecesWhole
  <1>1. IInv => PiecesWhole
    <2> SUFFICES ASSUME IInv, Done, Supported
                 PROVE  /\ \A h \in Headers : args.addsoc =>
                             /\ Has(file, "cert", HeaderAt(h) + CertAt)
                             /\ Has(file, "sig", HeaderAt(h) + SigAt)
                             /\ args.platform = "hi1910" =>
                                  /\ args.cert <= \h500 => Has(file, "cert", HeaderAt(h) + \h1000)
                                  /\ Has(file, "sig", HeaderAt(h) + \h1700)
                        /\ args.nvcnt /\ args.platform = "ascend610" =>
                             \A h \in Headers : Has(file, "nvcnt", HeaderAt(h) + \hB18)
                        /\ args.B /\ args.platform # "hi1910" => Has(file, "bcm", \h1000)
                        /\ args.addcms /\ pc = "packed" =>
                             \E c \in file.ext :
                               /\ c.f = "cms"
                               /\ \E i \in file.ext : i.f = "ini" /\ Has(file, "crl", i.at + \h800)
                        /\ args.before => /\ Has(file, "hashtree", n + \h1FF00)
                                          /\ Has(file, "version", args.partition - 4)
                                          /\ \E e \in file.ext : e.f = "address" /\ e.val = n
      BY DEF PiecesWhole
    <2>1. CASE /\ args.platform # "hi1910" /\ Fits(args, n)
               /\ Finished(args, n, raw.ext, file)
               /\ pc = "packed" => Rest(args, n, file, "packed")
               /\ pc = "encrypted" => ~args.before
      <3>1. /\ Headers = Hs(args) /\ CertAt = CertOff(args) /\ SigAt = \hE00
            /\ \A h \in Headers : HeaderAt(h) = HeadLo(args, h, n)
        BY <2>1, Named
      <3>2. \A h \in Headers : Headed(args, n, file, h)  BY <2>1, <3>1 DEF Finished
      <3>3. \A h \in Headers :
              /\ args.addsoc => /\ Has(file, "cert", HeaderAt(h) + CertAt)
                                /\ Has(file, "sig", HeaderAt(h) + SigAt)
              /\ args.nvcnt /\ args.platform = "ascend610" => Has(file, "nvcnt", HeaderAt(h) + \hB18)
        <4> TAKE h \in Headers
        <4> DEFINE x == HeadLo(args, h, n)
        <4>1. /\ args.addsoc => /\ Piece("cert", x + CertOff(args), args.cert) \in file.ext
                                /\ Piece("sig", x + \hE00, SigLen) \in file.ext
              /\ args.nvcnt /\ args.platform = "ascend610" => Piece("nvcnt", x + \hB18, 8) \in file.ext
          BY <3>2 DEF Headed
        <4>2. HeaderAt(h) = x  BY <3>1
        <4> HIDE DEF x
        <4> QED  BY <3>1, <4>1, <4>2, PieceHas
      <3>4. args.B => Has(file, "bcm", \h1000)
        <4>1. args.B => Piece("bcm", \h1000, BcmLen) \in file.ext  BY <2>1 DEF Finished, BcmIn
        <4> DEFINE x == \h1000
        <4>2. args.B => Piece("bcm", x, BcmLen) \in file.ext  BY <4>1
        <4> HIDE DEF x
        <4>3. args.B => Has(file, "bcm", x)  BY <4>2, PieceHas
        <4> QED  BY <4>3 DEF x
      <3>5. args.addcms /\ pc = "packed" =>
              \E c \in file.ext : /\ c.f = "cms"
                                  /\ \E i \in file.ext : i.f = "ini" /\ Has(file, "crl", i.at + \h800)
        <4>1. args.addcms /\ pc = "packed" => Tailed(args, n, file)  BY <2>1 DEF Rest
        <4> DEFINE x == TailLo(args, n)
                   y == x + IniOff(args)
                   z == y + \h800
                   l == 16 + args.tail
        <4>2. Tailed(args, n, file) => /\ Piece("cms", x, l) \in file.ext
                                       /\ Piece("ini", y, l) \in file.ext
                                       /\ Piece("crl", z, l) \in file.ext
          BY DEF Tailed
        <4>3. z = y + \h800  OBVIOUS
        <4> HIDE DEF x, y, z, l
        <4> QED  BY <4>1, <4>2, <4>3, TailHas
      <3>6. args.before => /\ Has(file, "hashtree", n + \h1FF00)
                           /\ Has(file, "version", args.partition - 4)
                           /\ \E e \in file.ext : e.f = "address" /\ e.val = n
        <4>1. args.before => TreeIn(n, file) /\ EndIn(args, n, file)
          BY <2>1 DEF Rest, Done
        <4> DEFINE x == n + \h1FF00
                   y == args.partition - 4
        <4>2. args.before => /\ Piece("hashtree", x, HashTreeLen) \in file.ext
                             /\ Piece("version", y, 4) \in file.ext
                             /\ \E e \in file.ext : e.f = "address" /\ e.val = n
          BY <4>1 DEF TreeIn, EndIn
        <4> HIDE DEF x, y
        <4>3. args.before => Has(file, "hashtree", x) /\ Has(file, "version", y)
          BY <4>2, PieceHas
        <4> QED  BY <4>2, <4>3 DEF x, y
      <3> QED  BY <2>1, <3>3, <3>4, <3>5, <3>6
    <2>2. CASE /\ args.platform = "hi1910" /\ FitsHi1910(args, n)
               /\ pc = "packed" /\ Facts1910(args, n, raw.ext, file, "packed")
      <3>1. Head1910(args, file) /\ (args.addcms => Tail1910(args, n, file))
        BY <2>2 DEF Facts1910
      <3>2. Headers = {0} /\ HeaderAt(0) = Lo1910(args) /\ CertAt = \h500 /\ SigAt = \h1500
        BY <2>2, Named1910
      <3>3. args.addsoc => /\ Has(file, "cert", HeaderAt(0) + CertAt)
                           /\ Has(file, "sig", HeaderAt(0) + SigAt)
                           /\ args.cert <= \h500 => Has(file, "cert", HeaderAt(0) + \h1000)
                           /\ Has(file, "sig", HeaderAt(0) + \h1700)
        <4> DEFINE x == Lo1910(args)
        <4>1. args.addsoc =>
                /\ Piece("cert", x + CertAt, args.cert) \in file.ext
                /\ Piece("sig", x + SigAt, SigLen) \in file.ext
                /\ Piece("sig", x + \h1700, SigLen) \in file.ext
                /\ args.cert <= \h500 => Piece("cert", x + \h1000, args.cert) \in file.ext
          BY <3>1, <3>2 DEF Head1910
        <4>2. HeaderAt(0) = x  BY <3>2
        <4> HIDE DEF x
        <4> QED  BY <4>1, <4>2, PieceHas
      <3>4. args.addcms =>
              \E c \in file.ext : /\ c.f = "cms"
                                  /\ \E i \in file.ext : i.f = "ini" /\ Has(file, "crl", i.at + \h800)
        <4> DEFINE x == TailLo1910(n)
                   y == x + \h2000
                   z == x + \h2800
                   l == 16 + args.tail
        <4>1. Tail1910(args, n, file) => /\ Piece("cms", x, l) \in file.ext
                                         /\ Piece("ini", y, l) \in file.ext
                                         /\ Piece("crl", z, l) \in file.ext
          BY DEF Tail1910
        <4>2. x \in Nat  BY <2>2, Places1910
        <4>3. z = y + \h800  BY <4>2, SMT
        <4> HIDE DEF x, y, z, l
        <4> QED  BY <3>1, <4>1, <4>3, TailHas
      <3>5. ~args.before  BY <2>2 DEF FitsHi1910
      <3> QED  BY <2>2, <3>2, <3>3, <3>4, <3>5
    <2> QED  BY <2>1, <2>2, DoneCases
  <1> QED  BY <1>1, ImagePackInductive, PTL

\* The hash behind a header was taken of what the header holds in the end.
THEOREM ImagePackHeadHashFresh == Spec => []HeadHashFresh
  <1>1. IInv => HeadHashFresh
    <2> SUFFICES ASSUME IInv, Done, Supported, args.platform # "hi1910",
                        ~(args.platform = "as31xm1" /\ args.before), NEW h \in Headers
                 PROVE  \E e \in file.ext :
                          /\ e.f = "hash" /\ e.at = HeaderAt(h) + Cover
                          /\ e.over = Seen(file, HeaderAt(h), HeaderAt(h) + Cover)
      BY Zenon DEF HeadHashFresh
    <2>1. Fits(args, n) /\ Finished(args, n, raw.ext, file)  BY DoneCases
    <2>2. /\ Headers = Hs(args) /\ Cover = Covered(args)
          /\ HeaderAt(h) = HeadLo(args, h, n)
      BY <2>1, Named
    <2>3. Hashed(args, n, file, h)  BY <2>1, <2>2 DEF Finished
    <2> QED  BY <2>2, <2>3 DEF Hashed
  <1> QED  BY <1>1, ImagePackInductive, PTL

\* The size beside the magic number is the size of the finished file.
THEOREM ImagePackSizeRecorded == Spec => []SizeRecorded
  <1>1. IInv => SizeRecorded
    <2> SUFFICES ASSUME IInv, Done, Supported, args.S => args.D,
                        ~(pc = "encrypted" /\ args.enc = "sm4")
                 PROVE  Magic(args, file)
      BY Zenon DEF SizeRecorded, Magic
    <2>1. CASE /\ pc = "packed" => Rest(args, n, file, "packed")
               /\ pc = "encrypted" => EncDone(args, n, file)
      <3>1. CASE pc = "packed"
        <4>1. MagicIn(args, file, HeadLo(args, 0, n) + MagicOff(args), MagicLen(args))
          BY <2>1, <3>1 DEF Rest
        <4> QED  BY <4>1, MagicFound
      <3>2. CASE pc = "encrypted"
        <4>1. EncDone(args, n, file) /\ args.enc # "sm4"  BY <2>1, <3>2
        <4> QED  BY <4>1 DEF EncDone
      <3> QED  BY <3>1, <3>2 DEF Done
    <2>2. CASE pc = "packed" /\ Facts1910(args, n, raw.ext, file, "packed")
      BY <2>2 DEF Facts1910
    <2> QED  BY <2>1, <2>2, DoneCases
  <1> QED  BY <1>1, ImagePackInductive, PTL

\* The flag of a header, and the salt under its hash.
LEMMA FlagIn ==
    ASSUME NEW a, NEW m, Fits(a, m), NEW h \in {0, 1}, NEW F, Headed(a, m, F, h)
    PROVE  \E e \in F.ext : /\ e.f = "encflag" /\ e.val = (IF a.enc = "no" THEN 0 ELSE 1)
                            /\ ~Apart(e, HeadLo(a, h, m), HeadLo(a, h, m) + Covered(a))
  <1> DEFINE x == HeadLo(a, h, m)
             y == x + HeadLen(a)
             v == IF a.enc = "no" THEN 0 ELSE 1
             p == Holding(v, Piece("encflag", y, 4))
  <1>1. p \in F.ext  BY DEF Headed
  <1>2. p.f = "encflag" /\ p.val = v /\ p.at = y /\ p.len = 4  BY HoldingIs
  <1>3. x \in Nat /\ x <= y /\ y + 4 <= x + Covered(a) /\ y \in Nat /\ Covered(a) \in Nat
    BY Places, SMT DEF HeadLen, Covered
  <1> HIDE DEF p, x, y, v
  <1>4. ~Apart(p, x, x + Covered(a))  BY <1>2, <1>3, SMT DEF Apart
  <1> QED  BY <1>1, <1>2, <1>4 DEF x, v

LEMMA SaltHashed ==
    ASSUME NEW a, NEW m, Fits(a, m), a.platform = "ascend610", NEW h \in {0, 1}, NEW F,
           Hashed(a, m, F, h), Salted(a, m, F, h)
    PROVE  \E e \in F.ext : \E s \in e.over :
             e.f = "hash" /\ s.f = "salt" /\ s \in F.ext
               /\ ~Apart(s, HeadLo(a, h, m), HeadLo(a, h, m) + Covered(a))
  <1> DEFINE x == HeadLo(a, h, m)
             y == x + Covered(a)
             p == Piece("salt", x + \h46C, \h30)
  <1>1. p \in F.ext  BY DEF Salted
  <1>2. p.f = "salt" /\ p.at = x + \h46C /\ p.len = \h30  BY DEF Piece
  <1>3. x \in Nat /\ y = x + \h4BC  BY Places, SMT DEF Covered
  <1>4. PICK e \in F.ext : e.f = "hash" /\ e.over = Seen(F, x, y)  BY DEF Hashed
  <1> HIDE DEF p, x, y
  <1>5. ~Apart(p, x, y)  BY <1>2, <1>3, SMT DEF Apart
  <1>6. p \in e.over  BY <1>1, <1>4, <1>5 DEF Seen
  <1> QED  BY <1>1, <1>2, <1>4, <1>5, <1>6 DEF x, y

\* A header says that the image is encrypted exactly if it is, and holds the
\* salt of the key under its hash.
THEOREM ImagePackKeyMaterialKept == Spec => []KeyMaterialKept
  <1>1. IInv => KeyMaterialKept
    <2> SUFFICES ASSUME IInv, Done, Supported, args.platform # "hi1910", NEW h \in Headers
                 PROVE  /\ \E e \in file.ext :
                             /\ e.f = "encflag"
                             /\ ~Apart(e, HeaderAt(h), HeaderAt(h) + Cover)
                             /\ e.val = 1 <=> \E c \in file.ext : c.f = "cipher"
                        /\ Encrypted => \E e \in file.ext : \E s \in e.over :
                             e.f = "hash" /\ s.f = "salt" /\ s \in file.ext
                               /\ ~Apart(s, HeaderAt(h), HeaderAt(h) + Cover)
      BY Zenon DEF KeyMaterialKept
    <2>1. Fits(args, n) /\ Finished(args, n, raw.ext, file)  BY DoneCases
    <2>2. /\ Headers = Hs(args) /\ Cover = Covered(args) /\ h \in {0, 1}
          /\ HeaderAt(h) = HeadLo(args, h, n) /\ (Encrypted <=> args.enc # "no")
      BY <2>1, Named
    <2>3. Headed(args, n, file, h)  BY <2>1, <2>2 DEF Finished
    <2>4. PICK e \in file.ext : /\ e.f = "encflag" /\ e.val = (IF args.enc = "no" THEN 0 ELSE 1)
                                /\ ~Apart(e, HeaderAt(h), HeaderAt(h) + Cover)
      BY <2>1, <2>2, <2>3, FlagIn
    <2>5. e.val = 1 <=> \E c \in file.ext : c.f = "cipher"
      <3>1. CASE args.enc = "no"
        <4>1. Plain(file)  BY <2>1, <3>1 DEF Finished
        <4> QED  BY <2>4, <3>1, <4>1 DEF Plain
      <3>2. CASE args.enc # "no"
        <4>1. Has(file, "cipher", ImageLo(args))  BY <2>1, <3>2 DEF Finished
        <4> QED  BY <2>4, <3>2, <4>1 DEF Has
      <3> QED  BY <3>1, <3>2
    <2>6. Encrypted => \E t \in file.ext : \E s \in t.over :
            t.f = "hash" /\ s.f = "salt" /\ s \in file.ext
              /\ ~Apart(s, HeaderAt(h), HeaderAt(h) + Cover)
      <3> SUFFICES ASSUME Encrypted
                   PROVE  \E t \in file.ext : \E s \in t.over :
                            t.f = "hash" /\ s.f = "salt" /\ s \in file.ext
                              /\ ~Apart(s, HeaderAt(h), HeaderAt(h) + Cover)
        OBVIOUS
      <3>1. args.platform = "ascend610" /\ Salted(args, n, file, h)
        BY <2>1, <2>2 DEF Finished
      <3>2. Hashed(args, n, file, h)  BY <2>1, <2>2, <3>1 DEF Finished
      <3> QED  BY <2>1, <2>2, <3>1, <3>2, SaltHashed
    <2> QED  BY <2>4, <2>5, <2>6
  <1> QED  BY <1>1, ImagePackInductive, PTL
=============================================================================
