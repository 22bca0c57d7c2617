----------------------------- MODULE ImageFile -----------------------------
(***************************************************************************)
(* The image file the signing tools of meta-hisilicon write piece by       *)
(* piece, with seek and write.  A file is the set of the pieces that can   *)
(* still be read back whole, and its size: a write removes every piece it  *)
(* overlaps.  A piece has a name, its place, and                           *)
(*   val   a number the piece holds (an offset, a flag, a length),         *)
(*   over  for a hash, the pieces that were hashed.                        *)
(***************************************************************************)
EXTENDS Integers

Piece(f, at, len) == [f |-> f, at |-> at, len |-> len, val |-> 0, over |-> {}]

Holding(v, p) == [p EXCEPT !.val = v]

Empty == [ext |-> {}, size |-> 0]

Apart(e, lo, hi) == e.at + e.len <= lo \/ hi <= e.at

\* A plausible bug: the file ends where the last write did.
PutTruncates(F, lo, hi, pieces) ==
    [ext  |-> {e \in F.ext : Apart(e, lo, hi)} \cup pieces,
     size |-> hi]

\* seek(lo) and one write that ends at hi and leaves these pieces.
Put(F, lo, hi, pieces) ==
    [ext  |-> {e \in F.ext : Apart(e, lo, hi)} \cup pieces,
     size |-> IF F.size < hi THEN hi ELSE F.size]

PutPiece(F, p) == Put(F, p.at, p.at + p.len, {p})

Write(F, f, at, len) == PutPiece(F, Piece(f, at, len))

\* read(n) at lo returns less than n bytes at the end of the file.
ReadLen(F, lo, n) ==
    IF F.size >= lo + n THEN n
    ELSE IF F.size > lo THEN F.size - lo
    ELSE 0

Seen(F, lo, hi) == {e \in F.ext : ~Apart(e, lo, hi)}

(***************************************************************************)
(* __write_header_hash of the platforms: seek(lo), read the header, write  *)
(* its hash where the read stopped.                                        *)
(***************************************************************************)
WriteHash(F, lo, n) ==
    LET at == lo + ReadLen(F, lo, n)
    IN  PutPiece(F, [Piece("hash", at, 32) EXCEPT !.over = Seen(F, lo, at)])

Has(F, f, at) == \E e \in F.ext : e.f = f /\ e.at = at

\* The pieces of the source file, copied to another place.
Copied(pieces, at) == {[e EXCEPT !.at = at + @] : e \in pieces}
=============================================================================
