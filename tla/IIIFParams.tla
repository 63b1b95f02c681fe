----------------------------- MODULE IIIFParams -----------------------------
(***************************************************************************)
(* The parameters of an IIIF image request: region, size, rotation,        *)
(* quality and format, what each of them comes to on an image of given     *)
(* width and height, and the canonical form that names the rendition in    *)
(* the cache.  Operators only, no state.                                   *)
(*                                                                         *)
(* A parameter string is a record of its parts; the number -1 stands for a *)
(* part that is missing or is not a number.  The quotients of the code are *)
(* floats compared with an epsilon of 1.0e-4; on images of less than 10000 *)
(* pixels a side a quotient of two integers is either an integer or        *)
(* further than that from one, so the exact quotients below are the        *)
(* results of the code.  Unsigned 32-bit arithmetic is arithmetic modulo   *)
(* Word.                                                                   *)
(***************************************************************************)
EXTENDS Integers, FiniteSetsExt

CONSTANTS Word,      \* 2^32 in the code
          LimitDim   \* IIIFSize::limitdim, 32000 in the code

ASSUME ParamsAssumption == Word \in Nat \ {0} /\ LimitDim \in Nat \ {0}

\* The sides for which the quotients are exact
LargestSide == 9999

CeilDiv(a, b) == (a + b - 1) \div b
FloorDiv(a, b) == a \div b
\* lroundf of a / b: to the nearest, halves away from zero
LRound(a, b) == IF a >= 0 THEN (2 * a + b) \div (2 * b) ELSE -((b - 2 * a) \div (2 * b))

-----------------------------------------------------------------------------
(* IIIFRegion *)

BadRegion == [type |-> "ERROR", x |-> 0, y |-> 0, w |-> 0, h |-> 0]

\* The constructor: four numbers are needed unless the type says it all
ParseRegion(s) == IF \E n \in {s.x, s.y, s.w, s.h} : n = -1 /\ s.type \in {"COORDS", "PERCENTS"}
                  THEN BadRegion ELSE s

\* Along one side of the image: clip the start and the extent at the borders
Clip_NoUpperBound(at, len, n) ==
    LET start == IF at < 0 THEN 0 ELSE at
        rest  == IF at < 0 THEN (len + at) % Word ELSE len
    IN  [err |-> at >= n, at |-> start, len |-> IF rest = 0 THEN n - start ELSE rest]

Clip(at, len, n) ==
    LET start == IF at < 0 THEN 0 ELSE at
        rest  == IF at < 0 THEN (len + at) % Word ELSE len
    IN  [err |-> at >= n,
         at  |-> start,
         len |-> IF rest = 0 \/ (start + rest) % Word > n THEN n - start ELSE rest]

\* The corner and the extent before clipping; red is what set_reduce last said
Corner(r, red, nx, ny) ==
    CASE r.type = "COORDS"   -> <<LRound(r.x, red), LRound(r.y, red), LRound(r.w, red), LRound(r.h, red)>>
      [] r.type = "SQUARE"   -> IF nx > ny THEN <<(nx - ny) \div 2, 0, ny, ny>>
                                           ELSE <<0, (ny - nx) \div 2, nx, nx>>
      [] r.type = "PERCENTS" -> <<LRound(r.x * nx, 100), LRound(r.y * ny, 100),
                                  LRound(r.w * nx, 100), LRound(r.h * ny, 100)>>
      [] OTHER               -> <<0, 0, nx, ny>>

Rectangle(a, b) == [err |-> a.err \/ b.err, x |-> a.at, y |-> b.at, w |-> a.len, h |-> b.len]

\* The corner is signed, the extent is not
Signed(n) == IF 2 * (n % Word) < Word THEN n % Word ELSE (n % Word) - Word

CropCoords(r, red, nx, ny) ==
    LET Clipped(c) == Rectangle(Clip(Signed(c[1]), c[3] % Word, nx), Clip(Signed(c[2]), c[4] % Word, ny))
    IN  Clipped(Corner(r, red, nx, ny))

\* The text of the region in the canonical URL
RegionCanonical(r, nx, ny) ==
    LET Text(c) == <<c.x, c.y, c.w, c.h>>
    IN  IF r.type = "FULL" THEN <<"full">> ELSE Text(CropCoords(r, 1, nx, ny))

-----------------------------------------------------------------------------
(* IIIFSize *)

Size(type, up, nx, ny, pct, red) ==
    [type |-> type, up |-> up, nx |-> nx, ny |-> ny, percent |-> pct, reduce |-> red]

\* The default constructor: no restriction
Undefined == Size("UNDEFINED", FALSE, 0, 0, 0, 0)
BadSize == Size("ERROR", FALSE, 0, 0, 0, 0)

\* What the constructors yield but for a percentage of 0, which the code divides by
IsSize(z) ==
    /\ z \in [type : {"UNDEFINED", "ERROR", "FULL", "PERCENTS", "REDUCE", "PIXELS_X", "PIXELS_Y", "PIXELS_XY", "MAXDIM"},
              up : BOOLEAN, nx : Nat, ny : Nat, percent : Nat, reduce : Nat]
    /\ z.nx > 0 <=> z.type \in {"PIXELS_X", "PIXELS_XY", "MAXDIM"}
    /\ z.ny > 0 <=> z.type \in {"PIXELS_Y", "PIXELS_XY", "MAXDIM"}
    /\ z.percent > 0 <=> z.type = "PERCENTS"
    /\ z.reduce > 0 => z.type = "REDUCE"

\* The constructor from a string [up, excl, form, a, b]
ParseSize(s) ==
    CASE s.form = "max" -> Size("FULL", s.up, 0, 0, 0, 0)
      [] s.form = "pct" -> IF s.excl \/ s.a = -1 THEN BadSize ELSE Size("PERCENTS", s.up, 0, 0, s.a, 0)
      [] s.form = "red" -> IF s.excl \/ s.a = -1 THEN BadSize ELSE Size("REDUCE", s.up, 0, 0, 0, s.a)
      [] s.form = "wh"  ->
            IF 0 \in {s.a, s.b} \/ {s.a, s.b} = {-1} \/ (s.excl /\ -1 \in {s.a, s.b}) THEN BadSize
            ELSE IF s.a = -1 THEN Size("PIXELS_Y", s.up, 0, s.b, 0, 0)
            ELSE IF s.b = -1 THEN Size("PIXELS_X", s.up, s.a, 0, 0, 0)
            ELSE Size(IF s.excl THEN "MAXDIM" ELSE "PIXELS_XY", s.up, s.a, s.b, 0, 0)
      [] OTHER -> BadSize

\* undefined(): true as well of "max" and of "red:n", which carry neither extent nor percentage
IsUndefined(z) == z.nx = 0 /\ z.ny = 0 /\ z.percent = 0

\* For JPEG2000 a factor is brought down to a power of two: the loop doubles
\* at least once, so the power is less than the factor (2 gives 1, 4 gives 2)
Powers == {1, 2, 4, 8, 16, 32, 64, 128, 256, 512, 1024, 2048, 4096, 8192, 16384}
PowerBelow(r) == Min({p \in Powers : 2 * p >= r})

\* How far an extent i can be brought to n by an integer factor
Factor(n, i, j2k) == IF n > i THEN 1 ELSE IF j2k THEN PowerBelow(i \div n) ELSE i \div n
Exact(n, i) == n <= i /\ i % n = 0
Smaller(a, b) == IF a < b THEN a ELSE b

\* The outcome of one case: refused because it would enlarge, or the extent
\* with the factor to read at and whether that factor does all of it
Outcome(up, w, h, reduce, redonly) ==
    [err |-> up, w |-> w, h |-> h, reduce |-> reduce, redonly |-> redonly]

SizePixelsXY(z, iw, ih, j2k) ==
    LET rw == Factor(z.nx, iw, j2k)
        rh == Factor(z.ny, ih, j2k)
    IN  Outcome(~z.up /\ (z.nx > iw \/ z.ny > ih), z.nx, z.ny, Smaller(rw, rh),
                Exact(z.nx, iw) /\ Exact(z.ny, ih) /\ rw = rh)

SizePixelsX(z, iw, ih, j2k) ==
    LET r == Factor(z.nx, iw, j2k)
    IN  Outcome(~z.up /\ z.nx > iw, z.nx,
                IF Exact(z.nx, iw) THEN CeilDiv(ih, r) ELSE CeilDiv(ih * z.nx, iw),
                r, Exact(z.nx, iw))

SizePixelsY(z, iw, ih, j2k) ==
    LET r == Factor(z.ny, ih, j2k)
    IN  Outcome(~z.up /\ z.ny > ih,
                IF Exact(z.ny, ih) THEN CeilDiv(iw, r) ELSE CeilDiv(iw * z.ny, ih),
                z.ny, r, Exact(z.ny, ih))

\* Whether a factor alone brings iw x ih to w x h
Covers(r, w, h, iw, ih) == /\ r * w - iw < r /\ iw - r * w < r
                           /\ r * h - ih < r /\ ih - r * h < r

SizePercents(z, iw, ih, j2k) ==
    LET w == CeilDiv(iw * z.percent, 100)
        h == CeilDiv(ih * z.percent, 100)
        f == IF 100 \div z.percent < 1 THEN 1 ELSE 100 \div z.percent
        r == IF j2k THEN PowerBelow(f) ELSE f
    IN  Outcome(~z.up /\ z.percent > 100, w, h, r, Covers(r, w, h, iw, ih))

SizeReduce(z, iw, ih, maxred, j2k) ==
    IF z.reduce <= 1 THEN Outcome(FALSE, iw, ih, 1, TRUE)
    ELSE LET over == maxred # 0 /\ z.reduce > maxred
             r == IF over THEN maxred ELSE IF j2k THEN PowerBelow(z.reduce) ELSE z.reduce
         IN  Outcome(FALSE, CeilDiv(iw, z.reduce), CeilDiv(ih, z.reduce), r, ~over /\ r = z.reduce)

SizeMaxdim(z, iw, ih, j2k) ==
    LET byW == z.nx * ih < z.ny * iw
        w == IF byW THEN z.nx ELSE CeilDiv(iw * z.ny, ih)
        h == IF byW THEN CeilDiv(ih * z.nx, iw) ELSE z.ny
        Red(i, n) == LET f == IF i \div n < 1 THEN 1 ELSE i \div n
                     IN  IF j2k THEN PowerBelow(f) ELSE f
        r == Smaller(Red(iw, w), Red(ih, h))
    IN  Outcome(~z.up /\ (w > iw \/ h > ih), w, h, r,
                Red(iw, w) = Red(ih, h) /\ Covers(r, w, h, iw, ih))

\* "^max" grows to the limits, "max" stays as it is
SizeFull(z, iw, ih, lim) ==
    LET wide == iw * lim.h > ih * lim.w
        w == IF ~z.up \/ lim.w = 0 THEN iw
             ELSE IF lim.h = 0 THEN (IF iw > ih THEN lim.w ELSE (iw * lim.w) \div iw)
             ELSE IF wide THEN lim.w ELSE FloorDiv(iw * lim.h, ih)
        h == IF ~z.up \/ lim.w = 0 THEN ih
             ELSE IF lim.h = 0 THEN (IF iw > ih THEN (ih * lim.w) \div iw ELSE lim.w)
             ELSE IF wide THEN FloorDiv(ih * lim.w, iw) ELSE lim.h
    IN  Outcome(FALSE, w, h, 1, ~z.up)

\* A configured width limits the height too, with whatever the height limit is
TooBig(w, h, lim) == IF lim.w > 0 THEN w > lim.w \/ h > lim.h ELSE w > LimitDim \/ h > LimitDim

\* get_size() on an image of iw x ih; maxred is the value of reduce_p at the
\* call, where 0 means that any factor will do
GetSize(z, iw, ih, maxred, j2k, lim) ==
    LET Limited(o) == [o EXCEPT !.err = @ \/ TooBig(o.w, o.h, lim)]
    IN  Limited(CASE z.type = "PIXELS_XY" -> SizePixelsXY(z, iw, ih, j2k)
                  [] z.type = "PIXELS_X"  -> SizePixelsX(z, iw, ih, j2k)
                  [] z.type = "PIXELS_Y"  -> SizePixelsY(z, iw, ih, j2k)
                  [] z.type = "PERCENTS"  -> SizePercents(z, iw, ih, j2k)
                  [] z.type = "REDUCE"    -> SizeReduce(z, iw, ih, maxred, j2k)
                  [] z.type = "MAXDIM"    -> SizeMaxdim(z, iw, ih, j2k)
                  [] z.type = "FULL"      -> SizeFull(z, iw, ih, lim)
                  [] OTHER                -> Outcome(FALSE, 0, 0, 0, FALSE))

\* operator>: in one direction is enough
Exceeds(a, b) == a.w > b.w \/ a.h > b.h

\* The text of the size in the canonical URL, after get_size() gave o
SizeCanonical(z, o) == IF z.type = "FULL" THEN <<z.up, "max">> ELSE <<z.up, o.w, o.h>>

-----------------------------------------------------------------------------
(* IIIFRotation, IIIFQualityFormat.  An angle is in hundredths of a degree. *)

\* The constructor refuses what is not a number of [0, 360)
ParseRotation(s) == [err |-> s.angle < 0 \/ s.angle >= 36000, mirror |-> s.mirror, angle |-> s.angle]

Qualities == {"default", "color", "gray", "bitonal"}
Formats == {"jpg", "tif", "png", "gif", "jp2", "pdf", "webp"}

\* An unknown quality is an error, an unknown format only a format nobody writes
ParseQualityFormat(q, f) ==
    [err |-> q \notin Qualities, quality |-> q, format |-> IF f \in Formats THEN f ELSE "unsupported"]

\* Whole degrees are written as such, others with one decimal
RotationCanonical_NoMirror(rot) ==
    <<FALSE, IF rot.angle % 100 = 0 THEN <<"deg", rot.angle \div 100>> ELSE <<"tenths", LRound(rot.angle, 10)>>>>

RotationCanonical(rot) ==
    <<rot.mirror, IF rot.angle % 100 = 0 THEN <<"deg", rot.angle \div 100>>
                                         ELSE <<"tenths", LRound(rot.angle, 10)>>>>

\* get_canonical_url(): err when the region lies outside the image, the size
\* cannot be had, or the format is none of the four that are written.  The
\* size is taken of the whole image, also when a region is cut out first.
GetCanonicalUrl_NoQuality(id, r, z, rot, qf, iw, ih, lim) ==
    LET o == GetSize(z, iw, ih, 0, FALSE, lim)
    IN  [err |-> \/ r.type # "FULL" /\ CropCoords(r, 1, iw, ih).err
                 \/ z.type # "FULL" /\ o.err
                 \/ qf.format \notin {"jpg", "jp2", "tif", "png"},
         url |-> <<id, RegionCanonical(r, iw, ih), SizeCanonical(z, o), RotationCanonical(rot), qf.format>>]

GetCanonicalUrl(id, r, z, rot, qf, iw, ih, lim) ==
    LET o == GetSize(z, iw, ih, 0, FALSE, lim)
    IN  [err |-> \/ r.type # "FULL" /\ CropCoords(r, 1, iw, ih).err
                 \/ z.type # "FULL" /\ o.err
                 \/ qf.format \notin {"jpg", "jp2", "tif", "png"},
         url |-> <<id, RegionCanonical(r, iw, ih), SizeCanonical(z, o), RotationCanonical(rot),
                   qf.quality, qf.format>>]
=============================================================================
