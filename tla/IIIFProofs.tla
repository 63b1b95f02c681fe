------------------------------- MODULE IIIFProofs -------------------------------
(***************************************************************************)
(* What is proved of the image requests (IIIFHandler) and of the image     *)
(* functions of scripts (IIIFLua), which share the parameters, the readers *)
(* and the operations on images.                                           *)
(*                                                                         *)
(* Of the requests: what is kept in the cache and sent, that it shows what *)
(* the URL names, that a rendition from the cache is the one that would be *)
(* made now, that a restriction holds, and that the readers stay inside of *)
(* the image.  Of the scripts: that topleft() changes nothing that is      *)
(* seen, that scaling uses all of the image, that a file holds the picture *)
(* that was written into it, and what its digest decides.  All this for    *)
(* images of every extent, every list of levels, and any parameters.       *)
(***************************************************************************)
EXTENDS IIIFHandler, IIIFLua, WellFoundedInduction, TLAPS

-----------------------------------------------------------------------------
(* Arithmetic.                                                             *)

\* A quotient and what is left of the dividend.
LEMMA Quotient ==
  ASSUME NEW a \in Nat, NEW b \in Nat \ {0}
  PROVE  /\ a \div b \in Nat
         /\ (a \div b) * b <= a
         /\ a < (a \div b) * b + b
OBVIOUS

LEMMA CeilDivBounds ==
  ASSUME NEW a \in Nat, NEW b \in Nat \ {0}
  PROVE  /\ CeilDiv(a, b) \in Nat
         /\ a <= CeilDiv(a, b) * b
         /\ CeilDiv(a, b) * b < a + b
<1> DEFINE s == a + b - 1
<1>1. s \in Nat
  OBVIOUS
<1> HIDE DEF s
<1> DEFINE q == s \div b
<1>2. q \in Nat /\ q * b <= s /\ s < q * b + b
  BY <1>1, Quotient
<1>3. CeilDiv(a, b) = q
  BY DEF CeilDiv, q, s
<1> HIDE DEF q
<1> QED
  BY <1>1, <1>2, <1>3 DEF s

\* Nothing less than the quotient rounded up reaches the dividend.
LEMMA CeilDivLeast ==
  ASSUME NEW a \in Nat, NEW b \in Nat \ {0}, NEW n \in Int, a <= n * b
  PROVE  CeilDiv(a, b) <= n
<1> DEFINE q == CeilDiv(a, b)
<1>1. q \in Nat /\ q * b < a + b
  BY CeilDivBounds
<1> HIDE DEF q
<1>2. q * b < (n + 1) * b
  BY <1>1
<1>3. q < n + 1
  BY <1>1, <1>2
<1> QED
  BY <1>1, <1>3 DEF q

LEMMA CeilDivMonotone ==
  ASSUME NEW a \in Nat, NEW b \in Nat, a <= b, NEW c \in Nat \ {0}
  PROVE  CeilDiv(a, c) <= CeilDiv(b, c)
<1> DEFINE q == CeilDiv(b, c)
<1>1. q \in Nat /\ b <= q * c
  BY CeilDivBounds
<1> HIDE DEF q
<1>2. a <= q * c
  BY <1>1
<1>3. CeilDiv(a, c) <= q
  BY <1>1, <1>2, CeilDivLeast
<1> QED
  BY <1>3 DEF q

LEMMA CeilDivPositive ==
  ASSUME NEW a \in Nat \ {0}, NEW b \in Nat \ {0}
  PROVE  CeilDiv(a, b) \in Nat \ {0} /\ CeilDiv(a, b) <= a
<1> DEFINE q == CeilDiv(a, b)
<1>1. q \in Nat /\ a <= q * b
  BY CeilDivBounds
<1>2. a <= a * b
  OBVIOUS
<1>3. q <= a
  BY <1>2, CeilDivLeast
<1> HIDE DEF q
<1>4. q # 0
  BY <1>1
<1> QED
  BY <1>1, <1>3, <1>4 DEF q

LEMMA CeilDivOne ==
  ASSUME NEW a \in Nat
  PROVE  CeilDiv(a, 1) = a
BY DEF CeilDiv

LEMMA LRoundBounds ==
  ASSUME NEW a \in Nat, NEW b \in Nat \ {0}
  PROVE  /\ LRound(a, b) \in Nat
         /\ 2 * LRound(a, b) * b <= 2 * a + b
         /\ 2 * a < 2 * LRound(a, b) * b + b
<1> DEFINE s == 2 * a + b
           t == 2 * b
<1>1. s \in Nat /\ t \in Nat \ {0}
  OBVIOUS
<1> HIDE DEF s, t
<1> DEFINE q == s \div t
<1>2. q \in Nat /\ q * t <= s /\ s < q * t + t
  BY <1>1, Quotient
<1>3. LRound(a, b) = q
  BY DEF LRound, q, s, t
<1> HIDE DEF q
<1>4. q * t = 2 * q * b
  BY <1>1, <1>2 DEF t
<1> QED
  BY <1>1, <1>2, <1>3, <1>4 DEF s, t

\* Rounding keeps the order, and does not make a number larger.
LEMMA LRoundMonotone ==
  ASSUME NEW a \in Nat, NEW b \in Nat, a <= b, NEW c \in Nat \ {0}
  PROVE  LRound(a, c) <= LRound(b, c)
<1> DEFINE p == LRound(a, c)
           q == LRound(b, c)
<1>1. p \in Nat /\ 2 * p * c <= 2 * a + c
  BY LRoundBounds
<1>2. q \in Nat /\ 2 * b < 2 * q * c + c
  BY LRoundBounds
<1> HIDE DEF p, q
<1>3. 2 * p * c < 2 * q * c + 2 * c
  BY <1>1, <1>2
<1>4. p * c < (q + 1) * c
  BY <1>1, <1>2, <1>3
<1>5. p < q + 1
  BY <1>1, <1>2, <1>4
<1> QED
  BY <1>1, <1>2, <1>5 DEF p, q

LEMMA LRoundNotLarger ==
  ASSUME NEW a \in Nat, NEW c \in Nat \ {0}
  PROVE  LRound(a, c) <= a
<1> DEFINE p == LRound(a, c)
<1>1. p \in Nat /\ 2 * p * c <= 2 * a + c
  BY LRoundBounds
<1> HIDE DEF p
<1>2. CASE a = 0
  <2>1. 2 * p * c < 2 * c
    BY <1>1, <1>2
  <2>2. p * c < 1 * c
    BY <1>1, <2>1
  <2>3. p < 1
    BY <1>1, <2>2
  <2> QED
    BY <1>1, <1>2, <2>3 DEF p
<1>3. CASE a > 0
  <2>1. ASSUME p >= a + 1 PROVE FALSE
    <3>1. 2 * (a + 1) * c <= 2 * p * c
      BY <1>1, <2>1
    <3>2. 2 * a * c + c <= 2 * a
      BY <1>1, <3>1
    <3>3. 2 * a <= 2 * a * c
      OBVIOUS
    <3> QED
      BY <3>2, <3>3
  <2> QED
    BY <1>1, <2>1 DEF p
<1> QED
  BY <1>2, <1>3

LEMMA LRoundOne ==
  ASSUME NEW a \in Nat
  PROVE  LRound(a, 1) = a
BY DEF LRound

LEMMA SmallModulo ==
  ASSUME NEW a \in Nat, NEW b \in Nat \ {0}, a < b
  PROVE  a % b = a
OBVIOUS

-----------------------------------------------------------------------------
(* Regions.                                                                *)

\* A region that the constructor accepts.
Parsed(r) ==
  /\ r.type \in {"FULL", "SQUARE", "COORDS", "PERCENTS"}
  /\ r.type \in {"COORDS", "PERCENTS"} => r.x \in Nat /\ r.y \in Nat /\ r.w \in Nat /\ r.h \in Nat

\* A number that is the same as 32 bits with a sign.
Fits(n) == n \in Nat /\ 2 * n < Word

FittingCorner(c) == Fits(c[1]) /\ Fits(c[2]) /\ Fits(c[3]) /\ Fits(c[4])

\* The extent that is left of len pixels from at on.
Cut(at, len, n) == IF len = 0 \/ at + len > n THEN n - at ELSE len

\* A rectangle with something in it, inside of nx x ny pixels.
Inside(c, nx, ny) ==
  /\ ~c.err
  /\ c.x \in Nat /\ c.w \in Nat \ {0} /\ c.x + c.w <= nx
  /\ c.y \in Nat /\ c.h \in Nat \ {0} /\ c.y + c.h <= ny

LEMMA ParsedRegion ==
  ASSUME NEW t \in DOMAIN RegionOf, ParseRegion(RegionOf[t]).type # "ERROR"
  PROVE  Parsed(ParseRegion(RegionOf[t]))
<1> DEFINE s == RegionOf[t]
<1>1. s \in [type : {"FULL", "SQUARE", "COORDS", "PERCENTS"}, x : Numbers, y : Numbers, w : Numbers, h : Numbers]
  BY ParametersAssumption
<1> HIDE DEF s
<1>2. ParseRegion(s).type # "ERROR" => ParseRegion(s) = s /\ (s.type \in {"COORDS", "PERCENTS"} => -1 \notin {s.x, s.y, s.w, s.h})
  BY DEF ParseRegion, BadRegion
<1>3. ParseRegion(s) = s /\ (s.type \in {"COORDS", "PERCENTS"} => -1 \notin {s.x, s.y, s.w, s.h})
  BY <1>2 DEF s
<1>4. Parsed(s)
  BY <1>1, <1>3 DEF Parsed, Numbers
<1> QED
  BY <1>3, <1>4 DEF s

LEMMA SignedFits ==
  ASSUME NEW n, Fits(n)
  PROVE  Signed(n) = n /\ n % Word = n
<1>1. n % Word = n
  BY SmallModulo, ParamsAssumption DEF Fits
<1> QED
  BY <1>1 DEF Signed, Fits

LEMMA ClipFits ==
  ASSUME NEW at, NEW len, Fits(at), Fits(len), NEW n \in Nat
  PROVE  Clip(at, len, n) = [err |-> at >= n, at |-> at, len |-> Cut(at, len, n)]
<1>1. (at + len) % Word = at + len
  BY SmallModulo, ParamsAssumption DEF Fits
<1>2. ~(at < 0)
  BY DEF Fits
<1> QED
  BY <1>1, <1>2 DEF Clip, Cut

LEMMA CropCoordsFits ==
  ASSUME NEW r, NEW red, NEW nx \in Nat, NEW ny \in Nat, FittingCorner(Corner(r, red, nx, ny))
  PROVE  CropCoords(r, red, nx, ny) =
           LET c == Corner(r, red, nx, ny)
           IN  [err |-> c[1] >= nx \/ c[2] >= ny, x |-> c[1], y |-> c[2],
                w |-> Cut(c[1], c[3], nx), h |-> Cut(c[2], c[4], ny)]
<1> DEFINE c == Corner(r, red, nx, ny)
<1>1. FittingCorner(c)
  OBVIOUS
<1> HIDE DEF c
<1>2. Signed(c[1]) = c[1] /\ c[3] % Word = c[3] /\ Signed(c[2]) = c[2] /\ c[4] % Word = c[4]
  BY <1>1, SignedFits DEF FittingCorner
<1>3. Clip(c[1], c[3], nx) = [err |-> c[1] >= nx, at |-> c[1], len |-> Cut(c[1], c[3], nx)]
  BY <1>1, ClipFits DEF FittingCorner
<1>4. Clip(c[2], c[4], ny) = [err |-> c[2] >= ny, at |-> c[2], len |-> Cut(c[2], c[4], ny)]
  BY <1>1, ClipFits DEF FittingCorner
<1>5. CropCoords(r, red, nx, ny) = Rectangle(Clip(Signed(c[1]), c[3] % Word, nx), Clip(Signed(c[2]), c[4] % Word, ny))
  BY DEF CropCoords, c
<1> DEFINE e == c[1] >= nx
           f == c[2] >= ny
           v == Cut(c[1], c[3], nx)
           u == Cut(c[2], c[4], ny)
<1>6. CropCoords(r, red, nx, ny) = Rectangle([err |-> e, at |-> c[1], len |-> v], [err |-> f, at |-> c[2], len |-> u])
  BY <1>2, <1>3, <1>4, <1>5
<1> HIDE DEF e, f, v, u
<1>7. CropCoords(r, red, nx, ny) = [err |-> e \/ f, x |-> c[1], y |-> c[2], w |-> v, h |-> u]
  BY <1>6, Zenon DEF Rectangle
<1> QED
  BY <1>7 DEF c, e, f, v, u

\* What crop_coords() lets pass is inside.
LEMMA CropCoordsInside ==
  ASSUME NEW r, NEW red, NEW nx \in Nat, NEW ny \in Nat, FittingCorner(Corner(r, red, nx, ny)),
         ~CropCoords(r, red, nx, ny).err
  PROVE  Inside(CropCoords(r, red, nx, ny), nx, ny)
<1> DEFINE c == Corner(r, red, nx, ny)
           d == CropCoords(r, red, nx, ny)
<1>1. FittingCorner(c)
  OBVIOUS
<1>2. d = [err |-> c[1] >= nx \/ c[2] >= ny, x |-> c[1], y |-> c[2],
           w |-> Cut(c[1], c[3], nx), h |-> Cut(c[2], c[4], ny)]
  BY CropCoordsFits
<1>3. ~d.err
  OBVIOUS
<1> HIDE DEF c, d
<1>4. ~(c[1] >= nx \/ c[2] >= ny)
  BY <1>2, <1>3, Zenon
<1>5. d.x = c[1] /\ d.y = c[2] /\ d.w = Cut(c[1], c[3], nx) /\ d.h = Cut(c[2], c[4], ny)
  BY <1>2, Zenon
<1>6. \A i \in 1..4 : c[i] \in Nat
  BY <1>1 DEF FittingCorner, Fits
<1>7. /\ d.x \in Nat /\ d.w \in Nat \ {0} /\ d.x + d.w <= nx
      /\ d.y \in Nat /\ d.h \in Nat \ {0} /\ d.y + d.h <= ny
  BY <1>4, <1>5, <1>6 DEF Cut
<1>8. Inside(d, nx, ny)
  BY <1>3, <1>7 DEF Inside
<1> QED
  BY <1>8 DEF d

\* The numbers fit on every level when they fit on the image.
LEMMA FitsOnLevel ==
  ASSUME NEW r, Parsed(r), NEW nx \in Nat \ {0}, NEW ny \in Nat \ {0}, Fits(nx), Fits(ny),
         FittingCorner(Corner(r, 1, nx, ny)),
         NEW red \in Nat \ {0}, NEW mx \in Nat \ {0}, NEW my \in Nat \ {0}, mx <= nx, my <= ny
  PROVE  FittingCorner(Corner(r, red, mx, my))
<1>1. CASE r.type = "COORDS"
  <2>1. r.x \in Nat /\ r.y \in Nat /\ r.w \in Nat /\ r.h \in Nat
    BY <1>1 DEF Parsed
  <2>2. Corner(r, 1, nx, ny) = <<r.x, r.y, r.w, r.h>>
    BY <1>1, <2>1, LRoundOne DEF Corner
  <2>3. Fits(r.x) /\ Fits(r.y) /\ Fits(r.w) /\ Fits(r.h)
    BY <2>2 DEF FittingCorner
  <2>4. \A n \in Nat : Fits(n) => Fits(LRound(n, red))
    <3> SUFFICES ASSUME NEW n \in Nat, Fits(n) PROVE Fits(LRound(n, red))
      OBVIOUS
    <3>1. LRound(n, red) \in Nat /\ LRound(n, red) <= n
      BY LRoundBounds, LRoundNotLarger
    <3> QED
      BY <3>1, ParamsAssumption DEF Fits
  <2>5. Corner(r, red, mx, my) = <<LRound(r.x, red), LRound(r.y, red), LRound(r.w, red), LRound(r.h, red)>>
    BY <1>1 DEF Corner
  <2> QED
    BY <2>1, <2>3, <2>4, <2>5 DEF FittingCorner
<1>2. CASE r.type = "PERCENTS"
  <2>1. r.x \in Nat /\ r.y \in Nat /\ r.w \in Nat /\ r.h \in Nat
    BY <1>2 DEF Parsed
  <2>2. Fits(LRound(r.x * nx, 100)) /\ Fits(LRound(r.y * ny, 100)) /\ Fits(LRound(r.w * nx, 100)) /\ Fits(LRound(r.h * ny, 100))
    BY <1>2 DEF Corner, FittingCorner
  <2>3. ASSUME NEW a \in Nat, NEW m \in Nat, NEW n \in Nat, m <= n, Fits(LRound(a * n, 100))
        PROVE  Fits(LRound(a * m, 100))
    <3>1. a * m \in Nat /\ a * n \in Nat /\ a * m <= a * n
      BY <2>3
    <3> DEFINE p == a * m
               q == a * n
               c == 100
    <3>2. p \in Nat /\ q \in Nat /\ p <= q /\ c \in Nat \ {0}
      BY <3>1
    <3>3. Fits(LRound(q, c))
      BY <2>3
    <3> HIDE DEF p, q, c
    <3>4. LRound(p, c) \in Nat
      BY <3>2, LRoundBounds
    <3>5. LRound(p, c) <= LRound(q, c)
      BY <3>2, LRoundMonotone
    <3>6. Fits(LRound(p, c))
      BY <3>3, <3>4, <3>5, ParamsAssumption DEF Fits
    <3> QED
      BY <3>6 DEF p, c
  <2>4. Corner(r, red, mx, my) = <<LRound(r.x * mx, 100), LRound(r.y * my, 100), LRound(r.w * mx, 100), LRound(r.h * my, 100)>>
    BY <1>2 DEF Corner
  <2> QED
    BY <2>1, <2>2, <2>3, <2>4 DEF FittingCorner
<1>3. CASE r.type = "SQUARE"
  BY <1>3, ParamsAssumption DEF Corner, FittingCorner, Fits
<1>4. CASE r.type = "FULL"
  BY <1>4, ParamsAssumption DEF Corner, FittingCorner, Fits
<1> QED
  BY <1>1, <1>2, <1>3, <1>4 DEF Parsed

-----------------------------------------------------------------------------
(* Sizes.                                                                  *)

\* A size that a URL or a restriction that restricts can have.
Proper(z) ==
  IsSize(z) /\ z.type \in {"FULL", "PERCENTS", "PIXELS_X", "PIXELS_Y", "PIXELS_XY", "MAXDIM"}

LEMMA ProperNumbers ==
  ASSUME NEW z, Proper(z)
  PROVE  /\ z.nx \in Nat /\ z.ny \in Nat /\ z.percent \in Nat /\ z.up \in BOOLEAN
         /\ z.nx > 0 <=> z.type \in {"PIXELS_X", "PIXELS_XY", "MAXDIM"}
         /\ z.ny > 0 <=> z.type \in {"PIXELS_Y", "PIXELS_XY", "MAXDIM"}
         /\ z.percent > 0 <=> z.type = "PERCENTS"
BY DEF Proper, IsSize

SizeFields(z) ==
  /\ z = Size(z.type, z.up, z.nx, z.ny, z.percent, 0)
  /\ z.type \in {"FULL", "PERCENTS", "PIXELS_X", "PIXELS_Y", "PIXELS_XY", "MAXDIM"}
  /\ z.up \in BOOLEAN /\ z.nx \in Nat /\ z.ny \in Nat /\ z.percent \in Nat
  /\ z.nx > 0 <=> z.type \in {"PIXELS_X", "PIXELS_XY", "MAXDIM"}
  /\ z.ny > 0 <=> z.type \in {"PIXELS_Y", "PIXELS_XY", "MAXDIM"}
  /\ z.percent > 0 <=> z.type = "PERCENTS"

LEMMA ProperSize ==
  ASSUME NEW z, SizeFields(z)
  PROVE  Proper(z)
<1> USE DEF SizeFields
<1>1. z \in [type : {"UNDEFINED", "ERROR", "FULL", "PERCENTS", "REDUCE", "PIXELS_X", "PIXELS_Y", "PIXELS_XY", "MAXDIM"},
             up : BOOLEAN, nx : Nat, ny : Nat, percent : Nat, reduce : Nat]
  BY DEF Size
<1>2. z.reduce = 0
  BY DEF Size
<1> QED
  BY <1>1, <1>2 DEF Proper, IsSize

LEMMA ParsedSize ==
  ASSUME NEW t \in DOMAIN SizeOf, ParseSize(SizeOf[t]).type # "ERROR"
  PROVE  Proper(ParseSize(SizeOf[t]))
<1> DEFINE s == SizeOf[t]
<1>1. /\ s \in [up : BOOLEAN, excl : BOOLEAN, form : {"max", "pct", "wh"}, a : Numbers, b : Numbers]
      /\ s.form = "pct" => s.a # 0
  BY ParametersAssumption
<1>2. ParseSize(s).type # "ERROR"
  OBVIOUS
<1> HIDE DEF s
<1>9. s.form \in {"max", "pct", "wh"} /\ s.up \in BOOLEAN
  BY <1>1
<1>3. BadSize.type = "ERROR"
  BY DEF BadSize, Size
<1>4. ASSUME s.form = "max" PROVE SizeFields(ParseSize(s))
  <2>1. ParseSize(s) = Size("FULL", s.up, 0, 0, 0, 0)
    BY <1>4 DEF ParseSize
  <2> QED
    BY <1>1, <1>9, <2>1 DEF Size, SizeFields
<1>5. ASSUME s.form = "pct" PROVE SizeFields(ParseSize(s))
  <2>1. ParseSize(s) = Size("PERCENTS", s.up, 0, 0, s.a, 0) /\ s.a # -1
    BY <1>2, <1>3, <1>5 DEF ParseSize
  <2>2. s.a \in Nat /\ s.a > 0
    BY <1>1, <1>5, <2>1 DEF Numbers
  <2> QED
    BY <1>1, <1>9, <2>1, <2>2 DEF Size, SizeFields
<1>6. ASSUME s.form = "wh" PROVE SizeFields(ParseSize(s))
  <2>1. ~(0 \in {s.a, s.b} \/ {s.a, s.b} = {-1} \/ (s.excl /\ -1 \in {s.a, s.b}))
    BY <1>2, <1>3, <1>6 DEF ParseSize
  <2>2. CASE s.a = -1
    <3>1. ParseSize(s) = Size("PIXELS_Y", s.up, 0, s.b, 0, 0)
      BY <1>6, <2>1, <2>2 DEF ParseSize
    <3>2. s.b \in Nat /\ s.b > 0
      BY <1>1, <2>1, <2>2 DEF Numbers
    <3> QED
      BY <1>1, <1>9, <3>1, <3>2 DEF Size, SizeFields
  <2>3. CASE s.a # -1 /\ s.b = -1
    <3>1. ParseSize(s) = Size("PIXELS_X", s.up, s.a, 0, 0, 0)
      BY <1>6, <2>1, <2>3 DEF ParseSize
    <3>2. s.a \in Nat /\ s.a > 0
      BY <1>1, <2>1, <2>3 DEF Numbers
    <3> QED
      BY <1>1, <1>9, <3>1, <3>2 DEF Size, SizeFields
  <2>4. CASE s.a # -1 /\ s.b # -1
    <3> DEFINE type == IF s.excl THEN "MAXDIM" ELSE "PIXELS_XY"
    <3>1. ParseSize(s) = Size(type, s.up, s.a, s.b, 0, 0)
      BY <1>6, <2>1, <2>4 DEF ParseSize
    <3>2. s.a \in Nat /\ s.a > 0 /\ s.b \in Nat /\ s.b > 0
      BY <1>1, <2>1, <2>4 DEF Numbers
    <3>3. type \in {"MAXDIM", "PIXELS_XY"}
      OBVIOUS
    <3> HIDE DEF type
    <3> QED
      BY <1>1, <1>9, <3>1, <3>2, <3>3 DEF Size, SizeFields
  <2> QED
    BY <2>2, <2>3, <2>4
<1>7. SizeFields(ParseSize(s))
  BY <1>9, <1>4, <1>5, <1>6
<1>8. Proper(ParseSize(s))
  BY <1>7, ProperSize
<1> QED
  BY <1>8 DEF s

LEMMA RestrictingSize ==
  ASSUME NEW z, IsSize(z), ~IsUndefined(z)
  PROVE  Proper(z) /\ z.type # "FULL"
BY DEF IsSize, IsUndefined, Proper

\* What get_size() gives for each type.
LEMMA FullSize ==
  ASSUME NEW z, z.type = "FULL", NEW w, NEW h, NEW m, NEW j, NEW lim, ~z.up \/ lim.w = 0
  PROVE  LET o == GetSize(z, w, h, m, j, lim)
         IN  o.w = w /\ o.h = h /\ o.reduce = 1
BY DEF GetSize, SizeFull, Outcome

LEMMA PercentSize ==
  ASSUME NEW z, z.type = "PERCENTS", NEW w, NEW h, NEW m, NEW j, NEW lim
  PROVE  LET o == GetSize(z, w, h, m, j, lim)
             f == IF 100 \div z.percent < 1 THEN 1 ELSE 100 \div z.percent
         IN  /\ o.w = CeilDiv(w * z.percent, 100) /\ o.h = CeilDiv(h * z.percent, 100)
             /\ o.reduce = IF j THEN PowerBelow(f) ELSE f
BY DEF GetSize, SizePercents, Outcome

LEMMA PixelsXSize ==
  ASSUME NEW z, z.type = "PIXELS_X", NEW w, NEW h, NEW m, NEW j, NEW lim
  PROVE  LET o == GetSize(z, w, h, m, j, lim)
         IN  /\ o.w = z.nx
             /\ o.h = IF Exact(z.nx, w) THEN CeilDiv(h, Factor(z.nx, w, j)) ELSE CeilDiv(h * z.nx, w)
             /\ o.reduce = Factor(z.nx, w, j)
BY DEF GetSize, SizePixelsX, Outcome

LEMMA PixelsXRedonly ==
  ASSUME NEW z, z.type = "PIXELS_X", NEW w, NEW h, NEW m, NEW j, NEW lim
  PROVE  GetSize(z, w, h, m, j, lim).redonly = Exact(z.nx, w)
BY DEF GetSize, SizePixelsX, Outcome

LEMMA PixelsYSize ==
  ASSUME NEW z, z.type = "PIXELS_Y", NEW w, NEW h, NEW m, NEW j, NEW lim
  PROVE  LET o == GetSize(z, w, h, m, j, lim)
         IN  /\ o.w = IF Exact(z.ny, h) THEN CeilDiv(w, Factor(z.ny, h, j)) ELSE CeilDiv(w * z.ny, h)
             /\ o.h = z.ny
             /\ o.reduce = Factor(z.ny, h, j)
BY DEF GetSize, SizePixelsY, Outcome

LEMMA PixelsYRedonly ==
  ASSUME NEW z, z.type = "PIXELS_Y", NEW w, NEW h, NEW m, NEW j, NEW lim
  PROVE  GetSize(z, w, h, m, j, lim).redonly = Exact(z.ny, h)
BY DEF GetSize, SizePixelsY, Outcome

LEMMA PixelsXYSize ==
  ASSUME NEW z, z.type = "PIXELS_XY", NEW w, NEW h, NEW m, NEW j, NEW lim
  PROVE  LET o == GetSize(z, w, h, m, j, lim)
         IN  o.w = z.nx /\ o.h = z.ny /\ o.reduce = Smaller(Factor(z.nx, w, j), Factor(z.ny, h, j))
BY DEF GetSize, SizePixelsXY, Outcome

LEMMA MaxdimSize ==
  ASSUME NEW z, z.type = "MAXDIM", NEW w, NEW h, NEW m, NEW j, NEW lim
  PROVE  LET o == GetSize(z, w, h, m, j, lim)
             f == IF w \div o.w < 1 THEN 1 ELSE w \div o.w
             g == IF h \div o.h < 1 THEN 1 ELSE h \div o.h
         IN  /\ o.w = IF z.nx * h < z.ny * w THEN z.nx ELSE CeilDiv(w * z.ny, h)
             /\ o.h = IF z.nx * h < z.ny * w THEN CeilDiv(h * z.nx, w) ELSE z.ny
             /\ o.reduce = Smaller(IF j THEN PowerBelow(f) ELSE f, IF j THEN PowerBelow(g) ELSE g)
<1> DEFINE byW == z.nx * h < z.ny * w
           a == IF byW THEN z.nx ELSE CeilDiv(w * z.ny, h)
           b == IF byW THEN CeilDiv(h * z.nx, w) ELSE z.ny
           Red(i, n) == LET f == IF i \div n < 1 THEN 1 ELSE i \div n IN IF j THEN PowerBelow(f) ELSE f
           r == Smaller(Red(w, a), Red(h, b))
           up == ~z.up /\ (a > w \/ b > h)
           only == Red(w, a) = Red(h, b) /\ Covers(r, a, b, w, h)
           s == Outcome(up, a, b, r, only)
           big == TooBig(s.w, s.h, lim)
           o == GetSize(z, w, h, m, j, lim)
<1>1. SizeMaxdim(z, w, h, j) = s
  BY DEF SizeMaxdim
<1>2. o = [s EXCEPT !.err = @ \/ big]
  BY <1>1 DEF GetSize
<1>3. o.w = a /\ o.h = b /\ o.reduce = r
  <2> HIDE DEF a, b, r, up, only, big, o
  <2> QED
    BY <1>2 DEF Outcome
<1> HIDE DEF o
<1>4. r = LET f == IF w \div o.w < 1 THEN 1 ELSE w \div o.w
              g == IF h \div o.h < 1 THEN 1 ELSE h \div o.h
          IN  Smaller(IF j THEN PowerBelow(f) ELSE f, IF j THEN PowerBelow(g) ELSE g)
  <2> HIDE DEF a, b
  <2> QED
    BY <1>3
<1> HIDE DEF r
<1> QED
  BY <1>3, <1>4 DEF o

\* The factor at the call does not matter but for "red:n".
LEMMA AnyFactor ==
  ASSUME NEW z, z.type # "REDUCE", NEW w, NEW h, NEW m, NEW n, NEW j, NEW lim
  PROVE  GetSize(z, w, h, m, j, lim) = GetSize(z, w, h, n, j, lim)
BY DEF GetSize

\* A quotient that is rounded up is what a size means.
LEMMA RoundedUp ==
  ASSUME NEW a \in Nat, NEW b \in Nat \ {0}
  PROVE  Rounded(CeilDiv(a, b), a, b)
BY CeilDivBounds DEF Rounded

LEMMA ExactFactor ==
  ASSUME NEW n \in Nat \ {0}, NEW i \in Nat \ {0}, Exact(n, i)
  PROVE  /\ i \div n \in Nat \ {0}
         /\ i = (i \div n) * n
<1> DEFINE q == i \div n
<1>1. q \in Nat /\ q * n <= i /\ i < q * n + n
  BY Quotient
<1>2. i % n = 0 /\ n <= i
  BY DEF Exact
<1>3. i = q * n
  BY <1>2
<1> HIDE DEF q
<1>4. q # 0
  BY <1>1, <1>2
<1> QED
  BY <1>1, <1>3, <1>4 DEF q

\* So is one by a factor that divides the other side.
LEMMA RoundedExact ==
  ASSUME NEW n \in Nat \ {0}, NEW i \in Nat \ {0}, Exact(n, i), NEW k \in Nat \ {0}
  PROVE  /\ CeilDiv(k, i \div n) \in Nat \ {0}
         /\ Rounded(CeilDiv(k, i \div n), k * n, i)
<1> DEFINE r == i \div n
           q == CeilDiv(k, r)
<1>1. r \in Nat \ {0} /\ i = r * n
  BY ExactFactor
<1> HIDE DEF r
<1>2. q \in Nat /\ k <= q * r /\ q * r < k + r
  BY <1>1, CeilDivBounds
<1>3. q # 0
  BY <1>1, CeilDivPositive
<1> HIDE DEF q
<1>4. (q * r) * n < (k + r) * n
  BY <1>1, <1>2
<1>5. k * n <= (q * r) * n
  BY <1>1, <1>2
<1>6. q * i = (q * r) * n /\ (k + r) * n = k * n + i
  BY <1>1, <1>2
<1>7. k * n < (q * r) * n + i
  BY <1>1, <1>2, <1>5
<1>8. Rounded(q, k * n, i)
  BY <1>4, <1>6, <1>7 DEF Rounded
<1> QED
  BY <1>2, <1>3, <1>8 DEF q, r

\* The box of "!w,h" holds what get_size() gives.
LEMMA BoxHeight ==
  ASSUME NEW nx \in Nat \ {0}, NEW ny \in Nat \ {0}, NEW w \in Nat \ {0}, NEW h \in Nat \ {0}, nx * h <= ny * w
  PROVE  CeilDiv(h * nx, w) <= ny
<1> DEFINE a == h * nx
<1>1. a \in Nat /\ a <= ny * w
  OBVIOUS
<1> HIDE DEF a
<1>2. CeilDiv(a, w) <= ny
  BY <1>1, CeilDivLeast
<1> QED
  BY <1>2 DEF a

LEMMA BoxWidth ==
  ASSUME NEW nx \in Nat \ {0}, NEW ny \in Nat \ {0}, NEW w \in Nat \ {0}, NEW h \in Nat \ {0}, ny * w <= nx * h
  PROVE  CeilDiv(w * ny, h) <= nx
<1> DEFINE a == w * ny
<1>1. a \in Nat /\ a <= nx * h
  OBVIOUS
<1> HIDE DEF a
<1>2. CeilDiv(a, h) <= nx
  BY <1>1, CeilDivLeast
<1> QED
  BY <1>2 DEF a

\* A derived side is positive.
LEMMA DerivedSide ==
  ASSUME NEW a \in Nat \ {0}, NEW n \in Nat \ {0}, NEW b \in Nat \ {0}
  PROVE  CeilDiv(a * n, b) \in Nat \ {0} /\ Rounded(CeilDiv(a * n, b), a * n, b)
<1> DEFINE c == a * n
<1>1. c \in Nat \ {0}
  OBVIOUS
<1> HIDE DEF c
<1>2. CeilDiv(c, b) \in Nat \ {0} /\ Rounded(CeilDiv(c, b), c, b)
  BY <1>1, CeilDivPositive, RoundedUp
<1> QED
  BY <1>2 DEF c

\* Where the code is known to give another extent than the size means.
ExtentIsKnown(z, w, h, m, j, lim) ==
  IF z.type = "FULL" THEN ~z.up \/ lim.w = 0 ELSE ~(j /\ GetSize(z, w, h, m, j, lim).redonly)

Meant(z, w, h, o) == o.w \in Nat \ {0} /\ o.h \in Nat \ {0} /\ MeansExtent(z, w, h, o.w, o.h)

\* Otherwise get_size() gives what the size means.
LEMMA GetSizeMeant ==
  ASSUME NEW z, Proper(z), NEW w \in Nat \ {0}, NEW h \in Nat \ {0}, NEW m, NEW j \in BOOLEAN, NEW lim,
         ExtentIsKnown(z, w, h, m, j, lim)
  PROVE  Meant(z, w, h, GetSize(z, w, h, m, j, lim))
<1> DEFINE o == GetSize(z, w, h, m, j, lim)
<1>1. CASE z.type = "FULL"
  <2>1. o.w = w /\ o.h = h
    BY <1>1, FullSize DEF ExtentIsKnown
  <2> QED
    BY <1>1, <2>1 DEF Meant, MeansExtent
<1>2. CASE z.type = "PERCENTS"
  <2>1. z.percent \in Nat \ {0}
    BY <1>2, ProperNumbers
  <2>2. o.w = CeilDiv(w * z.percent, 100) /\ o.h = CeilDiv(h * z.percent, 100)
    BY <1>2, PercentSize
  <2> DEFINE p == z.percent
             c == 100
  <2>3. p \in Nat \ {0} /\ c \in Nat \ {0} /\ o.w = CeilDiv(w * p, c) /\ o.h = CeilDiv(h * p, c)
    BY <2>1, <2>2
  <2> HIDE DEF p, c, o
  <2>4. o.w \in Nat \ {0} /\ Rounded(o.w, w * p, c)
    BY <2>3, DerivedSide
  <2>5. o.h \in Nat \ {0} /\ Rounded(o.h, h * p, c)
    BY <2>3, DerivedSide
  <2> QED
    BY <1>2, <2>4, <2>5 DEF Meant, MeansExtent, o, p, c
<1>3. CASE z.type = "PIXELS_XY"
  <2>1. o.w = z.nx /\ o.h = z.ny
    BY <1>3, PixelsXYSize
  <2>2. z.nx \in Nat \ {0} /\ z.ny \in Nat \ {0}
    BY <1>3, ProperNumbers
  <2> QED
    BY <1>3, <2>1, <2>2 DEF Meant, MeansExtent
<1>4. CASE z.type = "PIXELS_X"
  <2> DEFINE n == z.nx
  <2>1. n \in Nat \ {0}
    BY <1>4, ProperNumbers
  <2>2. o.w = n /\ o.h = IF Exact(n, w) THEN CeilDiv(h, Factor(n, w, j)) ELSE CeilDiv(h * n, w)
    BY <1>4, PixelsXSize
  <2>3. ~(j /\ Exact(n, w))
    BY <1>4, PixelsXRedonly DEF ExtentIsKnown
  <2> HIDE DEF n, o
  <2>4. o.h \in Nat \ {0} /\ Rounded(o.h, h * n, w)
    <3>1. CASE Exact(n, w)
      <4>1. Factor(n, w, j) = w \div n
        BY <2>1, <2>3, <3>1 DEF Factor, Exact
      <4> QED
        BY <2>1, <2>2, <3>1, <4>1, RoundedExact
    <3>2. CASE ~Exact(n, w)
      BY <2>1, <2>2, <3>2, DerivedSide
    <3> QED
      BY <3>1, <3>2
  <2> QED
    BY <1>4, <2>1, <2>2, <2>4 DEF Meant, MeansExtent, n, o
<1>5. CASE z.type = "PIXELS_Y"
  <2> DEFINE n == z.ny
  <2>1. n \in Nat \ {0}
    BY <1>5, ProperNumbers
  <2>2. o.h = n /\ o.w = IF Exact(n, h) THEN CeilDiv(w, Factor(n, h, j)) ELSE CeilDiv(w * n, h)
    BY <1>5, PixelsYSize
  <2>3. ~(j /\ Exact(n, h))
    BY <1>5, PixelsYRedonly DEF ExtentIsKnown
  <2> HIDE DEF n, o
  <2>4. o.w \in Nat \ {0} /\ Rounded(o.w, w * n, h)
    <3>1. CASE Exact(n, h)
      <4>1. Factor(n, h, j) = h \div n
        BY <2>1, <2>3, <3>1 DEF Factor, Exact
      <4> QED
        BY <2>1, <2>2, <3>1, <4>1, RoundedExact
    <3>2. CASE ~Exact(n, h)
      BY <2>1, <2>2, <3>2, DerivedSide
    <3> QED
      BY <3>1, <3>2
  <2> QED
    BY <1>5, <2>1, <2>2, <2>4 DEF Meant, MeansExtent, n, o
<1>6. CASE z.type = "MAXDIM"
  <2> DEFINE nx == z.nx
             ny == z.ny
  <2>1. nx \in Nat \ {0} /\ ny \in Nat \ {0}
    BY <1>6, ProperNumbers
  <2>2. /\ o.w = IF nx * h < ny * w THEN nx ELSE CeilDiv(w * ny, h)
        /\ o.h = IF nx * h < ny * w THEN CeilDiv(h * nx, w) ELSE ny
    BY <1>6, MaxdimSize
  <2> HIDE DEF nx, ny, o
  <2>3. CASE nx * h < ny * w
    <3>1. o.w = nx /\ o.h = CeilDiv(h * nx, w)
      BY <2>2, <2>3
    <3>2. o.h \in Nat \ {0} /\ Rounded(o.h, h * nx, w)
      BY <2>1, <3>1, DerivedSide
    <3>5. nx * h <= ny * w
      BY <2>1, <2>3
    <3>3. o.h <= ny
      BY <2>1, <3>1, <3>5, BoxHeight
    <3>4. /\ o.w <= nx /\ o.h <= ny /\ (o.w = nx \/ o.h = ny)
          /\ Rounded(o.h, h * o.w, w)
      BY <2>1, <3>1, <3>2, <3>3
    <3> QED
      BY <1>6, <2>1, <3>1, <3>2, <3>4 DEF Meant, MeansExtent, nx, ny, o
  <2>4. CASE ~(nx * h < ny * w)
    <3>1. o.h = ny /\ o.w = CeilDiv(w * ny, h)
      BY <2>2, <2>4
    <3>2. o.w \in Nat \ {0} /\ Rounded(o.w, w * ny, h)
      BY <2>1, <3>1, DerivedSide
    <3>5. ny * w <= nx * h
      BY <2>1, <2>4
    <3>3. o.w <= nx
      BY <2>1, <3>1, <3>5, BoxWidth
    <3>4. /\ o.w <= nx /\ o.h <= ny /\ (o.w = nx \/ o.h = ny)
          /\ Rounded(o.w, w * o.h, h)
      BY <2>1, <3>1, <3>2, <3>3
    <3> QED
      BY <1>6, <2>1, <3>1, <3>2, <3>4 DEF Meant, MeansExtent, nx, ny, o
  <2> QED
    BY <2>3, <2>4
<1> QED
  BY <1>1, <1>2, <1>3, <1>4, <1>5, <1>6 DEF Proper

-----------------------------------------------------------------------------
(* The rectangle of the master.                                            *)

LEMMA MasterSides ==
  ASSUME file \in Masters
  PROVE  /\ file.nx \in Nat \ {0} /\ file.nx <= LargestSide
         /\ file.ny \in Nat \ {0} /\ file.ny <= LargestSide
<1>1. LargestSide \in Nat
  BY DEF LargestSide
<1> QED
  BY <1>1, MastersAssumption

\* What the readers are given, and what they may assume of it.
Readable(r, z) ==
  /\ file \in Masters /\ Parsed(r) /\ Proper(z)
  /\ Fits(file.nx) /\ Fits(file.ny) /\ FittingCorner(Corner(r, 1, file.nx, file.ny))

\* The rectangle of "full" is what crop_coords() makes of it.
LEMMA AreaIsCrop ==
  ASSUME NEW r, NEW red, NEW nx \in Nat \ {0}, NEW ny \in Nat \ {0}, FittingCorner(Corner(r, red, nx, ny))
  PROVE  Area(r, red, nx, ny) = CropCoords(r, red, nx, ny)
<1>1. CASE r.type = "FULL"
  <2>1. Corner(r, red, nx, ny) = <<0, 0, nx, ny>>
    BY <1>1 DEF Corner
  <2> DEFINE c == Corner(r, red, nx, ny)
  <2>2. CropCoords(r, red, nx, ny) = [err |-> c[1] >= nx \/ c[2] >= ny, x |-> c[1], y |-> c[2],
                                      w |-> Cut(c[1], c[3], nx), h |-> Cut(c[2], c[4], ny)]
    BY CropCoordsFits
  <2>3. c[1] = 0 /\ c[2] = 0 /\ c[3] = nx /\ c[4] = ny
    BY <2>1
  <2> HIDE DEF c
  <2>4. Cut(c[1], c[3], nx) = nx /\ Cut(c[2], c[4], ny) = ny
    BY <2>3 DEF Cut
  <2>5. (c[1] >= nx \/ c[2] >= ny) = FALSE
    BY <2>3
  <2>6. CropCoords(r, red, nx, ny) = [err |-> FALSE, x |-> 0, y |-> 0, w |-> nx, h |-> ny]
    BY <2>2, <2>3, <2>4, <2>5, Zenon
  <2> QED
    BY <1>1, <2>6 DEF Area
<1>2. CASE r.type # "FULL"
  BY <1>2 DEF Area
<1> QED
  BY <1>1, <1>2

Same(c, d) == c.x = d.x /\ c.y = d.y /\ c.w = d.w /\ c.h = d.h

\* On the image it is the one that the region names.
LEMMA CropIsNamed ==
  ASSUME NEW r, Parsed(r), file \in Masters, FittingCorner(Corner(r, 1, file.nx, file.ny))
  PROVE  Same(CropCoords(r, 1, file.nx, file.ny), NamedArea(r))
<1> DEFINE nx == file.nx
           ny == file.ny
           c  == Corner(r, 1, nx, ny)
           d  == CropCoords(r, 1, nx, ny)
           n  == NamedArea(r)
<1>1. nx \in Nat \ {0} /\ ny \in Nat \ {0}
  BY MasterSides
<1>2. d = [err |-> c[1] >= nx \/ c[2] >= ny, x |-> c[1], y |-> c[2],
           w |-> Cut(c[1], c[3], nx), h |-> Cut(c[2], c[4], ny)]
  BY <1>1, CropCoordsFits
<1> HIDE DEF d
<1>3. d.x = c[1] /\ d.y = c[2] /\ d.w = Cut(c[1], c[3], nx) /\ d.h = Cut(c[2], c[4], ny)
  BY <1>2, Zenon
<1>4. CASE r.type = "COORDS"
  <2>1. r.x \in Nat /\ r.y \in Nat /\ r.w \in Nat /\ r.h \in Nat
    BY <1>4 DEF Parsed
  <2>2. c = <<r.x, r.y, r.w, r.h>>
    BY <1>4, <2>1, LRoundOne DEF Corner
  <2>3. n.x = r.x /\ n.y = r.y /\ n.w = Cut(r.x, r.w, nx) /\ n.h = Cut(r.y, r.h, ny)
    BY <1>4 DEF NamedArea, Cut
  <2> HIDE DEF c, n
  <2> QED
    BY <1>3, <2>2, <2>3 DEF Same, d, n
<1>5. CASE r.type = "PERCENTS"
  <2>1. c = <<LRound(r.x * nx, 100), LRound(r.y * ny, 100), LRound(r.w * nx, 100), LRound(r.h * ny, 100)>>
    BY <1>5 DEF Corner
  <2>2. /\ n.x = LRound(r.x * nx, 100) /\ n.w = Cut(LRound(r.x * nx, 100), LRound(r.w * nx, 100), nx)
        /\ n.y = LRound(r.y * ny, 100) /\ n.h = Cut(LRound(r.y * ny, 100), LRound(r.h * ny, 100), ny)
    BY <1>5 DEF NamedArea, Cut
  <2> HIDE DEF c, n
  <2> QED
    BY <1>3, <2>1, <2>2 DEF Same, d, n
<1>6. CASE r.type = "SQUARE"
  <2> DEFINE side == Smaller(nx, ny)
  <2>1. c = <<(nx - side) \div 2, (ny - side) \div 2, side, side>>
    BY <1>1, <1>6 DEF Corner, Smaller
  <2>2. n.x = (nx - side) \div 2 /\ n.w = Cut((nx - side) \div 2, side, nx)
        /\ n.y = (ny - side) \div 2 /\ n.h = Cut((ny - side) \div 2, side, ny)
    BY <1>6 DEF NamedArea, Cut
  <2> HIDE DEF c, n, side
  <2> QED
    BY <1>3, <2>1, <2>2 DEF Same, d, n
<1>7. CASE r.type = "FULL"
  <2>1. c = <<0, 0, nx, ny>>
    BY <1>7 DEF Corner
  <2>2. n.x = 0 /\ n.w = Cut(0, nx, nx) /\ n.y = 0 /\ n.h = Cut(0, ny, ny)
    BY <1>7 DEF NamedArea, Cut
  <2> HIDE DEF c, n
  <2> QED
    BY <1>3, <2>1, <2>2 DEF Same, d, n
<1> QED
  BY <1>4, <1>5, <1>6, <1>7 DEF Parsed

\* Which is all of it without a region.
LEMMA NamedFull ==
  ASSUME NEW r, r.type = "FULL", file \in Masters
  PROVE  NamedArea(r) = [x |-> 0, y |-> 0, w |-> file.nx, h |-> file.ny]
<1>1. file.nx \in Nat \ {0} /\ file.ny \in Nat \ {0}
  BY MasterSides
<1> QED
  BY <1>1 DEF NamedArea

-----------------------------------------------------------------------------
(* The factor that a size calls for.                                       *)

\* A set of numbers that is not empty has a least one.
LEMMA LeastNumber ==
  ASSUME NEW T \in SUBSET Nat, T # {}
  PROVE  Min(T) \in T /\ \A k \in T : Min(T) <= k
<1> DEFINE R == OpToRel(<, Nat)
<1>1. IsWellFoundedOn(R, Nat)
  BY NatLessThanWellFounded
<1>2. \A x, y \in Nat : y < x => <<y, x>> \in R
  BY DEF OpToRel
<1> HIDE DEF R
<1>3. PICK m \in T : \A k \in T : ~(<<k, m>> \in R)
  BY <1>1, WFMin
<1>4. ASSUME NEW k \in T PROVE m <= k
  <2>1. ~(k < m)
    BY <1>2, <1>3
  <2> QED
    BY <2>1
<1> QED
  BY <1>4 DEF Min

LEMMA LeastPower ==
  ASSUME NEW n \in Nat, NEW k \in Nat \ {0}, n <= 16384 * k
  PROVE  Min({p \in Powers : k * p >= n}) \in Powers
<1> DEFINE S == {p \in Powers : k * p >= n}
<1>1. 16384 \in Powers
  BY DEF Powers
<1>2. k * 16384 >= n
  OBVIOUS
<1>3. S # {}
  BY <1>1, <1>2
<1>4. Powers \in SUBSET Nat
  BY DEF Powers
<1>5. S \in SUBSET Powers
  OBVIOUS
<1> HIDE DEF S
<1>6. S \in SUBSET Nat
  BY <1>4, <1>5
<1>7. Min(S) \in S
  BY <1>3, <1>6, LeastNumber
<1>8. Min(S) \in Powers
  BY <1>5, <1>7
<1> QED
  BY <1>8 DEF S

\* A factor that a reader can use: for JPEG2000 it must have a power above it.
IsFactor(n, j) == n \in Nat \ {0} /\ (j => n <= 16384)

LEMMA PowersAreFactors ==
  ASSUME NEW p \in Powers, NEW j
  PROVE  IsFactor(p, j)
BY DEF Powers, IsFactor

LEMMA PowerBelowIsFactor ==
  ASSUME NEW n \in Nat, n <= 32768, NEW j
  PROVE  IsFactor(PowerBelow(n), j)
<1> DEFINE k == 2
<1>1. k \in Nat \ {0} /\ n <= 16384 * k
  OBVIOUS
<1>2. PowerBelow(n) = Min({p \in Powers : k * p >= n})
  BY DEF PowerBelow
<1> HIDE DEF k
<1>3. PowerBelow(n) \in Powers
  BY <1>1, <1>2, LeastPower
<1> QED
  BY <1>3, PowersAreFactors

LEMMA FactorIsFactor ==
  ASSUME NEW n \in Nat \ {0}, NEW i \in Nat \ {0}, i <= 32768, NEW j \in BOOLEAN
  PROVE  IsFactor(Factor(n, i, j), j)
<1>1. CASE n > i
  BY <1>1 DEF Factor, IsFactor
<1>2. CASE ~(n > i)
  <2> DEFINE q == i \div n
  <2>1. q \in Nat /\ q * n <= i /\ i < q * n + n
    BY Quotient
  <2>2. Factor(n, i, j) = IF j THEN PowerBelow(q) ELSE q
    BY <1>2 DEF Factor
  <2> HIDE DEF q
  <2>3. q # 0
    BY <1>2, <2>1
  <2>4. q <= q * n
    BY <2>1
  <2>5. q <= 32768
    BY <2>1, <2>4
  <2> QED
    BY <2>1, <2>2, <2>3, <2>5, PowerBelowIsFactor DEF IsFactor
<1> QED
  BY <1>1, <1>2

LEMMA MaxdimSides ==
  ASSUME NEW z, Proper(z), z.type = "MAXDIM", NEW w \in Nat \ {0}, NEW h \in Nat \ {0}, NEW m, NEW j, NEW lim
  PROVE  GetSize(z, w, h, m, j, lim).w \in Nat \ {0} /\ GetSize(z, w, h, m, j, lim).h \in Nat \ {0}
<1> DEFINE o == GetSize(z, w, h, m, j, lim)
           nx == z.nx
           ny == z.ny
<1>1. nx \in Nat \ {0} /\ ny \in Nat \ {0}
  BY ProperNumbers
<1>2. /\ o.w = IF nx * h < ny * w THEN nx ELSE CeilDiv(w * ny, h)
      /\ o.h = IF nx * h < ny * w THEN CeilDiv(h * nx, w) ELSE ny
  BY MaxdimSize
<1> HIDE DEF o, nx, ny
<1>3. CeilDiv(w * ny, h) \in Nat \ {0}
  BY <1>1, DerivedSide
<1>4. CeilDiv(h * nx, w) \in Nat \ {0}
  BY <1>1, DerivedSide
<1>5. o.w \in Nat \ {0} /\ o.h \in Nat \ {0}
  BY <1>1, <1>2, <1>3, <1>4
<1> QED
  BY <1>5 DEF o

LEMMA SmallerIsFactor ==
  ASSUME NEW a, NEW b, NEW j, IsFactor(a, j), IsFactor(b, j)
  PROVE  IsFactor(Smaller(a, b), j)
BY DEF Smaller

LEMMA ReduceIsFactor ==
  ASSUME NEW z, Proper(z), NEW w \in Nat \ {0}, NEW h \in Nat \ {0}, w <= 32768, h <= 32768,
         NEW m, NEW j \in BOOLEAN, NEW lim
  PROVE  IsFactor(GetSize(z, w, h, m, j, lim).reduce, j)
<1> DEFINE o == GetSize(z, w, h, m, j, lim)
<1>2. CASE z.type = "FULL"
  BY <1>2 DEF GetSize, SizeFull, Outcome, IsFactor
<1>3. CASE z.type = "PERCENTS"
  <2> DEFINE q == 100 \div z.percent
             f == IF q < 1 THEN 1 ELSE q
  <2>1. z.percent \in Nat \ {0}
    BY <1>3, ProperNumbers
  <2>2. q \in Nat /\ q <= 100
    BY <2>1
  <2>3. o.reduce = IF j THEN PowerBelow(f) ELSE f
    BY <1>3, PercentSize
  <2> HIDE DEF q, o
  <2>4. f \in Nat \ {0} /\ f <= 100
    BY <2>2
  <2> HIDE DEF f
  <2>5. IsFactor(f, j) /\ IsFactor(PowerBelow(f), j)
    BY <2>4, PowerBelowIsFactor DEF IsFactor
  <2> QED
    BY <2>3, <2>5 DEF o
<1>4. CASE z.type = "PIXELS_X"
  <2>1. z.nx \in Nat \ {0}
    BY <1>4, ProperNumbers
  <2> QED
    BY <1>4, <2>1, PixelsXSize, FactorIsFactor
<1>5. CASE z.type = "PIXELS_Y"
  <2>1. z.ny \in Nat \ {0}
    BY <1>5, ProperNumbers
  <2> QED
    BY <1>5, <2>1, PixelsYSize, FactorIsFactor
<1>6. CASE z.type = "PIXELS_XY"
  <2>1. z.nx \in Nat \ {0} /\ z.ny \in Nat \ {0}
    BY <1>6, ProperNumbers
  <2>2. IsFactor(Factor(z.nx, w, j), j) /\ IsFactor(Factor(z.ny, h, j), j)
    BY <2>1, FactorIsFactor
  <2> QED
    BY <1>6, <2>2, PixelsXYSize, SmallerIsFactor
<1>7. CASE z.type = "MAXDIM"
  <2> DEFINE f == IF w \div o.w < 1 THEN 1 ELSE w \div o.w
             g == IF h \div o.h < 1 THEN 1 ELSE h \div o.h
  <2>1. o.w \in Nat \ {0} /\ o.h \in Nat \ {0}
    BY <1>7, MaxdimSides
  <2>2. o.reduce = Smaller(IF j THEN PowerBelow(f) ELSE f, IF j THEN PowerBelow(g) ELSE g)
    BY <1>7, MaxdimSize
  <2>3. ASSUME NEW a \in Nat \ {0}, a <= 32768, NEW b \in Nat \ {0}
        PROVE  LET q == IF a \div b < 1 THEN 1 ELSE a \div b IN q \in Nat \ {0} /\ q <= 32768
    <3>1. a \div b \in Nat /\ (a \div b) * b <= a
      BY Quotient
    <3> DEFINE q == a \div b
    <3>2. q \in Nat /\ q * b <= a
      BY <3>1
    <3> HIDE DEF q
    <3>3. q <= q * b
      BY <3>2
    <3>4. q <= 32768
      BY <2>3, <3>2, <3>3
    <3> QED
      BY <3>2, <3>4 DEF q
  <2>4. f \in Nat \ {0} /\ f <= 32768
    BY <2>1, <2>3
  <2>5. g \in Nat \ {0} /\ g <= 32768
    BY <2>1, <2>3
  <2> HIDE DEF f, g, o
  <2>6. IsFactor(f, FALSE) /\ IsFactor(PowerBelow(f), j) /\ IsFactor(g, FALSE) /\ IsFactor(PowerBelow(g), j)
    BY <2>4, <2>5, PowerBelowIsFactor DEF IsFactor
  <2>7. IsFactor(IF j THEN PowerBelow(f) ELSE f, j) /\ IsFactor(IF j THEN PowerBelow(g) ELSE g, j)
    BY <2>6 DEF IsFactor
  <2> QED
    BY <2>2, <2>7, SmallerIsFactor DEF o
<1> QED
  BY <1>2, <1>3, <1>4, <1>5, <1>6, <1>7 DEF Proper

-----------------------------------------------------------------------------
(* What the readers deliver.                                               *)

\* The rectangle is inside of the level.
InLevel(p) ==
  /\ p.by \in Nat \ {0}
  /\ p.x \in Nat /\ p.w \in Nat /\ p.x + p.w <= LevelSide(file.nx, p.by)
  /\ p.y \in Nat /\ p.h \in Nat /\ p.y + p.h <= LevelSide(file.ny, p.by)
  /\ p.pixels = "undefined" \/ (p.w > 0 /\ p.h > 0)

\* The extent is what the size means, where it is known to be.
SizeOf2(r, z, j) == GetSize(z, NamedArea(r).w, NamedArea(r).h, 1, j, Limits)
KnownExtent(r, z) ==
  /\ ~(file.fmt = "jp2" /\ ~AsItIs(z) /\ SizeOf2(r, z, TRUE).redonly)
  /\ ~(Pyramid /\ z.type = "PERCENTS")
  /\ ~(z.type = "FULL" /\ z.up /\ Limits.w > 0)

Extended(r, z, p) ==
  KnownExtent(r, z) =>
    /\ p.nx \in Nat \ {0} /\ p.ny \in Nat \ {0}
    /\ IF Pyramid THEN MeansExtent(z, p.w, p.h, p.nx, p.ny)
       ELSE MeansExtent(z, NamedArea(r).w, NamedArea(r).h, p.nx, p.ny)

\* The rectangle is where the region is, as far as the level can tell.
Placed(r, z, p) ==
  LET within == IF p.by = 1 THEN 1 ELSE 2 * p.by
  IN  \/ Pyramid /\ r.type = "COORDS" /\ SizeOf2(r, z, FALSE).reduce # p.by
      \/ /\ Near(p.x * p.by, NamedArea(r).x, within)
         /\ Near(p.y * p.by, NamedArea(r).y, within)

Delivered(r, z, p) == InLevel(p) /\ Extended(r, z, p) /\ Placed(r, z, p)

LEMMA RefusedErrors == Refused("iiif").err # "none" /\ Refused("size").err # "none" /\ Refused("image").err # "none"
BY DEF Refused, Plan

LEMMA PlanFields ==
  ASSUME NEW c, NEW by, NEW nx, NEW ny, NEW pixels
  PROVE  LET p == Plan("none", c, by, nx, ny, pixels)
         IN  /\ p.err = "none" /\ p.x = c.x /\ p.y = c.y /\ p.w = c.w /\ p.h = c.h
             /\ p.by = by /\ p.nx = nx /\ p.ny = ny /\ p.pixels = pixels
BY DEF Plan

LEMMA WholeLevel ==
  ASSUME NEW n \in Nat
  PROVE  LevelSide(n, 1) = n
<1>1. CeilDiv(8, 1) = 8
  BY DEF CeilDiv
<1>2. CeilDiv(n * 8, 8) = n
  BY DEF CeilDiv
<1>3. DecodedExtent(n, 1) = n
  BY <1>1, <1>2 DEF DecodedExtent
<1> QED
  BY <1>3, CeilDivOne DEF LevelSide

\* The rectangle of the image that a reader starts from.
Region(r) == CropCoords(r, 1, file.nx, file.ny)

LEMMA RegionFacts ==
  ASSUME NEW r, NEW z, Readable(r, z), ~Region(r).err
  PROVE  /\ Inside(Region(r), file.nx, file.ny)
         /\ Same(Region(r), NamedArea(r))
         /\ Area(r, 1, file.nx, file.ny) = Region(r)
<1>1. file.nx \in Nat \ {0} /\ file.ny \in Nat \ {0}
  BY MasterSides DEF Readable
<1>2. FittingCorner(Corner(r, 1, file.nx, file.ny)) /\ Parsed(r) /\ file \in Masters
  BY DEF Readable
<1>3. Inside(Region(r), file.nx, file.ny)
  BY <1>1, <1>2, CropCoordsInside DEF Region
<1>4. Same(Region(r), NamedArea(r))
  BY <1>2, CropIsNamed DEF Region
<1>5. Area(r, 1, file.nx, file.ny) = Region(r)
  BY <1>1, <1>2, AreaIsCrop DEF Region
<1> QED
  BY <1>3, <1>4, <1>5

LEMMA AreaIsRegion ==
  ASSUME NEW r, NEW z, Readable(r, z)
  PROVE  Area(r, 1, file.nx, file.ny) = Region(r)
<1>1. file.nx \in Nat \ {0} /\ file.ny \in Nat \ {0}
  BY MasterSides DEF Readable
<1> QED
  BY <1>1, AreaIsCrop DEF Region, Readable

\* The extent is had of the rectangle of the region.
LEMMA ExtentOfRegion ==
  ASSUME NEW r, NEW z, Readable(r, z), ~Region(r).err, ~Pyramid, NEW p, NEW m, NEW j \in BOOLEAN,
         KnownExtent(r, z) =>
           /\ ExtentIsKnown(z, Region(r).w, Region(r).h, m, j, Limits)
           /\ p.nx = GetSize(z, Region(r).w, Region(r).h, m, j, Limits).w
           /\ p.ny = GetSize(z, Region(r).w, Region(r).h, m, j, Limits).h
  PROVE  Extended(r, z, p)
<1> DEFINE c == Region(r)
           n == NamedArea(r)
           o == GetSize(z, c.w, c.h, m, j, Limits)
<1>1. Inside(c, file.nx, file.ny) /\ Same(c, n) /\ Proper(z)
  BY RegionFacts DEF Readable
<1>2. ASSUME KnownExtent(r, z)
      PROVE  /\ p.nx \in Nat \ {0} /\ p.ny \in Nat \ {0}
             /\ MeansExtent(z, n.w, n.h, p.nx, p.ny)
  <2>1. p.nx = o.w /\ p.ny = o.h /\ ExtentIsKnown(z, c.w, c.h, m, j, Limits)
    BY <1>2
  <2> HIDE DEF c, n
  <2>2. Meant(z, c.w, c.h, o)
    BY <1>1, <2>1, GetSizeMeant DEF Inside
  <2> HIDE DEF o
  <2> QED
    BY <1>1, <2>1, <2>2 DEF Meant, Same
<1> QED
  BY <1>2 DEF Extended

\* Of the image itself the rectangle of the region is delivered.
LEMMA DeliveredWhole ==
  ASSUME NEW r, NEW z, Readable(r, z), ~Region(r).err, ~Pyramid, NEW p,
         Same(p, Region(r)), p.by = 1, NEW m,
         KnownExtent(r, z) => /\ p.nx = GetSize(z, Region(r).w, Region(r).h, m, FALSE, Limits).w
                              /\ p.ny = GetSize(z, Region(r).w, Region(r).h, m, FALSE, Limits).h
  PROVE  Delivered(r, z, p)
<1> DEFINE c == Region(r)
           n == NamedArea(r)
           j == FALSE
<1>1. Inside(c, file.nx, file.ny) /\ Same(c, n)
  BY RegionFacts
<1>2. file.nx \in Nat \ {0} /\ file.ny \in Nat \ {0} /\ Proper(z)
  BY MasterSides DEF Readable
<1>3. LevelSide(file.nx, 1) = file.nx /\ LevelSide(file.ny, 1) = file.ny
  BY <1>2, WholeLevel
<1>4. Same(p, c) /\ p.by = 1
  OBVIOUS
<1>5. KnownExtent(r, z) => /\ ExtentIsKnown(z, c.w, c.h, m, j, Limits)
                           /\ p.nx = GetSize(z, c.w, c.h, m, j, Limits).w
                           /\ p.ny = GetSize(z, c.w, c.h, m, j, Limits).h
  <2>1. KnownExtent(r, z) => ExtentIsKnown(z, c.w, c.h, m, j, Limits)
    <3> HIDE DEF c
    <3> QED
      BY <1>2, LimitsAssumption DEF ExtentIsKnown, KnownExtent, Proper, IsSize
  <2> QED
    BY <2>1
<1>6. j \in BOOLEAN
  OBVIOUS
<1> HIDE DEF j
<1>7. Extended(r, z, p)
  BY <1>5, <1>6, ExtentOfRegion
<1> HIDE DEF c, n
<1>8. InLevel(p)
  BY <1>1, <1>3, <1>4 DEF InLevel, Inside, Same
<1>9. p.x * p.by = n.x /\ p.y * p.by = n.y /\ n.x \in Nat /\ n.y \in Nat
  BY <1>1, <1>4 DEF Same, Inside
<1>10. Near(p.x * p.by, n.x, 1) /\ Near(p.y * p.by, n.y, 1)
  BY <1>9 DEF Near
<1>11. Placed(r, z, p)
  BY <1>4, <1>10 DEF Placed, n
<1> QED
  BY <1>7, <1>8, <1>11 DEF Delivered

LEMMA KnownFull ==
  ASSUME NEW r, NEW z, KnownExtent(r, z), z.type = "FULL", NEW w, NEW h, NEW m, NEW j
  PROVE  /\ GetSize(z, w, h, m, j, Limits).w = w
         /\ GetSize(z, w, h, m, j, Limits).h = h
         /\ GetSize(z, w, h, m, j, Limits).reduce = 1
<1>1. ~z.up \/ Limits.w = 0
  BY LimitsAssumption DEF KnownExtent
<1> QED
  BY <1>1, FullSize

LEMMA PngDelivers ==
  ASSUME NEW r, NEW z, Readable(r, z), file.fmt = "png", NEW quality,
         ReadPng(file, r, z, Limits, quality).err = "none"
  PROVE  Delivered(r, z, ReadPng(file, r, z, Limits, quality))
<1> DEFINE c == Area(r, 1, file.nx, file.ny)
           o == GetSize(z, c.w, c.h, 0, FALSE, Limits)
           p == ReadPng(file, r, z, Limits, quality)
           px == IF ReduceUndefined(o.reduce) THEN "undefined" ELSE Pixels(c, o.w, o.h, quality)
<1>1. p = IF c.err THEN Refused("iiif")
          ELSE IF z.type = "NONE" THEN Plan("none", c, 1, c.w, c.h, "asked")
          ELSE IF o.err THEN Refused("size")
          ELSE IF z.type = "FULL" /\ o.redonly THEN Plan("none", c, 1, c.w, c.h, "asked")
          ELSE Plan("none", c, 1, o.w, o.h, px)
  BY DEF ReadPng, SizedIn
<1>2. z.type # "NONE" /\ ~Pyramid
  BY DEF Readable, Proper, Pyramid
<1>3. p.err = "none"
  OBVIOUS
<1>4. c = Region(r)
  BY AreaIsRegion
<1>5. ASSUME KnownExtent(r, z), z.type = "FULL"
      PROVE  o.w = c.w /\ o.h = c.h
  <2> DEFINE m == 0
             j == FALSE
  <2> HIDE DEF c, m, j
  <2>1. GetSize(z, c.w, c.h, m, j, Limits).w = c.w /\ GetSize(z, c.w, c.h, m, j, Limits).h = c.h
    BY <1>5, KnownFull
  <2> QED
    BY <2>1 DEF m, j
<1> HIDE DEF c, o, p, px
<1>6. /\ ~c.err
      /\ \/ p = Plan("none", c, 1, c.w, c.h, "asked") /\ z.type = "FULL"
         \/ p = Plan("none", c, 1, o.w, o.h, px)
  BY <1>1, <1>2, <1>3, RefusedErrors
<1>7. Same(p, c) /\ p.by = 1 /\ (KnownExtent(r, z) => p.nx = o.w /\ p.ny = o.h)
  <2>1. CASE p = Plan("none", c, 1, c.w, c.h, "asked") /\ z.type = "FULL"
    BY <1>5, <2>1, PlanFields DEF Same
  <2>2. CASE p = Plan("none", c, 1, o.w, o.h, px)
    BY <2>2, PlanFields DEF Same
  <2> QED
    BY <1>6, <2>1, <2>2
<1>8. ~Region(r).err /\ Same(p, Region(r))
  BY <1>4, <1>6, <1>7
<1>9. KnownExtent(r, z) => /\ p.nx = GetSize(z, Region(r).w, Region(r).h, 0, FALSE, Limits).w
                           /\ p.ny = GetSize(z, Region(r).w, Region(r).h, 0, FALSE, Limits).h
  BY <1>4, <1>7 DEF o
<1>10. Delivered(r, z, p)
  BY <1>2, <1>7, <1>8, <1>9, DeliveredWhole
<1> QED
  BY <1>10 DEF p

LEMMA DecodedPositive ==
  ASSUME NEW n \in Nat \ {0}, NEW by \in Nat \ {0}
  PROVE  DecodedExtent(n, by) \in Nat \ {0}
<1> DEFINE e == CeilDiv(8, by)
           a == n * e
           c == 8
<1>1. c \in Nat \ {0}
  OBVIOUS
<1> HIDE DEF c
<1>2. CeilDiv(c, by) \in Nat \ {0}
  BY <1>1, CeilDivPositive
<1>3. e \in Nat \ {0}
  BY <1>2 DEF c
<1> HIDE DEF e
<1>4. a \in Nat \ {0}
  BY <1>3
<1> HIDE DEF a
<1>5. CeilDiv(a, c) \in Nat \ {0}
  BY <1>1, <1>4, CeilDivPositive
<1> QED
  BY <1>5 DEF DecodedExtent, a, e, c

LEMMA JpegDelivers ==
  ASSUME NEW r, NEW z, Readable(r, z), file.fmt = "jpg", NEW quality,
         ReadJpeg(file, r, z, Limits, quality).err = "none"
  PROVE  Delivered(r, z, ReadJpeg(file, r, z, Limits, quality))
<1> DEFINE c == Area(r, 1, file.nx, file.ny)
           o == GetSize(z, c.w, c.h, 0, FALSE, Limits)
           p == ReadJpeg(file, r, z, Limits, quality)
           whole == r.type = "FULL"
           e == IF whole THEN o.reduce ELSE 1
           d == [c EXCEPT !.w = DecodedExtent(@, o.reduce), !.h = DecodedExtent(@, o.reduce)]
<1>1. p = IF c.err THEN Refused("iiif")
          ELSE IF ~whole /\ z.type = "NONE" THEN Plan("none", c, 1, c.w, c.h, "undefined")
          ELSE IF o.err /\ (~whole \/ ~AsItIs(z)) THEN Refused("size")
          ELSE IF AsItIs(z) THEN Plan("none", c, 1, c.w, c.h, "asked")
          ELSE IF ~whole THEN Plan("none", c, e, o.w, o.h, Pixels(c, o.w, o.h, quality))
          ELSE Plan("none", d, e, o.w, o.h, Pixels(d, o.w, o.h, quality))
  BY DEF ReadJpeg, SizedIn
<1>2. z.type # "NONE" /\ ~Pyramid /\ (AsItIs(z) => z.type = "FULL")
  BY DEF Readable, Proper, Pyramid, AsItIs
<1>3. p.err = "none"
  OBVIOUS
<1>4. c = Region(r)
  BY AreaIsRegion
<1>5. ASSUME KnownExtent(r, z), z.type = "FULL"
      PROVE  o.w = c.w /\ o.h = c.h
  <2> DEFINE m == 0
             j == FALSE
  <2> HIDE DEF c, m, j
  <2>1. GetSize(z, c.w, c.h, m, j, Limits).w = c.w /\ GetSize(z, c.w, c.h, m, j, Limits).h = c.h
    BY <1>5, KnownFull
  <2> QED
    BY <2>1 DEF m, j
<1>6. r.type = "FULL" => c = [err |-> FALSE, x |-> 0, y |-> 0, w |-> file.nx, h |-> file.ny]
  BY DEF Area
<1>7. KnownExtent(r, z) => ExtentIsKnown(z, c.w, c.h, 0, FALSE, Limits)
  <2> HIDE DEF c
  <2> QED
    BY LimitsAssumption DEF ExtentIsKnown, KnownExtent, Readable, Proper, IsSize
<1>8. c.w \in Nat \ {0} /\ c.h \in Nat \ {0} /\ c.w <= LargestSide /\ c.h <= LargestSide => IsFactor(o.reduce, FALSE)
  <2> DEFINE m == 0
             j == FALSE
  <2>1. j \in BOOLEAN
    OBVIOUS
  <2> HIDE DEF c, m, j
  <2>2. c.w \in Nat \ {0} /\ c.h \in Nat \ {0} /\ c.w <= LargestSide /\ c.h <= LargestSide
        => IsFactor(GetSize(z, c.w, c.h, m, j, Limits).reduce, j)
    BY <2>1, ReduceIsFactor DEF Readable, LargestSide
  <2> QED
    BY <2>2 DEF m, j
<1> HIDE DEF c
<1>9. /\ ~c.err
      /\ \/ p = Plan("none", c, 1, c.w, c.h, "asked") /\ z.type = "FULL"
         \/ p = Plan("none", c, 1, o.w, o.h, Pixels(c, o.w, o.h, quality))
         \/ p = Plan("none", d, o.reduce, o.w, o.h, Pixels(d, o.w, o.h, quality)) /\ whole
  <2>1. (whole => e = o.reduce) /\ (~whole => e = 1)
    OBVIOUS
  <2> HIDE DEF o, p, d, e, whole
  <2>2. CASE whole
    BY <1>1, <1>2, <1>3, <2>1, <2>2, RefusedErrors
  <2>3. CASE ~whole
    <3>1. /\ ~c.err
          /\ p = IF AsItIs(z) THEN Plan("none", c, 1, c.w, c.h, "asked")
                 ELSE Plan("none", c, e, o.w, o.h, Pixels(c, o.w, o.h, quality))
      BY <1>1, <1>2, <1>3, <2>3, RefusedErrors
    <3> QED
      BY <1>2, <2>1, <2>3, <3>1
  <2> QED
    BY <2>2, <2>3
<1> HIDE DEF p
<1>10. ~Region(r).err
  BY <1>4, <1>9
<1>11. CASE \/ p = Plan("none", c, 1, c.w, c.h, "asked") /\ z.type = "FULL"
            \/ p = Plan("none", c, 1, o.w, o.h, Pixels(c, o.w, o.h, quality))
  <2> HIDE DEF o
  <2>1. Same(p, c) /\ p.by = 1 /\ (KnownExtent(r, z) => p.nx = o.w /\ p.ny = o.h)
    BY <1>5, <1>11, PlanFields DEF Same
  <2>2. KnownExtent(r, z) => /\ p.nx = GetSize(z, Region(r).w, Region(r).h, 0, FALSE, Limits).w
                             /\ p.ny = GetSize(z, Region(r).w, Region(r).h, 0, FALSE, Limits).h
    BY <1>4, <2>1 DEF o
  <2>3. Delivered(r, z, p)
    BY <1>2, <1>4, <1>10, <2>1, <2>2, DeliveredWhole
  <2> QED
    BY <2>3 DEF p
<1>12. CASE p = Plan("none", d, o.reduce, o.w, o.h, Pixels(d, o.w, o.h, quality)) /\ whole
  <2>1. file.nx \in Nat \ {0} /\ file.ny \in Nat \ {0} /\ file.nx <= LargestSide /\ file.ny <= LargestSide
    BY MasterSides DEF Readable
  <2>2. c = [err |-> FALSE, x |-> 0, y |-> 0, w |-> file.nx, h |-> file.ny]
    BY <1>6, <1>12
  <2>3. IsFactor(o.reduce, FALSE)
    BY <1>8, <2>1, <2>2
  <2> DEFINE by == o.reduce
  <2>4. by \in Nat \ {0}
    <3> HIDE DEF o
    <3> QED
      BY <2>3 DEF IsFactor
  <2>5. d.x = 0 /\ d.y = 0 /\ d.w = DecodedExtent(file.nx, by) /\ d.h = DecodedExtent(file.ny, by)
    BY <2>2
  <2> HIDE DEF by
  <2>6. DecodedExtent(file.nx, by) \in Nat \ {0} /\ DecodedExtent(file.ny, by) \in Nat \ {0}
    BY <2>1, <2>4, DecodedPositive
  <2> HIDE DEF d
  <2>7. p.x = d.x /\ p.y = d.y /\ p.w = d.w /\ p.h = d.h /\ p.by = by /\ p.nx = o.w /\ p.ny = o.h
    <3> HIDE DEF o
    <3> QED
      BY <1>12, PlanFields DEF by
  <2>8. InLevel(p)
    BY <2>4, <2>5, <2>6, <2>7 DEF InLevel, LevelSide
  <2>9. NamedArea(r).x = 0 /\ NamedArea(r).y = 0
    BY <1>12, NamedFull DEF Readable
  <2>10. Placed(r, z, p)
    <3> HIDE DEF o
    <3>1. p.x * p.by = 0 /\ p.y * p.by = 0 /\ p.by \in Nat \ {0}
      BY <2>4, <2>5, <2>7
    <3>2. Near(p.x * p.by, NamedArea(r).x, 1) /\ Near(p.y * p.by, NamedArea(r).y, 1)
      BY <2>9, <3>1 DEF Near
    <3>3. Near(p.x * p.by, NamedArea(r).x, 2 * p.by) /\ Near(p.y * p.by, NamedArea(r).y, 2 * p.by)
      BY <2>9, <3>1 DEF Near
    <3> QED
      BY <3>2, <3>3 DEF Placed
  <2>11. Extended(r, z, p)
    <3> DEFINE m == 0
               j == FALSE
    <3>1. j \in BOOLEAN
      OBVIOUS
    <3>2. KnownExtent(r, z) => /\ ExtentIsKnown(z, Region(r).w, Region(r).h, m, j, Limits)
                               /\ p.nx = GetSize(z, Region(r).w, Region(r).h, m, j, Limits).w
                               /\ p.ny = GetSize(z, Region(r).w, Region(r).h, m, j, Limits).h
      BY <1>4, <1>7, <2>7
    <3> HIDE DEF m, j
    <3> QED
      BY <1>2, <1>10, <3>1, <3>2, ExtentOfRegion
  <2>12. Delivered(r, z, p)
    BY <2>8, <2>10, <2>11 DEF Delivered
  <2> QED
    BY <2>12 DEF p
<1> QED
  BY <1>9, <1>11, <1>12

\* A multiple that a coordinate is rounded up to is near it.
LEMMA CeilDivNear ==
  ASSUME NEW a \in Nat, NEW b \in Nat \ {0}
  PROVE  Near(CeilDiv(a, b) * b, a, IF b = 1 THEN 1 ELSE 2 * b)
<1> DEFINE q == CeilDiv(a, b)
<1>1. q \in Nat /\ a <= q * b /\ q * b < a + b
  BY CeilDivBounds
<1> HIDE DEF q
<1> DEFINE s == q * b
<1>2. s \in Nat /\ a <= s /\ s < a + b
  BY <1>1
<1>3. b = 1 => s = a
  BY <1>2
<1> HIDE DEF s
<1>4. Near(s, a, IF b = 1 THEN 1 ELSE 2 * b)
  BY <1>2, <1>3 DEF Near
<1> QED
  BY <1>4 DEF s, q

\* What is left of an extent when both of its ends are reduced.
LEMMA DroppedInside ==
  ASSUME NEW c, NEW nx \in Nat, NEW ny \in Nat, Inside(c, nx, ny), NEW by \in Nat \ {0}
  PROVE  LET d == Dropped(c, by)
         IN  /\ d.x = CeilDiv(c.x, by) /\ d.x \in Nat /\ d.w \in Nat /\ d.x + d.w <= CeilDiv(nx, by)
             /\ d.y = CeilDiv(c.y, by) /\ d.y \in Nat /\ d.h \in Nat /\ d.y + d.h <= CeilDiv(ny, by)
<1> DEFINE d == Dropped(c, by)
<1>1. /\ d.x = CeilDiv(c.x, by) /\ d.w = CeilDiv(c.x + c.w, by) - CeilDiv(c.x, by)
      /\ d.y = CeilDiv(c.y, by) /\ d.h = CeilDiv(c.y + c.h, by) - CeilDiv(c.y, by)
  BY DEF Dropped
<1> HIDE DEF d
<1>2. ASSUME NEW x \in Nat, NEW w \in Nat, NEW n \in Nat, x + w <= n
      PROVE  /\ CeilDiv(x, by) \in Nat /\ CeilDiv(x + w, by) - CeilDiv(x, by) \in Nat
             /\ CeilDiv(x, by) + (CeilDiv(x + w, by) - CeilDiv(x, by)) <= CeilDiv(n, by)
  <2> DEFINE s == x + w
  <2>1. s \in Nat /\ x <= s /\ s <= n
    BY <1>2
  <2> HIDE DEF s
  <2>2. CeilDiv(x, by) <= CeilDiv(s, by) /\ CeilDiv(s, by) <= CeilDiv(n, by)
    BY <2>1, CeilDivMonotone
  <2>3. CeilDiv(x, by) \in Nat /\ CeilDiv(s, by) \in Nat /\ CeilDiv(n, by) \in Nat
    BY <2>1, CeilDivBounds
  <2>4. /\ CeilDiv(x, by) \in Nat /\ CeilDiv(s, by) - CeilDiv(x, by) \in Nat
        /\ CeilDiv(x, by) + (CeilDiv(s, by) - CeilDiv(x, by)) <= CeilDiv(n, by)
    BY <2>2, <2>3
  <2> QED
    BY <2>4 DEF s
<1>3. d.x \in Nat /\ d.w \in Nat /\ d.x + d.w <= CeilDiv(nx, by)
  BY <1>1, <1>2 DEF Inside
<1>4. d.y \in Nat /\ d.h \in Nat /\ d.y + d.h <= CeilDiv(ny, by)
  BY <1>1, <1>2 DEF Inside
<1> QED
  BY <1>1, <1>3, <1>4 DEF d

LEMMA J2kDelivers ==
  ASSUME NEW r, NEW z, Readable(r, z), file.fmt = "jp2", NEW quality,
         ReadJ2k(file, r, z, Limits, quality).err = "none"
  PROVE  Delivered(r, z, ReadJ2k(file, r, z, Limits, quality))
<1> DEFINE c == Area(r, 1, file.nx, file.ny)
           m == Len(file.levels)
           j == TRUE
           o == GetSize(z, c.w, c.h, m, j, Limits)
           p == ReadJ2k(file, r, z, Limits, quality)
           by == Min({b \in Powers : b >= o.reduce})
           d == Dropped(c, by)
           q == Outcome(FALSE, c.w, c.h, 1, TRUE)
           deep == by > 2^m
           none == 1 > 2^m
<1>1. p = IF c.err THEN Refused("image")
          ELSE IF AsItIs(z)
               THEN IF none \/ c.w = 0 \/ c.h = 0 THEN Plan("none", c, 1, q.w, q.h, "undefined")
                    ELSE IF q.redonly THEN Plan("none", c, 1, c.w, c.h, "asked")
                    ELSE Plan("none", c, 1, q.w, q.h, Pixels(c, q.w, q.h, quality))
          ELSE IF o.err THEN Refused("size")
          ELSE IF deep \/ d.w = 0 \/ d.h = 0 THEN Plan("none", d, by, o.w, o.h, "undefined")
          ELSE IF o.redonly THEN Plan("none", d, by, d.w, d.h, "asked")
          ELSE Plan("none", d, by, o.w, o.h, Pixels(d, o.w, o.h, quality))
  BY Zenon DEF ReadJ2k, SizedIn
<1>2. q.w = c.w /\ q.h = c.h /\ q.redonly
  BY DEF Outcome
<1>3. p.err = "none"
  OBVIOUS
<1>4. c = Region(r)
  BY AreaIsRegion
<1>5. ~Pyramid /\ (AsItIs(z) <=> z.type = "FULL")
  BY DEF Readable, Proper, Pyramid, AsItIs
<1>6. j \in BOOLEAN
  OBVIOUS
<1>7. o.redonly \in BOOLEAN => o.redonly = o.redonly
  OBVIOUS
<1> HIDE DEF c, m, j, p, q, deep, none
<1>8. /\ ~c.err
      /\ AsItIs(z) => \E px : p = Plan("none", c, 1, c.w, c.h, px)
      /\ ~AsItIs(z) => \/ \E px : p = Plan("none", d, by, o.w, o.h, px) /\ (px = "undefined" \/ (d.w # 0 /\ d.h # 0))
                       \/ p = Plan("none", d, by, d.w, d.h, "asked") /\ d.w # 0 /\ d.h # 0 /\ o.redonly
  <2> HIDE DEF o, by, d
  <2>1. ~c.err
    BY <1>1, <1>3, RefusedErrors
  <2>2. ASSUME AsItIs(z) PROVE \E px : p = Plan("none", c, 1, c.w, c.h, px)
    BY <1>1, <1>2, <2>1, <2>2
  <2>3. ASSUME ~AsItIs(z)
        PROVE  \/ \E px : p = Plan("none", d, by, o.w, o.h, px) /\ (px = "undefined" \/ (d.w # 0 /\ d.h # 0))
               \/ p = Plan("none", d, by, d.w, d.h, "asked") /\ d.w # 0 /\ d.h # 0 /\ o.redonly
    BY <1>1, <1>3, <2>1, <2>3, RefusedErrors
  <2> QED
    BY <2>1, <2>2, <2>3
<1>9. ~Region(r).err
  BY <1>4, <1>8
<1>10. CASE AsItIs(z)
  <2>1. Same(p, c) /\ p.by = 1 /\ p.nx = c.w /\ p.ny = c.h
    <3>1. PICK px : p = Plan("none", c, 1, c.w, c.h, px)
      BY <1>8, <1>10
    <3> QED
      BY <3>1, PlanFields DEF Same
  <2>2. KnownExtent(r, z) => /\ p.nx = GetSize(z, Region(r).w, Region(r).h, m, FALSE, Limits).w
                             /\ p.ny = GetSize(z, Region(r).w, Region(r).h, m, FALSE, Limits).h
    <3> DEFINE k == FALSE
    <3> HIDE DEF k
    <3>1. KnownExtent(r, z) => /\ GetSize(z, c.w, c.h, m, k, Limits).w = c.w
                               /\ GetSize(z, c.w, c.h, m, k, Limits).h = c.h
      BY <1>5, <1>10, KnownFull
    <3> QED
      BY <1>4, <2>1, <3>1 DEF k
  <2>3. Delivered(r, z, p)
    BY <1>4, <1>5, <1>9, <2>1, <2>2, DeliveredWhole
  <2> QED
    BY <2>3 DEF p
<1>11. CASE ~AsItIs(z)
  <2>1. file.nx \in Nat \ {0} /\ file.ny \in Nat \ {0} /\ file.nx <= LargestSide /\ file.ny <= LargestSide
    BY MasterSides DEF Readable
  <2>2. Inside(c, file.nx, file.ny) /\ Same(c, NamedArea(r))
    BY <1>4, <1>9, RegionFacts
  <2>3. c.w \in Nat \ {0} /\ c.h \in Nat \ {0} /\ c.w <= LargestSide /\ c.h <= LargestSide
    <3>1. LargestSide \in Nat
      BY DEF LargestSide
    <3> QED
      BY <2>1, <2>2, <3>1 DEF Inside
  <2>4. IsFactor(o.reduce, j)
    BY <1>6, <2>3, ReduceIsFactor DEF Readable, LargestSide
  <2>5. by \in Powers
    <3> DEFINE n == o.reduce
               k == 1
    <3> HIDE DEF o
    <3>1. n \in Nat /\ k \in Nat \ {0} /\ n <= 16384 * k
      BY <2>4 DEF IsFactor, j
    <3> HIDE DEF n
    <3>2. Min({b \in Powers : k * b >= n}) \in Powers
      <4> HIDE DEF k
      <4> QED
        BY <3>1, LeastPower
    <3>3. {b \in Powers : k * b >= n} = {b \in Powers : b >= n}
      BY DEF Powers
    <3> QED
      BY <3>2, <3>3 DEF n
  <2>6. by \in Nat \ {0}
    <3> HIDE DEF by
    <3> QED
      BY <2>5 DEF Powers
  <2> HIDE DEF by
  <2>7. /\ d.x = CeilDiv(c.x, by) /\ d.x \in Nat /\ d.w \in Nat /\ d.x + d.w <= CeilDiv(file.nx, by)
        /\ d.y = CeilDiv(c.y, by) /\ d.y \in Nat /\ d.h \in Nat /\ d.y + d.h <= CeilDiv(file.ny, by)
    BY <2>1, <2>2, <2>6, DroppedInside
  <2> HIDE DEF d
  <2>8. /\ Same(p, d) /\ p.by = by
        /\ p.pixels = "undefined" \/ (d.w # 0 /\ d.h # 0)
        /\ o.redonly \/ (p.nx = o.w /\ p.ny = o.h)
    <3> HIDE DEF o
    <3>1. CASE \E px : p = Plan("none", d, by, o.w, o.h, px) /\ (px = "undefined" \/ (d.w # 0 /\ d.h # 0))
      BY <3>1, PlanFields DEF Same
    <3>2. CASE p = Plan("none", d, by, d.w, d.h, "asked") /\ d.w # 0 /\ d.h # 0 /\ o.redonly
      BY <3>2, PlanFields DEF Same
    <3> QED
      BY <1>8, <1>11, <3>1, <3>2
  <2>9. InLevel(p)
    BY <2>6, <2>7, <2>8 DEF InLevel, LevelSide, Same
  <2>10. Placed(r, z, p)
    <3> DEFINE n == NamedArea(r)
    <3>1. n.x = c.x /\ n.y = c.y /\ c.x \in Nat /\ c.y \in Nat
      BY <2>2 DEF Same, Inside
    <3> HIDE DEF n
    <3>2. /\ Near(p.x * p.by, n.x, IF p.by = 1 THEN 1 ELSE 2 * p.by)
          /\ Near(p.y * p.by, n.y, IF p.by = 1 THEN 1 ELSE 2 * p.by)
      BY <2>6, <2>7, <2>8, <3>1, CeilDivNear DEF Same
    <3> QED
      BY <3>2 DEF Placed, n
  <2>11. Extended(r, z, p)
    <3>1. ASSUME KnownExtent(r, z) PROVE ~o.redonly
      <4>1. ~SizeOf2(r, z, TRUE).redonly
        BY <1>11, <3>1 DEF KnownExtent
      <4>2. z.type # "REDUCE"
        BY DEF Readable, Proper
      <4> DEFINE k == 1
      <4>3. SizeOf2(r, z, TRUE) = GetSize(z, c.w, c.h, k, j, Limits)
        BY <2>2 DEF SizeOf2, Same, j
      <4> HIDE DEF k
      <4>5. GetSize(z, c.w, c.h, k, j, Limits) = GetSize(z, c.w, c.h, m, j, Limits)
        BY <4>2, AnyFactor
      <4>4. SizeOf2(r, z, TRUE).redonly = o.redonly
        BY <4>3, <4>5
      <4> QED
        BY <4>1, <4>4
    <3>2. KnownExtent(r, z) => /\ ExtentIsKnown(z, Region(r).w, Region(r).h, m, j, Limits)
                               /\ p.nx = GetSize(z, Region(r).w, Region(r).h, m, j, Limits).w
                               /\ p.ny = GetSize(z, Region(r).w, Region(r).h, m, j, Limits).h
      BY <1>4, <1>5, <1>11, <2>8, <3>1 DEF ExtentIsKnown
    <3> QED
      BY <1>5, <1>6, <1>9, <3>2, ExtentOfRegion
  <2>12. Delivered(r, z, p)
    BY <2>9, <2>10, <2>11 DEF Delivered
  <2> QED
    BY <2>12 DEF p
<1> QED
  BY <1>10, <1>11

-----------------------------------------------------------------------------
(* The levels of a pyramid.                                                *)

LEMMA TiffLevels ==
  ASSUME file \in Masters, file.fmt = "tif"
  PROVE  /\ Len(file.levels) \in Nat \ {0} /\ DOMAIN file.levels = 1..Len(file.levels)
         /\ file.levels[1] = 1
         /\ \A i \in DOMAIN file.levels :
               file.levels[i] \in Nat \ {0} /\ file.levels[i] <= file.nx /\ file.levels[i] <= file.ny
<1> DEFINE s == file.levels
<1>1. /\ s \in Seq(Nat \ {0}) /\ s # <<>> /\ s[1] = 1
      /\ \A i \in DOMAIN s : s[i] <= Smaller(file.nx, file.ny)
  BY MastersAssumption
<1>2. file.nx \in Nat /\ file.ny \in Nat
  BY MasterSides
<1> HIDE DEF s
<1>3. Len(s) \in Nat \ {0} /\ DOMAIN s = 1..Len(s)
  BY <1>1
<1>4. ASSUME NEW i \in DOMAIN s PROVE s[i] \in Nat \ {0} /\ s[i] <= file.nx /\ s[i] <= file.ny
  <2>1. s[i] \in Nat \ {0}
    BY <1>1
  <2>2. s[i] <= Smaller(file.nx, file.ny)
    BY <1>1
  <2> DEFINE n == s[i]
  <2> HIDE DEF n
  <2>3. n \in Nat \ {0} /\ n <= Smaller(file.nx, file.ny)
    BY <2>1, <2>2 DEF n
  <2>4. n <= file.nx /\ n <= file.ny
    BY <1>2, <2>3 DEF Smaller
  <2> QED
    BY <2>3, <2>4 DEF n
<1> QED
  BY <1>1, <1>3, <1>4 DEF s

\* The factor of a level, had from the widths.
WidthFactor(by) == LRound(file.nx, CeilDiv(file.nx, by))

LEMMA WidthFactorOne ==
  ASSUME file \in Masters
  PROVE  WidthFactor(1) = 1
<1> DEFINE n == file.nx
           f == LRound(n, n)
<1>1. n \in Nat \ {0}
  BY MasterSides
<1>2. WidthFactor(1) = f
  BY <1>1, CeilDivOne DEF WidthFactor
<1> HIDE DEF n
<1>3. f \in Nat /\ 2 * f * n <= 2 * n + n /\ 2 * n < 2 * f * n + n
  BY <1>1, LRoundBounds
<1> HIDE DEF f
<1>4. f # 0
  BY <1>1, <1>3
<1>5. f < 2
  <2>1. ASSUME f >= 2 PROVE FALSE
    <3>1. 4 * n <= 2 * f * n
      BY <1>1, <1>3, <2>1
    <3> QED
      BY <1>1, <1>3, <3>1
  <2> QED
    BY <1>3, <2>1
<1> QED
  BY <1>2, <1>3, <1>4, <1>5

\* A level that is smaller than the image has a factor of two at least.
LEMMA SmallerLevel ==
  ASSUME NEW n \in Nat, NEW by \in Nat, 2 <= by, by <= n
  PROVE  LRound(n, CeilDiv(n, by)) >= 2
<1> DEFINE w == CeilDiv(n, by)
           k == 2
           h == CeilDiv(n, k)
<1>1. w \in Nat \ {0}
  BY CeilDivPositive
<1>2. k = 2
  OBVIOUS
<1> HIDE DEF k
<1>3. h \in Nat /\ n <= h * k /\ h * k < n + k
  BY <1>2, CeilDivBounds
<1> HIDE DEF h
<1>4. n <= h * by
  <2> DEFINE e == by - 2
  <2>1. e \in Nat /\ by = e + 2
    OBVIOUS
  <2> HIDE DEF e
  <2>2. h * e \in Nat /\ h * by = h * e + h * 2
    BY <1>3, <2>1
  <2> QED
    BY <1>2, <1>3, <2>2
<1>5. w <= h
  BY <1>3, <1>4, CeilDivLeast
<1> HIDE DEF w
<1>6. 2 * w <= n + 1
  BY <1>1, <1>2, <1>3, <1>5
<1> DEFINE f == LRound(n, w)
<1>7. f \in Nat /\ 2 * n < 2 * f * w + w
  BY <1>1, LRoundBounds
<1> HIDE DEF f
<1>8. ASSUME f < 2 PROVE FALSE
  <2>1. 2 * f * w <= 2 * w
    BY <1>1, <1>7, <1>8
  <2>2. 2 * n < 3 * w
    BY <1>1, <1>7, <2>1
  <2> QED
    BY <1>1, <1>6, <2>2
<1> QED
  BY <1>7, <1>8 DEF f, w

LEMMA LevelTaken ==
  ASSUME file \in Masters, file.fmt = "tif", NEW reduce \in Nat \ {0}
  PROVE  /\ Level(file, reduce) \in DOMAIN file.levels
         /\ WidthFactor(file.levels[Level(file, reduce)]) <= reduce
         /\ reduce = 1 => file.levels[Level(file, reduce)] = 1
<1> DEFINE s == file.levels
           over == {i \in DOMAIN s : WidthFactor(s[i]) > reduce}
           l == Level(file, reduce)
<1>1. l = IF over = {} THEN Len(s) ELSE Min(over) - 1
  BY DEF Level, WidthFactor
<1>2. /\ Len(s) \in Nat \ {0} /\ DOMAIN s = 1..Len(s) /\ s[1] = 1
      /\ \A i \in DOMAIN s : s[i] \in Nat \ {0} /\ s[i] <= file.nx
  BY TiffLevels
<1>3. 1 \notin over
  BY <1>2, WidthFactorOne
<1>4. over \in SUBSET (DOMAIN s)
  OBVIOUS
<1>5. over \in SUBSET Nat
  BY <1>2
<1>6. \A i \in DOMAIN s : i \notin over => ~(WidthFactor(s[i]) > reduce)
  OBVIOUS
<1>7. \A i \in DOMAIN s : WidthFactor(s[i]) \in Nat
  <2> SUFFICES ASSUME NEW i \in DOMAIN s PROVE WidthFactor(s[i]) \in Nat
    OBVIOUS
  <2>1. file.nx \in Nat \ {0} /\ s[i] \in Nat \ {0}
    BY <1>2, MasterSides
  <2> HIDE DEF s
  <2>2. CeilDiv(file.nx, s[i]) \in Nat \ {0}
    BY <2>1, CeilDivPositive
  <2> QED
    BY <2>1, <2>2, LRoundBounds DEF WidthFactor
<1> HIDE DEF over, l, s
<1>8. l \in DOMAIN s /\ l \notin over
  <2>1. CASE over = {}
    BY <1>1, <1>2, <2>1
  <2>2. CASE over # {}
    <3>1. Min(over) \in over /\ \A k \in over : Min(over) <= k
      BY <1>5, <2>2, LeastNumber
    <3> DEFINE m == Min(over)
    <3>2. m \in 1..Len(s) /\ m # 1 /\ m \in Nat
      BY <1>2, <1>3, <1>4, <3>1
    <3>3. l = m - 1
      BY <1>1, <2>2
    <3> HIDE DEF m
    <3>4. l \in 1..Len(s)
      BY <1>2, <3>2, <3>3
    <3>5. l \notin over
      BY <1>5, <3>1, <3>2, <3>3 DEF m
    <3> QED
      BY <1>2, <3>4, <3>5
  <2> QED
    BY <2>1, <2>2
<1>9. WidthFactor(s[l]) <= reduce
  BY <1>6, <1>7, <1>8
<1>10. ASSUME reduce = 1 PROVE s[l] = 1
  <2>1. file.nx \in Nat /\ s[l] \in Nat \ {0} /\ s[l] <= file.nx
    BY <1>2, <1>8, MasterSides
  <2> DEFINE by == s[l]
  <2>2. by \in Nat \ {0} /\ by <= file.nx
    BY <2>1
  <2>3. LRound(file.nx, CeilDiv(file.nx, by)) <= 1 /\ WidthFactor(by) \in Nat
    BY <1>7, <1>8, <1>9, <1>10 DEF WidthFactor
  <2> HIDE DEF by
  <2>4. ~(2 <= by)
    BY <2>1, <2>2, <2>3, SmallerLevel DEF WidthFactor
  <2> QED
    BY <2>2, <2>4 DEF by
<1> QED
  BY <1>8, <1>9, <1>10 DEF s, l

\* A coordinate that is rounded to the numbers of a level is near its place.
LEMMA LRoundNear ==
  ASSUME NEW a \in Nat, NEW b \in Nat \ {0}
  PROVE  Near(LRound(a, b) * b, a, 2 * b)
<1> DEFINE q == LRound(a, b)
<1>1. q \in Nat /\ 2 * q * b <= 2 * a + b /\ 2 * a < 2 * q * b + b
  BY LRoundBounds
<1> HIDE DEF q
<1> DEFINE s == q * b
<1>2. s \in Nat /\ 2 * s <= 2 * a + b /\ 2 * a < 2 * s + b
  BY <1>1
<1> HIDE DEF s
<1>3. Near(s, a, 2 * b)
  BY <1>2 DEF Near
<1> QED
  BY <1>3 DEF s, q

\* So is one that is a percentage of the level.
LEMMA PercentNear ==
  ASSUME NEW a \in Nat, NEW n \in Nat \ {0}, NEW b \in Nat \ {0},
         LRound(a * CeilDiv(n, b), 100) < CeilDiv(n, b)
  PROVE  Near(LRound(a * CeilDiv(n, b), 100) * b, LRound(a * n, 100), 2 * b)
<1> DEFINE m == CeilDiv(n, b)
           c == 100
           u == a * m
           v == a * n
           p == LRound(u, c)
           q == LRound(v, c)
<1>1. m \in Nat \ {0} /\ n <= m * b /\ m * b < n + b
  BY CeilDivBounds, CeilDivPositive
<1>2. p < m /\ c = 100
  OBVIOUS
<1> HIDE DEF m, c
<1>3. u \in Nat /\ v \in Nat
  BY <1>1
<1> HIDE DEF u, v
<1>14. c \in Nat \ {0}
  BY <1>2
<1>4. p \in Nat /\ 2 * p * c <= 2 * u + c /\ 2 * u < 2 * p * c + c
  BY <1>3, <1>14, LRoundBounds
<1>5. q \in Nat /\ 2 * q * c <= 2 * v + c /\ 2 * v < 2 * q * c + c
  BY <1>3, <1>14, LRoundBounds
<1> HIDE DEF p, q
<1>6. 200 * p <= 2 * u + 100 /\ 2 * u < 200 * p + 100 /\ 200 * q <= 2 * v + 100 /\ 2 * v < 200 * q + 100
  BY <1>2, <1>4, <1>5
<1>7. a < 100
  <2>1. ASSUME a >= 100 PROVE FALSE
    <3> DEFINE e == a - 100
    <3>1. e \in Nat /\ a = 100 + e
      BY <2>1
    <3> HIDE DEF e
    <3>2. e * m \in Nat /\ u = 100 * m + e * m
      BY <1>1, <3>1 DEF u
    <3>3. 200 * m < 200 * p + 100
      BY <1>1, <1>3, <1>4, <1>6, <3>2
    <3> QED
      BY <1>1, <1>2, <1>4, <3>3
  <2> QED
    BY <2>1
<1> DEFINE k == m * b - n
<1>8. k \in Nat /\ k < b /\ m * b = n + k
  BY <1>1
<1> HIDE DEF k
<1> DEFINE y == u * b
           x == p * b
           l == a * k
<1>9. x \in Nat /\ y \in Nat /\ l \in Nat /\ y = v + l
  <2>1. x \in Nat /\ y \in Nat /\ l \in Nat
    BY <1>3, <1>4, <1>8
  <2>2. (a * m) * b = a * (m * b)
    BY <1>1
  <2>3. a * (n + k) = a * n + a * k
    BY <1>8
  <2>4. y = v + l
    BY <1>8, <2>2, <2>3 DEF u, v
  <2> QED
    BY <2>1, <2>4
<1>10. l <= 100 * b
  <2>1. a * k <= 100 * k
    BY <1>7, <1>8
  <2> QED
    BY <1>8, <2>1
<1>11. 200 * x <= 2 * y + 100 * b /\ 2 * y < 200 * x + 100 * b
  <2>1. (200 * p) * b <= (2 * u + 100) * b
    BY <1>3, <1>4, <1>6
  <2>2. (2 * u) * b < (200 * p + 100) * b
    BY <1>3, <1>4, <1>6
  <2>3. (200 * p) * b = 200 * x /\ (2 * u + 100) * b = 2 * y + 100 * b
    BY <1>3, <1>4
  <2>4. (2 * u) * b = 2 * y /\ (200 * p + 100) * b = 200 * x + 100 * b
    BY <1>3, <1>4
  <2> QED
    BY <2>1, <2>2, <2>3, <2>4
<1> HIDE DEF x, y, l
<1>12. x - q < 2 * b /\ q - x < 2 * b
  BY <1>3, <1>5, <1>6, <1>9, <1>10, <1>11
<1>13. Near(x, q, 2 * b)
  BY <1>12 DEF Near
<1> QED
  BY <1>13, <1>2 DEF x, p, q, u, v, m

\* And the middle of a square.
LEMMA SquareNear ==
  ASSUME NEW n \in Nat \ {0}, NEW i \in Nat \ {0}, i <= n, NEW b \in Nat \ {0}
  PROVE  Near(((CeilDiv(n, b) - CeilDiv(i, b)) \div 2) * b, (n - i) \div 2, 2 * b)
<1> DEFINE m == CeilDiv(n, b)
           j == CeilDiv(i, b)
           d == m - j
           e == n - i
           p == d \div 2
           q == e \div 2
<1>1. m \in Nat /\ n <= m * b /\ m * b < n + b
  BY CeilDivBounds
<1>2. j \in Nat /\ i <= j * b /\ j * b < i + b
  BY CeilDivBounds
<1>3. j <= m
  BY CeilDivMonotone
<1> HIDE DEF m, j
<1>4. d \in Nat /\ e \in Nat
  BY <1>1, <1>2, <1>3
<1>5. d * b = m * b - j * b
  BY <1>1, <1>2
<1>6. d * b - e < b /\ e - d * b < b
  <2> DEFINE s == m * b
             t == j * b
  <2>1. s \in Nat /\ t \in Nat /\ d * b = s - t
    BY <1>1, <1>2, <1>5
  <2> HIDE DEF s, t, d
  <2> DEFINE g == d * b
  <2>2. g = s - t
    BY <2>1
  <2> HIDE DEF g
  <2>3. n <= s /\ s < n + b /\ i <= t /\ t < i + b
    BY <1>1, <1>2 DEF s, t
  <2>4. g - e < b /\ e - g < b
    BY <2>1, <2>2, <2>3
  <2> QED
    BY <2>4 DEF g
<1> HIDE DEF d, e
<1>7. p \in Nat /\ 2 * p <= d /\ d <= 2 * p + 1 /\ q \in Nat /\ 2 * q <= e /\ e <= 2 * q + 1
  BY <1>4
<1> HIDE DEF p, q
<1> DEFINE x == p * b
           g == d * b
<1>8. x \in Nat /\ g \in Nat /\ 2 * x <= g /\ g <= 2 * x + b
  <2>1. (2 * p) * b <= d * b
    BY <1>4, <1>7
  <2>2. d * b <= (2 * p + 1) * b
    BY <1>4, <1>7
  <2>3. (2 * p) * b = 2 * x /\ (2 * p + 1) * b = 2 * x + b
    BY <1>7
  <2> QED
    BY <1>4, <1>7, <2>1, <2>2, <2>3
<1>9. g - e < b /\ e - g < b
  BY <1>6
<1> HIDE DEF x, g
<1>10. x - q < 2 * b /\ q - x < 2 * b
  BY <1>4, <1>7, <1>8, <1>9
<1>11. Near(x, q, 2 * b)
  BY <1>10 DEF Near
<1> QED
  BY <1>11 DEF x, p, q, d, e, m, j

\* The corner of a region in a level is near the one that the region names.
LEMMA PlacedOnLevel ==
  ASSUME NEW r, NEW z, Readable(r, z), ~Region(r).err, NEW by \in Nat \ {0}, NEW red \in Nat \ {0},
         by <= file.nx, by <= file.ny,
         r.type = "COORDS" => red = by,
         ~CropCoords(r, red, CeilDiv(file.nx, by), CeilDiv(file.ny, by)).err
  PROVE  LET c == CropCoords(r, red, CeilDiv(file.nx, by), CeilDiv(file.ny, by))
         IN  /\ Near(c.x * by, NamedArea(r).x, 2 * by)
             /\ Near(c.y * by, NamedArea(r).y, 2 * by)
<1> DEFINE nx == file.nx
           ny == file.ny
           mx == CeilDiv(nx, by)
           my == CeilDiv(ny, by)
           k == Corner(r, red, mx, my)
           e == Corner(r, 1, nx, ny)
           c == CropCoords(r, red, mx, my)
           n == NamedArea(r)
<1>1. nx \in Nat \ {0} /\ ny \in Nat \ {0}
  BY MasterSides DEF Readable
<1>2. /\ mx \in Nat \ {0} /\ my \in Nat \ {0} /\ mx <= nx /\ my <= ny
  BY <1>1, CeilDivPositive
<1>3. Parsed(r) /\ FittingCorner(e) /\ Fits(nx) /\ Fits(ny)
  BY DEF Readable
<1>4. nx >= ny => mx >= my
  BY <1>1, CeilDivMonotone
<1>5. ny >= nx => my >= mx
  BY <1>1, CeilDivMonotone
<1>6. FittingCorner(k)
  <2> HIDE DEF mx, my, nx, ny
  <2> QED
    BY <1>1, <1>2, <1>3, FitsOnLevel
<1>7. c = [err |-> k[1] >= mx \/ k[2] >= my, x |-> k[1], y |-> k[2],
           w |-> Cut(k[1], k[3], mx), h |-> Cut(k[2], k[4], my)]
  <2> HIDE DEF mx, my
  <2> QED
    BY <1>2, <1>6, CropCoordsFits
<1>8. ~c.err
  OBVIOUS
<1>9. Same(Region(r), n) /\ Region(r).x = e[1] /\ Region(r).y = e[2]
  <2>1. Same(Region(r), n)
    BY RegionFacts
  <2>2. Region(r) = [err |-> e[1] >= nx \/ e[2] >= ny, x |-> e[1], y |-> e[2],
                     w |-> Cut(e[1], e[3], nx), h |-> Cut(e[2], e[4], ny)]
    BY <1>1, <1>3, CropCoordsFits DEF Region
  <2> DEFINE d == Region(r)
  <2> HIDE DEF d, e, nx, ny, n
  <2>3. d = [err |-> e[1] >= nx \/ e[2] >= ny, x |-> e[1], y |-> e[2],
             w |-> Cut(e[1], e[3], nx), h |-> Cut(e[2], e[4], ny)]
    BY <2>2 DEF d
  <2>4. d.x = e[1] /\ d.y = e[2]
    BY <2>3, Zenon
  <2> QED
    BY <2>1, <2>4 DEF d
<1> HIDE DEF c, n
<1>10. ~(k[1] >= mx \/ k[2] >= my)
  BY <1>7, <1>8, Zenon
<1>11. c.x = k[1] /\ c.y = k[2]
  BY <1>7, Zenon
<1>12. n.x = e[1] /\ n.y = e[2]
  BY <1>9 DEF Same
<1>13. CASE r.type = "COORDS"
  <2>1. r.x \in Nat /\ r.y \in Nat /\ r.w \in Nat /\ r.h \in Nat
    BY <1>3, <1>13 DEF Parsed
  <2>2. e[1] = r.x /\ e[2] = r.y
    BY <1>13, <2>1, LRoundOne DEF Corner
  <2>3. k[1] = LRound(r.x, by) /\ k[2] = LRound(r.y, by)
    BY <1>13 DEF Corner
  <2> HIDE DEF e, k
  <2>4. Near(k[1] * by, e[1], 2 * by) /\ Near(k[2] * by, e[2], 2 * by)
    BY <2>1, <2>2, <2>3, LRoundNear
  <2> QED
    BY <1>11, <1>12, <2>4 DEF c, n
<1>14. CASE r.type = "PERCENTS"
  <2>1. r.x \in Nat /\ r.y \in Nat
    BY <1>3, <1>14 DEF Parsed
  <2>2. e[1] = LRound(r.x * nx, 100) /\ e[2] = LRound(r.y * ny, 100)
    BY <1>14 DEF Corner
  <2>3. k[1] = LRound(r.x * mx, 100) /\ k[2] = LRound(r.y * my, 100)
    BY <1>14 DEF Corner
  <2>4. k[1] \in Nat /\ k[2] \in Nat
    BY <1>6 DEF FittingCorner, Fits
  <2>5. k[1] < mx /\ k[2] < my
    <3> HIDE DEF k, mx, my
    <3> QED
      BY <1>2, <1>10, <2>4
  <2> HIDE DEF e, k, nx, ny
  <2>6. LRound(r.x * mx, 100) < mx /\ LRound(r.y * my, 100) < my
    BY <2>3, <2>5
  <2>7. Near(LRound(r.x * mx, 100) * by, LRound(r.x * nx, 100), 2 * by)
    BY <1>1, <2>1, <2>6, PercentNear
  <2>8. Near(LRound(r.y * my, 100) * by, LRound(r.y * ny, 100), 2 * by)
    BY <1>1, <2>1, <2>6, PercentNear
  <2>9. Near(k[1] * by, e[1], 2 * by) /\ Near(k[2] * by, e[2], 2 * by)
    BY <2>2, <2>3, <2>7, <2>8
  <2> QED
    BY <1>11, <1>12, <2>9 DEF c, n, nx, ny
<1>15. CASE r.type = "SQUARE"
  <2>1. e[1] = IF nx > ny THEN (nx - ny) \div 2 ELSE 0
    BY <1>15 DEF Corner
  <2>2. e[2] = IF nx > ny THEN 0 ELSE (ny - nx) \div 2
    BY <1>15 DEF Corner
  <2>3. k[1] = IF mx > my THEN (mx - my) \div 2 ELSE 0
    BY <1>15 DEF Corner
  <2>4. k[2] = IF mx > my THEN 0 ELSE (my - mx) \div 2
    BY <1>15 DEF Corner
  <2> HIDE DEF e, k, nx, ny
  <2>5. Near(0 * by, 0, 2 * by)
    BY DEF Near
  <2>6. ASSUME nx > ny PROVE Near(k[1] * by, e[1], 2 * by) /\ Near(k[2] * by, e[2], 2 * by)
    <3>1. mx >= my
      BY <1>1, <1>4, <2>6
    <3>2. Near(((mx - my) \div 2) * by, (nx - ny) \div 2, 2 * by)
      BY <1>1, <2>6, SquareNear
    <3> HIDE DEF mx, my
    <3>3. k[1] = (mx - my) \div 2 /\ k[2] = 0
      BY <1>2, <2>3, <2>4, <3>1
    <3> QED
      BY <2>1, <2>2, <2>5, <2>6, <3>2, <3>3
  <2>7. ASSUME ~(nx > ny) PROVE Near(k[1] * by, e[1], 2 * by) /\ Near(k[2] * by, e[2], 2 * by)
    <3>1. my >= mx
      BY <1>1, <1>5, <2>7
    <3>2. Near(((my - mx) \div 2) * by, (ny - nx) \div 2, 2 * by)
      BY <1>1, <2>7, SquareNear
    <3> HIDE DEF mx, my
    <3>3. k[2] = (my - mx) \div 2 /\ k[1] = 0
      BY <1>2, <2>3, <2>4, <3>1
    <3> QED
      BY <2>1, <2>2, <2>5, <2>7, <3>2, <3>3
  <2> QED
    BY <1>11, <1>12, <2>6, <2>7 DEF c, n, nx, ny
<1>16. CASE r.type = "FULL"
  <2>1. e[1] = 0 /\ e[2] = 0 /\ k[1] = 0 /\ k[2] = 0
    BY <1>16 DEF Corner
  <2> HIDE DEF e, k
  <2>2. Near(0 * by, 0, 2 * by)
    BY DEF Near
  <2> QED
    BY <1>11, <1>12, <2>1, <2>2 DEF c, n
<1> QED
  BY <1>3, <1>13, <1>14, <1>15, <1>16 DEF Parsed

\* The rectangle of a level that is read, and the extent that is made of it.
TakenFrom(r, z, p, level, red) ==
  LET by == file.levels[level]
      c == CropCoords(r, red, CeilDiv(file.nx, by), CeilDiv(file.ny, by))
  IN  /\ Inside(c, CeilDiv(file.nx, by), CeilDiv(file.ny, by))
      /\ Same(p, c) /\ p.by = by
      /\ KnownExtent(r, z) => /\ p.nx = GetSize(z, c.w, c.h, 0, FALSE, Limits).w
                              /\ p.ny = GetSize(z, c.w, c.h, 0, FALSE, Limits).h

LEMMA LevelRead ==
  ASSUME NEW r, NEW z, Readable(r, z), file.fmt = "tif", NEW quality,
         NEW level \in DOMAIN file.levels, NEW red \in Nat \ {0},
         ReadLevel(file, r, z, Limits, quality, level, red).err = "none"
  PROVE  TakenFrom(r, z, ReadLevel(file, r, z, Limits, quality, level, red), level, red)
<1> DEFINE by == file.levels[level]
           mx == CeilDiv(file.nx, by)
           my == CeilDiv(file.ny, by)
           a == Area(r, red, mx, my)
           c == CropCoords(r, red, mx, my)
           m == 0
           j == FALSE
           o == GetSize(z, a.w, a.h, m, j, Limits)
           p == ReadLevel(file, r, z, Limits, quality, level, red)
           found == IF file.tile > 0 THEN ReadTiledData(file, a) ELSE ReadStandardData(file, a)
           px == IF found = "asked" THEN Pixels(a, o.w, o.h, quality) ELSE found
           odd == file.tile > 0 /\ file.bps \notin {8, 16}
<1>1. p = IF a.err THEN Refused("iiif")
          ELSE IF odd THEN Refused("image")
          ELSE IF z.type # "NONE" /\ o.err THEN Refused("size")
          ELSE IF AsItIs(z) THEN Plan("none", a, by, a.w, a.h, found)
          ELSE Plan("none", a, by, o.w, o.h, px)
  BY Zenon DEF ReadLevel, SizedIn
<1>2. p.err = "none"
  OBVIOUS
<1>3. file.nx \in Nat \ {0} /\ file.ny \in Nat \ {0} /\ Parsed(r) /\ Fits(file.nx) /\ Fits(file.ny)
      /\ FittingCorner(Corner(r, 1, file.nx, file.ny)) /\ file \in Masters
  BY MasterSides DEF Readable
<1>4. by \in Nat \ {0}
  BY <1>3, TiffLevels
<1> HIDE DEF by
<1>5. mx \in Nat \ {0} /\ my \in Nat \ {0} /\ mx <= file.nx /\ my <= file.ny
  BY <1>3, <1>4, CeilDivPositive
<1> HIDE DEF mx, my
<1>6. FittingCorner(Corner(r, red, mx, my))
  BY <1>3, <1>5, FitsOnLevel
<1>7. a = c
  BY <1>5, <1>6, AreaIsCrop
<1>8. ~c.err => Inside(c, mx, my)
  BY <1>5, <1>6, CropCoordsInside
<1>9. AsItIs(z) => z.type = "FULL"
  BY DEF Readable, Proper, AsItIs
<1>10. KnownExtent(r, z) /\ z.type = "FULL" => o.w = a.w /\ o.h = a.h
  <2> HIDE DEF a, m, j
  <2> QED
    BY KnownFull
<1> HIDE DEF a, c, p, o, found, px, odd
<1>11. /\ ~a.err
       /\ \/ p = Plan("none", a, by, a.w, a.h, found) /\ z.type = "FULL"
          \/ p = Plan("none", a, by, o.w, o.h, px)
  BY <1>1, <1>2, <1>9, RefusedErrors
<1>12. Same(p, a) /\ p.by = by /\ (KnownExtent(r, z) => p.nx = o.w /\ p.ny = o.h)
  <2>1. CASE p = Plan("none", a, by, a.w, a.h, found) /\ z.type = "FULL"
    BY <1>10, <2>1, PlanFields DEF Same
  <2>2. CASE p = Plan("none", a, by, o.w, o.h, px)
    BY <2>2, PlanFields DEF Same
  <2> QED
    BY <1>11, <2>1, <2>2
<1>13. Inside(c, mx, my) /\ Same(p, c)
  BY <1>7, <1>8, <1>11, <1>12
<1>14. KnownExtent(r, z) => /\ p.nx = GetSize(z, c.w, c.h, 0, FALSE, Limits).w
                            /\ p.ny = GetSize(z, c.w, c.h, 0, FALSE, Limits).h
  BY <1>7, <1>12 DEF o, m, j
<1> QED
  BY <1>12, <1>13, <1>14 DEF TakenFrom, p, c, by, mx, my

\* At the factor 1 the rectangle of a region is the same for every size but
\* for the numbers, which are divided by what the size calls for.
LEMMA CropWithoutFactor ==
  ASSUME NEW r, NEW red, NEW nx, NEW ny
  PROVE  (r.type = "COORDS" => red = 1) => CropCoords(r, red, nx, ny) = CropCoords(r, 1, nx, ny)
<1>1. ASSUME r.type = "COORDS" => red = 1 PROVE Corner(r, red, nx, ny) = Corner(r, 1, nx, ny)
  BY <1>1 DEF Corner
<1> QED
  BY <1>1 DEF CropCoords

\* What a level of a pyramid delivers.
LEMMA LevelDelivers ==
  ASSUME NEW r, NEW z, Readable(r, z), file.fmt = "tif", Pyramid, ~Region(r).err,
         NEW level \in DOMAIN file.levels, NEW red \in Nat \ {0}, red = SizeOf2(r, z, FALSE).reduce,
         NEW p, TakenFrom(r, z, p, level, red)
  PROVE  Delivered(r, z, p)
<1> DEFINE by == file.levels[level]
           mx == CeilDiv(file.nx, by)
           my == CeilDiv(file.ny, by)
           c == CropCoords(r, red, mx, my)
           n == NamedArea(r)
<1>1. file.nx \in Nat \ {0} /\ file.ny \in Nat \ {0} /\ file \in Masters /\ Proper(z)
  BY MasterSides DEF Readable
<1>2. by \in Nat \ {0} /\ by <= file.nx /\ by <= file.ny
  BY <1>1, TiffLevels
<1>3. Inside(c, mx, my) /\ Same(p, c) /\ p.by = by
  BY DEF TakenFrom
<1>7. KnownExtent(r, z) => /\ p.nx = GetSize(z, c.w, c.h, 0, FALSE, Limits).w
                           /\ p.ny = GetSize(z, c.w, c.h, 0, FALSE, Limits).h
  BY DEF TakenFrom
<1> HIDE DEF by, c
<1>4. InLevel(p)
  <2>1. LevelSide(file.nx, p.by) = mx /\ LevelSide(file.ny, p.by) = my
    BY <1>3 DEF LevelSide
  <2> HIDE DEF mx, my
  <2>2. p.x = c.x /\ p.y = c.y /\ p.w = c.w /\ p.h = c.h
    BY <1>3 DEF Same
  <2>3. /\ c.x \in Nat /\ c.w \in Nat \ {0} /\ c.x + c.w <= mx
        /\ c.y \in Nat /\ c.h \in Nat \ {0} /\ c.y + c.h <= my
    BY <1>3 DEF Inside
  <2>4. p.x \in Nat /\ p.w \in Nat /\ p.x + p.w <= mx /\ p.w > 0
    BY <2>2, <2>3
  <2>5. p.y \in Nat /\ p.h \in Nat /\ p.y + p.h <= my /\ p.h > 0
    BY <2>2, <2>3
  <2>6. p.by \in Nat \ {0}
    BY <1>2, <1>3
  <2> QED
    BY <2>1, <2>4, <2>5, <2>6 DEF InLevel
<1>5. Extended(r, z, p)
  <2> DEFINE m == 0
             j == FALSE
             o == GetSize(z, c.w, c.h, m, j, Limits)
  <2>1. SUFFICES ASSUME KnownExtent(r, z)
                 PROVE  p.nx \in Nat \ {0} /\ p.ny \in Nat \ {0} /\ MeansExtent(z, p.w, p.h, p.nx, p.ny)
    BY DEF Extended
  <2>2. j \in BOOLEAN /\ p.nx = o.w /\ p.ny = o.h
    BY <1>7, <2>1
  <2>3. ExtentIsKnown(z, c.w, c.h, m, j, Limits)
    BY <1>1, <2>1, LimitsAssumption DEF ExtentIsKnown, KnownExtent, Proper, IsSize
  <2> HIDE DEF m, j, mx, my
  <2>4. Meant(z, c.w, c.h, o)
    BY <1>1, <1>3, <2>2, <2>3, GetSizeMeant DEF Inside
  <2> HIDE DEF o
  <2> QED
    BY <1>3, <2>2, <2>4 DEF Meant, Same
<1>6. Placed(r, z, p)
  <2>1. CASE r.type = "COORDS" /\ red # by
    BY <1>3, <2>1 DEF Placed
  <2>2. CASE ~(r.type = "COORDS" /\ red # by)
    <3>1. CASE by = 1
      <4>1. mx = file.nx /\ my = file.ny
        BY <1>1, <3>1, CeilDivOne
      <4>2. c = Region(r)
        <5>1. r.type = "COORDS" => red = 1
          BY <2>2, <3>1
        <5>2. CropCoords(r, red, file.nx, file.ny) = CropCoords(r, 1, file.nx, file.ny)
          BY <5>1, CropWithoutFactor, Zenon
        <5>3. c = CropCoords(r, red, mx, my)
          BY DEF c
        <5> HIDE DEF mx, my
        <5> QED
          BY <4>1, <5>2, <5>3 DEF Region
      <4> HIDE DEF n
      <4>3. Inside(c, file.nx, file.ny) /\ Same(c, n)
        BY <4>2, RegionFacts DEF n
      <4>6. p.x = n.x /\ p.y = n.y /\ p.by = 1 /\ n.x \in Nat /\ n.y \in Nat
        BY <1>3, <3>1, <4>3 DEF Same, Inside
      <4>4. p.x * p.by = n.x /\ p.y * p.by = n.y /\ n.x \in Nat /\ n.y \in Nat
        BY <4>6
      <4>5. Near(p.x * p.by, n.x, 1) /\ Near(p.y * p.by, n.y, 1)
        BY <4>4 DEF Near
      <4> QED
        BY <1>3, <3>1, <4>5 DEF Placed, n
    <3>2. CASE by # 1
      <4>1. ~CropCoords(r, red, mx, my).err
        <5>1. ~c.err
          BY <1>3 DEF Inside
        <5> QED
          BY <5>1 DEF c
      <4>2. Near(CropCoords(r, red, mx, my).x * by, n.x, 2 * by) /\ Near(CropCoords(r, red, mx, my).y * by, n.y, 2 * by)
        BY <1>2, <2>2, <4>1, PlacedOnLevel
      <4>4. Near(c.x * by, n.x, 2 * by) /\ Near(c.y * by, n.y, 2 * by)
        BY <4>2 DEF c
      <4> HIDE DEF n, mx, my
      <4>3. Near(p.x * p.by, n.x, 2 * by) /\ Near(p.y * p.by, n.y, 2 * by)
        BY <1>3, <4>4 DEF Same
      <4> QED
        BY <1>3, <3>2, <4>3 DEF Placed, n
    <3> QED
      BY <3>1, <3>2
  <2> QED
    BY <2>1, <2>2
<1> QED
  BY <1>4, <1>5, <1>6 DEF Delivered

LEMMA TiffDelivers ==
  ASSUME NEW r, NEW z, Readable(r, z), file.fmt = "tif", NEW quality,
         ReadTiff(file, r, z, Limits, quality).err = "none"
  PROVE  Delivered(r, z, ReadTiff(file, r, z, Limits, quality))
<1> DEFINE p == ReadTiff(file, r, z, Limits, quality)
           c == CropCoords(r, 1, file.nx, file.ny)
           k == 1
           j == FALSE
           o == GetSize(z, c.w, c.h, k, j, Limits)
           level == Level(file, o.reduce)
<1>1. file \in Masters /\ Proper(z) /\ z.type # "NONE" /\ z.type # "REDUCE"
  BY DEF Readable, Proper
<1>2. file.nx \in Nat \ {0} /\ file.ny \in Nat \ {0} /\ file.nx <= LargestSide /\ file.ny <= LargestSide
  BY <1>1, MasterSides
<1>3. /\ Len(file.levels) \in Nat \ {0} /\ DOMAIN file.levels = 1..Len(file.levels)
      /\ file.levels[1] = 1
  BY <1>1, TiffLevels
<1>4. CASE Len(file.levels) = 1
  <2> DEFINE q == ReadLevel(file, r, z, Limits, quality, 1, 1)
  <2>1. p = q
    BY <1>4 DEF ReadTiff
  <2>2. q.err = "none"
    BY <2>1
  <2>3. ~Pyramid
    BY <1>4 DEF Pyramid
  <2>4. k \in Nat \ {0} /\ k \in DOMAIN file.levels
    BY <1>3
  <2>5. file.levels[k] = 1
    BY <1>3
  <2>6. q = ReadLevel(file, r, z, Limits, quality, k, k)
    OBVIOUS
  <2> HIDE DEF k, q
  <2> DEFINE by == file.levels[k]
             d == CropCoords(r, k, CeilDiv(file.nx, by), CeilDiv(file.ny, by))
  <2>7. /\ Inside(d, CeilDiv(file.nx, by), CeilDiv(file.ny, by)) /\ Same(q, d) /\ q.by = by
        /\ KnownExtent(r, z) => /\ q.nx = GetSize(z, d.w, d.h, 0, FALSE, Limits).w
                                /\ q.ny = GetSize(z, d.w, d.h, 0, FALSE, Limits).h
    <3> DEFINE e == ReadLevel(file, r, z, Limits, quality, k, k)
    <3>1. e.err = "none"
      BY <2>2, <2>6
    <3>2. TakenFrom(r, z, e, k, k)
      BY <2>4, <3>1, LevelRead
    <3> QED
      BY <2>6, <3>2 DEF TakenFrom
  <2>8. d = Region(r)
    <3>1. CeilDiv(file.nx, by) = file.nx /\ CeilDiv(file.ny, by) = file.ny
      BY <1>2, <2>5, CeilDivOne
    <3> QED
      BY <3>1 DEF Region, k
  <2>9. ~Region(r).err
    <3> HIDE DEF d
    <3> QED
      BY <2>7, <2>8 DEF Inside
  <2> HIDE DEF d
  <2>10. Delivered(r, z, q)
    BY <2>3, <2>5, <2>7, <2>8, <2>9, DeliveredWhole
  <2> QED
    BY <2>1, <2>10
<1>5. CASE Len(file.levels) # 1
  <2> DEFINE q == ReadLevel(file, r, z, Limits, quality, level, o.reduce)
  <2>1. p = IF c.err THEN Refused("iiif")
            ELSE IF z.type = "NONE" THEN Plan("none", c, 1, c.w, c.h, "undefined")
            ELSE IF o.err THEN Refused("size") ELSE q
    BY <1>5, Zenon DEF ReadTiff, SizedIn
  <2>2. p.err = "none"
    OBVIOUS
  <2>3. Pyramid
    <3> DEFINE l == Len(file.levels)
    <3>1. l \in Nat \ {0} /\ l # 1
      BY <1>3, <1>5
    <3> HIDE DEF l
    <3>2. l > 1
      BY <3>1
    <3> QED
      BY <3>2 DEF Pyramid, l
  <2>4. c = Region(r)
    BY DEF Region
  <2> HIDE DEF c, p
  <2>5. ~c.err /\ p = q
    <3> HIDE DEF q, o
    <3> QED
      BY <1>1, <2>1, <2>2, RefusedErrors
  <2>6. ~Region(r).err
    BY <2>4, <2>5
  <2>7. Inside(c, file.nx, file.ny) /\ Same(c, NamedArea(r))
    BY <2>4, <2>6, RegionFacts
  <2>8. c.w \in Nat \ {0} /\ c.h \in Nat \ {0} /\ c.w <= LargestSide /\ c.h <= LargestSide
    <3>1. LargestSide \in Nat
      BY DEF LargestSide
    <3> QED
      BY <1>2, <2>7, <3>1 DEF Inside
  <2>9. o.reduce = SizeOf2(r, z, FALSE).reduce
    BY <2>7 DEF SizeOf2, Same
  <2>10. j \in BOOLEAN
    OBVIOUS
  <2> HIDE DEF k, j
  <2>11. IsFactor(o.reduce, j)
    BY <1>1, <2>8, <2>10, ReduceIsFactor DEF LargestSide
  <2> DEFINE red == o.reduce
  <2>12. red \in Nat \ {0} /\ red = SizeOf2(r, z, FALSE).reduce
    <3> HIDE DEF o
    <3>1. red \in Nat \ {0}
      BY <2>11 DEF IsFactor
    <3>2. red = SizeOf2(r, z, FALSE).reduce
      BY <2>9
    <3> QED
      BY <3>1, <3>2
  <2>13. level = Level(file, red) /\ q = ReadLevel(file, r, z, Limits, quality, level, red)
    OBVIOUS
  <2> HIDE DEF red, q
  <2>14. level \in DOMAIN file.levels
    BY <1>1, <2>12, <2>13, LevelTaken
  <2> HIDE DEF level
  <2>15. TakenFrom(r, z, q, level, red)
    <3> DEFINE e == ReadLevel(file, r, z, Limits, quality, level, red)
    <3>1. e.err = "none"
      BY <2>2, <2>5, <2>13
    <3>2. TakenFrom(r, z, e, level, red)
      BY <2>12, <2>14, <3>1, LevelRead
    <3> QED
      BY <2>13, <3>2
  <2>17. Delivered(r, z, q)
    BY <2>3, <2>6, <2>12, <2>14, <2>15, LevelDelivers
  <2> QED
    BY <2>5, <2>17 DEF p
<1> QED
  BY <1>4, <1>5

\* Whatever a reader delivers is what was asked of it.
LEMMA PlanDelivers ==
  ASSUME NEW r, NEW z, Readable(r, z), NEW quality,
         ReadPlan(file, r, z, Limits, quality).err = "none"
  PROVE  Delivered(r, z, ReadPlan(file, r, z, Limits, quality))
<1>1. CASE file.fmt = "png"
  BY <1>1, PngDelivers DEF ReadPlan
<1>2. CASE file.fmt = "jpg"
  BY <1>2, JpegDelivers DEF ReadPlan
<1>3. CASE file.fmt = "tif"
  BY <1>3, TiffDelivers DEF ReadPlan
<1>4. CASE file.fmt = "jp2"
  BY <1>4, J2kDelivers DEF ReadPlan
<1>5. CASE file.fmt \notin {"png", "jpg", "tif", "jp2"}
  BY <1>5, RefusedErrors DEF ReadPlan
<1> QED
  BY <1>1, <1>2, <1>3, <1>4, <1>5

-----------------------------------------------------------------------------
(* Requests that are served.                                               *)

Image(q) == q \in Requests /\ Dispatch(q[1]) = "image"

\* The size that is sent and the name that it is cached under.
Chosen(q) == SizeToSend(Asked(q[1]).size, q[2])
Name(q) == Canonical(q[1], Asked(q[1]), Chosen(q))

\* A request that nothing is wrong with.
Served(q) ==
  /\ Image(q) /\ WellFormed(Asked(q[1])) /\ file \in Masters
  /\ ~SizeOn(Asked(q[1]).size).err /\ ~SizeOn(Restriction(q[2])).err /\ ~Name(q).err

Made(q) == Transcode(Asked(q[1]), Chosen(q), q[2])
Rendered(q, rendition) == Served(q) /\ Made(q).status = 200 /\ rendition = Made(q).rendition

LEMMA ImageTokens ==
  ASSUME NEW q, Image(q)
  PROVE  /\ q[1][Len(q[1]) - 3] \in DOMAIN RegionOf
         /\ q[1][Len(q[1]) - 2] \in DOMAIN SizeOf
         /\ q[1][Len(q[1]) - 1] \in DOMAIN RotationOf
<1> DEFINE url == q[1]
           n == Len(url)
           Of(k) == <<QualityFormatOf, RotationOf, SizeOf, RegionOf>>[k + 1]
<1>1. Dispatch(url) = "image"
  BY DEF Image
<1> HIDE DEF url
<1>2. Conforming(url) = 0..3
  BY <1>1 DEF Dispatch
<1>3. \A k \in 0..3 : Matches(url, k, Of(k))
  BY <1>2 DEF Conforming
<1>4. \A k \in 0..3 : url[n - k] \in DOMAIN Of(k)
  BY <1>3 DEF Matches
<1> HIDE DEF n
<1>5. url[n - 3] \in DOMAIN RegionOf /\ url[n - 2] \in DOMAIN SizeOf /\ url[n - 1] \in DOMAIN RotationOf
  BY <1>4
<1> QED
  BY <1>5 DEF url, n

LEMMA AskedFields ==
  ASSUME NEW url
  PROVE  /\ Asked(url).region = ParseRegion(RegionOf[url[Len(url) - 3]])
         /\ Asked(url).size = ParseSize(SizeOf[url[Len(url) - 2]])
         /\ Asked(url).rotation = ParseRotation(RotationOf[url[Len(url) - 1]])
BY DEF Asked

\* The restriction of a request.
LEMMA RestrictionIsSize ==
  ASSUME NEW q \in Requests, ~IsUndefined(Restriction(q[2]))
  PROVE  Proper(Restriction(q[2])) /\ Restriction(q[2]).type # "FULL"
<1> DEFINE z == q[2].size
<1>1. IsSize(z)
  BY RequestsAssumption
<1>2. IsUndefined(Undefined)
  BY DEF IsUndefined, Undefined, Size
<1> HIDE DEF z
<1>3. Restriction(q[2]) = z
  BY <1>2 DEF Restriction, z
<1>4. ~IsUndefined(z)
  BY <1>3
<1> QED
  BY <1>1, <1>3, <1>4, RestrictingSize

\* The size is the one asked for, or a restriction that is exceeded.
LEMMA ChosenSize ==
  ASSUME NEW q, Image(q), WellFormed(Asked(q[1]))
  PROVE  /\ Proper(Asked(q[1]).size) /\ Proper(Chosen(q))
         /\ \/ Chosen(q) = Asked(q[1]).size
               /\ \/ IsUndefined(Restriction(q[2]))
                  \/ ~Exceeds(SizeOn(Asked(q[1]).size), SizeOn(Restriction(q[2])))
            \/ Chosen(q) = Restriction(q[2]) /\ Restriction(q[2]).type # "FULL" /\ ~IsUndefined(Restriction(q[2]))
<1> DEFINE a == Asked(q[1]).size
           r == Restriction(q[2])
<1>1. Proper(a)
  BY ImageTokens, AskedFields, ParsedSize DEF WellFormed
<1>2. q \in Requests
  BY DEF Image
<1> HIDE DEF a
<1>3. Chosen(q) = IF ~IsUndefined(r) /\ Exceeds(SizeOn(a), SizeOn(r)) THEN r ELSE a
  BY DEF Chosen, SizeToSend, a
<1>4. ~IsUndefined(r) => Proper(r) /\ r.type # "FULL"
  BY <1>2, RestrictionIsSize
<1> HIDE DEF r
<1>5. CASE ~IsUndefined(r) /\ Exceeds(SizeOn(a), SizeOn(r))
  BY <1>1, <1>3, <1>4, <1>5 DEF a, r
<1>6. CASE ~(~IsUndefined(r) /\ Exceeds(SizeOn(a), SizeOn(r)))
  BY <1>1, <1>3, <1>6 DEF a, r
<1> QED
  BY <1>5, <1>6

LEMMA ServedReadable ==
  ASSUME NumbersFit, NEW q, Served(q)
  PROVE  Readable(Asked(q[1]).region, Chosen(q))
<1> DEFINE r == Asked(q[1]).region
           t == q[1][Len(q[1]) - 3]
           c == Corner(r, 1, file.nx, file.ny)
<1>1. file \in Masters /\ Image(q) /\ WellFormed(Asked(q[1]))
  BY DEF Served
<1>2. t \in DOMAIN RegionOf /\ r = ParseRegion(RegionOf[t]) /\ r.type # "ERROR"
  BY <1>1, ImageTokens, AskedFields DEF WellFormed
<1> HIDE DEF r, t
<1>3. Parsed(r)
  BY <1>2, ParsedRegion
<1>4. Proper(Chosen(q))
  BY <1>1, ChosenSize
<1>5. /\ 2 * file.nx < Word /\ 2 * c[1] < Word /\ 2 * c[3] < Word
      /\ 2 * file.ny < Word /\ 2 * c[2] < Word /\ 2 * c[4] < Word
  BY <1>1, <1>2 DEF NumbersFit
<1>6. file.nx \in Nat \ {0} /\ file.ny \in Nat \ {0}
  BY <1>1, MasterSides
<1>7. c[1] \in Nat /\ c[2] \in Nat /\ c[3] \in Nat /\ c[4] \in Nat
  <2> HIDE DEF c
  <2>1. CASE r.type = "COORDS"
    <3>1. r.x \in Nat /\ r.y \in Nat /\ r.w \in Nat /\ r.h \in Nat
      BY <1>3, <2>1 DEF Parsed
    <3>2. c = <<r.x, r.y, r.w, r.h>>
      BY <2>1, <3>1, LRoundOne DEF c, Corner
    <3> QED
      BY <3>1, <3>2
  <2>2. CASE r.type = "PERCENTS"
    <3>1. r.x \in Nat /\ r.y \in Nat /\ r.w \in Nat /\ r.h \in Nat
      BY <1>3, <2>2 DEF Parsed
    <3>2. c = <<LRound(r.x * file.nx, 100), LRound(r.y * file.ny, 100),
                LRound(r.w * file.nx, 100), LRound(r.h * file.ny, 100)>>
      BY <2>2 DEF c, Corner
    <3>3. ASSUME NEW a \in Nat, NEW b \in Nat PROVE LRound(a * b, 100) \in Nat
      <4> DEFINE d == a * b
                 e == 100
      <4>1. d \in Nat /\ e \in Nat \ {0}
        OBVIOUS
      <4> HIDE DEF d, e
      <4>2. LRound(d, e) \in Nat
        BY <4>1, LRoundBounds
      <4> QED
        BY <4>2 DEF d, e
    <3>4. /\ LRound(r.x * file.nx, 100) \in Nat /\ LRound(r.y * file.ny, 100) \in Nat
          /\ LRound(r.w * file.nx, 100) \in Nat /\ LRound(r.h * file.ny, 100) \in Nat
      BY <1>6, <3>1, <3>3
    <3> QED
      BY <3>2, <3>4
  <2>3. CASE r.type = "SQUARE"
    BY <1>6, <2>3 DEF c, Corner
  <2>4. CASE r.type = "FULL"
    BY <1>6, <2>4 DEF c, Corner
  <2> QED
    BY <1>3, <2>1, <2>2, <2>3, <2>4 DEF Parsed
<1> HIDE DEF c
<1>8. FittingCorner(c) /\ Fits(file.nx) /\ Fits(file.ny)
  BY <1>5, <1>6, <1>7 DEF FittingCorner, Fits
<1> QED
  BY <1>1, <1>3, <1>4, <1>8 DEF Readable, r, c

-----------------------------------------------------------------------------
(* Renditions.                                                             *)

\* The plan of a rendition, the image that is read, and what is made of it.
PlanOf(a, z) == ReadPlan(file, a.region, z, Limits, ScaledBy)
ImageOf(a, plan) == ImageWith(plan.nx, plan.ny, <<>>, ReadFields(file, a.qf.format = "jpg"))
QualityOf(a, plan) == InQuality(ImageOf(a, plan), a.qf.quality)

LostOf(a, plan) ==
  \/ a.rotation.mirror /\ RotateUndefined(a.rotation.angle)
  \/ a.qf.quality = "bitonal" /\ ToBitonalUndefined(ImageOf(a, plan))
  \/ WriteUndefined(a.qf.format, QualityOf(a, plan).im, NoParams)

\* Whether a plan can be carried out, with a watermark that is there.
Feasible(a, plan) ==
  /\ plan.err \notin {"image", "size", "iiif"}
  /\ ~QualityOf(a, plan).err /\ ~WriteOut(QualityOf(a, plan).im, a.qf.format).err

LEMMA TranscodeOutcome ==
  ASSUME NEW a, NEW z, NEW acc
  PROVE  Transcode(a, z, acc) =
           LET plan == PlanOf(a, z)
           IN  IF plan.err = "image" THEN Error(500)
               ELSE IF plan.err = "size" THEN Error(400)
               ELSE IF plan.err = "iiif" THEN Error(Closed)
               ELSE IF QualityOf(a, plan).err THEN Error(Closed)
               ELSE IF Watermarked(acc) /\ ~watermark THEN Error(500)
               ELSE IF WriteOut(QualityOf(a, plan).im, a.qf.format).err THEN Error(500)
               ELSE [Answer(200, "image") EXCEPT !.rendition =
                        [fmt |-> a.qf.format,
                         plan |-> IF LostOf(a, plan) THEN [plan EXCEPT !.pixels = "undefined"] ELSE plan,
                         mirror |-> a.rotation.mirror, angle |-> a.rotation.angle,
                         watermark |-> Watermarked(acc), quality |-> a.qf.quality]]
BY Zenon DEF Transcode, PlanOf, QualityOf, ImageOf, LostOf

LEMMA ErrorFields ==
  /\ Error(400).status # 200 /\ Error(500).status # 200 /\ Error(Closed).status # 200
  /\ \A status : Error(status).what = "error" /\ Error(status).hit = FALSE
BY DEF Error, Answer, Closed

Good(a, z, acc) == Feasible(a, PlanOf(a, z)) /\ ~(Watermarked(acc) /\ ~watermark)

RenditionOf(a, z, r) ==
  /\ r.fmt = a.qf.format /\ r.quality = a.qf.quality
  /\ r.mirror = a.rotation.mirror /\ r.angle = a.rotation.angle
  /\ r.plan = IF LostOf(a, PlanOf(a, z)) THEN [PlanOf(a, z) EXCEPT !.pixels = "undefined"] ELSE PlanOf(a, z)

AnswerTo(a, z, acc, t) ==
  /\ t.hit = FALSE
  /\ t.status = 200 <=> Good(a, z, acc)
  /\ t.status # 200 => t.what = "error"
  /\ t.status = 200 => t.what = "image" /\ RenditionOf(a, z, t.rendition)

\* What is good is a rendition, and everything else is an error.
LEMMA TranscodeAnswers ==
  ASSUME NEW a, NEW z, NEW acc
  PROVE  AnswerTo(a, z, acc, Transcode(a, z, acc))
<1> DEFINE t == Transcode(a, z, acc)
           plan == PlanOf(a, z)
           e == plan.err
           q == QualityOf(a, plan).err
           m == Watermarked(acc) /\ ~watermark
           w == WriteOut(QualityOf(a, plan).im, a.qf.format).err
           l == IF LostOf(a, plan) THEN [plan EXCEPT !.pixels = "undefined"] ELSE plan
           r == [fmt |-> a.qf.format, plan |-> l, mirror |-> a.rotation.mirror, angle |-> a.rotation.angle,
                 watermark |-> Watermarked(acc), quality |-> a.qf.quality]
           g == [Answer(200, "image") EXCEPT !.rendition = r]
<1>1. t = IF e = "image" THEN Error(500) ELSE IF e = "size" THEN Error(400) ELSE IF e = "iiif" THEN Error(Closed)
          ELSE IF q THEN Error(Closed) ELSE IF m THEN Error(500) ELSE IF w THEN Error(500) ELSE g
  BY TranscodeOutcome
<1>2. Feasible(a, plan) <=> e \notin {"image", "size", "iiif"} /\ ~q /\ ~w
  BY DEF Feasible
<1>3. r.fmt = a.qf.format /\ r.quality = a.qf.quality /\ r.mirror = a.rotation.mirror /\ r.angle = a.rotation.angle /\ r.plan = l
  <2> HIDE DEF l
  <2> QED
    OBVIOUS
<1> HIDE DEF t, plan, e, q, m, w, l, r
<1>4. g.status = 200 /\ g.what = "image" /\ g.hit = FALSE /\ g.rendition = r
  BY DEF Answer
<1> HIDE DEF g
<1>5. Error(400).status # 200 /\ Error(500).status # 200 /\ Error(Closed).status # 200
  BY ErrorFields
<1>6. \A status : Error(status).what = "error" /\ Error(status).hit = FALSE
  BY ErrorFields
<1>7. t.hit = FALSE
  BY <1>1, <1>4, <1>6
<1>8. t.status = 200 <=> Feasible(a, plan) /\ ~m
  BY <1>1, <1>2, <1>4, <1>5
<1>9. t.status # 200 => t.what = "error"
  BY <1>1, <1>4, <1>6
<1>10. t.status = 200 => t = g
  BY <1>1, <1>5
<1>11. t.status = 200 =>
         /\ t.what = "image"
         /\ t.rendition.fmt = a.qf.format /\ t.rendition.quality = a.qf.quality
         /\ t.rendition.mirror = a.rotation.mirror /\ t.rendition.angle = a.rotation.angle
         /\ t.rendition.plan = l
  BY <1>3, <1>4, <1>10
<1>12. t.status = 200 <=> Good(a, z, acc)
  BY <1>8 DEF Good, plan, m
<1>13. t.status = 200 => t.what = "image" /\ RenditionOf(a, z, t.rendition)
  BY <1>11 DEF RenditionOf, plan, l
<1> QED
  BY <1>7, <1>9, <1>12, <1>13 DEF t, AnswerTo

Errors == {"none", "image", "size", "iiif"}
IsPlan(p) == \E err \in Errors : \E c, by, nx, ny, px : p = Plan(err, c, by, nx, ny, px)

LEMMA PlansArePlans ==
  /\ \A c, by, nx, ny, px : IsPlan(Plan("none", c, by, nx, ny, px))
  /\ IsPlan(Refused("image")) /\ IsPlan(Refused("size")) /\ IsPlan(Refused("iiif"))
BY DEF IsPlan, Errors, Refused

LEMMA PngIsPlan ==
  ASSUME NEW f, NEW r, NEW z, NEW lim, NEW quality
  PROVE  IsPlan(ReadPng(f, r, z, lim, quality))
<1> DEFINE c == Area(r, 1, f.nx, f.ny)
           o == GetSize(z, c.w, c.h, 0, FALSE, lim)
           p == ReadPng(f, r, z, lim, quality)
           px == IF ReduceUndefined(o.reduce) THEN "undefined" ELSE Pixels(c, o.w, o.h, quality)
<1>1. p = IF c.err THEN Refused("iiif")
          ELSE IF z.type = "NONE" THEN Plan("none", c, 1, c.w, c.h, "asked")
          ELSE IF o.err THEN Refused("size")
          ELSE IF z.type = "FULL" /\ o.redonly THEN Plan("none", c, 1, c.w, c.h, "asked")
          ELSE Plan("none", c, 1, o.w, o.h, px)
  BY DEF ReadPng, SizedIn
<1> HIDE DEF c, o, p, px
<1>2. IsPlan(p)
  BY <1>1, PlansArePlans
<1> QED
  BY <1>2 DEF p

LEMMA JpegIsPlan ==
  ASSUME NEW f, NEW r, NEW z, NEW lim, NEW quality
  PROVE  IsPlan(ReadJpeg(f, r, z, lim, quality))
<1> DEFINE c == Area(r, 1, f.nx, f.ny)
           o == GetSize(z, c.w, c.h, 0, FALSE, lim)
           p == ReadJpeg(f, r, z, lim, quality)
           whole == r.type = "FULL"
           e == IF whole THEN o.reduce ELSE 1
           d == [c EXCEPT !.w = DecodedExtent(@, o.reduce), !.h = DecodedExtent(@, o.reduce)]
<1>1. p = IF c.err THEN Refused("iiif")
          ELSE IF ~whole /\ z.type = "NONE" THEN Plan("none", c, 1, c.w, c.h, "undefined")
          ELSE IF o.err /\ (~whole \/ ~AsItIs(z)) THEN Refused("size")
          ELSE IF AsItIs(z) THEN Plan("none", c, 1, c.w, c.h, "asked")
          ELSE IF ~whole THEN Plan("none", c, e, o.w, o.h, Pixels(c, o.w, o.h, quality))
          ELSE Plan("none", d, e, o.w, o.h, Pixels(d, o.w, o.h, quality))
  BY DEF ReadJpeg, SizedIn
<1> HIDE DEF c, o, p, e, d, whole
<1>2. IsPlan(p)
  BY <1>1, PlansArePlans
<1> QED
  BY <1>2 DEF p

LEMMA LevelIsPlan ==
  ASSUME NEW f, NEW r, NEW z, NEW lim, NEW quality, NEW level, NEW red
  PROVE  IsPlan(ReadLevel(f, r, z, lim, quality, level, red))
<1> DEFINE by == f.levels[level]
           a == Area(r, red, CeilDiv(f.nx, by), CeilDiv(f.ny, by))
           o == GetSize(z, a.w, a.h, 0, FALSE, lim)
           p == ReadLevel(f, r, z, lim, quality, level, red)
           found == IF f.tile > 0 THEN ReadTiledData(f, a) ELSE ReadStandardData(f, a)
           px == IF found = "asked" THEN Pixels(a, o.w, o.h, quality) ELSE found
           odd == f.tile > 0 /\ f.bps \notin {8, 16}
<1>1. p = IF a.err THEN Refused("iiif")
          ELSE IF odd THEN Refused("image")
          ELSE IF z.type # "NONE" /\ o.err THEN Refused("size")
          ELSE IF AsItIs(z) THEN Plan("none", a, by, a.w, a.h, found)
          ELSE Plan("none", a, by, o.w, o.h, px)
  BY Zenon DEF ReadLevel, SizedIn
<1> HIDE DEF a, o, p, found, px, odd, by
<1>2. IsPlan(p)
  BY <1>1, PlansArePlans
<1> QED
  BY <1>2 DEF p

LEMMA TiffIsPlan ==
  ASSUME NEW f, NEW r, NEW z, NEW lim, NEW quality
  PROVE  IsPlan(ReadTiff(f, r, z, lim, quality))
<1> DEFINE c == CropCoords(r, 1, f.nx, f.ny)
           o == GetSize(z, c.w, c.h, 1, FALSE, lim)
           p == ReadTiff(f, r, z, lim, quality)
           s == ReadLevel(f, r, z, lim, quality, 1, 1)
           t == ReadLevel(f, r, z, lim, quality, Level(f, o.reduce), o.reduce)
           one == Len(f.levels) = 1
<1>1. p = IF one THEN s
          ELSE IF c.err THEN Refused("iiif")
          ELSE IF z.type = "NONE" THEN Plan("none", c, 1, c.w, c.h, "undefined")
          ELSE IF o.err THEN Refused("size") ELSE t
  BY Zenon DEF ReadTiff, SizedIn
<1>2. IsPlan(s) /\ IsPlan(t)
  BY LevelIsPlan
<1> HIDE DEF c, o, p, s, t, one
<1>3. IsPlan(p)
  BY <1>1, <1>2, PlansArePlans
<1> QED
  BY <1>3 DEF p

LEMMA J2kIsPlan ==
  ASSUME NEW f, NEW r, NEW z, NEW lim, NEW quality
  PROVE  IsPlan(ReadJ2k(f, r, z, lim, quality))
<1> DEFINE c == Area(r, 1, f.nx, f.ny)
           m == Len(f.levels)
           o == GetSize(z, c.w, c.h, m, TRUE, lim)
           by == Min({b \in Powers : b >= o.reduce})
           d == Dropped(c, by)
           q == Outcome(FALSE, c.w, c.h, 1, TRUE)
           p == ReadJ2k(f, r, z, lim, quality)
           deep == by > 2^m
           none == 1 > 2^m
<1>1. p = IF c.err THEN Refused("image")
          ELSE IF AsItIs(z)
               THEN IF none \/ c.w = 0 \/ c.h = 0 THEN Plan("none", c, 1, q.w, q.h, "undefined")
                    ELSE IF q.redonly THEN Plan("none", c, 1, c.w, c.h, "asked")
                    ELSE Plan("none", c, 1, q.w, q.h, Pixels(c, q.w, q.h, quality))
          ELSE IF o.err THEN Refused("size")
          ELSE IF deep \/ d.w = 0 \/ d.h = 0 THEN Plan("none", d, by, o.w, o.h, "undefined")
          ELSE IF o.redonly THEN Plan("none", d, by, d.w, d.h, "asked")
          ELSE Plan("none", d, by, o.w, o.h, Pixels(d, o.w, o.h, quality))
  BY Zenon DEF ReadJ2k, SizedIn
<1> HIDE DEF c, m, o, by, d, q, p, deep, none
<1>2. IsPlan(p)
  BY <1>1, PlansArePlans
<1> QED
  BY <1>2 DEF p

LEMMA ReadIsPlan ==
  ASSUME NEW f, NEW r, NEW z, NEW lim, NEW quality
  PROVE  IsPlan(ReadPlan(f, r, z, lim, quality))
<1>1. CASE f.fmt = "png"
  BY <1>1, PngIsPlan DEF ReadPlan
<1>2. CASE f.fmt = "jpg"
  BY <1>2, JpegIsPlan DEF ReadPlan
<1>3. CASE f.fmt = "tif"
  BY <1>3, TiffIsPlan DEF ReadPlan
<1>4. CASE f.fmt = "jp2"
  BY <1>4, J2kIsPlan DEF ReadPlan
<1>5. CASE f.fmt \notin {"png", "jpg", "tif", "jp2"}
  BY <1>5, PlansArePlans DEF ReadPlan
<1> QED
  BY <1>1, <1>2, <1>3, <1>4, <1>5

LEMMA PlanError ==
  ASSUME NEW p, IsPlan(p)
  PROVE  p.err \in Errors
BY DEF IsPlan, Plan

\* The pixels of a plan may turn out to be lost, and nothing else.
Similar(p, e) ==
  /\ Same(p, e) /\ p.by = e.by /\ p.nx = e.nx /\ p.ny = e.ny
  /\ p.pixels = "undefined" \/ p.pixels = e.pixels

LEMMA LostIsSimilar ==
  ASSUME NEW p, IsPlan(p)
  PROVE  Similar([p EXCEPT !.pixels = "undefined"], p) /\ Similar(p, p)
BY DEF IsPlan, Plan, Similar, Same

\* The plan of a rendition that was made.
LEMMA RenderedPlan ==
  ASSUME NEW q, NEW r, Rendered(q, r)
  PROVE  /\ RenditionOf(Asked(q[1]), Chosen(q), r)
         /\ Feasible(Asked(q[1]), PlanOf(Asked(q[1]), Chosen(q)))
         /\ PlanOf(Asked(q[1]), Chosen(q)).err = "none"
         /\ Similar(r.plan, PlanOf(Asked(q[1]), Chosen(q)))
<1> DEFINE a == Asked(q[1])
           z == Chosen(q)
           t == Transcode(a, z, q[2])
           plan == PlanOf(a, z)
<1>1. t.status = 200 /\ r = t.rendition
  BY DEF Rendered, Made
<1>2. RenditionOf(a, z, r) /\ Feasible(a, plan)
  <2> DEFINE acc == q[2]
  <2> HIDE DEF a, z, acc
  <2>1. AnswerTo(a, z, acc, Transcode(a, z, acc))
    BY TranscodeAnswers
  <2>2. t = Transcode(a, z, acc)
    BY DEF acc
  <2> HIDE DEF t, plan
  <2>3. AnswerTo(a, z, acc, t)
    BY <2>1, <2>2
  <2>4. Good(a, z, acc) /\ RenditionOf(a, z, t.rendition)
    BY <1>1, <2>3 DEF AnswerTo
  <2>5. RenditionOf(a, z, r)
    BY <1>1, <2>4
  <2>6. Feasible(a, PlanOf(a, z))
    BY <2>4 DEF Good
  <2> QED
    BY <2>5, <2>6 DEF plan
<1>3. IsPlan(plan)
  BY ReadIsPlan DEF PlanOf
<1> HIDE DEF a, z, plan, t
<1>4. plan.err = "none"
  BY <1>2, <1>3, PlanError DEF Feasible, Errors
<1>5. r.plan = IF LostOf(a, plan) THEN [plan EXCEPT !.pixels = "undefined"] ELSE plan
  BY <1>2 DEF RenditionOf, plan
<1>6. Similar(r.plan, plan)
  BY <1>3, <1>5, LostIsSimilar
<1> QED
  BY <1>2, <1>4, <1>6 DEF a, z, plan

-----------------------------------------------------------------------------
(* What is kept and what is sent.                                          *)

FileKnown == file \in Masters \cup {Missing}

\* Whatever is in the cache was made for a request of that name.
CacheIsMade ==
  \A k \in DOMAIN cache : \E q \in Requests : \E r : r = cache[k] /\ Rendered(q, r) /\ Name(q).url = k

\* What was sent last was sent for a request that nothing is wrong with: the
\* master, what was made for it, or what was made for one of the same name.
SentFor(q) ==
  /\ last.url = q[1] /\ last.access = q[2] /\ Served(q)
  /\ \/ ~last.answer.hit /\ SentAsIs(Asked(q[1]), Chosen(q), q[2]) /\ last.answer.rendition = Original
     \/ \E r : ~last.answer.hit /\ r = last.answer.rendition /\ Rendered(q, r)
     \/ /\ last.answer.hit
        /\ \E p \in Requests : \E r : r = last.answer.rendition /\ Rendered(p, r) /\ Name(p).url = Name(q).url

SentIsServed == SentImage => \E q \in Requests : SentFor(q)
HitIsImage == last.answer.hit => SentImage

IInv == FileKnown /\ CacheIsMade /\ SentIsServed /\ HitIsImage

LEMMA UnchangedChosen ==
  ASSUME NEW q, file' = file
  PROVE  Chosen(q)' = Chosen(q)
BY DEF Chosen, SizeToSend, SizeOn

LEMMA UnchangedName ==
  ASSUME NEW q, file' = file
  PROVE  Name(q)' = Name(q)
BY UnchangedChosen DEF Name, Canonical

LEMMA UnchangedServed ==
  ASSUME NEW q, file' = file
  PROVE  Served(q)' <=> Served(q)
BY UnchangedName, Zenon DEF Served, SizeOn, Image, Name

LEMMA UnchangedTranscode ==
  ASSUME NEW a, NEW z, NEW acc, file' = file, watermark' = watermark
  PROVE  Transcode(a, z, acc)' = Transcode(a, z, acc)
<1> DEFINE plan == PlanOf(a, z)
           quality == QualityOf(a, plan)
           sent == IF LostOf(a, plan) THEN [plan EXCEPT !.pixels = "undefined"] ELSE plan
           Outcome2(p, q, r, mark) ==
             IF p.err = "image" THEN Error(500)
             ELSE IF p.err = "size" THEN Error(400)
             ELSE IF p.err = "iiif" THEN Error(Closed)
             ELSE IF q.err THEN Error(Closed)
             ELSE IF Watermarked(acc) /\ ~mark THEN Error(500)
             ELSE IF WriteOut(q.im, a.qf.format).err THEN Error(500)
             ELSE [Answer(200, "image") EXCEPT !.rendition =
                      [fmt |-> a.qf.format, plan |-> r,
                       mirror |-> a.rotation.mirror, angle |-> a.rotation.angle,
                       watermark |-> Watermarked(acc), quality |-> a.qf.quality]]
<1>1. plan' = plan
  BY DEF PlanOf, ScaledBy
<1>2. quality' = quality /\ sent' = sent
  <2> HIDE DEF plan
  <2>1. ImageOf(a, plan)' = ImageOf(a, plan)
    BY <1>1 DEF ImageOf
  <2>2. QualityOf(a, plan)' = QualityOf(a, plan)
    BY <2>1, Zenon DEF QualityOf
  <2>3. LostOf(a, plan)' <=> LostOf(a, plan)
    BY <2>1, <2>2, Zenon DEF LostOf
  <2> QED
    BY <1>1, <2>2, <2>3
<1>3. Transcode(a, z, acc)' = Outcome2(plan', quality', sent', watermark')
  BY Zenon DEF Transcode, PlanOf, QualityOf, ImageOf, LostOf
<1>4. Transcode(a, z, acc) = Outcome2(plan, quality, sent, watermark)
  BY Zenon DEF Transcode, PlanOf, QualityOf, ImageOf, LostOf
<1> HIDE DEF plan, quality, sent, Outcome2
<1> QED
  BY <1>1, <1>2, <1>3, <1>4, Zenon

LEMMA UnchangedMade ==
  ASSUME NEW q, file' = file, watermark' = watermark
  PROVE  Made(q)' = Made(q)
<1> DEFINE z == Chosen(q)
<1>1. z' = z
  BY UnchangedChosen
<1> HIDE DEF z
<1>2. Transcode(Asked(q[1]), z, q[2])' = Transcode(Asked(q[1]), z, q[2])
  BY <1>1, UnchangedTranscode
<1> QED
  BY <1>2 DEF Made, z

LEMMA UnchangedRendered ==
  ASSUME NEW q, NEW r, file' = file, watermark' = watermark
  PROVE  Rendered(q, r)' <=> Rendered(q, r)
BY UnchangedServed, UnchangedMade DEF Rendered

LEMMA UnchangedAsIs ==
  ASSUME NEW q, file' = file
  PROVE  /\ SentAsIs(Asked(q[1]), Chosen(q), q[2])' <=> SentAsIs(Asked(q[1]), Chosen(q), q[2])
         /\ Original' = Original
BY UnchangedChosen DEF SentAsIs, Original

\* What is sent for an image.
Refusal(s) == s.answer.what = "error" /\ s.answer.hit = FALSE /\ s.key = <<>>
Passed(q) ==
  /\ WellFormed(Asked(q[1])) /\ file # Missing
  /\ ~SizeOn(Asked(q[1]).size).err /\ ~SizeOn(Restriction(q[2])).err /\ ~Name(q).err

LEMMA SentAnswers ==
  ASSUME NEW q
  PROVE  \/ Refusal(SendIiifFile(q[1], q[2]))
         \/ /\ Passed(q) /\ SentAsIs(Asked(q[1]), Chosen(q), q[2])
            /\ SendIiifFile(q[1], q[2]) = [answer |-> [Answer(200, "image") EXCEPT !.rendition = Original], key |-> <<>>]
         \/ /\ Passed(q) /\ Name(q).url \in DOMAIN cache
            /\ SendIiifFile(q[1], q[2]) =
                 [answer |-> [Answer(200, "image") EXCEPT !.rendition = cache[Name(q).url], !.hit = TRUE], key |-> <<>>]
         \/ /\ Passed(q)
            /\ SendIiifFile(q[1], q[2]) = [answer |-> Made(q), key |-> Name(q).url]
<1> DEFINE url == q[1]
           acc == q[2]
           a == Asked(url)
           z == SizeToSend(a.size, acc)
           c == Canonical(url, a, z)
           s == SendIiifFile(url, acc)
           No(answer) == [answer |-> answer, key |-> <<>>]
           bad1 == NoIdentifier(url, "image")
           bad2 == Restriction(acc).type = "ERROR"
           bad3 == Admitted(acc)
           bad4 == GetDim(file).err
           bad5 == SizeOn(a.size).err
           bad6 == SizeOn(Restriction(acc)).err
           asis == SentAsIs(a, z, acc)
           orig == [Answer(200, "image") EXCEPT !.rendition = Original]
           kept == [Answer(200, "image") EXCEPT !.rendition = cache[c.url], !.hit = TRUE]
           made == Transcode(a, z, acc)
<1>1. s = IF bad1 THEN No(Error(Dead))
          ELSE IF ~WellFormed(a) THEN No(Error(400))
          ELSE IF acc.type = "error" THEN No(Error(500))
          ELSE IF bad2 THEN No(Error(Closed))
          ELSE IF ~bad3 THEN No(Error(401))
          ELSE IF file = Missing THEN No(Error(404))
          ELSE IF bad4 THEN No(Error(500))
          ELSE IF bad5 \/ bad6 THEN No(Error(400))
          ELSE IF c.err THEN No(Error(400))
          ELSE IF asis THEN No(orig)
          ELSE IF c.url \in DOMAIN cache THEN No(kept)
          ELSE [answer |-> made, key |-> c.url]
  BY Zenon DEF SendIiifFile
<1>2. \A status : Refusal(No(Error(status)))
  <2>1. \A status : Error(status).what = "error" /\ Error(status).hit = FALSE
    BY ErrorFields
  <2>2. \A answer : No(answer).answer = answer /\ No(answer).key = <<>>
    OBVIOUS
  <2> HIDE DEF No
  <2> QED
    BY <2>1, <2>2 DEF Refusal
<1>3. z = Chosen(q) /\ c = Name(q) /\ made = Made(q)
  BY DEF Chosen, Name, Made
<1> DEFINE passed == WellFormed(a) /\ file # Missing /\ ~bad5 /\ ~bad6 /\ ~c.err
<1>4. passed => Passed(q)
  BY <1>3 DEF Passed
<1> HIDE DEF s, a, z, c, bad1, bad2, bad3, bad4, bad5, bad6, asis, orig, kept, made
<1>5. \/ Refusal(s)
      \/ passed /\ asis /\ s = No(orig)
      \/ passed /\ c.url \in DOMAIN cache /\ s = No(kept)
      \/ passed /\ s = [answer |-> made, key |-> c.url]
  <2> HIDE DEF No
  <2>1. \/ \E status : s = No(Error(status))
        \/ passed /\ asis /\ s = No(orig)
        \/ passed /\ c.url \in DOMAIN cache /\ s = No(kept)
        \/ passed /\ s = [answer |-> made, key |-> c.url]
    BY <1>1
  <2> QED
    BY <1>2, <2>1
<1>6. CASE Refusal(s)
  BY <1>6 DEF s
<1>7. CASE passed /\ asis /\ s = No(orig)
  BY <1>3, <1>4, <1>7, Zenon DEF s, asis, orig, a
<1>8. CASE passed /\ c.url \in DOMAIN cache /\ s = No(kept)
  BY <1>3, <1>4, <1>8, Zenon DEF s, kept
<1>9. CASE passed /\ s = [answer |-> made, key |-> c.url]
  BY <1>3, <1>4, <1>9, Zenon DEF s
<1> QED
  BY <1>5, <1>6, <1>7, <1>8, <1>9

LEMMA InitIsKept ==
  ASSUME Init
  PROVE  IInv
<1>1. DOMAIN cache = {}
  BY DEF Init
<1>2. last.answer.what = "none" /\ last.answer.hit = FALSE
  BY DEF Init, Answer
<1>3. FileKnown
  BY DEF Init, FileKnown
<1> QED
  BY <1>1, <1>2, <1>3 DEF IInv, CacheIsMade, SentIsServed, SentImage, HitIsImage

\* Nothing kept is lost, and what is added has been made.
LEMMA CacheStaysMade ==
  ASSUME CacheIsMade, file' = file, watermark' = watermark,
         NEW q, NEW r, Rendered(q, r), NEW k, k = Name(q).url,
         cache' = [i \in DOMAIN cache \cup {k} |-> IF i = k THEN r ELSE cache[i]]
  PROVE  CacheIsMade'
<1>1. \A p, t : (Rendered(p, t)' <=> Rendered(p, t)) /\ Name(p)' = Name(p)
  BY UnchangedRendered, UnchangedName
<1>2. q \in Requests
  BY DEF Rendered, Served, Image
<1>3. DOMAIN cache' = DOMAIN cache \cup {k}
  OBVIOUS
<1>4. ASSUME NEW i \in DOMAIN cache'
      PROVE  \E p \in Requests : \E t : t = cache'[i] /\ Rendered(p, t) /\ Name(p).url = i
  <2>1. CASE i # k
    <3>1. cache'[i] = cache[i]
      BY <2>1
    <3>2. i \in DOMAIN cache
      BY <1>3, <2>1
    <3> QED
      BY <3>1, <3>2 DEF CacheIsMade
  <2>2. CASE i = k
    <3>1. cache'[i] = r
      BY <1>3, <2>2
    <3> QED
      BY <1>2, <2>2, <3>1
  <2> QED
    BY <2>1, <2>2
<1> QED
  BY <1>1, <1>4 DEF CacheIsMade

LEMMA CacheStays ==
  ASSUME CacheIsMade, file' = file, watermark' = watermark, cache' = cache
  PROVE  CacheIsMade'
<1>1. \A p, t : (Rendered(p, t)' <=> Rendered(p, t)) /\ Name(p)' = Name(p)
  BY UnchangedRendered, UnchangedName
<1> QED
  BY <1>1 DEF CacheIsMade

LEMMA PassedIsServed ==
  ASSUME FileKnown, NEW q, Image(q), Passed(q)
  PROVE  Served(q)
BY DEF FileKnown, Passed, Served

\* An answer without an image leaves what is kept alone.
LEMMA WithoutImage ==
  ASSUME IInv, NEW url, NEW acc, NEW answer, Handled(url, acc, answer), cache' = cache,
         answer.what # "image", answer.hit = FALSE
  PROVE  IInv'
<1>1. file' = file /\ watermark' = watermark /\ last'.answer = answer
  BY DEF Handled
<1>2. CacheIsMade'
  BY <1>1, CacheStays DEF IInv
<1>3. FileKnown'
  BY <1>1 DEF IInv, FileKnown
<1>4. SentIsServed' /\ HitIsImage'
  BY <1>1 DEF SentIsServed, HitIsImage, SentImage
<1> QED
  BY <1>2, <1>3, <1>4 DEF IInv

LEMMA ImageIsKept ==
  ASSUME IInv, NEW q, Image(q), ImageRequest(q[1], q[2])
  PROVE  IInv'
<1> DEFINE s == SendIiifFile(q[1], q[2])
           key == Name(q).url
<1>1. /\ Handled(q[1], q[2], s.answer)
      /\ cache' = IF s.key # <<>> /\ s.answer.status = 200
                  THEN [k \in DOMAIN cache \cup {s.key} |-> IF k = s.key THEN s.answer.rendition ELSE cache[k]]
                  ELSE cache
  BY DEF ImageRequest
<1>2. \/ Refusal(s)
      \/ /\ Passed(q) /\ SentAsIs(Asked(q[1]), Chosen(q), q[2])
         /\ s = [answer |-> [Answer(200, "image") EXCEPT !.rendition = Original], key |-> <<>>]
      \/ /\ Passed(q) /\ key \in DOMAIN cache
         /\ s = [answer |-> [Answer(200, "image") EXCEPT !.rendition = cache[key], !.hit = TRUE], key |-> <<>>]
      \/ /\ Passed(q) /\ s = [answer |-> Made(q), key |-> key]
  BY SentAnswers
<1> HIDE DEF s, key
<1>3. /\ file' = file /\ watermark' = watermark
      /\ last'.answer = s.answer /\ last'.url = q[1] /\ last'.access = q[2]
  BY <1>1 DEF Handled
<1>4. FileKnown /\ FileKnown'
  BY <1>3 DEF IInv, FileKnown
<1>5. q \in Requests
  BY DEF Image
<1>6. /\ Served(q)' <=> Served(q)
      /\ \A p, t : (Rendered(p, t)' <=> Rendered(p, t)) /\ Name(p)' = Name(p)
  BY <1>3, UnchangedServed, UnchangedRendered, UnchangedName
<1>7. /\ SentAsIs(Asked(q[1]), Chosen(q), q[2])' <=> SentAsIs(Asked(q[1]), Chosen(q), q[2])
      /\ Original' = Original
  BY <1>3, UnchangedAsIs
<1>8. CASE Refusal(s)
  <2>1. s.answer.what # "image" /\ s.answer.hit = FALSE /\ cache' = cache
    BY <1>1, <1>8 DEF Refusal
  <2> QED
    BY <1>1, <2>1, WithoutImage
<1>9. CASE /\ Passed(q) /\ SentAsIs(Asked(q[1]), Chosen(q), q[2])
           /\ s = [answer |-> [Answer(200, "image") EXCEPT !.rendition = Original], key |-> <<>>]
  <2>1. s.answer.hit = FALSE /\ s.answer.rendition = Original /\ s.key = <<>>
    BY <1>9 DEF Answer
  <2>2. CacheIsMade'
    BY <1>1, <1>3, <2>1, CacheStays DEF IInv
  <2>3. Served(q)
    BY <1>4, <1>9, PassedIsServed
  <2>4. SentFor(q)'
    BY <1>3, <1>6, <1>7, <1>9, <2>1, <2>3 DEF SentFor
  <2>5. SentIsServed' /\ HitIsImage'
    BY <1>3, <1>5, <2>1, <2>4 DEF SentIsServed, HitIsImage
  <2> QED
    BY <1>4, <2>2, <2>5 DEF IInv
<1>10. CASE /\ Passed(q) /\ key \in DOMAIN cache
            /\ s = [answer |-> [Answer(200, "image") EXCEPT !.rendition = cache[key], !.hit = TRUE], key |-> <<>>]
  <2>1. /\ s.answer.rendition = cache[key] /\ s.key = <<>>
        /\ s.answer.what = "image" /\ s.answer.status = 200 /\ s.answer.hit
    BY <1>10 DEF Answer
  <2>2. CacheIsMade'
    BY <1>1, <1>3, <2>1, CacheStays DEF IInv
  <2>3. Served(q)
    BY <1>4, <1>10, PassedIsServed
  <2>4. PICK p, r : p \in Requests /\ r = cache[key] /\ Rendered(p, r) /\ Name(p).url = key
    BY <1>10 DEF IInv, CacheIsMade
  <2>5. Name(p)'.url = Name(q)'.url
    BY <1>6, <2>4 DEF key
  <2>6. SentFor(q)'
    BY <1>3, <1>6, <2>1, <2>3, <2>4, <2>5 DEF SentFor
  <2>7. SentIsServed' /\ HitIsImage'
    BY <1>3, <1>5, <2>1, <2>6 DEF SentIsServed, HitIsImage, SentImage
  <2> QED
    BY <1>4, <2>2, <2>7 DEF IInv
<1>11. CASE Passed(q) /\ s = [answer |-> Made(q), key |-> key]
  <2>1. s.answer = Made(q) /\ s.key = key
    BY <1>11
  <2>2. /\ Made(q).hit = FALSE
        /\ Made(q).status # 200 => Made(q).what = "error"
    <3> DEFINE a == Asked(q[1])
               z == Chosen(q)
               acc == q[2]
    <3> HIDE DEF a, z, acc
    <3>1. AnswerTo(a, z, acc, Transcode(a, z, acc))
      BY TranscodeAnswers
    <3> QED
      BY <3>1 DEF Made, AnswerTo, a, z, acc
  <2>3. CASE Made(q).status # 200
    <3>1. s.answer.what # "image" /\ s.answer.hit = FALSE /\ cache' = cache
      BY <1>1, <2>1, <2>2, <2>3
    <3> QED
      BY <1>1, <3>1, WithoutImage
  <2>4. CASE Made(q).status = 200
    <3> DEFINE r == Made(q).rendition
    <3>1. Served(q)
      BY <1>4, <1>11, PassedIsServed
    <3>2. Rendered(q, r)
      BY <2>4, <3>1 DEF Rendered
    <3> HIDE DEF r
    <3>3. r = last'.answer.rendition /\ s.answer.rendition = r
      BY <1>3, <2>1 DEF r
    <3>4. CacheIsMade'
      <4>1. CASE key = <<>>
        BY <1>1, <1>3, <2>1, <4>1, CacheStays DEF IInv
      <4>2. CASE key # <<>>
        <5>1. cache' = [k \in DOMAIN cache \cup {key} |-> IF k = key THEN r ELSE cache[k]]
          BY <1>1, <2>1, <2>4, <3>3, <4>2
        <5> QED
          BY <1>3, <3>2, <5>1, CacheStaysMade DEF IInv, key
      <4> QED
        BY <4>1, <4>2
    <3>5. SentFor(q)'
      BY <1>3, <1>6, <2>1, <2>2, <3>1, <3>2, <3>3 DEF SentFor
    <3>6. SentIsServed' /\ HitIsImage'
      BY <1>3, <1>5, <2>1, <2>2, <3>5 DEF SentIsServed, HitIsImage
    <3> QED
      BY <1>4, <3>4, <3>6 DEF IInv
  <2> QED
    BY <2>3, <2>4
<1> QED
  BY <1>2, <1>8, <1>9, <1>10, <1>11

LEMMA OtherAnswers ==
  /\ \A url, acc : SendIiifInfo(url, acc).what # "image" /\ SendIiifInfo(url, acc).hit = FALSE
  /\ \A url, acc, range : SendIiifBlob(url, acc, range).what # "image" /\ SendIiifBlob(url, acc, range).hit = FALSE
  /\ \A url : SendIiifSpecial(url).what # "image" /\ SendIiifSpecial(url).hit = FALSE
  /\ \A s : RunScript(s).what # "image" /\ RunScript(s).hit = FALSE
  /\ Error(400).what # "image" /\ Error(400).hit = FALSE
  /\ Answer(303, "redirect").what # "image" /\ Answer(303, "redirect").hit = FALSE
<1>1. \A url, acc : SendIiifInfo(url, acc).what # "image" /\ SendIiifInfo(url, acc).hit = FALSE
  BY DEF SendIiifInfo, Error, Answer
<1>2. \A url, acc, range : SendIiifBlob(url, acc, range).what # "image" /\ SendIiifBlob(url, acc, range).hit = FALSE
  BY DEF SendIiifBlob, Error, Answer
<1>3. \A url : SendIiifSpecial(url).what # "image" /\ SendIiifSpecial(url).hit = FALSE
  BY DEF SendIiifSpecial, Error, Answer
<1>4. \A s : RunScript(s).what # "image" /\ RunScript(s).hit = FALSE
  BY DEF RunScript, Error, Answer
<1> QED
  BY <1>1, <1>2, <1>3, <1>4 DEF Error, Answer

LEMMA StepIsKept ==
  ASSUME IInv, [Next]_vars
  PROVE  IInv'
<1>1. ASSUME NEW q \in Requests, Dispatch(q[1]) = "image", ImageRequest(q[1], q[2])
      PROVE  IInv'
  BY <1>1, ImageIsKept DEF Image
<1>2. ASSUME NEW q \in Requests, InfoRequest(q[1], q[2])
      PROVE  IInv'
  <2>1. SendIiifInfo(q[1], q[2]).what # "image" /\ SendIiifInfo(q[1], q[2]).hit = FALSE
    BY OtherAnswers
  <2>2. Handled(q[1], q[2], SendIiifInfo(q[1], q[2])) /\ cache' = cache
    BY <1>2 DEF InfoRequest
  <2> QED
    BY <2>1, <2>2, WithoutImage
<1>3. ASSUME NEW q \in Requests, BlobRequest(q[1], q[2])
      PROVE  IInv'
  <2>1. PICK range : Handled(q[1], q[2], SendIiifBlob(q[1], q[2], range)) /\ cache' = cache
    BY <1>3 DEF BlobRequest
  <2>2. SendIiifBlob(q[1], q[2], range).what # "image" /\ SendIiifBlob(q[1], q[2], range).hit = FALSE
    BY OtherAnswers
  <2> QED
    BY <2>1, <2>2, WithoutImage
<1>4. ASSUME NEW q \in Requests, SpecialRequest(q[1], q[2])
      PROVE  IInv'
  <2> DEFINE a == SendIiifSpecial(q[1])
  <2>1. Handled(q[1], q[2], a) /\ cache' = cache
    BY <1>4 DEF SpecialRequest
  <2>2. a.what # "image" /\ a.hit = FALSE
    BY OtherAnswers
  <2> HIDE DEF a
  <2> QED
    BY <2>1, <2>2, WithoutImage
<1>5. ASSUME NEW q \in Requests, Redirect(q[1], q[2])
      PROVE  IInv'
  <2> DEFINE a == Answer(303, "redirect")
  <2>1. Handled(q[1], q[2], a) /\ cache' = cache
    BY <1>5 DEF Redirect
  <2>2. a.what # "image" /\ a.hit = FALSE
    BY OtherAnswers
  <2> HIDE DEF a
  <2> QED
    BY <2>1, <2>2, WithoutImage
<1>6. ASSUME NEW q \in Requests, BadRequest(q[1], q[2])
      PROVE  IInv'
  <2> DEFINE a == Error(400)
  <2>1. Handled(q[1], q[2], a) /\ cache' = cache
    BY <1>6 DEF BadRequest
  <2>2. a.what # "image" /\ a.hit = FALSE
    BY OtherAnswers
  <2> HIDE DEF a
  <2> QED
    BY <2>1, <2>2, WithoutImage
<1>7. ASSUME ScriptRequest
      PROVE  IInv'
  <2>1. PICK p \in Scripts : Handled(<<>>, NoPreflight, RunScript(p)) /\ cache' = cache
    BY <1>7 DEF ScriptRequest
  <2> DEFINE a == RunScript(p)
             u == <<>>
  <2>2. Handled(u, NoPreflight, a)
    BY <2>1
  <2>3. a.what # "image" /\ a.hit = FALSE
    BY OtherAnswers
  <2> HIDE DEF a, u
  <2> QED
    BY <2>1, <2>2, <2>3, WithoutImage
<1>8. ASSUME UNCHANGED vars
      PROVE  IInv'
  <2>1. file' = file /\ watermark' = watermark /\ cache' = cache /\ last' = last
    BY <1>8 DEF vars
  <2>2. CacheIsMade'
    BY <2>1, CacheStays DEF IInv
  <2>3. FileKnown' /\ HitIsImage'
    BY <2>1 DEF IInv, FileKnown, HitIsImage, SentImage
  <2>4. SentIsServed'
    <3> SUFFICES ASSUME SentImage
                 PROVE  \E q \in Requests : SentFor(q)'
      BY <2>1 DEF SentIsServed, SentImage
    <3>1. PICK q \in Requests : SentFor(q)
      BY DEF IInv, SentIsServed
    <3>2. /\ Served(q)' <=> Served(q)
          /\ \A p, t : (Rendered(p, t)' <=> Rendered(p, t)) /\ Name(p)' = Name(p)
      BY <2>1, UnchangedServed, UnchangedRendered, UnchangedName
    <3>3. /\ SentAsIs(Asked(q[1]), Chosen(q), q[2])' <=> SentAsIs(Asked(q[1]), Chosen(q), q[2])
          /\ Original' = Original
      BY <2>1, UnchangedAsIs
    <3>4. SentFor(q)'
      BY <2>1, <3>1, <3>2, <3>3 DEF SentFor
    <3> QED
      BY <3>4
  <2> QED
    BY <2>2, <2>3, <2>4 DEF IInv
<1> QED
  BY <1>1, <1>2, <1>3, <1>4, <1>5, <1>6, <1>7, <1>8 DEF Next, Request, Over

\* What the handler keeps and sends is what it was asked for: each rendition in
\* the cache was made by transcoding the master for a request of its canonical
\* URL, and what send_iiif_file() sends is the master, a rendition it has just
\* made, or one made for a request of the same canonical URL.
THEOREM SentAreKept == Spec => []IInv
<1>1. Init => IInv
  BY InitIsKept
<1>2. IInv /\ [Next]_vars => IInv'
  BY StepIsKept
<1> QED
  BY <1>1, <1>2, PTL DEF Spec

LEMMA RenderedInside ==
  ASSUME NumbersFit, NEW i, NEW r, Rendered(i, r)
  PROVE  InLevel(r.plan)
<1> DEFINE a == Asked(i[1]).region
           z == Chosen(i)
           e == ReadPlan(file, a, z, Limits, ScaledBy)
           p == r.plan
<1>1. Served(i)
  BY DEF Rendered
<1>2. Readable(a, z)
  BY <1>1, ServedReadable
<1>3. e.err = "none" /\ Similar(p, e)
  BY RenderedPlan DEF PlanOf
<1> HIDE DEF a, z, p
<1>4. Delivered(a, z, e)
  BY <1>2, <1>3, PlanDelivers
<1> HIDE DEF e
<1>5. InLevel(p)
  BY <1>3, <1>4 DEF Delivered, InLevel, Similar, Same
<1> QED
  BY <1>5 DEF p

\* The rectangle of what is sent, also of what is sent again.
LEMMA SentInside ==
  ASSUME NumbersFit, IInv
  PROVE  RegionInside
<1> SUFFICES ASSUME SentImage
             PROVE  LET p == last.answer.rendition.plan
                    IN  /\ p.x >= 0 /\ p.x + p.w <= LevelSide(file.nx, p.by)
                        /\ p.y >= 0 /\ p.y + p.h <= LevelSide(file.ny, p.by)
                        /\ p.pixels = "undefined" \/ (p.w > 0 /\ p.h > 0)
  BY DEF RegionInside
<1> DEFINE p == last.answer.rendition.plan
<1>1. PICK q \in Requests : SentFor(q)
  BY DEF IInv, SentIsServed
<1>2. ASSUME NEW i, NEW r, r = last.answer.rendition, Rendered(i, r)
      PROVE  InLevel(p)
  BY <1>2, RenderedInside
<1>3. CASE SentAsIs(Asked(q[1]), Chosen(q), q[2]) /\ last.answer.rendition = Original
  <2>1. file \in Masters
    BY <1>1 DEF SentFor, Served
  <2>2. file.nx \in Nat \ {0} /\ file.ny \in Nat \ {0}
    BY <2>1, MasterSides
  <2>3. p.x = 0 /\ p.y = 0 /\ p.w = file.nx /\ p.h = file.ny /\ p.by = 1
    BY <1>3 DEF Original, Plan
  <2>4. LevelSide(file.nx, 1) = file.nx /\ LevelSide(file.ny, 1) = file.ny
    BY <2>2, WholeLevel
  <2> HIDE DEF p
  <2>5. InLevel(p)
    BY <2>2, <2>3, <2>4 DEF InLevel
  <2> QED
    BY <2>5 DEF InLevel, p
<1>4. CASE ~(SentAsIs(Asked(q[1]), Chosen(q), q[2]) /\ last.answer.rendition = Original)
  <2>1. InLevel(p)
    BY <1>1, <1>2, <1>4 DEF SentFor
  <2> QED
    BY <2>1 DEF InLevel
<1> QED
  BY <1>3, <1>4

\* The readers take a rectangle inside of the level they read, for every region
\* that crop_coords() does not refuse, of masters of any extent and levels.
THEOREM SentIsInside ==
  ASSUME NumbersFit
  PROVE  Spec => []RegionInside
<1>1. IInv => RegionInside
  BY SentInside
<1> QED
  BY <1>1, SentAreKept, PTL

-----------------------------------------------------------------------------
(* What one name stands for.                                               *)

\* The parts of a name.
LEMMA NameParts ==
  ASSUME NEW p, NEW q, Name(p).url = Name(q).url
  PROVE  /\ RegionCanonical(Asked(p[1]).region, file.nx, file.ny) = RegionCanonical(Asked(q[1]).region, file.nx, file.ny)
         /\ SizeCanonical(Chosen(p), SizeOn(Chosen(p))) = SizeCanonical(Chosen(q), SizeOn(Chosen(q)))
         /\ RotationCanonical(Asked(p[1]).rotation) = RotationCanonical(Asked(q[1]).rotation)
         /\ Asked(p[1]).qf.quality = Asked(q[1]).qf.quality
         /\ Asked(p[1]).qf.format = Asked(q[1]).qf.format
<1> DEFINE Id(i) == PrefixAndId(i[1], "image")
           Re(i) == RegionCanonical(Asked(i[1]).region, file.nx, file.ny)
           Si(i) == SizeCanonical(Chosen(i), SizeOn(Chosen(i)))
           Ro(i) == RotationCanonical(Asked(i[1]).rotation)
           Qu(i) == Asked(i[1]).qf.quality
           Fo(i) == Asked(i[1]).qf.format
<1>1. ASSUME NEW i
      PROVE  Name(i).url = <<Id(i), Re(i), Si(i), Ro(i), Qu(i), Fo(i)>>
  BY DEF Name, Canonical, GetCanonicalUrl, SizeOn
<1> HIDE DEF Id, Re, Si, Ro, Qu, Fo
<1>2. <<Id(p), Re(p), Si(p), Ro(p), Qu(p), Fo(p)>> = <<Id(q), Re(q), Si(q), Ro(q), Qu(q), Fo(q)>>
  BY <1>1
<1>3. Re(p) = Re(q) /\ Si(p) = Si(q) /\ Ro(p) = Ro(q) /\ Qu(p) = Qu(q) /\ Fo(p) = Fo(q)
  BY <1>2
<1> QED
  BY <1>3 DEF Re, Si, Ro, Qu, Fo

LEMMA TupleLengths ==
  /\ \A a, b, c, d, e : <<a>> # <<b, c, d, e>>
  /\ \A a, b, c, d, e : <<a, b>> # <<c, d, e>>
<1>1. ASSUME NEW a, NEW b, NEW c, NEW d, NEW e PROVE <<a>> # <<b, c, d, e>>
  OBVIOUS
<1>2. ASSUME NEW a, NEW b, NEW c, NEW d, NEW e PROVE <<a, b>> # <<c, d, e>>
  OBVIOUS
<1> QED
  BY <1>1, <1>2

\* Two texts of regions are the same when the rectangles are.
LEMMA RegionText ==
  ASSUME NEW r, NEW s, RegionCanonical(r, file.nx, file.ny) = RegionCanonical(s, file.nx, file.ny)
  PROVE  /\ r.type = "FULL" <=> s.type = "FULL"
         /\ r.type # "FULL" => Same(Region(r), Region(s))
<1> DEFINE c == Region(r)
           d == Region(s)
<1>1. /\ RegionCanonical(r, file.nx, file.ny) = IF r.type = "FULL" THEN <<"full">> ELSE <<c.x, c.y, c.w, c.h>>
      /\ RegionCanonical(s, file.nx, file.ny) = IF s.type = "FULL" THEN <<"full">> ELSE <<d.x, d.y, d.w, d.h>>
  BY DEF RegionCanonical, Region
<1> HIDE DEF c, d
<1>2. <<"full">> # <<c.x, c.y, c.w, c.h>> /\ <<"full">> # <<d.x, d.y, d.w, d.h>>
  BY TupleLengths
<1>3. r.type = "FULL" <=> s.type = "FULL"
  BY <1>1, <1>2
<1>4. ASSUME r.type # "FULL" PROVE Same(c, d)
  <2>1. <<c.x, c.y, c.w, c.h>> = <<d.x, d.y, d.w, d.h>>
    BY <1>1, <1>3, <1>4
  <2> QED
    BY <2>1 DEF Same
<1> QED
  BY <1>3, <1>4 DEF c, d

\* Two texts of sizes are the same when the extents on the image are.
LEMMA SizeText ==
  ASSUME NEW z, NEW y, SizeCanonical(z, SizeOn(z)) = SizeCanonical(y, SizeOn(y))
  PROVE  /\ z.type = "FULL" <=> y.type = "FULL"
         /\ z.up = y.up
         /\ z.type # "FULL" => SizeOn(z).w = SizeOn(y).w /\ SizeOn(z).h = SizeOn(y).h
<1> DEFINE n == SizeOn(z).w
           m == SizeOn(z).h
           k == SizeOn(y).w
           l == SizeOn(y).h
<1>1. /\ SizeCanonical(z, SizeOn(z)) = IF z.type = "FULL" THEN <<z.up, "max">> ELSE <<z.up, n, m>>
      /\ SizeCanonical(y, SizeOn(y)) = IF y.type = "FULL" THEN <<y.up, "max">> ELSE <<y.up, k, l>>
  BY DEF SizeCanonical
<1> HIDE DEF n, m, k, l
<1>2. <<z.up, "max">> # <<y.up, k, l>> /\ <<y.up, "max">> # <<z.up, n, m>>
  BY TupleLengths
<1>3. z.type = "FULL" <=> y.type = "FULL"
  BY <1>1, <1>2
<1>4. CASE z.type = "FULL"
  <2>1. <<z.up, "max">> = <<y.up, "max">>
    BY <1>1, <1>3, <1>4
  <2> QED
    BY <1>3, <1>4, <2>1
<1>5. CASE z.type # "FULL"
  <2>1. <<z.up, n, m>> = <<y.up, k, l>>
    BY <1>1, <1>3, <1>5
  <2> QED
    BY <1>3, <1>5, <2>1 DEF n, m, k, l
<1> QED
  BY <1>4, <1>5

LEMMA FullSizesAgree ==
  ASSUME NEW z, NEW y, Proper(z), Proper(y), z.type = "FULL", y.type = "FULL", z.up = y.up
  PROVE  z = y
<1>1. /\ z.nx = 0 /\ z.ny = 0 /\ z.percent = 0 /\ z.reduce = 0
      /\ y.nx = 0 /\ y.ny = 0 /\ y.percent = 0 /\ y.reduce = 0
  BY DEF Proper, IsSize
<1> QED
  BY <1>1 DEF Proper, IsSize

LEMMA ParsedRotation ==
  ASSUME NEW s, ~ParseRotation(s).err
  PROVE  /\ ParseRotation(s).mirror = s.mirror /\ ParseRotation(s).angle = s.angle
         /\ ~(s.angle < 0 \/ s.angle >= 36000)
<1> DEFINE e == s.angle < 0 \/ s.angle >= 36000
           p == ParseRotation(s)
<1>1. p = [err |-> e, mirror |-> s.mirror, angle |-> s.angle]
  BY DEF ParseRotation
<1>2. ~p.err
  OBVIOUS
<1> HIDE DEF e, p
<1>3. p.mirror = s.mirror /\ p.angle = s.angle
  BY <1>1
<1>4. p.err = e
  BY <1>1, Zenon
<1>5. ~e
  BY <1>2, <1>4
<1> QED
  BY <1>3, <1>5 DEF e, p

\* Two texts of angles are less than a tenth of a degree apart.
LEMMA RotationText ==
  ASSUME NEW s \in [mirror : BOOLEAN, angle : Int], NEW t \in [mirror : BOOLEAN, angle : Int],
         ~ParseRotation(s).err, ~ParseRotation(t).err,
         RotationCanonical(ParseRotation(s)) = RotationCanonical(ParseRotation(t))
  PROVE  /\ s.mirror = t.mirror /\ Near(s.angle, t.angle, 10)
         /\ s.angle = 0 <=> t.angle = 0
<1> DEFINE a == s.angle
           b == t.angle
           k == LRound(a, 10)
           l == LRound(b, 10)
<1>1. /\ ParseRotation(s).mirror = s.mirror /\ ParseRotation(s).angle = a /\ a \in Nat
      /\ ParseRotation(t).mirror = t.mirror /\ ParseRotation(t).angle = b /\ b \in Nat
  <2>1. a \in Int /\ b \in Int
    OBVIOUS
  <2>2. ParseRotation(s).mirror = s.mirror /\ ParseRotation(s).angle = a /\ ~(a < 0)
    BY ParsedRotation
  <2>3. ParseRotation(t).mirror = t.mirror /\ ParseRotation(t).angle = b /\ ~(b < 0)
    BY ParsedRotation
  <2> HIDE DEF a, b
  <2> QED
    BY <2>1, <2>2, <2>3
<1>2. <<s.mirror, IF a % 100 = 0 THEN <<"deg", a \div 100>> ELSE <<"tenths", k>>>>
      = <<t.mirror, IF b % 100 = 0 THEN <<"deg", b \div 100>> ELSE <<"tenths", l>>>>
  BY <1>1 DEF RotationCanonical
<1> DEFINE ten == 10
           da == a \div 100
           db == b \div 100
<1>3. ten \in Nat \ {0}
  OBVIOUS
<1>4. /\ a \in Nat /\ b \in Nat /\ a = 100 * da + (a % 100) /\ b = 100 * db + (b % 100)
      /\ da \in Nat /\ db \in Nat /\ a % 100 \in Nat /\ b % 100 \in Nat
  BY <1>1
<1> DEFINE ra == a % 100
           rb == b % 100
<1> HIDE DEF a, b, da, db, ra, rb
<1>5. /\ k = (2 * a + 10) \div 20 /\ l = (2 * b + 10) \div 20
  BY <1>4 DEF LRound
<1>6. k \in Nat /\ l \in Nat /\ 20 * k <= 2 * a + 10 /\ 2 * a + 10 < 20 * k + 20
      /\ 20 * l <= 2 * b + 10 /\ 2 * b + 10 < 20 * l + 20
  BY <1>4, <1>5
<1> HIDE DEF k, l
<1>7. s.mirror = t.mirror
      /\ (IF ra = 0 THEN <<"deg", da>> ELSE <<"tenths", k>>) = (IF rb = 0 THEN <<"deg", db>> ELSE <<"tenths", l>>)
  BY <1>2 DEF ra, rb, da, db
<1>8. \/ ra = 0 /\ rb = 0 /\ da = db
      \/ ra # 0 /\ rb # 0 /\ k = l
  <2>1. "deg" # "tenths"
    OBVIOUS
  <2>2. CASE ra = 0
    <3>1. <<"deg", da>> = IF rb = 0 THEN <<"deg", db>> ELSE <<"tenths", l>>
      BY <1>7, <2>2
    <3> QED
      BY <2>1, <2>2, <3>1
  <2>3. CASE ra # 0
    <3>1. <<"tenths", k>> = IF rb = 0 THEN <<"deg", db>> ELSE <<"tenths", l>>
      BY <1>7, <2>3
    <3> QED
      BY <2>1, <2>3, <3>1
  <2> QED
    BY <2>2, <2>3
<1>9. a = 100 * da + ra /\ b = 100 * db + rb /\ ra \in Nat /\ rb \in Nat
  BY <1>4 DEF ra, rb
<1>10. Near(a, b, 10) /\ (a = 0 <=> b = 0)
  BY <1>4, <1>6, <1>8, <1>9 DEF Near
<1> QED
  BY <1>7, <1>10 DEF a, b

-----------------------------------------------------------------------------
(* What is read for one name.                                              *)

\* A name is had of a region inside and of a size that can be had.
LEMMA ServedName ==
  ASSUME NEW q, Served(q)
  PROVE  /\ Asked(q[1]).region.type # "FULL" => ~Region(Asked(q[1]).region).err
         /\ Chosen(q).type # "FULL" => ~SizeOn(Chosen(q)).err
<1> DEFINE a == Asked(q[1])
           z == Chosen(q)
           e == a.region.type # "FULL" /\ Region(a.region).err
           g == z.type # "FULL" /\ SizeOn(z).err
           k == a.qf.format \notin {"jpg", "jp2", "tif", "png"}
           n == Name(q)
           b == e \/ g \/ k
<1>1. PICK u : n = [err |-> b, url |-> u]
  BY Zenon DEF Name, Canonical, GetCanonicalUrl, Region, SizeOn
<1>2. ~n.err
  BY DEF Served
<1> HIDE DEF a, z, e, g, k, n, b
<1>3. n.err = b
  BY <1>1, Zenon
<1>4. ~e /\ ~g
  BY <1>2, <1>3 DEF b
<1> QED
  BY <1>4 DEF e, g, a, z

\* All of the image, as the readers see it.
AllOfIt == [err |-> FALSE, x |-> 0, y |-> 0, w |-> file.nx, h |-> file.ny]

LEMMA WholeRegion ==
  ASSUME NEW r, NEW z, Readable(r, z), r.type = "FULL"
  PROVE  Region(r) = AllOfIt /\ Area(r, 1, file.nx, file.ny) = AllOfIt
<1>1. Area(r, 1, file.nx, file.ny) = AllOfIt
  BY DEF Area, AllOfIt
<1> QED
  BY <1>1, AreaIsRegion

\* Rectangles that are the same are equal.
LEMMA RegionsAgree ==
  ASSUME NEW r, NEW s, NEW z, NEW y, Readable(r, z), Readable(s, y),
         r.type = "FULL" <=> s.type = "FULL",
         r.type # "FULL" => Same(Region(r), Region(s)) /\ ~Region(r).err /\ ~Region(s).err
  PROVE  Region(r) = Region(s) /\ ~Region(r).err
<1>1. CASE r.type = "FULL"
  <2>1. Region(r) = AllOfIt /\ Region(s) = AllOfIt
    BY <1>1, WholeRegion
  <2>2. AllOfIt.err = FALSE
    BY DEF AllOfIt
  <2> QED
    BY <2>1, <2>2
<1>2. CASE r.type # "FULL"
  <2>1. file.nx \in Nat /\ file.ny \in Nat
    BY MasterSides DEF Readable
  <2>2. ASSUME NEW t, NEW x, Readable(t, x), ~Region(t).err
        PROVE  Region(t) = [err |-> FALSE, x |-> Region(t).x, y |-> Region(t).y, w |-> Region(t).w, h |-> Region(t).h]
    <3> DEFINE c == Corner(t, 1, file.nx, file.ny)
               e == c[1] >= file.nx \/ c[2] >= file.ny
               w == Cut(c[1], c[3], file.nx)
               h == Cut(c[2], c[4], file.ny)
               d == Region(t)
    <3>1. d = [err |-> e, x |-> c[1], y |-> c[2], w |-> w, h |-> h]
      BY <2>1, <2>2, CropCoordsFits DEF Readable, Region
    <3>2. ~d.err
      BY <2>2
    <3> HIDE DEF c, e, w, h, d
    <3>3. d.err = e /\ d.x = c[1] /\ d.y = c[2] /\ d.w = w /\ d.h = h
      BY <3>1, Zenon
    <3>4. e = FALSE
      <4>1. ~e
        BY <3>2, <3>3
      <4>2. e \in BOOLEAN
        BY DEF e
      <4> QED
        BY <4>1, <4>2
    <3>5. d = [err |-> FALSE, x |-> d.x, y |-> d.y, w |-> d.w, h |-> d.h]
      BY <3>1, <3>3, <3>4, Zenon
    <3> QED
      BY <3>5 DEF d
  <2>3. /\ Region(r) = [err |-> FALSE, x |-> Region(r).x, y |-> Region(r).y, w |-> Region(r).w, h |-> Region(r).h]
        /\ Region(s) = [err |-> FALSE, x |-> Region(s).x, y |-> Region(s).y, w |-> Region(s).w, h |-> Region(s).h]
    BY <1>2, <2>2
  <2>4. Region(r).x = Region(s).x /\ Region(r).y = Region(s).y /\ Region(r).w = Region(s).w /\ Region(r).h = Region(s).h
    BY <1>2 DEF Same
  <2> QED
    BY <1>2, <2>3, <2>4, Zenon
<1> QED
  BY <1>1, <1>2

LEMMA FullFactor ==
  ASSUME NEW z, z.type = "FULL", NEW w, NEW h, NEW m, NEW j, NEW lim
  PROVE  GetSize(z, w, h, m, j, lim).reduce = 1
BY DEF GetSize, SizeFull, Outcome

\* A level that is the image is read alike.
LEMMA LevelsAgree ==
  ASSUME NEW r, NEW s, NEW z, Readable(r, z), Readable(s, z), Region(r) = Region(s), NEW level,
         file.levels[level] = 1, NEW quality
  PROVE  ReadLevel(file, r, z, Limits, quality, level, 1) = ReadLevel(file, s, z, Limits, quality, level, 1)
<1> DEFINE by == file.levels[level]
           u == CeilDiv(file.nx, by)
           v == CeilDiv(file.ny, by)
<1>1. file.nx \in Nat \ {0} /\ file.ny \in Nat \ {0}
  BY MasterSides DEF Readable
<1>2. u = file.nx /\ v = file.ny
  BY <1>1, CeilDivOne
<1>3. Area(r, 1, u, v) = Area(s, 1, u, v)
  BY <1>2, AreaIsRegion
<1> QED
  BY <1>3, Zenon DEF ReadLevel, SizedIn

\* With the size as it is, one rectangle is read alike.
LEMMA SamePlan ==
  ASSUME NEW r, NEW s, NEW z, Readable(r, z), Readable(s, z), Region(r) = Region(s),
         r.type = "FULL" <=> s.type = "FULL", z.type = "FULL", NEW quality
  PROVE  ReadPlan(file, r, z, Limits, quality) = ReadPlan(file, s, z, Limits, quality)
<1>1. Area(r, 1, file.nx, file.ny) = Area(s, 1, file.nx, file.ny)
  BY AreaIsRegion
<1>2. CASE file.fmt = "png"
  <2>1. ReadPng(file, r, z, Limits, quality) = ReadPng(file, s, z, Limits, quality)
    BY <1>1, Zenon DEF ReadPng, SizedIn
  <2> QED
    BY <1>2, <2>1 DEF ReadPlan
<1>3. CASE file.fmt = "jpg"
  <2>1. (r.type = "FULL") = (s.type = "FULL")
    OBVIOUS
  <2>2. ReadJpeg(file, r, z, Limits, quality) = ReadJpeg(file, s, z, Limits, quality)
    BY <1>1, <2>1, Zenon DEF ReadJpeg, SizedIn
  <2> QED
    BY <1>3, <2>2 DEF ReadPlan
<1>4. CASE file.fmt = "tif"
  <2> DEFINE c == CropCoords(r, 1, file.nx, file.ny)
             d == CropCoords(s, 1, file.nx, file.ny)
             o == GetSize(z, c.w, c.h, 1, FALSE, Limits)
             l == Level(file, 1)
  <2>1. c = d
    BY DEF Region
  <2>2. file \in Masters
    BY DEF Readable
  <2>3. file.levels[l] = 1 /\ file.levels[1] = 1
    <3> DEFINE one == 1
    <3>1. one \in Nat \ {0} /\ one = 1
      OBVIOUS
    <3> HIDE DEF one
    <3>2. file.levels[Level(file, one)] = 1
      BY <1>4, <2>2, <3>1, LevelTaken
    <3>3. file.levels[1] = 1
      BY <1>4, <2>2, TiffLevels
    <3> QED
      BY <3>1, <3>2, <3>3
  <2>4. /\ ReadLevel(file, r, z, Limits, quality, 1, 1) = ReadLevel(file, s, z, Limits, quality, 1, 1)
        /\ ReadLevel(file, r, z, Limits, quality, l, 1) = ReadLevel(file, s, z, Limits, quality, l, 1)
    <3> HIDE DEF l
    <3>1. \A level : file.levels[level] = 1 =>
             ReadLevel(file, r, z, Limits, quality, level, 1) = ReadLevel(file, s, z, Limits, quality, level, 1)
      BY LevelsAgree
    <3> QED
      BY <2>3, <3>1
  <2>5. o.reduce = 1
    <3> DEFINE m == 1
               j == FALSE
    <3> HIDE DEF m, j, c
    <3>1. GetSize(z, c.w, c.h, m, j, Limits).reduce = 1
      BY FullFactor
    <3> QED
      BY <3>1 DEF m, j
  <2> DEFINE R(t) == ReadLevel(file, t, z, Limits, quality, 1, 1)
             S(t, red) == ReadLevel(file, t, z, Limits, quality, Level(file, red), red)
             T(t, k) == IF Len(file.levels) = 1 THEN R(t)
                        ELSE IF k.err THEN Refused("iiif")
                        ELSE IF z.type = "NONE" THEN Plan("none", k, 1, k.w, k.h, "undefined")
                        ELSE IF GetSize(z, k.w, k.h, 1, FALSE, Limits).err THEN Refused("size")
                        ELSE S(t, GetSize(z, k.w, k.h, 1, FALSE, Limits).reduce)
  <2>6. /\ ReadTiff(file, r, z, Limits, quality) = T(r, c)
        /\ ReadTiff(file, s, z, Limits, quality) = T(s, d)
    BY Zenon DEF ReadTiff, SizedIn
  <2>7. T(r, c) = T(s, c)
    <3>1. R(r) = R(s)
      BY <2>4
    <3>2. S(r, o.reduce) = S(s, o.reduce)
      BY <2>4, <2>5
    <3> HIDE DEF R, S, c
    <3> QED
      BY <3>1, <3>2, Zenon DEF o
  <2> QED
    BY <1>4, <2>1, <2>6, <2>7 DEF ReadPlan
<1>5. CASE file.fmt = "jp2"
  <2>1. ReadJ2k(file, r, z, Limits, quality) = ReadJ2k(file, s, z, Limits, quality)
    BY <1>1, Zenon DEF ReadJ2k, SizedIn
  <2> QED
    BY <1>5, <2>1 DEF ReadPlan
<1>6. CASE file.fmt \notin {"png", "jpg", "tif", "jp2"}
  BY <1>6 DEF ReadPlan
<1> QED
  BY <1>2, <1>3, <1>4, <1>5, <1>6

\* The whole image, without levels, is read to the extent of its size.
TiffWhole(w, h, quality) ==
  LET found == IF file.tile > 0 THEN ReadTiledData(file, AllOfIt) ELSE ReadStandardData(file, AllOfIt)
  IN  IF file.tile > 0 /\ file.bps \notin {8, 16} THEN Refused("image")
      ELSE Plan("none", AllOfIt, 1, w, h, IF found = "asked" THEN Pixels(AllOfIt, w, h, quality) ELSE found)

WhollyRead(z, p, quality) ==
  /\ file.fmt \in {"png", "jpg"} =>
        /\ p.err = "none" /\ p.x = 0 /\ p.y = 0
        /\ p.nx = SizeOn(z).w /\ p.ny = SizeOn(z).h
  /\ file.fmt = "tif" => p = TiffWhole(SizeOn(z).w, SizeOn(z).h, quality)
  /\ file.fmt \notin {"png", "jpg", "tif"} => p = Refused("image")

LEMMA WholePlan ==
  ASSUME NEW r, NEW z, Readable(r, z), r.type = "FULL", z.type # "FULL", ~SizeOn(z).err,
         file.fmt # "jp2", ~Pyramid, NEW quality
  PROVE  WhollyRead(z, ReadPlan(file, r, z, Limits, quality), quality)
<1> DEFINE c == AllOfIt
           o == SizeOn(z)
<1>1. Area(r, 1, file.nx, file.ny) = c
  BY WholeRegion
<1>2. /\ c.err = FALSE /\ c.x = 0 /\ c.y = 0 /\ c.w = file.nx /\ c.h = file.ny
      /\ ~AsItIs(z) /\ z.type # "NONE"
  BY DEF AllOfIt, AsItIs, Readable, Proper
<1>3. GetSize(z, c.w, c.h, 0, FALSE, Limits) = o
  BY <1>2 DEF SizeOn
<1>4. CASE file.fmt = "png"
  <2> DEFINE p == ReadPng(file, r, z, Limits, quality)
             px == IF ReduceUndefined(o.reduce) THEN "undefined" ELSE Pixels(c, o.w, o.h, quality)
             Explicit(a, s) ==
               IF a.err THEN Refused("iiif")
               ELSE IF z.type = "NONE" THEN Plan("none", a, 1, a.w, a.h, "asked")
               ELSE IF s.err THEN Refused("size")
               ELSE IF z.type = "FULL" /\ s.redonly THEN Plan("none", a, 1, a.w, a.h, "asked")
               ELSE Plan("none", a, 1, s.w, s.h,
                         IF ReduceUndefined(s.reduce) THEN "undefined" ELSE Pixels(a, s.w, s.h, quality))
  <2>1. p = Explicit(Area(r, 1, file.nx, file.ny),
                     GetSize(z, Area(r, 1, file.nx, file.ny).w, Area(r, 1, file.nx, file.ny).h, 0, FALSE, Limits))
    BY Zenon DEF ReadPng, SizedIn
  <2>2. p = Explicit(c, o)
    <3> HIDE DEF p, Explicit, c, o
    <3> QED
      BY <1>1, <1>3, <2>1, Zenon
  <2> HIDE DEF p, c, o
  <2>3. p = Plan("none", c, 1, o.w, o.h, px)
    BY <1>2, <2>2 DEF o
  <2> HIDE DEF px
  <2>4. p.err = "none" /\ p.x = 0 /\ p.y = 0 /\ p.nx = o.w /\ p.ny = o.h
    BY <1>2, <2>3 DEF Plan
  <2> QED
    BY <1>4, <2>4 DEF ReadPlan, WhollyRead, p, o
<1>5. CASE file.fmt = "jpg"
  <2> DEFINE p == ReadJpeg(file, r, z, Limits, quality)
             D(a, s) == [a EXCEPT !.w = DecodedExtent(@, s.reduce), !.h = DecodedExtent(@, s.reduce)]
             Explicit(a, s) ==
               IF a.err THEN Refused("iiif")
               ELSE IF r.type # "FULL" /\ z.type = "NONE" THEN Plan("none", a, 1, a.w, a.h, "undefined")
               ELSE IF s.err /\ (r.type # "FULL" \/ ~AsItIs(z)) THEN Refused("size")
               ELSE IF AsItIs(z) THEN Plan("none", a, 1, a.w, a.h, "asked")
               ELSE IF r.type # "FULL" THEN Plan("none", a, IF r.type = "FULL" THEN s.reduce ELSE 1, s.w, s.h, Pixels(a, s.w, s.h, quality))
               ELSE Plan("none", D(a, s), IF r.type = "FULL" THEN s.reduce ELSE 1, s.w, s.h, Pixels(D(a, s), s.w, s.h, quality))
  <2>1. p = Explicit(Area(r, 1, file.nx, file.ny),
                     GetSize(z, Area(r, 1, file.nx, file.ny).w, Area(r, 1, file.nx, file.ny).h, 0, FALSE, Limits))
    BY DEF ReadJpeg, SizedIn
  <2>2. p = Explicit(c, o)
    <3> HIDE DEF p, Explicit, c, o
    <3> QED
      BY <1>1, <1>3, <2>1, Zenon
  <2> DEFINE d == D(c, o)
             px == Pixels(d, o.w, o.h, quality)
  <2>3. d.x = 0 /\ d.y = 0
    BY DEF AllOfIt
  <2>4. p = Plan("none", d, o.reduce, o.w, o.h, px)
    <3>1. ~o.err
      OBVIOUS
    <3> HIDE DEF p, c, o, D
    <3> QED
      BY <1>2, <2>2, <3>1
  <2> HIDE DEF d, px, p, c, o
  <2>5. p.err = "none" /\ p.x = 0 /\ p.y = 0 /\ p.nx = o.w /\ p.ny = o.h
    BY <2>3, <2>4 DEF Plan
  <2> QED
    BY <1>5, <2>5 DEF ReadPlan, WhollyRead, p, o
<1>6. CASE file.fmt = "tif"
  <2>1. Len(file.levels) = 1 /\ file.levels[1] = 1
    <3>1. file \in Masters
      BY DEF Readable
    <3> DEFINE n == Len(file.levels)
    <3>2. n \in Nat \ {0} /\ file.levels[1] = 1
      BY <1>6, <3>1, TiffLevels
    <3>3. ~(n > 1)
      BY <1>6 DEF Pyramid
    <3> HIDE DEF n
    <3>4. n = 1
      BY <3>2, <3>3
    <3> QED
      BY <3>2, <3>4 DEF n
  <2> DEFINE p == ReadLevel(file, r, z, Limits, quality, 1, 1)
             by == file.levels[1]
             Found(a) == IF file.tile > 0 THEN ReadTiledData(file, a) ELSE ReadStandardData(file, a)
             a1 == Area(r, 1, CeilDiv(file.nx, by), CeilDiv(file.ny, by))
             Explicit(a, s) ==
               IF a.err THEN Refused("iiif")
               ELSE IF file.tile > 0 /\ file.bps \notin {8, 16} THEN Refused("image")
               ELSE IF z.type # "NONE" /\ s.err THEN Refused("size")
               ELSE IF AsItIs(z) THEN Plan("none", a, by, a.w, a.h, Found(a))
               ELSE Plan("none", a, by, s.w, s.h, IF Found(a) = "asked" THEN Pixels(a, s.w, s.h, quality) ELSE Found(a))
  <2>2. ReadPlan(file, r, z, Limits, quality) = p
    BY <1>6, <2>1 DEF ReadPlan, ReadTiff
  <2>3. file.nx \in Nat \ {0} /\ file.ny \in Nat \ {0}
    BY MasterSides DEF Readable
  <2>4. a1 = c
    BY <1>1, <2>1, <2>3, CeilDivOne
  <2>5. p = Explicit(a1, GetSize(z, a1.w, a1.h, 0, FALSE, Limits))
    BY Zenon DEF ReadLevel, SizedIn
  <2>6. p = Explicit(c, o)
    <3> HIDE DEF p, Explicit, c, o, a1
    <3> QED
      BY <1>3, <2>4, <2>5, Zenon
  <2>7. p = TiffWhole(o.w, o.h, quality)
    <3>1. ~o.err /\ by = 1
      BY <2>1
    <3> DEFINE odd == file.tile > 0 /\ file.bps \notin {8, 16}
               g == Plan("none", c, 1, o.w, o.h, IF Found(c) = "asked" THEN Pixels(c, o.w, o.h, quality) ELSE Found(c))
    <3>2. TiffWhole(o.w, o.h, quality) = IF odd THEN Refused("image") ELSE g
      BY Zenon DEF TiffWhole
    <3>3. p = IF odd THEN Refused("image") ELSE g
      <4> HIDE DEF p, o, c, Found
      <4> QED
        BY <1>2, <2>6, <3>1
    <3> HIDE DEF odd, g, p, o
    <3> QED
      BY <3>2, <3>3
  <2> HIDE DEF p, o
  <2> QED
    BY <1>6, <2>2, <2>7 DEF WhollyRead, o
<1>7. CASE file.fmt \notin {"png", "jpg", "tif"}
  BY <1>7 DEF ReadPlan, WhollyRead
<1> QED
  BY <1>4, <1>5, <1>6, <1>7

\* Where one name stands for one rendition.
OneRendition(a, z) == z.type = "FULL" \/ (a.region.type = "FULL" /\ file.fmt # "jp2" /\ ~Pyramid)

\* Two plans that differ at most in how the whole image was reduced.
PlansAgree(a, z, e, f) ==
  /\ f.err = "none" /\ e.nx = f.nx /\ e.ny = f.ny
  /\ \/ e = f
     \/ /\ e.x = 0 /\ e.y = 0 /\ z.type # "FULL" /\ file.fmt \in {"png", "jpg"}
        /\ a.region.type = "FULL"

LEMMA NamesPlanAlike ==
  ASSUME NumbersFit, NEW p, NEW q, Served(p), Served(q), Name(p).url = Name(q).url,
         OneRendition(Asked(q[1]), Chosen(q)), PlanOf(Asked(p[1]), Chosen(p)).err = "none"
  PROVE  PlansAgree(Asked(q[1]), Chosen(q), PlanOf(Asked(p[1]), Chosen(p)), PlanOf(Asked(q[1]), Chosen(q)))
<1> DEFINE r == Asked(p[1]).region
           s == Asked(q[1]).region
           z == Chosen(p)
           y == Chosen(q)
           e == ReadPlan(file, r, z, Limits, ScaledBy)
           f == ReadPlan(file, s, y, Limits, ScaledBy)
<1>1. Readable(r, z) /\ Readable(s, y)
  BY ServedReadable
<1>2. /\ r.type = "FULL" <=> s.type = "FULL"
      /\ r.type # "FULL" => Same(Region(r), Region(s))
  BY NameParts, RegionText
<1>3. /\ z.type = "FULL" <=> y.type = "FULL"
      /\ z.up = y.up
      /\ z.type # "FULL" => SizeOn(z).w = SizeOn(y).w /\ SizeOn(z).h = SizeOn(y).h
  BY NameParts, SizeText
<1>4. /\ r.type # "FULL" => ~Region(r).err
      /\ s.type # "FULL" => ~Region(s).err
      /\ z.type # "FULL" => ~SizeOn(z).err
      /\ y.type # "FULL" => ~SizeOn(y).err
  BY ServedName
<1>5. e.err = "none" /\ (y.type = "FULL" \/ (s.type = "FULL" /\ file.fmt # "jp2" /\ ~Pyramid))
  BY DEF PlanOf, OneRendition
<1> HIDE DEF r, s, z, y
<1>6. CASE y.type = "FULL"
  <2>1. z = y
    BY <1>1, <1>3, <1>6, FullSizesAgree DEF Readable
  <2>2. Region(r) = Region(s)
    BY <1>1, <1>2, <1>4, RegionsAgree
  <2>3. Readable(r, y)
    BY <1>1, <2>1
  <2>4. ReadPlan(file, r, y, Limits, ScaledBy) = f
    BY <1>1, <1>2, <1>6, <2>2, <2>3, SamePlan
  <2>5. e = f
    BY <2>1, <2>4
  <2> HIDE DEF e, f
  <2> QED
    BY <1>5, <2>5 DEF PlansAgree, PlanOf, r, s, z, y, e, f
<1>7. CASE y.type # "FULL"
  <2> DEFINE w == SizeOn(y).w
             h == SizeOn(y).h
  <2>1. s.type = "FULL" /\ file.fmt # "jp2" /\ ~Pyramid /\ r.type = "FULL" /\ z.type # "FULL"
    BY <1>2, <1>3, <1>5, <1>7
  <2>2. WhollyRead(z, e, ScaledBy) /\ WhollyRead(y, f, ScaledBy)
    BY <1>1, <1>4, <1>7, <2>1, WholePlan
  <2>3. SizeOn(z).w = w /\ SizeOn(z).h = h
    BY <1>3, <2>1
  <2> HIDE DEF e, f, w, h
  <2>4. CASE file.fmt \in {"png", "jpg"}
    <3>1. e.x = 0 /\ e.y = 0 /\ f.err = "none" /\ e.nx = w /\ e.ny = h /\ f.nx = w /\ f.ny = h
      BY <2>2, <2>3, <2>4 DEF WhollyRead, w, h
    <3>2. PlansAgree(Asked(q[1]), y, e, f)
      BY <1>7, <2>1, <2>4, <3>1 DEF PlansAgree, s
    <3> QED
      BY <3>2 DEF PlanOf, r, s, z, y, e, f
  <2>5. CASE file.fmt = "tif"
    <3>1. e = f
      BY <2>2, <2>3, <2>5 DEF WhollyRead, w, h
    <3>2. PlansAgree(Asked(q[1]), y, e, f)
      BY <1>5, <3>1 DEF PlansAgree, e
    <3> QED
      BY <3>2 DEF PlanOf, r, s, z, y, e, f
  <2>6. CASE file.fmt \notin {"png", "jpg", "tif"}
    <3>1. e.err # "none"
      BY <2>2, <2>6, RefusedErrors DEF WhollyRead
    <3> QED
      BY <1>5, <3>1 DEF e
  <2> QED
    BY <2>4, <2>5, <2>6
<1> QED
  BY <1>6, <1>7

\* What is made of them is alike as well.
MadeAlike(a, e, b, f) ==
  /\ a.rotation.mirror = b.rotation.mirror /\ Near(a.rotation.angle, b.rotation.angle, 10)
  /\ a.qf.quality = b.qf.quality /\ a.qf.format = b.qf.format
  /\ LostOf(a, e) <=> LostOf(b, f)
  /\ Feasible(a, e) => Feasible(b, f)

LEMMA NamesMadeAlike ==
  ASSUME NEW p, NEW q, Served(p), Served(q), Name(p).url = Name(q).url,
         NEW e, NEW f, e.nx = f.nx, e.ny = f.ny, f.err = "none"
  PROVE  MadeAlike(Asked(p[1]), e, Asked(q[1]), f)
<1> DEFINE a == Asked(p[1])
           b == Asked(q[1])
           s == RotationOf[p[1][Len(p[1]) - 1]]
           t == RotationOf[q[1][Len(q[1]) - 1]]
<1>1. /\ p[1][Len(p[1]) - 1] \in DOMAIN RotationOf /\ q[1][Len(q[1]) - 1] \in DOMAIN RotationOf
      /\ WellFormed(a) /\ WellFormed(b)
  BY ImageTokens DEF Served
<1>2. a.rotation = ParseRotation(s) /\ b.rotation = ParseRotation(t)
  BY AskedFields
<1>3. s \in [mirror : BOOLEAN, angle : Int] /\ t \in [mirror : BOOLEAN, angle : Int]
  BY <1>1, ParametersAssumption
<1>4. /\ RotationCanonical(a.rotation) = RotationCanonical(b.rotation)
      /\ a.qf.quality = b.qf.quality /\ a.qf.format = b.qf.format
  BY NameParts
<1> HIDE DEF a, b, s, t
<1>5. ~ParseRotation(s).err /\ ~ParseRotation(t).err
  BY <1>1, <1>2 DEF WellFormed
<1>6. /\ a.rotation.mirror = b.rotation.mirror /\ Near(a.rotation.angle, b.rotation.angle, 10)
      /\ a.rotation.angle = 0 <=> b.rotation.angle = 0
  <2>1. /\ ParseRotation(s).mirror = s.mirror /\ ParseRotation(s).angle = s.angle
        /\ ParseRotation(t).mirror = t.mirror /\ ParseRotation(t).angle = t.angle
    BY <1>5, ParsedRotation
  <2>2. /\ s.mirror = t.mirror /\ Near(s.angle, t.angle, 10)
        /\ s.angle = 0 <=> t.angle = 0
    BY <1>2, <1>3, <1>4, <1>5, RotationText
  <2> QED
    BY <1>2, <2>1, <2>2
<1>7. ImageOf(a, e) = ImageOf(b, f)
  BY <1>4, Zenon DEF ImageOf
<1>8. QualityOf(a, e) = QualityOf(b, f)
  BY <1>4, <1>7 DEF QualityOf
<1>9. LostOf(a, e) <=> LostOf(b, f)
  BY <1>4, <1>6, <1>7, <1>8, Zenon DEF LostOf, RotateUndefined
<1>10. Feasible(a, e) => Feasible(b, f)
  <2>1. f.err \notin {"image", "size", "iiif"}
    OBVIOUS
  <2> QED
    BY <1>4, <1>8, <2>1 DEF Feasible
<1> QED
  BY <1>4, <1>6, <1>9, <1>10 DEF MadeAlike, a, b

-----------------------------------------------------------------------------
(* What is sent is what was asked for.                                     *)

\* Turned, converted and coded as the URL says.
AsSaid(a, r, hit) ==
  /\ r.mirror = a.rotation.mirror
  /\ IF hit THEN Near(r.angle, a.rotation.angle, 10) ELSE r.angle = a.rotation.angle
  /\ r.quality = a.qf.quality /\ r.fmt = a.qf.format

\* The plan of what was sent, next to the one of reading the master again.
LikeFresh(a, z, p) ==
  /\ PlanOf(a, z).err = "none"
  /\ p.nx = PlanOf(a, z).nx /\ p.ny = PlanOf(a, z).ny /\ InLevel(p)
  /\ \/ Similar(p, PlanOf(a, z))
     \/ /\ p.x = 0 /\ p.y = 0 /\ z.type # "FULL" /\ file.fmt \in {"png", "jpg"}
        /\ a.region.type = "FULL"

LEMMA OriginalIsSaid ==
  ASSUME NEW q, Served(q), SentAsIs(Asked(q[1]), Chosen(q), q[2])
  PROVE  AsSaid(Asked(q[1]), Original, FALSE)
<1> DEFINE a == Asked(q[1])
           s == RotationOf[q[1][Len(q[1]) - 1]]
<1>1. q[1][Len(q[1]) - 1] \in DOMAIN RotationOf /\ WellFormed(a)
  BY ImageTokens DEF Served
<1>2. a.rotation = ParseRotation(s)
  BY AskedFields
<1>3. s \in [mirror : BOOLEAN, angle : Int]
  BY <1>1, ParametersAssumption
<1>4. a.rotation.angle = 0 /\ ~a.rotation.mirror /\ a.qf.format = file.fmt /\ a.qf.quality = "default"
  BY DEF SentAsIs
<1> HIDE DEF a, s
<1>5. ParseRotation(s).mirror = s.mirror
  BY <1>1, <1>2, ParsedRotation DEF WellFormed
<1>6. a.rotation.mirror = FALSE
  BY <1>2, <1>3, <1>4, <1>5
<1>7. /\ Original.mirror = FALSE /\ Original.angle = 0
      /\ Original.quality = "default" /\ Original.fmt = file.fmt
  BY DEF Original
<1>8. AsSaid(a, Original, FALSE)
  BY <1>4, <1>6, <1>7 DEF AsSaid
<1> QED
  BY <1>8 DEF a

LEMMA SimilarExtent ==
  ASSUME NEW p, NEW e, Similar(p, e)
  PROVE  p.nx = e.nx /\ p.ny = e.ny /\ Same(p, e)
BY DEF Similar

LEMMA SentIsLikeFresh ==
  ASSUME NumbersFit, NEW q, SentFor(q), last.answer.hit => OneRendition(Asked(q[1]), Chosen(q))
  PROVE  /\ AsSaid(Asked(q[1]), last.answer.rendition, last.answer.hit)
         /\ \/ SentAsIs(Asked(q[1]), Chosen(q), q[2]) /\ last.answer.rendition = Original
            \/ LikeFresh(Asked(q[1]), Chosen(q), last.answer.rendition.plan)
<1> DEFINE a == Asked(q[1])
           z == Chosen(q)
           t == last.answer.rendition
           hit == last.answer.hit
           f == PlanOf(a, z)
<1>1. Served(q)
  BY DEF SentFor
<1>2. CASE ~hit /\ SentAsIs(a, z, q[2]) /\ t = Original
  <2>1. AsSaid(a, Original, FALSE)
    BY <1>1, <1>2, OriginalIsSaid
  <2>2. AsSaid(a, t, hit)
    BY <1>2, <2>1 DEF AsSaid
  <2> QED
    BY <1>2, <2>2
<1>3. CASE ~hit /\ Rendered(q, t)
  <2>1. RenditionOf(a, z, t) /\ f.err = "none" /\ Similar(t.plan, f)
    BY <1>3, RenderedPlan
  <2>2. InLevel(t.plan)
    BY <1>3, RenderedInside
  <2> HIDE DEF a, z, t, hit, f
  <2>3. AsSaid(a, t, hit)
    BY <1>3, <2>1 DEF AsSaid, RenditionOf
  <2>4. t.plan.nx = f.nx /\ t.plan.ny = f.ny
    BY <2>1, SimilarExtent
  <2>5. LikeFresh(a, z, t.plan)
    BY <2>1, <2>2, <2>4 DEF LikeFresh, f
  <2> QED
    BY <2>3, <2>5 DEF a, z, t, hit
<1>4. CASE hit /\ \E p \in Requests : Rendered(p, t) /\ Name(p).url = Name(q).url
  <2>1. PICK p \in Requests : Rendered(p, t) /\ Name(p).url = Name(q).url
    BY <1>4
  <2> DEFINE b == Asked(p[1])
             e == PlanOf(b, Chosen(p))
  <2>2. /\ RenditionOf(b, Chosen(p), t) /\ Feasible(b, e)
        /\ e.err = "none" /\ Similar(t.plan, e)
    BY <2>1, RenderedPlan
  <2>3. Served(p) /\ InLevel(t.plan)
    BY <2>1, RenderedInside DEF Rendered
  <2>4. PlansAgree(a, z, e, f)
    BY <1>1, <1>4, <2>1, <2>2, <2>3, NamesPlanAlike
  <2>5. e.nx = f.nx /\ e.ny = f.ny /\ f.err = "none"
    BY <2>4 DEF PlansAgree
  <2>6. MadeAlike(b, e, a, f)
    BY <1>1, <2>1, <2>3, <2>5, NamesMadeAlike
  <2>7. t.plan.nx = e.nx /\ t.plan.ny = e.ny /\ Same(t.plan, e)
    BY <2>2, SimilarExtent
  <2> HIDE DEF a, z, t, hit, f, b, e
  <2>8. t.mirror = a.rotation.mirror /\ Near(t.angle, a.rotation.angle, 10) /\ t.quality = a.qf.quality /\ t.fmt = a.qf.format
    BY <2>2, <2>6 DEF RenditionOf, MadeAlike
  <2>9. AsSaid(a, t, hit)
    BY <1>4, <2>8 DEF AsSaid
  <2>10. \/ Similar(t.plan, f)
         \/ /\ t.plan.x = 0 /\ t.plan.y = 0 /\ z.type # "FULL" /\ file.fmt \in {"png", "jpg"}
            /\ a.region.type = "FULL"
    BY <2>2, <2>4, <2>7 DEF PlansAgree, Same
  <2>11. LikeFresh(a, z, t.plan)
    BY <2>3, <2>5, <2>7, <2>10 DEF LikeFresh, f
  <2> QED
    BY <2>9, <2>11 DEF a, z, t, hit
<1> QED
  BY <1>2, <1>3, <1>4 DEF SentFor

\* What was asked last.
LEMMA LastIs ==
  ASSUME NEW q, SentFor(q)
  PROVE  /\ LastAsked = Asked(q[1]) /\ LastSize = Chosen(q)
         /\ ~SharedKey <=> (last.answer.hit => OneRendition(Asked(q[1]), Chosen(q)))
         /\ ~OtherExtent <=> KnownExtent(Asked(q[1]).region, Chosen(q))
<1>1. LastAsked = Asked(q[1]) /\ LastSize = Chosen(q)
  BY DEF SentFor, LastAsked, LastSize, Chosen
<1>2. ~SharedKey <=> (last.answer.hit => OneRendition(Asked(q[1]), Chosen(q)))
  BY <1>1 DEF SharedKey, OneRendition
<1>3. ~OtherExtent <=> KnownExtent(Asked(q[1]).region, Chosen(q))
  BY <1>1 DEF OtherExtent, KnownExtent, Wanted, SizeOf2
<1> QED
  BY <1>1, <1>2, <1>3

\* The extent and the place of what was sent.
LEMMA FreshIsDelivered ==
  ASSUME NumbersFit, NEW q, Served(q), NEW p, LikeFresh(Asked(q[1]), Chosen(q), p),
         KnownExtent(Asked(q[1]).region, Chosen(q))
  PROVE  /\ IF Pyramid THEN MeansExtent(Chosen(q), p.w, p.h, p.nx, p.ny)
            ELSE MeansExtent(Chosen(q), NamedArea(Asked(q[1]).region).w, NamedArea(Asked(q[1]).region).h, p.nx, p.ny)
         /\ Placed(Asked(q[1]).region, Chosen(q), p)
<1> DEFINE r == Asked(q[1]).region
           z == Chosen(q)
           f == PlanOf(Asked(q[1]), z)
           n == NamedArea(r)
<1>1. Readable(r, z)
  BY ServedReadable
<1>2. f.err = "none" /\ p.nx = f.nx /\ p.ny = f.ny /\ InLevel(p)
  BY DEF LikeFresh
<1>3. Delivered(r, z, f)
  BY <1>1, <1>2, PlanDelivers DEF PlanOf
<1>4. \/ Similar(p, f)
      \/ p.x = 0 /\ p.y = 0 /\ z.type # "FULL" /\ file.fmt \in {"png", "jpg"} /\ r.type = "FULL"
  BY DEF LikeFresh
<1>5. KnownExtent(r, z)
  OBVIOUS
<1> HIDE DEF r, z, f
<1>6. CASE Similar(p, f)
  <2>1. p.x = f.x /\ p.y = f.y /\ p.w = f.w /\ p.h = f.h /\ p.by = f.by
    BY <1>6 DEF Similar, Same
  <2>2. Extended(r, z, f) /\ Placed(r, z, f)
    BY <1>3 DEF Delivered
  <2>3. Placed(r, z, p)
    BY <2>1, <2>2 DEF Placed
  <2>4. IF Pyramid THEN MeansExtent(z, p.w, p.h, p.nx, p.ny) ELSE MeansExtent(z, n.w, n.h, p.nx, p.ny)
    BY <1>2, <1>5, <2>1, <2>2 DEF Extended
  <2> QED
    BY <2>3, <2>4 DEF r, z
<1>7. CASE p.x = 0 /\ p.y = 0 /\ z.type # "FULL" /\ file.fmt \in {"png", "jpg"} /\ r.type = "FULL"
  <2>1. n.x = 0 /\ n.y = 0
    BY <1>1, <1>7, NamedFull DEF Readable
  <2>2. ~Pyramid
    BY <1>7 DEF Pyramid
  <2>3. MeansExtent(z, n.w, n.h, p.nx, p.ny)
    BY <1>2, <1>3, <1>5, <2>2 DEF Delivered, Extended
  <2> HIDE DEF n
  <2>4. p.by \in Nat \ {0}
    BY <1>2 DEF InLevel
  <2>5. p.x * p.by = 0 /\ p.y * p.by = 0
    BY <1>7, <2>4
  <2> DEFINE within == IF p.by = 1 THEN 1 ELSE 2 * p.by
  <2>6. within > 0 /\ within \in Int
    BY <2>4
  <2> HIDE DEF within
  <2>7. Near(p.x * p.by, n.x, within) /\ Near(p.y * p.by, n.y, within)
    BY <2>1, <2>5, <2>6 DEF Near
  <2>8. Placed(r, z, p)
    BY <2>7 DEF Placed, within, n
  <2> QED
    BY <2>2, <2>3, <2>8 DEF r, z, n
<1> QED
  BY <1>4, <1>6, <1>7

LEMMA SentIsDelivered ==
  ASSUME NumbersFit, IInv
  PROVE  DeliveredAsAsked
<1> SUFFICES ASSUME SentImage, ~OtherExtent, ~SharedKey
             PROVE  LET r == last.answer.rendition
                        p == r.plan
                        n == NamedArea(LastAsked.region)
                        of == IF Pyramid THEN [w |-> p.w, h |-> p.h] ELSE [w |-> n.w, h |-> n.h]
                        within == IF p.by = 1 THEN 1 ELSE 2 * p.by
                    IN  /\ MeansExtent(LastSize, of.w, of.h, p.nx, p.ny)
                        /\ OtherPlace(p.by) \/ (Near(p.x * p.by, n.x, within) /\ Near(p.y * p.by, n.y, within))
                        /\ r.mirror = LastAsked.rotation.mirror /\ SameAngle(r.angle, LastAsked.rotation.angle)
                        /\ r.quality = LastAsked.qf.quality /\ r.fmt = LastAsked.qf.format
  BY DEF DeliveredAsAsked
<1>1. PICK q \in Requests : SentFor(q)
  BY DEF IInv, SentIsServed
<1> DEFINE a == Asked(q[1])
           z == Chosen(q)
           t == last.answer.rendition
           hit == last.answer.hit
           p == t.plan
           n == NamedArea(a.region)
           of == IF Pyramid THEN [w |-> p.w, h |-> p.h] ELSE [w |-> n.w, h |-> n.h]
           within == IF p.by = 1 THEN 1 ELSE 2 * p.by
<1>2. LastAsked = a /\ LastSize = z /\ KnownExtent(a.region, z) /\ (hit => OneRendition(a, z))
  BY <1>1, LastIs
<1>3. /\ AsSaid(a, t, hit)
      /\ \/ SentAsIs(a, z, q[2]) /\ t = Original
         \/ LikeFresh(a, z, p)
  BY <1>1, <1>2, SentIsLikeFresh
<1>4. Served(q) /\ file \in Masters
  BY <1>1 DEF SentFor, Served
<1>5. /\ t.mirror = a.rotation.mirror /\ SameAngle(t.angle, a.rotation.angle)
      /\ t.quality = a.qf.quality /\ t.fmt = a.qf.format
  BY <1>3 DEF AsSaid, SameAngle
<1>6. /\ MeansExtent(z, of.w, of.h, p.nx, p.ny)
      /\ OtherPlace(p.by) \/ (Near(p.x * p.by, n.x, within) /\ Near(p.y * p.by, n.y, within))
  <2>1. CASE SentAsIs(a, z, q[2]) /\ t = Original
    <3>1. a.region.type = "FULL" /\ z.type = "FULL"
      BY <2>1 DEF SentAsIs
    <3>2. n = [x |-> 0, y |-> 0, w |-> file.nx, h |-> file.ny]
      BY <1>4, <3>1, NamedFull
    <3>3. p.x = 0 /\ p.y = 0 /\ p.w = file.nx /\ p.h = file.ny /\ p.by = 1 /\ p.nx = file.nx /\ p.ny = file.ny
      BY <2>1 DEF Original, Plan
    <3> HIDE DEF p, n, z, a
    <3>4. n.x = 0 /\ n.y = 0 /\ of.w = p.nx /\ of.h = p.ny
      BY <3>2, <3>3
    <3>5. p.x * p.by = 0 /\ p.y * p.by = 0 /\ within = 1
      BY <3>3
    <3> HIDE DEF of, within
    <3>6. MeansExtent(z, of.w, of.h, p.nx, p.ny)
      BY <3>1, <3>4 DEF MeansExtent
    <3> QED
      BY <3>4, <3>5, <3>6 DEF Near
  <2>2. CASE LikeFresh(a, z, p)
    <3>1. /\ IF Pyramid THEN MeansExtent(z, p.w, p.h, p.nx, p.ny) ELSE MeansExtent(z, n.w, n.h, p.nx, p.ny)
          /\ Placed(a.region, z, p)
      BY <1>2, <1>4, <2>2, FreshIsDelivered
    <3>2. OtherPlace(p.by) <=> Pyramid /\ a.region.type = "COORDS" /\ SizeOf2(a.region, z, FALSE).reduce # p.by
      BY <1>2 DEF OtherPlace, Wanted, SizeOf2
    <3> HIDE DEF p, z, a
    <3>3. OtherPlace(p.by) \/ (Near(p.x * p.by, n.x, within) /\ Near(p.y * p.by, n.y, within))
      BY <3>1, <3>2 DEF Placed
    <3> HIDE DEF n, within
    <3>4. MeansExtent(z, of.w, of.h, p.nx, p.ny)
      <4>1. CASE Pyramid
        BY <3>1, <4>1
      <4>2. CASE ~Pyramid
        BY <3>1, <4>2
      <4> QED
        BY <4>1, <4>2
    <3> QED
      BY <3>3, <3>4
  <2> QED
    BY <1>3, <2>1, <2>2
<1> HIDE DEF a, z
<1> QED
  BY <1>2, <1>5, <1>6

\* What send_iiif_file() sends shows the region of the URL, in the extent that
\* get_size() says its size means, turned, converted and coded as the URL says,
\* for every master and whether it comes from the cache or not.
THEOREM SentAsAsked ==
  ASSUME NumbersFit
  PROVE  Spec => []DeliveredAsAsked
<1>1. IInv => DeliveredAsAsked
  BY SentIsDelivered
<1> QED
  BY <1>1, SentAreKept, PTL

\* What is sent from the cache is what would be made.
LEMMA HitsAreFresh ==
  ASSUME NumbersFit, IInv
  PROVE  HitIsFresh
<1> SUFFICES ASSUME last.answer.hit, ~SharedKey
             PROVE  LET r == last.answer.rendition
                        fresh == Transcode(LastAsked, LastSize, [last.access EXCEPT !.watermark = FALSE]).rendition
                    IN  /\ r.plan.nx = fresh.plan.nx /\ r.plan.ny = fresh.plan.ny
                        /\ r.plan = fresh.plan \/ (LastSize.type # "FULL" /\ file.fmt \in {"png", "jpg"})
                        /\ r.mirror = fresh.mirror /\ SameAngle(r.angle, fresh.angle)
                        /\ r.quality = fresh.quality /\ r.fmt = fresh.fmt
  BY DEF HitIsFresh
<1>1. PICK q \in Requests : SentFor(q)
  BY DEF IInv, SentIsServed, HitIsImage
<1>2. PICK p, t : p \in Requests /\ t = last.answer.rendition /\ Rendered(p, t) /\ Name(p).url = Name(q).url
  BY <1>1 DEF SentFor
<1> DEFINE a == Asked(q[1])
           z == Chosen(q)
           f == PlanOf(a, z)
           b == Asked(p[1])
           e == PlanOf(b, Chosen(p))
           acc == [q[2] EXCEPT !.watermark = FALSE]
           fresh == Transcode(a, z, acc).rendition
<1>3. LastAsked = a /\ LastSize = z /\ OneRendition(a, z) /\ last.access = q[2]
  BY <1>1, LastIs DEF SentFor
<1>4. Served(q) /\ Served(p)
  BY <1>1, <1>2 DEF SentFor, Rendered
<1>5. RenditionOf(b, Chosen(p), t) /\ Feasible(b, e) /\ e.err = "none"
  BY <1>2, RenderedPlan
<1>6. PlansAgree(a, z, e, f)
  BY <1>2, <1>3, <1>4, <1>5, NamesPlanAlike
<1>7. e.nx = f.nx /\ e.ny = f.ny /\ f.err = "none"
  BY <1>6 DEF PlansAgree
<1>8. MadeAlike(b, e, a, f)
  BY <1>2, <1>4, <1>7, NamesMadeAlike
<1>9. ~Watermarked(acc)
  <2>1. q[2] = Access(q[2].type, q[2].size, q[2].watermark, q[2].urls)
    BY RequestsAssumption
  <2>2. acc.watermark = FALSE
    BY <2>1 DEF Access
  <2> HIDE DEF acc
  <2> QED
    BY <2>2 DEF Watermarked
<1>10. RenditionOf(a, z, fresh)
  <2>1. Feasible(a, f)
    BY <1>5, <1>8 DEF MadeAlike
  <2>2. Good(a, z, acc)
    BY <1>9, <2>1 DEF Good
  <2> HIDE DEF a, z, acc
  <2>3. AnswerTo(a, z, acc, Transcode(a, z, acc))
    BY TranscodeAnswers
  <2> QED
    BY <2>2, <2>3 DEF AnswerTo
<1>11. IsPlan(e) /\ IsPlan(f)
  BY ReadIsPlan DEF PlanOf
<1> HIDE DEF fresh
<1>12. /\ t.plan = IF LostOf(b, e) THEN [e EXCEPT !.pixels = "undefined"] ELSE e
       /\ fresh.plan = IF LostOf(a, f) THEN [f EXCEPT !.pixels = "undefined"] ELSE f
       /\ t.fmt = b.qf.format /\ t.quality = b.qf.quality /\ t.mirror = b.rotation.mirror /\ t.angle = b.rotation.angle
       /\ fresh.fmt = a.qf.format /\ fresh.quality = a.qf.quality
       /\ fresh.mirror = a.rotation.mirror /\ fresh.angle = a.rotation.angle
  BY <1>5, <1>10 DEF RenditionOf
<1> HIDE DEF a, z, f, b, e, acc
<1>13. t.plan.nx = e.nx /\ t.plan.ny = e.ny /\ fresh.plan.nx = f.nx /\ fresh.plan.ny = f.ny
  BY <1>11, <1>12, LostIsSimilar, SimilarExtent
<1>14. t.plan = fresh.plan \/ (z.type # "FULL" /\ file.fmt \in {"png", "jpg"})
  <2>1. CASE e = f
    BY <1>8, <1>12, <2>1 DEF MadeAlike
  <2>2. CASE e # f
    BY <1>6, <2>2 DEF PlansAgree
  <2> QED
    BY <2>1, <2>2
<1>15. t.mirror = fresh.mirror /\ SameAngle(t.angle, fresh.angle) /\ t.quality = fresh.quality /\ t.fmt = fresh.fmt
  BY <1>8, <1>12 DEF MadeAlike, SameAngle
<1>16. Transcode(LastAsked, LastSize, [last.access EXCEPT !.watermark = FALSE]).rendition = fresh
  BY <1>3 DEF fresh, acc
<1> QED
  BY <1>2, <1>3, <1>7, <1>13, <1>14, <1>15, <1>16

\* What is sent from the cache is what transcoding the master for this request
\* would give: two requests of one canonical URL, with the size replaced by a
\* restriction or not, are served alike.
THEOREM HitsStayFresh ==
  ASSUME NumbersFit
  PROVE  Spec => []HitIsFresh
<1>1. IInv => HitIsFresh
  BY HitsAreFresh
<1> QED
  BY <1>1, SentAreKept, PTL

-----------------------------------------------------------------------------
(* The restriction of a size.                                              *)

\* A side derived on a level is two pixels more than on the image at most.
LEMMA ProportionGrows ==
  ASSUME NEW a \in Nat \ {0}, NEW b \in Nat \ {0}, NEW n \in Nat \ {0}, NEW by \in Nat \ {0}, by * n <= 2 * b
  PROVE  CeilDiv(CeilDiv(a, by) * n, CeilDiv(b, by)) <= CeilDiv(a * n, b) + 2
<1> DEFINE A == CeilDiv(a, by)
           B == CeilDiv(b, by)
           an == a * n
           q == CeilDiv(an, b)
<1>1. A \in Nat \ {0} /\ A * by < a + by
  BY CeilDivBounds, CeilDivPositive
<1>2. B \in Nat \ {0} /\ b <= B * by
  BY CeilDivBounds, CeilDivPositive
<1>3. an \in Nat
  OBVIOUS
<1> HIDE DEF A, B
<1>4. q \in Nat /\ an <= q * b
  <2> HIDE DEF an
  <2> QED
    BY <1>3, CeilDivBounds
<1> HIDE DEF q
<1>5. A * n <= (q + 2) * B
  <2> DEFINE An == A * n
             qB == (q + 2) * B
  <2>1. An \in Nat /\ qB \in Nat
    BY <1>1, <1>2, <1>4
  <2>2. An * by <= qB * by
    <3>1. An * by = (A * by) * n
      BY <1>1
    <3>2. (A * by) * n <= (a + by) * n
      BY <1>1
    <3>3. (a + by) * n = an + by * n
      BY DEF an
    <3>4. an + by * n <= q * b + 2 * b
      BY <1>3, <1>4
    <3>5. q * b + 2 * b = (q + 2) * b
      BY <1>4
    <3>6. (q + 2) * b <= (q + 2) * (B * by)
      BY <1>2, <1>4
    <3>7. (q + 2) * (B * by) = qB * by
      BY <1>2, <1>4
    <3> DEFINE x1 == An * by
               x2 == (A * by) * n
               x3 == (a + by) * n
               x4 == an + by * n
               x5 == q * b + 2 * b
               x6 == (q + 2) * b
               x7 == (q + 2) * (B * by)
               x8 == qB * by
    <3>8. x1 \in Nat /\ x2 \in Nat /\ x3 \in Nat /\ x4 \in Nat /\ x5 \in Nat /\ x6 \in Nat /\ x7 \in Nat /\ x8 \in Nat
      BY <1>1, <1>2, <1>3, <1>4, <2>1
    <3>9. x1 = x2 /\ x2 <= x3 /\ x3 = x4 /\ x4 <= x5 /\ x5 = x6 /\ x6 <= x7 /\ x7 = x8
      BY <3>1, <3>2, <3>3, <3>4, <3>5, <3>6, <3>7
    <3> HIDE DEF x1, x2, x3, x4, x5, x6, x7, x8
    <3>10. x1 <= x8
      BY <3>8, <3>9
    <3> QED
      BY <3>10 DEF x1, x8
  <2> HIDE DEF An, qB
  <2>3. An <= qB
    BY <2>1, <2>2
  <2> QED
    BY <2>3 DEF An, qB
<1>6. CeilDiv(A * n, B) <= q + 2
  <2> DEFINE An == A * n
             m == q + 2
  <2>1. An \in Nat /\ m \in Int /\ An <= m * B
    BY <1>1, <1>4, <1>5
  <2> HIDE DEF An, m
  <2>2. CeilDiv(An, B) <= m
    BY <1>2, <2>1, CeilDivLeast
  <2> QED
    BY <2>2 DEF An, m
<1> QED
  BY <1>6 DEF A, B, q, an

\* The factor of a level is no less than half of what it was made with.
LEMMA LevelFactor ==
  ASSUME NEW n \in Nat \ {0}, NEW by \in Nat \ {0}, by <= n
  PROVE  by <= 2 * LRound(n, CeilDiv(n, by))
<1> DEFINE B == CeilDiv(n, by)
           F == LRound(n, B)
<1>1. B \in Nat \ {0} /\ B * by < n + by
  BY CeilDivBounds, CeilDivPositive
<1> HIDE DEF B
<1>2. F \in Nat /\ 2 * n < 2 * F * B + B
  BY <1>1, LRoundBounds
<1> HIDE DEF F
<1>3. SUFFICES ASSUME ~(by <= 2 * F) PROVE FALSE
  BY DEF F, B
<1>4. 2 * F + 1 <= by
  BY <1>2, <1>3
<1>5. (2 * F + 1) * B <= by * B
  BY <1>1, <1>2, <1>4
<1>6. (2 * F + 1) * B = 2 * F * B + B
  BY <1>1, <1>2
<1> DEFINE u == 2 * F * B + B
           v == B * by
<1>7. u \in Nat /\ v \in Nat /\ u <= v /\ v < n + by /\ 2 * n < u
  BY <1>1, <1>2, <1>5, <1>6
<1> HIDE DEF u, v
<1> QED
  BY <1>7

\* What is read of a pyramid for the whole image, and of which level.
OnLevel(z, p) ==
  /\ p.by \in Nat \ {0} /\ p.by <= file.nx /\ p.by <= file.ny
  /\ SizeOn(z).reduce \in Nat \ {0}
  /\ p.by = 1 \/ (2 <= SizeOn(z).reduce /\ p.by <= 2 * SizeOn(z).reduce)
  /\ p.nx = GetSize(z, CeilDiv(file.nx, p.by), CeilDiv(file.ny, p.by), 0, FALSE, Limits).w
  /\ p.ny = GetSize(z, CeilDiv(file.nx, p.by), CeilDiv(file.ny, p.by), 0, FALSE, Limits).h

LEMMA WholeOnLevel ==
  ASSUME NEW r, NEW z, Readable(r, z), r.type = "FULL", file.fmt = "tif", Pyramid, KnownExtent(r, z),
         NEW red \in Nat \ {0}, red = SizeOn(z).reduce, NEW p, TakenFrom(r, z, p, Level(file, red), red)
  PROVE  OnLevel(z, p)
<1> DEFINE level == Level(file, red)
           by == file.levels[level]
           W == CeilDiv(file.nx, by)
           H == CeilDiv(file.ny, by)
           c == CropCoords(r, red, W, H)
<1>1. file \in Masters /\ Parsed(r) /\ Fits(file.nx) /\ Fits(file.ny) /\ FittingCorner(Corner(r, 1, file.nx, file.ny))
  BY DEF Readable
<1>2. file.nx \in Nat \ {0} /\ file.ny \in Nat \ {0}
  BY <1>1, MasterSides
<1>3. level \in DOMAIN file.levels /\ WidthFactor(by) <= red /\ (red = 1 => by = 1)
  BY <1>1, LevelTaken
<1> HIDE DEF level
<1>4. by \in Nat \ {0} /\ by <= file.nx /\ by <= file.ny
  BY <1>1, <1>3, TiffLevels
<1>5. /\ Same(p, c) /\ p.by = by
      /\ p.nx = GetSize(z, c.w, c.h, 0, FALSE, Limits).w
      /\ p.ny = GetSize(z, c.w, c.h, 0, FALSE, Limits).h
  BY DEF TakenFrom, level
<1> HIDE DEF by
<1>6. W \in Nat \ {0} /\ W <= file.nx /\ H \in Nat \ {0} /\ H <= file.ny
  BY <1>2, <1>4, CeilDivPositive
<1>7. c = [err |-> FALSE, x |-> 0, y |-> 0, w |-> W, h |-> H]
  <2> HIDE DEF W, H
  <2>1. FittingCorner(Corner(r, red, W, H))
    BY <1>1, <1>2, <1>6, FitsOnLevel
  <2>2. c = Area(r, red, W, H)
    BY <1>6, <2>1, AreaIsCrop
  <2> QED
    BY <2>2 DEF Area
<1>8. c.w = W /\ c.h = H
  BY <1>7
<1>9. by = 1 \/ (2 <= red /\ by <= 2 * red)
  <2>1. by <= 2 * WidthFactor(by)
    BY <1>2, <1>4, LevelFactor DEF WidthFactor
  <2>2. W \in Nat \ {0}
    BY <1>6
  <2> DEFINE F == WidthFactor(by)
  <2>3. F \in Nat
    BY <1>2, <2>2, LRoundBounds DEF WidthFactor
  <2> HIDE DEF F
  <2>4. by <= 2 * F /\ F <= red
    BY <1>3, <2>1 DEF F
  <2> QED
    BY <1>3, <1>4, <2>3, <2>4
<1> HIDE DEF c
<1>10. /\ p.nx = GetSize(z, W, H, 0, FALSE, Limits).w
       /\ p.ny = GetSize(z, W, H, 0, FALSE, Limits).h
  BY <1>5, <1>8
<1> QED
  BY <1>4, <1>5, <1>9, <1>10 DEF OnLevel

LEMMA PyramidPlan ==
  ASSUME NEW r, NEW z, Readable(r, z), r.type = "FULL", file.fmt = "tif", Pyramid, KnownExtent(r, z), NEW quality,
         ReadTiff(file, r, z, Limits, quality).err = "none"
  PROVE  OnLevel(z, ReadTiff(file, r, z, Limits, quality))
<1> DEFINE p == ReadTiff(file, r, z, Limits, quality)
           c == CropCoords(r, 1, file.nx, file.ny)
           k == 1
           j == FALSE
           m == 0
           o == GetSize(z, c.w, c.h, k, j, Limits)
           level == Level(file, o.reduce)
           q == ReadLevel(file, r, z, Limits, quality, level, o.reduce)
<1>1. file \in Masters /\ Proper(z) /\ z.type # "NONE" /\ z.type # "REDUCE"
  BY DEF Readable, Proper
<1>2. file.nx \in Nat \ {0} /\ file.ny \in Nat \ {0} /\ file.nx <= LargestSide /\ file.ny <= LargestSide
  BY <1>1, MasterSides
<1>3. Len(file.levels) # 1
  <2> DEFINE l == Len(file.levels)
  <2>1. l > 1
    BY DEF Pyramid
  <2> HIDE DEF l
  <2>2. l # 1
    BY <2>1
  <2> QED
    BY <2>2 DEF l
<1>4. p = IF c.err THEN Refused("iiif")
          ELSE IF z.type = "NONE" THEN Plan("none", c, 1, c.w, c.h, "undefined")
          ELSE IF o.err THEN Refused("size") ELSE q
  BY <1>3, Zenon DEF ReadTiff, SizedIn
<1>5. p.err = "none"
  OBVIOUS
<1>6. c = AllOfIt
  BY WholeRegion DEF Region
<1>7. c.w = file.nx /\ c.h = file.ny
  BY <1>6 DEF AllOfIt
<1>8. SizeOn(z) = GetSize(z, file.nx, file.ny, m, j, Limits)
  BY DEF SizeOn
<1>9. j \in BOOLEAN
  OBVIOUS
<1> HIDE DEF c, p, k, j, m
<1>10. p = q
  <2> HIDE DEF q, o
  <2> QED
    BY <1>1, <1>4, <1>5, RefusedErrors
<1>11. o = SizeOn(z)
  BY <1>1, <1>7, <1>8, AnyFactor
<1>12. IsFactor(o.reduce, j)
  BY <1>1, <1>2, <1>7, <1>9, ReduceIsFactor DEF LargestSide
<1> DEFINE red == o.reduce
<1>13. red \in Nat \ {0} /\ red = SizeOn(z).reduce
  <2> HIDE DEF o
  <2> QED
    BY <1>11, <1>12 DEF IsFactor
<1>14. level = Level(file, red) /\ q = ReadLevel(file, r, z, Limits, quality, level, red)
  OBVIOUS
<1> HIDE DEF red, q
<1>15. level \in DOMAIN file.levels
  <2> HIDE DEF level
  <2> QED
    BY <1>1, <1>13, <1>14, LevelTaken
<1> HIDE DEF level, o
<1>16. q.err = "none"
  BY <1>5, <1>10
<1>17. TakenFrom(r, z, q, level, red)
  <2> DEFINE e == ReadLevel(file, r, z, Limits, quality, level, red)
  <2>1. e.err = "none"
    BY <1>14, <1>16
  <2>2. TakenFrom(r, z, e, level, red)
    BY <1>13, <1>15, <2>1, LevelRead
  <2> QED
    BY <1>14, <2>2
<1>18. OnLevel(z, q)
  BY <1>13, <1>14, <1>17, WholeOnLevel
<1> QED
  BY <1>10, <1>18 DEF p

\* An extent that is no larger than w x h, but for what a level rounds.
Within(p, w, h) == p.nx <= w + Slack(p.by) /\ p.ny <= h + Slack(p.by)

LEMMA SlackIsNat ==
  ASSUME NEW by \in Nat \ {0}
  PROVE  /\ Slack(by) \in Nat
         /\ Pyramid /\ by # 1 => Slack(by) = 2
BY DEF Slack

\* A side for which an image of i pixels is reduced.
LEMMA ReducedSide ==
  ASSUME NEW n \in Nat \ {0}, NEW i \in Nat \ {0}, NEW by \in Nat \ {0}, NEW red \in Nat,
         by <= 2 * red, red <= i \div n
  PROVE  by * n <= 2 * i
<1> DEFINE d == i \div n
<1>1. d \in Nat /\ d * n <= i
  BY Quotient
<1> HIDE DEF d
<1>2. by <= 2 * d
  BY <1>1 DEF d
<1>3. by * n <= (2 * d) * n
  BY <1>1, <1>2
<1>4. (2 * d) * n = 2 * (d * n)
  BY <1>1
<1> DEFINE u == d * n
           v == by * n
           w == (2 * d) * n
<1>5. u \in Nat /\ v \in Nat /\ w \in Nat /\ u <= i /\ v <= w /\ w = 2 * u
  BY <1>1, <1>3, <1>4
<1> HIDE DEF u, v, w
<1>6. v <= 2 * i
  BY <1>5
<1> QED
  BY <1>6 DEF v

LEMMA FactorOfSide ==
  ASSUME NEW n \in Nat \ {0}, NEW i \in Nat \ {0}, NEW by \in Nat \ {0},
         2 <= Factor(n, i, FALSE), by <= 2 * Factor(n, i, FALSE)
  PROVE  by * n <= 2 * i
<1>1. Factor(n, i, FALSE) = i \div n
  BY DEF Factor
<1>2. i \div n \in Nat
  OBVIOUS
<1>3. by <= 2 * (i \div n)
  BY <1>1
<1> DEFINE red == i \div n
<1>4. red \in Nat /\ by <= 2 * red /\ red = i \div n
  BY <1>2, <1>3
<1> HIDE DEF red
<1>5. red <= i \div n
  BY <1>4
<1> QED
  BY <1>4, <1>5, ReducedSide

\* The factor for a box is no more than the quotient of either side.
LEMMA BoxFactor ==
  ASSUME NEW f \in Nat, NEW g \in Nat,
         2 <= Smaller(IF f < 1 THEN 1 ELSE f, IF g < 1 THEN 1 ELSE g)
  PROVE  LET red == Smaller(IF f < 1 THEN 1 ELSE f, IF g < 1 THEN 1 ELSE g)
         IN  red \in Nat /\ red <= f /\ red <= g
BY DEF Smaller

\* A side by a factor that divides the other one is the quotient rounded up.
LEMMA DerivedExactly ==
  ASSUME NEW n \in Nat \ {0}, NEW i \in Nat \ {0}, Exact(n, i), NEW k \in Nat \ {0}
  PROVE  CeilDiv(k, i \div n) = CeilDiv(k * n, i)
<1> DEFINE r == i \div n
           kn == k * n
           q == CeilDiv(k, r)
           s == CeilDiv(kn, i)
<1>1. r \in Nat \ {0} /\ i = r * n /\ kn \in Nat
  BY ExactFactor
<1> HIDE DEF r
<1>2. q \in Nat /\ k <= q * r /\ q * r < k + r
  BY <1>1, CeilDivBounds
<1> HIDE DEF q
<1>3. (q * r) * n < (k + r) * n
  BY <1>1, <1>2
<1>4. kn <= (q * r) * n
  BY <1>1, <1>2
<1>5. q * i = (q * r) * n /\ (k + r) * n = kn + i
  BY <1>1, <1>2
<1>6. kn <= q * i /\ q * i < kn + i
  BY <1>3, <1>4, <1>5
<1> HIDE DEF kn
<1>7. s \in Nat /\ kn <= s * i /\ s * i < kn + i
  BY <1>1, CeilDivBounds
<1> HIDE DEF s
<1>8. ~(q + 1 <= s)
  <2> SUFFICES ASSUME q + 1 <= s PROVE FALSE
    OBVIOUS
  <2>1. (q + 1) * i <= s * i
    BY <1>2, <1>7
  <2>2. (q + 1) * i = q * i + i
    BY <1>2
  <2> DEFINE u == q * i
             v == s * i
  <2>3. u \in Nat /\ v \in Nat /\ u + i <= v /\ kn <= u /\ v < kn + i
    BY <1>2, <1>6, <1>7, <2>1, <2>2
  <2> HIDE DEF u, v
  <2> QED
    BY <1>1, <2>3
<1>9. ~(s + 1 <= q)
  <2> SUFFICES ASSUME s + 1 <= q PROVE FALSE
    OBVIOUS
  <2>1. (s + 1) * i <= q * i
    BY <1>2, <1>7
  <2>2. (s + 1) * i = s * i + i
    BY <1>7
  <2> DEFINE u == s * i
             v == q * i
  <2>3. u \in Nat /\ v \in Nat /\ u + i <= v /\ kn <= u /\ v < kn + i
    BY <1>2, <1>6, <1>7, <2>1, <2>2
  <2> HIDE DEF u, v
  <2> QED
    BY <1>1, <2>3
<1>10. q = s
  BY <1>2, <1>7, <1>8, <1>9
<1> QED
  BY <1>10 DEF q, r, s, kn

\* The extent of a size that gives one side, whether a factor is exact or not.
LEMMA WideSize ==
  ASSUME NEW z, Proper(z), z.type = "PIXELS_X", NEW w \in Nat \ {0}, NEW h \in Nat \ {0}, NEW m, NEW j \in BOOLEAN, ~j, NEW lim
  PROVE  LET o == GetSize(z, w, h, m, j, lim)
         IN  z.nx \in Nat \ {0} /\ o.w = z.nx /\ o.h = CeilDiv(h * z.nx, w) /\ o.reduce = Factor(z.nx, w, j)
<1> DEFINE o == GetSize(z, w, h, m, j, lim)
<1>1. z.nx \in Nat \ {0}
  BY ProperNumbers
<1>2. Exact(z.nx, w) => Factor(z.nx, w, j) = w \div z.nx
  BY <1>1 DEF Exact, Factor
<1>3. /\ o.w = z.nx
      /\ o.h = IF Exact(z.nx, w) THEN CeilDiv(h, Factor(z.nx, w, j)) ELSE CeilDiv(h * z.nx, w)
      /\ o.reduce = Factor(z.nx, w, j)
  BY PixelsXSize
<1> HIDE DEF o
<1>4. o.h = CeilDiv(h * z.nx, w)
  <2>1. CASE Exact(z.nx, w)
    BY <1>1, <1>2, <1>3, <2>1, DerivedExactly
  <2>2. CASE ~Exact(z.nx, w)
    BY <1>3, <2>2
  <2> QED
    BY <2>1, <2>2
<1> QED
  BY <1>1, <1>3, <1>4 DEF o

LEMMA HighSize ==
  ASSUME NEW z, Proper(z), z.type = "PIXELS_Y", NEW w \in Nat \ {0}, NEW h \in Nat \ {0}, NEW m, NEW j \in BOOLEAN, ~j, NEW lim
  PROVE  LET o == GetSize(z, w, h, m, j, lim)
         IN  z.ny \in Nat \ {0} /\ o.h = z.ny /\ o.w = CeilDiv(w * z.ny, h) /\ o.reduce = Factor(z.ny, h, j)
<1> DEFINE o == GetSize(z, w, h, m, j, lim)
<1>1. z.ny \in Nat \ {0}
  BY ProperNumbers
<1>2. Exact(z.ny, h) => Factor(z.ny, h, j) = h \div z.ny
  BY <1>1 DEF Exact, Factor
<1>3. /\ o.w = IF Exact(z.ny, h) THEN CeilDiv(w, Factor(z.ny, h, j)) ELSE CeilDiv(w * z.ny, h)
      /\ o.h = z.ny
      /\ o.reduce = Factor(z.ny, h, j)
  BY PixelsYSize
<1> HIDE DEF o
<1>4. o.w = CeilDiv(w * z.ny, h)
  <2>1. CASE Exact(z.ny, h)
    BY <1>1, <1>2, <1>3, <2>1, DerivedExactly
  <2>2. CASE ~Exact(z.ny, h)
    BY <1>3, <2>2
  <2> QED
    BY <2>1, <2>2
<1> QED
  BY <1>1, <1>3, <1>4 DEF o

LEMMA BoxSize ==
  ASSUME NEW z, Proper(z), z.type = "MAXDIM", NEW w \in Nat \ {0}, NEW h \in Nat \ {0}, NEW m, NEW j \in BOOLEAN, ~j, NEW lim
  PROVE  LET o == GetSize(z, w, h, m, j, lim)
             f == w \div o.w
             g == h \div o.h
         IN  /\ z.nx \in Nat \ {0} /\ z.ny \in Nat \ {0}
             /\ o.w = IF z.nx * h < z.ny * w THEN z.nx ELSE CeilDiv(w * z.ny, h)
             /\ o.h = IF z.nx * h < z.ny * w THEN CeilDiv(h * z.nx, w) ELSE z.ny
             /\ o.reduce = Smaller(IF f < 1 THEN 1 ELSE f, IF g < 1 THEN 1 ELSE g)
<1> DEFINE o == GetSize(z, w, h, m, j, lim)
           f == w \div o.w
           g == h \div o.h
           F == IF f < 1 THEN 1 ELSE f
           G == IF g < 1 THEN 1 ELSE g
<1>1. z.nx \in Nat \ {0} /\ z.ny \in Nat \ {0}
  BY ProperNumbers
<1>2. ~j
  OBVIOUS
<1>3. /\ o.w = IF z.nx * h < z.ny * w THEN z.nx ELSE CeilDiv(w * z.ny, h)
      /\ o.h = IF z.nx * h < z.ny * w THEN CeilDiv(h * z.nx, w) ELSE z.ny
      /\ o.reduce = Smaller(IF j THEN PowerBelow(F) ELSE F, IF j THEN PowerBelow(G) ELSE G)
  BY MaxdimSize
<1>4. o.reduce = Smaller(F, G)
  <2> HIDE DEF F, G, o
  <2> QED
    BY <1>2, <1>3
<1> QED
  BY <1>1, <1>3, <1>4

\* What is read of a level, with the numbers of the level.
LevelNumbers(z, p, W, H) ==
  /\ W = CeilDiv(file.nx, p.by) /\ H = CeilDiv(file.ny, p.by)
  /\ W \in Nat \ {0} /\ H \in Nat \ {0}
  /\ p.nx = GetSize(z, W, H, 0, FALSE, Limits).w /\ p.ny = GetSize(z, W, H, 0, FALSE, Limits).h
  /\ p.by = 1 => W = file.nx /\ H = file.ny

LEMMA NumbersOfLevel ==
  ASSUME file \in Masters, NEW z, NEW p, OnLevel(z, p)
  PROVE  LevelNumbers(z, p, CeilDiv(file.nx, p.by), CeilDiv(file.ny, p.by))
<1>1. file.nx \in Nat \ {0} /\ file.ny \in Nat \ {0}
  BY MasterSides
<1>2. p.by \in Nat \ {0}
  BY DEF OnLevel
<1> DEFINE W == CeilDiv(file.nx, p.by)
           H == CeilDiv(file.ny, p.by)
<1>3. W \in Nat \ {0} /\ H \in Nat \ {0}
  BY <1>1, <1>2, CeilDivPositive
<1>4. p.by = 1 => W = file.nx /\ H = file.ny
  BY <1>1, CeilDivOne
<1>5. p.nx = GetSize(z, W, H, 0, FALSE, Limits).w /\ p.ny = GetSize(z, W, H, 0, FALSE, Limits).h
  BY DEF OnLevel
<1>6. W = CeilDiv(file.nx, p.by) /\ H = CeilDiv(file.ny, p.by)
  OBVIOUS
<1> HIDE DEF W, H
<1>7. LevelNumbers(z, p, W, H)
  BY <1>3, <1>4, <1>5, <1>6 DEF LevelNumbers
<1> QED
  BY <1>7 DEF W, H

\* The image itself is read to the extent of the size.
LEMMA ImageFits ==
  ASSUME file \in Masters, NEW z, Proper(z), z.type # "FULL", NEW p, OnLevel(z, p), p.by = 1
  PROVE  Within(p, SizeOn(z).w, SizeOn(z).h)
<1>1. p.nx = SizeOn(z).w /\ p.ny = SizeOn(z).h
  BY NumbersOfLevel DEF LevelNumbers, SizeOn
<1> DEFINE w == SizeOn(z).w
           h == SizeOn(z).h
<1>2. file.nx \in Nat \ {0} /\ file.ny \in Nat \ {0}
  BY MasterSides
<1>3. w \in Nat /\ h \in Nat
  <2> DEFINE m == 0
             j == FALSE
             lim == Limits
             o == GetSize(z, file.nx, file.ny, m, j, lim)
  <2>1. j \in BOOLEAN /\ ExtentIsKnown(z, file.nx, file.ny, m, j, lim)
    BY DEF ExtentIsKnown
  <2>2. w = o.w /\ h = o.h
    BY DEF SizeOn
  <2> HIDE DEF j, m, lim
  <2>3. Meant(z, file.nx, file.ny, o)
    BY <1>2, <2>1, GetSizeMeant
  <2> HIDE DEF o, w, h
  <2> QED
    BY <2>2, <2>3 DEF Meant
<1>4. Slack(p.by) = 0
  BY DEF Slack
<1> HIDE DEF w, h
<1>5. w <= w + 0 /\ h <= h + 0
  BY <1>3
<1> QED
  BY <1>1, <1>4, <1>5 DEF Within, w, h

LEMMA WideLevel ==
  ASSUME file \in Masters, Pyramid, NEW z, Proper(z), z.type = "PIXELS_X", NEW p, OnLevel(z, p), p.by # 1
  PROVE  Within(p, SizeOn(z).w, SizeOn(z).h)
<1> DEFINE W == CeilDiv(file.nx, p.by)
           H == CeilDiv(file.ny, p.by)
           n == z.nx
           m == 0
           j == FALSE
           o == SizeOn(z)
           l == GetSize(z, W, H, m, j, Limits)
           by == p.by
<1>1. LevelNumbers(z, p, W, H)
  BY NumbersOfLevel
<1>2. file.nx \in Nat \ {0} /\ file.ny \in Nat \ {0} /\ by \in Nat \ {0}
  BY MasterSides DEF OnLevel
<1>3. n \in Nat \ {0} /\ o.w = n /\ o.h = CeilDiv(file.ny * n, file.nx) /\ o.reduce = Factor(n, file.nx, FALSE)
  <2>1. o = GetSize(z, file.nx, file.ny, m, j, Limits)
    BY DEF SizeOn
  <2>2. j \in BOOLEAN /\ ~j
    OBVIOUS
  <2> HIDE DEF o, m, j
  <2>3. n \in Nat \ {0} /\ o.w = n /\ o.h = CeilDiv(file.ny * n, file.nx) /\ o.reduce = Factor(n, file.nx, j)
    BY <1>2, <2>1, <2>2, WideSize
  <2> QED
    BY <2>2, <2>3
<1>4. by * n <= 2 * file.nx
  <2>1. 2 <= o.reduce /\ by <= 2 * o.reduce
    BY DEF OnLevel
  <2> HIDE DEF o, n, by
  <2> QED
    BY <1>2, <1>3, <2>1, FactorOfSide
<1>5. l.w = n /\ l.h = CeilDiv(H * n, W)
  <2>1. W \in Nat \ {0} /\ H \in Nat \ {0}
    BY <1>1 DEF LevelNumbers
  <2>2. j \in BOOLEAN /\ ~j
    OBVIOUS
  <2> HIDE DEF W, H, m, j
  <2> QED
    BY <2>1, <2>2, WideSize
<1>6. p.nx = l.w /\ p.ny = l.h
  BY <1>1 DEF LevelNumbers
<1>7. CeilDiv(H * n, W) <= CeilDiv(file.ny * n, file.nx) + 2
  <2> HIDE DEF n, by
  <2> QED
    BY <1>2, <1>3, <1>4, ProportionGrows DEF by
<1>8. Slack(p.by) = 2
  BY <1>2, SlackIsNat
<1> HIDE DEF l, o, n
<1>9. p.nx <= o.w + 2 /\ p.ny <= o.h + 2
  <2>1. n <= n + 2
    BY <1>3
  <2> QED
    BY <1>3, <1>5, <1>6, <1>7, <2>1
<1> QED
  BY <1>8, <1>9 DEF Within, o

LEMMA HighLevel ==
  ASSUME file \in Masters, Pyramid, NEW z, Proper(z), z.type = "PIXELS_Y", NEW p, OnLevel(z, p), p.by # 1
  PROVE  Within(p, SizeOn(z).w, SizeOn(z).h)
<1> DEFINE W == CeilDiv(file.nx, p.by)
           H == CeilDiv(file.ny, p.by)
           n == z.ny
           m == 0
           j == FALSE
           o == SizeOn(z)
           l == GetSize(z, W, H, m, j, Limits)
           by == p.by
<1>1. LevelNumbers(z, p, W, H)
  BY NumbersOfLevel
<1>2. file.nx \in Nat \ {0} /\ file.ny \in Nat \ {0} /\ by \in Nat \ {0}
  BY MasterSides DEF OnLevel
<1>3. n \in Nat \ {0} /\ o.h = n /\ o.w = CeilDiv(file.nx * n, file.ny) /\ o.reduce = Factor(n, file.ny, FALSE)
  <2>1. o = GetSize(z, file.nx, file.ny, m, j, Limits)
    BY DEF SizeOn
  <2>2. j \in BOOLEAN /\ ~j
    OBVIOUS
  <2> HIDE DEF o, m, j
  <2>3. n \in Nat \ {0} /\ o.w = CeilDiv(file.nx * n, file.ny) /\ o.h = n /\ o.reduce = Factor(n, file.ny, j)
    BY <1>2, <2>1, <2>2, HighSize
  <2> QED
    BY <2>2, <2>3
<1>4. by * n <= 2 * file.ny
  <2>1. 2 <= o.reduce /\ by <= 2 * o.reduce
    BY DEF OnLevel
  <2> HIDE DEF o, n, by
  <2> QED
    BY <1>2, <1>3, <2>1, FactorOfSide
<1>5. l.h = n /\ l.w = CeilDiv(W * n, H)
  <2>1. W \in Nat \ {0} /\ H \in Nat \ {0}
    BY <1>1 DEF LevelNumbers
  <2>2. j \in BOOLEAN /\ ~j
    OBVIOUS
  <2> HIDE DEF W, H, m, j
  <2> QED
    BY <2>1, <2>2, HighSize
<1>6. p.nx = l.w /\ p.ny = l.h
  BY <1>1 DEF LevelNumbers
<1>7. CeilDiv(W * n, H) <= CeilDiv(file.nx * n, file.ny) + 2
  <2> HIDE DEF n, by
  <2> QED
    BY <1>2, <1>3, <1>4, ProportionGrows DEF by
<1>8. Slack(p.by) = 2
  BY <1>2, SlackIsNat
<1> HIDE DEF l, o, n
<1>9. p.nx <= o.w + 2 /\ p.ny <= o.h + 2
  <2>1. n <= n + 2
    BY <1>3
  <2> QED
    BY <1>3, <1>5, <1>6, <1>7, <2>1
<1> QED
  BY <1>8, <1>9 DEF Within, o

LEMMA ExactLevel ==
  ASSUME file \in Masters, Pyramid, NEW z, Proper(z), z.type = "PIXELS_XY", NEW p, OnLevel(z, p), p.by # 1
  PROVE  Within(p, SizeOn(z).w, SizeOn(z).h)
<1> DEFINE W == CeilDiv(file.nx, p.by)
           H == CeilDiv(file.ny, p.by)
           m == 0
           j == FALSE
           l == GetSize(z, W, H, m, j, Limits)
           o == GetSize(z, file.nx, file.ny, m, j, Limits)
<1>1. LevelNumbers(z, p, W, H)
  BY NumbersOfLevel
<1>2. p.nx = l.w /\ p.ny = l.h
  BY <1>1 DEF LevelNumbers
<1>3. z.nx \in Nat /\ z.ny \in Nat
  BY ProperNumbers
<1>4. o = SizeOn(z)
  BY DEF SizeOn
<1>5. p.by \in Nat \ {0}
  BY DEF OnLevel
<1> HIDE DEF W, H, m, j
<1>6. l.w = z.nx /\ l.h = z.ny /\ o.w = z.nx /\ o.h = z.ny
  BY PixelsXYSize
<1>7. Slack(p.by) = 2
  BY <1>5, SlackIsNat
<1> HIDE DEF l, o
<1>8. z.nx <= z.nx + 2 /\ z.ny <= z.ny + 2
  BY <1>3
<1> QED
  BY <1>2, <1>4, <1>6, <1>7, <1>8 DEF Within

\* Of two sides one is given by a box, and the other one derived: on the image
\* (w, h) and on the level (W, H).
BoxNumbers(w, h, W, H, nx, ny, ow, oh, lw, lh) ==
  /\ ow = IF nx * h < ny * w THEN nx ELSE CeilDiv(w * ny, h)
  /\ oh = IF nx * h < ny * w THEN CeilDiv(h * nx, w) ELSE ny
  /\ lw = IF nx * H < ny * W THEN nx ELSE CeilDiv(W * ny, H)
  /\ lh = IF nx * H < ny * W THEN CeilDiv(H * nx, W) ELSE ny
  /\ nx * h < ny * w => CeilDiv(H * nx, W) <= CeilDiv(h * nx, w) + 2
  /\ ~(nx * h < ny * w) => CeilDiv(W * ny, H) <= CeilDiv(w * ny, h) + 2

LEMMA BoxOnLevel ==
  ASSUME NEW w \in Nat \ {0}, NEW h \in Nat \ {0}, NEW W \in Nat \ {0}, NEW H \in Nat \ {0},
         NEW nx \in Nat \ {0}, NEW ny \in Nat \ {0}, NEW ow \in Nat, NEW oh \in Nat, NEW lw, NEW lh,
         BoxNumbers(w, h, W, H, nx, ny, ow, oh, lw, lh)
  PROVE  lw <= ow + 2 /\ lh <= oh + 2
<1> DEFINE a == CeilDiv(w * ny, h)
           b == CeilDiv(h * nx, w)
           A == CeilDiv(W * ny, H)
           B == CeilDiv(H * nx, W)
           u == nx * h
           v == ny * w
           U == nx * H
           V == ny * W
<1>1. a \in Nat /\ b \in Nat /\ A \in Nat /\ B \in Nat
  BY DerivedSide
<1>2. u \in Nat /\ v \in Nat /\ U \in Nat /\ V \in Nat
  OBVIOUS
<1>3. /\ ow = IF u < v THEN nx ELSE a
      /\ oh = IF u < v THEN b ELSE ny
      /\ lw = IF U < V THEN nx ELSE A
      /\ lh = IF U < V THEN B ELSE ny
      /\ u < v => B <= b + 2
      /\ ~(u < v) => A <= a + 2
  BY DEF BoxNumbers
<1>4. ~(U < V) => A <= nx /\ ny <= B
  <2> SUFFICES ASSUME ~(U < V) PROVE A <= nx /\ ny <= B
    OBVIOUS
  <2>1. V <= U
    BY <1>2
  <2>2. A <= nx
    BY <2>1, BoxWidth
  <2>3. ny <= B
    <3>1. H * nx <= B * W
      <4> DEFINE c == H * nx
      <4>1. c \in Nat
        OBVIOUS
      <4> HIDE DEF c
      <4>2. c <= CeilDiv(c, W) * W
        BY <4>1, CeilDivBounds
      <4> QED
        BY <4>2 DEF c
    <3>2. ny * W <= B * W
      <4> DEFINE k == B * W
      <4>1. k \in Nat /\ U <= k
        BY <1>1, <3>1
      <4> HIDE DEF k, B
      <4> QED
        BY <1>2, <2>1, <4>1 DEF k
    <3> HIDE DEF B
    <3> QED
      BY <1>1, <3>2
  <2> QED
    BY <2>2, <2>3
<1>5. U < V => B <= ny /\ nx <= A
  <2> SUFFICES ASSUME U < V PROVE B <= ny /\ nx <= A
    OBVIOUS
  <2>1. U <= V
    BY <1>2
  <2>2. B <= ny
    BY <2>1, BoxHeight
  <2>3. nx <= A
    <3>1. W * ny <= A * H
      <4> DEFINE c == W * ny
      <4>1. c \in Nat
        OBVIOUS
      <4> HIDE DEF c
      <4>2. c <= CeilDiv(c, H) * H
        BY <4>1, CeilDivBounds
      <4> QED
        BY <4>2 DEF c
    <3>2. nx * H <= A * H
      <4> DEFINE k == A * H
      <4>1. k \in Nat /\ V <= k
        BY <1>1, <3>1
      <4> HIDE DEF k, A
      <4> QED
        BY <1>2, <2>1, <4>1 DEF k
    <3> HIDE DEF A
    <3> QED
      BY <1>1, <3>2
  <2> QED
    BY <2>2, <2>3
<1> HIDE DEF a, b, A, B, u, v, U, V
<1>6. CASE u < v
  <2>1. CASE U < V
    BY <1>1, <1>3, <1>6, <2>1
  <2>2. CASE ~(U < V)
    BY <1>1, <1>3, <1>4, <1>6, <2>2
  <2> QED
    BY <2>1, <2>2
<1>7. CASE ~(u < v)
  <2>1. CASE U < V
    BY <1>1, <1>3, <1>5, <1>7, <2>1
  <2>2. CASE ~(U < V)
    BY <1>1, <1>3, <1>7, <2>2
  <2> QED
    BY <2>1, <2>2
<1> QED
  BY <1>6, <1>7

LEMMA BoxLevel ==
  ASSUME file \in Masters, Pyramid, NEW z, Proper(z), z.type = "MAXDIM", NEW p, OnLevel(z, p), p.by # 1
  PROVE  Within(p, SizeOn(z).w, SizeOn(z).h)
<1> DEFINE W == CeilDiv(file.nx, p.by)
           H == CeilDiv(file.ny, p.by)
           m == 0
           j == FALSE
           o == SizeOn(z)
           l == GetSize(z, W, H, m, j, Limits)
           by == p.by
           w == file.nx
           h == file.ny
           nx == z.nx
           ny == z.ny
           f == w \div o.w
           g == h \div o.h
<1>1. LevelNumbers(z, p, W, H)
  BY NumbersOfLevel
<1>2. w \in Nat \ {0} /\ h \in Nat \ {0} /\ by \in Nat \ {0}
  BY MasterSides DEF OnLevel
<1>3. W \in Nat \ {0} /\ H \in Nat \ {0} /\ p.nx = l.w /\ p.ny = l.h
  BY <1>1 DEF LevelNumbers
<1>4. o = GetSize(z, w, h, m, j, Limits)
  BY DEF SizeOn
<1>5. j \in BOOLEAN /\ ~j
  OBVIOUS
<1>6. 2 <= o.reduce /\ by <= 2 * o.reduce
  BY DEF OnLevel
<1> HIDE DEF W, H, m, j, o
<1>7. /\ nx \in Nat \ {0} /\ ny \in Nat \ {0}
      /\ o.w = IF nx * h < ny * w THEN nx ELSE CeilDiv(w * ny, h)
      /\ o.h = IF nx * h < ny * w THEN CeilDiv(h * nx, w) ELSE ny
      /\ o.reduce = Smaller(IF f < 1 THEN 1 ELSE f, IF g < 1 THEN 1 ELSE g)
  BY <1>2, <1>4, <1>5, BoxSize
<1>8. /\ l.w = IF nx * H < ny * W THEN nx ELSE CeilDiv(W * ny, H)
      /\ l.h = IF nx * H < ny * W THEN CeilDiv(H * nx, W) ELSE ny
  BY <1>3, <1>5, BoxSize
<1>9. o.w \in Nat \ {0} /\ o.h \in Nat \ {0}
  BY <1>2, <1>4, MaxdimSides
<1>10. o.reduce \in Nat /\ o.reduce <= f /\ o.reduce <= g
  <2>1. f \in Nat /\ g \in Nat
    BY <1>2, <1>9
  <2> HIDE DEF f, g
  <2> QED
    BY <1>6, <1>7, <2>1, BoxFactor
<1> DEFINE ow == o.w
           oh == o.h
           red == o.reduce
<1>11. by * ow <= 2 * w /\ by * oh <= 2 * h
  <2>1. ow \in Nat \ {0} /\ oh \in Nat \ {0} /\ red \in Nat /\ by <= 2 * red /\ red <= w \div ow /\ red <= h \div oh
    BY <1>6, <1>9, <1>10
  <2> HIDE DEF ow, oh, red, w, h, by
  <2> QED
    BY <1>2, <2>1, ReducedSide
<1> HIDE DEF nx, ny
<1>12. nx * h < ny * w => CeilDiv(H * nx, W) <= CeilDiv(h * nx, w) + 2
  <2> SUFFICES ASSUME nx * h < ny * w PROVE CeilDiv(H * nx, W) <= CeilDiv(h * nx, w) + 2
    OBVIOUS
  <2>1. by * nx <= 2 * w
    BY <1>7, <1>11
  <2> HIDE DEF by, w, h
  <2>2. CeilDiv(CeilDiv(h, by) * nx, CeilDiv(w, by)) <= CeilDiv(h * nx, w) + 2
    BY <1>2, <1>7, <2>1, ProportionGrows
  <2> QED
    BY <2>2 DEF W, H, by, w, h
<1>13. ~(nx * h < ny * w) => CeilDiv(W * ny, H) <= CeilDiv(w * ny, h) + 2
  <2> SUFFICES ASSUME ~(nx * h < ny * w) PROVE CeilDiv(W * ny, H) <= CeilDiv(w * ny, h) + 2
    OBVIOUS
  <2>1. by * ny <= 2 * h
    BY <1>7, <1>11
  <2> HIDE DEF by, w, h
  <2>2. CeilDiv(CeilDiv(w, by) * ny, CeilDiv(h, by)) <= CeilDiv(w * ny, h) + 2
    BY <1>2, <1>7, <2>1, ProportionGrows
  <2> QED
    BY <2>2 DEF W, H, by, w, h
<1> DEFINE lw == l.w
           lh == l.h
<1>14. /\ ow \in Nat /\ oh \in Nat
       /\ ow = IF nx * h < ny * w THEN nx ELSE CeilDiv(w * ny, h)
       /\ oh = IF nx * h < ny * w THEN CeilDiv(h * nx, w) ELSE ny
       /\ lw = IF nx * H < ny * W THEN nx ELSE CeilDiv(W * ny, H)
       /\ lh = IF nx * H < ny * W THEN CeilDiv(H * nx, W) ELSE ny
  BY <1>7, <1>8, <1>9
<1>15. Slack(p.by) = 2
  BY <1>2, SlackIsNat
<1> HIDE DEF ow, oh, lw, lh, w, h
<1>16. lw <= ow + 2 /\ lh <= oh + 2
  <2>1. BoxNumbers(w, h, W, H, nx, ny, ow, oh, lw, lh)
    BY <1>12, <1>13, <1>14 DEF BoxNumbers
  <2>2. ow \in Nat /\ oh \in Nat
    BY <1>14
  <2> QED
    BY <1>2, <1>3, <1>7, <2>1, <2>2, BoxOnLevel
<1>17. p.nx <= o.w + 2 /\ p.ny <= o.h + 2
  BY <1>3, <1>16 DEF ow, oh, lw, lh
<1> QED
  BY <1>15, <1>17 DEF Within, o

\* What is read of a pyramid is no larger than its size on the image.
LEMMA PyramidFits ==
  ASSUME file \in Masters, Pyramid, NEW z, Proper(z), z.type \notin {"FULL", "PERCENTS"}, NEW p, OnLevel(z, p)
  PROVE  Within(p, SizeOn(z).w, SizeOn(z).h)
<1>1. z.type \in {"PIXELS_X", "PIXELS_Y", "PIXELS_XY", "MAXDIM"}
  BY DEF Proper
<1>2. CASE p.by = 1
  BY <1>1, <1>2, ImageFits
<1>3. CASE p.by # 1
  BY <1>1, <1>3, WideLevel, HighLevel, ExactLevel, BoxLevel
<1> QED
  BY <1>2, <1>3

\* Where a factor does not do all of it, JPEG2000 is given the same extent.
LEMMA SizeWithoutFactor ==
  ASSUME NEW z, Proper(z), z.type # "FULL", NEW w, NEW h, NEW m, NEW n, NEW j, NEW k, NEW lim,
         ~GetSize(z, w, h, m, j, lim).redonly
  PROVE  /\ GetSize(z, w, h, m, j, lim).w = GetSize(z, w, h, n, k, lim).w
         /\ GetSize(z, w, h, m, j, lim).h = GetSize(z, w, h, n, k, lim).h
<1> DEFINE o == GetSize(z, w, h, m, j, lim)
           e == GetSize(z, w, h, n, k, lim)
<1>1. z.type \in {"PERCENTS", "PIXELS_X", "PIXELS_Y", "PIXELS_XY", "MAXDIM"}
  BY DEF Proper
<1>2. ~o.redonly
  OBVIOUS
<1>3. CASE z.type = "PERCENTS"
  <2> HIDE DEF o, e
  <2>1. o.w = CeilDiv(w * z.percent, 100) /\ o.h = CeilDiv(h * z.percent, 100)
    BY <1>3, PercentSize DEF o
  <2>2. e.w = CeilDiv(w * z.percent, 100) /\ e.h = CeilDiv(h * z.percent, 100)
    BY <1>3, PercentSize DEF e
  <2>3. o.w = e.w /\ o.h = e.h
    BY <2>1, <2>2
  <2> QED
    BY <2>3 DEF o, e
<1>4. CASE z.type = "PIXELS_X"
  <2>1. o.redonly = Exact(z.nx, w)
    BY <1>4, PixelsXRedonly
  <2>2. ~Exact(z.nx, w)
    BY <1>2, <2>1
  <2>3. /\ o.w = z.nx
        /\ o.h = IF Exact(z.nx, w) THEN CeilDiv(h, Factor(z.nx, w, j)) ELSE CeilDiv(h * z.nx, w)
    BY <1>4, PixelsXSize
  <2>4. /\ e.w = z.nx
        /\ e.h = IF Exact(z.nx, w) THEN CeilDiv(h, Factor(z.nx, w, k)) ELSE CeilDiv(h * z.nx, w)
    BY <1>4, PixelsXSize
  <2> HIDE DEF o, e
  <2>5. o.w = e.w /\ o.h = e.h
    BY <2>2, <2>3, <2>4
  <2> QED
    BY <2>5 DEF o, e
<1>5. CASE z.type = "PIXELS_Y"
  <2>1. o.redonly = Exact(z.ny, h)
    BY <1>5, PixelsYRedonly
  <2>2. ~Exact(z.ny, h)
    BY <1>2, <2>1
  <2>3. /\ o.w = IF Exact(z.ny, h) THEN CeilDiv(w, Factor(z.ny, h, j)) ELSE CeilDiv(w * z.ny, h)
        /\ o.h = z.ny
    BY <1>5, PixelsYSize
  <2>4. /\ e.w = IF Exact(z.ny, h) THEN CeilDiv(w, Factor(z.ny, h, k)) ELSE CeilDiv(w * z.ny, h)
        /\ e.h = z.ny
    BY <1>5, PixelsYSize
  <2> HIDE DEF o, e
  <2>5. o.w = e.w /\ o.h = e.h
    BY <2>2, <2>3, <2>4
  <2> QED
    BY <2>5 DEF o, e
<1>6. CASE z.type = "PIXELS_XY"
  <2>1. o.w = z.nx /\ o.h = z.ny /\ e.w = z.nx /\ e.h = z.ny
    BY <1>6, PixelsXYSize
  <2> HIDE DEF o, e
  <2>2. o.w = e.w /\ o.h = e.h
    BY <2>1
  <2> QED
    BY <2>2 DEF o, e
<1>7. CASE z.type = "MAXDIM"
  <2>1. /\ o.w = IF z.nx * h < z.ny * w THEN z.nx ELSE CeilDiv(w * z.ny, h)
        /\ o.h = IF z.nx * h < z.ny * w THEN CeilDiv(h * z.nx, w) ELSE z.ny
    BY <1>7, MaxdimSize
  <2>2. /\ e.w = IF z.nx * h < z.ny * w THEN z.nx ELSE CeilDiv(w * z.ny, h)
        /\ e.h = IF z.nx * h < z.ny * w THEN CeilDiv(h * z.nx, w) ELSE z.ny
    BY <1>7, MaxdimSize
  <2> HIDE DEF o, e
  <2>3. o.w = e.w /\ o.h = e.h
    BY <2>1, <2>2
  <2> QED
    BY <2>3 DEF o, e
<1> QED
  BY <1>1, <1>3, <1>4, <1>5, <1>6, <1>7

LEMMA J2kPlan ==
  ASSUME NEW r, NEW z, Readable(r, z), r.type = "FULL", z.type # "FULL", file.fmt = "jp2", KnownExtent(r, z),
         NEW quality, ReadJ2k(file, r, z, Limits, quality).err = "none"
  PROVE  /\ ReadJ2k(file, r, z, Limits, quality).nx = SizeOn(z).w
         /\ ReadJ2k(file, r, z, Limits, quality).ny = SizeOn(z).h
<1> DEFINE c == Area(r, 1, file.nx, file.ny)
           m == Len(file.levels)
           j == TRUE
           o == GetSize(z, c.w, c.h, m, j, Limits)
           p == ReadJ2k(file, r, z, Limits, quality)
           by == Min({b \in Powers : b >= o.reduce})
           d == Dropped(c, by)
           q == Outcome(FALSE, c.w, c.h, 1, TRUE)
           deep == by > 2^m
           none == 1 > 2^m
<1>1. p = IF c.err THEN Refused("image")
          ELSE IF AsItIs(z)
               THEN IF none \/ c.w = 0 \/ c.h = 0 THEN Plan("none", c, 1, q.w, q.h, "undefined")
                    ELSE IF q.redonly THEN Plan("none", c, 1, c.w, c.h, "asked")
                    ELSE Plan("none", c, 1, q.w, q.h, Pixels(c, q.w, q.h, quality))
          ELSE IF o.err THEN Refused("size")
          ELSE IF deep \/ d.w = 0 \/ d.h = 0 THEN Plan("none", d, by, o.w, o.h, "undefined")
          ELSE IF o.redonly THEN Plan("none", d, by, d.w, d.h, "asked")
          ELSE Plan("none", d, by, o.w, o.h, Pixels(d, o.w, o.h, quality))
  BY Zenon DEF ReadJ2k, SizedIn
<1>2. p.err = "none"
  OBVIOUS
<1>3. ~AsItIs(z) /\ Proper(z) /\ z.type # "REDUCE"
  BY DEF Readable, Proper, AsItIs
<1>4. c = AllOfIt
  BY WholeRegion
<1>5. c.w = file.nx /\ c.h = file.ny
  BY <1>4 DEF AllOfIt
<1>6. o = GetSize(z, file.nx, file.ny, m, j, Limits)
  BY <1>5
<1>7. ~o.redonly
  <2>1. ~SizeOf2(r, z, TRUE).redonly
    BY <1>3 DEF KnownExtent
  <2> DEFINE n == NamedArea(r)
             k == 1
  <2>2. n.w = file.nx /\ n.h = file.ny
    BY NamedFull DEF Readable
  <2>3. SizeOf2(r, z, TRUE) = GetSize(z, file.nx, file.ny, k, j, Limits)
    BY <2>2 DEF SizeOf2, j
  <2> HIDE DEF k, j
  <2>4. GetSize(z, file.nx, file.ny, k, j, Limits) = GetSize(z, file.nx, file.ny, m, j, Limits)
    BY <1>3, AnyFactor
  <2> QED
    BY <1>6, <2>1, <2>3, <2>4
<1>8. o.w = SizeOn(z).w /\ o.h = SizeOn(z).h
  <2> DEFINE n == 0
             k == FALSE
             e == GetSize(z, file.nx, file.ny, n, k, Limits)
             f == GetSize(z, file.nx, file.ny, m, j, Limits)
  <2>1. e = SizeOn(z)
    BY DEF SizeOn
  <2>2. f = o
    BY <1>6
  <2> HIDE DEF n, m, j, k
  <2>3. ~f.redonly
    BY <1>7, <2>2
  <2>4. f.w = e.w /\ f.h = e.h
    BY <1>3, <2>3, SizeWithoutFactor
  <2> HIDE DEF e, f, o
  <2> QED
    BY <2>1, <2>2, <2>4
<1> HIDE DEF c, m, j, p, q, deep, none, o, by, d
<1>9. p.nx = o.w /\ p.ny = o.h
  <2>1. \E e, b, px : p = Plan("none", e, b, o.w, o.h, px)
    BY <1>1, <1>2, <1>3, <1>7, RefusedErrors
  <2> QED
    BY <2>1, PlanFields
<1> QED
  BY <1>8, <1>9 DEF p

LEMMA SizeIsNat ==
  ASSUME file \in Masters, NEW z, Proper(z), z.type = "FULL" => ~z.up \/ Limits.w = 0
  PROVE  SizeOn(z).w \in Nat \ {0} /\ SizeOn(z).h \in Nat \ {0}
<1> DEFINE m == 0
           j == FALSE
           lim == Limits
           o == GetSize(z, file.nx, file.ny, m, j, lim)
<1>1. file.nx \in Nat \ {0} /\ file.ny \in Nat \ {0}
  BY MasterSides
<1>2. j \in BOOLEAN /\ ExtentIsKnown(z, file.nx, file.ny, m, j, lim)
  BY DEF ExtentIsKnown
<1>3. SizeOn(z) = o
  BY DEF SizeOn
<1> HIDE DEF j, m, lim
<1>4. Meant(z, file.nx, file.ny, o)
  BY <1>1, <1>2, GetSizeMeant
<1> HIDE DEF o
<1> QED
  BY <1>3, <1>4 DEF Meant

LEMMA MeantFull ==
  ASSUME NEW z, z.type = "FULL", NEW w, NEW h, NEW nx, NEW ny, MeansExtent(z, w, h, nx, ny)
  PROVE  nx = w /\ ny = h
BY DEF MeansExtent

LEMMA KnownUpscaling ==
  ASSUME NEW r, NEW z, KnownExtent(r, z), Proper(z)
  PROVE  z.type = "FULL" => ~z.up \/ Limits.w = 0
<1>1. Limits.w \in Nat
  BY LimitsAssumption
<1> QED
  BY <1>1 DEF KnownExtent

\* What is read for the whole image is no larger than its size.
LEMMA FreshFits ==
  ASSUME NumbersFit, NEW q, Served(q), NEW p, LikeFresh(Asked(q[1]), Chosen(q), p),
         KnownExtent(Asked(q[1]).region, Chosen(q)), Asked(q[1]).region.type = "FULL"
  PROVE  Within(p, SizeOn(Chosen(q)).w, SizeOn(Chosen(q)).h)
<1> DEFINE a == Asked(q[1])
           z == Chosen(q)
           r == a.region
           e == PlanOf(a, z)
           w == SizeOn(z).w
           h == SizeOn(z).h
           quality == ScaledBy
           s == Slack(p.by)
<1>1. Readable(r, z) /\ file \in Masters /\ Proper(z)
  BY ServedReadable DEF Readable
<1>2. w \in Nat \ {0} /\ h \in Nat \ {0}
  BY <1>1, KnownUpscaling, SizeIsNat
<1>3. e.err = "none" /\ p.nx = e.nx /\ p.ny = e.ny /\ InLevel(p)
  BY DEF LikeFresh
<1>4. p.by \in Nat \ {0}
  BY <1>3 DEF InLevel
<1>5. s \in Nat
  BY <1>4, SlackIsNat
<1>6. file.nx \in Nat \ {0} /\ file.ny \in Nat \ {0}
  BY <1>1, MasterSides
<1>7. e = ReadPlan(file, r, z, Limits, quality)
  BY DEF PlanOf
<1>8. SUFFICES p.nx <= w + s /\ p.ny <= h + s
  BY DEF Within
<1>9. ASSUME p.nx \in Int, p.ny \in Int, p.nx <= w, p.ny <= h PROVE p.nx <= w + s /\ p.ny <= h + s
  <2> HIDE DEF w, h, s
  <2> QED
    BY <1>2, <1>5, <1>9
<1>10. CASE z.type = "FULL"
  <2>1. w = file.nx /\ h = file.ny
    <3> DEFINE m == 0
               j == FALSE
    <3>1. SizeOn(z) = GetSize(z, file.nx, file.ny, m, j, Limits)
      BY DEF SizeOn
    <3> HIDE DEF m, j, z
    <3>2. /\ GetSize(z, file.nx, file.ny, m, j, Limits).w = file.nx
          /\ GetSize(z, file.nx, file.ny, m, j, Limits).h = file.ny
      BY <1>10, KnownFull DEF z
    <3> QED
      BY <3>1, <3>2
  <2>2. IF Pyramid THEN MeansExtent(z, p.w, p.h, p.nx, p.ny)
        ELSE MeansExtent(z, NamedArea(r).w, NamedArea(r).h, p.nx, p.ny)
    BY FreshIsDelivered
  <2>3. NamedArea(r).w = file.nx /\ NamedArea(r).h = file.ny
    BY <1>1, NamedFull
  <2>4. IF Pyramid THEN p.nx = p.w /\ p.ny = p.h ELSE p.nx = file.nx /\ p.ny = file.ny
    <3> HIDE DEF z, r
    <3>1. CASE Pyramid
      BY <1>10, <2>2, <3>1, MeantFull
    <3>2. CASE ~Pyramid
      BY <1>10, <2>2, <2>3, <3>2, MeantFull
    <3> QED
      BY <3>1, <3>2
  <2>5. CASE p.nx = file.nx /\ p.ny = file.ny
    <3> HIDE DEF w, h, s
    <3> QED
      BY <1>6, <1>9, <2>1, <2>5
  <2>6. CASE Pyramid /\ p.nx = p.w /\ p.ny = p.h
    <3>1. file.fmt # "jpg"
      BY <2>6 DEF Pyramid
    <3>2. /\ p.x \in Nat /\ p.w \in Nat /\ p.x + p.w <= CeilDiv(file.nx, p.by)
          /\ p.y \in Nat /\ p.h \in Nat /\ p.y + p.h <= CeilDiv(file.ny, p.by)
      BY <1>3, <3>1 DEF InLevel, LevelSide
    <3> DEFINE W == CeilDiv(file.nx, p.by)
               H == CeilDiv(file.ny, p.by)
    <3>3. W \in Nat /\ W <= file.nx /\ H \in Nat /\ H <= file.ny
      BY <1>4, <1>6, CeilDivPositive
    <3> HIDE DEF W, H
    <3>4. p.w <= file.nx /\ p.h <= file.ny
      BY <1>6, <3>2, <3>3 DEF W, H
    <3> HIDE DEF w, h, s
    <3> QED
      BY <1>9, <2>1, <2>6, <3>2, <3>4
  <2> QED
    BY <2>4, <2>5, <2>6
<1>11. CASE z.type # "FULL" /\ file.fmt = "jp2"
  <2>1. e = ReadJ2k(file, r, z, Limits, quality)
    BY <1>7, <1>11 DEF ReadPlan
  <2> HIDE DEF e, z, r, w, h, s
  <2>2. e.nx = SizeOn(z).w /\ e.ny = SizeOn(z).h
    <3>1. ReadJ2k(file, r, z, Limits, quality).err = "none"
      BY <1>3, <2>1
    <3>2. KnownExtent(r, z) /\ r.type = "FULL"
      BY DEF r, z
    <3> HIDE DEF quality
    <3> QED
      BY <1>1, <1>11, <2>1, <3>1, <3>2, J2kPlan
  <2>3. p.nx = w /\ p.ny = h
    BY <1>3, <2>2 DEF w, h
  <2> QED
    BY <1>2, <1>9, <2>3
<1>12. CASE z.type # "FULL" /\ Pyramid
  <2>1. file.fmt = "tif"
    BY <1>12 DEF Pyramid
  <2>2. e = ReadTiff(file, r, z, Limits, quality)
    BY <1>7, <2>1 DEF ReadPlan
  <2>3. Similar(p, e)
    BY <2>1 DEF LikeFresh
  <2>4. z.type # "PERCENTS"
    BY <1>12 DEF KnownExtent
  <2> HIDE DEF e, z, r
  <2>5. OnLevel(z, e)
    <3>1. ReadTiff(file, r, z, Limits, quality).err = "none"
      BY <1>3, <2>2
    <3>2. KnownExtent(r, z) /\ r.type = "FULL"
      BY DEF r, z
    <3> HIDE DEF quality
    <3> QED
      BY <1>1, <1>12, <2>1, <2>2, <3>1, <3>2, PyramidPlan
  <2>6. Within(e, SizeOn(z).w, SizeOn(z).h)
    BY <1>1, <1>12, <2>4, <2>5, PyramidFits
  <2> QED
    BY <1>3, <2>3, <2>6 DEF Within, Similar
<1>13. CASE z.type # "FULL" /\ file.fmt # "jp2" /\ ~Pyramid
  <2>1. ~SizeOn(z).err
    BY <1>13, ServedName
  <2> HIDE DEF z, r, e
  <2>2. WhollyRead(z, e, quality)
    <3>1. r.type = "FULL"
      BY DEF r
    <3> HIDE DEF quality
    <3> QED
      BY <1>1, <1>7, <1>13, <2>1, <3>1, WholePlan
  <2>3. e.nx = w /\ e.ny = h
    <3>1. CASE file.fmt \in {"png", "jpg"}
      BY <2>2, <3>1 DEF WhollyRead
    <3>2. CASE file.fmt = "tif"
      <4>1. e = TiffWhole(w, h, quality)
        BY <2>2, <3>2 DEF WhollyRead
      <4> HIDE DEF w, h, quality
      <4>2. \E px : e = Plan("none", AllOfIt, 1, w, h, px)
        <5> DEFINE found == IF file.tile > 0 THEN ReadTiledData(file, AllOfIt) ELSE ReadStandardData(file, AllOfIt)
                   px == IF found = "asked" THEN Pixels(AllOfIt, w, h, quality) ELSE found
        <5>1. e = IF file.tile > 0 /\ file.bps \notin {8, 16} THEN Refused("image")
                  ELSE Plan("none", AllOfIt, 1, w, h, px)
          BY <4>1 DEF TiffWhole
        <5> HIDE DEF px
        <5> QED
          BY <1>3, <5>1, RefusedErrors
      <4> QED
        BY <4>2, PlanFields
    <3>3. CASE file.fmt \notin {"png", "jpg", "tif"}
      BY <1>3, <2>2, <3>3, RefusedErrors DEF WhollyRead
    <3> QED
      BY <3>1, <3>2, <3>3
  <2> HIDE DEF w, h, s
  <2> QED
    BY <1>2, <1>3, <1>9, <2>3
<1> QED
  BY <1>10, <1>11, <1>12, <1>13

\* The extent is a number, where it is known.
LEMMA FreshIsInt ==
  ASSUME NumbersFit, NEW q, Served(q), NEW p, LikeFresh(Asked(q[1]), Chosen(q), p),
         KnownExtent(Asked(q[1]).region, Chosen(q))
  PROVE  p.nx \in Int /\ p.ny \in Int
<1> DEFINE r == Asked(q[1]).region
           z == Chosen(q)
           f == PlanOf(Asked(q[1]), z)
<1>1. Readable(r, z)
  BY ServedReadable
<1>2. f.err = "none" /\ p.nx = f.nx /\ p.ny = f.ny
  BY DEF LikeFresh
<1>3. Delivered(r, z, f)
  BY <1>1, <1>2, PlanDelivers DEF PlanOf
<1>4. KnownExtent(r, z)
  OBVIOUS
<1> HIDE DEF r, z, f
<1>5. f.nx \in Nat \ {0} /\ f.ny \in Nat \ {0}
  BY <1>3, <1>4 DEF Delivered, Extended
<1> QED
  BY <1>2, <1>5

\* The size that is sent is allowed.
LEMMA ChosenIsAllowed ==
  ASSUME NEW q, Served(q), KnownExtent(Asked(q[1]).region, Chosen(q)), ~IsUndefined(Restriction(q[2]))
  PROVE  LET l == LargestAllowed(Restriction(q[2]))
         IN  /\ l.w \in Nat /\ l.h \in Nat
             /\ SizeOn(Chosen(q)).w <= l.w /\ SizeOn(Chosen(q)).h <= l.h
<1> DEFINE R == Restriction(q[2])
           z == Chosen(q)
           l == LargestAllowed(R)
           w == SizeOn(z).w
           h == SizeOn(z).h
           v == SizeOn(R).w
           g == SizeOn(R).h
<1>1. Image(q) /\ q \in Requests /\ WellFormed(Asked(q[1])) /\ file \in Masters
  BY DEF Served, Image
<1>2. Proper(R) /\ R.type # "FULL"
  BY <1>1, RestrictionIsSize
<1>3. Proper(z)
  BY <1>1, ChosenSize
<1>4. w \in Nat /\ h \in Nat
  BY <1>1, <1>3, KnownUpscaling, SizeIsNat
<1>5. v \in Nat /\ g \in Nat
  <2> HIDE DEF R
  <2> QED
    BY <1>1, <1>2, SizeIsNat
<1>6. w <= v /\ h <= g
  <2>1. z = R \/ ~Exceeds(SizeOn(z), SizeOn(R))
    BY <1>1, ChosenSize
  <2>2. CASE z = R
    <3>1. w = v /\ h = g
      BY <2>2
    <3> HIDE DEF w, h, v, g
    <3> QED
      BY <1>4, <1>5, <3>1
  <2>3. CASE ~Exceeds(SizeOn(z), SizeOn(R))
    <3>1. ~(w > v) /\ ~(h > g)
      BY <2>3 DEF Exceeds
    <3> HIDE DEF w, h, v, g
    <3> QED
      BY <1>4, <1>5, <3>1
  <2> QED
    BY <2>1, <2>2, <2>3
<1>7. l.w \in Nat /\ l.h \in Nat /\ v <= l.w /\ g <= l.h
  <2>1. CASE R.type = "MAXDIM"
    <3> DEFINE m == 0
               j == FALSE
               iw == file.nx
               ih == file.ny
               o == GetSize(R, iw, ih, m, j, Limits)
               nx == R.nx
               ny == R.ny
    <3>1. o = SizeOn(R)
      BY DEF SizeOn
    <3>2. iw \in Nat \ {0} /\ ih \in Nat \ {0}
      BY <1>1, MasterSides
    <3>3. j \in BOOLEAN /\ ~j
      OBVIOUS
    <3> HIDE DEF m, j, R, iw, ih
    <3>4. /\ nx \in Nat \ {0} /\ ny \in Nat \ {0}
          /\ o.w = IF nx * ih < ny * iw THEN nx ELSE CeilDiv(iw * ny, ih)
          /\ o.h = IF nx * ih < ny * iw THEN CeilDiv(ih * nx, iw) ELSE ny
      BY <1>2, <2>1, <3>2, <3>3, BoxSize
    <3>5. l.w = nx /\ l.h = ny
      BY <2>1 DEF LargestAllowed
    <3>6. v = o.w /\ g = o.h
      BY <3>1
    <3> HIDE DEF o, nx, ny, l, v, g
    <3> DEFINE b == nx * ih
               c == ny * iw
    <3>7. b \in Nat /\ c \in Nat
      BY <3>2, <3>4
    <3>8. CASE b < c
      <4>1. nx * ih <= ny * iw
        <5>1. b <= c
          <6> HIDE DEF b, c
          <6> QED
            BY <3>7, <3>8
        <5> QED
          BY <5>1
      <4>2. CeilDiv(ih * nx, iw) <= ny
        BY <3>2, <3>4, <4>1, BoxHeight
      <4>3. nx <= nx
        BY <3>4
      <4> QED
        BY <3>4, <3>5, <3>6, <3>8, <4>2, <4>3
    <3>9. CASE ~(b < c)
      <4>1. ny * iw <= nx * ih
        <5>1. c <= b
          <6> HIDE DEF b, c
          <6> QED
            BY <3>7, <3>9
        <5> QED
          BY <5>1
      <4>2. CeilDiv(iw * ny, ih) <= nx
        BY <3>2, <3>4, <4>1, BoxWidth
      <4>3. ny <= ny
        BY <3>4
      <4> QED
        BY <3>4, <3>5, <3>6, <3>9, <4>2, <4>3
    <3> QED
      BY <3>8, <3>9
  <2>2. CASE R.type # "MAXDIM"
    <3>1. l.w = v /\ l.h = g
      BY <2>2 DEF LargestAllowed
    <3> HIDE DEF l, v, g
    <3> QED
      BY <1>5, <3>1
  <2> QED
    BY <2>1, <2>2
<1> HIDE DEF l, w, h, v, g
<1>8. w <= l.w /\ h <= l.h
  BY <1>4, <1>5, <1>6, <1>7
<1> QED
  BY <1>7, <1>8 DEF l, w, h

\* What is sent under a restriction is allowed.
LEMMA SentIsAllowed ==
  ASSUME NumbersFit, IInv
  PROVE  RestrictionHolds
<1> SUFFICES ASSUME SentImage, ~IsUndefined(Restriction(last.access)), LastAsked.region.type = "FULL",
                    ~OtherExtent, ~SharedKey
             PROVE  LET l == LargestAllowed(Restriction(last.access))
                        p == last.answer.rendition.plan
                    IN  p.nx <= l.w + Slack(p.by) /\ p.ny <= l.h + Slack(p.by)
  BY DEF RestrictionHolds
<1>1. PICK q \in Requests : SentFor(q)
  BY DEF IInv, SentIsServed
<1> DEFINE a == Asked(q[1])
           z == Chosen(q)
           t == last.answer.rendition
           hit == last.answer.hit
           p == t.plan
           l == LargestAllowed(Restriction(last.access))
           w == SizeOn(z).w
           h == SizeOn(z).h
           s == Slack(p.by)
<1>2. LastAsked = a /\ LastSize = z /\ KnownExtent(a.region, z) /\ (hit => OneRendition(a, z))
  BY <1>1, LastIs
<1>3. \/ SentAsIs(a, z, q[2]) /\ t = Original
      \/ LikeFresh(a, z, p)
  BY <1>1, <1>2, SentIsLikeFresh
<1>4. Served(q) /\ file \in Masters /\ last.access = q[2] /\ a.region.type = "FULL"
  BY <1>1, <1>2 DEF SentFor, Served
<1>5. l.w \in Nat /\ l.h \in Nat /\ w <= l.w /\ h <= l.h
  BY <1>2, <1>4, ChosenIsAllowed
<1>6. w \in Nat /\ h \in Nat
  <2>1. Proper(z)
    BY <1>4, ChosenSize DEF Served
  <2> QED
    BY <1>2, <1>4, <2>1, KnownUpscaling, SizeIsNat
<1>7. s \in Nat /\ p.nx <= w + s /\ p.ny <= h + s /\ p.nx \in Int /\ p.ny \in Int
  <2>1. CASE SentAsIs(a, z, q[2]) /\ t = Original
    <3>1. p.by = 1 /\ p.nx = file.nx /\ p.ny = file.ny /\ z.type = "FULL"
      BY <2>1 DEF Original, Plan, SentAsIs
    <3>2. w = file.nx /\ h = file.ny
      <4> DEFINE m == 0
                 j == FALSE
                 r == a.region
      <4>1. SizeOn(z) = GetSize(z, file.nx, file.ny, m, j, Limits)
        BY DEF SizeOn
      <4>2. KnownExtent(r, z)
        BY <1>2
      <4> HIDE DEF m, j, z, r
      <4>3. /\ GetSize(z, file.nx, file.ny, m, j, Limits).w = file.nx
            /\ GetSize(z, file.nx, file.ny, m, j, Limits).h = file.ny
        BY <3>1, <4>2, KnownFull
      <4> QED
        BY <4>1, <4>3
    <3>3. s = 0
      BY <3>1 DEF Slack
    <3> HIDE DEF s, w, h, p, z
    <3> QED
      BY <1>6, <3>1, <3>2, <3>3
  <2>2. CASE LikeFresh(a, z, p)
    <3>1. Within(p, w, h)
      BY <1>2, <1>4, <2>2, FreshFits
    <3>2. p.by \in Nat \ {0}
      BY <2>2 DEF LikeFresh, InLevel
    <3>3. s \in Nat
      BY <3>2, SlackIsNat
    <3>4. p.nx \in Int /\ p.ny \in Int
      BY <1>4, <2>2, <1>2, FreshIsInt
    <3> QED
      BY <3>1, <3>3, <3>4 DEF Within
  <2> QED
    BY <1>3, <2>1, <2>2
<1>8. p.nx <= l.w + s /\ p.ny <= l.h + s
  <2> HIDE DEF l, w, h, s, p
  <2> QED
    BY <1>5, <1>6, <1>7
<1> QED
  BY <1>8

\* What send_iiif_file() sends of the whole image under a restriction of the
\* preflight function is no larger than this allows, by whichever reader, of
\* whichever level and for whomever it was transcoded.
THEOREM RestrictionIsKept ==
  ASSUME NumbersFit
  PROVE  Spec => []RestrictionHolds
<1>1. IInv => RestrictionHolds
  BY SentIsAllowed
<1> QED
  BY <1>1, SentAreKept, PTL

-----------------------------------------------------------------------------
(* The image of a script: what its pixels are a function of.               *)

ImageFields == {"nx", "ny", "px", "nc", "es", "bps", "photo", "icc", "bw", "ori",
                "exif", "gps", "iptc", "xmp", "ess", "loss"}

\* The metadata and the samples of an image are those of another.
SameRest(t, m) ==
  /\ t.nc = m.nc /\ t.es = m.es /\ t.bps = m.bps /\ t.photo = m.photo /\ t.icc = m.icc /\ t.bw = m.bw
  /\ t.gps = m.gps /\ t.iptc = m.iptc /\ t.xmp = m.xmp /\ t.ess = m.ess /\ t.loss = m.loss

\* Mirroring and turning move the pixels.
LEMMA MirrorFields ==
  ASSUME NEW m, DOMAIN m = ImageFields
  PROVE  LET t == Mirror(m)
         IN  /\ DOMAIN t = ImageFields /\ t.nx = m.nx /\ t.ny = m.ny
             /\ t.px = [p \in Grid(m.nx, m.ny) |-> m.px[<<m.nx - 1 - p[1], p[2]>>]]
             /\ t.ori = m.ori /\ t.exif = m.exif /\ SameRest(t, m)
<1>1. Mirror(m) = [m EXCEPT !.px = [p \in Grid(m.nx, m.ny) |-> m.px[<<m.nx - 1 - p[1], p[2]>>]]]
  BY DEF Mirror
<1> QED
  BY <1>1 DEF ImageFields, SameRest

LEMMA Turn90Fields ==
  ASSUME NEW m, DOMAIN m = ImageFields
  PROVE  LET t == Turn(m, 90)
         IN  /\ DOMAIN t = ImageFields /\ t.nx = m.ny /\ t.ny = m.nx
             /\ t.px = [p \in Grid(m.ny, m.nx) |-> m.px[<<p[2], m.ny - 1 - p[1]>>]]
             /\ t.ori = m.ori /\ t.exif = m.exif /\ SameRest(t, m)
<1> DEFINE px == [p \in Grid(m.ny, m.nx) |-> m.px[<<p[2], m.ny - 1 - p[1]>>]]
<1>1. Turn(m, 90) = [m EXCEPT !.nx = m.ny, !.ny = m.nx, !.px = px]
  BY DEF Turn
<1> HIDE DEF px
<1>2. LET t == [m EXCEPT !.nx = m.ny, !.ny = m.nx, !.px = px]
      IN  /\ DOMAIN t = ImageFields /\ t.nx = m.ny /\ t.ny = m.nx /\ t.px = px
          /\ t.ori = m.ori /\ t.exif = m.exif /\ SameRest(t, m)
  BY DEF ImageFields, SameRest
<1> QED
  BY <1>1, <1>2 DEF px

LEMMA Turn180Fields ==
  ASSUME NEW m, DOMAIN m = ImageFields
  PROVE  LET t == Turn(m, 180)
         IN  /\ DOMAIN t = ImageFields /\ t.nx = m.nx /\ t.ny = m.ny
             /\ t.px = [p \in Grid(m.nx, m.ny) |-> m.px[<<m.nx - 1 - p[1], m.ny - 1 - p[2]>>]]
             /\ t.ori = m.ori /\ t.exif = m.exif /\ SameRest(t, m)
<1> DEFINE px == [p \in Grid(m.nx, m.ny) |-> m.px[<<m.nx - 1 - p[1], m.ny - 1 - p[2]>>]]
<1>1. Turn(m, 180) = [m EXCEPT !.px = px]
  BY DEF Turn
<1> HIDE DEF px
<1>2. LET t == [m EXCEPT !.px = px]
      IN  /\ DOMAIN t = ImageFields /\ t.nx = m.nx /\ t.ny = m.ny /\ t.px = px
          /\ t.ori = m.ori /\ t.exif = m.exif /\ SameRest(t, m)
  BY DEF ImageFields, SameRest
<1> QED
  BY <1>1, <1>2 DEF px

LEMMA Turn270Fields ==
  ASSUME NEW m, DOMAIN m = ImageFields
  PROVE  LET t == Turn(m, 270)
         IN  /\ DOMAIN t = ImageFields /\ t.nx = m.ny /\ t.ny = m.nx
             /\ t.px = [p \in Grid(m.ny, m.nx) |-> m.px[<<m.nx - 1 - p[2], p[1]>>]]
             /\ t.ori = m.ori /\ t.exif = m.exif /\ SameRest(t, m)
<1> DEFINE px == [p \in Grid(m.ny, m.nx) |-> m.px[<<m.nx - 1 - p[2], p[1]>>]]
<1>1. Turn(m, 270) = [m EXCEPT !.nx = m.ny, !.ny = m.nx, !.px = px]
  BY DEF Turn
<1> HIDE DEF px
<1>2. LET t == [m EXCEPT !.nx = m.ny, !.ny = m.nx, !.px = px]
      IN  /\ DOMAIN t = ImageFields /\ t.nx = m.ny /\ t.ny = m.nx /\ t.px = px
          /\ t.ori = m.ori /\ t.exif = m.exif /\ SameRest(t, m)
  BY DEF ImageFields, SameRest
<1> QED
  BY <1>1, <1>2 DEF px

LEMMA OtherTurn ==
  ASSUME NEW m, NEW angle, angle \notin {90, 180, 270}
  PROVE  Turn(m, angle) = m
BY DEF Turn

\* A place of one image is a place of the mirrored or turned one.
LEMMA FlippedPlace ==
  ASSUME NEW w \in Nat, NEW h \in Nat, NEW p \in Grid(w, h)
  PROVE  /\ p = <<p[1], p[2]>> /\ p[1] \in Int /\ p[2] \in Int
         /\ <<w - 1 - p[1], p[2]>> \in Grid(w, h)
         /\ <<p[1], h - 1 - p[2]>> \in Grid(w, h)
         /\ <<w - 1 - p[1], h - 1 - p[2]>> \in Grid(w, h)
         /\ <<p[2], p[1]>> \in Grid(h, w)
         /\ <<p[2], w - 1 - p[1]>> \in Grid(h, w)
         /\ <<h - 1 - p[2], p[1]>> \in Grid(h, w)
         /\ <<h - 1 - p[2], w - 1 - p[1]>> \in Grid(h, w)
BY DEF Grid

\* topleft() marks the turned image as upright.
LEMMA MarkedUpright ==
  ASSUME NEW t, DOMAIN t = ImageFields, NEW e
  PROVE  LET s == [t EXCEPT !.ori = 1, !.exif = e]
         IN  /\ DOMAIN s = ImageFields /\ s.nx = t.nx /\ s.ny = t.ny /\ s.px = t.px
             /\ s.ori = 1 /\ s.exif = e /\ SameRest(s, t)
BY DEF ImageFields, SameRest

LEMMA DisplayUpright ==
  ASSUME NEW m, m.ori = 1
  PROVE  Display(m) = [p \in Grid(m.nx, m.ny) |-> m.px[p]]
BY DEF Display

LEMMA Upright2 ==
  ASSUME NEW m, DOMAIN m = ImageFields, m.nx \in Nat, m.ny \in Nat, m.ori = 2
  PROVE  LET t == Rotate(m, Upright(m.ori).angle, Upright(m.ori).mirror)
         IN  /\ DOMAIN t = ImageFields /\ t.nx = m.nx /\ t.ny = m.ny /\ SameRest(t, m)
             /\ t.px = [p \in Grid(m.nx, m.ny) |-> m.px[<<m.nx - 1 - p[1], p[2]>>]]
             /\ Display(m) = t.px
<1> DEFINE t == Rotate(m, Upright(m.ori).angle, Upright(m.ori).mirror)
<1>1. t = Turn(Mirror(m), 0)
  BY DEF Rotate, Upright
<1>2. Display(m) = [p \in Grid(m.nx, m.ny) |-> m.px[<<m.nx - 1 - p[1], p[2]>>]]
  BY DEF Display
<1>3. t = Mirror(m)
  BY <1>1, OtherTurn
<1> QED
  BY <1>2, <1>3, MirrorFields

LEMMA Upright3 ==
  ASSUME NEW m, DOMAIN m = ImageFields, m.nx \in Nat, m.ny \in Nat, m.ori = 3
  PROVE  LET t == Rotate(m, Upright(m.ori).angle, Upright(m.ori).mirror)
         IN  /\ DOMAIN t = ImageFields /\ t.nx = m.nx /\ t.ny = m.ny /\ SameRest(t, m)
             /\ t.px = [p \in Grid(m.nx, m.ny) |-> m.px[<<m.nx - 1 - p[1], m.ny - 1 - p[2]>>]]
             /\ Display(m) = t.px
<1> DEFINE t == Rotate(m, Upright(m.ori).angle, Upright(m.ori).mirror)
<1>1. t = Turn(m, 180)
  BY DEF Rotate, Upright
<1>2. Display(m) = [p \in Grid(m.nx, m.ny) |-> m.px[<<m.nx - 1 - p[1], m.ny - 1 - p[2]>>]]
  BY DEF Display
<1> QED
  BY <1>1, <1>2, Turn180Fields

LEMMA Upright4 ==
  ASSUME NEW m, DOMAIN m = ImageFields, m.nx \in Nat, m.ny \in Nat, m.ori = 4
  PROVE  LET t == Rotate(m, Upright(m.ori).angle, Upright(m.ori).mirror)
         IN  /\ DOMAIN t = ImageFields /\ t.nx = m.nx /\ t.ny = m.ny /\ SameRest(t, m)
             /\ t.px = [p \in Grid(m.nx, m.ny) |-> m.px[<<p[1], m.ny - 1 - p[2]>>]]
             /\ Display(m) = t.px
<1> DEFINE t == Rotate(m, Upright(m.ori).angle, Upright(m.ori).mirror)
<1>1. t = Turn(Mirror(m), 180)
  BY DEF Rotate, Upright
<1>2. Display(m) = [p \in Grid(m.nx, m.ny) |-> m.px[<<p[1], m.ny - 1 - p[2]>>]]
  BY DEF Display
<1> DEFINE r == Mirror(m)
<1>3. /\ DOMAIN r = ImageFields /\ r.nx = m.nx /\ r.ny = m.ny /\ SameRest(r, m)
      /\ r.px = [p \in Grid(m.nx, m.ny) |-> m.px[<<m.nx - 1 - p[1], p[2]>>]]
  BY MirrorFields
<1>7. t = Turn(r, 180)
  BY <1>1
<1> HIDE DEF r, t
<1>9. DOMAIN r = ImageFields
  BY <1>3
<1>8. /\ DOMAIN t = ImageFields /\ t.nx = r.nx /\ t.ny = r.ny /\ SameRest(t, r)
      /\ t.px = [p \in Grid(r.nx, r.ny) |-> r.px[<<r.nx - 1 - p[1], r.ny - 1 - p[2]>>]]
  <2> DEFINE u == Turn(r, 180)
  <2>1. /\ DOMAIN u = ImageFields /\ u.nx = r.nx /\ u.ny = r.ny /\ SameRest(u, r)
        /\ u.px = [p \in Grid(r.nx, r.ny) |-> r.px[<<r.nx - 1 - p[1], r.ny - 1 - p[2]>>]]
    BY <1>9, Turn180Fields
  <2> QED
    BY <1>7, <2>1, Zenon
<1>4. /\ DOMAIN t = ImageFields /\ t.nx = m.nx /\ t.ny = m.ny /\ SameRest(t, r)
      /\ t.px = [p \in Grid(m.nx, m.ny) |-> r.px[<<m.nx - 1 - p[1], m.ny - 1 - p[2]>>]]
  BY <1>3, <1>8
<1>5. ASSUME NEW p \in Grid(m.nx, m.ny) PROVE r.px[<<m.nx - 1 - p[1], m.ny - 1 - p[2]>>] = m.px[<<p[1], m.ny - 1 - p[2]>>]
  <2>1. /\ p = <<p[1], p[2]>> /\ p[1] \in Int /\ p[2] \in Int /\ <<m.nx - 1 - p[1], m.ny - 1 - p[2]>> \in Grid(m.nx, m.ny)
    BY FlippedPlace
  <2>2. r.px[<<m.nx - 1 - p[1], m.ny - 1 - p[2]>>] = m.px[<<m.nx - 1 - <<m.nx - 1 - p[1], m.ny - 1 - p[2]>>[1], <<m.nx - 1 - p[1], m.ny - 1 - p[2]>>[2]>>]
    BY <1>3, <2>1
  <2> QED
    BY <2>1, <2>2
<1>6. SameRest(t, m)
  BY <1>3, <1>4 DEF SameRest
<1> QED
  BY <1>2, <1>4, <1>5, <1>6 DEF t

LEMMA Upright5 ==
  ASSUME NEW m, DOMAIN m = ImageFields, m.nx \in Nat, m.ny \in Nat, m.ori = 5
  PROVE  LET t == Rotate(m, Upright(m.ori).angle, Upright(m.ori).mirror)
         IN  /\ DOMAIN t = ImageFields /\ t.nx = m.ny /\ t.ny = m.nx /\ SameRest(t, m)
             /\ t.px = [p \in Grid(m.ny, m.nx) |-> m.px[<<p[2], p[1]>>]]
             /\ Display(m) = t.px
<1> DEFINE t == Rotate(m, Upright(m.ori).angle, Upright(m.ori).mirror)
<1>1. t = Turn(Mirror(m), 270)
  BY DEF Rotate, Upright
<1>2. Display(m) = [p \in Grid(m.ny, m.nx) |-> m.px[<<p[2], p[1]>>]]
  BY DEF Display
<1> DEFINE r == Mirror(m)
<1>3. /\ DOMAIN r = ImageFields /\ r.nx = m.nx /\ r.ny = m.ny /\ SameRest(r, m)
      /\ r.px = [p \in Grid(m.nx, m.ny) |-> m.px[<<m.nx - 1 - p[1], p[2]>>]]
  BY MirrorFields
<1>7. t = Turn(r, 270)
  BY <1>1
<1> HIDE DEF r, t
<1>9. DOMAIN r = ImageFields
  BY <1>3
<1>8. /\ DOMAIN t = ImageFields /\ t.nx = r.ny /\ t.ny = r.nx /\ SameRest(t, r)
      /\ t.px = [p \in Grid(r.ny, r.nx) |-> r.px[<<r.nx - 1 - p[2], p[1]>>]]
  <2> DEFINE u == Turn(r, 270)
  <2>1. /\ DOMAIN u = ImageFields /\ u.nx = r.ny /\ u.ny = r.nx /\ SameRest(u, r)
        /\ u.px = [p \in Grid(r.ny, r.nx) |-> r.px[<<r.nx - 1 - p[2], p[1]>>]]
    BY <1>9, Turn270Fields
  <2> QED
    BY <1>7, <2>1, Zenon
<1>4. /\ DOMAIN t = ImageFields /\ t.nx = m.ny /\ t.ny = m.nx /\ SameRest(t, r)
      /\ t.px = [p \in Grid(m.ny, m.nx) |-> r.px[<<m.nx - 1 - p[2], p[1]>>]]
  BY <1>3, <1>8
<1>5. ASSUME NEW p \in Grid(m.ny, m.nx) PROVE r.px[<<m.nx - 1 - p[2], p[1]>>] = m.px[<<p[2], p[1]>>]
  <2>1. /\ p = <<p[1], p[2]>> /\ p[1] \in Int /\ p[2] \in Int /\ <<m.nx - 1 - p[2], p[1]>> \in Grid(m.nx, m.ny)
    BY FlippedPlace
  <2>2. r.px[<<m.nx - 1 - p[2], p[1]>>] = m.px[<<m.nx - 1 - <<m.nx - 1 - p[2], p[1]>>[1], <<m.nx - 1 - p[2], p[1]>>[2]>>]
    BY <1>3, <2>1
  <2> QED
    BY <2>1, <2>2
<1>6. SameRest(t, m)
  BY <1>3, <1>4 DEF SameRest
<1> QED
  BY <1>2, <1>4, <1>5, <1>6 DEF t

LEMMA Upright6 ==
  ASSUME NEW m, DOMAIN m = ImageFields, m.nx \in Nat, m.ny \in Nat, m.ori = 6
  PROVE  LET t == Rotate(m, Upright(m.ori).angle, Upright(m.ori).mirror)
         IN  /\ DOMAIN t = ImageFields /\ t.nx = m.ny /\ t.ny = m.nx /\ SameRest(t, m)
             /\ t.px = [p \in Grid(m.ny, m.nx) |-> m.px[<<p[2], m.ny - 1 - p[1]>>]]
             /\ Display(m) = t.px
<1> DEFINE t == Rotate(m, Upright(m.ori).angle, Upright(m.ori).mirror)
<1>1. t = Turn(m, 90)
  BY DEF Rotate, Upright
<1>2. Display(m) = [p \in Grid(m.ny, m.nx) |-> m.px[<<p[2], m.ny - 1 - p[1]>>]]
  BY DEF Display
<1> QED
  BY <1>1, <1>2, Turn90Fields

LEMMA Upright7 ==
  ASSUME NEW m, DOMAIN m = ImageFields, m.nx \in Nat, m.ny \in Nat, m.ori = 7
  PROVE  LET t == Rotate(m, Upright(m.ori).angle, Upright(m.ori).mirror)
         IN  /\ DOMAIN t = ImageFields /\ t.nx = m.ny /\ t.ny = m.nx /\ SameRest(t, m)
             /\ t.px = [p \in Grid(m.ny, m.nx) |-> m.px[<<m.nx - 1 - p[2], m.ny - 1 - p[1]>>]]
             /\ Display(m) = t.px
<1> DEFINE t == Rotate(m, Upright(m.ori).angle, Upright(m.ori).mirror)
<1>1. t = Turn(Mirror(m), 90)
  BY DEF Rotate, Upright
<1>2. Display(m) = [p \in Grid(m.ny, m.nx) |-> m.px[<<m.nx - 1 - p[2], m.ny - 1 - p[1]>>]]
  BY DEF Display
<1> DEFINE r == Mirror(m)
<1>3. /\ DOMAIN r = ImageFields /\ r.nx = m.nx /\ r.ny = m.ny /\ SameRest(r, m)
      /\ r.px = [p \in Grid(m.nx, m.ny) |-> m.px[<<m.nx - 1 - p[1], p[2]>>]]
  BY MirrorFields
<1>7. t = Turn(r, 90)
  BY <1>1
<1> HIDE DEF r, t
<1>9. DOMAIN r = ImageFields
  BY <1>3
<1>8. /\ DOMAIN t = ImageFields /\ t.nx = r.ny /\ t.ny = r.nx /\ SameRest(t, r)
      /\ t.px = [p \in Grid(r.ny, r.nx) |-> r.px[<<p[2], r.ny - 1 - p[1]>>]]
  <2> DEFINE u == Turn(r, 90)
  <2>1. /\ DOMAIN u = ImageFields /\ u.nx = r.ny /\ u.ny = r.nx /\ SameRest(u, r)
        /\ u.px = [p \in Grid(r.ny, r.nx) |-> r.px[<<p[2], r.ny - 1 - p[1]>>]]
    BY <1>9, Turn90Fields
  <2> QED
    BY <1>7, <2>1, Zenon
<1>4. /\ DOMAIN t = ImageFields /\ t.nx = m.ny /\ t.ny = m.nx /\ SameRest(t, r)
      /\ t.px = [p \in Grid(m.ny, m.nx) |-> r.px[<<p[2], m.ny - 1 - p[1]>>]]
  BY <1>3, <1>8
<1>5. ASSUME NEW p \in Grid(m.ny, m.nx) PROVE r.px[<<p[2], m.ny - 1 - p[1]>>] = m.px[<<m.nx - 1 - p[2], m.ny - 1 - p[1]>>]
  <2>1. /\ p = <<p[1], p[2]>> /\ p[1] \in Int /\ p[2] \in Int /\ <<p[2], m.ny - 1 - p[1]>> \in Grid(m.nx, m.ny)
    BY FlippedPlace
  <2>2. r.px[<<p[2], m.ny - 1 - p[1]>>] = m.px[<<m.nx - 1 - <<p[2], m.ny - 1 - p[1]>>[1], <<p[2], m.ny - 1 - p[1]>>[2]>>]
    BY <1>3, <2>1
  <2> QED
    BY <2>1, <2>2
<1>6. SameRest(t, m)
  BY <1>3, <1>4 DEF SameRest
<1> QED
  BY <1>2, <1>4, <1>5, <1>6 DEF t

LEMMA Upright8 ==
  ASSUME NEW m, DOMAIN m = ImageFields, m.nx \in Nat, m.ny \in Nat, m.ori = 8
  PROVE  LET t == Rotate(m, Upright(m.ori).angle, Upright(m.ori).mirror)
         IN  /\ DOMAIN t = ImageFields /\ t.nx = m.ny /\ t.ny = m.nx /\ SameRest(t, m)
             /\ t.px = [p \in Grid(m.ny, m.nx) |-> m.px[<<m.nx - 1 - p[2], p[1]>>]]
             /\ Display(m) = t.px
<1> DEFINE t == Rotate(m, Upright(m.ori).angle, Upright(m.ori).mirror)
<1>1. t = Turn(m, 270)
  BY DEF Rotate, Upright
<1>2. Display(m) = [p \in Grid(m.ny, m.nx) |-> m.px[<<m.nx - 1 - p[2], p[1]>>]]
  BY DEF Display
<1> QED
  BY <1>1, <1>2, Turn270Fields

\* topleft(): upright, the extent perhaps swapped, the same picture.
LEMMA TopleftFields ==
  ASSUME NEW m, DOMAIN m = ImageFields, m.nx \in Nat, m.ny \in Nat, m.ori \in 1..8
  PROVE  LET t == SetTopleft(m)
         IN  /\ DOMAIN t = ImageFields /\ SameRest(t, m) /\ t.ori = 1
             /\ t.exif \in {m.exif, 1}
             /\ m.ori # 1 => t.px = Display(m) /\ t.px = [p \in Grid(t.nx, t.ny) |-> t.px[p]]
             /\ m.ori = 1 => t = m
             /\ <<t.nx, t.ny>> \in {<<m.nx, m.ny>>, <<m.ny, m.nx>>}
             /\ Display(t) = Display(m)
<1>1. CASE m.ori = 1
  BY <1>1 DEF SetTopleft, SameRest
<1>2. CASE m.ori # 1
  <2> DEFINE r == Rotate(m, Upright(m.ori).angle, Upright(m.ori).mirror)
             e == IF m.exif = -1 THEN -1 ELSE 1
             s == [r EXCEPT !.ori = 1, !.exif = e]
  <2>1. SetTopleft(m) = s
    BY <1>2 DEF SetTopleft
  <2>2. /\ DOMAIN r = ImageFields /\ SameRest(r, m) /\ Display(m) = r.px
        /\ <<r.nx, r.ny>> \in {<<m.nx, m.ny>>, <<m.ny, m.nx>>}
        /\ r.px = [p \in Grid(r.nx, r.ny) |-> r.px[p]]
    <3>0. m.ori \in 2..8
      BY <1>2
    <3>2. CASE m.ori = 2
      BY <3>2, Upright2
    <3>3. CASE m.ori = 3
      BY <3>3, Upright3
    <3>4. CASE m.ori = 4
      BY <3>4, Upright4
    <3>5. CASE m.ori = 5
      BY <3>5, Upright5
    <3>6. CASE m.ori = 6
      BY <3>6, Upright6
    <3>7. CASE m.ori = 7
      BY <3>7, Upright7
    <3>8. CASE m.ori = 8
      BY <3>8, Upright8
    <3> QED
      BY <3>0, <3>2, <3>3, <3>4, <3>5, <3>6, <3>7, <3>8
  <2>5. e \in {m.exif, 1}
    OBVIOUS
  <2> HIDE DEF r, e
  <2>3. /\ DOMAIN s = ImageFields /\ s.nx = r.nx /\ s.ny = r.ny /\ s.px = r.px
        /\ s.ori = 1 /\ s.exif = e /\ SameRest(s, r)
    BY <2>2, MarkedUpright
  <2>4. SameRest(s, m)
    BY <2>2, <2>3 DEF SameRest
  <2> HIDE DEF s
  <2>6. Display(s) = [p \in Grid(s.nx, s.ny) |-> s.px[p]]
    BY <2>3, DisplayUpright
  <2> QED
    BY <1>2, <2>1, <2>2, <2>3, <2>4, <2>5, <2>6
<1> QED
  BY <1>1, <1>2

-----------------------------------------------------------------------------
(* Scaling: where the samples of a smaller image come from.                *)

LEMMA QuotientIs ==
  ASSUME NEW q \in Nat, NEW d \in Nat \ {0}, NEW a \in Nat, a * d <= q, q < a * d + d
  PROVE  q \div d = a
<1> DEFINE e == q \div d
<1>1. e \in Nat /\ e * d <= q /\ q < e * d + d
  BY Quotient
<1> HIDE DEF e
<1>2. a * d < (e + 1) * d /\ e * d < (a + 1) * d
  BY <1>1
<1>3. a < e + 1 /\ e < a + 1
  BY <1>1, <1>2
<1> QED
  BY <1>1, <1>3 DEF e

LEMMA MultipleHasNoRest ==
  ASSUME NEW a \in Nat, NEW d \in Nat \ {0}
  PROVE  (a * d) % d = 0
OBVIOUS

\* An interpolated sample lies between samples of the source.
LEMMA InterpolatesInside ==
  ASSUME NEW n \in Nat \ {0}, NEW m \in Nat, 2 <= m, NEW j \in 0..(m - 1)
  PROVE  BilinN(j, n, m) \subseteq 0..(n - 1)
<1> DEFINE c == n - 1
           d == m - 1
           q == j * c
           e == q \div d
<1>1. c \in Nat /\ d \in Nat \ {0} /\ j \in Nat /\ j <= d
  OBVIOUS
<1>2. q \in Nat /\ q <= c * d
  BY <1>1
<1>3. e \in Nat /\ e * d <= q /\ q < e * d + d
  BY <1>1, <1>2, Quotient
<1>4. BilinN(j, n, m) = IF 100 * (q % d) < d THEN {e} ELSE {e, e + 1}
  BY DEF BilinN
<1>5. n - 1 = c
  OBVIOUS
<1>m. (c * d) % d = 0
  BY <1>1, MultipleHasNoRest
<1> HIDE DEF q, e, c, d
<1>6. e * d <= c * d
  BY <1>1, <1>2, <1>3
<1>7. e <= c
  BY <1>1, <1>3, <1>6
<1>8. ASSUME q % d # 0 PROVE e + 1 <= c
  <2>1. SUFFICES ASSUME e = c PROVE FALSE
    BY <1>1, <1>3, <1>7
  <2>2. q = c * d
    BY <1>1, <1>2, <1>3, <2>1
  <2> QED
    BY <1>8, <1>m, <2>2
<1>9. ASSUME ~(100 * (q % d) < d) PROVE q % d # 0
  BY <1>1, <1>9
<1> QED
  BY <1>1, <1>3, <1>4, <1>5, <1>7, <1>8, <1>9

\* Places that are no further apart than the samples of the source use each of them.
LEMMA InterpolatesAll ==
  ASSUME NEW n \in Nat \ {0}, NEW m \in Nat, 2 <= m, n <= m, NEW a \in 0..(n - 1)
  PROVE  \E j \in 0..(m - 1) : a \in BilinN(j, n, m)
<1> DEFINE c == n - 1
           d == m - 1
<1>1. c \in Nat /\ d \in Nat \ {0} /\ c <= d /\ a \in Nat /\ a <= c /\ n - 1 = c /\ m - 1 = d
  OBVIOUS
<1>2. \A j : BilinN(j, n, m) = IF 100 * ((j * c) % d) < d THEN {(j * c) \div d}
                               ELSE {(j * c) \div d, (j * c) \div d + 1}
  BY DEF BilinN
<1> HIDE DEF c, d
<1>3. CASE c = 0
  <2>1. a = 0 /\ 0 * c = 0
    BY <1>1, <1>3
  <2>2. (0 * c) \div d = 0
    <3> DEFINE z == 0 * c
    <3>1. z \in Nat /\ z = 0
      BY <1>3
    <3> HIDE DEF z
    <3>2. 0 * d = 0
      BY <1>1
    <3>3. z \div d = 0
      BY <1>1, <3>1, <3>2, QuotientIs
    <3> QED
      BY <3>3 DEF z
  <2>3. a \in BilinN(0, n, m)
    BY <1>2, <2>1, <2>2
  <2> QED
    BY <1>1, <2>3
<1>4. CASE c # 0
  <2> DEFINE j == CeilDiv(a * d, c)
             q == j * c
  <2>1. a * d \in Nat /\ c \in Nat \ {0}
    BY <1>1, <1>4
  <2>2. j \in Nat /\ a * d <= q /\ q < a * d + c
    BY <2>1, CeilDivBounds
  <2>3. a * d <= d * c
    BY <1>1
  <2>4. j <= d
    BY <1>1, <2>1, <2>3, CeilDivLeast
  <2> HIDE DEF j
  <2>5. q \in Nat
    BY <1>1, <2>2
  <2>6. q < a * d + d
    BY <1>1, <2>1, <2>2, <2>5
  <2>7. q \div d = a
    BY <1>1, <2>2, <2>5, <2>6, QuotientIs
  <2>8. a \in BilinN(j, n, m)
    BY <1>2, <2>7
  <2> QED
    BY <1>1, <2>2, <2>4, <2>8
<1> QED
  BY <1>3, <1>4

\* The extent an image is brought to before it is averaged is a multiple of
\* the one asked for and no smaller than the source.
LEMMA ExpandedMultiple ==
  ASSUME NEW n \in Nat \ {0}, NEW nn \in Nat \ {0}, nn <= n
  PROVE  LET m == Expanded(n, nn)
             f == m \div nn
         IN  m \in Nat \ {0} /\ n <= m /\ f \in Nat \ {0} /\ m = f * nn
<1> DEFINE g == IF nn < n THEN CeilDiv(n, nn) ELSE 1
<1>1. CeilDiv(n, nn) \in Nat \ {0} /\ n <= CeilDiv(n, nn) * nn
  BY CeilDivPositive, CeilDivBounds
<1>2. g \in Nat \ {0} /\ n <= g * nn
  BY <1>1
<1>3. Expanded(n, nn) = g * nn
  BY <1>1 DEF Expanded
<1> HIDE DEF g
<1>4. g * nn \in Nat /\ g * nn < g * nn + nn
  BY <1>2
<1>5. (g * nn) \div nn = g
  BY <1>2, <1>4, QuotientIs
<1> QED
  BY <1>2, <1>3, <1>4, <1>5

LEMMA AveragesAll ==
  ASSUME NEW n \in Nat \ {0}, NEW nn \in Nat \ {0}, nn <= n, ~NoInterpolation(Expanded(n, nn))
  PROVE  /\ \A i \in 0..(nn - 1) : \A X \in Averaged(i, n, nn) : X \subseteq 0..(n - 1)
         /\ \A a \in 0..(n - 1) : \E i \in 0..(nn - 1) : \E X \in Averaged(i, n, nn) : a \in X
<1> DEFINE m == Expanded(n, nn)
           f == m \div nn
<1>1. m \in Nat \ {0} /\ n <= m /\ f \in Nat \ {0} /\ m = f * nn
  BY ExpandedMultiple
<1>2. 2 <= m
  BY <1>1 DEF NoInterpolation
<1>3. \A i : Averaged(i, n, nn) = {BilinN(f * i + k, n, m) : k \in 0..(f - 1)}
  BY DEF Averaged
<1> HIDE DEF m, f
<1>4. ASSUME NEW i \in 0..(nn - 1), NEW X \in Averaged(i, n, nn) PROVE X \subseteq 0..(n - 1)
  <2>1. PICK k \in 0..(f - 1) : X = BilinN(f * i + k, n, m)
    BY <1>3, <1>4
  <2> DEFINE j == f * i + k
  <2>2. f * i \in Nat /\ f * i + f <= f * nn
    <3>1. i \in Nat /\ i + 1 <= nn
      OBVIOUS
    <3>2. f * (i + 1) <= f * nn
      BY <1>1, <3>1
    <3> QED
      BY <1>1, <3>1, <3>2
  <2>3. j \in 0..(m - 1)
    <3> DEFINE b == f * i
    <3>1. b \in Nat /\ b + f <= m
      BY <1>1, <2>2
    <3> HIDE DEF b
    <3>2. b + k \in 0..(m - 1)
      BY <1>1, <3>1
    <3> QED
      BY <3>2 DEF b
  <2> HIDE DEF j
  <2>4. BilinN(j, n, m) \subseteq 0..(n - 1)
    BY <1>1, <1>2, <2>3, InterpolatesInside
  <2> QED
    BY <2>1, <2>4 DEF j
<1>5. ASSUME NEW a \in 0..(n - 1) PROVE \E i \in 0..(nn - 1) : \E X \in Averaged(i, n, nn) : a \in X
  <2>1. PICK j \in 0..(m - 1) : a \in BilinN(j, n, m)
    BY <1>1, <1>2, InterpolatesAll
  <2> DEFINE i == j \div f
             k == j - i * f
  <2>2. j \in Nat /\ j < nn * f
    BY <1>1
  <2>3. i \in Nat /\ i * f <= j /\ j < i * f + f
    BY <1>1, <2>2, Quotient
  <2>4. k \in 0..(f - 1)
    <3> DEFINE b == i * f
    <3>1. b \in Nat /\ b <= j /\ j < b + f
      BY <1>1, <2>3
    <3> HIDE DEF b
    <3>2. j - b \in 0..(f - 1)
      BY <1>1, <2>2, <3>1
    <3> QED
      BY <3>2 DEF b
  <2>6. f * i + k = j
    BY <1>1, <2>2, <2>3
  <2> HIDE DEF i, k
  <2>5. i \in 0..(nn - 1)
    <3>1. i * f < nn * f
      BY <1>1, <2>2, <2>3
    <3>2. i < nn
      BY <1>1, <2>3, <3>1
    <3> QED
      BY <2>3, <3>2
  <2>7. BilinN(j, n, m) \in Averaged(i, n, nn)
    BY <1>3, <2>4, <2>6
  <2> QED
    BY <2>1, <2>5, <2>7
<1> QED
  BY <1>4, <1>5

\* An extent with something in it and a value for each place of it.
Filled(m) ==
  /\ m.nx \in Nat \ {0} /\ m.ny \in Nat \ {0}
  /\ m.px = [p \in Grid(m.nx, m.ny) |-> m.px[p]]

ScaledPixels(m, w, h) ==
  [p \in Grid(w, h) |->
     UNION {Sample(m, XY[1], XY[2]) :
              XY \in Places("high", p[1], m.nx, w) \X Places("high", p[2], m.ny, h)}]

LEMMA ScaleMovesPixels ==
  ASSUME NEW m, DOMAIN m = ImageFields, NEW w, NEW h, ~SameExtent(m, w, h)
  PROVE  Scale(m, w, h).px = ScaledPixels(m, w, h)
BY DEF Scale, Resampled, ScaledPixels, ImageFields

LEMMA ScaleFields ==
  ASSUME NEW m, DOMAIN m = ImageFields, NEW w \in Nat \ {0}, NEW h \in Nat \ {0}
  PROVE  LET t == Scale(m, w, h)
         IN  /\ DOMAIN t = ImageFields /\ t.nx = w /\ t.ny = h
             /\ m.px = [p \in Grid(m.nx, m.ny) |-> m.px[p]] => Filled(t)
             /\ t.ori = m.ori /\ t.exif = m.exif /\ SameRest(t, m)
<1>1. CASE SameExtent(m, w, h)
  <2>1. Scale(m, w, h) = m
    BY <1>1 DEF Scale, Resampled
  <2> QED
    BY <1>1, <2>1 DEF SameExtent, SameRest, Filled
<1>2. CASE ~SameExtent(m, w, h)
  <2> DEFINE px == ScaledPixels(m, w, h)
             t == [m EXCEPT !.nx = w, !.ny = h, !.px = px]
  <2>1. Scale(m, w, h) = t
    BY <1>2 DEF Scale, Resampled, ScaledPixels
  <2>2. px = [p \in Grid(w, h) |-> px[p]]
    BY DEF ScaledPixels
  <2> HIDE DEF px
  <2>3. /\ DOMAIN t = ImageFields /\ t.nx = w /\ t.ny = h /\ t.px = px
        /\ t.ori = m.ori /\ t.exif = m.exif /\ SameRest(t, m)
    BY DEF ImageFields, SameRest
  <2> HIDE DEF t
  <2>4. Filled(t)
    BY <2>2, <2>3 DEF Filled
  <2> QED
    BY <1>2, <2>1, <2>3, <2>4 DEF px
<1> QED
  BY <1>1, <1>2

\* A sample of 8 bits has what its places have.
LEMMA SampleOf8Bits ==
  ASSUME NEW m, m.bps = 8, NEW X, NEW Y
  PROVE  Sample(m, X, Y) = UNION {m.px[s] : s \in X \X Y}
BY DEF Sample

\* Every place of the source is used, and no other.
LEMMA ScaleCovers ==
  ASSUME NEW m, DOMAIN m = ImageFields, Filled(m), m.bps = 8,
         NEW w \in Nat \ {0}, NEW h \in Nat \ {0}, w <= m.nx, h <= m.ny, ~ScaleUndefined(m, w, h)
  PROVE  LET t == Scale(m, w, h)
         IN  UNION {t.px[p] : p \in DOMAIN t.px} = UNION {m.px[p] : p \in DOMAIN m.px}
<1> DEFINE t == Scale(m, w, h)
<1>1. CASE SameExtent(m, w, h)
  BY <1>1 DEF Scale, Resampled
<1>2. CASE ~SameExtent(m, w, h)
  <2> DEFINE nx == m.nx
             ny == m.ny
             px == m.px
             P(i) == Averaged(i, nx, w)
             Q(j) == Averaged(j, ny, h)
             V(p) == UNION {Sample(m, XY[1], XY[2]) : XY \in P(p[1]) \X Q(p[2])}
  <2>1. nx \in Nat \ {0} /\ ny \in Nat \ {0} /\ DOMAIN px = Grid(nx, ny)
    BY DEF Filled
  <2>2. ~NoInterpolation(Expanded(nx, w)) /\ ~NoInterpolation(Expanded(ny, h))
    BY <1>2 DEF ScaleUndefined
  <2>3. t.px = ScaledPixels(m, w, h)
    BY <1>2, ScaleMovesPixels
  <2>4. t.px = [p \in Grid(w, h) |-> V(p)]
    BY <2>3 DEF ScaledPixels, Places
  <2>5. /\ \A i \in 0..(w - 1) : \A X \in P(i) : X \subseteq 0..(nx - 1)
        /\ \A a \in 0..(nx - 1) : \E i \in 0..(w - 1) : \E X \in P(i) : a \in X
    BY <2>1, <2>2, AveragesAll
  <2>6. /\ \A i \in 0..(h - 1) : \A Y \in Q(i) : Y \subseteq 0..(ny - 1)
        /\ \A a \in 0..(ny - 1) : \E i \in 0..(h - 1) : \E Y \in Q(i) : a \in Y
    BY <2>1, <2>2, AveragesAll
  <2>7. \A X, Y : Sample(m, X, Y) = UNION {px[s] : s \in X \X Y}
    BY SampleOf8Bits
  <2> HIDE DEF nx, ny, px, P, Q
  <2>8. ASSUME NEW p \in Grid(w, h), NEW v \in V(p) PROVE \E s \in Grid(nx, ny) : v \in px[s]
    <3>1. PICK XY \in P(p[1]) \X Q(p[2]) : v \in Sample(m, XY[1], XY[2])
      BY <2>8
    <3>2. PICK s \in XY[1] \X XY[2] : v \in px[s]
      BY <2>7, <3>1
    <3>3. p[1] \in 0..(w - 1) /\ p[2] \in 0..(h - 1)
      BY DEF Grid
    <3>4. XY[1] \subseteq 0..(nx - 1) /\ XY[2] \subseteq 0..(ny - 1)
      BY <2>5, <2>6, <3>3
    <3>5. s \in Grid(nx, ny)
      BY <3>4 DEF Grid
    <3> QED
      BY <3>2, <3>5
  <2>9. ASSUME NEW s \in Grid(nx, ny), NEW v \in px[s] PROVE \E p \in Grid(w, h) : v \in V(p)
    <3>1. s[1] \in 0..(nx - 1) /\ s[2] \in 0..(ny - 1) /\ s = <<s[1], s[2]>>
      BY DEF Grid
    <3>2. PICK i \in 0..(w - 1) : \E X \in P(i) : s[1] \in X
      BY <2>5, <3>1
    <3>3. PICK X \in P(i) : s[1] \in X
      BY <3>2
    <3>4. PICK j \in 0..(h - 1) : \E Y \in Q(j) : s[2] \in Y
      BY <2>6, <3>1
    <3>5. PICK Y \in Q(j) : s[2] \in Y
      BY <3>4
    <3> DEFINE p == <<i, j>>
               XY == <<X, Y>>
    <3>6. s \in X \X Y
      BY <3>1, <3>3, <3>5
    <3>7. v \in Sample(m, X, Y)
      BY <2>7, <2>9, <3>6
    <3>8. XY \in P(p[1]) \X Q(p[2]) /\ XY[1] = X /\ XY[2] = Y
      BY <3>3, <3>5
    <3>9. v \in V(p)
      BY <3>7, <3>8
    <3>10. p \in Grid(w, h)
      BY DEF Grid
    <3> QED
      BY <3>9, <3>10
  <2> HIDE DEF V
  <2>10. UNION {t.px[p] : p \in DOMAIN t.px} = UNION {V(p) : p \in Grid(w, h)}
    BY <2>4
  <2>11. UNION {V(p) : p \in Grid(w, h)} = UNION {px[s] : s \in Grid(nx, ny)}
    BY <2>8, <2>9
  <2> QED
    BY <2>1, <2>10, <2>11 DEF px
<1> QED
  BY <1>1, <1>2

-----------------------------------------------------------------------------
(* The arguments of a script on an image of any sides the server makes.    *)

Side(n) == n \in Nat \ {0} /\ n <= LimitDim

FitRegion(r) ==
  /\ Parsed(r)
  /\ \A nx, ny : Side(nx) /\ Side(ny) => Fits(nx) /\ Fits(ny) /\ FittingCorner(Corner(r, 1, nx, ny))

GoodSize(z) == IsSize(z) /\ z.type \notin {"UNDEFINED", "ERROR"} /\ z.reduce <= 32768

LEMMA SidesFit ==
  ASSUME SmallNumbers, NEW n, Side(n)
  PROVE  Fits(n) /\ n <= 32768
BY ParamsAssumption DEF SmallNumbers, Side, Fits

LEMMA ZeroFits == Fits(0)
BY ParamsAssumption DEF Fits

LEMMA PercentFits ==
  ASSUME SmallNumbers, NEW a \in Nat, 2 * (a * LimitDim) < Word, NEW n, Side(n)
  PROVE  Fits(LRound(a * n, 100))
<1> DEFINE b == a * n
           c == 100
           k == a * LimitDim
<1>1. b \in Nat /\ b <= k /\ k \in Nat /\ 2 * k < Word
  BY ParamsAssumption DEF Side
<1>2. c \in Nat \ {0}
  OBVIOUS
<1> HIDE DEF b, c, k
<1>3. LRound(b, c) \in Nat /\ LRound(b, c) <= b
  BY <1>1, <1>2, LRoundBounds, LRoundNotLarger
<1>4. Fits(LRound(b, c))
  BY <1>1, <1>3, ParamsAssumption DEF Fits
<1> QED
  BY <1>4 DEF b, c

LEMMA RegionFits ==
  ASSUME SmallNumbers, NEW r \in RegionArguments
  PROVE  FitRegion(r)
<1>1. /\ r.type \in {"FULL", "SQUARE", "COORDS", "PERCENTS"}
      /\ r.x \in Nat /\ r.y \in Nat /\ r.w \in Nat /\ r.h \in Nat
  BY ArgumentsAssumption
<1>2. SUFFICES ASSUME NEW nx, NEW ny, Side(nx), Side(ny)
               PROVE  FittingCorner(Corner(r, 1, nx, ny))
  BY <1>1, SidesFit DEF FitRegion, Parsed
<1>3. nx \in Nat \ {0} /\ ny \in Nat \ {0} /\ Fits(nx) /\ Fits(ny)
  BY <1>2, SidesFit DEF Side
<1>4. CASE r.type = "FULL"
  BY <1>3, <1>4, ZeroFits DEF Corner, FittingCorner
<1>5. CASE r.type = "SQUARE"
  <2>1. ASSUME NEW a \in Nat, NEW b \in Nat, b <= a, Fits(a), NEW k, k = (a - b) \div 2 PROVE Fits(k)
    <3>1. k \in Nat /\ k <= a
      BY <2>1
    <3> QED
      BY <2>1, <3>1, ParamsAssumption DEF Fits
  <2>2. CASE nx > ny
    <3>1. Corner(r, 1, nx, ny) = <<(nx - ny) \div 2, 0, ny, ny>>
      BY <1>5, <2>2 DEF Corner
    <3> DEFINE k == (nx - ny) \div 2
    <3>2. k = (nx - ny) \div 2
      OBVIOUS
    <3> HIDE DEF k
    <3>3. ny <= nx /\ nx \in Nat /\ ny \in Nat
      BY <1>3, <2>2
    <3>4. Fits(k)
      BY <1>3, <2>1, <3>2, <3>3
    <3> QED
      BY <1>3, <3>1, <3>2, <3>4, ZeroFits DEF FittingCorner
  <2>3. CASE ~(nx > ny)
    <3>1. Corner(r, 1, nx, ny) = <<0, (ny - nx) \div 2, nx, nx>>
      BY <1>5, <2>3 DEF Corner
    <3> DEFINE k == (ny - nx) \div 2
    <3>2. k = (ny - nx) \div 2
      OBVIOUS
    <3> HIDE DEF k
    <3>3. nx <= ny /\ ny \in Nat /\ nx \in Nat
      BY <1>3, <2>3
    <3>4. Fits(k)
      BY <1>3, <2>1, <3>2, <3>3
    <3> QED
      BY <1>3, <3>1, <3>2, <3>4, ZeroFits DEF FittingCorner
  <2> QED
    BY <2>2, <2>3
<1>6. CASE r.type = "COORDS"
  <2>1. 2 * r.x < Word /\ 2 * r.y < Word /\ 2 * r.w < Word /\ 2 * r.h < Word
    BY <1>6 DEF SmallNumbers
  <2>2. LRound(r.x, 1) = r.x /\ LRound(r.y, 1) = r.y /\ LRound(r.w, 1) = r.w /\ LRound(r.h, 1) = r.h
    BY <1>1, LRoundOne
  <2>3. Corner(r, 1, nx, ny) = <<r.x, r.y, r.w, r.h>>
    BY <1>6, <2>2 DEF Corner
  <2> QED
    BY <1>1, <2>1, <2>3 DEF FittingCorner, Fits
<1>7. CASE r.type = "PERCENTS"
  <2>1. /\ 2 * (r.x * LimitDim) < Word /\ 2 * (r.y * LimitDim) < Word
        /\ 2 * (r.w * LimitDim) < Word /\ 2 * (r.h * LimitDim) < Word
    <3>1. ASSUME NEW n \in {r.x, r.y, r.w, r.h}
          PROVE 2 * (IF r.type = "COORDS" THEN n ELSE n * LimitDim) < Word
      BY <1>7 DEF SmallNumbers
    <3>2. ASSUME NEW n \in {r.x, r.y, r.w, r.h}
          PROVE 2 * (n * LimitDim) < Word
      BY <1>7, <3>1
    <3> QED
      BY <3>2
  <2>2. /\ Fits(LRound(r.x * nx, 100)) /\ Fits(LRound(r.y * ny, 100))
        /\ Fits(LRound(r.w * nx, 100)) /\ Fits(LRound(r.h * ny, 100))
    BY <1>1, <1>2, <2>1, PercentFits
  <2> QED
    BY <1>7, <2>2 DEF Corner, FittingCorner
<1> QED
  BY <1>1, <1>4, <1>5, <1>6, <1>7

\* A region is a rectangle inside of the image or an error.
LEMMA CropInside ==
  ASSUME NEW r, FitRegion(r), NEW red \in Nat \ {0}, NEW nx, NEW ny, Side(nx), Side(ny)
  PROVE  /\ FittingCorner(Corner(r, red, nx, ny))
         /\ Area(r, red, nx, ny) = CropCoords(r, red, nx, ny)
         /\ ~CropCoords(r, red, nx, ny).err => Inside(CropCoords(r, red, nx, ny), nx, ny)
<1>1. nx \in Nat \ {0} /\ ny \in Nat \ {0}
  BY DEF Side
<1>2. Parsed(r) /\ Fits(nx) /\ Fits(ny) /\ FittingCorner(Corner(r, 1, nx, ny))
  BY DEF FitRegion
<1>3. nx <= nx /\ ny <= ny
  BY <1>1
<1>4. FittingCorner(Corner(r, red, nx, ny))
  BY <1>1, <1>2, <1>3, FitsOnLevel
<1> QED
  BY <1>1, <1>4, AreaIsCrop, CropCoordsInside

LEMMA InsideSides ==
  ASSUME NEW c, NEW nx, NEW ny, Side(nx), Side(ny), Inside(c, nx, ny)
  PROVE  Side(c.w) /\ Side(c.h)
<1>1. LimitDim \in Nat
  BY ParamsAssumption
<1> QED
  BY <1>1 DEF Side, Inside

LEMMA SizeIsProper ==
  ASSUME NEW z, GoodSize(z)
  PROVE  Proper(z) \/ (IsSize(z) /\ z.type = "REDUCE" /\ z.reduce \in Nat /\ z.reduce <= 32768)
BY DEF GoodSize, Proper, IsSize

LEMMA ReduceSize ==
  ASSUME NEW z, z.type = "REDUCE", NEW w, NEW h, NEW m, NEW j, NEW lim
  PROVE  LET o == GetSize(z, w, h, m, j, lim)
             over == m # 0 /\ z.reduce > m
         IN  /\ o.w = IF z.reduce <= 1 THEN w ELSE CeilDiv(w, z.reduce)
             /\ o.h = IF z.reduce <= 1 THEN h ELSE CeilDiv(h, z.reduce)
             /\ o.reduce = IF z.reduce <= 1 THEN 1
                           ELSE IF over THEN m ELSE IF j THEN PowerBelow(z.reduce) ELSE z.reduce
BY DEF GetSize, SizeReduce, Outcome

\* What is too large is refused.
LEMMA TooBigIsRefused ==
  ASSUME NEW z, NEW w, NEW h, NEW m, NEW j, NEW lim
  PROVE  LET o == GetSize(z, w, h, m, j, lim) IN TooBig(o.w, o.h, lim) => o.err
<1>1. ASSUME NEW up, NEW ow, NEW oh, NEW red, NEW only
      PROVE  LET o == Outcome(up, ow, oh, red, only)
                 l == [o EXCEPT !.err = @ \/ TooBig(o.w, o.h, lim)]
             IN  TooBig(l.w, l.h, lim) => l.err
  BY DEF Outcome
<1>2. \E up, ow, oh, red, only :
         GetSize(z, w, h, m, j, lim) =
           LET o == Outcome(up, ow, oh, red, only) IN [o EXCEPT !.err = @ \/ TooBig(o.w, o.h, lim)]
  <2> DEFINE Is(o) == \E up, ow, oh, red, only : o = Outcome(up, ow, oh, red, only)
             Lim(o) == [o EXCEPT !.err = @ \/ TooBig(o.w, o.h, lim)]
             g == GetSize(z, w, h, m, j, lim)
  <2>2. /\ Is(SizePixelsXY(z, w, h, j)) /\ Is(SizePixelsX(z, w, h, j)) /\ Is(SizePixelsY(z, w, h, j))
        /\ Is(SizePercents(z, w, h, j)) /\ Is(SizeMaxdim(z, w, h, j)) /\ Is(SizeFull(z, w, h, lim))
    <3>1. Is(SizePixelsXY(z, w, h, j))
      BY Zenon DEF SizePixelsXY
    <3>2. Is(SizePixelsX(z, w, h, j))
      BY Zenon DEF SizePixelsX
    <3>3. Is(SizePixelsY(z, w, h, j))
      BY Zenon DEF SizePixelsY
    <3>4. Is(SizePercents(z, w, h, j))
      BY DEF SizePercents
    <3>5. Is(SizeMaxdim(z, w, h, j))
      BY Zenon DEF SizeMaxdim
    <3>6. Is(SizeFull(z, w, h, lim))
      BY Zenon DEF SizeFull
    <3> QED
      BY <3>1, <3>2, <3>3, <3>4, <3>5, <3>6
  <2>3. Is(SizeReduce(z, w, h, m, j)) /\ Is(Outcome(FALSE, 0, 0, 0, FALSE))
    BY Zenon DEF SizeReduce
  <2>4. z.type = "PIXELS_XY" => g = Lim(SizePixelsXY(z, w, h, j))
    BY DEF GetSize
  <2>5. z.type = "PIXELS_X" => g = Lim(SizePixelsX(z, w, h, j))
    BY DEF GetSize
  <2>6. z.type = "PIXELS_Y" => g = Lim(SizePixelsY(z, w, h, j))
    BY DEF GetSize
  <2>7. z.type = "PERCENTS" => g = Lim(SizePercents(z, w, h, j))
    BY DEF GetSize
  <2>8. z.type = "REDUCE" => g = Lim(SizeReduce(z, w, h, m, j))
    BY DEF GetSize
  <2>9. z.type = "MAXDIM" => g = Lim(SizeMaxdim(z, w, h, j))
    BY DEF GetSize
  <2>10. z.type = "FULL" => g = Lim(SizeFull(z, w, h, lim))
    BY DEF GetSize
  <2>11. z.type \notin {"PIXELS_XY", "PIXELS_X", "PIXELS_Y", "PERCENTS", "REDUCE", "MAXDIM", "FULL"} => g = Lim(Outcome(FALSE, 0, 0, 0, FALSE))
    BY DEF GetSize
  <2>12. \E o : Is(o) /\ g = Lim(o)
    <3> HIDE DEF Is, Lim, g
    <3> QED
      BY <2>2, <2>3, <2>4, <2>5, <2>6, <2>7, <2>8, <2>9, <2>10, <2>11
  <2>13. PICK o : Is(o) /\ g = Lim(o)
    BY <2>12
  <2> QED
    BY <2>13
<1> QED
  BY <1>1, <1>2

\* A size that can be had has sides the server makes.
LEMMA SizeSides ==
  ASSUME SmallNumbers, NEW z, GoodSize(z), NEW w, NEW h, Side(w), Side(h),
         NEW m \in Nat, m <= 32, NEW j \in BOOLEAN
  PROVE  LET o == GetSize(z, w, h, m, j, Unlimited)
         IN  /\ o.w \in Nat \ {0} /\ o.h \in Nat \ {0}
             /\ IsFactor(o.reduce, j)
             /\ ~o.err => Side(o.w) /\ Side(o.h)
             /\ z.type = "FULL" => o.w = w /\ o.h = h
<1> DEFINE o == GetSize(z, w, h, m, j, Unlimited)
           lim == Unlimited
<1>1. w \in Nat \ {0} /\ h \in Nat \ {0} /\ w <= 32768 /\ h <= 32768
  BY SidesFit DEF Side
<1>2. lim.w = 0
  BY DEF Unlimited
<1>3. o = GetSize(z, w, h, m, j, lim)
  OBVIOUS
<1>4. TooBig(o.w, o.h, lim) => o.err
  <2> HIDE DEF lim, o
  <2> QED
    BY <1>3, TooBigIsRefused
<1>5. o.w \in Nat \ {0} /\ o.h \in Nat \ {0} /\ (z.type = "FULL" => o.w = w /\ o.h = h)
  <2> HIDE DEF lim, o
  <2>1. CASE z.type = "REDUCE"
    <3>1. z.reduce \in Nat
      BY <2>1, SizeIsProper DEF Proper
    <3>2. /\ o.w = IF z.reduce <= 1 THEN w ELSE CeilDiv(w, z.reduce)
          /\ o.h = IF z.reduce <= 1 THEN h ELSE CeilDiv(h, z.reduce)
      BY <1>3, <2>1, ReduceSize
    <3>3. z.reduce > 1 => CeilDiv(w, z.reduce) \in Nat \ {0} /\ CeilDiv(h, z.reduce) \in Nat \ {0}
      BY <1>1, <3>1, CeilDivPositive
    <3> QED
      BY <1>1, <2>1, <3>1, <3>2, <3>3
  <2>2. CASE z.type # "REDUCE"
    <3>1. Proper(z)
      BY <2>2, SizeIsProper
    <3>2. CASE z.type = "FULL"
      BY <1>1, <1>2, <1>3, <3>2, FullSize
    <3>3. CASE z.type = "PERCENTS"
      <4>1. o.w = CeilDiv(w * z.percent, 100) /\ o.h = CeilDiv(h * z.percent, 100)
        BY <1>3, <3>3, PercentSize
      <4>2. z.percent \in Nat \ {0}
        BY <3>1, <3>3, ProperNumbers
      <4> DEFINE k == 100
      <4>3. k \in Nat \ {0}
        OBVIOUS
      <4> HIDE DEF k
      <4>4. CeilDiv(w * z.percent, k) \in Nat \ {0} /\ CeilDiv(h * z.percent, k) \in Nat \ {0}
        BY <1>1, <4>2, <4>3, DerivedSide
      <4> QED
        BY <3>3, <4>1, <4>4 DEF k
    <3>4. CASE z.type = "PIXELS_X"
      <4>1. /\ o.w = z.nx
            /\ o.h = IF Exact(z.nx, w) THEN CeilDiv(h, Factor(z.nx, w, j)) ELSE CeilDiv(h * z.nx, w)
        BY <1>3, <3>4, PixelsXSize
      <4>2. z.nx \in Nat \ {0}
        BY <3>1, <3>4, ProperNumbers
      <4>3. IsFactor(Factor(z.nx, w, j), j)
        BY <1>1, <4>2, FactorIsFactor
      <4>4. CeilDiv(h, Factor(z.nx, w, j)) \in Nat \ {0}
        BY <1>1, <4>3, CeilDivPositive DEF IsFactor
      <4>5. CeilDiv(h * z.nx, w) \in Nat \ {0}
        BY <1>1, <4>2, DerivedSide
      <4> QED
        BY <3>4, <4>1, <4>2, <4>4, <4>5
    <3>5. CASE z.type = "PIXELS_Y"
      <4>1. /\ o.w = IF Exact(z.ny, h) THEN CeilDiv(w, Factor(z.ny, h, j)) ELSE CeilDiv(w * z.ny, h)
            /\ o.h = z.ny
        BY <1>3, <3>5, PixelsYSize
      <4>2. z.ny \in Nat \ {0}
        BY <3>1, <3>5, ProperNumbers
      <4>3. IsFactor(Factor(z.ny, h, j), j)
        BY <1>1, <4>2, FactorIsFactor
      <4>4. CeilDiv(w, Factor(z.ny, h, j)) \in Nat \ {0}
        BY <1>1, <4>3, CeilDivPositive DEF IsFactor
      <4>5. CeilDiv(w * z.ny, h) \in Nat \ {0}
        BY <1>1, <4>2, DerivedSide
      <4> QED
        BY <3>5, <4>1, <4>2, <4>4, <4>5
    <3>6. CASE z.type = "PIXELS_XY"
      <4>1. z.nx \in Nat \ {0} /\ z.ny \in Nat \ {0}
        BY <3>1, <3>6, ProperNumbers
      <4> QED
        BY <1>3, <3>6, <4>1, PixelsXYSize
    <3>7. CASE z.type = "MAXDIM"
      BY <1>1, <1>3, <3>1, <3>7, MaxdimSides
    <3> QED
      BY <3>1, <3>2, <3>3, <3>4, <3>5, <3>6, <3>7 DEF Proper
  <2> QED
    BY <2>1, <2>2
<1>6. IsFactor(o.reduce, j)
  <2> HIDE DEF lim, o
  <2>1. CASE z.type = "REDUCE"
    <3> DEFINE over == m # 0 /\ z.reduce > m
    <3>1. z.reduce \in Nat /\ z.reduce <= 32768
      BY <2>1, SizeIsProper DEF Proper
    <3>2. o.reduce = IF z.reduce <= 1 THEN 1
                     ELSE IF over THEN m ELSE IF j THEN PowerBelow(z.reduce) ELSE z.reduce
      BY <1>3, <2>1, ReduceSize
    <3>3. IsFactor(PowerBelow(z.reduce), j)
      BY <3>1, PowerBelowIsFactor
    <3>4. IsFactor(1, j) /\ (over => IsFactor(m, j)) /\ (z.reduce > 1 /\ ~j => IsFactor(z.reduce, j))
      BY <3>1 DEF IsFactor
    <3> HIDE DEF over
    <3> QED
      BY <3>1, <3>2, <3>3, <3>4
  <2>2. CASE z.type # "REDUCE"
    <3>1. Proper(z)
      BY <2>2, SizeIsProper
    <3> QED
      BY <1>1, <1>3, <3>1, ReduceIsFactor
  <2> QED
    BY <2>1, <2>2
<1>7. ~o.err => Side(o.w) /\ Side(o.h)
  <2> HIDE DEF o
  <2>1. ~o.err => ~TooBig(o.w, o.h, lim)
    BY <1>4
  <2> QED
    BY <1>2, <1>5, <2>1, ParamsAssumption DEF TooBig, Side
<1> QED
  BY <1>5, <1>6, <1>7

-----------------------------------------------------------------------------
(* What the readers plan for a file of the script.                         *)

XmpKinds == {"none", "packet", "bare"}

IsSum(e) == e.set => e.type = "sha256" /\ e.sum = <<e.sum[1], e.sum[2]>> /\ e.sum[2][1] \in Nat \ {0}

\* A file the server can read: an original or one it has written itself.
FileFits(f) == IsOriginal(f) /\ Side(f.nx) /\ Side(f.ny)

\* What is left where writing failed.
Broken(f) == f.fmt = "broken" /\ f.nx = 0 /\ IsSum(f.ess)

Asks(r, z) == FitRegion(r) /\ (z = NoSize \/ GoodSize(z))

\* An extent to deliver is one the server makes.
SidedPlan(p) == p.err = "none" /\ p.pixels = "asked" => Side(p.nx) /\ Side(p.ny)

LEMMA NoSizeType == NoSize.type = "NONE"
BY DEF NoSize, Size

LEMMA RefusedIsSided == SidedPlan(Refused("iiif")) /\ SidedPlan(Refused("size")) /\ SidedPlan(Refused("image"))
BY DEF Refused, Plan, SidedPlan

LEMMA UndefinedIsSided ==
  ASSUME NEW c, NEW by, NEW nx, NEW ny
  PROVE  SidedPlan(Plan("none", c, by, nx, ny, "undefined"))
BY DEF Plan, SidedPlan

LEMMA SidesAreSided ==
  ASSUME NEW c, NEW by, NEW nx, NEW ny, Side(nx), Side(ny), NEW px
  PROVE  SidedPlan(Plan("none", c, by, nx, ny, px))
BY DEF Plan, SidedPlan

\* A rectangle and a size of it.
LEMMA SizeOfRegion ==
  ASSUME SmallNumbers, NEW r, NEW z, Asks(r, z), NEW red \in Nat \ {0}, NEW nx, NEW ny, Side(nx), Side(ny),
         NEW m \in Nat, m <= 32, NEW j \in BOOLEAN, ~Area(r, red, nx, ny).err
  PROVE  LET c == Area(r, red, nx, ny)
             o == GetSize(z, c.w, c.h, m, j, Unlimited)
         IN  /\ Side(c.w) /\ Side(c.h) /\ Inside(c, nx, ny)
             /\ z.type # "NONE" => IsFactor(o.reduce, j)
             /\ z.type # "NONE" /\ ~o.err => Side(o.w) /\ Side(o.h)
<1> DEFINE c == Area(r, red, nx, ny)
<1>1. Inside(c, nx, ny)
  BY CropInside DEF Asks
<1> HIDE DEF c
<1>2. Side(c.w) /\ Side(c.h)
  BY <1>1, InsideSides
<1>3. z.type # "NONE" => GoodSize(z)
  BY NoSizeType DEF Asks
<1> QED
  BY <1>1, <1>2, <1>3, SizeSides DEF c

LEMMA PngSided ==
  ASSUME SmallNumbers, NEW f, Side(f.nx), Side(f.ny), NEW r, NEW z, Asks(r, z), NEW quality
  PROVE  SidedPlan(ReadPng(f, r, z, Unlimited, quality))
<1> DEFINE c == Area(r, 1, f.nx, f.ny)
           m == 0
           j == FALSE
           red == 1
           o == GetSize(z, c.w, c.h, m, j, Unlimited)
           p == ReadPng(f, r, z, Unlimited, quality)
           px == IF ReduceUndefined(o.reduce) THEN "undefined" ELSE Pixels(c, o.w, o.h, quality)
<1>1. p = IF c.err THEN Refused("iiif")
          ELSE IF z.type = "NONE" THEN Plan("none", c, 1, c.w, c.h, "asked")
          ELSE IF o.err THEN Refused("size")
          ELSE IF z.type = "FULL" /\ o.redonly THEN Plan("none", c, 1, c.w, c.h, "asked")
          ELSE Plan("none", c, 1, o.w, o.h, px)
  BY DEF ReadPng, SizedIn
<1>2. c = Area(r, red, f.nx, f.ny) /\ red \in Nat \ {0} /\ m \in Nat /\ m <= 32 /\ j \in BOOLEAN
  OBVIOUS
<1> HIDE DEF m, j, red, c
<1>3. ~c.err => Side(c.w) /\ Side(c.h) /\ (z.type # "NONE" /\ ~o.err => Side(o.w) /\ Side(o.h))
  BY <1>2, SizeOfRegion
<1> HIDE DEF o, px, p
<1>4. SidedPlan(p)
  BY <1>1, <1>3, RefusedIsSided, SidesAreSided
<1> QED
  BY <1>4 DEF p

LEMMA JpegSided ==
  ASSUME SmallNumbers, NEW f, Side(f.nx), Side(f.ny), NEW r, NEW z, Asks(r, z), NEW quality
  PROVE  SidedPlan(ReadJpeg(f, r, z, Unlimited, quality))
<1> DEFINE c == Area(r, 1, f.nx, f.ny)
           m == 0
           jj == FALSE
           red == 1
           o == GetSize(z, c.w, c.h, m, jj, Unlimited)
           p == ReadJpeg(f, r, z, Unlimited, quality)
           whole == r.type = "FULL"
           e == IF whole THEN o.reduce ELSE 1
           d == [c EXCEPT !.w = DecodedExtent(@, o.reduce), !.h = DecodedExtent(@, o.reduce)]
<1>1. p = IF c.err THEN Refused("iiif")
          ELSE IF ~whole /\ z.type = "NONE" THEN Plan("none", c, 1, c.w, c.h, "undefined")
          ELSE IF o.err /\ (~whole \/ ~AsItIs(z)) THEN Refused("size")
          ELSE IF AsItIs(z) THEN Plan("none", c, 1, c.w, c.h, "asked")
          ELSE IF ~whole THEN Plan("none", c, e, o.w, o.h, Pixels(c, o.w, o.h, quality))
          ELSE Plan("none", d, e, o.w, o.h, Pixels(d, o.w, o.h, quality))
  BY DEF ReadJpeg, SizedIn
<1>2. c = Area(r, red, f.nx, f.ny) /\ red \in Nat \ {0} /\ m \in Nat /\ m <= 32 /\ jj \in BOOLEAN
  OBVIOUS
<1> HIDE DEF m, jj, red, c
<1>3. ~c.err => Side(c.w) /\ Side(c.h) /\ (z.type # "NONE" /\ ~o.err => Side(o.w) /\ Side(o.h))
  BY <1>2, SizeOfRegion
<1>5. ~AsItIs(z) => z.type # "NONE"
  BY DEF AsItIs
<1> HIDE DEF o, p, e, d, whole
<1>4. SidedPlan(p)
  BY <1>1, <1>3, <1>5, RefusedIsSided, UndefinedIsSided, SidesAreSided
<1> QED
  BY <1>4 DEF p

\* An extent is its own width at the factor 1.
LEMMA OwnWidth ==
  ASSUME NEW n \in Nat \ {0}
  PROVE  LRound(n, CeilDiv(n, 1)) = 1
<1> DEFINE f == LRound(n, n)
<1>1. CeilDiv(n, 1) = n
  BY CeilDivOne
<1>2. f \in Nat /\ 2 * f * n <= 2 * n + n /\ 2 * n < 2 * f * n + n
  BY LRoundBounds
<1> HIDE DEF f
<1>3. f # 0
  BY <1>2
<1>4. f < 2
  <2>1. ASSUME f >= 2 PROVE FALSE
    <3>1. 4 * n <= 2 * f * n
      BY <1>2, <2>1
    <3> QED
      BY <1>2, <3>1
  <2> QED
    BY <1>2, <2>1
<1>5. f = 1
  BY <1>2, <1>3, <1>4
<1> QED
  BY <1>1, <1>5 DEF f

\* A pyramid that begins with the image has a level for every factor.
LEMMA LevelOfFile ==
  ASSUME NEW f, f.nx \in Nat \ {0}, f.levels \in Seq(Nat \ {0}), f.levels # <<>>, f.levels[1] = 1,
         NEW reduce \in Nat \ {0}
  PROVE  Level(f, reduce) \in DOMAIN f.levels /\ f.levels[Level(f, reduce)] \in Nat \ {0}
<1> DEFINE s == f.levels
           Width(by) == LRound(f.nx, CeilDiv(f.nx, by))
           over == {i \in DOMAIN s : Width(s[i]) > reduce}
           l == Level(f, reduce)
<1>1. l = IF over = {} THEN Len(s) ELSE Min(over) - 1
  BY DEF Level
<1>2. Len(s) \in Nat \ {0} /\ DOMAIN s = 1..Len(s) /\ s[1] = 1 /\ \A i \in DOMAIN s : s[i] \in Nat \ {0}
  <2> HIDE DEF s
  <2>1. s \in Seq(Nat \ {0}) /\ s # <<>> /\ s[1] = 1
    BY DEF s
  <2> QED
    BY <2>1
<1>3. 1 \notin over
  <2>1. Width(1) = 1
    BY OwnWidth
  <2> HIDE DEF Width
  <2> QED
    BY <1>2, <2>1
<1>4. over \in SUBSET (DOMAIN s)
  OBVIOUS
<1> HIDE DEF over, l, s
<1>5. l \in DOMAIN s
  <2>1. CASE over = {}
    BY <1>1, <1>2, <2>1
  <2>2. CASE over # {}
    <3>1. over \in SUBSET Nat
      BY <1>2, <1>4
    <3>2. Min(over) \in over
      BY <2>2, <3>1, LeastNumber
    <3> DEFINE m == Min(over)
    <3>3. m \in 1..Len(s) /\ m # 1 /\ m \in Nat
      BY <1>2, <1>3, <1>4, <3>2
    <3>4. l = m - 1
      BY <1>1, <2>2
    <3> HIDE DEF m
    <3>5. l \in 1..Len(s)
      BY <1>2, <3>3, <3>4
    <3> QED
      BY <1>2, <3>5
  <2> QED
    BY <2>1, <2>2
<1> QED
  BY <1>2, <1>5 DEF s, l

\* A side of a level is one the server makes.
LEMMA SideOfLevel ==
  ASSUME NEW n, Side(n), NEW by \in Nat \ {0}
  PROVE  Side(CeilDiv(n, by))
<1>1. n \in Nat \ {0} /\ n <= LimitDim /\ LimitDim \in Nat
  BY ParamsAssumption DEF Side
<1>2. CeilDiv(n, by) \in Nat \ {0} /\ CeilDiv(n, by) <= n
  BY <1>1, CeilDivPositive
<1> QED
  BY <1>1, <1>2 DEF Side

LEMMA LevelSided ==
  ASSUME SmallNumbers, NEW f, Side(f.nx), Side(f.ny), NEW r, NEW z, Asks(r, z), NEW quality,
         NEW level, f.levels[level] \in Nat \ {0}, NEW red \in Nat \ {0}
  PROVE  SidedPlan(ReadLevel(f, r, z, Unlimited, quality, level, red))
<1> DEFINE by == f.levels[level]
           mx == CeilDiv(f.nx, by)
           my == CeilDiv(f.ny, by)
           c == Area(r, red, mx, my)
           m == 0
           jj == FALSE
           o == GetSize(z, c.w, c.h, m, jj, Unlimited)
           p == ReadLevel(f, r, z, Unlimited, quality, level, red)
           found == IF f.tile > 0 THEN ReadTiledData(f, c) ELSE ReadStandardData(f, c)
           px == IF found = "asked" THEN Pixels(c, o.w, o.h, quality) ELSE found
           odd == f.tile > 0 /\ f.bps \notin {8, 16}
<1>1. p = IF c.err THEN Refused("iiif")
          ELSE IF odd THEN Refused("image")
          ELSE IF z.type # "NONE" /\ o.err THEN Refused("size")
          ELSE IF AsItIs(z) THEN Plan("none", c, by, c.w, c.h, found)
          ELSE Plan("none", c, by, o.w, o.h, px)
  BY Zenon DEF ReadLevel, SizedIn
<1>2. Side(mx) /\ Side(my)
  <2> HIDE DEF by
  <2>1. by \in Nat \ {0}
    BY DEF by
  <2> QED
    BY <2>1, SideOfLevel
<1>3. m \in Nat /\ m <= 32 /\ jj \in BOOLEAN
  OBVIOUS
<1> HIDE DEF by, m, jj, mx, my
<1>4. ~c.err => Side(c.w) /\ Side(c.h) /\ (z.type # "NONE" /\ ~o.err => Side(o.w) /\ Side(o.h))
  BY <1>2, <1>3, SizeOfRegion
<1>5. ~AsItIs(z) => z.type # "NONE"
  BY DEF AsItIs
<1> HIDE DEF c, o, p, found, px, odd
<1>6. SidedPlan(p)
  BY <1>1, <1>4, <1>5, RefusedIsSided, SidesAreSided
<1> QED
  BY <1>6 DEF p

LEMMA TiffSided ==
  ASSUME SmallNumbers, NEW f, FileFits(f), f.fmt = "tif", NEW r, NEW z, Asks(r, z), NEW quality
  PROVE  SidedPlan(ReadTiff(f, r, z, Unlimited, quality))
<1> DEFINE c == CropCoords(r, 1, f.nx, f.ny)
           k == 1
           jj == FALSE
           o == GetSize(z, c.w, c.h, k, jj, Unlimited)
           level == Level(f, o.reduce)
           p == ReadTiff(f, r, z, Unlimited, quality)
           q == ReadLevel(f, r, z, Unlimited, quality, level, o.reduce)
<1>1. Side(f.nx) /\ Side(f.ny) /\ f.nx \in Nat \ {0}
  BY DEF FileFits, Side
<1>2. f.levels \in Seq(Nat \ {0}) /\ f.levels # <<>> /\ f.levels[1] = 1
  BY DEF FileFits, IsOriginal
<1>3. k = 1 /\ k \in Nat \ {0} /\ k \in Nat /\ k <= 32 /\ jj \in BOOLEAN
  OBVIOUS
<1>4. CASE Len(f.levels) = 1
  <2>1. p = ReadLevel(f, r, z, Unlimited, quality, k, k)
    BY <1>4 DEF ReadTiff
  <2>2. f.levels[k] \in Nat \ {0}
    BY <1>2
  <2> HIDE DEF k, p
  <2>3. SidedPlan(p)
    BY <1>1, <1>3, <2>1, <2>2, LevelSided
  <2> QED
    BY <2>3 DEF p
<1>5. CASE Len(f.levels) # 1
  <2>1. p = IF c.err THEN Refused("iiif")
            ELSE IF z.type = "NONE" THEN Plan("none", c, 1, c.w, c.h, "undefined")
            ELSE IF o.err THEN Refused("size") ELSE q
    BY <1>5, Zenon DEF ReadTiff, SizedIn
  <2>2. c = Area(r, k, f.nx, f.ny)
    <3>1. c = CropCoords(r, k, f.nx, f.ny)
      OBVIOUS
    <3> HIDE DEF c, k
    <3> QED
      BY <1>1, <1>3, <3>1, CropInside DEF Asks
  <2> HIDE DEF c, k, jj
  <2>3. ~c.err /\ z.type # "NONE" => IsFactor(o.reduce, jj)
    BY <1>1, <1>3, <2>2, SizeOfRegion
  <2> DEFINE red == o.reduce
  <2> HIDE DEF o
  <2>4. ASSUME ~c.err, z.type # "NONE" PROVE SidedPlan(q)
    <3>1. red \in Nat \ {0}
      BY <2>3, <2>4 DEF IsFactor
    <3>2. level = Level(f, red) /\ q = ReadLevel(f, r, z, Unlimited, quality, level, red)
      OBVIOUS
    <3> HIDE DEF level, q, red
    <3>3. f.levels[level] \in Nat \ {0}
      BY <1>1, <1>2, <3>1, <3>2, LevelOfFile
    <3> QED
      BY <1>1, <3>1, <3>2, <3>3, LevelSided
  <2> HIDE DEF p, q
  <2>5. SidedPlan(p)
    BY <2>1, <2>4, RefusedIsSided, UndefinedIsSided
  <2> QED
    BY <2>5 DEF p
<1> QED
  BY <1>4, <1>5

LEMMA J2kSided ==
  ASSUME SmallNumbers, NEW f, FileFits(f), NEW r, NEW z, Asks(r, z), NEW quality
  PROVE  SidedPlan(ReadJ2k(f, r, z, Unlimited, quality))
<1> DEFINE red == 1
           c == Area(r, red, f.nx, f.ny)
           m == Len(f.levels)
           jj == TRUE
           o == GetSize(z, c.w, c.h, m, jj, Unlimited)
           p == ReadJ2k(f, r, z, Unlimited, quality)
           by == Min({b \in Powers : b >= o.reduce})
           d == Dropped(c, by)
           q == Outcome(FALSE, c.w, c.h, 1, TRUE)
           deep == by > 2^m
           none == 1 > 2^m
<1>1. p = IF c.err THEN Refused("image")
          ELSE IF AsItIs(z)
               THEN IF none \/ c.w = 0 \/ c.h = 0 THEN Plan("none", c, 1, q.w, q.h, "undefined")
                    ELSE IF q.redonly THEN Plan("none", c, 1, c.w, c.h, "asked")
                    ELSE Plan("none", c, 1, q.w, q.h, Pixels(c, q.w, q.h, quality))
          ELSE IF o.err THEN Refused("size")
          ELSE IF deep \/ d.w = 0 \/ d.h = 0 THEN Plan("none", d, by, o.w, o.h, "undefined")
          ELSE IF o.redonly THEN Plan("none", d, by, d.w, d.h, "asked")
          ELSE Plan("none", d, by, o.w, o.h, Pixels(d, o.w, o.h, quality))
  BY Zenon DEF ReadJ2k, SizedIn
<1>2. q.w = c.w /\ q.h = c.h
  BY DEF Outcome
<1>3. Side(f.nx) /\ Side(f.ny)
  BY DEF FileFits
<1>4. m \in Nat /\ m <= 32 /\ jj \in BOOLEAN /\ jj /\ red \in Nat \ {0}
  BY DEF FileFits, IsOriginal
<1>5. ~AsItIs(z) => z.type # "NONE"
  BY DEF AsItIs
<1> HIDE DEF red, m, jj
<1>6. ~c.err => /\ Side(c.w) /\ Side(c.h) /\ Inside(c, f.nx, f.ny)
                /\ z.type # "NONE" => IsFactor(o.reduce, jj)
                /\ z.type # "NONE" /\ ~o.err => Side(o.w) /\ Side(o.h)
  BY <1>3, <1>4, SizeOfRegion
<1> HIDE DEF c, o
<1>7. ASSUME ~c.err, ~AsItIs(z) PROVE d.w # 0 /\ d.h # 0 => Side(d.w) /\ Side(d.h)
  <2>1. by \in Nat \ {0}
    <3> DEFINE n == o.reduce
               k == 1
    <3>1. n \in Nat /\ k \in Nat \ {0} /\ n <= 16384 * k
      BY <1>4, <1>5, <1>6, <1>7 DEF IsFactor
    <3> HIDE DEF n
    <3>2. Min({b \in Powers : k * b >= n}) \in Powers
      <4> HIDE DEF k
      <4> QED
        BY <3>1, LeastPower
    <3>3. {b \in Powers : k * b >= n} = {b \in Powers : b >= n}
      BY DEF Powers
    <3>4. by \in Powers
      BY <3>2, <3>3 DEF n
    <3> HIDE DEF by
    <3> QED
      BY <3>4 DEF Powers
  <2> HIDE DEF by
  <2> DEFINE mx == CeilDiv(f.nx, by)
             my == CeilDiv(f.ny, by)
  <2>2. f.nx \in Nat /\ f.ny \in Nat /\ Inside(c, f.nx, f.ny)
    BY <1>3, <1>6, <1>7 DEF Side
  <2>3. /\ d.x \in Nat /\ d.w \in Nat /\ d.x + d.w <= mx
        /\ d.y \in Nat /\ d.h \in Nat /\ d.y + d.h <= my
    BY <2>1, <2>2, DroppedInside
  <2>4. Side(mx) /\ Side(my)
    BY <1>3, <2>1, SideOfLevel
  <2> HIDE DEF d, mx, my
  <2> QED
    BY <2>3, <2>4, ParamsAssumption DEF Side
<1> HIDE DEF p, d, by, q, deep, none
<1>8. SidedPlan(p)
  <2>1. CASE c.err
    BY <1>1, <2>1, RefusedIsSided
  <2>2. CASE ~c.err /\ AsItIs(z)
    BY <1>1, <1>2, <1>6, <2>2, SidesAreSided
  <2>3. CASE ~c.err /\ ~AsItIs(z)
    <3>1. CASE o.err
      BY <1>1, <2>3, <3>1, RefusedIsSided
    <3>2. CASE ~o.err
      BY <1>1, <1>5, <1>6, <1>7, <2>3, <3>2, UndefinedIsSided, SidesAreSided
    <3> QED
      BY <3>1, <3>2
  <2> QED
    BY <2>1, <2>2, <2>3
<1> QED
  BY <1>8 DEF p

\* Whatever a reader delivers has sides the server makes.
LEMMA PlanSided ==
  ASSUME SmallNumbers, NEW f, FileFits(f), NEW r, NEW z, Asks(r, z), NEW quality
  PROVE  SidedPlan(ReadPlan(f, r, z, Unlimited, quality))
<1>1. Side(f.nx) /\ Side(f.ny) /\ f.fmt \in {"png", "jpg", "tif", "jp2"}
  BY DEF FileFits, IsOriginal
<1>2. CASE f.fmt = "png"
  BY <1>1, <1>2, PngSided DEF ReadPlan
<1>3. CASE f.fmt = "jpg"
  BY <1>1, <1>3, JpegSided DEF ReadPlan
<1>4. CASE f.fmt = "tif"
  BY <1>4, TiffSided DEF ReadPlan
<1>5. CASE f.fmt = "jp2"
  BY <1>5, J2kSided DEF ReadPlan
<1> QED
  BY <1>1, <1>2, <1>3, <1>4, <1>5

-----------------------------------------------------------------------------
(* The metadata that is read.                                              *)

FieldNames == {"nc", "es", "bps", "photo", "icc", "bw", "ori", "exif", "gps", "iptc", "xmp", "ess", "loss"}

\* The samples of the file and what it says of IPTC, XMP and the essentials.
Carries(m, f) ==
  /\ m.bps = Bits(f, FALSE) /\ m.loss = f.loss /\ m.iptc = f.iptc /\ m.xmp = f.xmp /\ m.ess = f.ess
  /\ m.photo # "palette" /\ (f.photo # "palette" => m.nc = f.nc)

LEMMA FieldsOfFile ==
  ASSUME NEW f
  PROVE  LET m == Fields(f)
         IN  /\ DOMAIN m = FieldNames
             /\ m.nc = f.nc /\ m.bps = Bits(f, FALSE) /\ m.photo = f.photo /\ m.ori = 1 /\ m.exif = f.exif
             /\ m.iptc = f.iptc /\ m.xmp = f.xmp /\ m.ess = f.ess /\ m.loss = f.loss
BY DEF Fields, FieldNames

\* What two records of fields have in common when only the samples differ.
SameMeta(t, m) ==
  /\ t.ori = m.ori /\ t.exif = m.exif /\ t.iptc = m.iptc /\ t.xmp = m.xmp /\ t.ess = m.ess /\ t.loss = m.loss

LEMMA PaletteFields ==
  ASSUME NEW m, DOMAIN m = FieldNames
  PROVE  LET t == WithoutPalette(m)
         IN  /\ DOMAIN t = FieldNames /\ SameMeta(t, m) /\ t.bps = m.bps
             /\ t.photo # "palette" /\ (m.photo # "palette" => t.nc = m.nc)
<1>1. CASE m.photo = "palette"
  <2> DEFINE t == [m EXCEPT !.photo = "rgb", !.nc = @ + 2]
  <2>1. WithoutPalette(m) = t
    BY <1>1 DEF WithoutPalette
  <2>2. DOMAIN t = FieldNames /\ SameMeta(t, m) /\ t.bps = m.bps /\ t.photo = "rgb"
    BY DEF FieldNames, SameMeta
  <2> HIDE DEF t
  <2> QED
    BY <1>1, <2>1, <2>2
<1>2. CASE m.photo # "palette"
  <2>1. WithoutPalette(m) = m
    BY <1>2 DEF WithoutPalette
  <2> QED
    BY <1>2, <2>1 DEF SameMeta
<1> QED
  BY <1>1, <1>2

\* A field that says how the samples are meant is set.
LEMMA IccField ==
  ASSUME NEW m, DOMAIN m = FieldNames, NEW icc
  PROVE  LET t == [m EXCEPT !.icc = icc]
         IN  DOMAIN t = FieldNames /\ SameMeta(t, m) /\ t.bps = m.bps /\ t.photo = m.photo /\ t.nc = m.nc
BY DEF FieldNames, SameMeta

LEMMA BpsField ==
  ASSUME NEW m, DOMAIN m = FieldNames, NEW bps
  PROVE  LET t == [m EXCEPT !.bps = bps]
         IN  DOMAIN t = FieldNames /\ SameMeta(t, m) /\ t.bps = bps /\ t.photo = m.photo /\ t.nc = m.nc
BY DEF FieldNames, SameMeta

LEMMA PhotoField ==
  ASSUME NEW m, DOMAIN m = FieldNames, NEW photo
  PROVE  LET t == [m EXCEPT !.photo = photo]
         IN  DOMAIN t = FieldNames /\ SameMeta(t, m) /\ t.bps = m.bps /\ t.photo = photo /\ t.nc = m.nc
BY DEF FieldNames, SameMeta

LEMMA FieldsReadPng ==
  ASSUME NEW f
  PROVE  LET m == ReadFieldsPng(f, FALSE) IN Carries(m, f) /\ m.ori = 1 /\ m.exif = f.exif
<1> DEFINE a == Fields(f)
           b == WithoutPalette(a)
           bps == Bits(f, FALSE)
           m == [b EXCEPT !.bps = bps]
<1>1. m = ReadFieldsPng(f, FALSE)
  BY DEF ReadFieldsPng
<1>2. /\ DOMAIN a = FieldNames
      /\ a.nc = f.nc /\ a.bps = bps /\ a.photo = f.photo /\ a.ori = 1 /\ a.exif = f.exif
      /\ a.iptc = f.iptc /\ a.xmp = f.xmp /\ a.ess = f.ess /\ a.loss = f.loss
  BY FieldsOfFile
<1> HIDE DEF a
<1>3. /\ DOMAIN b = FieldNames /\ SameMeta(b, a) /\ b.bps = a.bps
      /\ b.photo # "palette" /\ (a.photo # "palette" => b.nc = a.nc)
  BY <1>2, PaletteFields
<1> HIDE DEF b, bps
<1>4. DOMAIN m = FieldNames /\ SameMeta(m, b) /\ m.bps = bps /\ m.photo = b.photo /\ m.nc = b.nc
  BY <1>3, BpsField
<1> HIDE DEF m
<1> QED
  BY <1>1, <1>2, <1>3, <1>4 DEF Carries, SameMeta, bps

LEMMA FieldsReadJ2k ==
  ASSUME NEW f
  PROVE  LET m == ReadFieldsJ2k(f, FALSE) IN Carries(m, f) /\ m.ori = 1 /\ m.exif = f.exif
<1> DEFINE a == Fields(f)
           b == WithoutPalette(a)
           icc == DefaultIcc(b)
           c == [b EXCEPT !.icc = icc]
           bps == Bits(f, FALSE)
           d == [c EXCEPT !.bps = bps]
           m == ConvertYCC2RGB(d)
<1>1. m = ReadFieldsJ2k(f, FALSE)
  BY DEF ReadFieldsJ2k, ColourJ2k
<1>2. /\ DOMAIN a = FieldNames
      /\ a.nc = f.nc /\ a.bps = bps /\ a.photo = f.photo /\ a.ori = 1 /\ a.exif = f.exif
      /\ a.iptc = f.iptc /\ a.xmp = f.xmp /\ a.ess = f.ess /\ a.loss = f.loss
  BY FieldsOfFile
<1> HIDE DEF a
<1>3. /\ DOMAIN b = FieldNames /\ SameMeta(b, a) /\ b.bps = a.bps
      /\ b.photo # "palette" /\ (a.photo # "palette" => b.nc = a.nc)
  BY <1>2, PaletteFields
<1> HIDE DEF b, icc, bps
<1>4. DOMAIN c = FieldNames /\ SameMeta(c, b) /\ c.photo = b.photo /\ c.nc = b.nc
  BY <1>3, IccField
<1> HIDE DEF c
<1>5. DOMAIN d = FieldNames /\ SameMeta(d, c) /\ d.bps = bps /\ d.photo = c.photo /\ d.nc = c.nc
  BY <1>4, BpsField
<1> HIDE DEF d
<1>6. DOMAIN m = FieldNames /\ SameMeta(m, d) /\ m.bps = bps /\ m.photo # "palette" /\ m.nc = d.nc
  <2>1. CASE d.photo = "ycc"
    <3> DEFINE photo == "rgb"
    <3>1. m = [d EXCEPT !.photo = photo]
      BY <2>1 DEF ConvertYCC2RGB
    <3>2. photo # "palette"
      OBVIOUS
    <3> HIDE DEF photo, m
    <3> QED
      BY <1>5, <3>1, <3>2, PhotoField
  <2>2. CASE d.photo # "ycc"
    <3>1. m = d
      BY <2>2 DEF ConvertYCC2RGB
    <3> HIDE DEF m
    <3> QED
      BY <1>3, <1>4, <1>5, <3>1 DEF SameMeta
  <2> QED
    BY <2>1, <2>2
<1> HIDE DEF m
<1> QED
  BY <1>1, <1>2, <1>3, <1>4, <1>5, <1>6 DEF Carries, SameMeta, bps

LEMMA FieldsReadTiff ==
  ASSUME NEW f
  PROVE  LET m == ReadFieldsTiff(f, FALSE)
         IN  Carries(m, f) /\ m.ori = f.ori /\ m.exif = IF f.exif = -1 THEN -1 ELSE 0
<1> DEFINE a == Fields(f)
           e == IF f.exif = -1 THEN -1 ELSE 0
           b == [a EXCEPT !.ori = f.ori, !.exif = e]
           c == [b EXCEPT !.gps = NoGps]
           primaries == IF c.icc = "whitepoint" THEN "primaries" ELSE c.icc
           d == [c EXCEPT !.icc = primaries]
           p == WithoutPalette(d)
           icc == DefaultIcc(p)
           bps == Bits(f, FALSE)
           q == [p EXCEPT !.icc = icc]
           m == [q EXCEPT !.bps = bps]
<1>2. /\ DOMAIN a = FieldNames
      /\ a.nc = f.nc /\ a.bps = bps /\ a.photo = f.photo /\ a.ori = 1 /\ a.exif = f.exif
      /\ a.iptc = f.iptc /\ a.xmp = f.xmp /\ a.ess = f.ess /\ a.loss = f.loss
  BY FieldsOfFile
<1>0. a.exif = f.exif => b = ReadTags(f)
  BY <1>2 DEF ReadTags, FieldNames
<1>1. m = ReadFieldsTiff(f, FALSE)
  <2>1. b = ReadTags(f)
    BY <1>0, <1>2
  <2> HIDE DEF b
  <2>2. c = ReadExif(b)
    BY DEF ReadExif
  <2> HIDE DEF c
  <2>3. d = ReadProfile(c)
    BY DEF ReadProfile
  <2> HIDE DEF d
  <2>4. ReadFieldsTiff(f, FALSE) = [p EXCEPT !.icc = icc, !.bps = bps]
    BY <2>1, <2>2, <2>3 DEF ReadFieldsTiff
  <2> HIDE DEF p, icc, bps
  <2> QED
    BY <2>4
<1> HIDE DEF a, e
<1>3. /\ DOMAIN b = FieldNames /\ b.ori = f.ori /\ b.exif = e /\ b.bps = a.bps /\ b.photo = a.photo /\ b.nc = a.nc
      /\ b.iptc = a.iptc /\ b.xmp = a.xmp /\ b.ess = a.ess /\ b.loss = a.loss
  BY <1>2 DEF FieldNames
<1> HIDE DEF b
<1>4. DOMAIN c = FieldNames /\ SameMeta(c, b) /\ c.photo = b.photo /\ c.nc = b.nc
  BY <1>3 DEF FieldNames, SameMeta
<1> HIDE DEF c, primaries
<1>5. DOMAIN d = FieldNames /\ SameMeta(d, c) /\ d.photo = c.photo /\ d.nc = c.nc
  BY <1>4, IccField
<1> HIDE DEF d
<1>6. /\ DOMAIN p = FieldNames /\ SameMeta(p, d)
      /\ p.photo # "palette" /\ (d.photo # "palette" => p.nc = d.nc)
  BY <1>5, PaletteFields
<1> HIDE DEF p, icc, bps
<1>7. DOMAIN q = FieldNames /\ SameMeta(q, p) /\ q.photo = p.photo /\ q.nc = p.nc
  BY <1>6, IccField
<1> HIDE DEF q
<1>8. DOMAIN m = FieldNames /\ SameMeta(m, q) /\ m.bps = bps /\ m.photo = q.photo /\ m.nc = q.nc
  BY <1>7, BpsField
<1> HIDE DEF m
<1> QED
  <2>1. m.ori = b.ori /\ m.exif = b.exif /\ m.iptc = b.iptc /\ m.xmp = b.xmp /\ m.ess = b.ess /\ m.loss = b.loss
    BY <1>4, <1>5, <1>6, <1>7, <1>8 DEF SameMeta
  <2>2. m.photo # "palette" /\ (f.photo # "palette" => m.nc = f.nc)
    BY <1>2, <1>3, <1>4, <1>5, <1>6, <1>7, <1>8
  <2>3. m.ori = f.ori /\ m.exif = e /\ m.iptc = f.iptc /\ m.xmp = f.xmp /\ m.ess = f.ess /\ m.loss = f.loss
    BY <1>2, <1>3, <2>1
  <2>4. Carries(m, f)
    BY <1>8, <2>2, <2>3 DEF Carries, bps
  <2> QED
    BY <1>1, <2>3, <2>4 DEF e

\* A JPEG: nothing behind XMP data without a wrapper, and what the Photoshop
\* marker adds where there was nothing.
LEMMA FieldsReadJpeg ==
  ASSUME NEW f, f.exif \in -1..8, f.blocks.exif \in -1..8, f.xmp \in XmpKinds, f.blocks.xmp \in XmpKinds
  PROVE  LET m == ReadFieldsJpeg(f)
             plain == f.blocks = NoBlocks
         IN  /\ m.bps = 8 /\ m.loss = f.loss /\ m.photo = f.photo /\ m.nc = f.nc
             /\ m.ori \in 1..8 /\ m.exif \in -1..8 /\ m.xmp \in XmpKinds
             /\ m.ess = IF f.xmp = "bare" THEN NoEssentials ELSE f.ess
             /\ plain => m.exif = f.exif /\ m.ori = (IF f.exif > 0 THEN f.exif ELSE 1)
             /\ plain /\ f.xmp # "bare" => (m.xmp = "none" <=> f.xmp = "none")
<1> DEFINE a == Fields(f)
           o == IF f.exif > 0 THEN f.exif ELSE 1
           i == [a EXCEPT !.bps = 8, !.iptc = FALSE, !.ori = o]
           x == IF f.xmp = "packet" THEN "bare" ELSE "none"
           n == [i EXCEPT !.xmp = "none", !.icc = "none", !.ess = NoEssentials]
           k == [i EXCEPT !.xmp = x]
           m == ReadFieldsJpeg(f)
<1>1. m = IF f.xmp = "bare" THEN n ELSE ParsePhotoshop(k, f.blocks)
  BY DEF ReadFieldsJpeg, ReadMarkers
<1>2. /\ DOMAIN a = FieldNames
      /\ a.nc = f.nc /\ a.photo = f.photo /\ a.exif = f.exif /\ a.ess = f.ess /\ a.loss = f.loss
  BY FieldsOfFile
<1>3. o \in 1..8
  OBVIOUS
<1>4. x \in {"bare", "none"} /\ (f.xmp # "bare" => (x = "none" <=> f.xmp = "none"))
  BY DEF XmpKinds
<1> HIDE DEF a, o, x
<1>5. /\ DOMAIN i = FieldNames /\ i.nc = f.nc /\ i.photo = f.photo /\ i.exif = f.exif /\ i.ess = f.ess /\ i.loss = f.loss
      /\ i.bps = 8 /\ i.ori = o
  BY <1>2 DEF FieldNames
<1> HIDE DEF i
<1>6. CASE f.xmp = "bare"
  <2>1. /\ n.nc = f.nc /\ n.photo = f.photo /\ n.exif = f.exif /\ n.ess = NoEssentials /\ n.loss = f.loss
        /\ n.bps = 8 /\ n.ori = o /\ n.xmp = "none"
    BY <1>5 DEF FieldNames
  <2>2. m = n
    BY <1>1, <1>6
  <2> HIDE DEF n, m
  <2>3. m.xmp \in XmpKinds
    BY <2>1, <2>2 DEF XmpKinds
  <2> QED
    BY <1>3, <1>6, <2>1, <2>2, <2>3 DEF o, m
<1>7. CASE f.xmp # "bare"
  <2>1. /\ DOMAIN k = FieldNames /\ k.nc = f.nc /\ k.photo = f.photo /\ k.exif = f.exif /\ k.ess = f.ess
        /\ k.loss = f.loss /\ k.bps = 8 /\ k.ori = o /\ k.xmp = x
    BY <1>5 DEF FieldNames
  <2>2. m = ParsePhotoshop(k, f.blocks)
    BY <1>1, <1>7
  <2> HIDE DEF k, m
  <2> DEFINE b == f.blocks
             exif == IF k.exif = -1 THEN b.exif ELSE k.exif
             ori == IF b.exif # -1 /\ exif > 0 THEN exif ELSE k.ori
             xmp == IF k.xmp = "none" THEN b.xmp ELSE k.xmp
             iptc == k.iptc \/ b.iptc
             icc == IF k.icc = "none" THEN b.icc ELSE k.icc
  <2>3. m = [k EXCEPT !.iptc = iptc, !.icc = icc, !.exif = exif, !.ori = ori, !.xmp = xmp]
    BY <2>1, <2>2 DEF ParsePhotoshop, FieldNames
  <2>4. exif \in -1..8 /\ ori \in 1..8 /\ xmp \in XmpKinds
    BY <1>3, <1>4, <2>1 DEF XmpKinds
  <2>5. b = NoBlocks => exif = f.exif /\ ori = o /\ xmp = x
    BY <2>1 DEF NoBlocks
  <2> HIDE DEF exif, ori, xmp, iptc, icc
  <2>6. /\ m.nc = f.nc /\ m.photo = f.photo /\ m.exif = exif /\ m.ess = f.ess /\ m.loss = f.loss
        /\ m.bps = 8 /\ m.ori = ori /\ m.xmp = xmp
    BY <2>1, <2>3 DEF FieldNames
  <2>7. b = NoBlocks => m.exif = f.exif /\ m.ori = o /\ m.xmp = x
    BY <2>5, <2>6
  <2> QED
    BY <1>4, <1>7, <2>4, <2>6, <2>7 DEF m, o
<1> QED
  BY <1>6, <1>7

\* The essentials that a reader finds are those of the file or none.
LEMMA EssentialsRead ==
  ASSUME NEW f
  PROVE  ReadFields(f, FALSE).ess \in {f.ess, NoEssentials}
<1>1. CASE f.fmt = "png"
  BY <1>1, FieldsReadPng DEF ReadFields, Carries
<1>2. CASE f.fmt = "jpg"
  <2> DEFINE m == ReadFieldsJpeg(f)
             i == [Fields(f) EXCEPT !.bps = 8, !.iptc = FALSE, !.ori = IF f.exif > 0 THEN f.exif ELSE 1]
             x == IF f.xmp = "packet" THEN "bare" ELSE "none"
             k == [i EXCEPT !.xmp = x]
  <2>1. DOMAIN Fields(f) = FieldNames /\ Fields(f).ess = f.ess
    BY FieldsOfFile
  <2>2. DOMAIN i = FieldNames /\ i.ess = f.ess
    BY <2>1 DEF FieldNames
  <2>3. m = IF f.xmp = "bare" THEN [i EXCEPT !.xmp = "none", !.icc = "none", !.ess = NoEssentials]
            ELSE ParsePhotoshop(k, f.blocks)
    BY DEF ReadFieldsJpeg, ReadMarkers
  <2> HIDE DEF i, x, m
  <2>4. DOMAIN k = FieldNames /\ k.ess = f.ess
    BY <2>2 DEF FieldNames
  <2> HIDE DEF k
  <2>5. ParsePhotoshop(k, f.blocks).ess = k.ess
    BY <2>4 DEF ParsePhotoshop, FieldNames
  <2>6. [i EXCEPT !.xmp = "none", !.icc = "none", !.ess = NoEssentials].ess = NoEssentials
    BY <2>2 DEF FieldNames
  <2>7. m.ess \in {f.ess, NoEssentials}
    BY <2>3, <2>4, <2>5, <2>6
  <2> QED
    BY <1>2, <2>7 DEF ReadFields, m
<1>3. CASE f.fmt = "tif"
  BY <1>3, FieldsReadTiff DEF ReadFields, Carries
<1>4. CASE f.fmt \notin {"png", "jpg", "tif"}
  BY <1>4, FieldsReadJ2k DEF ReadFields, Carries
<1> QED
  BY <1>1, <1>2, <1>3, <1>4

\* What the readers find fits an image.
LEMMA FieldsFit ==
  ASSUME NEW f, IsOriginal(f)
  PROVE  LET m == ReadFields(f, FALSE)
         IN  /\ m.ori \in 1..8 /\ m.exif \in -1..8 /\ m.xmp \in XmpKinds
             /\ m.bps = Bits(f, FALSE) /\ m.bps \in {8, 16} /\ m.photo # "palette" /\ IsSum(m.ess)
             /\ m.loss = f.loss /\ (f.photo # "palette" => m.nc = f.nc)
<1> DEFINE m == ReadFields(f, FALSE)
<1>1. /\ f.fmt \in {"png", "jpg", "tif", "jp2"} /\ f.ori \in 1..8 /\ f.exif \in -1..8 /\ f.blocks.exif \in -1..8
      /\ f.xmp \in XmpKinds /\ f.blocks.xmp \in XmpKinds
      /\ (f.fmt = "jpg" => f.bps = 8 /\ f.photo # "palette") /\ IsSum(f.ess)
  BY DEF IsOriginal, IsOwn, XmpKinds, IsSum
<1>2. Bits(f, FALSE) \in {8, 16} /\ (f.bps = 8 => Bits(f, FALSE) = 8)
  BY DEF Bits
<1>3. IsSum(NoEssentials)
  BY DEF IsSum, NoEssentials
<1>4. CASE f.fmt = "png"
  <2> DEFINE q == ReadFieldsPng(f, FALSE)
  <2>1. m = q
    BY <1>4 DEF ReadFields
  <2>2. Carries(q, f) /\ q.ori = 1 /\ q.exif = f.exif
    BY FieldsReadPng
  <2> HIDE DEF q, m
  <2>3. Carries(m, f) /\ m.ori \in 1..8 /\ m.exif \in -1..8
    BY <1>1, <2>1, <2>2
  <2> QED
    BY <1>1, <1>2, <2>3 DEF Carries, m
<1>5. CASE f.fmt = "jp2"
  <2> DEFINE q == ReadFieldsJ2k(f, FALSE)
  <2>1. m = q
    BY <1>5 DEF ReadFields
  <2>2. Carries(q, f) /\ q.ori = 1 /\ q.exif = f.exif
    BY FieldsReadJ2k
  <2> HIDE DEF q, m
  <2>3. Carries(m, f) /\ m.ori \in 1..8 /\ m.exif \in -1..8
    BY <1>1, <2>1, <2>2
  <2> QED
    BY <1>1, <1>2, <2>3 DEF Carries, m
<1>6. CASE f.fmt = "tif"
  <2> DEFINE q == ReadFieldsTiff(f, FALSE)
  <2>1. m = q
    BY <1>6 DEF ReadFields
  <2>2. Carries(q, f) /\ q.ori = f.ori /\ q.exif = IF f.exif = -1 THEN -1 ELSE 0
    BY FieldsReadTiff
  <2> HIDE DEF q, m
  <2>3. Carries(m, f) /\ m.ori \in 1..8 /\ m.exif \in -1..8
    BY <1>1, <2>1, <2>2
  <2> QED
    BY <1>1, <1>2, <2>3 DEF Carries, m
<1>7. CASE f.fmt = "jpg"
  <2> DEFINE q == ReadFieldsJpeg(f)
  <2>1. m = q
    BY <1>7 DEF ReadFields
  <2>2. /\ q.bps = 8 /\ q.loss = f.loss /\ q.photo = f.photo /\ q.nc = f.nc
        /\ q.ori \in 1..8 /\ q.exif \in -1..8 /\ q.xmp \in XmpKinds
        /\ q.ess \in {f.ess, NoEssentials}
    BY <1>1, FieldsReadJpeg
  <2> HIDE DEF q, m
  <2>3. IsSum(m.ess)
    BY <1>1, <1>3, <2>1, <2>2
  <2> QED
    BY <1>1, <1>2, <1>7, <2>1, <2>2, <2>3 DEF m
<1> QED
  BY <1>1, <1>4, <1>5, <1>6, <1>7

-----------------------------------------------------------------------------
(* The images that are read.                                               *)

MetaFits(m) ==
  /\ m.ori \in 1..8 /\ m.exif \in -1..8 /\ m.xmp \in XmpKinds
  /\ m.bps \in {8, 16} /\ m.photo # "palette" /\ IsSum(m.ess)

\* An image the script can have behind its handle.
ImageFitsServer(m) ==
  /\ DOMAIN m = ImageFields /\ Filled(m) /\ Side(m.nx) /\ Side(m.ny) /\ MetaFits(m)

LEMMA ImageWithFields ==
  ASSUME NEW nx, NEW ny, NEW px, NEW m
  PROVE  LET t == ImageWith(nx, ny, px, m)
         IN  /\ DOMAIN t = ImageFields /\ t.nx = nx /\ t.ny = ny /\ t.px = px
             /\ t.ori = m.ori /\ t.exif = m.exif /\ SameRest(t, m)
BY DEF ImageWith, ImageFields, SameRest

LEMMA ReadImageFits ==
  ASSUME NEW f, FileFits(f), NEW plan, Side(plan.nx), Side(plan.ny)
  PROVE  ImageFitsServer(ImageRead(f, plan))
<1> DEFINE m == ReadFields(f, FALSE)
           px == DoCrop(LevelPixels(f, plan.by), plan.x, plan.y, plan.w, plan.h)
           s == ImageWith(plan.w, plan.h, px, m)
           t == Scale(s, plan.nx, plan.ny)
<1>1. ImageRead(f, plan) = t
  BY DEF ImageRead, Scaling
<1>2. px = [p \in Grid(plan.w, plan.h) |-> px[p]]
  BY DEF DoCrop
<1>3. MetaFits(m)
  BY FieldsFit DEF FileFits, MetaFits
<1> HIDE DEF m, px
<1>4. /\ DOMAIN s = ImageFields /\ s.nx = plan.w /\ s.ny = plan.h /\ s.px = px
      /\ s.ori = m.ori /\ s.exif = m.exif /\ SameRest(s, m)
  BY ImageWithFields
<1> HIDE DEF s
<1>5. plan.nx \in Nat \ {0} /\ plan.ny \in Nat \ {0}
  BY DEF Side
<1>6. /\ DOMAIN t = ImageFields /\ t.nx = plan.nx /\ t.ny = plan.ny /\ Filled(t)
      /\ t.ori = s.ori /\ t.exif = s.exif /\ SameRest(t, s)
  BY <1>2, <1>4, <1>5, ScaleFields
<1> HIDE DEF t
<1>7. MetaFits(t)
  BY <1>3, <1>4, <1>6 DEF MetaFits, SameRest
<1>8. ImageFitsServer(t)
  BY <1>6, <1>7 DEF ImageFitsServer
<1> QED
  BY <1>1, <1>8

\* The whole of a region is the image.
LEMMA WholeArea ==
  ASSUME NEW r, r.type = "FULL", NEW red, NEW nx, NEW ny
  PROVE  LET c == Area(r, red, nx, ny) IN ~c.err /\ c.x = 0 /\ c.y = 0 /\ c.w = nx /\ c.h = ny
BY DEF Area

\* A plan that takes the whole file as it is.
WholeFile(p, f) ==
  /\ p.x = 0 /\ p.y = 0 /\ p.w = f.nx /\ p.h = f.ny /\ p.by = 1 /\ p.nx = f.nx /\ p.ny = f.ny

ReadsWhole(p, f) == p.err = "none" /\ (p.pixels = "asked" => WholeFile(p, f))

LEMMA WholeIsPlanned ==
  ASSUME NEW c, NEW f, c.x = 0, c.y = 0, c.w = f.nx, c.h = f.ny, NEW px
  PROVE  ReadsWhole(Plan("none", c, 1, c.w, c.h, px), f)
BY DEF Plan, ReadsWhole, WholeFile

LEMMA UndefinedIsPlanned ==
  ASSUME NEW c, NEW f, NEW by, NEW nx, NEW ny
  PROVE  ReadsWhole(Plan("none", c, by, nx, ny, "undefined"), f)
BY DEF Plan, ReadsWhole

\* Reading a whole file as it is fails for no file this server has stored,
\* and where it gives pixels, they are those of the file.
LEMMA WholeIsRead ==
  ASSUME SmallNumbers, NEW f, FileFits(f), NEW r, r.type = "FULL"
  PROVE  LET p == ReadPlan(f, r, NoSize, Unlimited, "high")
         IN  /\ p.err = "none" => ReadsWhole(p, f)
             /\ f.fmt # "tif" \/ f.tile = 0 \/ f.bps \in {8, 16} => ReadsWhole(p, f)
<1> DEFINE z == NoSize
           q == "high"
           p == ReadPlan(f, r, z, Unlimited, q)
           whole == ReadsWhole(p, f)
<1>1. z.type = "NONE" /\ AsItIs(z)
  BY NoSizeType DEF AsItIs
<1>2. f.nx \in Nat \ {0} /\ f.ny \in Nat \ {0} /\ f.fmt \in {"png", "jpg", "tif", "jp2"}
  BY DEF FileFits, IsOriginal
<1>3. CeilDiv(f.nx, 1) = f.nx /\ CeilDiv(f.ny, 1) = f.ny
  BY <1>2, CeilDivOne
<1> DEFINE c == Area(r, 1, f.nx, f.ny)
<1>4. ~c.err /\ c.x = 0 /\ c.y = 0 /\ c.w = f.nx /\ c.h = f.ny
  BY WholeArea
<1> HIDE DEF z, q
<1>5. CASE f.fmt = "png"
  <2> DEFINE o == GetSize(z, c.w, c.h, 0, FALSE, Unlimited)
             px == IF ReduceUndefined(o.reduce) THEN "undefined" ELSE Pixels(c, o.w, o.h, q)
  <2>1. p = IF c.err THEN Refused("iiif")
            ELSE IF z.type = "NONE" THEN Plan("none", c, 1, c.w, c.h, "asked")
            ELSE IF o.err THEN Refused("size")
            ELSE IF z.type = "FULL" /\ o.redonly THEN Plan("none", c, 1, c.w, c.h, "asked")
            ELSE Plan("none", c, 1, o.w, o.h, px)
    BY <1>5 DEF ReadPlan, ReadPng, SizedIn
  <2> HIDE DEF c, o, px, p
  <2>2. whole
    BY <1>1, <1>4, <2>1, WholeIsPlanned
  <2> HIDE DEF whole
  <2> QED
    BY <2>2 DEF whole, p, z, q
<1>6. CASE f.fmt = "jpg"
  <2> DEFINE o == GetSize(z, c.w, c.h, 0, FALSE, Unlimited)
             all == r.type = "FULL"
             e == IF all THEN o.reduce ELSE 1
             d == [c EXCEPT !.w = DecodedExtent(@, o.reduce), !.h = DecodedExtent(@, o.reduce)]
  <2>1. p = IF c.err THEN Refused("iiif")
            ELSE IF ~all /\ z.type = "NONE" THEN Plan("none", c, 1, c.w, c.h, "undefined")
            ELSE IF o.err /\ (~all \/ ~AsItIs(z)) THEN Refused("size")
            ELSE IF AsItIs(z) THEN Plan("none", c, 1, c.w, c.h, "asked")
            ELSE IF ~all THEN Plan("none", c, e, o.w, o.h, Pixels(c, o.w, o.h, q))
            ELSE Plan("none", d, e, o.w, o.h, Pixels(d, o.w, o.h, q))
    BY <1>6 DEF ReadPlan, ReadJpeg, SizedIn
  <2>3. all
    OBVIOUS
  <2> HIDE DEF c, o, e, d, p, all
  <2>2. whole
    BY <1>1, <1>4, <2>1, <2>3, WholeIsPlanned
  <2> HIDE DEF whole
  <2> QED
    BY <2>2 DEF whole, p, z, q
<1>7. CASE f.fmt = "tif"
  <2> DEFINE odd == f.tile > 0 /\ f.bps \notin {8, 16}
             by == f.levels[1]
             a == Area(r, 1, CeilDiv(f.nx, by), CeilDiv(f.ny, by))
             o == GetSize(z, a.w, a.h, 0, FALSE, Unlimited)
             found == IF f.tile > 0 THEN ReadTiledData(f, a) ELSE ReadStandardData(f, a)
             px == IF found = "asked" THEN Pixels(a, o.w, o.h, q) ELSE found
  <2>1. CASE Len(f.levels) = 1
    <3>1. p = IF a.err THEN Refused("iiif")
              ELSE IF odd THEN Refused("image")
              ELSE IF z.type # "NONE" /\ o.err THEN Refused("size")
              ELSE IF AsItIs(z) THEN Plan("none", a, by, a.w, a.h, found)
              ELSE Plan("none", a, by, o.w, o.h, px)
      BY <1>7, <2>1 DEF ReadPlan, ReadTiff, ReadLevel, SizedIn
    <3>2. by = 1
      BY <1>7 DEF FileFits, IsOriginal
    <3>3. a = c
      BY <1>3, <3>2
    <3> HIDE DEF c, a, o, found, px, p, by
    <3>4. ~odd => whole
      BY <1>1, <1>4, <3>1, <3>2, <3>3, WholeIsPlanned
    <3>5. odd => p.err # "none"
      BY <1>4, <3>1, <3>3, RefusedErrors
    <3>6. f.tile = 0 \/ f.bps \in {8, 16} => ~odd
      OBVIOUS
    <3> HIDE DEF odd, whole
    <3> QED
      BY <1>7, <3>4, <3>5, <3>6 DEF whole, p, z, q
  <2>2. CASE Len(f.levels) # 1
    <3> DEFINE k == CropCoords(r, 1, f.nx, f.ny)
               s == GetSize(z, k.w, k.h, 1, FALSE, Unlimited)
               l == ReadLevel(f, r, z, Unlimited, q, Level(f, s.reduce), s.reduce)
    <3>1. p = IF k.err THEN Refused("iiif")
              ELSE IF z.type = "NONE" THEN Plan("none", k, 1, k.w, k.h, "undefined")
              ELSE IF s.err THEN Refused("size") ELSE l
      BY <1>7, <2>2, Zenon DEF ReadPlan, ReadTiff, SizedIn
    <3>2. ~k.err
      <4>1. Corner(r, 1, f.nx, f.ny) = <<0, 0, f.nx, f.ny>>
        BY DEF Corner
      <4>2. FittingCorner(Corner(r, 1, f.nx, f.ny))
        BY <4>1, SidesFit, ZeroFits DEF FittingCorner, FileFits
      <4>3. c = k
        BY <1>2, <4>2, AreaIsCrop
      <4> HIDE DEF c, k
      <4> QED
        BY <1>4, <4>3
    <3> HIDE DEF k, s, l, p
    <3>3. whole
      BY <1>1, <3>1, <3>2, UndefinedIsPlanned
    <3> HIDE DEF whole
    <3> QED
      BY <3>3 DEF whole, p, z, q
  <2> QED
    BY <2>1, <2>2
<1>8. CASE f.fmt = "jp2"
  <2> DEFINE o == GetSize(z, c.w, c.h, Len(f.levels), TRUE, Unlimited)
             by == Min({b \in Powers : b >= o.reduce})
             d == Dropped(c, by)
             e == Outcome(FALSE, c.w, c.h, 1, TRUE)
             deep == by > 2^Len(f.levels)
             none == 1 > 2^Len(f.levels)
  <2>0. p = ReadJ2k(f, r, z, Unlimited, q)
    BY <1>8 DEF ReadPlan
  <2>1. ReadJ2k(f, r, z, Unlimited, q) =
          IF c.err THEN Refused("image")
          ELSE IF AsItIs(z)
               THEN IF none \/ c.w = 0 \/ c.h = 0 THEN Plan("none", c, 1, e.w, e.h, "undefined")
                    ELSE IF e.redonly THEN Plan("none", c, 1, c.w, c.h, "asked")
                    ELSE Plan("none", c, 1, e.w, e.h, Pixels(c, e.w, e.h, q))
          ELSE IF o.err THEN Refused("size")
          ELSE IF deep \/ d.w = 0 \/ d.h = 0 THEN Plan("none", d, by, o.w, o.h, "undefined")
          ELSE IF o.redonly THEN Plan("none", d, by, d.w, d.h, "asked")
          ELSE Plan("none", d, by, o.w, o.h, Pixels(d, o.w, o.h, q))
    BY Zenon DEF ReadJ2k, SizedIn
  <2>2. e.redonly
    BY DEF Outcome
  <2> HIDE DEF c, o, by, d, e, deep, none, p
  <2>3. p = Plan("none", c, 1, e.w, e.h, "undefined") \/ p = Plan("none", c, 1, c.w, c.h, "asked")
    BY <1>1, <1>4, <2>0, <2>1, <2>2
  <2>4. whole
    BY <1>4, <2>3, WholeIsPlanned, UndefinedIsPlanned
  <2> HIDE DEF whole
  <2> QED
    BY <2>4 DEF whole, p, z, q
<1> QED
  BY <1>2, <1>5, <1>6, <1>7, <1>8

\* At the factor 1 each pixel is its own mean.
LEMMA WholePixels ==
  ASSUME NEW f, f.nx \in Nat, f.ny \in Nat, f.px = [p \in Grid(f.nx, f.ny) |-> f.px[p]]
  PROVE  LevelPixels(f, 1) = f.px
<1> DEFINE At(i) == IF f.fmt = "jpg" THEN (i * CeilDiv(8, 1)) \div 8 ELSE i \div 1
           Extent1(n) == IF f.fmt = "jpg" THEN DecodedExtent(n, 1) ELSE CeilDiv(n, 1)
<1>1. CeilDiv(8, 1) = 8
  BY CeilDivOne
<1>2. ASSUME NEW n \in Nat PROVE At(n) = n /\ Extent1(n) = n
  <2>1. (n * 8) \div 8 = n /\ n \div 1 = n
    OBVIOUS
  <2>2. CeilDiv(n, 1) = n
    BY CeilDivOne
  <2>3. CeilDiv(n * 8, 8) = n
    BY DEF CeilDiv
  <2>4. DecodedExtent(n, 1) = n
    BY <1>1, <2>3 DEF DecodedExtent
  <2> QED
    BY <1>1, <2>1, <2>2, <2>4
<1> DEFINE nx == f.nx
           ny == f.ny
           px == f.px
<1>3. LevelPixels(f, 1) =
        [p \in Grid(Extent1(nx), Extent1(ny)) |->
            UNION {px[q] : q \in {q \in Grid(nx, ny) : At(q[1]) = p[1] /\ At(q[2]) = p[2]}}]
  BY DEF LevelPixels
<1> HIDE DEF At, Extent1
<1>4. nx \in Nat /\ ny \in Nat /\ px = [p \in Grid(nx, ny) |-> px[p]]
  OBVIOUS
<1> HIDE DEF nx, ny, px
<1>5. Extent1(nx) = nx /\ Extent1(ny) = ny
  BY <1>2, <1>4
<1>6. ASSUME NEW p \in Grid(nx, ny)
      PROVE  UNION {px[q] : q \in {q \in Grid(nx, ny) : At(q[1]) = p[1] /\ At(q[2]) = p[2]}} = px[p]
  <2>1. ASSUME NEW q \in Grid(nx, ny) PROVE At(q[1]) = q[1] /\ At(q[2]) = q[2]
    <3>1. q[1] \in Nat /\ q[2] \in Nat
      BY <1>4 DEF Grid
    <3> QED
      BY <1>2, <3>1
  <2>2. {q \in Grid(nx, ny) : q[1] = p[1] /\ q[2] = p[2]} = {p}
    BY DEF Grid
  <2>3. {q \in Grid(nx, ny) : At(q[1]) = p[1] /\ At(q[2]) = p[2]} = {p}
    BY <2>1, <2>2
  <2>4. {px[q] : q \in {p}} = {px[p]} /\ UNION {px[p]} = px[p]
    OBVIOUS
  <2> QED
    BY <2>3, <2>4
<1>7. [p \in Grid(nx, ny) |-> UNION {px[q] : q \in {q \in Grid(nx, ny) : At(q[1]) = p[1] /\ At(q[2]) = p[2]}}]
        = [p \in Grid(nx, ny) |-> px[p]]
  BY <1>6
<1>8. LevelPixels(f, 1) = px
  BY <1>3, <1>4, <1>5, <1>7
<1> QED
  BY <1>8 DEF px

\* A crop that takes the whole changes nothing.
LEMMA WholeCrop ==
  ASSUME NEW nx \in Nat, NEW ny \in Nat, NEW px, px = [p \in Grid(nx, ny) |-> px[p]]
  PROVE  DoCrop(px, 0, 0, nx, ny) = px
<1>1. ASSUME NEW p \in Grid(nx, ny) PROVE <<p[1] + 0, p[2] + 0>> = p
  BY DEF Grid
<1>2. [p \in Grid(nx, ny) |-> px[<<p[1] + 0, p[2] + 0>>]] = [p \in Grid(nx, ny) |-> px[p]]
  BY <1>1
<1> QED
  BY <1>2 DEF DoCrop

LEMMA WholeImage ==
  ASSUME NEW f, FileFits(f), NEW plan, WholeFile(plan, f)
  PROVE  ImageRead(f, plan) = ImageWith(f.nx, f.ny, f.px, ReadFields(f, FALSE))
<1>1. f.nx \in Nat /\ f.ny \in Nat /\ f.px = [p \in Grid(f.nx, f.ny) |-> f.px[p]]
  BY DEF FileFits, IsOriginal
<1>2. LevelPixels(f, 1) = f.px
  BY <1>1, WholePixels
<1>3. DoCrop(f.px, 0, 0, f.nx, f.ny) = f.px
  <2> DEFINE nx == f.nx
             ny == f.ny
             px == f.px
  <2>1. nx \in Nat /\ ny \in Nat /\ px = [p \in Grid(nx, ny) |-> px[p]]
    BY <1>1
  <2> HIDE DEF nx, ny, px
  <2>2. DoCrop(px, 0, 0, nx, ny) = px
    BY <2>1, WholeCrop
  <2> QED
    BY <2>2 DEF nx, ny, px
<1> DEFINE m == ReadFields(f, FALSE)
           s == ImageWith(f.nx, f.ny, f.px, m)
<1>4. s.nx = f.nx /\ s.ny = f.ny
  BY DEF ImageWith
<1>5. ImageRead(f, plan) = Scale(s, f.nx, f.ny)
  BY <1>2, <1>3 DEF ImageRead, Scaling, WholeFile
<1> HIDE DEF s
<1>6. ImageRead(f, plan) = s
  BY <1>4, <1>5 DEF Scale, Resampled, SameExtent
<1> QED
  BY <1>6 DEF s, m

-----------------------------------------------------------------------------
(* The images that are made of an image.                                   *)

\* All but the samples' number and meaning.
SamePicture(t, m) ==
  /\ DOMAIN t = ImageFields /\ t.nx = m.nx /\ t.ny = m.ny /\ t.px = m.px
  /\ t.ori = m.ori /\ t.exif = m.exif /\ t.iptc = m.iptc /\ t.xmp = m.xmp /\ t.ess = m.ess

LEMMA SameOne == ASSUME NEW m, DOMAIN m = ImageFields PROVE SamePicture(m, m)
BY DEF SamePicture

LEMMA SamePictureFits ==
  ASSUME NEW m, ImageFitsServer(m), NEW t, SamePicture(t, m), t.bps \in {8, 16}, t.photo # "palette"
  PROVE  ImageFitsServer(t)
BY DEF ImageFitsServer, SamePicture, MetaFits, Filled

LEMMA CroppedFits ==
  ASSUME NEW m, ImageFitsServer(m), NEW c, Inside(c, m.nx, m.ny)
  PROVE  ImageFitsServer([m EXCEPT !.nx = c.w, !.ny = c.h, !.px = DoCrop(@, c.x, c.y, c.w, c.h)])
<1> DEFINE px == DoCrop(m.px, c.x, c.y, c.w, c.h)
           w == c.w
           h == c.h
           t == [m EXCEPT !.nx = w, !.ny = h, !.px = px]
<1>1. Side(w) /\ Side(h)
  BY InsideSides DEF ImageFitsServer
<1>2. px = [p \in Grid(w, h) |-> px[p]]
  BY DEF DoCrop
<1>3. t = [m EXCEPT !.nx = c.w, !.ny = c.h, !.px = DoCrop(@, c.x, c.y, c.w, c.h)]
  BY DEF ImageFitsServer, ImageFields
<1> HIDE DEF px, w, h
<1>4. /\ DOMAIN t = ImageFields /\ t.nx = w /\ t.ny = h /\ t.px = px
      /\ t.ori = m.ori /\ t.exif = m.exif /\ SameRest(t, m)
  BY DEF ImageFitsServer, ImageFields, SameRest
<1> HIDE DEF t
<1>5. Filled(t)
  BY <1>1, <1>2, <1>4 DEF Filled, Side
<1>6. MetaFits(t)
  BY <1>4 DEF ImageFitsServer, MetaFits, SameRest
<1>7. ImageFitsServer(t)
  BY <1>1, <1>4, <1>5, <1>6 DEF ImageFitsServer
<1> QED
  BY <1>3, <1>7

LEMMA ScaledFits ==
  ASSUME NEW m, ImageFitsServer(m), NEW w, NEW h, Side(w), Side(h)
  PROVE  ImageFitsServer(Scale(m, w, h))
<1> DEFINE t == Scale(m, w, h)
<1>1. /\ DOMAIN t = ImageFields /\ t.nx = w /\ t.ny = h /\ Filled(t)
      /\ t.ori = m.ori /\ t.exif = m.exif /\ SameRest(t, m)
  BY ScaleFields DEF ImageFitsServer, Filled, Side
<1> HIDE DEF t
<1>2. MetaFits(t)
  BY <1>1 DEF ImageFitsServer, MetaFits, SameRest
<1>3. ImageFitsServer(t)
  BY <1>1, <1>2 DEF ImageFitsServer
<1> QED
  BY <1>3 DEF t

LEMMA MirroredFits ==
  ASSUME NEW m, ImageFitsServer(m)
  PROVE  ImageFitsServer(Mirror(m))
<1> DEFINE t == Mirror(m)
<1>1. /\ DOMAIN t = ImageFields /\ t.nx = m.nx /\ t.ny = m.ny
      /\ t.px = [p \in Grid(m.nx, m.ny) |-> m.px[<<m.nx - 1 - p[1], p[2]>>]]
      /\ t.ori = m.ori /\ t.exif = m.exif /\ SameRest(t, m)
  BY MirrorFields DEF ImageFitsServer
<1> HIDE DEF t
<1>2. Filled(t)
  BY <1>1 DEF Filled, ImageFitsServer
<1>3. MetaFits(t)
  BY <1>1 DEF ImageFitsServer, MetaFits, SameRest
<1>4. ImageFitsServer(t)
  BY <1>1, <1>2, <1>3 DEF ImageFitsServer
<1> QED
  BY <1>4 DEF t

LEMMA TurnedFits ==
  ASSUME NEW m, ImageFitsServer(m), NEW angle
  PROVE  ImageFitsServer(Turn(m, angle))
<1>1. DOMAIN m = ImageFields /\ Side(m.nx) /\ Side(m.ny) /\ m.nx \in Nat \ {0} /\ m.ny \in Nat \ {0} /\ MetaFits(m)
  BY DEF ImageFitsServer, Side
<1>2. ASSUME NEW t, DOMAIN t = ImageFields, Side(t.nx), Side(t.ny), t.px = [p \in Grid(t.nx, t.ny) |-> t.px[p]],
             t.ori = m.ori, t.exif = m.exif, SameRest(t, m)
      PROVE  ImageFitsServer(t)
  <2>1. Filled(t)
    BY <1>2 DEF Filled, Side
  <2>2. MetaFits(t)
    BY <1>1, <1>2 DEF MetaFits, SameRest
  <2> QED
    BY <1>2, <2>1, <2>2 DEF ImageFitsServer
<1>3. CASE angle = 90
  <2> DEFINE t == Turn(m, 90)
  <2> DEFINE px == [p \in Grid(m.ny, m.nx) |-> m.px[<<p[2], m.ny - 1 - p[1]>>]]
  <2>1. /\ DOMAIN t = ImageFields /\ t.nx = m.ny /\ t.ny = m.nx /\ t.px = px
        /\ t.ori = m.ori /\ t.exif = m.exif /\ SameRest(t, m)
    BY <1>1, Turn90Fields
  <2>2. px = [p \in Grid(m.ny, m.nx) |-> px[p]]
    OBVIOUS
  <2> HIDE DEF t, px
  <2>3. ImageFitsServer(t)
    BY <1>1, <1>2, <2>1, <2>2
  <2> QED
    BY <1>3, <2>3 DEF t
<1>4. CASE angle = 180
  <2> DEFINE t == Turn(m, 180)
  <2> DEFINE px == [p \in Grid(m.nx, m.ny) |-> m.px[<<m.nx - 1 - p[1], m.ny - 1 - p[2]>>]]
  <2>1. /\ DOMAIN t = ImageFields /\ t.nx = m.nx /\ t.ny = m.ny /\ t.px = px
        /\ t.ori = m.ori /\ t.exif = m.exif /\ SameRest(t, m)
    BY <1>1, Turn180Fields
  <2>2. px = [p \in Grid(m.nx, m.ny) |-> px[p]]
    OBVIOUS
  <2> HIDE DEF t, px
  <2>3. ImageFitsServer(t)
    BY <1>1, <1>2, <2>1, <2>2
  <2> QED
    BY <1>4, <2>3 DEF t
<1>5. CASE angle = 270
  <2> DEFINE t == Turn(m, 270)
  <2> DEFINE px == [p \in Grid(m.ny, m.nx) |-> m.px[<<m.nx - 1 - p[2], p[1]>>]]
  <2>1. /\ DOMAIN t = ImageFields /\ t.nx = m.ny /\ t.ny = m.nx /\ t.px = px
        /\ t.ori = m.ori /\ t.exif = m.exif /\ SameRest(t, m)
    BY <1>1, Turn270Fields
  <2>2. px = [p \in Grid(m.ny, m.nx) |-> px[p]]
    OBVIOUS
  <2> HIDE DEF t, px
  <2>3. ImageFitsServer(t)
    BY <1>1, <1>2, <2>1, <2>2
  <2> QED
    BY <1>5, <2>3 DEF t
<1>6. CASE angle \notin {90, 180, 270}
  BY <1>6, OtherTurn
<1> QED
  BY <1>3, <1>4, <1>5, <1>6

LEMMA RotatedFits ==
  ASSUME NEW m, ImageFitsServer(m), NEW angle, NEW mirror \in BOOLEAN
  PROVE  ImageFitsServer(Rotate(m, angle, mirror))
BY MirroredFits, TurnedFits DEF Rotate

LEMMA UprightFits ==
  ASSUME NEW m, ImageFitsServer(m)
  PROVE  ImageFitsServer(SetTopleft(m))
<1> DEFINE t == SetTopleft(m)
<1>1. DOMAIN m = ImageFields /\ Side(m.nx) /\ Side(m.ny) /\ m.nx \in Nat \ {0} /\ m.ny \in Nat \ {0} /\ MetaFits(m)
      /\ m.ori \in 1..8 /\ m.exif \in -1..8
  BY DEF ImageFitsServer, Side, MetaFits
<1>2. /\ DOMAIN t = ImageFields /\ SameRest(t, m) /\ t.ori = 1 /\ t.exif \in {m.exif, 1}
      /\ m.ori # 1 => t.px = [p \in Grid(t.nx, t.ny) |-> t.px[p]]
      /\ m.ori = 1 => t = m
      /\ <<t.nx, t.ny>> \in {<<m.nx, m.ny>>, <<m.ny, m.nx>>}
  BY <1>1, TopleftFields
<1> HIDE DEF t
<1>3. CASE m.ori = 1
  BY <1>2, <1>3 DEF t
<1>4. CASE m.ori # 1
  <2>1. Side(t.nx) /\ Side(t.ny)
    BY <1>1, <1>2
  <2>2. Filled(t)
    BY <1>2, <1>4, <2>1 DEF Filled, Side
  <2>3. MetaFits(t)
    BY <1>1, <1>2 DEF MetaFits, SameRest
  <2>4. ImageFitsServer(t)
    BY <1>2, <2>1, <2>2, <2>3 DEF ImageFitsServer
  <2> QED
    BY <2>4 DEF t
<1> QED
  BY <1>3, <1>4

LEMMA WatermarkedFits ==
  ASSUME NEW m, ImageFitsServer(m)
  PROVE  ImageFitsServer(AddWatermark(m))
<1> DEFINE t == AddWatermark(m)
<1>1. SamePicture(t, m) /\ t.bps = m.bps /\ t.photo = m.photo
  BY DEF AddWatermark, ImageFitsServer, ImageFields, SamePicture
<1> HIDE DEF t
<1>2. ImageFitsServer(t)
  BY <1>1, SamePictureFits DEF ImageFitsServer, MetaFits
<1> QED
  BY <1>2 DEF t

-----------------------------------------------------------------------------
(* The files that are written.                                             *)

FileFields == {"fmt", "nx", "ny", "px", "nc", "es", "bps", "photo", "icc", "bw", "ori", "exif", "gps", "iptc",
               "xmp", "ess", "loss", "planar", "packed", "tile", "levels", "blocks"}

\* The file holds the picture of the image and what its format can keep of
\* the metadata.
Holds(f, fmt, m) ==
  /\ f.fmt = fmt /\ f.nx = m.nx /\ f.ny = m.ny /\ f.px = m.px
  /\ f.ori = 1 /\ f.exif = (IF fmt = "tif" /\ m.exif # -1 THEN 0 ELSE m.exif)
  /\ f.xmp = m.xmp /\ f.ess = m.ess /\ f.blocks = NoBlocks
  /\ fmt # "jpg" => f.iptc = m.iptc /\ f.loss = m.loss

\* What the format itself asks of a file.
FormatFits(f) ==
  /\ f.fmt \in {"png", "jpg", "tif", "jp2"} /\ f.photo # "palette"
  /\ f.levels \in Seq(Nat \ {0}) /\ Len(f.levels) <= 32
  /\ f.fmt = "tif" => f.levels # <<>> /\ f.levels[1] = 1
  /\ f.fmt = "jpg" => f.bps = 8
  /\ f.tile = 0 \/ f.bps \in {8, 16}

LEMMA HeldFits ==
  ASSUME NEW m, ImageFitsServer(m), NEW f, DOMAIN f = FileFields, NEW fmt, Holds(f, fmt, m), FormatFits(f)
  PROVE  FileFits(f)
<1>1. /\ f.nx = m.nx /\ f.ny = m.ny /\ f.px = m.px /\ f.ori = 1 /\ f.exif \in {0, m.exif}
      /\ f.xmp = m.xmp /\ f.ess = m.ess /\ f.blocks = NoBlocks
  BY DEF Holds
<1>2. /\ m.nx \in Nat \ {0} /\ m.ny \in Nat \ {0} /\ m.px = [p \in Grid(m.nx, m.ny) |-> m.px[p]]
      /\ m.exif \in -1..8 /\ m.xmp \in XmpKinds /\ IsSum(m.ess) /\ Side(m.nx) /\ Side(m.ny)
  BY DEF ImageFitsServer, Filled, MetaFits
<1>3. f.blocks.exif = -1 /\ f.blocks.xmp = "none"
  BY <1>1 DEF NoBlocks
<1>4. {f.xmp, f.blocks.xmp} \subseteq {"none", "packet", "bare"}
  BY <1>1, <1>2, <1>3 DEF XmpKinds
<1>5. f.ess.set => IsOwn(f)
  BY <1>1, <1>2 DEF IsSum, IsOwn, FormatFits
<1>6. f.ori \in 1..8 /\ f.exif \in -1..8 /\ f.blocks.exif \in -1..8
  BY <1>1, <1>2, <1>3
<1>7. f.nx \in Nat \ {0} /\ f.ny \in Nat \ {0} /\ f.px = [p \in Grid(f.nx, f.ny) |-> f.px[p]]
  BY <1>1, <1>2
<1>8. IsOriginal(f)
  BY <1>4, <1>5, <1>6, <1>7 DEF IsOriginal, FormatFits, FileFields
<1> QED
  BY <1>1, <1>2, <1>8 DEF FileFits

LEMMA StoredFields ==
  ASSUME NEW m, NEW fmt
  PROVE  LET f == Stored(m, fmt)
         IN  /\ DOMAIN f = FileFields /\ f.fmt = fmt /\ f.nx = m.nx /\ f.ny = m.ny /\ f.px = m.px
             /\ f.ori = 1 /\ f.exif = m.exif /\ f.xmp = m.xmp /\ f.ess = m.ess /\ f.blocks = NoBlocks
             /\ f.iptc = m.iptc /\ f.loss = m.loss /\ f.bps = m.bps /\ f.photo = m.photo
             /\ f.tile = 0 /\ f.levels = <<1>>
BY DEF Stored, FileFields

LEMMA OneLevel == <<1>> \in Seq(Nat \ {0}) /\ Len(<<1>>) <= 32 /\ <<1>> # <<>> /\ <<1>>[1] = 1
OBVIOUS

\* What comes of an attempt to write an image.
WellWritten(w, fmt, m) ==
  /\ ImageFitsServer(w.im)
  /\ w.err => w.file = Untouched \/ Broken(w.file)
  /\ ~w.err => FileFits(w.file) /\ Holds(w.file, fmt, m)

LEMMA FailedFits ==
  ASSUME NEW b, ImageFitsServer(b), NEW fmt, NEW m
  PROVE  WellWritten(Failed(b), fmt, m)
<1> DEFINE f == Stored(b, "broken")
           g == [f EXCEPT !.px = <<>>, !.nx = 0, !.ny = 0]
<1>1. DOMAIN f = FileFields /\ f.fmt = "broken" /\ f.ess = b.ess
  BY StoredFields
<1>2. BrokenFile(b) = g
  BY DEF BrokenFile
<1> HIDE DEF f
<1>3. g.fmt = "broken" /\ g.nx = 0 /\ g.ess = b.ess
  BY <1>1 DEF FileFields
<1>4. IsSum(b.ess)
  BY DEF ImageFitsServer, MetaFits
<1>5. Broken(BrokenFile(b))
  BY <1>2, <1>3, <1>4 DEF Broken
<1>6. Failed(b) = [err |-> TRUE, im |-> b, file |-> BrokenFile(b)]
  BY DEF Failed
<1> QED
  BY <1>5, <1>6 DEF WellWritten

LEMMA FailedBeforeFits ==
  ASSUME NEW b, ImageFitsServer(b), NEW fmt, NEW m
  PROVE  WellWritten(FailedBefore(b), fmt, m)
BY DEF FailedBefore, WellWritten

LEMMA WroteFits ==
  ASSUME NEW m, ImageFitsServer(m), NEW b, ImageFitsServer(b), NEW f, DOMAIN f = FileFields,
         NEW fmt, Holds(f, fmt, m), FormatFits(f)
  PROVE  WellWritten(Wrote(b, f), fmt, m)
<1>1. FileFits(f)
  BY HeldFits
<1>2. Wrote(b, f) = [err |-> FALSE, im |-> b, file |-> f]
  BY DEF Wrote
<1> QED
  BY <1>1, <1>2 DEF WellWritten

\* What the writers do to the samples before.
Recoded(c, m) ==
  ~c.err => /\ SamePicture(c.im, m) /\ c.im.loss = m.loss
            /\ c.im.bps \in {8, 16} /\ c.im.photo # "palette"

LEMMA DoneIsRecoded ==
  ASSUME NEW m, ImageFitsServer(m)
  PROVE  Recoded(Done(m), m) /\ ~Done(m).err /\ Done(m).im = m
BY SameOne DEF Done, Recoded, ImageFitsServer, MetaFits

LEMMA ConvertedIsRecoded ==
  ASSUME NEW m, ImageFitsServer(m), NEW bps \in {8, 16}
  PROVE  Recoded(ConvertToIcc(m, "sRGB", bps), m) /\ (~ConvertToIcc(m, "sRGB", bps).err => ConvertToIcc(m, "sRGB", bps).im.bps = bps)
<1> DEFINE c == ConvertToIcc(m, "sRGB", bps)
           nc == IF "sRGB" = "gray" THEN 1 ELSE 3
           bw == m.bw /\ "sRGB" = "gray" /\ m.photo = "gray"
           t == [m EXCEPT !.icc = "sRGB", !.bps = bps, !.photo = "rgb", !.nc = nc, !.bw = bw]
<1>1. IccSpace("sRGB") = "rgb"
  BY DEF IccSpace
<1>2. c = NoImage \/ c = Done(t)
  BY <1>1 DEF ConvertToIcc
<1>3. SamePicture(t, m) /\ t.loss = m.loss /\ t.bps = bps /\ t.photo = "rgb"
  <2> HIDE DEF nc, bw
  <2> QED
    BY DEF ImageFitsServer, ImageFields, SamePicture
<1> HIDE DEF t, c
<1>4. NoImage.err /\ ~Done(t).err /\ Done(t).im = t
  BY DEF NoImage, Done
<1>5. Recoded(c, m) /\ (~c.err => c.im.bps = bps)
  BY <1>2, <1>3, <1>4 DEF Recoded
<1> QED
  BY <1>5 DEF c

LEMMA RemovedIsRecoded ==
  ASSUME NEW m, ImageFitsServer(m), NEW chan
  PROVE  Recoded(RemoveChan(m, chan), m) /\ (~RemoveChan(m, chan).err => RemoveChan(m, chan).im.bps = m.bps)
<1> DEFINE c == RemoveChan(m, chan)
           nc == m.nc - 1
           es == IF m.es = 0 \/ m.nc < 3 THEN 0 ELSE m.es - 1
           t == [m EXCEPT !.nc = nc, !.es = es]
<1>2. c = NoImage \/ c = Done(t)
  BY DEF RemoveChan
<1>3. SamePicture(t, m) /\ t.loss = m.loss /\ t.bps = m.bps /\ t.photo = m.photo
  <2> HIDE DEF nc, es
  <2> QED
    BY DEF ImageFitsServer, ImageFields, SamePicture
<1> HIDE DEF t, c
<1>4. NoImage.err /\ ~Done(t).err /\ Done(t).im = t
  BY DEF NoImage, Done
<1>5. Recoded(c, m) /\ (~c.err => c.im.bps = m.bps)
  BY <1>2, <1>3, <1>4 DEF Recoded, ImageFitsServer, MetaFits
<1> QED
  BY <1>5 DEF c

LEMMA RecodedFits ==
  ASSUME NEW m, ImageFitsServer(m), NEW c, Recoded(c, m), ~c.err
  PROVE  ImageFitsServer(c.im)
BY SamePictureFits DEF Recoded

LEMMA PngWritten ==
  ASSUME NEW m, ImageFitsServer(m)
  PROVE  WellWritten(WritePng(m), "png", m)
<1> DEFINE c == IF m.nc = 4 /\ m.es # 1 THEN ConvertToIcc(m, "sRGB", 8)
                ELSE IF m.icc = "lab" THEN ConvertToIcc(m, "sRGB", m.bps) ELSE Done(m)
           bad == c.err \/ m.nc > 4 \/ (m.nc = 2 /\ m.es # 1)
           s == Stored(c.im, "png")
           es == IF c.im.nc \in {2, 4} THEN 1 ELSE 0
           f == [s EXCEPT !.es = es]
           w == WritePng(m)
<1>1. w = IF bad THEN Failed(m) ELSE Wrote(c.im, f)
  BY Zenon DEF WritePng
<1>2. Recoded(c, m)
  <2>1. m.bps \in {8, 16}
    BY DEF ImageFitsServer, MetaFits
  <2>2. Recoded(ConvertToIcc(m, "sRGB", 8), m) /\ Recoded(ConvertToIcc(m, "sRGB", m.bps), m)
    BY <2>1, ConvertedIsRecoded
  <2> QED
    BY <2>2, DoneIsRecoded
<1>3. bad \/ ~c.err
  OBVIOUS
<1> HIDE DEF c, bad, es, w
<1>4. CASE bad
  <2>1. WellWritten(w, "png", m)
    BY <1>1, <1>4, FailedFits
  <2> QED
    BY <2>1 DEF w
<1>5. CASE ~bad
  <2>1. ~c.err
    BY <1>3, <1>5
  <2>2. SamePicture(c.im, m) /\ c.im.loss = m.loss /\ c.im.bps \in {8, 16} /\ c.im.photo # "palette"
    BY <1>2, <2>1 DEF Recoded
  <2>3. ImageFitsServer(c.im)
    BY <1>2, <2>1, RecodedFits
  <2> DEFINE i == c.im
  <2>4. s = Stored(i, "png")
    OBVIOUS
  <2> HIDE DEF i, s
  <2>5. /\ DOMAIN s = FileFields /\ s.fmt = "png" /\ s.nx = i.nx /\ s.ny = i.ny /\ s.px = i.px
        /\ s.ori = 1 /\ s.exif = i.exif /\ s.xmp = i.xmp /\ s.ess = i.ess /\ s.blocks = NoBlocks
        /\ s.iptc = i.iptc /\ s.loss = i.loss /\ s.bps = i.bps /\ s.photo = i.photo
        /\ s.tile = 0 /\ s.levels = <<1>>
    BY <2>4, StoredFields
  <2>6. /\ DOMAIN f = FileFields /\ f.fmt = "png" /\ f.nx = i.nx /\ f.ny = i.ny /\ f.px = i.px
        /\ f.ori = 1 /\ f.exif = i.exif /\ f.xmp = i.xmp /\ f.ess = i.ess /\ f.blocks = NoBlocks
        /\ f.iptc = i.iptc /\ f.loss = i.loss /\ f.bps = i.bps /\ f.photo = i.photo
        /\ f.tile = 0 /\ f.levels = <<1>>
    BY <2>5 DEF FileFields
  <2> HIDE DEF f
  <2>7. Holds(f, "png", m)
    BY <2>2, <2>6 DEF Holds, SamePicture, i
  <2>8. FormatFits(f)
    BY <2>2, <2>6, OneLevel DEF FormatFits, i
  <2>9. WellWritten(w, "png", m)
    BY <1>1, <1>5, <2>3, <2>6, <2>7, <2>8, WroteFits
  <2> QED
    BY <2>9 DEF w
<1> QED
  BY <1>4, <1>5

LEMMA JpegWritten ==
  ASSUME NEW m, ImageFitsServer(m), NEW params
  PROVE  WellWritten(WriteJpeg(m, params), "jpg", m)
<1> DEFINE g == To8bps(m)
           a == DropAlpha(g)
           b == a.im
           c == IF b.photo = "lab" THEN ConvertToIcc(b, "sRGB", 8) ELSE Done(b)
           i == c.im
           wrong == i.nc # Samples(i.photo)
           s == Stored(i, "jpg")
           loss == s.loss + 1
           es == 0
           f == [s EXCEPT !.loss = loss, !.es = es]
           w == WriteJpeg(m, params)
<1>1. w = IF BadQuality(params) THEN FailedBefore(m)
          ELSE IF a.err THEN FailedBefore(g)
          ELSE IF c.err THEN Failed(b)
          ELSE IF wrong THEN Failed(i)
          ELSE Wrote(i, [s EXCEPT !.loss = @ + 1, !.es = 0])
  BY DEF WriteJpeg, WriteMarkers
<1>2. SamePicture(g, m) /\ g.loss = m.loss /\ g.bps = 8 /\ g.photo = m.photo
  BY DEF To8bps, ImageFitsServer, ImageFields, SamePicture
<1> HIDE DEF g
<1>3. ImageFitsServer(g)
  BY <1>2, SamePictureFits DEF ImageFitsServer, MetaFits
<1>4. Recoded(a, g) /\ (~a.err => b.bps = 8)
  <2>1. Recoded(RemoveChan(g, 3), g) /\ (~RemoveChan(g, 3).err => RemoveChan(g, 3).im.bps = g.bps)
    BY <1>3, RemovedIsRecoded
  <2>2. Recoded(Done(g), g) /\ ~Done(g).err /\ Done(g).im = g
    BY <1>3, DoneIsRecoded
  <2> QED
    BY <1>2, <2>1, <2>2 DEF DropAlpha
<1> HIDE DEF a
<1>5. ASSUME ~a.err PROVE ImageFitsServer(b) /\ SamePicture(b, m) /\ b.bps = 8
  <2>1. ImageFitsServer(b)
    BY <1>3, <1>4, <1>5, RecodedFits
  <2>2. SamePicture(b, g)
    BY <1>4, <1>5 DEF Recoded
  <2> QED
    BY <1>2, <1>4, <1>5, <2>1, <2>2 DEF SamePicture
<1> HIDE DEF b
<1>6. ASSUME ~a.err, ~c.err PROVE ImageFitsServer(i) /\ SamePicture(i, m) /\ i.bps = 8
  <2>1. Recoded(ConvertToIcc(b, "sRGB", 8), b) /\ (~ConvertToIcc(b, "sRGB", 8).err => ConvertToIcc(b, "sRGB", 8).im.bps = 8)
    BY <1>5, <1>6, ConvertedIsRecoded
  <2>2. Recoded(Done(b), b) /\ ~Done(b).err /\ Done(b).im = b
    BY <1>5, <1>6, DoneIsRecoded
  <2>3. Recoded(c, b) /\ i.bps = 8
    BY <1>5, <1>6, <2>1, <2>2
  <2> HIDE DEF c
  <2>4. ImageFitsServer(i)
    BY <1>5, <1>6, <2>3, RecodedFits
  <2>5. SamePicture(i, b)
    BY <1>6, <2>3 DEF Recoded
  <2> QED
    BY <1>5, <1>6, <2>3, <2>4, <2>5 DEF SamePicture
<1> HIDE DEF c, i, wrong
<1>7. ASSUME ~a.err, ~c.err
      PROVE  DOMAIN f = FileFields /\ Holds(f, "jpg", m) /\ FormatFits(f) /\ f = [s EXCEPT !.loss = @ + 1, !.es = 0]
  <2>1. /\ DOMAIN s = FileFields /\ s.fmt = "jpg" /\ s.nx = i.nx /\ s.ny = i.ny /\ s.px = i.px
        /\ s.ori = 1 /\ s.exif = i.exif /\ s.xmp = i.xmp /\ s.ess = i.ess /\ s.blocks = NoBlocks
        /\ s.bps = i.bps /\ s.photo = i.photo
        /\ s.tile = 0 /\ s.levels = <<1>>
    BY StoredFields
  <2> HIDE DEF s
  <2>2. f = [s EXCEPT !.loss = @ + 1, !.es = 0]
    BY <2>1 DEF FileFields
  <2> HIDE DEF loss, es
  <2>3. /\ DOMAIN f = FileFields /\ f.fmt = "jpg" /\ f.nx = i.nx /\ f.ny = i.ny /\ f.px = i.px
        /\ f.ori = 1 /\ f.exif = i.exif /\ f.xmp = i.xmp /\ f.ess = i.ess /\ f.blocks = NoBlocks
        /\ f.bps = i.bps /\ f.photo = i.photo
        /\ f.tile = 0 /\ f.levels = <<1>>
    BY <2>1 DEF FileFields
  <2> HIDE DEF f
  <2>4. Holds(f, "jpg", m)
    BY <1>6, <1>7, <2>3 DEF Holds, SamePicture
  <2>5. i.photo # "palette"
    BY <1>6, <1>7 DEF ImageFitsServer, MetaFits
  <2>6. FormatFits(f)
    BY <1>6, <1>7, <2>3, <2>5, OneLevel DEF FormatFits
  <2> QED
    BY <2>2, <2>3, <2>4, <2>6
<1> HIDE DEF s, f, w
<1>8. WellWritten(w, "jpg", m)
  <2>1. CASE BadQuality(params)
    BY <1>1, <2>1, FailedBeforeFits
  <2>2. CASE ~BadQuality(params) /\ a.err
    BY <1>1, <1>3, <2>2, FailedBeforeFits
  <2>3. CASE ~BadQuality(params) /\ ~a.err /\ c.err
    BY <1>1, <1>5, <2>3, FailedFits
  <2>4. CASE ~BadQuality(params) /\ ~a.err /\ ~c.err /\ wrong
    BY <1>1, <1>6, <2>4, FailedFits
  <2>5. CASE ~BadQuality(params) /\ ~a.err /\ ~c.err /\ ~wrong
    <3>1. w = Wrote(i, f)
      BY <1>1, <1>7, <2>5
    <3> QED
      BY <1>6, <1>7, <2>5, <3>1, WroteFits
  <2> QED
    BY <2>1, <2>2, <2>3, <2>4, <2>5
<1> QED
  BY <1>8 DEF w

ParamsFit(p) ==
  /\ p.clevels \in 0..32
  /\ p.pyramid \in Seq(Nat \ {0}) /\ Len(p.pyramid) <= 32 /\ (p.pyramid # <<>> => p.pyramid[1] = 1)

LEMMA TiffWritten ==
  ASSUME NEW m, ImageFitsServer(m), NEW params, ParamsFit(params)
  PROVE  WellWritten(WriteTiff(m, params), "tif", m)
<1> DEFINE bitonal == m.photo = "gray" /\ m.bw
           pyramid == params.pyramid # <<>> /\ ~bitonal /\ m.bps = 8
           after == IF m.photo = "lab" THEN [m EXCEPT !.icc = "none", !.loss = @ + 1] ELSE m
           s == Stored(m, "tif")
           icc == after.icc
           t == [s EXCEPT !.icc = icc]
           bps == IF bitonal THEN 1 ELSE t.bps
           packed == params.packed \/ bitonal
           u == [t EXCEPT !.bps = bps, !.packed = packed]
           exif == IF u.exif = -1 THEN -1 ELSE 0
           f == [u EXCEPT !.exif = exif, !.gps = NoGps]
           tile == params.tile
           levels == params.pyramid
           g == [f EXCEPT !.tile = tile, !.levels = levels]
           h == IF pyramid THEN g ELSE f
           w == WriteTiff(m, params)
           refused == bitonal /\ m.bps # 8
<1>1. /\ DOMAIN s = FileFields /\ s.fmt = "tif" /\ s.nx = m.nx /\ s.ny = m.ny /\ s.px = m.px
      /\ s.ori = 1 /\ s.exif = m.exif /\ s.xmp = m.xmp /\ s.ess = m.ess /\ s.blocks = NoBlocks
      /\ s.iptc = m.iptc /\ s.loss = m.loss /\ s.bps = m.bps /\ s.photo = m.photo
      /\ s.tile = 0 /\ s.levels = <<1>>
  BY StoredFields
<1> DEFINE v == WriteBasicTags(t, bitonal, params)
           x == WriteExif(v)
<1>2. w = IF refused THEN Failed(after)
          ELSE Wrote(after, IF pyramid THEN WriteSubfiles(x, params) ELSE x)
  BY DEF WriteTiff
<1> HIDE DEF s, icc
<1>3. DOMAIN t = FileFields
  BY <1>1 DEF FileFields
<1>4. t.bps = m.bps /\ t.exif = m.exif
  BY <1>1 DEF FileFields
<1>5. v = u
  <2> HIDE DEF t, bitonal
  <2> QED
    BY <1>3 DEF WriteBasicTags, FileFields
<1>6. /\ DOMAIN u = FileFields /\ u.exif = m.exif
  <2> HIDE DEF t, bps, packed
  <2> QED
    BY <1>3, <1>4 DEF FileFields
<1>7. x = f
  <2>1. x = WriteExif(u)
    BY <1>5
  <2> HIDE DEF u, v, x
  <2> QED
    BY <1>6, <2>1 DEF WriteExif, FileFields
<1>8. WriteSubfiles(x, params) = g
  <2> HIDE DEF f, x
  <2> QED
    BY <1>7 DEF WriteSubfiles
<1> HIDE DEF v, x, w, bitonal, pyramid, refused
<1>9. w = IF refused THEN Failed(after) ELSE Wrote(after, h)
  <2> HIDE DEF f, g, after
  <2> QED
    BY <1>2, <1>7, <1>8
<1>10. /\ DOMAIN f = FileFields /\ f.fmt = "tif" /\ f.nx = m.nx /\ f.ny = m.ny /\ f.px = m.px
       /\ f.ori = 1 /\ f.exif = exif /\ f.xmp = m.xmp /\ f.ess = m.ess /\ f.blocks = NoBlocks
       /\ f.iptc = m.iptc /\ f.loss = m.loss /\ f.bps = bps /\ f.photo = m.photo
       /\ f.tile = 0 /\ f.levels = <<1>>
  <2>1. /\ DOMAIN t = FileFields /\ t.fmt = "tif" /\ t.nx = m.nx /\ t.ny = m.ny /\ t.px = m.px
        /\ t.ori = 1 /\ t.xmp = m.xmp /\ t.ess = m.ess /\ t.blocks = NoBlocks
        /\ t.iptc = m.iptc /\ t.loss = m.loss /\ t.photo = m.photo
        /\ t.tile = 0 /\ t.levels = <<1>>
    BY <1>1 DEF FileFields
  <2> HIDE DEF t, bps, packed
  <2>2. /\ DOMAIN u = FileFields /\ u.fmt = "tif" /\ u.nx = m.nx /\ u.ny = m.ny /\ u.px = m.px
        /\ u.ori = 1 /\ u.xmp = m.xmp /\ u.ess = m.ess /\ u.blocks = NoBlocks
        /\ u.iptc = m.iptc /\ u.loss = m.loss /\ u.photo = m.photo /\ u.bps = bps
        /\ u.tile = 0 /\ u.levels = <<1>>
    BY <2>1 DEF FileFields
  <2> HIDE DEF u, exif
  <2> QED
    BY <2>2 DEF FileFields
<1>11. exif = IF m.exif # -1 THEN 0 ELSE m.exif
  BY <1>6
<1>12. bps = IF bitonal THEN 1 ELSE m.bps
  BY <1>4
<1> HIDE DEF t, u, exif, bps, packed, f, tile, levels
<1>13. /\ DOMAIN g = FileFields /\ g.fmt = "tif" /\ g.nx = m.nx /\ g.ny = m.ny /\ g.px = m.px
       /\ g.ori = 1 /\ g.exif = exif /\ g.xmp = m.xmp /\ g.ess = m.ess /\ g.blocks = NoBlocks
       /\ g.iptc = m.iptc /\ g.loss = m.loss /\ g.bps = bps /\ g.photo = m.photo
       /\ g.levels = levels
  BY <1>10 DEF FileFields
<1> HIDE DEF g
<1>14. m.bps \in {8, 16} /\ m.photo # "palette"
  BY DEF ImageFitsServer, MetaFits
<1>15. ImageFitsServer(after)
  <2>1. CASE m.photo = "lab"
    <3>1. SamePicture(after, m) /\ after.bps = m.bps /\ after.photo = m.photo
      BY <2>1 DEF ImageFitsServer, ImageFields, SamePicture
    <3> HIDE DEF after
    <3> QED
      BY <1>14, <3>1, SamePictureFits
  <2>2. CASE m.photo # "lab"
    BY <2>2
  <2> QED
    BY <2>1, <2>2
<1> HIDE DEF after
<1>16. DOMAIN h = FileFields /\ Holds(h, "tif", m) /\ FormatFits(h)
  <2>1. CASE pyramid
    <3>1. h = g
      BY <2>1
    <3>2. bps = 8
      BY <1>12, <1>14, <2>1 DEF pyramid
    <3>3. levels \in Seq(Nat \ {0}) /\ Len(levels) <= 32 /\ levels # <<>> /\ levels[1] = 1
      BY <2>1 DEF pyramid, levels, ParamsFit
    <3> HIDE DEF h
    <3>4. Holds(h, "tif", m)
      BY <1>11, <1>13, <3>1 DEF Holds
    <3>5. FormatFits(h)
      BY <1>13, <1>14, <3>1, <3>2, <3>3 DEF FormatFits
    <3> QED
      BY <1>13, <3>1, <3>4, <3>5
  <2>2. CASE ~pyramid
    <3>1. h = f
      BY <2>2
    <3> HIDE DEF h
    <3>4. Holds(h, "tif", m)
      BY <1>10, <1>11, <3>1 DEF Holds
    <3>5. FormatFits(h)
      BY <1>10, <1>14, <3>1, OneLevel DEF FormatFits
    <3> QED
      BY <1>10, <3>1, <3>4, <3>5
  <2> QED
    BY <2>1, <2>2
<1> HIDE DEF h
<1>17. WellWritten(w, "tif", m)
  <2>1. CASE refused
    BY <1>9, <1>15, <2>1, FailedFits
  <2>2. CASE ~refused
    BY <1>9, <1>15, <1>16, <2>2, WroteFits
  <2> QED
    BY <2>1, <2>2
<1> QED
  BY <1>17 DEF w

LEMMA J2kWritten ==
  ASSUME NEW m, ImageFitsServer(m), NEW params, ParamsFit(params)
  PROVE  WellWritten(WriteJ2k(m, params), "jp2", m)
<1> DEFINE s == Stored(m, "jp2")
           levels == [i \in 1..params.clevels |-> 1]
           tile == TilesJ2k(m, params)
           f == [s EXCEPT !.levels = levels, !.tile = tile]
           w == WriteJ2k(m, params)
<1>1. w = IF ~ColourFits(m) THEN Failed(m) ELSE Wrote(m, f)
  BY DEF WriteJ2k
<1>2. /\ DOMAIN s = FileFields /\ s.fmt = "jp2" /\ s.nx = m.nx /\ s.ny = m.ny /\ s.px = m.px
      /\ s.ori = 1 /\ s.exif = m.exif /\ s.xmp = m.xmp /\ s.ess = m.ess /\ s.blocks = NoBlocks
      /\ s.iptc = m.iptc /\ s.loss = m.loss /\ s.bps = m.bps /\ s.photo = m.photo
  BY StoredFields
<1>3. levels \in Seq(Nat \ {0}) /\ Len(levels) <= 32
  <2> DEFINE n == params.clevels
  <2>0. n \in 0..32
    BY Zenon DEF ParamsFit
  <2> HIDE DEF n
  <2>1. n \in Nat /\ n <= 32
    BY <2>0
  <2>2. levels = [i \in 1..n |-> 1]
    BY DEF n
  <2> HIDE DEF levels
  <2> QED
    BY <2>1, <2>2
<1> HIDE DEF s, levels, tile
<1>4. /\ DOMAIN f = FileFields /\ f.fmt = "jp2" /\ f.nx = m.nx /\ f.ny = m.ny /\ f.px = m.px
      /\ f.ori = 1 /\ f.exif = m.exif /\ f.xmp = m.xmp /\ f.ess = m.ess /\ f.blocks = NoBlocks
      /\ f.iptc = m.iptc /\ f.loss = m.loss /\ f.bps = m.bps /\ f.photo = m.photo /\ f.levels = levels
  BY <1>2 DEF FileFields
<1> HIDE DEF f, w
<1>5. m.bps \in {8, 16} /\ m.photo # "palette"
  BY DEF ImageFitsServer, MetaFits
<1>6. Holds(f, "jp2", m)
  BY <1>4 DEF Holds
<1>7. FormatFits(f)
  BY <1>3, <1>4, <1>5 DEF FormatFits
<1>8. WellWritten(w, "jp2", m)
  <2>1. CASE ColourFits(m)
    BY <1>1, <1>4, <1>6, <1>7, <2>1, WroteFits
  <2>2. CASE ~ColourFits(m)
    BY <1>1, <2>2, FailedFits
  <2> QED
    BY <2>1, <2>2
<1> QED
  BY <1>8 DEF w

\* Every writer leaves an image, and a file that can be read or is broken.
LEMMA AnyWritten ==
  ASSUME NEW m, ImageFitsServer(m), NEW params, ParamsFit(params), NEW fmt \in {"png", "jpg", "tif", "jp2"}
  PROVE  WellWritten(Write(fmt, m, params), fmt, m)
<1>1. CASE fmt = "png"
  BY <1>1, PngWritten DEF Write
<1>2. CASE fmt = "jpg"
  BY <1>2, JpegWritten DEF Write
<1>3. CASE fmt = "tif"
  BY <1>3, TiffWritten DEF Write
<1>4. CASE fmt = "jp2"
  BY <1>4, J2kWritten DEF Write
<1> QED
  BY <1>1, <1>2, <1>3, <1>4

-----------------------------------------------------------------------------
(* The calls of a script.                                                  *)

FormatNames == {"png", "jpg", "tif", "jp2"}

ImageInv == image = NoHandle \/ ImageFitsServer(image)

FilesInv ==
  /\ files = [n \in Names |-> files[n]]
  /\ \A n \in Names : files[n] = Nothing \/ FileFits(files[n]) \/ Broken(files[n])

\* What was shown under a name is what its file holds.
IsShown(s, f) ==
  /\ s.fmt \in FormatNames /\ ImageFitsServer(s.im) /\ s.picture = Display(s.im)
  /\ FileFits(f) /\ Holds(f, s.fmt, s.im)

ShownInv ==
  /\ shown = [n \in Names |-> shown[n]]
  /\ \A n \in Names : shown[n] = Nothing \/ IsShown(shown[n], files[n])

\* The image behind the handle and the files are ones that the server makes,
\* and each file that a script has written still holds its picture.
ScriptInv == ImageInv /\ FilesInv /\ ShownInv

LEMMA SizesAreGood ==
  ASSUME SmallNumbers, NEW z \in SizeArguments
  PROVE  GoodSize(z)
BY ArgumentsAssumption DEF SmallNumbers, GoodSize

LEMMA ParamsAreFit ==
  ASSUME NEW p \in ParamSets \cup {NoParams}
  PROVE  ParamsFit(p)
BY ParamSetsAssumption DEF ParamsFit

LEMMA ViewsAsk ==
  ASSUME SmallNumbers, NEW v \in Views
  PROVE  Asks(v[1], v[2])
<1>1. v[1] \in RegionArguments
  BY DEF RegionArguments
<1>2. v[2] = NoSize \/ v[2] \in SizeArguments
  BY DEF SizeArguments
<1> QED
  BY <1>1, <1>2, RegionFits, SizesAreGood DEF Asks

LEMMA OriginalsFit ==
  ASSUME SmallNumbers, NEW f \in Originals
  PROVE  FileFits(f)
<1>1. IsOriginal(f) /\ f.nx <= LimitDim /\ f.ny <= LimitDim
  BY OriginalsAssumption DEF SmallNumbers
<1>2. f.nx \in Nat \ {0} /\ f.ny \in Nat \ {0}
  BY <1>1 DEF IsOriginal
<1> QED
  BY <1>1, <1>2 DEF FileFits, Side

LEMMA InitIsFit ==
  ASSUME SmallNumbers, ScriptInit
  PROVE  ScriptInv
<1>1. ImageInv
  BY DEF ScriptInit, ImageInv
<1>2. PICK m \in Names, f \in Originals : files = [n \in Names |-> IF n = m THEN f ELSE Nothing]
  BY Zenon DEF ScriptInit
<1>3. FileFits(f)
  BY OriginalsFit
<1>4. \A n \in Names : files[n] = f \/ files[n] = Nothing
  BY <1>2
<1>5. files = [n \in Names |-> files[n]]
  BY <1>2
<1>6. FilesInv
  BY <1>3, <1>4, <1>5 DEF FilesInv
<1>7. ShownInv
  BY DEF ScriptInit, ShownInv
<1> QED
  BY <1>1, <1>6, <1>7 DEF ScriptInv

LEMMA StaysFit ==
  ASSUME ScriptInv, UNCHANGED <<files, image, shown>>
  PROVE  ScriptInv'
BY DEF ScriptInv, ImageInv, FilesInv, ShownInv

\* Only the image changes.
LEMMA ImageStaysFit ==
  ASSUME ScriptInv, UNCHANGED <<files, shown>>, image' = NoHandle \/ ImageFitsServer(image')
  PROVE  ScriptInv'
BY DEF ScriptInv, ImageInv, FilesInv, ShownInv

LEMMA HandleIsImage ==
  ASSUME ScriptInv, HasImage
  PROVE  ImageFitsServer(image)
BY DEF ScriptInv, ImageInv, HasImage

-----------------------------------------------------------------------------
(* new                                                                     *)

\* A digest is recorded in an image that has none and compared in another.
LEMMA OriginalChecked ==
  ASSUME NEW m, ImageFitsServer(m), NEW type
  PROVE  LET c == ReadOriginal(m, type)
         IN  /\ ~c.err => /\ ImageFitsServer(c.im) /\ c.im.nx = m.nx /\ c.im.ny = m.ny /\ c.im.px = m.px
                          /\ c.im.ori = m.ori /\ c.im.exif = m.exif /\ c.im.xmp = m.xmp
                          /\ c.im.iptc = m.iptc /\ c.im.loss = m.loss
                          /\ m.ess.set => c.im = m
             /\ m.ess.set => (c.err <=> HashOf(m, m.ess.type) # m.ess.sum)
<1> DEFINE c == ReadOriginal(m, type)
           e == [set |-> TRUE, type |-> "sha256", sum |-> HashOf(m, type)]
           t == [m EXCEPT !.ess = e]
<1>1. c = IF ~m.ess.set THEN Done(t)
          ELSE IF HashOf(m, m.ess.type) = m.ess.sum THEN Done(m) ELSE NoImage
  BY DEF ReadOriginal
<1>2. IsSum(e)
  <2> DEFINE h == HashOf(m, type)
  <2>1. h = <<h[1], h[2]>> /\ h[2][1] = m.nx
    BY DEF HashOf
  <2>2. m.nx \in Nat \ {0}
    BY DEF ImageFitsServer, Side
  <2> HIDE DEF h
  <2> QED
    BY <2>1, <2>2 DEF IsSum, h
<1>3. /\ ~Done(t).err /\ Done(t).im = t /\ ~Done(m).err /\ Done(m).im = m /\ NoImage.err
  BY DEF Done, NoImage
<1> HIDE DEF c, e
<1>4. /\ DOMAIN t = ImageFields /\ t.nx = m.nx /\ t.ny = m.ny /\ t.px = m.px /\ t.ori = m.ori /\ t.exif = m.exif
      /\ t.xmp = m.xmp /\ t.iptc = m.iptc /\ t.loss = m.loss /\ t.bps = m.bps /\ t.photo = m.photo /\ t.ess = e
  BY DEF ImageFitsServer, ImageFields
<1> HIDE DEF t
<1>5. ImageFitsServer(t)
  BY <1>2, <1>4 DEF ImageFitsServer, MetaFits, Filled
<1>6. CASE ~m.ess.set
  <2>1. c = Done(t)
    BY <1>1, <1>6
  <2>2. ~c.err /\ c.im = t
    BY <1>3, <2>1
  <2> QED
    BY <1>4, <1>5, <1>6, <2>2 DEF c
<1>7. CASE m.ess.set
  <2>1. HashOf(m, m.ess.type) = m.ess.sum => ~c.err /\ c.im = m
    BY <1>1, <1>3, <1>7
  <2>2. HashOf(m, m.ess.type) # m.ess.sum => c.err
    BY <1>1, <1>3, <1>7
  <2> QED
    BY <1>7, <2>1, <2>2 DEF c
<1> QED
  BY <1>6, <1>7

\* What the reader and readOriginal() make of a plan.
Got(f, plan, original, hash) ==
  IF original THEN ReadOriginal(ImageRead(f, plan), hash) ELSE Done(ImageRead(f, plan))

IsNew(n, r, z, original) ==
  /\ called'.op = "new" /\ called'.name = n
  /\ called'.whole <=> r.type = "FULL" /\ z = NoSize
  /\ called'.known <=> original /\ files[n].fmt # "none" /\ ReadFields(files[n], FALSE).ess.set

\* new ends the script, or it answers false where the file cannot be read or
\* is no longer the original, or it gives the image that was read.
LEMMA NewAnswers ==
  ASSUME NEW n, NEW r, NEW z, NEW original, NEW hash, SImageNew(n, r, z, original, hash)
  PROVE  LET plan == ReadPlan(files[n], r, z, Unlimited, "high")
             c == Got(files[n], plan, original, hash)
         IN  \/ called' = Call("", FALSE) /\ UNCHANGED <<files, image, shown>>
             \/ /\ IsNew(n, r, z, original) /\ UNCHANGED <<files, shown>>
                /\ \/ plan.err = "image" /\ ~called'.ok /\ image' = NoHandle
                   \/ /\ plan.err = "none" /\ plan.pixels = "asked"
                      /\ called'.ok <=> ~c.err
                      /\ image' = IF c.err THEN NoHandle ELSE c.im
<1> DEFINE f == files[n]
           p == ReadPlan(f, r, z, Unlimited, "high")
           c == Got(f, p, original, hash)
           w == r.type = "FULL" /\ z = NoSize
           k == original /\ f.fmt # "none" /\ ReadFields(f, FALSE).ess.set
           l == [Call("new", TRUE) EXCEPT !.name = n, !.whole = w, !.known = k]
           G(im) == /\ Returns([l EXCEPT !.ok = ~im.err])
                    /\ image' = IF im.err THEN NoHandle ELSE im.im
                    /\ UNCHANGED <<files, shown>>
<1>1. p.err \in Errors
  BY ReadIsPlan, PlanError
<1>2. ASSUME NEW im, G(im) PROVE IsNew(n, r, z, original) /\ UNCHANGED <<files, shown>> /\ (called'.ok <=> ~im.err)
                                 /\ image' = IF im.err THEN NoHandle ELSE im.im
  <2> DEFINE ok == ~im.err
             m == [l EXCEPT !.ok = ok]
  <2>1. called' = m
    BY <1>2 DEF Returns
  <2> HIDE DEF w, k, ok
  <2>2. m.op = "new" /\ m.name = n /\ m.whole = w /\ m.known = k /\ m.ok = ok
    BY DEF Call
  <2> HIDE DEF m
  <2>3. called'.op = "new" /\ called'.name = n /\ called'.whole = w /\ called'.known = k /\ called'.ok = ok
    BY <2>1, <2>2
  <2>4. IsNew(n, r, z, original) /\ (called'.ok <=> ~im.err)
    BY <2>3 DEF IsNew, w, k, ok
  <2> QED
    BY <1>2, <2>4
<1>3. ASSUME NEW how, Raises(how) PROVE called' = Call("", FALSE) /\ UNCHANGED <<files, image, shown>>
  BY <1>3 DEF Raises
<1>4. /\ p.err = "image" => G(NoImage)
      /\ p.err = "iiif" => Raises("raised")
      /\ p.err = "size" => Raises("dead")
      /\ p.err = "none" /\ p.pixels # "asked" => Raises("undefined")
      /\ p.err = "none" /\ p.pixels = "asked" => G(c)
  <2>1. CASE p.err = "image"
    BY <2>1 DEF SImageNew
  <2>2. CASE p.err = "iiif"
    BY <2>2 DEF SImageNew
  <2>3. CASE p.err = "size"
    BY <2>3 DEF SImageNew
  <2>4. CASE p.err = "none" /\ p.pixels # "asked"
    BY <2>4 DEF SImageNew
  <2>5. CASE p.err = "none" /\ p.pixels = "asked"
    BY <2>5 DEF SImageNew, Got
  <2> QED
    BY <1>1, <2>1, <2>2, <2>3, <2>4, <2>5 DEF Errors
<1>5. NoImage.err
  BY DEF NoImage
<1> HIDE DEF G, p, c, w, k, l
<1>6. CASE p.err = "image"
  <2>1. G(NoImage)
    BY <1>4, <1>6
  <2>2. IsNew(n, r, z, original) /\ UNCHANGED <<files, shown>> /\ ~called'.ok /\ image' = NoHandle
    BY <1>2, <1>5, <2>1
  <2> QED
    BY <1>6, <2>2 DEF p, f
<1>7. CASE p.err \in {"iiif", "size"} \/ (p.err = "none" /\ p.pixels # "asked")
  <2>1. called' = Call("", FALSE) /\ UNCHANGED <<files, image, shown>>
    BY <1>3, <1>4, <1>7
  <2> QED
    BY <2>1
<1>8. CASE p.err = "none" /\ p.pixels = "asked"
  <2>1. G(c)
    BY <1>4, <1>8
  <2>2. IsNew(n, r, z, original) /\ UNCHANGED <<files, shown>> /\ (called'.ok <=> ~c.err)
        /\ image' = IF c.err THEN NoHandle ELSE c.im
    BY <1>2, <2>1
  <2> QED
    BY <1>8, <2>2 DEF p, c, f
<1> QED
  BY <1>1, <1>6, <1>7, <1>8 DEF Errors

LEMMA BrokenIsRefused ==
  ASSUME NEW f, f = Nothing \/ Broken(f), NEW r, NEW z
  PROVE  ReadPlan(f, r, z, Unlimited, "high").err = "image"
<1>1. f.fmt \in {"none", "broken"}
  BY DEF Nothing, Broken
<1>2. ReadPlan(f, r, z, Unlimited, "high") = Refused("image")
  BY <1>1 DEF ReadPlan
<1> QED
  BY <1>2 DEF Refused, Plan

\* An image that was read and is not refused is one the server makes.
LEMMA GotFits ==
  ASSUME SmallNumbers, NEW f, f = Nothing \/ FileFits(f) \/ Broken(f), NEW r, NEW z, Asks(r, z),
         NEW original \in BOOLEAN, NEW hash,
         ReadPlan(f, r, z, Unlimited, "high").err = "none",
         ReadPlan(f, r, z, Unlimited, "high").pixels = "asked"
  PROVE  LET c == Got(f, ReadPlan(f, r, z, Unlimited, "high"), original, hash)
         IN  FileFits(f) /\ (~c.err => ImageFitsServer(c.im))
<1> DEFINE p == ReadPlan(f, r, z, Unlimited, "high")
           m == ImageRead(f, p)
<1>1. FileFits(f)
  BY BrokenIsRefused
<1>2. SidedPlan(p)
  BY <1>1, PlanSided
<1>3. p.err = "none" /\ p.pixels = "asked"
  OBVIOUS
<1> HIDE DEF p
<1>4. ImageFitsServer(m)
  BY <1>1, <1>2, <1>3, ReadImageFits DEF SidedPlan
<1> HIDE DEF m
<1>5. ~Done(m).err /\ Done(m).im = m
  BY DEF Done
<1>6. ~ReadOriginal(m, hash).err => ImageFitsServer(ReadOriginal(m, hash).im)
  BY <1>4, OriginalChecked
<1>7. LET c == Got(f, p, original, hash) IN ~c.err => ImageFitsServer(c.im)
  BY <1>4, <1>5, <1>6 DEF Got, m
<1> QED
  BY <1>1, <1>7 DEF p

LEMMA NewStaysFit ==
  ASSUME SmallNumbers, ScriptInv, New
  PROVE  ScriptInv'
<1>1. PICK n \in Names, v \in Views, o \in BOOLEAN, h \in Hashes : SImageNew(n, v[1], v[2], o, h)
  BY DEF New
<1> DEFINE f == files[n]
           r == v[1]
           z == v[2]
           p == ReadPlan(f, r, z, Unlimited, "high")
           c == Got(f, p, o, h)
<1>2. \/ UNCHANGED <<files, image, shown>>
      \/ /\ UNCHANGED <<files, shown>>
         /\ \/ image' = NoHandle
            \/ p.err = "none" /\ p.pixels = "asked" /\ image' = IF c.err THEN NoHandle ELSE c.im
  BY <1>1, NewAnswers
<1>3. Asks(r, z)
  BY ViewsAsk
<1>4. f = Nothing \/ FileFits(f) \/ Broken(f)
  BY DEF ScriptInv, FilesInv
<1> HIDE DEF f, r, z
<1>5. p.err = "none" /\ p.pixels = "asked" => (~c.err => ImageFitsServer(c.im))
  BY <1>3, <1>4, GotFits
<1> HIDE DEF p, c
<1>6. CASE UNCHANGED <<files, image, shown>>
  BY <1>6, StaysFit
<1>7. CASE UNCHANGED <<files, shown>> /\ (image' = NoHandle \/ ImageFitsServer(image'))
  BY <1>7, ImageStaysFit
<1> QED
  BY <1>2, <1>5, <1>6, <1>7

LEMMA CropStaysFit ==
  ASSUME SmallNumbers, ScriptInv, Crop
  PROVE  ScriptInv'
<1>1. PICK r \in Regions \cup {BadRegion} : SImageCrop(r)
  BY DEF Crop
<1>2. HasImage
  BY <1>1 DEF SImageCrop
<1>3. ImageFitsServer(image)
  BY <1>2, HandleIsImage
<1> DEFINE c == CropCoords(r, 1, image.nx, image.ny)
           t == [image EXCEPT !.nx = c.w, !.ny = c.h, !.px = DoCrop(@, c.x, c.y, c.w, c.h)]
<1>4. \/ UNCHANGED <<files, image, shown>>
      \/ r.type # "ERROR" /\ ~c.err /\ image' = t /\ UNCHANGED <<files, shown>>
  <2>1. CASE r.type = "ERROR"
    BY <1>1, <2>1 DEF SImageCrop, Refuses, Answers
  <2>2. CASE r.type = "FULL"
    BY <1>1, <2>2 DEF SImageCrop, Answers
  <2>3. CASE r.type \notin {"ERROR", "FULL"} /\ c.err
    BY <1>1, <2>3 DEF SImageCrop, Raises
  <2>4. CASE r.type \notin {"ERROR", "FULL"} /\ ~c.err
    BY <1>1, <2>4 DEF SImageCrop
  <2> QED
    BY <2>1, <2>2, <2>3, <2>4
<1>5. ASSUME r.type # "ERROR", ~c.err PROVE ImageFitsServer(t)
  <2>1. r \in RegionArguments
    BY <1>5 DEF BadRegion, RegionArguments
  <2>2. FitRegion(r)
    BY <2>1, RegionFits
  <2> DEFINE k == 1
  <2>3. k \in Nat \ {0} /\ Side(image.nx) /\ Side(image.ny)
    BY <1>3 DEF ImageFitsServer
  <2>4. c = CropCoords(r, k, image.nx, image.ny)
    OBVIOUS
  <2> HIDE DEF k, c
  <2>5. Inside(c, image.nx, image.ny)
    BY <1>5, <2>2, <2>3, <2>4, CropInside
  <2> QED
    BY <1>3, <2>5, CroppedFits
<1> HIDE DEF c, t
<1>6. CASE UNCHANGED <<files, image, shown>>
  BY <1>6, StaysFit
<1>7. CASE r.type # "ERROR" /\ ~c.err /\ image' = t /\ UNCHANGED <<files, shown>>
  BY <1>5, <1>7, ImageStaysFit
<1> QED
  BY <1>4, <1>6, <1>7

\* A scaling that is done is one to an extent the server makes.
Scaled(z, o) ==
  /\ ~ScaleUndefined(image, o.w, o.h) /\ Side(o.w) /\ Side(o.h)
  /\ image' = Scale(image, o.w, o.h) /\ UNCHANGED <<files, shown>>

LEMMA ScaleAnswers ==
  ASSUME SmallNumbers, ScriptInv, NEW z \in Sizes \cup {BadSize}, SImageScale(z)
  PROVE  /\ ImageFitsServer(image)
         /\ \/ called' = Call("", FALSE) /\ UNCHANGED <<files, image, shown>>
            \/ Scaled(z, GetSize(z, image.nx, image.ny, 0, FALSE, Unlimited))
<1> DEFINE o == GetSize(z, image.nx, image.ny, 0, FALSE, Unlimited)
           none == ScaleUndefined(image, o.w, o.h)
           t == Scale(image, o.w, o.h)
<1>1. HasImage
  BY DEF SImageScale
<1>2. ImageFitsServer(image)
  BY <1>1, HandleIsImage
<1>3. CASE z.type = "ERROR"
  BY <1>2, <1>3 DEF SImageScale, Refuses, Answers, Returns
<1>4. CASE z.type # "ERROR" /\ o.err
  BY <1>2, <1>4 DEF SImageScale, Raises
<1>5. CASE z.type # "ERROR" /\ ~o.err /\ none
  BY <1>2, <1>5 DEF SImageScale, Raises
<1>6. CASE z.type # "ERROR" /\ ~o.err /\ ~none
  <2>1. image' = t /\ UNCHANGED <<files, shown>>
    BY <1>6 DEF SImageScale
  <2>2. z \in SizeArguments
    BY <1>6 DEF BadSize, Size, SizeArguments
  <2>3. GoodSize(z)
    BY <2>2, SizesAreGood
  <2>4. Side(image.nx) /\ Side(image.ny)
    BY <1>2 DEF ImageFitsServer
  <2> DEFINE m == 0
             j == FALSE
  <2>5. m \in Nat /\ m <= 32 /\ j \in BOOLEAN
    OBVIOUS
  <2>6. o = GetSize(z, image.nx, image.ny, m, j, Unlimited)
    OBVIOUS
  <2> HIDE DEF m, j, o
  <2>7. Side(o.w) /\ Side(o.h)
    BY <1>6, <2>3, <2>4, <2>5, <2>6, SizeSides
  <2>8. Scaled(z, o)
    BY <1>6, <2>1, <2>7 DEF Scaled
  <2> QED
    BY <1>2, <2>8 DEF o
<1> QED
  BY <1>3, <1>4, <1>5, <1>6

LEMMA ScaleStaysFit ==
  ASSUME SmallNumbers, ScriptInv, ScaleIt
  PROVE  ScriptInv'
<1>1. PICK z \in Sizes \cup {BadSize} : SImageScale(z)
  BY DEF ScaleIt
<1> DEFINE o == GetSize(z, image.nx, image.ny, 0, FALSE, Unlimited)
<1>2. ImageFitsServer(image) /\ (UNCHANGED <<files, image, shown>> \/ Scaled(z, o))
  BY <1>1, ScaleAnswers
<1> HIDE DEF o
<1>3. CASE UNCHANGED <<files, image, shown>>
  BY <1>3, StaysFit
<1>4. CASE Scaled(z, o)
  <2>1. ImageFitsServer(Scale(image, o.w, o.h))
    BY <1>2, <1>4, ScaledFits DEF Scaled
  <2> QED
    BY <1>4, <2>1, ImageStaysFit DEF Scaled
<1> QED
  BY <1>2, <1>3, <1>4

LEMMA RotateStaysFit ==
  ASSUME ScriptInv, RotateIt
  PROVE  ScriptInv'
<1>1. PICK a \in Angles, m \in BOOLEAN : SImageRotate(a, m)
  BY DEF RotateIt
<1>2. ImageFitsServer(image)
  BY <1>1, HandleIsImage DEF SImageRotate
<1>3. \/ UNCHANGED <<files, image, shown>>
      \/ image' = Rotate(image, a, m) /\ UNCHANGED <<files, shown>>
  BY <1>1 DEF SImageRotate, Raises
<1>4. ImageFitsServer(Rotate(image, a, m))
  BY <1>2, RotatedFits
<1> QED
  BY <1>3, <1>4, StaysFit, ImageStaysFit

LEMMA TopleftAnswers ==
  ASSUME ScriptInv, SImageSetTopleft
  PROVE  /\ ImageFitsServer(image)
         /\ \/ called' = Call("", FALSE) /\ UNCHANGED <<files, image, shown>>
            \/ image' = SetTopleft(image) /\ UNCHANGED <<files, shown>>
<1>1. ImageFitsServer(image)
  BY HandleIsImage DEF SImageSetTopleft
<1> QED
  BY <1>1 DEF SImageSetTopleft, Raises

LEMMA TopleftStaysFit ==
  ASSUME ScriptInv, SImageSetTopleft
  PROVE  ScriptInv'
<1>1. ImageFitsServer(SetTopleft(image))
  BY TopleftAnswers, UprightFits
<1> QED
  BY <1>1, TopleftAnswers, StaysFit, ImageStaysFit

LEMMA WatermarkStaysFit ==
  ASSUME ScriptInv, Watermark
  PROVE  ScriptInv'
<1>1. PICK n \in Names : SImageWatermark(n)
  BY DEF Watermark
<1>2. ImageFitsServer(image)
  BY <1>1, HandleIsImage DEF SImageWatermark
<1>3. \/ UNCHANGED <<files, image, shown>>
      \/ image' = AddWatermark(image) /\ UNCHANGED <<files, shown>>
  BY <1>1 DEF SImageWatermark, Refuses, Answers
<1>4. ImageFitsServer(AddWatermark(image))
  BY <1>2, WatermarkedFits
<1> QED
  BY <1>3, <1>4, StaysFit, ImageStaysFit

LEMMA WriteStaysFit ==
  ASSUME ScriptInv, WriteIt
  PROVE  ScriptInv'
<1>1. PICK n \in Names, fmt \in FormatNames, params \in ParamSets : SImageWrite(n, fmt, params)
  BY DEF WriteIt, FormatNames
<1>2. ImageFitsServer(image)
  BY <1>1, HandleIsImage DEF SImageWrite
<1> DEFINE w == Write(fmt, image, params)
           kept == w.file = Untouched \/ (w.err /\ KeepsOldFile(fmt) /\ files[n] # Nothing)
           s == [fmt |-> fmt, im |-> image, picture |-> Display(image)]
<1>3. CASE WriteUndefined(fmt, image, params)
  <2>1. UNCHANGED <<files, image, shown>>
    BY <1>1, <1>3 DEF SImageWrite, Raises
  <2> QED
    BY <2>1, StaysFit
<1>4. CASE ~WriteUndefined(fmt, image, params)
  <2>1. /\ image' = w.im
        /\ files' = [files EXCEPT ![n] = IF kept THEN files[n] ELSE w.file]
        /\ shown' = [shown EXCEPT ![n] = IF kept THEN shown[n] ELSE IF w.err THEN Nothing ELSE s]
    BY <1>1, <1>4 DEF SImageWrite
  <2>2. WellWritten(w, fmt, image)
    <3>1. ParamsFit(params)
      BY ParamsAreFit
    <3> HIDE DEF w
    <3> QED
      BY <1>2, <3>1, AnyWritten DEF FormatNames, w
  <2>3. ~kept => w.file # Untouched
    OBVIOUS
  <2>4. s.fmt = fmt /\ s.im = image /\ s.picture = Display(image)
    OBVIOUS
  <2> HIDE DEF w, kept, s
  <2>5. ImageInv'
    BY <2>1, <2>2 DEF ImageInv, WellWritten
  <2>6. files = [k \in Names |-> files[k]] /\ shown = [k \in Names |-> shown[k]]
    BY DEF ScriptInv, FilesInv, ShownInv
  <2>7. /\ files' = [k \in Names |-> files'[k]] /\ shown' = [k \in Names |-> shown'[k]]
        /\ \A k \in Names : k # n => files'[k] = files[k] /\ shown'[k] = shown[k]
        /\ files'[n] = IF kept THEN files[n] ELSE w.file
        /\ shown'[n] = IF kept THEN shown[n] ELSE IF w.err THEN Nothing ELSE s
    BY <2>1, <2>6
  <2>8. /\ files'[n] = Nothing \/ FileFits(files'[n]) \/ Broken(files'[n])
        /\ shown'[n] = Nothing \/ IsShown(shown'[n], files'[n])
    <3>1. CASE kept
      BY <2>7, <3>1 DEF ScriptInv, FilesInv, ShownInv
    <3>2. CASE ~kept /\ w.err
      <4>1. Broken(w.file)
        BY <2>2, <2>3, <3>2 DEF WellWritten
      <4> QED
        BY <2>7, <3>2, <4>1
    <3>3. CASE ~kept /\ ~w.err
      <4>1. FileFits(w.file) /\ Holds(w.file, fmt, image)
        BY <2>2, <3>3 DEF WellWritten
      <4>2. IsShown(s, w.file)
        BY <1>2, <2>4, <4>1 DEF IsShown
      <4> QED
        BY <2>7, <3>3, <4>1, <4>2
    <3> QED
      BY <3>1, <3>2, <3>3
  <2>9. FilesInv'
    <3>1. \A k \in Names : files'[k] = Nothing \/ FileFits(files'[k]) \/ Broken(files'[k])
      BY <2>7, <2>8 DEF ScriptInv, FilesInv
    <3> QED
      BY <2>7, <3>1 DEF FilesInv
  <2>10. ShownInv'
    <3>1. \A k \in Names : shown'[k] = Nothing \/ IsShown(shown'[k], files'[k])
      BY <2>7, <2>8 DEF ScriptInv, ShownInv
    <3> QED
      BY <2>7, <3>1 DEF ShownInv
  <2> QED
    BY <2>5, <2>9, <2>10 DEF ScriptInv
<1> QED
  BY <1>3, <1>4

LEMMA SendStaysFit ==
  ASSUME ScriptInv, Send
  PROVE  ScriptInv'
<1>1. PICK fmt \in FormatNames : SImageSend(fmt)
  BY DEF Send, FormatNames
<1>2. ImageFitsServer(image)
  BY <1>1, HandleIsImage DEF SImageSend
<1> DEFINE w == Write(fmt, image, NoParams)
<1>3. UNCHANGED <<files, image, shown>> \/ (image' = w.im /\ UNCHANGED <<files, shown>>)
  BY <1>1 DEF SImageSend, Raises
<1>4. WellWritten(w, fmt, image)
  <2>1. ParamsFit(NoParams)
    BY ParamsAreFit
  <2> QED
    BY <1>2, <2>1, AnyWritten DEF FormatNames
<1> HIDE DEF w
<1>5. ImageFitsServer(w.im)
  BY <1>4 DEF WellWritten
<1> QED
  BY <1>3, <1>5, StaysFit, ImageStaysFit

LEMMA GcStaysFit ==
  ASSUME ScriptInv, SImageGc
  PROVE  ScriptInv'
BY ImageStaysFit DEF SImageGc

\* The other calls change neither the image nor a file.
OtherCall ==
  \/ WrongArguments \/ WrongHandle \/ SImageNewBadString \/ SImageDims \/ GetExif \/ SImageGetExifgps
  \/ SImageWriteBadArguments

\* What a call of the given name and answer is, as the script sees it.
LEMMA CallNames ==
  ASSUME NEW op, NEW ok
  PROVE  Call(op, ok).op = op /\ Call(op, ok).ok = ok /\ Call(op, ok).known = FALSE /\ Call(op, ok).whole = FALSE
BY DEF Call

\* A refusal, an error and an answer leave all images alone and are counted.
LEMMA RefusedKeeps ==
  /\ Refuses => UNCHANGED <<files, image, shown>> /\ called'.op = "" /\ ~called'.ok
  /\ \A how : Raises(how) => UNCHANGED <<files, image, shown>> /\ called'.op = "" /\ ~called'.ok
  /\ Fine.op = ""
<1>1. Call("", FALSE).op = "" /\ Call("", FALSE).ok = FALSE
  BY DEF Call
<1>2. Refuses => UNCHANGED <<files, image, shown>> /\ called'.op = "" /\ ~called'.ok
  BY <1>1 DEF Refuses, Answers, Returns
<1>3. \A how : Raises(how) => UNCHANGED <<files, image, shown>> /\ called'.op = "" /\ ~called'.ok
  BY <1>1 DEF Raises
<1>4. Fine.op = ""
  BY DEF Fine, Call
<1> QED
  BY <1>2, <1>3, <1>4

LEMMA OtherAnswered ==
  ASSUME OtherCall
  PROVE  UNCHANGED <<files, image, shown>> /\ called'.op \in {"", "gps"}
<1>1. ASSUME NEW tag, SImageGetExif(tag) PROVE UNCHANGED <<files, image, shown>> /\ called'.op = ""
  <2> DEFINE has == HasTag(image, tag)
  <2>1. \/ Refuses
        \/ Raises("undefined")
        \/ Answers(Call("", has))
    BY <1>1 DEF SImageGetExif
  <2> HIDE DEF has
  <2>2. Call("", has).op = ""
    BY CallNames
  <2> QED
    BY <2>1, <2>2, RefusedKeeps DEF Answers, Returns
<1>2. CASE GetExif
  <2>1. PICK tag \in {"Make", "Orientation", "unknown"} : SImageGetExif(tag)
    BY <1>2 DEF GetExif
  <2>2. UNCHANGED <<files, image, shown>> /\ called'.op = ""
    BY <2>1, <1>1
  <2> QED
    BY <2>2
<1>3. CASE SImageGetExifgps
  <2> DEFINE t == <<GpsTable(image.gps)>>
             l == [Call("gps", TRUE) EXCEPT !.value = t]
  <2>1. Refuses \/ Answers(l)
    BY <1>3 DEF SImageGetExifgps
  <2> HIDE DEF t
  <2>2. l.op = "gps"
    BY DEF Call
  <2> HIDE DEF l
  <2> QED
    BY <2>1, <2>2, RefusedKeeps DEF Answers, Returns
<1>4. CASE WrongArguments \/ WrongHandle \/ SImageNewBadString \/ SImageDims \/ SImageWriteBadArguments
  BY <1>4, RefusedKeeps DEF WrongArguments, WrongHandle, SImageNewBadString, SImageDims, SImageWriteBadArguments,
              Answers, Returns
<1> QED
  BY <1>2, <1>3, <1>4 DEF OtherCall

LEMMA ScriptStaysFit ==
  ASSUME SmallNumbers, ScriptInv, [ScriptNext]_scriptVars
  PROVE  ScriptInv'
<1>1. CASE OtherCall
  BY <1>1, OtherAnswered, StaysFit
<1>2. CASE UNCHANGED scriptVars \/ ScriptOver
  BY <1>2, StaysFit DEF scriptVars, ScriptOver
<1> QED
  BY <1>1, <1>2, NewStaysFit, CropStaysFit, ScaleStaysFit, RotateStaysFit, TopleftStaysFit, WatermarkStaysFit,
     WriteStaysFit, SendStaysFit, GcStaysFit DEF ScriptNext, OtherCall

-----------------------------------------------------------------------------
(* The properties of the scripts.                                          *)

\* Whatever a script does to its image, every image is one the server makes
\* and every file under a name it has written holds what was written.
THEOREM ScriptInvariance ==
  ASSUME SmallNumbers
  PROVE  ScriptSpec => []ScriptInv
<1>1. ScriptInit => ScriptInv
  BY InitIsFit
<1>2. ScriptInv /\ [ScriptNext]_scriptVars => ScriptInv'
  BY ScriptStaysFit
<1> QED
  BY <1>1, <1>2, PTL DEF ScriptSpec

\* Only new, scale and topleft are told from the other calls.
LEMMA StepKinds ==
  ASSUME [ScriptNext]_scriptVars
  PROVE  \/ calls' = calls
         \/ called'.op \in {"", "gps"}
         \/ New \/ ScaleIt \/ SImageSetTopleft
<1>1. CASE OtherCall
  BY <1>1, OtherAnswered
<1>2. CASE UNCHANGED scriptVars \/ ScriptOver
  BY <1>2 DEF scriptVars, ScriptOver
<1>3. CASE Crop
  <2>1. PICK r \in Regions \cup {BadRegion} : SImageCrop(r)
    BY <1>3 DEF Crop
  <2> DEFINE c == CropCoords(r, 1, image.nx, image.ny)
  <2>2. Refuses \/ Answers(Fine) \/ Raises("raised") \/ Returns(Fine)
    <3>1. CASE r.type = "ERROR"
      BY <2>1, <3>1 DEF SImageCrop
    <3>2. CASE r.type = "FULL"
      BY <2>1, <3>2 DEF SImageCrop
    <3>3. CASE r.type \notin {"ERROR", "FULL"} /\ c.err
      BY <2>1, <3>3 DEF SImageCrop
    <3>4. CASE r.type \notin {"ERROR", "FULL"} /\ ~c.err
      BY <2>1, <3>4 DEF SImageCrop
    <3> QED
      BY <3>1, <3>2, <3>3, <3>4
  <2> QED
    BY <2>2, RefusedKeeps DEF Answers, Returns
<1>4. CASE RotateIt
  <2>1. PICK a \in Angles, m \in BOOLEAN : SImageRotate(a, m)
    BY <1>4 DEF RotateIt
  <2>2. Returns(Fine) \/ Raises("undefined")
    BY <2>1 DEF SImageRotate
  <2> QED
    BY <2>2, RefusedKeeps DEF Returns
<1>5. CASE Watermark
  <2>1. PICK n \in Names : SImageWatermark(n)
    BY <1>5 DEF Watermark
  <2>2. Returns(Fine) \/ Refuses
    BY <2>1 DEF SImageWatermark
  <2> QED
    BY <2>2, RefusedKeeps DEF Returns
<1>6. CASE WriteIt
  <2>1. PICK n \in Names, fmt \in FormatNames, p \in ParamSets : SImageWrite(n, fmt, p)
    BY <1>6 DEF WriteIt, FormatNames
  <2> DEFINE w == Write(fmt, image, p)
             ok == ~w.err
  <2>2. Raises("undefined") \/ Returns(Call("", ok))
    BY <2>1 DEF SImageWrite
  <2> HIDE DEF ok
  <2>3. Call("", ok).op = ""
    BY CallNames
  <2> QED
    BY <2>2, <2>3, RefusedKeeps DEF Returns
<1>7. CASE Send
  <2>1. PICK fmt \in FormatNames : SImageSend(fmt)
    BY <1>7 DEF Send, FormatNames
  <2> DEFINE w == Write(fmt, image, NoParams)
             ok == ~w.err
  <2>2. Raises("raised") \/ Returns(Call("", ok))
    BY <2>1 DEF SImageSend
  <2> HIDE DEF ok
  <2>3. Call("", ok).op = ""
    BY CallNames
  <2> QED
    BY <2>2, <2>3, RefusedKeeps DEF Returns
<1>8. CASE SImageGc
  BY <1>8, RefusedKeeps DEF SImageGc, Returns
<1> QED
  BY <1>1, <1>2, <1>3, <1>4, <1>5, <1>6, <1>7, <1>8 DEF ScriptNext, OtherCall

LEMMA NewIsNamed ==
  ASSUME New
  PROVE  called'.op \in {"", "new"}
<1>1. PICK n \in Names, v \in Views, o \in BOOLEAN, h \in Hashes : SImageNew(n, v[1], v[2], o, h)
  BY DEF New
<1>2. called' = Call("", FALSE) \/ called'.op = "new"
  BY <1>1, NewAnswers DEF IsNew
<1>3. Call("", FALSE).op = ""
  BY DEF Call
<1> QED
  BY <1>2, <1>3

LEMMA ScaleIsNamed ==
  ASSUME ScaleIt
  PROVE  called'.op \in {"", "scale"}
<1>1. PICK z \in Sizes \cup {BadSize} : SImageScale(z)
  BY DEF ScaleIt
<1> DEFINE o == GetSize(z, image.nx, image.ny, 0, FALSE, Unlimited)
           none == ScaleUndefined(image, o.w, o.h)
<1>2. Refuses \/ Raises("dead") \/ Raises("undefined") \/ Returns(Call("scale", TRUE))
  <2>1. CASE z.type = "ERROR"
    BY <1>1, <2>1 DEF SImageScale
  <2>2. CASE z.type # "ERROR" /\ o.err
    BY <1>1, <2>2 DEF SImageScale
  <2>3. CASE z.type # "ERROR" /\ ~o.err /\ none
    BY <1>1, <2>3 DEF SImageScale
  <2>4. CASE z.type # "ERROR" /\ ~o.err /\ ~none
    BY <1>1, <2>4 DEF SImageScale
  <2> QED
    BY <2>1, <2>2, <2>3, <2>4
<1>3. Call("scale", TRUE).op = "scale"
  BY DEF Call
<1> QED
  BY <1>2, <1>3, RefusedKeeps DEF Returns

LEMMA TopleftIsNamed ==
  ASSUME SImageSetTopleft
  PROVE  called'.op \in {"", "topleft"}
<1>1. Raises("undefined") \/ Returns(Call("topleft", TRUE))
  BY DEF SImageSetTopleft
<1>2. Call("topleft", TRUE).op = "topleft"
  BY DEF Call
<1> QED
  BY <1>1, <1>2, RefusedKeeps DEF Returns

\* topleft() leaves what the picture shows.
LEMMA StepStaysUpright ==
  ASSUME ScriptInv, [ScriptNext]_scriptVars, called'.op = "topleft", calls' # calls, called'.ok
  PROVE  Display(image') = Display(image) /\ image'.ori = 1
<1>1. SImageSetTopleft
  BY StepKinds, NewIsNamed, ScaleIsNamed
<1>2. Call("", FALSE).op = ""
  BY DEF Call
<1>3. ImageFitsServer(image) /\ image' = SetTopleft(image)
  BY <1>1, <1>2, TopleftAnswers
<1>4. DOMAIN image = ImageFields /\ image.nx \in Nat /\ image.ny \in Nat /\ image.ori \in 1..8
  BY <1>3 DEF ImageFitsServer, Filled, MetaFits
<1> QED
  BY <1>3, <1>4, TopleftFields

\* topleft() changes how the picture is stored and not what it shows.
THEOREM TopleftKeepsPicture ==
  ASSUME SmallNumbers
  PROVE  ScriptSpec => TopleftUpright
<1>1. ScriptInv /\ [ScriptNext]_scriptVars
        => [called'.op = "topleft" /\ calls' # calls /\ called'.ok
              => Display(image') = Display(image) /\ image'.ori = 1]_scriptVars
  BY StepStaysUpright
<1> QED
  BY <1>1, ScriptInvariance, PTL DEF ScriptSpec, TopleftUpright

LEMMA ScaledExtent ==
  ASSUME NEW m, DOMAIN m = ImageFields, Filled(m), NEW w \in Nat \ {0}, NEW h \in Nat \ {0}
  PROVE  Scale(m, w, h).nx = w /\ Scale(m, w, h).ny = h
<1> DEFINE t == Scale(m, w, h)
<1>1. DOMAIN t = ImageFields /\ t.nx = w /\ t.ny = h /\ Filled(t)
  BY ScaleFields DEF Filled
<1> QED
  BY <1>1

\* A smaller image is made of all of the larger one.
LEMMA StepCoversSource ==
  ASSUME SmallNumbers, ScriptInv, [ScriptNext]_scriptVars, called'.op = "scale", calls' # calls, called'.ok,
         image'.nx <= image.nx, image'.ny <= image.ny, image.bps = 8
  PROVE  UNION {image'.px[p] : p \in DOMAIN image'.px} = UNION {image.px[p] : p \in DOMAIN image.px}
<1>1. ScaleIt
  BY StepKinds, NewIsNamed, TopleftIsNamed
<1>2. Call("", FALSE).op = ""
  BY DEF Call
<1>3. PICK z \in Sizes \cup {BadSize} : SImageScale(z)
  BY <1>1 DEF ScaleIt
<1> DEFINE o == GetSize(z, image.nx, image.ny, 0, FALSE, Unlimited)
           w == o.w
           h == o.h
<1>4. ImageFitsServer(image) /\ Scaled(z, o)
  BY <1>2, <1>3, ScaleAnswers
<1> HIDE DEF o
<1>5. ~ScaleUndefined(image, w, h) /\ w \in Nat \ {0} /\ h \in Nat \ {0} /\ image' = Scale(image, w, h)
  BY <1>4 DEF Scaled, Side
<1>6. DOMAIN image = ImageFields /\ Filled(image)
  BY <1>4 DEF ImageFitsServer
<1> HIDE DEF w, h
<1>7. image'.nx = w /\ image'.ny = h
  <2>1. Scale(image, w, h).nx = w /\ Scale(image, w, h).ny = h
    BY <1>5, <1>6, ScaledExtent
  <2> QED
    BY <1>5, <2>1
<1>8. w <= image.nx /\ h <= image.ny
  BY <1>7
<1>9. LET t == Scale(image, w, h)
      IN  UNION {t.px[p] : p \in DOMAIN t.px} = UNION {image.px[p] : p \in DOMAIN image.px}
  BY <1>4, <1>5, <1>6, <1>8, ScaleCovers
<1> DEFINE t == Scale(image, w, h)
<1>10. image' = t
  BY <1>5
<1> HIDE DEF t
<1> QED
  BY <1>9, <1>10 DEF t

\* Making an image of 8 bits smaller uses all of it.
THEOREM ScaleUsesSource ==
  ASSUME SmallNumbers
  PROVE  ScriptSpec => ScaleCoversSource
<1>1. ScriptInv /\ [ScriptNext]_scriptVars
        => [called'.op = "scale" /\ calls' # calls /\ called'.ok /\ image'.nx <= image.nx /\ image'.ny <= image.ny
              /\ image.bps = 8
              => UNION {image'.px[p] : p \in DOMAIN image'.px}
                   = UNION {image.px[p] : p \in DOMAIN image.px}]_scriptVars
  BY StepCoversSource
<1> QED
  BY <1>1, ScriptInvariance, PTL DEF ScriptSpec, ScaleCoversSource

\* A step that ends a successful or refused new.
LEMMA StepIsNew ==
  ASSUME [ScriptNext]_scriptVars, called'.op = "new", calls' # calls
  PROVE  \E n \in Names, v \in Views, o \in BOOLEAN, h \in Hashes :
            LET plan == ReadPlan(files[n], v[1], v[2], Unlimited, "high")
                c == Got(files[n], plan, o, h)
            IN  /\ IsNew(n, v[1], v[2], o) /\ UNCHANGED <<files, shown>>
                /\ \/ plan.err = "image" /\ ~called'.ok /\ image' = NoHandle
                   \/ /\ plan.err = "none" /\ plan.pixels = "asked"
                      /\ called'.ok <=> ~c.err
                      /\ image' = IF c.err THEN NoHandle ELSE c.im
<1>1. New
  BY StepKinds, ScaleIsNamed, TopleftIsNamed
<1>2. PICK n \in Names, v \in Views, o \in BOOLEAN, h \in Hashes : SImageNew(n, v[1], v[2], o, h)
  BY <1>1 DEF New
<1>3. Call("", FALSE).op = ""
  BY DEF Call
<1> DEFINE plan == ReadPlan(files[n], v[1], v[2], Unlimited, "high")
           c == Got(files[n], plan, o, h)
<1>4. \/ called' = Call("", FALSE)
      \/ /\ IsNew(n, v[1], v[2], o) /\ UNCHANGED <<files, shown>>
         /\ \/ plan.err = "image" /\ ~called'.ok /\ image' = NoHandle
            \/ /\ plan.err = "none" /\ plan.pixels = "asked"
               /\ called'.ok <=> ~c.err
               /\ image' = IF c.err THEN NoHandle ELSE c.im
  BY <1>2, NewAnswers
<1> QED
  BY <1>3, <1>4, Zenon

\* The digest of a file that is read as a whole: its own one decides.
LEMMA OwnSumDecides ==
  ASSUME SmallNumbers, NEW f, FileFits(f), NEW plan, WholeFile(plan, f), ReadFields(f, FALSE).ess.set, IsOwn(f),
         f.ess.sum[1] = "sha256", NEW hash
  PROVE  Got(f, plan, TRUE, hash).err <=> <<f.nx, f.ny, f.px, f.nc, Bits(f, FALSE), f.loss>> # f.ess.sum[2]
<1> DEFINE R == ReadFields(f, FALSE)
           m == ImageRead(f, plan)
           samples == <<f.nx, f.ny, f.px, f.nc, Bits(f, FALSE), f.loss>>
<1>1. m = ImageWith(f.nx, f.ny, f.px, R)
  BY WholeImage
<1>2. /\ DOMAIN m = ImageFields /\ m.nx = f.nx /\ m.ny = f.ny /\ m.px = f.px
      /\ m.nc = R.nc /\ m.bps = R.bps /\ m.ess = R.ess /\ m.loss = R.loss
  <2> DEFINE nx == f.nx
             ny == f.ny
             px == f.px
             t == ImageWith(nx, ny, px, R)
  <2> HIDE DEF R, nx, ny, px
  <2>1. DOMAIN t = ImageFields /\ t.nx = nx /\ t.ny = ny /\ t.px = px /\ SameRest(t, R)
    BY ImageWithFields
  <2> QED
    BY <1>1, <2>1 DEF SameRest, nx, ny, px
<1>3. R.bps = Bits(f, FALSE) /\ R.loss = f.loss /\ R.nc = f.nc
  BY FieldsFit DEF FileFits, IsOwn
<1>4. R.ess = f.ess
  <2>1. ~NoEssentials.set
    BY DEF NoEssentials
  <2>2. R.ess \in {f.ess, NoEssentials}
    BY EssentialsRead
  <2> QED
    BY <2>1, <2>2
<1>5. ImageFitsServer(m)
  <2>1. Side(plan.nx) /\ Side(plan.ny)
    BY DEF WholeFile, FileFits
  <2> QED
    BY <2>1, ReadImageFits
<1>6. Got(f, plan, TRUE, hash) = ReadOriginal(m, hash)
  BY DEF Got
<1> HIDE DEF m, R
<1>7. m.ess = f.ess /\ m.ess.set
  BY <1>2, <1>4 DEF R
<1>8. HashOf(m, m.ess.type) = <<"sha256", samples>>
  BY <1>2, <1>3, <1>7 DEF HashOf, IsOwn
<1>9. ReadOriginal(m, hash).err <=> HashOf(m, m.ess.type) # m.ess.sum
  BY <1>5, <1>7, OriginalChecked
<1> HIDE DEF samples
<1>10. m.ess.sum = <<"sha256", f.ess.sum[2]>>
  BY <1>7 DEF IsOwn
<1>11. <<"sha256", samples>> = <<"sha256", f.ess.sum[2]>> <=> samples = f.ess.sum[2]
  OBVIOUS
<1> QED
  BY <1>6, <1>8, <1>9, <1>10, <1>11 DEF samples

\* A new of a whole file that has a digest is answered by the digest.
LEMMA StepDecides ==
  ASSUME SmallNumbers, ScriptInv, [ScriptNext]_scriptVars, called'.op = "new", calls' # calls,
         called'.known, called'.whole
  PROVE  LET f == files[called'.name]
             samples == <<f.nx, f.ny, f.px, f.nc, Bits(f, FALSE), f.loss>>
         IN  f.ess.sum[1] = "sha256" => (called'.ok <=> samples = f.ess.sum[2])
<1>1. PICK n \in Names, v \in Views, o \in BOOLEAN, h \in Hashes :
        LET plan == ReadPlan(files[n], v[1], v[2], Unlimited, "high")
            c == Got(files[n], plan, o, h)
        IN  /\ IsNew(n, v[1], v[2], o) /\ UNCHANGED <<files, shown>>
            /\ \/ plan.err = "image" /\ ~called'.ok /\ image' = NoHandle
               \/ /\ plan.err = "none" /\ plan.pixels = "asked"
                  /\ called'.ok <=> ~c.err
                  /\ image' = IF c.err THEN NoHandle ELSE c.im
  BY StepIsNew
<1> DEFINE f == files[n]
           r == v[1]
           plan == ReadPlan(f, r, NoSize, Unlimited, "high")
           c == Got(f, plan, TRUE, h)
           samples == <<f.nx, f.ny, f.px, f.nc, Bits(f, FALSE), f.loss>>
<1>2. /\ called'.name = n /\ r.type = "FULL" /\ v[2] = NoSize /\ o = TRUE /\ f.fmt # "none"
      /\ ReadFields(f, FALSE).ess.set
  BY <1>1 DEF IsNew
<1>3. \/ plan.err = "image" /\ ~called'.ok
      \/ plan.err = "none" /\ plan.pixels = "asked" /\ (called'.ok <=> ~c.err)
  BY <1>1, <1>2
<1>4. f = Nothing \/ FileFits(f) \/ Broken(f)
  BY DEF ScriptInv, FilesInv
<1> SUFFICES ASSUME f.ess.sum[1] = "sha256" PROVE called'.ok <=> samples = f.ess.sum[2]
  BY <1>2
<1> HIDE DEF f, r
<1>5. f # Nothing
  BY <1>2 DEF Nothing
<1>6. f.ess.set
  <2>1. ~NoEssentials.set
    BY DEF NoEssentials
  <2>2. ReadFields(f, FALSE).ess \in {f.ess, NoEssentials}
    BY EssentialsRead
  <2> QED
    BY <1>2, <2>1, <2>2
<1>7. CASE Broken(f)
  <2>1. plan.err = "image"
    BY <1>7, BrokenIsRefused
  <2>2. f.ess.sum[2][1] # f.nx
    BY <1>6, <1>7 DEF Broken, IsSum
  <2> DEFINE sum == f.ess.sum[2]
             nx == f.nx
             ny == f.ny
             px == f.px
             nc == f.nc
             bps == Bits(f, FALSE)
             loss == f.loss
             t == <<nx, ny, px, nc, bps, loss>>
  <2>3. sum[1] # nx
    BY <2>2
  <2> HIDE DEF sum, nx, ny, px, nc, bps, loss
  <2>4. t # sum
    BY <2>3
  <2>5. samples # f.ess.sum[2]
    BY <2>4 DEF sum, nx, ny, px, nc, bps, loss
  <2> QED
    BY <1>3, <2>1, <2>5
<1>8. CASE FileFits(f)
  <2>1. IsOwn(f)
    BY <1>6, <1>8 DEF FileFits, IsOriginal
  <2>2. ReadsWhole(plan, f)
    BY <1>2, <1>8, <2>1, WholeIsRead DEF IsOwn
  <2>3. plan.err = "none"
    BY <2>2 DEF ReadsWhole
  <2>4. plan.pixels = "asked" /\ (called'.ok <=> ~c.err)
    BY <1>3, <2>3
  <2>5. WholeFile(plan, f)
    BY <2>2, <2>4 DEF ReadsWhole
  <2> HIDE DEF plan
  <2>6. c.err <=> samples # f.ess.sum[2]
    BY <1>2, <1>8, <2>1, <2>5, OwnSumDecides
  <2> QED
    BY <2>4, <2>6
<1> QED
  BY <1>4, <1>5, <1>7, <1>8

\* The file that has the digest of its samples is accepted, and no other one.
THEOREM ChecksumIsDecisive ==
  ASSUME SmallNumbers
  PROVE  ScriptSpec => ChecksumDecides
<1>1. ScriptInv /\ [ScriptNext]_scriptVars
        => [called'.op = "new" /\ calls' # calls /\ called'.known /\ called'.whole
              => LET f == files[called'.name]
                     samples == <<f.nx, f.ny, f.px, f.nc, Bits(f, FALSE), f.loss>>
                 IN  f.ess.sum[1] = "sha256" => (called'.ok <=> samples = f.ess.sum[2])]_scriptVars
  BY StepDecides
<1> QED
  BY <1>1, ScriptInvariance, PTL DEF ScriptSpec, ChecksumDecides

\* What comes back of the metadata when a file is read that holds an upright
\* picture.
Returned(fmt, m, t) == t.ori = 1 /\ ((fmt = "jpg" /\ m.xmp = "bare") \/ KeepsMetadata(fmt, m, t))

LEMMA RereadFields ==
  ASSUME NEW m, ImageFitsServer(m), Upstanding(m), NEW f, FileFits(f), NEW fmt \in FormatNames, Holds(f, fmt, m)
  PROVE  Returned(fmt, m, ReadFields(f, FALSE))
<1> DEFINE R == ReadFields(f, FALSE)
<1>1. /\ f.fmt = fmt /\ f.ori = 1 /\ f.exif = (IF fmt = "tif" /\ m.exif # -1 THEN 0 ELSE m.exif)
      /\ f.xmp = m.xmp /\ f.ess = m.ess /\ f.blocks = NoBlocks
      /\ fmt # "jpg" => f.iptc = m.iptc /\ f.loss = m.loss
  BY DEF Holds
<1>2. m.exif \in {-1, 0, 1}
  BY DEF Upstanding
<1>3. CASE fmt = "png"
  <2> DEFINE q == ReadFieldsPng(f, FALSE)
  <2>1. R = q
    BY <1>1, <1>3 DEF ReadFields
  <2>2. Carries(q, f) /\ q.ori = 1 /\ q.exif = f.exif
    BY FieldsReadPng
  <2> HIDE DEF q, R
  <2>3. Returned(fmt, m, q)
    BY <1>1, <1>3, <2>2 DEF Carries, Returned, KeepsMetadata
  <2> QED
    BY <2>1, <2>3 DEF R
<1>4. CASE fmt = "jp2"
  <2> DEFINE q == ReadFieldsJ2k(f, FALSE)
  <2>1. R = q
    BY <1>1, <1>4 DEF ReadFields
  <2>2. Carries(q, f) /\ q.ori = 1 /\ q.exif = f.exif
    BY FieldsReadJ2k
  <2> HIDE DEF q, R
  <2>3. Returned(fmt, m, q)
    BY <1>1, <1>4, <2>2 DEF Carries, Returned, KeepsMetadata
  <2> QED
    BY <2>1, <2>3 DEF R
<1>5. CASE fmt = "tif"
  <2> DEFINE q == ReadFieldsTiff(f, FALSE)
  <2>1. R = q
    BY <1>1, <1>5 DEF ReadFields
  <2>2. Carries(q, f) /\ q.ori = f.ori /\ q.exif = IF f.exif = -1 THEN -1 ELSE 0
    BY FieldsReadTiff
  <2> HIDE DEF q, R
  <2>3. Returned(fmt, m, q)
    BY <1>1, <1>2, <1>5, <2>2 DEF Carries, Returned, KeepsMetadata
  <2> QED
    BY <2>1, <2>3 DEF R
<1>6. CASE fmt = "jpg"
  <2> DEFINE q == ReadFieldsJpeg(f)
  <2>1. R = q
    BY <1>1, <1>6 DEF ReadFields
  <2>2. f.exif \in -1..8 /\ f.blocks.exif \in -1..8 /\ f.xmp \in XmpKinds /\ f.blocks.xmp \in XmpKinds
    BY DEF FileFits, IsOriginal, XmpKinds
  <2>3. /\ q.ess = IF f.xmp = "bare" THEN NoEssentials ELSE f.ess
        /\ f.blocks = NoBlocks => q.exif = f.exif /\ q.ori = (IF f.exif > 0 THEN f.exif ELSE 1)
        /\ f.blocks = NoBlocks /\ f.xmp # "bare" => (q.xmp = "none" <=> f.xmp = "none")
    BY <2>2, FieldsReadJpeg
  <2> HIDE DEF q, R
  <2>4. q.ori = 1 /\ q.exif = m.exif
    BY <1>1, <1>2, <1>6, <2>3
  <2>5. m.xmp # "bare" => q.ess = m.ess /\ (q.xmp = "none" <=> m.xmp = "none")
    BY <1>1, <2>3
  <2>6. Returned(fmt, m, q)
    BY <1>6, <2>4, <2>5 DEF Returned, KeepsMetadata
  <2> QED
    BY <2>1, <2>6 DEF R
<1> QED
  BY <1>3, <1>4, <1>5, <1>6 DEF FormatNames

\* Only the metadata and the pixels count.
LEMMA ReturnedAs ==
  ASSUME NEW fmt, NEW m, NEW R, Returned(fmt, m, R), NEW t,
         t.ori = R.ori, t.exif = R.exif, t.xmp = R.xmp, t.iptc = R.iptc, t.loss = R.loss,
         m.ess.set => (R.ess = m.ess => t.ess = m.ess)
  PROVE  Returned(fmt, m, t)
BY DEF Returned, KeepsMetadata

\* An upright picture that was written comes back from its file.
LEMMA ReadsWhatWasShown ==
  ASSUME SmallNumbers, NEW f, NEW s, IsShown(s, f), Upstanding(s.im), NEW plan, WholeFile(plan, f),
         NEW original \in BOOLEAN, NEW hash, ~Got(f, plan, original, hash).err
  PROVE  LET t == Got(f, plan, original, hash).im
         IN  Display(t) = s.picture /\ Returned(s.fmt, s.im, t)
<1> DEFINE R == ReadFields(f, FALSE)
           a == ImageRead(f, plan)
           c == Got(f, plan, original, hash)
           t == c.im
           m == s.im
<1>1. /\ s.fmt \in FormatNames /\ ImageFitsServer(m) /\ s.picture = Display(m)
      /\ FileFits(f) /\ Holds(f, s.fmt, m)
  BY DEF IsShown
<1>2. Returned(s.fmt, m, R)
  BY <1>1, RereadFields
<1>3. a.nx = m.nx /\ a.ny = m.ny /\ a.px = m.px /\ a.ori = R.ori /\ a.exif = R.exif /\ SameRest(a, R)
  <2> DEFINE nx == f.nx
             ny == f.ny
             px == f.px
             i == ImageWith(nx, ny, px, R)
  <2>1. a = i
    BY <1>1, WholeImage
  <2>2. nx = m.nx /\ ny = m.ny /\ px = m.px
    BY <1>1 DEF Holds
  <2> HIDE DEF R, nx, ny, px
  <2>3. i.nx = nx /\ i.ny = ny /\ i.px = px /\ i.ori = R.ori /\ i.exif = R.exif /\ SameRest(i, R)
    BY ImageWithFields
  <2> HIDE DEF i, a
  <2> QED
    BY <2>1, <2>2, <2>3
<1>4. ImageFitsServer(a)
  <2>1. Side(plan.nx) /\ Side(plan.ny)
    BY <1>1 DEF WholeFile, FileFits
  <2> QED
    BY <1>1, <2>1, ReadImageFits
<1>5. /\ t.nx = a.nx /\ t.ny = a.ny /\ t.px = a.px /\ t.ori = a.ori /\ t.exif = a.exif /\ t.xmp = a.xmp
      /\ t.iptc = a.iptc /\ t.loss = a.loss
      /\ a.ess.set => t.ess = a.ess
  <2> HIDE DEF a
  <2>1. CASE original
    <3>1. c = ReadOriginal(a, hash)
      BY <2>1 DEF Got, a
    <3> HIDE DEF c
    <3>2. ~ReadOriginal(a, hash).err
      BY <3>1 DEF c
    <3> QED
      BY <1>4, <3>1, <3>2, OriginalChecked
  <2>2. CASE ~original
    <3>1. c = Done(a)
      BY <2>2 DEF Got, a
    <3>2. Done(a).im = a
      BY DEF Done
    <3> HIDE DEF c
    <3> QED
      BY <3>1, <3>2
  <2> QED
    BY <2>1, <2>2
<1> HIDE DEF R, a, c, t
<1>6. Returned(s.fmt, m, t)
  <2>1. t.ori = R.ori /\ t.exif = R.exif /\ t.xmp = R.xmp /\ t.iptc = R.iptc /\ t.loss = R.loss
    BY <1>3, <1>5 DEF SameRest
  <2>2. m.ess.set => (R.ess = m.ess => t.ess = m.ess)
    BY <1>3, <1>5 DEF SameRest
  <2> QED
    BY <1>2, <2>1, <2>2, ReturnedAs
<1>7. Display(t) = Display(m)
  <2>1. t.ori = 1 /\ m.ori = 1
    BY <1>6 DEF Returned, Upstanding
  <2>2. t.nx = m.nx /\ t.ny = m.ny /\ t.px = m.px
    BY <1>3, <1>5
  <2> HIDE DEF m
  <2>3. Display(t) = [p \in Grid(t.nx, t.ny) |-> t.px[p]] /\ Display(m) = [p \in Grid(m.nx, m.ny) |-> m.px[p]]
    BY <2>1, DisplayUpright
  <2> QED
    BY <2>2, <2>3
<1> QED
  BY <1>1, <1>6, <1>7 DEF t, c

\* A new of a whole file gives the picture last written under the name.
LEMMA StepReadsBack ==
  ASSUME SmallNumbers, ScriptInv, [ScriptNext]_scriptVars, called'.op = "new", calls' # calls,
         called'.ok, called'.whole, shown[called'.name] # Nothing, Upstanding(shown[called'.name].im)
  PROVE  LET s == shown[called'.name]
         IN  Display(image') = s.picture /\ Returned(s.fmt, s.im, image')
<1>1. PICK n \in Names, v \in Views, o \in BOOLEAN, h \in Hashes :
        LET plan == ReadPlan(files[n], v[1], v[2], Unlimited, "high")
            c == Got(files[n], plan, o, h)
        IN  /\ IsNew(n, v[1], v[2], o) /\ UNCHANGED <<files, shown>>
            /\ \/ plan.err = "image" /\ ~called'.ok /\ image' = NoHandle
               \/ /\ plan.err = "none" /\ plan.pixels = "asked"
                  /\ called'.ok <=> ~c.err
                  /\ image' = IF c.err THEN NoHandle ELSE c.im
  BY StepIsNew
<1> DEFINE f == files[n]
           s == shown[n]
           r == v[1]
           plan == ReadPlan(f, r, NoSize, Unlimited, "high")
           c == Got(f, plan, o, h)
<1>2. called'.name = n /\ r.type = "FULL" /\ v[2] = NoSize
  BY <1>1 DEF IsNew
<1>3. plan.err = "none" /\ plan.pixels = "asked" /\ ~c.err /\ image' = c.im
  BY <1>1, <1>2
<1>4. IsShown(s, f) /\ Upstanding(s.im)
  BY <1>2 DEF ScriptInv, ShownInv
<1> HIDE DEF f, s, r
<1>5. FileFits(f)
  BY <1>4 DEF IsShown
<1>6. WholeFile(plan, f)
  BY <1>2, <1>3, <1>5, WholeIsRead DEF ReadsWhole
<1> HIDE DEF plan
<1>7. Display(c.im) = s.picture /\ Returned(s.fmt, s.im, c.im)
  BY <1>3, <1>4, <1>6, ReadsWhatWasShown
<1> HIDE DEF c
<1> QED
  BY <1>2, <1>3, <1>7 DEF s

\* A picture that was upright when it was written is the same picture when
\* the whole file is read again, with the metadata its format can hold.
THEOREM WrittenIsReadBack ==
  ASSUME SmallNumbers
  PROVE  ScriptSpec => ReadsBack
<1>1. ScriptInv /\ [ScriptNext]_scriptVars
        => [LET s == shown[called'.name]
                rereads == /\ called'.op = "new" /\ calls' # calls /\ called'.ok /\ called'.whole
                           /\ s # Nothing /\ Upstanding(s.im)
            IN  rereads => /\ Display(image') = s.picture
                           /\ (s.fmt = "jpg" /\ s.im.xmp = "bare")
                                \/ KeepsMetadata(s.fmt, s.im, image')]_scriptVars
  BY StepReadsBack DEF Returned
<1> QED
  BY <1>1, ScriptInvariance, PTL DEF ScriptSpec, ReadsBack
=============================================================================
