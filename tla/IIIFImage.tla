----------------------------- MODULE IIIFImage ------------------------------
(***************************************************************************)
(* An image in memory and what the server does with it.                    *)
(*                                                                         *)
(* A pixel is the set of the spots of the original picture its value was   *)
(* computed from: px maps the positions <<x, y>> of the image to such sets *)
(* and the operations below move, join and drop them as IIIFImage.cpp and  *)
(* IIIFImgTools.cpp move the samples.  The other fields of an image are    *)
(*   nx, ny   its extent                  ori    its orientation (1..8)    *)
(*   nc, es   its samples per pixel, and how many of these are extra       *)
(*   bps      8 or 16 bits per sample     bw     only black and white      *)
(*   photo    how the samples are meant   icc    the colour profile        *)
(*   exif     -1: none, 0: without an orientation, else the orientation    *)
(*   gps      the position in the EXIF data                                *)
(*   iptc     whether there is such a record                               *)
(*   xmp      "none", "packet" (with a packet wrapper) or "bare"           *)
(*   ess      the essential metadata: the sum of the original's pixels     *)
(*   loss     how often the samples went through a lossy coder             *)
(*                                                                         *)
(* A read of an uninitialized extent and an access outside of a buffer     *)
(* have no defined result: the operators that may do so come with a        *)
(* predicate that says when.                                               *)
(***************************************************************************)
EXTENDS IIIFParams

\* The positions of an image of w x h
Grid(w, h) == (0..(w - 1)) \X (0..(h - 1))

-----------------------------------------------------------------------------
(* Geometry *)

DoCrop(px, x, y, w, h) == [p \in Grid(w, h) |-> px[<<p[1] + x, p[2] + y>>]]

\* The positions that a sample is interpolated from: place i of m places
\* spread evenly over n positions.  A place less than a hundredth past a
\* position is taken to be on it.
BilinN(i, n, m) ==
    LET q == i * (n - 1)
        d == m - 1
    IN  IF 100 * (q % d) < d THEN {q \div d} ELSE {q \div d, q \div d + 1}

\* One place only: 0 / 0
NoInterpolation(nn) == nn = 1

\* The extent the image is brought to first: a multiple of the one asked for
Expanded(n, nn) == IF nn < n THEN nn * CeilDiv(n, nn) ELSE nn

\* The interpolations that place i of nn is an average of
Averaged_First(i, n, nn) ==
    LET m == Expanded(n, nn)
    IN  {BilinN((m \div nn) * i, n, m)}

Averaged(i, n, nn) ==
    LET m == Expanded(n, nn)
        f == m \div nn
    IN  {BilinN(f * i + k, n, m) : k \in 0..(f - 1)}

\* One interpolated sample.  Between two rows and on a column the result is
\* cast to a byte, which loses a sample of 16 bits.
Sample(im, X, Y) ==
    IF im.bps = 16 /\ Cardinality(X) = 1 /\ Cardinality(Y) = 2 THEN {}
    ELSE UNION {im.px[s] : s \in X \X Y}

\* The interpolations of place i along a side, by the method of scaling
Places(method, i, n, nn) ==
    CASE method = "fast"   -> {{LRound(i * (n - 1), nn - 1)}}
      [] method = "medium" -> {BilinN(i, n, nn)}
      [] OTHER             -> Averaged(i, n, nn)

SameExtent(im, w, h) == im.nx = w /\ im.ny = h

Resampled(im, w, h, method) ==
    IF SameExtent(im, w, h) THEN im
    ELSE [im EXCEPT !.nx = w, !.ny = h,
                    !.px = [p \in Grid(w, h) |-> UNION {Sample(im, XY[1], XY[2]) :
                               XY \in Places(method, p[1], im.nx, w) \X Places(method, p[2], im.ny, h)}]]

ScaleFast(im, w, h)   == Resampled(im, w, h, "fast")
ScaleMedium(im, w, h) == Resampled(im, w, h, "medium")
Scale(im, w, h)       == Resampled(im, w, h, "high")

\* Which extents have no defined result; the two quick methods divide by the
\* extent asked for less one, the good one by that of the expanded image
ScaleUndefined(im, w, h) ==
    /\ ~SameExtent(im, w, h)
    /\ NoInterpolation(Expanded(im.nx, w)) \/ NoInterpolation(Expanded(im.ny, h))
QuickScaleUndefined(im, w, h) ==
    ~SameExtent(im, w, h) /\ (NoInterpolation(w) \/ NoInterpolation(h))

\* The averages over squares of r x r are right, but the new height never
\* reaches the caller
ReduceUndefined(r) == r > 1

Mirror(im) == [im EXCEPT !.px = [p \in Grid(im.nx, im.ny) |-> im.px[<<im.nx - 1 - p[1], p[2]>>]]]

Turn(im, angle) ==
    CASE angle = 90  -> [im EXCEPT !.nx = im.ny, !.ny = im.nx,
                                   !.px = [p \in Grid(im.ny, im.nx) |-> im.px[<<p[2], im.ny - 1 - p[1]>>]]]
      [] angle = 180 -> [im EXCEPT !.px = [p \in Grid(im.nx, im.ny) |->
                                              im.px[<<im.nx - 1 - p[1], im.ny - 1 - p[2]>>]]]
      [] angle = 270 -> [im EXCEPT !.nx = im.ny, !.ny = im.nx,
                                   !.px = [p \in Grid(im.ny, im.nx) |-> im.px[<<im.nx - 1 - p[2], p[1]>>]]]
      [] OTHER       -> im

\* The mirroring comes first
Rotate_TurnFirst(im, angle, mirror) == IF mirror THEN Mirror(Turn(im, angle)) ELSE Turn(im, angle)
Rotate(im, angle, mirror) == Turn(IF mirror THEN Mirror(im) ELSE im, angle)

\* Without a turn the new extent is never assigned
RotateUndefined(angle) == angle = 0

\* The turn that brings an orientation upright
Upright(ori) ==
    CASE ori = 2 -> [angle |-> 0,   mirror |-> TRUE]
      [] ori = 3 -> [angle |-> 180, mirror |-> FALSE]
      [] ori = 4 -> [angle |-> 180, mirror |-> TRUE]
      [] ori = 5 -> [angle |-> 270, mirror |-> TRUE]
      [] ori = 6 -> [angle |-> 90,  mirror |-> FALSE]
      [] ori = 7 -> [angle |-> 90,  mirror |-> TRUE]
      [] ori = 8 -> [angle |-> 270, mirror |-> FALSE]
      [] OTHER   -> [angle |-> 0,   mirror |-> FALSE]

SetTopleft(im) ==
    IF im.ori = 1 THEN im
    ELSE [Rotate(im, Upright(im.ori).angle, Upright(im.ori).mirror)
            EXCEPT !.ori = 1, !.exif = IF im.exif = -1 THEN -1 ELSE 1]

TopleftUndefined(im) == im.ori # 1 /\ RotateUndefined(Upright(im.ori).angle)

-----------------------------------------------------------------------------
(* Samples.  An operator that may throw IIIFImageError has a field err. *)

NoImage == [err |-> TRUE]
Done(im) == [err |-> FALSE, im |-> im]

\* The samples are computed anew, with a watermark or in another colour model
AddWatermark(im) == [im EXCEPT !.loss = @ + 1]
ConvertYCC2RGB(im) == IF im.photo = "ycc" THEN [im EXCEPT !.photo = "rgb"] ELSE im

To8bps(im) == [im EXCEPT !.bps = 8]

\* The profile convertToIcc assumes when the image has none: of the number of
\* samples, so that RGB with one extra sample is taken for CMYK
AssumedIcc(im) ==
    CASE im.icc # "none" -> im.icc
      [] im.nc = 1 -> "gray"
      [] im.nc = 3 -> "sRGB"
      [] im.nc = 4 -> "cmyk"
      [] OTHER     -> "unknown"

\* The colour space of a profile, and that of the samples (iccFormatter)
IccSpace(icc) == IF icc \in {"sRGB", "AdobeRGB", "primaries"} THEN "rgb" ELSE icc

\* The extra samples are gone, and es still counts them
ConvertToIcc(im, target, bps) ==
    IF IccSpace(AssumedIcc(im)) # im.photo THEN NoImage
    ELSE Done([im EXCEPT !.icc = target, !.bps = bps, !.photo = IccSpace(target),
                         !.nc = IF target = "gray" THEN 1 ELSE 3,
                         !.bw = im.bw /\ target = "gray" /\ im.photo = "gray"])

\* The samples behind the removed one are left in their old places, so only
\* the last one can be removed with a defined result
RemoveChanUndefined(im, chan) == chan < im.nc - 1

RemoveChan(im, chan) ==
    IF \/ im.nc = 1 \/ chan >= im.nc
       \/ im.es > 0 /\ (im.nc = 3 \/ (im.nc = 4 /\ im.photo = "cmyk"))
    THEN NoImage
    ELSE Done([im EXCEPT !.nc = im.nc - 1,
                         !.es = IF im.es = 0 \/ im.nc < 3 THEN 0 ELSE im.es - 1])

\* The alpha channels a JPEG cannot have; the bound of the loop shrinks with them
DropAlpha(im) == IF im.nc > 3 /\ im.es > 0 THEN RemoveChan(im, 3) ELSE Done(im)

\* Only the first nx * ny bytes are looked at: with a second sample per pixel
\* they are half of the image, with 16 bits there are none
ToBitonal(im) ==
    LET g == IF im.photo = "gray" THEN Done(im) ELSE ConvertToIcc(im, "gray", 8)
    IN  IF g.err THEN NoImage ELSE Done([g.im EXCEPT !.bw = TRUE])
ToBitonalUndefined(im) == im.photo = "gray" /\ im.bps = 16

-----------------------------------------------------------------------------
(* Essential metadata *)

NoEssentials == [set |-> FALSE, type |-> "none", sum |-> <<"none", <<>>>>]

\* The digest of the samples; two types of digest never agree
HashOf(im, type) == <<type, <<im.nx, im.ny, im.px, im.nc, im.bps, im.loss>>>>

\* What readOriginal() makes of the image read() gave: the first time it
\* records the digest, labelled sha256 whatever its type; later it compares
ReadOriginal_NeverFails(im, type) ==
    Done(IF im.ess.set THEN im ELSE [im EXCEPT !.ess = [set |-> TRUE, type |-> "sha256", sum |-> HashOf(im, type)]])

ReadOriginal(im, type) ==
    IF ~im.ess.set
    THEN Done([im EXCEPT !.ess = [set |-> TRUE, type |-> "sha256", sum |-> HashOf(im, type)]])
    ELSE IF HashOf(im, im.ess.type) = im.ess.sum THEN Done(im) ELSE NoImage
=============================================================================
