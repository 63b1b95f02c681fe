---------------------------- MODULE ImageFormats ----------------------------
(***************************************************************************)
(* The image files: what the readers of the four formats make of a region  *)
(* and a size, and what the writers keep of an image.                      *)
(*                                                                         *)
(* A file has the fields of an image (module IIIFImage) and                *)
(*   fmt      "png", "jpg", "tif" or "jp2"                                 *)
(*   planar   TIFF: "contig" or "separate" samples                         *)
(*   packed   TIFF: whether it is compressed                               *)
(*   tile     TIFF, JPEG2000: the side of a tile, 0: no tiles              *)
(*   levels   TIFF: the factors of the directories; JPEG2000: the number   *)
(*            of discardable levels, as a sequence of that length          *)
(*   blocks   JPEG: what the Photoshop marker holds                        *)
(*                                                                         *)
(* A plan says what a reader delivers: the rectangle it takes of the level *)
(* reduced by "by", the extent nx x ny it is scaled to, whether this fails *)
(* (a region outside: "iiif", a size that cannot be had: "size", a kind of *)
(* file the reader refuses: "image"), and whether the pixels are the ones  *)
(* of the rectangle ("asked"), others ("displaced"), or whatever an access *)
(* outside of the buffers gives ("undefined").                             *)
(***************************************************************************)
EXTENDS IIIFImage, Sequences, SequencesExt

CONSTANT LeastSide   \* getDim() proposes halves of an image down to this side: 128

NoSize == Size("NONE", FALSE, 0, 0, 0, 0)
AsItIs(z) == z.type \in {"FULL", "NONE"}

Plan(err, c, by, nx, ny, pixels) ==
    [err |-> err, x |-> c.x, y |-> c.y, w |-> c.w, h |-> c.h, by |-> by, nx |-> nx, ny |-> ny, pixels |-> pixels]

Refused(err) == Plan(err, [x |-> 0, y |-> 0, w |-> 0, h |-> 0], 1, 0, 0, "asked")

\* The rectangle a region names, the whole when it is "full"
Area(r, red, nx, ny) ==
    IF r.type = "FULL" THEN [err |-> FALSE, x |-> 0, y |-> 0, w |-> nx, h |-> ny]
    ELSE CropCoords(r, red, nx, ny)

\* The scaling method configured for the format decides what is undefined
ScalingUndefined(quality, from, w, h) ==
    IF quality = "high" THEN ScaleUndefined(from, w, h) ELSE QuickScaleUndefined(from, w, h)
Scaling(quality, im, w, h) ==
    CASE quality = "high" -> Scale(im, w, h) [] quality = "medium" -> ScaleMedium(im, w, h)
      [] OTHER -> ScaleFast(im, w, h)

Extent(nx, ny) == [nx |-> nx, ny |-> ny]

Pixels(c, w, h, quality) ==
    IF ScalingUndefined(quality, Extent(c.w, c.h), w, h) THEN "undefined" ELSE "asked"

-----------------------------------------------------------------------------
(* The readers *)

\* What Then makes of a rectangle and of the size asked for in it
SizedIn(c, z, maxred, j2k, lim, Then(_, _)) == Then(c, GetSize(z, c.w, c.h, maxred, j2k, lim))

\* PNG: crop, reduce by the factor if there is one, and scale
ReadPng(f, r, z, lim, quality) ==
    LET Sized(c, o) ==
            IF c.err THEN Refused("iiif")
            ELSE IF z.type = "NONE" THEN Plan("none", c, 1, c.w, c.h, "asked")
            ELSE IF o.err THEN Refused("size")
            ELSE IF z.type = "FULL" /\ o.redonly THEN Plan("none", c, 1, c.w, c.h, "asked")
            ELSE Plan("none", c, 1, o.w, o.h,
                      IF ReduceUndefined(o.reduce) THEN "undefined" ELSE Pixels(c, o.w, o.h, quality))
    IN  SizedIn(Area(r, 1, f.nx, f.ny), z, 0, FALSE, lim, Sized)

\* JPEG: the decoder reduces the whole image to n eighths; after a region is
\* cut out of the full image the size is asked for even where there is none
DecodedExtent(n, reduce) == CeilDiv(n * CeilDiv(8, reduce), 8)

ReadJpeg(f, r, z, lim, quality) ==
    LET whole == r.type = "FULL"
        Scaled(d, o) == Plan("none", d, IF whole THEN o.reduce ELSE 1, o.w, o.h, Pixels(d, o.w, o.h, quality))
        Sized(c, o) ==
            IF c.err THEN Refused("iiif")
            ELSE IF ~whole /\ z.type = "NONE" THEN Plan("none", c, 1, c.w, c.h, "undefined")
            ELSE IF o.err /\ (~whole \/ ~AsItIs(z)) THEN Refused("size")
            ELSE IF AsItIs(z) THEN Plan("none", c, 1, c.w, c.h, "asked")
            ELSE IF ~whole THEN Scaled(c, o)
            ELSE Scaled([c EXCEPT !.w = DecodedExtent(@, o.reduce), !.h = DecodedExtent(@, o.reduce)], o)
    IN  SizedIn(Area(r, 1, f.nx, f.ny), z, 0, FALSE, lim, Sized)

\* TIFF, strips.  An uncompressed file is read from row y to row h of the
\* region, not to y + h, and each row lands in its own place; only compressed
\* rows of 8 bits are moved up.  Separate planes go to one and the same place.
ReadStandardData(f, c) ==
    IF f.planar = "separate"
    THEN IF f.nc * c.w + c.h + (c.h + (IF f.packed THEN c.y ELSE 0)) * c.w <= f.nc * c.w * c.h
         THEN "displaced" ELSE "undefined"
    ELSE IF c.y = 0
    THEN IF f.packed /\ f.bps = 12 /\ c.x > 0 THEN "undefined" ELSE "asked"
    ELSE IF ~f.packed THEN "displaced" ELSE IF f.bps = 8 THEN "asked" ELSE "undefined"

\* TIFF, tiles.  Behind the first tile the place of a tile is computed with the
\* offset of the region in the image, not in its first tile.
ReadTiledData(f, c) ==
    LET InPlace(at, len) == at \div f.tile = 0 \/ CeilDiv(at + len, f.tile) - at \div f.tile = 1
    IN  IF f.planar = "contig" /\ InPlace(c.x, c.w) /\ InPlace(c.y, c.h) THEN "asked" ELSE "undefined"

\* The last directory before the first whose factor is too large; the factor
\* is had from the widths
Level(f, reduce) ==
    LET over == {i \in DOMAIN f.levels : LRound(f.nx, CeilDiv(f.nx, f.levels[i])) > reduce}
    IN  IF over = {} THEN Len(f.levels) ELSE Min(over) - 1

\* The rectangle in the chosen directory, and the size taken of it again
ReadLevel(f, r, z, lim, quality, level, reduce) ==
    LET by == f.levels[level]
        Found(c) == IF f.tile > 0 THEN ReadTiledData(f, c) ELSE ReadStandardData(f, c)
        Scaled(c, o, px) == Plan("none", c, by, o.w, o.h, IF px = "asked" THEN Pixels(c, o.w, o.h, quality) ELSE px)
        Sized(c, o) ==
            IF c.err THEN Refused("iiif")
            ELSE IF f.tile > 0 /\ f.bps \notin {8, 16} THEN Refused("image")
            ELSE IF z.type # "NONE" /\ o.err THEN Refused("size")
            ELSE IF AsItIs(z) THEN Plan("none", c, by, c.w, c.h, Found(c))
            ELSE Scaled(c, o, Found(c))
    IN  SizedIn(Area(r, reduce, CeilDiv(f.nx, by), CeilDiv(f.ny, by)), z, 0, FALSE, lim, Sized)

ReadTiff(f, r, z, lim, quality) ==
    LET Sized(c, o) ==
            IF c.err THEN Refused("iiif")
            ELSE IF z.type = "NONE" THEN Plan("none", c, 1, c.w, c.h, "undefined")
            ELSE IF o.err THEN Refused("size")
            ELSE ReadLevel(f, r, z, lim, quality, Level(f, o.reduce), o.reduce)
    IN  IF Len(f.levels) = 1 THEN ReadLevel(f, r, z, lim, quality, 1, 1)
        ELSE SizedIn(CropCoords(r, 1, f.nx, f.ny), z, 1, FALSE, lim, Sized)

\* JPEG2000: the codestream drops levels (a power p of two), and what
\* get_size() says a factor alone can do is not scaled any more
Dropped(c, p) ==
    [x |-> CeilDiv(c.x, p), y |-> CeilDiv(c.y, p),
     w |-> CeilDiv(c.x + c.w, p) - CeilDiv(c.x, p), h |-> CeilDiv(c.y + c.h, p) - CeilDiv(c.y, p)]

ReadJ2k(f, r, z, lim, quality) ==
    LET Scaled(d, p, o) ==
            IF p > 2^Len(f.levels) \/ d.w = 0 \/ d.h = 0 THEN Plan("none", d, p, o.w, o.h, "undefined")
            ELSE IF o.redonly THEN Plan("none", d, p, d.w, d.h, "asked")
            ELSE Plan("none", d, p, o.w, o.h, Pixels(d, o.w, o.h, quality))
        AtLevel(c, p, o) == Scaled(Dropped(c, p), p, o)
        Sized(c, o) ==
            IF c.err THEN Refused("image")
            ELSE IF AsItIs(z) THEN Scaled(c, 1, Outcome(FALSE, c.w, c.h, 1, TRUE))
            ELSE IF o.err THEN Refused("size")
            ELSE AtLevel(c, Min({p \in Powers : p >= o.reduce}), o)
    IN  SizedIn(Area(r, 1, f.nx, f.ny), z, Len(f.levels), TRUE, lim, Sized)

\* IIIFImage::read() tries the formats until one accepts the file
ReadPlan(f, r, z, lim, quality) ==
    CASE f.fmt = "png" -> ReadPng(f, r, z, lim, quality)
      [] f.fmt = "jpg" -> ReadJpeg(f, r, z, lim, quality)
      [] f.fmt = "tif" -> ReadTiff(f, r, z, lim, quality)
      [] f.fmt = "jp2" -> ReadJ2k(f, r, z, lim, quality)
      [] OTHER         -> Refused("image")

-----------------------------------------------------------------------------
(* The dimensions and the resolutions that getDim() finds: the factor of    *)
(* each and the extent of its tiles, 0: none                                *)

Dim(f, resolutions) == [err |-> FALSE, w |-> f.nx, h |-> f.ny, resolutions |-> resolutions]
NoDim == [err |-> TRUE, w |-> 0, h |-> 0, resolutions |-> <<>>]

\* Halves, as long as the one before was larger than LeastSide; these are
\* only what a reader could deliver, there is nothing in the file
Halves(f) ==
    LET Large(k) == CeilDiv(f.nx, 2^k) > LeastSide /\ CeilDiv(f.ny, 2^k) > LeastSide
        halves == {k \in 1..16 : Large(IF k = 1 THEN 1 ELSE k - 1)}
    IN  [k \in 1..Cardinality(halves) |-> [reduce |-> 2^k, tw |-> 0, th |-> 0]]

GetDimPng(f) == Dim(f, Halves(f))
GetDimJpeg(f) == Dim(f, Halves(f))

\* Tiled directories whose two sides give the same factor
GetDimTiff(f) ==
    LET FactorOf(n, by) == n \div CeilDiv(n, by)
        tiled == SelectSeq(f.levels, LAMBDA l : f.tile > 0 /\ FactorOf(f.nx, l) = FactorOf(f.ny, l))
    IN  Dim(f, [i \in DOMAIN tiled |-> [reduce |-> FactorOf(f.nx, tiled[i]), tw |-> f.tile, th |-> f.tile]])

\* The levels of the codestream; without tiles the image is one
GetDimJ2k(f) ==
    Dim(f, [i \in DOMAIN f.levels |-> [reduce |-> 2^(i - 1), tw |-> IF f.tile = 0 THEN f.nx ELSE f.tile,
                                                              th |-> IF f.tile = 0 THEN f.ny ELSE f.tile]])

\* IIIFImage::getDim()
GetDim(f) ==
    CASE f.fmt = "png" -> GetDimPng(f)
      [] f.fmt = "jpg" -> GetDimJpeg(f)
      [] f.fmt = "tif" -> GetDimTiff(f)
      [] f.fmt = "jp2" -> GetDimJ2k(f)
      [] OTHER         -> NoDim

-----------------------------------------------------------------------------
(* What the readers make of the samples and the metadata: the fields of the *)
(* image in memory but its pixels and their extent                          *)

NoGps == [latitude |-> 0, longitude |-> -1, time |-> 0, speed |-> 0]

Bits(f, force8) == IF f.bps <= 8 \/ force8 THEN 8 ELSE 16

Fields(f) ==
    [nc |-> f.nc, es |-> f.es, bps |-> Bits(f, FALSE), photo |-> f.photo, icc |-> f.icc, bw |-> f.bw, ori |-> 1,
     exif |-> f.exif, gps |-> f.gps, iptc |-> f.iptc, xmp |-> f.xmp, ess |-> f.ess, loss |-> f.loss]

\* The entries of a palette have three samples
WithoutPalette(im) == IF im.photo = "palette" THEN [im EXCEPT !.photo = "rgb", !.nc = @ + 2] ELSE im

\* The profile for a file that lacks one
DefaultIcc(im) == IF im.icc # "none" THEN im.icc
                  ELSE IF im.photo \in {"rgb", "ycc"} THEN "sRGB" ELSE im.photo

\* A resolution in the file counts as EXIF data; the orientation there does not
ReadFieldsPng(f, force8) == [WithoutPalette(Fields(f)) EXCEPT !.bps = Bits(f, force8)]

\* The blocks of the Photoshop marker give what no other marker has given
NoBlocks == [iptc |-> FALSE, icc |-> "none", exif |-> -1, xmp |-> "none"]
ParsePhotoshop(im, blocks) ==
    LET exif == IF im.exif = -1 THEN blocks.exif ELSE im.exif
    IN  [im EXCEPT !.iptc = @ \/ blocks.iptc, !.icc = IF @ = "none" THEN blocks.icc ELSE @,
                   !.exif = exif, !.ori = IF blocks.exif # -1 /\ exif > 0 THEN exif ELSE @,
                   !.xmp = IF @ = "none" THEN blocks.xmp ELSE @]

\* The markers in their order: EXIF, XMP, the profile, the essentials, Photoshop.
\* XMP data loses its packet wrapper, and where it has none the loop ends.
ReadMarkers(f) ==
    LET im == [Fields(f) EXCEPT !.bps = 8, !.iptc = FALSE, !.ori = IF f.exif > 0 THEN f.exif ELSE 1]
    IN  IF f.xmp = "bare" THEN [im EXCEPT !.xmp = "none", !.icc = "none", !.ess = NoEssentials]
        ELSE ParsePhotoshop([im EXCEPT !.xmp = IF f.xmp = "packet" THEN "bare" ELSE "none"], f.blocks)

\* The decoder has brought YCC to RGB, and 8 bits are all there are
ReadFieldsJpeg(f) == ReadMarkers(f)

\* The tags of a TIFF: an orientation of its own, and descriptions that are
\* put into the EXIF data
ReadTags(f) == [Fields(f) EXCEPT !.ori = f.ori, !.exif = IF @ = -1 THEN -1 ELSE 0]

\* The EXIF directory of a TIFF has no orientation and no position
ReadExif(im) == [im EXCEPT !.gps = NoGps]

\* Without a profile one is made of the white point and the primaries
ReadProfile(im) == [im EXCEPT !.icc = IF @ = "whitepoint" THEN "primaries" ELSE @]

ReadFieldsTiff(f, force8) ==
    LET im == WithoutPalette(ReadProfile(ReadExif(ReadTags(f))))
    IN  [im EXCEPT !.icc = DefaultIcc(im), !.bps = Bits(f, force8)]

\* The colour box of a JPEG2000 file always says which profile is meant; the
\* samples have 8, 12 or 16 bits
ColourJ2k(im) == [im EXCEPT !.icc = DefaultIcc(im)]
ReadFieldsJ2k(f, force8) ==
    ConvertYCC2RGB([ColourJ2k(WithoutPalette(Fields(f))) EXCEPT !.bps = Bits(f, force8)])

ReadFields(f, force8) ==
    CASE f.fmt = "png" -> ReadFieldsPng(f, force8)
      [] f.fmt = "jpg" -> ReadFieldsJpeg(f)
      [] f.fmt = "tif" -> ReadFieldsTiff(f, force8)
      [] OTHER         -> ReadFieldsJ2k(f, force8)

\* The image of this extent and these pixels whose other fields are those of m
ImageWith(nx, ny, px, m) ==
    [nx |-> nx, ny |-> ny, px |-> px, nc |-> m.nc, es |-> m.es, bps |-> m.bps, photo |-> m.photo, icc |-> m.icc,
     bw |-> m.bw, ori |-> m.ori, exif |-> m.exif, gps |-> m.gps, iptc |-> m.iptc, xmp |-> m.xmp, ess |-> m.ess,
     loss |-> m.loss]

\* A watermark is a gray TIFF of 8 bits
ReadWatermark(f) == f.fmt = "tif" /\ f.nc = 1 /\ f.bps = 8 /\ f.planar = "contig"

-----------------------------------------------------------------------------
(* The writers: the file they leave, and the image in memory, which is     *)
(* brought to what the format can hold before it is known to succeed.      *)

Stored_NoEssentials(im, fmt) ==
    [fmt |-> fmt, nx |-> im.nx, ny |-> im.ny, px |-> im.px, nc |-> im.nc, es |-> im.es, bps |-> im.bps,
     photo |-> im.photo, icc |-> im.icc, bw |-> im.bw, ori |-> 1, exif |-> im.exif, gps |-> im.gps, iptc |-> im.iptc,
     xmp |-> im.xmp, ess |-> NoEssentials, loss |-> im.loss,
     planar |-> "contig", packed |-> FALSE, tile |-> 0, levels |-> <<1>>, blocks |-> NoBlocks]

Stored(im, fmt) ==
    [fmt |-> fmt, nx |-> im.nx, ny |-> im.ny, px |-> im.px, nc |-> im.nc, es |-> im.es, bps |-> im.bps,
     photo |-> im.photo, icc |-> im.icc, bw |-> im.bw, ori |-> 1, exif |-> im.exif, gps |-> im.gps, iptc |-> im.iptc,
     xmp |-> im.xmp, ess |-> im.ess, loss |-> im.loss,
     planar |-> "contig", packed |-> FALSE, tile |-> 0, levels |-> <<1>>, blocks |-> NoBlocks]

\* What is left of a file that was opened for writing and not written
BrokenFile(im) == [Stored(im, "broken") EXCEPT !.px = <<>>, !.nx = 0, !.ny = 0]

Wrote(im, file) == [err |-> FALSE, im |-> im, file |-> file]
Failed(im) == [err |-> TRUE, im |-> im, file |-> BrokenFile(im)]

\* A failure before the file is opened
Untouched == [fmt |-> "untouched"]
FailedBefore(im) == [err |-> TRUE, im |-> im, file |-> Untouched]

WritePng(im) ==
    LET Converted(c) ==
            IF c.err \/ im.nc > 4 \/ (im.nc = 2 /\ im.es # 1) THEN Failed(im)
            ELSE Wrote(c.im, [Stored(c.im, "png") EXCEPT !.es = IF c.im.nc \in {2, 4} THEN 1 ELSE 0])
    IN  Converted(IF im.nc = 4 /\ im.es # 1 THEN ConvertToIcc(im, "sRGB", 8)
                  ELSE IF im.icc = "lab" THEN ConvertToIcc(im, "sRGB", im.bps) ELSE Done(im))

\* The samples a colour space has
Samples(photo) == CASE photo = "gray" -> 1 [] photo = "cmyk" -> 4 [] OTHER -> 3

\* The quality of a JPEG; any other parameter without it is refused as well
BadQuality(params) == params.any /\ params.quality \notin 0..100

\* No IPTC: the marker it is put in is not the one the reader looks for
WriteMarkers(im) == Stored(im, "jpg")

WriteJpeg(im, params) ==
    LET Coded(b, c) ==
            IF c.err THEN Failed(b)
            ELSE IF c.im.nc # Samples(c.im.photo) THEN Failed(c.im)
            ELSE Wrote(c.im, [WriteMarkers(c.im) EXCEPT !.loss = @ + 1, !.es = 0])
        Opened(b) == Coded(b, IF b.photo = "lab" THEN ConvertToIcc(b, "sRGB", 8) ELSE Done(b))
        Opaque(a) == IF a.err THEN FailedBefore(To8bps(im)) ELSE Opened(a.im)
    IN  IF BadQuality(params) THEN FailedBefore(im) ELSE Opaque(DropAlpha(To8bps(im)))

\* An existing JPEG is not truncated when it is opened
KeepsOldFile(fmt) == fmt = "jpg"

\* One bit a sample is always packed
WriteBasicTags(file, bitonal, params) ==
    [file EXCEPT !.bps = IF bitonal THEN 1 ELSE @, !.packed = params.packed \/ bitonal]

\* Of the EXIF data the orientation and the position are not written
WriteExif(file) == [file EXCEPT !.exif = IF @ = -1 THEN -1 ELSE 0, !.gps = NoGps]

\* A directory for each factor, the metadata in the first
WriteSubfiles(file, params) == [file EXCEPT !.tile = params.tile, !.levels = params.pyramid]

\* Black and white goes into one bit a sample, which only works from 8 bits.
\* CIELAB samples are made signed where they are and the profile is dropped.
WriteTiff(im, params) ==
    LET bitonal == im.photo = "gray" /\ im.bw
        pyramid == params.pyramid # <<>> /\ ~bitonal /\ im.bps = 8
        after == IF im.photo = "lab" THEN [im EXCEPT !.icc = "none", !.loss = @ + 1] ELSE im
        file  == WriteExif(WriteBasicTags([Stored(im, "tif") EXCEPT !.icc = after.icc], bitonal, params))
    IN  IF bitonal /\ im.bps # 8 THEN Failed(after)
        ELSE Wrote(after, IF pyramid THEN WriteSubfiles(file, params) ELSE file)

\* Tiles as asked for, where the image is larger than one
TilesJ2k(im, params) == IF Smaller(im.nx, im.ny) > params.stiles THEN params.stiles ELSE 0

\* The rows go to the coder in stripes of the height of a tile that was asked
\* for, also where the image is smaller: then the first one reads behind it
StripesUndefined(im, params) == im.bps = 8 /\ params.stiles > im.ny

\* The number of colours must fit the colour space
ColourFits(im) == im.nc - im.es = Samples(im.photo)

\* Lossless, with the levels asked for or as many as the extent suggests
WriteJ2k(im, params) ==
    IF ~ColourFits(im) THEN Failed(im)
    ELSE Wrote(im, [Stored(im, "jp2") EXCEPT !.levels = [i \in 1..params.clevels |-> 1], !.tile = TilesJ2k(im, params)])

Write(fmt, im, params) ==
    CASE fmt = "png" -> WritePng(im)
      [] fmt = "jpg" -> WriteJpeg(im, params)
      [] fmt = "tif" -> WriteTiff(im, params)
      [] OTHER       -> WriteJ2k(im, params)

WriteUndefined(fmt, im, params) ==
    \/ fmt = "jp2" /\ ColourFits(im) /\ StripesUndefined(im, params)
    \/ fmt = "jpg" /\ im.nc > 3 /\ im.es > 0 /\ RemoveChanUndefined(im, 3)
    \/ fmt = "png" /\ im.nc = 4 /\ im.es = 1 /\ im.icc = "lab"   \* the header was set before

NoParams == [any |-> FALSE, quality |-> 80, pyramid |-> <<>>, tile |-> 0, packed |-> FALSE, clevels |-> 3, stiles |-> 0]
=============================================================================
