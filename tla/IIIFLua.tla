------------------------------ MODULE IIIFLua -------------------------------
(***************************************************************************)
(* The image functions of the Lua interface (IIIFImage.new, :crop, :write  *)
(* ...), called in any order by one script on one image handle.            *)
(*                                                                         *)
(* A call returns true or false to the script, or it raises: a Lua error   *)
(* or a C++ exception that processRequest() catches ends the script        *)
(* ("raised"), an exception that nobody catches ends the process ("dead"). *)
(* IIIFSizeError is of the second kind: it is no cserve::Error.  After a   *)
(* call without a defined result nothing is said any more ("undefined").   *)
(***************************************************************************)
EXTENDS ImageFormats

CONSTANTS Names,        \* the file names the script uses
          Originals,    \* the files that may be there at the start
          Regions,      \* arguments: parsed region strings
          Sizes,        \* arguments: parsed size strings
          Views,        \* arguments of new: pairs of a region and a size
          Angles,       \* arguments: degrees
          Hashes,       \* arguments: types of digest
          ParamSets,    \* arguments: compression parameters of write
          MaxCalls      \* bound: calls of the script

\* What the constructors of IIIFRegion and IIIFSize yield
RegionArguments == Regions \cup {v[1] : v \in Views}
SizeArguments == Sizes \cup ({v[2] : v \in Views} \ {NoSize})
ASSUME ArgumentsAssumption ==
    /\ \A r \in RegionArguments : /\ r.type \in {"FULL", "SQUARE", "COORDS", "PERCENTS"}
                                  /\ r.x \in Nat /\ r.y \in Nat /\ r.w \in Nat /\ r.h \in Nat
    /\ \A z \in SizeArguments : IsSize(z) /\ z.type \notin {"UNDEFINED", "ERROR"}

\* The sum of an original that this server has stored
IsOwn(f) ==
    /\ f.ess.type = "sha256"
    /\ f.ess.sum = <<f.ess.sum[1], f.ess.sum[2]>> /\ f.ess.sum[2][1] \in Nat \ {0}
    /\ f.photo # "palette" /\ (f.tile = 0 \/ f.bps \in {8, 16})

\* A file that may be there at the start: an image in one of the formats, which
\* has a sum of its pixels only if this server has put it there.  The first
\* directory of a TIFF is the image, a codestream has at most 32 levels, a JPEG
\* has 8 bits and no palette.
IsOriginal(f) ==
    /\ DOMAIN f = {"fmt", "nx", "ny", "px", "nc", "es", "bps", "photo", "icc", "bw", "ori", "exif", "gps", "iptc",
                   "xmp", "ess", "loss", "planar", "packed", "tile", "levels", "blocks"}
    /\ f.fmt \in {"png", "jpg", "tif", "jp2"}
    /\ f.nx \in Nat \ {0} /\ f.ny \in Nat \ {0} /\ f.px = [p \in Grid(f.nx, f.ny) |-> f.px[p]]
    /\ f.ori \in 1..8 /\ f.exif \in -1..8 /\ f.blocks.exif \in -1..8
    /\ {f.xmp, f.blocks.xmp} \subseteq {"none", "packet", "bare"}
    /\ f.levels \in Seq(Nat \ {0}) /\ Len(f.levels) <= 32
    /\ f.fmt = "tif" => f.levels # <<>> /\ f.levels[1] = 1
    /\ f.fmt = "jpg" => f.bps = 8 /\ f.photo # "palette"
    /\ f.ess.set => IsOwn(f)
ASSUME OriginalsAssumption == \A f \in Originals : IsOriginal(f)

\* A pyramid begins with the image
ASSUME ParamSetsAssumption ==
    \A p \in ParamSets \cup {NoParams} :
        /\ p.clevels \in 0..32
        /\ p.pyramid \in Seq(Nat \ {0}) /\ Len(p.pyramid) <= 32 /\ (p.pyramid # <<>> => p.pyramid[1] = 1)

\* The images are none larger than the server makes them, and no number of an
\* argument is so large that a sum or a product would wrap
SmallNumbers ==
    LET Small(n) == 2 * n < Word
    IN  /\ LimitDim <= 32768 /\ Small(LimitDim)
        /\ \A f \in Originals : f.nx <= LimitDim /\ f.ny <= LimitDim
        /\ \A r \in RegionArguments : r.type \in {"COORDS", "PERCENTS"} =>
               \A n \in {r.x, r.y, r.w, r.h} : Small(IF r.type = "COORDS" THEN n ELSE n * LimitDim)
        /\ \A z \in SizeArguments : z.reduce <= 32768

VARIABLES phase,     \* "running", "raised", "dead" or "undefined"
          files,     \* the files by name
          image,     \* the image behind the handle
          shown,     \* ghost: the picture last written under a name
          called,    \* the last call: its name, its answer, what it was about
          calls

scriptVars == <<phase, files, image, shown, called, calls>>

Nothing == [fmt |-> "none"]
NoHandle == [nx |-> 0]
Unlimited == [w |-> 0, h |-> 0]   \* the size strings of a script have no limits

HasImage == image # NoHandle

\* The picture a viewer shows: the image turned as the EXIF standard says of
\* its orientation, by what the first row and the first column are
Display(im) ==
    CASE im.ori = 1 -> [p \in Grid(im.nx, im.ny) |-> im.px[p]]
      [] im.ori = 2 -> [p \in Grid(im.nx, im.ny) |-> im.px[<<im.nx - 1 - p[1], p[2]>>]]
      [] im.ori = 3 -> [p \in Grid(im.nx, im.ny) |-> im.px[<<im.nx - 1 - p[1], im.ny - 1 - p[2]>>]]
      [] im.ori = 4 -> [p \in Grid(im.nx, im.ny) |-> im.px[<<p[1], im.ny - 1 - p[2]>>]]
      [] im.ori = 5 -> [p \in Grid(im.ny, im.nx) |-> im.px[<<p[2], p[1]>>]]
      [] im.ori = 6 -> [p \in Grid(im.ny, im.nx) |-> im.px[<<p[2], im.ny - 1 - p[1]>>]]
      [] im.ori = 7 -> [p \in Grid(im.ny, im.nx) |-> im.px[<<im.nx - 1 - p[2], im.ny - 1 - p[1]>>]]
      [] im.ori = 8 -> [p \in Grid(im.ny, im.nx) |-> im.px[<<im.nx - 1 - p[2], p[1]>>]]

Call(op, ok) == [op |-> op, ok |-> ok, name |-> "", whole |-> FALSE, known |-> FALSE, value |-> <<>>]

ScriptInit ==
    /\ phase = "running"
    /\ \E m \in Names, f \in Originals : files = [n \in Names |-> IF n = m THEN f ELSE Nothing]
    /\ image = NoHandle
    /\ shown = [n \in Names |-> Nothing]
    /\ called = Call("", TRUE)
    /\ calls = 0

Running == phase = "running" /\ calls < MaxCalls

\* The call returns, raises or ends in nothing one can rely on
Returns(l) == phase' = "running" /\ called' = l /\ calls' = calls + 1
Raises(how) ==
    /\ phase' = how
    /\ called' = Call("", FALSE)
    /\ calls' = calls + 1
    /\ UNCHANGED <<files, image, shown>>
Answers(l) == Returns(l) /\ UNCHANGED <<files, image, shown>>
Fine == Call("", TRUE)
Refuses == Answers(Call("", FALSE))   \* false and a message

-----------------------------------------------------------------------------
(* IIIFImage.new(path, {region, size | reduce, original, hash}) *)

\* The pixels of the level the reader takes, a mean over squares; JPEG is
\* decoded to a number of eighths
LevelPixels(f, by) ==
    LET At(i) == IF f.fmt = "jpg" THEN (i * CeilDiv(8, by)) \div 8 ELSE i \div by
        Extent1(n) == IF f.fmt = "jpg" THEN DecodedExtent(n, by) ELSE CeilDiv(n, by)
    IN  [p \in Grid(Extent1(f.nx), Extent1(f.ny)) |->
            UNION {f.px[q] : q \in {q \in Grid(f.nx, f.ny) : At(q[1]) = p[1] /\ At(q[2]) = p[2]}}]

\* The image the reader returns for its plan
ImageRead(f, plan) ==
    LET px == DoCrop(LevelPixels(f, plan.by), plan.x, plan.y, plan.w, plan.h)
    IN  Scaling("high", ImageWith(plan.w, plan.h, px, ReadFields(f, FALSE)), plan.nx, plan.ny)

SImageNew(n, r, z, original, hash) ==
    /\ Running
    /\ LET f == files[n]
           l == [Call("new", TRUE) EXCEPT !.name = n, !.whole = r.type = "FULL" /\ z = NoSize,
                                             !.known = original /\ f.fmt # "none" /\ ReadFields(f, FALSE).ess.set]
           Got(im) == /\ Returns([l EXCEPT !.ok = ~im.err])
                      /\ image' = IF im.err THEN NoHandle ELSE im.im
                      /\ UNCHANGED <<files, shown>>
           Read(plan) == CASE plan.err = "image" -> Got(NoImage)
                           [] plan.err = "iiif"  -> Raises("raised")
                           [] plan.err = "size"  -> Raises("dead")
                           [] plan.err = "none" /\ plan.pixels # "asked" -> Raises("undefined")
                           [] OTHER -> Got(IF original THEN ReadOriginal(ImageRead(f, plan), hash)
                                           ELSE Done(ImageRead(f, plan)))
       IN  Read(ReadPlan(f, r, z, Unlimited, "high"))

\* A string that is no region or size: both constructors throw IIIFError,
\* which only the methods of the handle catch
SImageNewBadString == Running /\ Raises("raised")

\* Arguments of a wrong number or type are answered, and a handle of another
\* type is an error of Lua's; all functions begin with these tests
WrongArguments == Running /\ Refuses
WrongHandle == Running /\ Raises("raised")

-----------------------------------------------------------------------------
(* The methods of the handle *)

SImageDims ==
    /\ Running /\ HasImage
    /\ Answers(Fine)

\* The getters, one for each type: the value, or false and a message
HasTag(im, tag) == tag = "Make" \/ (tag = "Orientation" /\ im.exif > 0)

\* exif(tag): a tag the table does not know is looked at before it is found to
\* be none
SImageGetExif(tag) ==
    /\ Running /\ HasImage
    /\ CASE image.exif = -1 -> Refuses
         [] image.exif # -1 /\ tag = "unknown" -> Raises("undefined")
         [] OTHER -> Answers(Call("", HasTag(image, tag)))

\* gps(): the longitude is read in place of the latitude, the altitude is
\* looked up under a name that does not exist, and what follows the time of
\* day is put into its table
GpsTable(g) ==
    [latitude |-> IF g.longitude = -1 THEN g.latitude ELSE g.longitude,
     longitude |-> 0, altitude |-> 0, timestamp |-> [time |-> g.time, speed |-> g.speed]]

SImageGetExifgps ==
    /\ Running /\ HasImage
    /\ IF image.exif = -1 THEN Refuses
       ELSE Answers([Call("gps", TRUE) EXCEPT !.value = <<GpsTable(image.gps)>>])

\* crop(region): a bad string is answered, a region outside raises
SImageCrop(r) ==
    /\ Running /\ HasImage
    /\ LET Cut(c) == CASE r.type = "ERROR" -> Refuses
                        [] r.type = "FULL"  -> Answers(Fine)
                        [] r.type \notin {"ERROR", "FULL"} /\ c.err -> Raises("raised")
                        [] OTHER -> /\ Returns(Fine)
                                    /\ image' = [image EXCEPT !.nx = c.w, !.ny = c.h,
                                                              !.px = DoCrop(@, c.x, c.y, c.w, c.h)]
                                    /\ UNCHANGED <<files, shown>>
       IN  Cut(CropCoords(r, 1, image.nx, image.ny))

\* scale(size): a bad string is answered, a size that cannot be had is fatal
SImageScale(z) ==
    /\ Running /\ HasImage
    /\ LET Scaled(o) == CASE z.type = "ERROR" -> Refuses
                           [] z.type # "ERROR" /\ o.err -> Raises("dead")
                           [] z.type # "ERROR" /\ ~o.err /\ ScaleUndefined(image, o.w, o.h) -> Raises("undefined")
                           [] OTHER -> /\ Returns(Call("scale", TRUE))
                                       /\ image' = Scale(image, o.w, o.h)
                                       /\ UNCHANGED <<files, shown>>
       IN  Scaled(GetSize(z, image.nx, image.ny, 0, FALSE, Unlimited))

\* rotate(angle, mirror): by 0 degrees the extent is not assigned, which
\* leaves the image as it should be or anything at all
SImageRotate(angle, mirror) ==
    /\ Running /\ HasImage
    /\ \/ /\ Returns(Fine)
          /\ image' = Rotate(image, angle, mirror)
          /\ UNCHANGED <<files, shown>>
       \/ RotateUndefined(angle) /\ Raises("undefined")

SImageSetTopleft ==
    /\ Running /\ HasImage
    /\ \/ /\ Returns(Call("topleft", TRUE))
          /\ image' = SetTopleft(image)
          /\ UNCHANGED <<files, shown>>
       \/ TopleftUndefined(image) /\ Raises("undefined")

\* watermark(path): the samples are no longer those of the original
SImageWatermark(n) ==
    /\ Running /\ HasImage
    /\ IF ReadWatermark(files[n])
       THEN Returns(Fine) /\ image' = AddWatermark(image) /\ UNCHANGED <<files, shown>>
       ELSE Refuses

\* write(path, params): the extension of the name gives the format
SImageWrite(n, fmt, params) ==
    /\ Running /\ HasImage
    /\ LET Kept(w) == w.file = Untouched \/ (w.err /\ KeepsOldFile(fmt) /\ files[n] # Nothing)
           Written(w) ==
              /\ Returns(Call("", ~w.err))
              /\ image' = w.im
              /\ files' = [files EXCEPT ![n] = IF Kept(w) THEN @ ELSE w.file]
              /\ shown' = [shown EXCEPT ![n] = IF Kept(w) THEN @
                                               ELSE IF w.err THEN Nothing
                                               ELSE [fmt |-> fmt, im |-> image, picture |-> Display(image)]]
       IN  IF WriteUndefined(fmt, image, params) THEN Raises("undefined") ELSE Written(Write(fmt, image, params))

\* An extension or a parameter that is not known
SImageWriteBadArguments == Running /\ HasImage /\ Raises("raised")

\* send(format): as write, to the client; "jp2" is not among the formats
SImageSend(fmt) ==
    /\ Running /\ HasImage
    /\ IF fmt = "jp2" THEN Raises("raised")
       ELSE LET Sent(w) == Returns(Call("", ~w.err)) /\ image' = w.im /\ UNCHANGED <<files, shown>>
            IN  Sent(Write(fmt, image, NoParams))

\* The handle is collected
SImageGc == Running /\ HasImage /\ Returns(Fine) /\ image' = NoHandle /\ UNCHANGED <<files, shown>>

-----------------------------------------------------------------------------
New == \E n \in Names, v \in Views, o \in BOOLEAN, h \in Hashes : SImageNew(n, v[1], v[2], o, h)
GetExif == \E tag \in {"Make", "Orientation", "unknown"} : SImageGetExif(tag)
Crop == \E r \in Regions \cup {BadRegion} : SImageCrop(r)
ScaleIt == \E z \in Sizes \cup {BadSize} : SImageScale(z)
RotateIt == \E a \in Angles, m \in BOOLEAN : SImageRotate(a, m)
Watermark == \E n \in Names : SImageWatermark(n)
WriteIt == \E n \in Names, fmt \in {"png", "jpg", "tif", "jp2"}, p \in ParamSets : SImageWrite(n, fmt, p)
Send == \E fmt \in {"png", "jpg", "tif", "jp2"} : SImageSend(fmt)
ScriptOver == (phase # "running" \/ calls = MaxCalls) /\ UNCHANGED scriptVars

ScriptNext ==
    \/ WrongArguments \/ WrongHandle \/ New \/ SImageNewBadString \/ SImageDims \/ GetExif \/ SImageGetExifgps
    \/ Crop \/ ScaleIt \/ RotateIt \/ SImageSetTopleft \/ Watermark \/ WriteIt \/ SImageWriteBadArguments
    \/ Send \/ SImageGc \/ ScriptOver

ScriptSpec == ScriptInit /\ [][ScriptNext]_scriptVars

-----------------------------------------------------------------------------
(* Properties *)

\* topleft() changes how the picture is stored and not what it shows,
\* whatever crops, turns and files the image went through before.
TopleftUpright ==
    [][called'.op = "topleft" /\ calls' # calls /\ called'.ok
         => Display(image') = Display(image) /\ image'.ori = 1]_scriptVars

\* Making an image of 8 bits smaller uses all of it: no row or column of the
\* source is skipped, whatever the two extents are.
ScaleCoversSource ==
    [][called'.op = "scale" /\ calls' # calls /\ called'.ok /\ image'.nx <= image.nx /\ image'.ny <= image.ny
         /\ image.bps = 8
         => UNION {image'.px[p] : p \in DOMAIN image'.px} = UNION {image.px[p] : p \in DOMAIN image.px}]_scriptVars

\* What decides about the picture besides its pixels
Upstanding(im) == im.ori = 1 /\ im.exif \in {-1, 0, 1}

\* What a format keeps of the metadata: TIFF has no place for the EXIF
\* orientation, and JPEG none for IPTC
KeepsMetadata(fmt, from, to) ==
    /\ (to.exif = -1) = (from.exif = -1) /\ (fmt # "tif" => to.exif = from.exif)
    /\ (to.xmp = "none") = (from.xmp = "none")
    /\ from.ess.set => to.ess = from.ess
    /\ fmt # "jpg" => to.iptc = from.iptc /\ to.loss = from.loss

\* A picture that was upright when it was written is the same picture when the
\* whole file is read again, in every format, with the metadata that the format
\* can hold: only XMP data that came out of one JPEG makes the next one lose
\* what follows it.
ReadsBack ==
    [][LET s == shown[called'.name]
           rereads == /\ called'.op = "new" /\ calls' # calls /\ called'.ok /\ called'.whole
                      /\ s # Nothing /\ Upstanding(s.im)
       IN  rereads => /\ Display(image') = s.picture
                      /\ (s.fmt = "jpg" /\ s.im.xmp = "bare") \/ KeepsMetadata(s.fmt, s.im, image')]_scriptVars

\* A file in which the reader finds the digest its samples had is accepted as
\* an original exactly when it still has these samples, after any crop, turn, conversion
\* or lossy coding a script may have done in between.
ChecksumDecides ==
    [][called'.op = "new" /\ calls' # calls /\ called'.known /\ called'.whole
         => LET f == files[called'.name]
                samples == <<f.nx, f.ny, f.px, f.nc, Bits(f, FALSE), f.loss>>
            IN  f.ess.sum[1] = "sha256" => (called'.ok <=> samples = f.ess.sum[2])]_scriptVars
=============================================================================
