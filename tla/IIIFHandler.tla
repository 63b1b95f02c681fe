----------------------------- MODULE IIIFHandler ----------------------------
(***************************************************************************)
(* The IIIF handler: how a URL is taken apart and dispatched, and what is  *)
(* sent for it - a rendition of the image, its info.json, the file itself, *)
(* a configured special, a redirect or an error.                           *)
(*                                                                         *)
(* A URL is the sequence of its decoded parts behind the route; a part is  *)
(* a token, and the functions RegionOf, SizeOf ... say which tokens match  *)
(* the regular expression of a parameter and what their constructors see.  *)
(* An answer has the status of the HTTP response, or                       *)
(*   Closed    an exception leaves the handler and processRequest() closes *)
(*             the connection without a response,                          *)
(*   Dead      nobody catches the exception and the process ends.          *)
(* A rendition says what was read of the master and what was done to it.   *)
(* Requests are served one at a time here; their interleaving in the cache *)
(* is the subject of module IIIFCache.                                     *)
(***************************************************************************)
EXTENDS ImageFormats

CONSTANTS Requests,         \* pairs of a URL and the answer of the preflight function
          RegionOf, SizeOf, RotationOf, QualityFormatOf,
          Specials,         \* the names of configured special requests
          Masters,          \* the files that may be behind the identifiers
          Scripts,          \* what a route may name instead of the C++ handler
          Limits,           \* iiif_max_image_width and _height, 0: none
          ScalingQuality,   \* the scaling method by format
          MaxRequests       \* bound: requests, the ones before the last with an image in answer

\* The values of a parameter that its regular expression admits: "red:n" is no
\* size in a URL, but may be a restriction.  A percentage of 0 is left out: the
\* code divides by it.
Numbers == Nat \cup {-1}

ASSUME ParametersAssumption ==
    /\ \A t \in DOMAIN RegionOf :
          RegionOf[t] \in [type : {"FULL", "SQUARE", "COORDS", "PERCENTS"}, x : Numbers, y : Numbers, w : Numbers, h : Numbers]
    /\ \A t \in DOMAIN SizeOf :
          /\ SizeOf[t] \in [up : BOOLEAN, excl : BOOLEAN, form : {"max", "pct", "wh"}, a : Numbers, b : Numbers]
          /\ SizeOf[t].form = "pct" => SizeOf[t].a # 0
    /\ \A t \in DOMAIN RotationOf : RotationOf[t] \in [mirror : BOOLEAN, angle : Int]

\* The first directory of a TIFF is the image, and none is less than a pixel.
ASSUME MastersAssumption ==
    \A f \in Masters :
        /\ f.nx \in 1..LargestSide /\ f.ny \in 1..LargestSide /\ f.levels \in Seq(Nat \ {0})
        /\ f.fmt = "tif" => /\ f.levels # <<>> /\ f.levels[1] = 1
                            /\ \A i \in DOMAIN f.levels : f.levels[i] <= Smaller(f.nx, f.ny)

ASSUME LimitsAssumption == Limits \in [w : Nat, h : Nat]

\* The numbers of a region that crop_coords() can add up in 32 bits
NumbersFit ==
    \A f \in Masters, t \in DOMAIN RegionOf :
        LET c == Corner(ParseRegion(RegionOf[t]), 1, f.nx, f.ny)
        IN  /\ 2 * f.nx < Word /\ 2 * c[1] < Word /\ 2 * c[3] < Word
            /\ 2 * f.ny < Word /\ 2 * c[2] < Word /\ 2 * c[4] < Word

VARIABLES file,       \* the master behind every identifier
          watermark,  \* whether there is a file watermark.tif
          cache,      \* the renditions by canonical URL
          last,       \* the last request and its answer
          requests

vars == <<file, watermark, cache, last, requests>>

Closed == -1
Dead == -2

Missing == [fmt |-> "missing"]
NoRendition == [fmt |-> "none"]

Answer(status, what) == [status |-> status, what |-> what, rendition |-> NoRendition, hit |-> FALSE]
Error(status) == Answer(status, "error")

Access(type, size, wm, urls) == [type |-> type, size |-> size, watermark |-> wm, urls |-> urls]
NoPreflight == Access("none", Undefined, FALSE, FALSE)

ASSUME RequestsAssumption ==
    \A q \in Requests :
        /\ q = <<q[1], Access(q[2].type, q[2].size, q[2].watermark, q[2].urls)>>
        /\ q[1] \in Seq(STRING) /\ IsSize(q[2].size) /\ q[2].watermark \in BOOLEAN

Init ==
    /\ file \in Masters \cup {Missing}
    /\ watermark \in BOOLEAN
    /\ cache = <<>>
    /\ last = [url |-> <<>>, access |-> NoPreflight, answer |-> Answer(0, "none")]
    /\ requests = 0

-----------------------------------------------------------------------------
(* IIIFHandler::handler() *)

\* The k-th part from the end, if there are so many, matches
Matches(url, k, Of) == Len(url) > k /\ url[Len(url) - k] \in DOMAIN Of
Conforming(url) == {k \in 0..3 : Matches(url, k, <<QualityFormatOf, RotationOf, SizeOf, RegionOf>>[k + 1])}

\* Where a URL goes.  One conforming part makes the others errors, so that a
\* number in front of info.json is taken for a rotation.
Dispatch(url) ==
    IF url = <<>> \/ \E i \in DOMAIN url : url[i] = "" THEN "bad"
    ELSE IF Conforming(url) = 0..3 THEN "image"
    ELSE IF Conforming(url) # {} THEN "bad"
    ELSE IF url[Len(url)] \in {"info.json", "file"} THEN url[Len(url)]
    ELSE IF url[Len(url)] \in Specials THEN "special"
    ELSE "redirect"

\* The position of the identifier; what precedes it is the prefix
IdentifierAt(url, to) == Len(url) - (CASE to = "image" -> 4 [] to = "redirect" -> 0 [] OTHER -> 1)

\* The last part that is not there is never assigned, and looking it up throws
NoIdentifier(url, to) == IdentifierAt(url, to) = 0
PrefixAndId(url, to) == SubSeq(url, 1, IdentifierAt(url, to))

-----------------------------------------------------------------------------
(* send_iiif_file() *)

Asked(url) ==
    LET n == Len(url)
    IN  [region |-> ParseRegion(RegionOf[url[n - 3]]), size |-> ParseSize(SizeOf[url[n - 2]]),
         rotation |-> ParseRotation(RotationOf[url[n - 1]]),
         qf |-> ParseQualityFormat(QualityFormatOf[url[n]][1], QualityFormatOf[url[n]][2])]

WellFormed(a) == a.region.type # "ERROR" /\ a.size.type # "ERROR" /\ ~a.rotation.err /\ ~a.qf.err

\* Without a preflight function the file is in the image root; a restriction
\* has to name a watermark or a size, and other types are not for images
Admitted(acc) ==
    \/ acc.type \in {"none", "allow"}
    \/ acc.type = "restrict" /\ (acc.watermark \/ acc.size # Undefined)

Restriction(acc) == IF acc.type = "restrict" THEN acc.size ELSE Undefined
Watermarked(acc) == acc.type = "restrict" /\ acc.watermark

SizeOn(z) == GetSize(z, file.nx, file.ny, 0, FALSE, Limits)

\* A size larger than the restriction on the whole image is replaced by it
SizeToSend_NoRestriction(z, acc) == z
SizeToSend(z, acc) ==
    LET r == Restriction(acc)
    IN  IF ~IsUndefined(r) /\ Exceeds(SizeOn(z), SizeOn(r)) THEN r ELSE z

Canonical(url, a, z) ==
    GetCanonicalUrl(PrefixAndId(url, "image"), a.region, z, a.rotation, a.qf, file.nx, file.ny, Limits)

\* The master as it is
SentAsIs(a, z, acc) ==
    /\ a.region.type = "FULL" /\ z.type = "FULL" /\ a.rotation.angle = 0 /\ ~a.rotation.mirror
    /\ ~Watermarked(acc) /\ a.qf.format = file.fmt /\ a.qf.quality = "default"

Original == [fmt |-> file.fmt, plan |-> Plan("none", [x |-> 0, y |-> 0, w |-> file.nx, h |-> file.ny], 1,
                                             file.nx, file.ny, "asked"),
             mirror |-> FALSE, angle |-> 0, watermark |-> FALSE, quality |-> "default"]

\* The image after the quality: an image without one keeps its samples
InQuality(im, quality) ==
    CASE quality = "color"   -> ConvertToIcc(im, "sRGB", 8)
      [] quality = "gray"    -> ConvertToIcc(im, "gray", 8)
      [] quality = "bitonal" -> ToBitonal(im)
      [] OTHER               -> Done(im)

\* A JPEG is brought to sRGB of 8 bits without extra samples first
ForJpeg(opaque) == IF opaque.err THEN NoImage ELSE ConvertToIcc(opaque.im, "sRGB", 8)
WriteOut(im, fmt) ==
    LET Converted(c) == IF c.err THEN Failed(im) ELSE Write(fmt, c.im, NoParams)
    IN  Converted(IF fmt = "jpg" THEN ForJpeg(DropAlpha(im)) ELSE Done(im))

\* The TIFF reader scales by the method for JPEG
ScaledBy == ScalingQuality[IF file.fmt = "tif" THEN "jpg" ELSE file.fmt]

\* Read, turn, convert, mark and write; the plan is of what is read.  What IIIFImage::read() says of a
\* region outside is not caught, nor is a conversion that lcms refuses.
Transcode(a, z, acc) ==
    LET Rendition(plan, lost) ==
            [fmt |-> a.qf.format, plan |-> IF lost THEN [plan EXCEPT !.pixels = "undefined"] ELSE plan,
             mirror |-> a.rotation.mirror, angle |-> a.rotation.angle,
             watermark |-> Watermarked(acc), quality |-> a.qf.quality]
        Lost(im, q) == \/ a.rotation.mirror /\ RotateUndefined(a.rotation.angle)
                       \/ a.qf.quality = "bitonal" /\ ToBitonalUndefined(im)
                       \/ WriteUndefined(a.qf.format, q.im, NoParams)
        Converted(plan, im, q) ==
            IF q.err THEN Error(Closed)
            ELSE IF Watermarked(acc) /\ ~watermark THEN Error(500)
            ELSE IF WriteOut(q.im, a.qf.format).err THEN Error(500)
            ELSE [Answer(200, "image") EXCEPT !.rendition = Rendition(plan, Lost(im, q))]
        Got(plan, im) ==
            IF plan.err = "image" THEN Error(500)
            ELSE IF plan.err = "size" THEN Error(400)
            ELSE IF plan.err = "iiif" THEN Error(Closed)
            ELSE Converted(plan, im, InQuality(im, a.qf.quality))
        Read(plan) == Got(plan, ImageWith(plan.nx, plan.ny, <<>>, ReadFields(file, a.qf.format = "jpg")))
    IN  Read(ReadPlan(file, a.region, z, Limits, ScaledBy))

\* The answer, and the key it is cached under when it was transcoded
SendIiifFile(url, acc) ==
    LET No(answer) == [answer |-> answer, key |-> <<>>]
        Named(a, z, c) ==
            IF c.err THEN No(Error(400))
            ELSE IF SentAsIs(a, z, acc) THEN No([Answer(200, "image") EXCEPT !.rendition = Original])
            ELSE IF c.url \in DOMAIN cache
                 THEN No([Answer(200, "image") EXCEPT !.rendition = cache[c.url], !.hit = TRUE])
            ELSE [answer |-> Transcode(a, z, acc), key |-> c.url]
        Sized(a, z) == Named(a, z, Canonical(url, a, z))
        Parsed(a) ==
            IF ~WellFormed(a) THEN No(Error(400))
            ELSE IF acc.type = "error" THEN No(Error(500))
            ELSE IF Restriction(acc).type = "ERROR" THEN No(Error(Closed))
            ELSE IF ~Admitted(acc) THEN No(Error(401))
            ELSE IF file = Missing THEN No(Error(404))
            ELSE IF GetDim(file).err THEN No(Error(500))
            ELSE IF SizeOn(a.size).err \/ SizeOn(Restriction(acc)).err THEN No(Error(400))
            ELSE Sized(a, SizeToSend(a.size, acc))
    IN  IF NoIdentifier(url, "image") THEN No(Error(Dead)) ELSE Parsed(Asked(url))

-----------------------------------------------------------------------------
(* send_iiif_info(), send_iiif_blob(), send_iiif_special() *)

IsImage == file.fmt \in {"png", "jpg", "tif", "jp2", "damaged"}
Login(acc) == acc.type = "login"

\* The tiles of info.json: the loop opens a group with each new extent of a
\* tile and writes the one before, so that the first is empty and the factor
\* that opens a group is missing.
Tiles(resolutions) ==
    LET tiled == SelectSeq(resolutions, LAMBDA r : r.tw > 0)
    IN  IF tiled = <<>> THEN <<>>
        ELSE <<[w |-> 0, h |-> 0, factors |-> <<>>]>>
             \o IF Len(tiled) = 1 THEN <<>>
                ELSE <<[w |-> tiled[1].tw, h |-> tiled[1].th, factors |-> [i \in 1..(Len(tiled) - 1) |-> tiled[i + 1].reduce]]>>

\* The smaller extents
OtherSizes(resolutions) == {r.reduce : r \in {r \in Range(resolutions) : r.reduce > 1}}

\* Only the cache has a list of resolutions
ImageInfo ==
    LET known == IF cache = <<>> THEN <<>> ELSE GetDim(file).resolutions
    IN  [fmt |-> "info", width |-> file.nx, height |-> file.ny, sizes |-> OtherSizes(known), tiles |-> Tiles(known)]

SendIiifInfo(url, acc) ==
    IF NoIdentifier(url, "info.json") THEN Error(Dead)
    ELSE IF acc.type = "error" \/ file = Missing THEN Error(500)
    ELSE IF Login(acc) /\ ~acc.urls THEN Error(500)
    ELSE IF IsImage /\ GetDim(file).err THEN Error(500)
    ELSE [Answer(IF Login(acc) THEN 401 ELSE 200, "info") EXCEPT !.rendition =
            IF IsImage THEN ImageInfo ELSE [fmt |-> "fileinfo"]]

\* The file, or the range the client asks for
SendIiifBlob(url, acc, range) ==
    IF NoIdentifier(url, "file") THEN Error(Dead)
    ELSE IF acc.type = "error" THEN Error(500)
    ELSE IF acc.type \notin {"none", "allow", "restrict"} THEN Error(401)
    ELSE IF file = Missing THEN Error(404)
    ELSE IF range = "bad" THEN Error(400)
    ELSE Answer(IF range = "part" THEN 206 ELSE 200, "file")

\* A failure of the function is part of a good answer
SendIiifSpecial(url) == IF NoIdentifier(url, "special") THEN Error(Dead) ELSE Answer(200, "special")

\* A route that names a script is the script's business
RunScript(script) ==
    CASE script = "run"       -> Answer(200, "script")
      [] script = "not there" -> Error(404)
      [] OTHER                -> Error(500)   \* no route data, no name, not Lua, an error of the script

-----------------------------------------------------------------------------
Handled(url, acc, answer) ==
    /\ last' = [url |-> url, access |-> acc, answer |-> answer]
    /\ requests' = requests + 1
    /\ UNCHANGED <<file, watermark>>

\* The bound: a further request is only looked at when there is something in
\* the cache for it
Alive == requests < MaxRequests /\ (requests = 0 \/ cache # <<>>) /\ last.answer.status # Dead

ImageRequest(url, acc) ==
    LET With(key, r) == [k \in DOMAIN cache \cup {key} |-> IF k = key THEN r ELSE cache[k]]
        Sent(s) == /\ Handled(url, acc, s.answer)
                   /\ cache' = IF s.key # <<>> /\ s.answer.status = 200
                               THEN With(s.key, s.answer.rendition) ELSE cache
    IN  Sent(SendIiifFile(url, acc))

InfoRequest(url, acc) == Handled(url, acc, SendIiifInfo(url, acc)) /\ UNCHANGED cache

BlobRequest(url, acc) ==
    /\ \E range \in {"all", "part", "bad"} : Handled(url, acc, SendIiifBlob(url, acc, range))
    /\ UNCHANGED cache

SpecialRequest(url, acc) == Handled(url, acc, SendIiifSpecial(url)) /\ UNCHANGED cache

Redirect(url, acc) == Handled(url, acc, Answer(303, "redirect")) /\ UNCHANGED cache

BadRequest(url, acc) == Handled(url, acc, Error(400)) /\ UNCHANGED cache

Request(url, acc) ==
    LET to == Dispatch(url)
    IN  \/ to = "image" /\ ImageRequest(url, acc)
        \/ to = "info.json" /\ InfoRequest(url, acc)
        \/ to = "file" /\ BlobRequest(url, acc)
        \/ to = "special" /\ SpecialRequest(url, acc)
        \/ to = "redirect" /\ Redirect(url, acc)
        \/ to = "bad" /\ BadRequest(url, acc)

ScriptRequest == Alive /\ (\E s \in Scripts : Handled(<<>>, NoPreflight, RunScript(s))) /\ UNCHANGED cache

Over == ~Alive /\ UNCHANGED vars

Next == (Alive /\ \E q \in Requests : Request(q[1], q[2])) \/ ScriptRequest \/ Over

Spec == Init /\ [][Next]_vars

-----------------------------------------------------------------------------
(* Properties *)

SentImage == last.answer.what = "image" /\ last.answer.status = 200

\* What the rendition was made for
LastAsked == Asked(last.url)
LastSize == SizeToSend(LastAsked.size, last.access)

\* The part of the master a region names, by the IIIF Image API; no extent
\* means up to the border
NamedArea(r) ==
    LET side == Smaller(file.nx, file.ny)
        Cut(at, len, n) == [at |-> at, len |-> IF len = 0 \/ at + len > n THEN n - at ELSE len]
        h == CASE r.type = "FULL"     -> Cut(0, file.nx, file.nx)
               [] r.type = "SQUARE"   -> Cut((file.nx - side) \div 2, side, file.nx)
               [] r.type = "PERCENTS" -> Cut(LRound(r.x * file.nx, 100), LRound(r.w * file.nx, 100), file.nx)
               [] OTHER               -> Cut(r.x, r.w, file.nx)
        v == CASE r.type = "FULL"     -> Cut(0, file.ny, file.ny)
               [] r.type = "SQUARE"   -> Cut((file.ny - side) \div 2, side, file.ny)
               [] r.type = "PERCENTS" -> Cut(LRound(r.y * file.ny, 100), LRound(r.h * file.ny, 100), file.ny)
               [] OTHER               -> Cut(r.y, r.h, file.ny)
    IN  [x |-> h.at, y |-> v.at, w |-> h.len, h |-> v.len]

\* Whether nx x ny is what a size means on w x h; a derived side may be
\* rounded either way
Rounded(n, a, b) == n * b < a + b /\ a < n * b + b
MeansExtent(z, w, h, nx, ny) ==
    CASE z.type = "PIXELS_XY" -> nx = z.nx /\ ny = z.ny
      [] z.type = "PIXELS_X"  -> nx = z.nx /\ Rounded(ny, h * nx, w)
      [] z.type = "PIXELS_Y"  -> ny = z.ny /\ Rounded(nx, w * ny, h)
      [] z.type = "PERCENTS"  -> Rounded(nx, w * z.percent, 100) /\ Rounded(ny, h * z.percent, 100)
      [] z.type = "MAXDIM"    -> /\ nx <= z.nx /\ ny <= z.ny /\ (nx = z.nx \/ ny = z.ny)
                                 /\ Rounded(ny, h * nx, w) \/ Rounded(nx, w * ny, h)
      [] OTHER                -> nx = w /\ ny = h

Near(a, b, by) == a - b < by /\ b - a < by

Pyramid == file.fmt = "tif" /\ Len(file.levels) > 1
Wanted(j2k) == GetSize(LastSize, NamedArea(LastAsked.region).w, NamedArea(LastAsked.region).h, 1, j2k, Limits)

\* Where the extent is known to be another one: JPEG2000 takes a power of two
\* for a factor that gives the size exactly, a percentage is taken again of
\* the level of a pyramid, and only the PNG reader grows an image to the limits.
OtherExtent ==
    \/ file.fmt = "jp2" /\ ~AsItIs(LastSize) /\ Wanted(TRUE).redonly
    \/ Pyramid /\ LastSize.type = "PERCENTS"
    \/ LastSize.type = "FULL" /\ LastSize.up /\ Limits.w > 0

\* Where the rectangle is known to be another one: its numbers are divided by
\* the factor that the size calls for, whatever the level has.
OtherPlace(by) == Pyramid /\ LastAsked.region.type = "COORDS" /\ Wanted(FALSE).reduce # by

\* Where one canonical URL stands for two renditions: its size is that of the
\* whole image also with a region, and the readers that have levels give other
\* extents to sizes that mean the same.
SharedKey ==
    /\ last.answer.hit /\ LastSize.type # "FULL"
    /\ LastAsked.region.type # "FULL" \/ file.fmt = "jp2" \/ Pyramid

\* A key has the angle in tenths of a degree
SameAngle(a, b) == IF last.answer.hit THEN Near(a, b, 10) ELSE a = b

\* A rendition shows the region that the URL names, in the extent that its
\* size (or the restriction that replaced it) means of this region, turned,
\* converted and coded as it says, whichever reader took which level of which
\* master and whether it was transcoded now or for an earlier request.  On a
\* pyramid the extent is that of the rectangle in the level, which rounds.
DeliveredAsAsked ==
    SentImage /\ ~OtherExtent /\ ~SharedKey /\ last.answer.rendition.plan.pixels = "asked" =>
        LET r == last.answer.rendition
            p == r.plan
            n == NamedArea(LastAsked.region)
            of == IF Pyramid THEN [w |-> p.w, h |-> p.h] ELSE [w |-> n.w, h |-> n.h]
            within == IF p.by = 1 THEN 1 ELSE 2 * p.by
        IN  /\ MeansExtent(LastSize, of.w, of.h, p.nx, p.ny)
            /\ OtherPlace(p.by) \/ (Near(p.x * p.by, n.x, within) /\ Near(p.y * p.by, n.y, within))
            /\ r.mirror = LastAsked.rotation.mirror /\ SameAngle(r.angle, LastAsked.rotation.angle)
            /\ r.quality = LastAsked.qf.quality /\ r.fmt = LastAsked.qf.format

LargestAllowed(r) == IF r.type = "MAXDIM" THEN [w |-> r.nx, h |-> r.ny] ELSE SizeOn(r)

\* A derived side follows the proportions of the level, which are rounded
Slack(by) == IF Pyramid /\ by > 1 THEN 2 ELSE 0

\* Under a restricted size the image as a whole is never sent larger than the
\* restriction allows, by no size, no upscaling, no direct sending of the
\* master and no rendition cached for somebody without the restriction.  A
\* restriction "max" or "red:n" restricts nothing (IsUndefined).
RestrictionHolds ==
    SentImage /\ ~IsUndefined(Restriction(last.access)) /\ LastAsked.region.type = "FULL" /\ ~OtherExtent /\ ~SharedKey =>
        LET l == LargestAllowed(Restriction(last.access))
            p == last.answer.rendition.plan
        IN  p.nx <= l.w + Slack(p.by) /\ p.ny <= l.h + Slack(p.by)

\* What is sent from the cache is what transcoding the master for this request
\* would give, although the request that filled the cache was written in other
\* words.  The watermark, which is no part of the key, is left aside, and so is
\* how the PNG and the JPEG readers reduce before they scale.
HitIsFresh ==
    last.answer.hit /\ ~SharedKey =>
        LET r == last.answer.rendition
            fresh == Transcode(LastAsked, LastSize, [last.access EXCEPT !.watermark = FALSE]).rendition
        IN  /\ r.plan.nx = fresh.plan.nx /\ r.plan.ny = fresh.plan.ny
            /\ r.plan = fresh.plan \/ (LastSize.type # "FULL" /\ file.fmt \in {"png", "jpg"})
            /\ r.mirror = fresh.mirror /\ SameAngle(r.angle, fresh.angle)
            /\ r.quality = fresh.quality /\ r.fmt = fresh.fmt

\* A side of the level a reader takes: the decoder of JPEG reduces to eighths
LevelSide(n, by) == IF file.fmt = "jpg" THEN DecodedExtent(n, by) ELSE CeilDiv(n, by)

\* The rectangle a reader takes lies inside of the level it reads, for every
\* region that is not refused: a region that reaches over the border is cut,
\* with rounded numbers and with those divided for a level.  Only where nothing
\* is read is it empty.
RegionInside ==
    SentImage => LET p == last.answer.rendition.plan
                 IN  /\ p.x >= 0 /\ p.x + p.w <= LevelSide(file.nx, p.by)
                     /\ p.y >= 0 /\ p.y + p.h <= LevelSide(file.ny, p.by)
                     /\ p.pixels = "undefined" \/ (p.w > 0 /\ p.h > 0)

=============================================================================
