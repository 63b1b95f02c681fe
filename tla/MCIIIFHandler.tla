--------------------------- MODULE MCIIIFHandler ---------------------------
(* A master in one of the formats, and requests for it. *)
EXTENDS IIIFHandler

Region(t, x, y, w, h) == [type |-> t, x |-> x, y |-> y, w |-> w, h |-> h]
MCRegionOf ==
    ("full" :> Region("FULL", 0, 0, 0, 0)) @@ ("square" :> Region("SQUARE", 0, 0, 0, 0))
    @@ ("4,2,4,4" :> Region("COORDS", 4, 2, 4, 4)) @@ ("6,0,9,2" :> Region("COORDS", 6, 0, 9, 2))
    @@ ("9,9,1,1" :> Region("COORDS", 9, 9, 1, 1)) @@ ("pct:25,50,50,50" :> Region("PERCENTS", 25, 50, 50, 50))

Form(up, excl, form, a, b) == [up |-> up, excl |-> excl, form |-> form, a |-> a, b |-> b]
MCSizeOf ==
    ("max" :> Form(FALSE, FALSE, "max", -1, -1)) @@ ("^max" :> Form(TRUE, FALSE, "max", -1, -1))
    @@ ("4," :> Form(FALSE, FALSE, "wh", 4, -1)) @@ (",3" :> Form(FALSE, FALSE, "wh", -1, 3))
    @@ ("4,3" :> Form(FALSE, FALSE, "wh", 4, 3)) @@ ("!4,4" :> Form(FALSE, TRUE, "wh", 4, 4))
    @@ ("pct:50" :> Form(FALSE, FALSE, "pct", 50, -1)) @@ ("^12," :> Form(TRUE, FALSE, "wh", 12, -1))
    @@ ("," :> Form(FALSE, FALSE, "wh", -1, -1))

Turned(mirror, angle) == [mirror |-> mirror, angle |-> angle]
MCRotationOf ==
    ("0" :> Turned(FALSE, 0)) @@ ("90" :> Turned(FALSE, 9000)) @@ ("!0" :> Turned(TRUE, 0))
    @@ ("22.5" :> Turned(FALSE, 2250)) @@ ("22.52" :> Turned(FALSE, 2252)) @@ ("400" :> Turned(FALSE, 40000)) @@ ("-5" :> Turned(FALSE, -500))
    @@ ("1968" :> Turned(FALSE, 196800))

MCQualityFormatOf ==
    ("default.jpg" :> <<"default", "jpg">>) @@ ("default.png" :> <<"default", "png">>)
    @@ ("default.tif" :> <<"default", "tif">>) @@ ("default.jp2" :> <<"default", "jp2">>)
    @@ ("color.png" :> <<"color", "png">>) @@ ("gray.jpg" :> <<"gray", "jpg">>) @@ ("bitonal.tif" :> <<"bitonal", "tif">>)

\* Every region with every size, every rotation with every quality
MCExtents(regions) == {<<"id", r, s, "0", "default.jpg">> : r \in regions, s \in DOMAIN MCSizeOf \ {",", "^max"}}
MCRenditions ==
    {<<"id", "full", "max", t, q>> : t \in {"0", "!0", "22.5"}, q \in DOMAIN MCQualityFormatOf}
    \cup {<<"id", "full", "max", "22.52", "default.jpg">>}
MCImages == MCExtents({"full", "4,2,4,4", "6,0,9,2", "pct:25,50,50,50"}) \cup MCRenditions

\* Parts missing, empty, unknown, with options, or such that look like others
MCOthers ==
    {<<"id", "full", "max", t, "default.jpg">> : t \in {"90", "400", "-5"}}
    \cup {<<"id", r, s, "0", "default.jpg">> : r \in {"full", "square", "9,9,1,1"}, s \in {"^max", ",", "4,"}}
    \cup {<<"pre", "id", "full", "4,", "0", "default.jpg">>, <<"full", "max", "0", "default.jpg">>,
          <<"id", "full", "max", "0", "default.jpg?x">>, <<"id", "full", "max", "0", "default.gif">>,
          <<"id", "full", "large", "0", "default.jpg">>, <<"id", "", "info.json">>, <<>>,
          <<"id">>, <<"pre", "id">>, <<"1968">>, <<"info.json">>, <<"file">>, <<"meta">>}
    \cup {<<i, s>> : i \in {"id", "1968"}, s \in {"info.json", "file", "meta"}}
    \cup {<<"pre", "id", s>> : s \in {"info.json", "file", "meta"}}

Restricted(z) == Access("restrict", z, FALSE, FALSE)
Watermark == Access("restrict", Undefined, TRUE, FALSE)
Others == {Access("error", Undefined, FALSE, FALSE), Access("allow", Undefined, FALSE, FALSE),
           Access("deny", Undefined, FALSE, FALSE), Access("restrict", Undefined, FALSE, FALSE),
           Access("login", Undefined, FALSE, FALSE), Access("login", Undefined, FALSE, TRUE),
           Access("restrict", BadSize, FALSE, FALSE)}

MCRequests == (MCImages \X {NoPreflight, Restricted(Size("MAXDIM", FALSE, 4, 4, 0, 0))})
              \cup (MCExtents({"full"}) \X {Restricted(Size("PERCENTS", FALSE, 0, 0, 50, 0))})
              \cup (MCRenditions \X {Watermark}) \cup (MCOthers \X {NoPreflight})
              \cup ({<<"id", "full", "4,", "0", "default.jpg">>, <<"id", "info.json">>, <<"id", "file">>} \X Others)

Master(nx, ny, fmt, nc, es, bps, photo, tile, levels) ==
    [fmt |-> fmt, nx |-> nx, ny |-> ny, px |-> <<>>, nc |-> nc, es |-> es, bps |-> bps, photo |-> photo, icc |-> "none",
     bw |-> FALSE, ori |-> 1, exif |-> -1, gps |-> NoGps, iptc |-> FALSE, xmp |-> "none", ess |-> NoEssentials, loss |-> 0,
     planar |-> "contig", packed |-> TRUE, tile |-> tile, levels |-> levels, blocks |-> NoBlocks]

\* Sides that the factors divide, sides that they do not
MCMasters ==
    {Master(9, 7, "png", 4, 1, 8, "rgb", 0, <<1>>), Master(17, 10, "jpg", 3, 0, 8, "rgb", 0, <<1>>),
     Master(17, 10, "tif", 3, 0, 8, "rgb", 4, <<1, 2, 4>>), Master(17, 10, "jp2", 3, 0, 8, "rgb", 0, <<1, 1, 1>>),
     Master(8, 6, "tif", 1, 0, 16, "gray", 0, <<1>>), Master(5, 9, "tif", 3, 0, 8, "rgb", 0, <<1, 2, 4>>),
     Master(8, 6, "damaged", 3, 0, 8, "rgb", 0, <<1>>), Master(8, 6, "text", 3, 0, 8, "rgb", 0, <<1>>)}

ASSUME MCNumbersFit == NumbersFit

MCLimits == [w |-> 0, h |-> 0]
MCScalingQuality == [f \in {"png", "jpg", "tif", "jp2"} |-> IF f \in {"png", "jpg"} THEN "medium" ELSE "high"]
=============================================================================
