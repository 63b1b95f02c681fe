------------------------------ MODULE MCIIIFLua ------------------------------
(* One script, two file names, an original of 3 x 2 pixels in one of the four formats. *)
EXTENDS IIIFLua

CONSTANTS a, b
MCNames == {a, b}
NamesSymmetry == Permutations(MCNames)

Region(t, x, y, w, h) == [type |-> t, x |-> x, y |-> y, w |-> w, h |-> h]

\* The whole, a part, and a region outside of the image
MCRegions == {Region("FULL", 0, 0, 0, 0), Region("COORDS", 1, 0, 2, 1), Region("COORDS", 5, 0, 1, 1)}

\* Smaller, half, and larger than the image
MCSizes == {Size("PIXELS_XY", FALSE, 2, 2, 0, 0), Size("REDUCE", FALSE, 0, 0, 0, 2),
            Size("PIXELS_X", FALSE, 6, 0, 0, 0)}

Whole == Region("FULL", 0, 0, 0, 0)
MCViews == {<<r, NoSize>> : r \in MCRegions} \cup {<<Whole, z>> : z \in MCSizes}

MCParamSets == {NoParams,
                [NoParams EXCEPT !.any = TRUE, !.quality = 101],
                [NoParams EXCEPT !.any = TRUE, !.pyramid = <<1, 2>>, !.tile = 2, !.packed = TRUE, !.clevels = 1, !.stiles = 2]}

Master(fmt, nc, es, bps, photo, ori, exif) ==
    [fmt |-> fmt, nx |-> 3, ny |-> 2, px |-> [p \in Grid(3, 2) |-> {p}], nc |-> nc, es |-> es, bps |-> bps,
     photo |-> photo, icc |-> "none", bw |-> FALSE, ori |-> ori, exif |-> exif,
     gps |-> [latitude |-> 47, longitude |-> 8, time |-> 1, speed |-> 5],
     iptc |-> TRUE, xmp |-> "packet", ess |-> NoEssentials, loss |-> 0,
     planar |-> "contig", packed |-> FALSE, tile |-> 0, levels |-> <<1>>, blocks |-> NoBlocks]

MCOriginals == {[Master("tif", 3, 0, 8, "rgb", 2, -1) EXCEPT !.icc = "whitepoint"],
                     Master("tif", 1, 0, 4, "palette", 1, -1),
                     Master("tif", 3, 0, 8, "lab", 5, -1),
                     Master("tif", 1, 0, 16, "gray", 1, 1), Master("tif", 1, 0, 8, "gray", 1, -1),
                     [Master("jpg", 3, 0, 8, "rgb", 1, 6) EXCEPT !.blocks = [NoBlocks EXCEPT !.iptc = TRUE, !.icc = "sRGB", !.exif = 3]],
                     Master("png", 4, 1, 8, "rgb", 1, 0),
                     [Master("jp2", 3, 0, 16, "rgb", 1, -1) EXCEPT !.levels = <<1, 1>>]}

\* The hypothesis of the theorems holds here
ASSUME MCSmallNumbers == SmallNumbers
=============================================================================
