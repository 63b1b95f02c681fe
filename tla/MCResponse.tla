----------------------------- MODULE MCResponse -----------------------------
(* Ranges for the runs of Response.                                        *)
EXTENDS Response

\* Every range from a byte of the file or the place behind it to another, in
\* either order, and the one of a request without an end.
AllRanges == [n \in Sizes |-> (0..n) \X (0..n) \cup {<<0, n - 1>>}]
=============================================================================
