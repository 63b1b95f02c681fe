------------------------------ MODULE MCRequest ------------------------------
(* The requests for the model checker: every short file in a form, in one     *)
(* piece and in chunks of every length; forms with several parts; bodies of   *)
(* every content type; bodies at and beyond the limit.                        *)
EXTENDS Request

CONSTANTS DataLen

Letters == {CR, LF, Dash, Text, X}
Plain == [method |-> "POST", query |-> 0, connection |-> "keep-alive", type |-> "plain",
          framing |-> "length", chunk |-> 100, text |-> <<X>>, parts |-> <<>>, trailer |-> TRUE]
Form(parts) == [Plain EXCEPT !.type = "multipart", !.parts = parts]
File(d)  == [file |-> TRUE, name |-> 1, data |-> d]
Value(d) == [file |-> FALSE, name |-> 2, data |-> d]
Xs(n) == [i \in 1..n |-> X]

Files == {Form(<<File(d)>>) : d \in BoundedSeq(Letters, DataLen)}
Samples == {<<>>, <<X>>, <<CR, LF>>, <<CR, CR>>, <<X, CR, LF, X>>, <<CR, LF, Dash, CR>>, <<Dash, Dash, LF>>}
Several == {Form(<<Value(d)>>) : d \in Samples}
           \cup {Form(<<File(d), Value(d)>>) : d \in Samples}
           \cup {Form(<<Value(d), Value(<<X>>)>>) : d \in Samples}
           \cup {Form(<<Value(<<X>>), File(d), [File(e) EXCEPT !.name = 3]>>) : d \in Samples, e \in {<<>>, <<CR>>}}
ChunkedForms == {[f EXCEPT !.framing = "chunked", !.chunk = k] :
                    f \in {g \in Several : Len(g.parts) < 3} \cup {Form(<<File(d)>>) : d \in BoundedSeq({CR, LF, X}, 2)},
                    k \in 1..12}
Bodies ==
    LET texts == {<<>>, <<X, CR, LF>>, <<Num("a", 1), Num("b", 2), Num("a", 3)>>, Xs(MaxPost), Xs(MaxPost + 1)}
    IN  {[Plain EXCEPT !.method = m, !.type = t, !.framing = f, !.text = b, !.chunk = 30, !.query = q] :
            m \in {"POST", "DELETE", "GET"}, t \in {"plain", "urlencoded", "unknown"},
            f \in {"none", "length", "chunked"}, b \in texts, q \in {0, 5}}
Unreads == {[Plain EXCEPT !.method = "GET", !.text = <<Ch("HEAD"), CR, LF, CR, LF>>]}
Ends == {[Plain EXCEPT !.connection = c, !.method = m] : c \in {"none", "close", "keep-alive"}, m \in {"CORS", "OTHER", "PUT"}}
        \cup {[Form(<<File(<<X>>)>>) EXCEPT !.trailer = FALSE]}

TheFollowers == {[Plain EXCEPT !.method = "HEAD", !.framing = "none", !.type = "none"], Plain}
TheRequests == Files \cup Several \cup ChunkedForms \cup Bodies \cup Unreads \cup Ends \cup TheFollowers
=============================================================================
