------------------------------ MODULE Request ------------------------------
(***************************************************************************)
(* The input side of class Connection (lib/Connection.cpp): how the        *)
(* constructor reads a request from the stream, with safeGetline() of      *)
(* HttpHelpers.cpp and the ChunkReader, how the parts of a form arrive as  *)
(* parameters and temporary files, and what processRequest() leaves behind.*)
(*                                                                         *)
(* The stream is a sequence of tokens.  CR, LF, a dash, the text of the    *)
(* boundary and other text are tokens of one byte each; the first line of  *)
(* a request, a header line and the size line of a chunk are one token.    *)
(* A stream that has no more tokens is at its end: the client has closed   *)
(* it, or the server has after the keep-alive timeout.                     *)
(***************************************************************************)
EXTENDS Integers, Sequences, FiniteSets, SequencesExt

CONSTANTS
    Requests,     \* the requests clients make
    Followers,    \* those of them that are made on a connection that was kept
    Cuts,         \* how many tokens before the end of a request a client may leave
    MaxPost,      \* max_post_size; 0 is no limit
    MaxRequests   \* bound on the requests of a connection

VARIABLES
    rd,     \* the stream and the ChunkReader on it
    req,    \* the Connection object
    part,   \* the local variables of the loop over the parts of a form
    pc,     \* where the constructor or processRequest() is
    disk,   \* the temporary files, by number: contents, and whether they exist
    sent,   \* the requests the client has made, and how much of each it kept back
    served  \* the requests that were given to a handler, in order

vars == <<rd, req, part, pc, disk, sent, served>>

-----------------------------------------------------------------------------
(* Tokens.                                                                 *)

Num(c, n) == [c |-> c, n |-> n]
Ch(c)     == Num(c, 0)
CR   == Ch("cr")
LF   == Ch("lf")
Dash == Ch("-")
Text == Ch("B")            \* the boundary the client has chosen
X    == Ch("x")
EOF  == Ch("eof")
CRLF == <<CR, LF>>

Methods  == {"GET", "HEAD", "POST", "PUT", "DELETE", "TRACE", "OPTIONS", "CORS", "OTHER"}
Types    == {"none", "urlencoded", "multipart", "plain", "unknown"}

\* All tokens; "a" and "b" are names of parameters.
Kinds == Methods \cup Types \cup
         {"cr", "lf", "-", "B", "x", "eof", "keep-alive", "close", "content-length", "chunked",
          "size", "file", "field", "name", "a", "b"}
Token == [c : Kinds, n : Nat]

Boundary     == <<Dash, Dash, Text>>
LastBoundary == Boundary \o <<Dash, Dash>>
NlBoundary   == CRLF \o Boundary

\* A request of the client: its method ("CORS" is OPTIONS with the headers of a
\* preflight request), the value of the parameter a in the query (0 if there is
\* none), its Connection and Content-Type headers, how the body is framed, the
\* length of the chunks, and the body: text, or the parts of a form and whether
\* an empty line follows the last boundary.
FramingOf == {"none", "length", "chunked"}

ASSUME RequestAssumption ==
    /\ Followers \subseteq Requests
    /\ MaxPost \in Nat /\ MaxRequests \in Nat /\ Cuts \subseteq Nat /\ 0 \in Cuts
    /\ \A r \in Requests :
          /\ r.method \in Methods /\ r.type \in Types /\ r.framing \in FramingOf
          /\ r.connection \in {"none", "keep-alive", "close"}
          /\ r.chunk \in Nat \ {0} /\ r.query \in Nat /\ r.trailer \in BOOLEAN
          /\ r.text \in Seq(Token)
          /\ r.parts \in Seq([file : BOOLEAN, name : Nat, data : Seq(Token)])

\* External: the bytes an HTTP client sends.
PartHead(p) == Boundary \o CRLF \o <<Num(IF p.file THEN "file" ELSE "field", p.name)>> \o CRLF \o CRLF
FormBody(r) == FlattenSeq([i \in DOMAIN r.parts |-> PartHead(r.parts[i]) \o r.parts[i].data \o CRLF])
               \o LastBoundary \o (IF r.trailer THEN CRLF ELSE <<>>)
Body(r) == IF r.framing = "none" THEN <<>>
           ELSE IF r.type = "multipart" THEN FormBody(r) ELSE r.text

Chunks(b, k) ==
    LET n == (Len(b) + k - 1) \div k
        piece(i) == SubSeq(b, (i - 1) * k + 1, IF i * k < Len(b) THEN i * k ELSE Len(b))
    IN  FlattenSeq([i \in 1..n |-> <<Num("size", Len(piece(i)))>> \o CRLF \o piece(i) \o CRLF])
        \o <<Num("size", 0)>> \o CRLF \o CRLF

Wire(r) ==
    LET head(c) == <<c>> \o CRLF
    IN  head(Num(r.method, r.query))
        \o (IF r.connection = "none" THEN <<>> ELSE head(Ch(r.connection)))
        \o (IF r.type = "none" THEN <<>> ELSE head(Ch(r.type)))
        \o (CASE r.framing = "length"  -> head(Num("content-length", Len(Body(r))))
              [] r.framing = "chunked" -> head(Ch("chunked"))
              [] OTHER                 -> <<>>)
        \o CRLF
        \o (IF r.framing = "chunked" THEN Chunks(Body(r), r.chunk) ELSE Body(r))

-----------------------------------------------------------------------------
(* Reading.  An operation returns the stream after it and how it ended,    *)
(* and with them what it read.                                             *)

Stream(tokens) == [in |-> tokens, eof |-> FALSE, size |-> 0, pos |-> 0]
Rest(s, n)     == SubSeq(s, n + 1, Len(s))
IsEol(c)       == c \in {CR, LF}
Over(n)        == MaxPost > 0 /\ n > MaxPost

\* A line that ends at e, 0 if no end is in the stream.  A CR at the end of the
\* stream is followed by a peek(), which meets the end.
LineTo(e, r, max_n) ==
    LET m    == IF e = 0 THEN Len(r.in) ELSE e - 1
        eof  == e = 0 \/ (r.in[e] = CR /\ e = Len(r.in))
        n    == IF e = 0 THEN m
                ELSE IF ~eof /\ r.in[e] = CR /\ r.in[e + 1] = LF THEN m + 2 ELSE m + 1
    IN  [rd |-> [r EXCEPT !.in = Rest(@, n), !.eof = eof], line |-> SubSeq(r.in, 1, m), n |-> n,
         x |-> IF max_n > 0 /\ m >= max_n THEN "Error" ELSE "ok"]

\* max_n = 0 is no limit.
safeGetline(r, max_n) == LineTo(SelectInSeq(r.in, IsEol), r, max_n)

\* The line that must follow is read and dropped.
Skipped(l)  == [rd |-> l.rd, x |-> IF l.rd.eof THEN "InputFailure" ELSE "ok"]
SkipLine(r) == Skipped(safeGetline(r, 0))

\* The size line of the next chunk.
SizeIn(l) ==
    LET n == IF l.line = <<>> THEN 0 ELSE l.line[1].n
    IN  [rd |-> l.rd, n |-> n,
         x |-> IF l.rd.eof THEN "InputFailure"
               ELSE IF l.line = <<>> \/ l.line[1].c # "size" \/ Over(n) THEN "Error"
               ELSE "ok"]
SizeLine(r) == SizeIn(safeGetline(r, 0))

\* The next chunk of getc() and getline(); "end" if it is the empty one, whose
\* empty line is read as well.
ChunkOf(s) ==
    LET l == SkipLine(s.rd)
    IN  IF s.x # "ok" THEN [rd |-> s.rd, x |-> s.x]
        ELSE IF s.n > 0 THEN [rd |-> [s.rd EXCEPT !.size = s.n, !.pos = 0], x |-> "ok"]
        ELSE [rd |-> [l.rd EXCEPT !.size = 0], x |-> IF l.x = "ok" THEN "end" ELSE l.x]
NextChunk(r) == ChunkOf(SizeLine(r))

\* One byte was taken from the chunk; its empty line is read after the last.
Taken(r) ==
    LET t == [r EXCEPT !.in = Rest(@, 1), !.pos = @ + 1]
    IN  IF t.pos >= t.size THEN SkipLine(t) ELSE [rd |-> t, x |-> "ok"]

\* ChunkReader::getc().  sbumpc() at the end of the stream does not set eof.
ByteOf(q) ==
    LET t == Taken(q.rd)
    IN  IF q.x # "ok" THEN [rd |-> q.rd, c |-> EOF, x |-> q.x]
        ELSE [rd |-> t.rd, c |-> IF q.rd.in = <<>> THEN EOF ELSE q.rd.in[1], x |-> t.x]
ck_getc(r) == ByteOf(IF r.pos >= r.size THEN NextChunk(r) ELSE [rd |-> r, x |-> "ok"])

\* ins->read().
read(r, n) ==
    [rd |-> [r EXCEPT !.in = Rest(@, n), !.eof = n > Len(r.in)],
     data |-> SubSeq(r.in, 1, IF n > Len(r.in) THEN Len(r.in) ELSE n),
     x |-> IF n > Len(r.in) THEN "InputFailure" ELSE "ok"]

-----------------------------------------------------------------------------
(* The constructor of Connection.                                          *)

NoRequest ==
    [method |-> "GET", query |-> 0, keep |-> FALSE, chunked |-> FALSE, length |-> 0,
     type |-> "none", content |-> <<>>, params |-> <<>>, post |-> <<>>, uploads |-> <<>>]
NoPart == [line |-> <<>>, next |-> "parts", n |-> 0, name |-> 0, file |-> FALSE, value |-> <<>>, cnt |-> 0, fsize |-> 0]

Init ==
    /\ rd = Stream(<<>>) /\ req = NoRequest /\ part = NoPart
    /\ pc = "idle"
    /\ disk = <<>> /\ sent = <<>> /\ served = <<>>

\* What one header line does.  Without a Connection header a connection is not
\* kept.
HeaderLine(q, h) ==
    CASE h.c = "keep-alive"     -> [q EXCEPT !.keep = TRUE]
      [] h.c = "close"          -> [q EXCEPT !.keep = FALSE]
      [] h.c = "content-length" -> [q EXCEPT !.length = h.n]
      [] h.c = "chunked"        -> [q EXCEPT !.chunked = TRUE]
      [] h.c \in Types          -> [q EXCEPT !.type = h.c]
      [] OTHER                  -> q

\* The constructor or the handler threw x.  The catch clauses of
\* processRequest() close the connection, and nobody removes the temporary files.
Throws(x) == /\ pc' = IF x = "Error" THEN "error500" ELSE "closed"
             /\ UNCHANGED <<req, disk, sent, served>>

\* The client may make another request.
MayFollow == Len(sent) < MaxRequests /\ \A i \in DOMAIN sent : sent[i].cut = 0

\* The client sends a request, or a part of it, and the server starts on it with
\* a SockStream of its own: of what is left of the request before, d tokens were
\* in the buffer of the old one and are lost.
Send(r, cut, d) ==
    /\ pc = "idle" /\ MayFollow
    /\ d <= Len(rd.in)
    /\ LET w == Wire(r)
       IN  /\ cut < Len(w)
           /\ rd' = Stream(Rest(rd.in, d) \o SubSeq(w, 1, Len(w) - cut))
    /\ sent' = Append(sent, [r |-> r, cut |-> cut])
    /\ req' = NoRequest /\ part' = NoPart
    /\ pc' = "head"
    /\ UNCHANGED <<disk, served>>

\* The first line of the request.
ReadHead ==
    /\ pc = "head"
    /\ LET l == safeGetline(rd, 0)
           get == IF l.line[1].n = 0 THEN <<>> ELSE Ch("a") :> <<Num("a", l.line[1].n)>>
       IN  /\ rd' = l.rd
           /\ part' = NoPart
           /\ IF l.line = <<>> \/ l.rd.eof THEN Throws("InputFailure")
              ELSE IF l.line[1].c \notin Methods THEN Throws("Error")
              ELSE /\ req' = [NoRequest EXCEPT !.method = l.line[1].c, !.query = l.line[1].n, !.params = get]
                   /\ pc' = "header"
                   /\ UNCHANGED <<disk, sent, served>>

\* Where the constructor goes on when it has read the header.
ByMethod(q) ==
    CASE q.method \in {"POST", "PUT"} /\ q.type = "multipart" -> "form"
      [] q.method \in {"POST", "PUT"} /\ q.type \in {"urlencoded", "plain"} -> "body"
      [] q.method \in {"POST", "PUT"} /\ q.type \in {"none", "unknown"} -> "unsupported"
      [] q.method \in {"DELETE", "TRACE"} -> "body"
      [] OTHER -> "handle"

\* process_header(), a line at a time, and the choice by method and content type.
process_header ==
    /\ pc = "header"
    /\ LET l == safeGetline(rd, 0)
       IN  /\ rd' = l.rd
           /\ UNCHANGED part
           /\ IF l.rd.eof THEN Throws("InputFailure")
              ELSE IF l.line # <<>>
              THEN /\ req' = HeaderLine(req, l.line[1])
                   /\ UNCHANGED <<pc, disk, sent, served>>
              ELSE IF ByMethod(req) = "unsupported" THEN Throws("Error")
              ELSE /\ pc' = IF ByMethod(req) = "body" /\ req.chunked THEN "chunks" ELSE ByMethod(req)
                   /\ UNCHANGED <<req, disk, sent, served>>

\* parse_query_string(): of two parameters with one name the last is taken.
parse_query_string(d) ==
    [p \in {Ch(d[i].c) : i \in DOMAIN d} |->
        <<d[SelectLastInSeq(d, LAMBDA t : Ch(t.c) = p)]>>]

\* The body d is complete: form data, which goes to the parameters where the
\* query has no parameter of that name, or the content.
BodyIs(d) ==
    /\ req' = IF req.type = "urlencoded" /\ req.method \in {"POST", "PUT"}
              THEN [req EXCEPT !.content = <<>>, !.post = parse_query_string(d),
                               !.params = @ @@ parse_query_string(d)]
              ELSE [req EXCEPT !.content = d]
    /\ pc' = "handle"
    /\ UNCHANGED <<disk, sent, served>>

\* A body of which the length is given.
ReadBody ==
    /\ pc = "body"
    /\ LET b == read(rd, req.length)
       IN  IF Over(req.length) THEN rd' = rd /\ Throws("Error")
           ELSE /\ rd' = b.rd
                /\ IF b.x # "ok" THEN Throws(b.x) ELSE BodyIs(b.data)
    /\ UNCHANGED part

readAll_NoTotal ==
    /\ pc = "chunks"
    /\ LET z == SizeLine(rd)
           d == read(z.rd, z.n)
           l == SkipLine(d.rd)
       IN  IF z.x # "ok" THEN rd' = z.rd /\ Throws(z.x)
           ELSE IF z.n = 0 THEN rd' = z.rd /\ BodyIs(req.content)
           ELSE /\ rd' = l.rd
                /\ IF d.x # "ok" \/ l.x # "ok" THEN Throws("InputFailure")
                   ELSE req' = [req EXCEPT !.content = @ \o d.data] /\ UNCHANGED <<pc, disk, sent, served>>
    /\ UNCHANGED part

\* ChunkReader::readAll() and read_chunk(), a chunk at a time.  The empty line of
\* the last chunk stays in the stream.
readAll ==
    /\ pc = "chunks"
    /\ LET z == SizeLine(rd)
           d == read(z.rd, z.n)
           l == SkipLine(d.rd)
       IN  IF z.x # "ok" THEN rd' = z.rd /\ Throws(z.x)
           ELSE IF z.n = 0 THEN rd' = z.rd /\ BodyIs(req.content)
           ELSE /\ rd' = l.rd
                /\ IF d.x # "ok" \/ l.x # "ok" THEN Throws("InputFailure")
                   ELSE IF Over(Len(req.content) + z.n) THEN Throws("Error")
                   ELSE req' = [req EXCEPT !.content = @ \o d.data] /\ UNCHANGED <<pc, disk, sent, served>>
    /\ UNCHANGED part

-----------------------------------------------------------------------------
(* multipart/form-data.                                                    *)

\* A line of the body has been read into p, or reading it ended with x.
LineRead(r, p, x, next) ==
    /\ rd' = r
    /\ part' = p
    /\ IF x # "ok" THEN Throws(x)
       ELSE IF r.eof THEN Throws("InputFailure")
       ELSE IF Over(p.n) THEN Throws("Error")
       ELSE pc' = next /\ UNCHANGED <<req, disk, sent, served>>

\* Read a line into p.line and go on at next with the rest of p.  The limit
\* safeGetline() gets is 0, no limit, when n has reached max_post_size.
LineThen(p, next) ==
    LET l == safeGetline(rd, IF MaxPost = 0 THEN 0 ELSE MaxPost - p.n)
    IN  IF req.chunked
        THEN /\ part' = [p EXCEPT !.line = <<>>, !.next = next]
             /\ pc' = "getline"
             /\ UNCHANGED <<rd, req, disk, sent, served>>
        ELSE LineRead(l.rd, [p EXCEPT !.line = l.line, !.n = @ + l.n], l.x, next)

\* ChunkReader::getline(), a byte at a time.  After a CR that ends a chunk the
\* source looks for the LF in the size line of the next chunk.
LineByte(g) ==
    /\ pc = "getline"
    /\ LET t == Taken(g.rd)
           more(k) == [part EXCEPT !.n = @ + k]
           ends(r, k, x) == LineRead(r, more(k), x, part.next)
       IN  IF g.x = "end" THEN ends(g.rd, 0, "ok")
           ELSE IF g.x # "ok" THEN ends(g.rd, 0, g.x)
           ELSE IF g.c = LF THEN ends(g.rd, 1, "ok")
           ELSE IF g.c = CR /\ g.rd.in # <<>> /\ g.rd.in[1] = LF THEN ends(t.rd, 2, t.x)
           ELSE IF g.c = CR THEN ends(g.rd, 1, "ok")
           ELSE IF g.c = EOF THEN ends([g.rd EXCEPT !.eof = part.line = <<>>], 1, "ok")
           ELSE /\ rd' = g.rd
                /\ part' = [more(1) EXCEPT !.line = Append(@, g.c)]
                /\ UNCHANGED <<req, pc, disk, sent, served>>
ck_getline == LineByte(ck_getc(rd))

\* The size of the upload, and the first line.
FormStart ==
    /\ pc = "form"
    /\ IF ~req.chunked /\ Over(req.length)
       THEN Throws("Error") /\ UNCHANGED <<rd, part>>
       ELSE LineThen(NoPart, "parts")

\* The head of the loop over the lines of the body.
FormLine ==
    /\ pc = "parts"
    /\ IF part.line = LastBoundary
       THEN /\ pc' = "handle"
            /\ req' = [req EXCEPT !.length = 0]
            /\ UNCHANGED <<rd, part, disk, sent, served>>
       ELSE LineThen([NoPart EXCEPT !.n = part.n],
                     IF part.line = Boundary THEN "parthead" ELSE "parts")

\* A header line of a part: Content-Disposition with a name, and for a file with
\* a filename.
PartHeader ==
    /\ pc = "parthead" /\ part.line # <<>>
    /\ LET h == part.line[1]
       IN  LineThen(IF h.c \in {"field", "file"}
                    THEN [part EXCEPT !.name = h.n, !.file = h.c = "file"] ELSE part,
                    "parthead")

\* The header ends.  A value starts with its first line, a file with mkstemp().
PartStart(ok) ==
    /\ pc = "parthead" /\ part.line = <<>>
    /\ IF ~part.file THEN ok /\ LineThen(part, "value")
       ELSE /\ UNCHANGED <<rd, part>>
            /\ IF ok THEN /\ disk' = Append(disk, [data |-> <<>>, there |-> TRUE])
                          /\ pc' = "file"
                          /\ UNCHANGED <<req, sent, served>>
               ELSE Throws("Error")

PartValue_LastLine ==
    /\ pc = "value"
    /\ IF part.line \in {Boundary, LastBoundary}
       THEN /\ req' = [req EXCEPT !.post = (Num("name", part.name) :> part.value) @@ @]
            /\ pc' = "parts"
            /\ UNCHANGED <<rd, part, disk, sent, served>>
       ELSE LineThen([part EXCEPT !.value = part.line], "value")

\* The lines of a value are put together without their ends.
PartValue ==
    /\ pc = "value"
    /\ IF part.line \in {Boundary, LastBoundary}
       THEN /\ req' = [req EXCEPT !.post = (Num("name", part.name) :> part.value) @@ @]
            /\ pc' = "parts"
            /\ UNCHANGED <<rd, part, disk, sent, served>>
       ELSE LineThen([part EXCEPT !.value = @ \o part.line], "value")

\* The next byte of the body.
NextByte ==
    IF req.chunked THEN LET g == ck_getc(rd) IN [g EXCEPT !.x = IF @ = "end" THEN "ok" ELSE @]
    ELSE IF rd.in = <<>> THEN [rd |-> [rd EXCEPT !.eof = TRUE], c |-> EOF, x |-> "ok"]
    ELSE [rd |-> [rd EXCEPT !.in = Rest(@, 1)], c |-> rd.in[1], x |-> "ok"]

\* How far c takes the match of "\r\n" and the boundary, what goes to the file,
\* and what is added to fsize, which counts a byte that starts a new match too.
Match(cnt, c) ==
    LET back == SubSeq(NlBoundary, 1, cnt)
    IN  IF c = NlBoundary[cnt + 1] THEN [cnt |-> cnt + 1, put |-> <<>>, size |-> 0]
        ELSE IF cnt > 0 /\ c = NlBoundary[1] THEN [cnt |-> 1, put |-> back, size |-> cnt + 1]
        ELSE [cnt |-> 0, put |-> back \o <<c>>, size |-> cnt + 1]

\* One byte of a file.  The loop ends at the boundary and at EOF; ok says whether
\* the file can be written.
FileByteIs(b, ok) ==
    /\ pc = "file"
    /\ LET m == Match(part.cnt, b.c)
           n == part.n + 1
       IN  /\ rd' = b.rd
           /\ IF b.x # "ok" THEN ok /\ UNCHANGED part /\ Throws(b.x)
              ELSE IF b.c = EOF
              THEN /\ ok
                   /\ pc' = "fileend"
                   /\ UNCHANGED <<req, part, disk, sent, served>>
              ELSE /\ part' = [part EXCEPT !.n = n, !.cnt = m.cnt, !.fsize = @ + m.size]
                   /\ IF Over(n) THEN ok /\ Throws("Error")
                      ELSE IF ~ok THEN m.put # <<>> /\ Throws("Error")
                      ELSE /\ disk' = [disk EXCEPT ![Len(disk)].data = @ \o m.put]
                           /\ pc' = IF m.cnt = Len(NlBoundary) THEN "fileend" ELSE "file"
                           /\ UNCHANGED <<req, sent, served>>
FileByte(ok) == FileByteIs(NextByte, ok)

\* The file is an upload; then the byte behind the boundary, "-" or CR.
FileEnd ==
    /\ pc = "fileend"
    /\ LET b == NextByte
       IN  /\ rd' = b.rd
           /\ part' = [part EXCEPT !.line = IF b.c = Dash THEN LastBoundary ELSE Boundary, !.n = @ + 1]
           /\ IF b.x # "ok" THEN Throws(b.x)
              ELSE IF b.rd.eof THEN Throws("InputFailure")
              ELSE IF Over(part.n + 1) THEN Throws("Error")
              ELSE /\ req' = [req EXCEPT !.uploads =
                                Append(@, [name |-> part.name, file |-> Len(disk), fsize |-> part.fsize])]
                   /\ pc' = "fileend2"
                   /\ UNCHANGED <<disk, sent, served>>

\* And the byte after that, the second "-" or the LF.
FileEnd2 ==
    /\ pc = "fileend2"
    /\ LET b == NextByte
       IN  /\ rd' = b.rd
           /\ UNCHANGED part
           /\ IF b.x # "ok" THEN Throws(b.x)
              ELSE IF b.rd.eof THEN Throws("InputFailure")
              ELSE pc' = "parts" /\ UNCHANGED <<req, disk, sent, served>>

-----------------------------------------------------------------------------
(* The rest of processRequest().                                           *)

\* A preflight request is answered by the constructor; the other requests get a
\* handler, which may end with an exception.
Handle(x) ==
    /\ pc = "handle"
    /\ req.method = "CORS" => x = "ok"
    /\ served' = Append(served, req)
    /\ pc' = CASE x = "ok" -> "cleanup" [] x = "Error" -> "error500" [] OTHER -> "closed"
    /\ UNCHANGED <<rd, req, part, disk, sent>>

CleanupUploads_FirstOnly ==
    /\ pc = "cleanup"
    /\ disk' = [i \in DOMAIN disk |->
                  IF req.uploads # <<>> /\ req.uploads[1].file = i THEN [disk[i] EXCEPT !.there = FALSE] ELSE disk[i]]
    /\ pc' = IF req.keep THEN "idle" ELSE "closed"
    /\ UNCHANGED <<rd, req, part, sent, served>>

\* cleanupUploads(), then CONTINUE or CLOSE.
CleanupUploads ==
    /\ pc = "cleanup"
    /\ disk' = [i \in DOMAIN disk |->
                  IF \E u \in ToSet(req.uploads) : u.file = i
                  THEN [disk[i] EXCEPT !.there = FALSE] ELSE disk[i]]
    /\ pc' = IF req.keep THEN "idle" ELSE "closed"
    /\ UNCHANGED <<rd, req, part, sent, served>>

\* The last resort: a 500 response, and the connection is closed.
InternalError ==
    /\ pc = "error500"
    /\ pc' = "closed"
    /\ UNCHANGED <<rd, req, part, disk, sent, served>>

Done == pc = "closed" \/ (pc = "idle" /\ ~MayFollow)

Step ==
    \/ ReadHead \/ process_header \/ ReadBody \/ readAll \/ ck_getline
    \/ FormStart \/ FormLine \/ PartHeader \/ PartValue \/ FileEnd \/ FileEnd2
    \/ \E ok \in BOOLEAN : PartStart(ok) \/ FileByte(ok)
    \/ \E x \in {"ok", "InputFailure", "Error"} : Handle(x)
    \/ CleanupUploads \/ InternalError

Next ==
    \/ /\ pc = "idle"
       /\ \E r \in IF sent = <<>> THEN Requests ELSE Followers, cut \in Cuts, d \in 0..Len(rd.in) : Send(r, cut, d)
    \/ Step
    \/ Done /\ UNCHANGED vars

Spec == Init /\ [][Next]_vars

-----------------------------------------------------------------------------
(* Properties.                                                             *)

\* What the client meant by the request that is in hand.
Meant == Last(sent).r

\* The constructor does not read the body of this request.
Unread(r) == r.framing # "none" /\ r.method \notin {"POST", "PUT", "DELETE", "TRACE"}

\* A request is never made up from what is left of the one before, and none is
\* read twice: the request that goes to a handler is the last one the client made,
\* with its content.  What the constructor leaves in the stream (the end of a form,
\* the empty line of the last chunk) makes it fail.  The exception is a body that
\* is not read at all.
NoPhantom ==
    pc = "handle" =>
        \/ \E i \in 1..(Len(sent) - 1) : Unread(sent[i].r)
        \/ /\ Len(served) + 1 = Len(sent)
           /\ req.method = Meant.method /\ req.query = Meant.query
           /\ req.type = "plain" /\ ~Unread(Meant) => req.content = Body(Meant)

\* A chunk ends between the CR and the LF of a line in the head of a part.
Position(r, i)  == IF i = 1 THEN 0
                   ELSE Len(FlattenSeq([j \in 1..(i - 1) |-> PartHead(r.parts[j]) \o r.parts[j].data \o CRLF]))
SplitsHead(r) ==
    /\ r.framing = "chunked"
    /\ \E i \in DOMAIN r.parts, k \in 1..9 :
          PartHead(r.parts[i])[k] = CR /\ (Position(r, i) + k) % r.chunk = 0

Strip(d)     == SelectSeq(d, LAMBDA c : ~IsEol(c))
FilesOf(r)   == SelectSeq(r.parts, LAMBDA p : p.file)
ValuesOf(r)  == SelectSeq(r.parts, LAMBDA p : ~p.file)

\* The handler of a form finds the files byte by byte as they were sent, in
\* order, and the values without their line ends, however the body was cut into
\* chunks and whatever looks like the beginning of a boundary in it; unless a
\* chunk ends within a line end of the head of a part.
PartsDelivered ==
    pc = "handle" /\ req.type = "multipart" /\ req.method \in {"POST", "PUT"}
        /\ ~SplitsHead(Meant) =>
        /\ Len(req.uploads) = Len(FilesOf(Meant))
        /\ \A i \in DOMAIN req.uploads :
              /\ req.uploads[i].name = FilesOf(Meant)[i].name
              /\ disk[req.uploads[i].file].data = FilesOf(Meant)[i].data
        /\ DOMAIN req.post = {Num("name", v.name) : v \in ToSet(ValuesOf(Meant))}
        /\ \A i \in DOMAIN ValuesOf(Meant) :
              LET v == ValuesOf(Meant)[i]
              IN  \/ \E j \in DOMAIN ValuesOf(Meant) : j > i /\ ValuesOf(Meant)[j].name = v.name
                  \/ req.post[Num("name", v.name)] = Strip(v.data)

\* A handler is given exactly the request the client made last, its form with
\* every file and value in it (the two properties above).
RequestsIntact == NoPhantom /\ PartsDelivered

\* The bytes of the uploads us in the files of d.
Uploaded(us, d) == UNION {{i} \X DOMAIN d[us[i].file].data : i \in DOMAIN us}

\* What a handler gets is bounded by max_post_size, also when it comes in chunks
\* or in several parts.
WithinLimit ==
    pc = "handle" /\ MaxPost > 0 =>
        /\ Len(req.content) <= MaxPost
        /\ Cardinality(Uploaded(req.uploads, disk)) <= MaxPost

\* processRequest() returns from a request that went well without a temporary
\* file, whichever parts it had.
TempFilesRemoved ==
    [][pc = "cleanup" => \A i \in DOMAIN disk' : ~disk'[i].there]_vars

=============================================================================
