------------------------------ MODULE Response ------------------------------
(***************************************************************************)
(* The output side of class Connection (lib/Connection.cpp) under the      *)
(* request handlers that use it, and the HTTP client at the other end.     *)
(*                                                                         *)
(* A connection serves requests one after the other.  Each gets a fresh    *)
(* Connection object, a handler that calls setBuffer, setChunkedTransfer,  *)
(* send, sendAndFlush, sendFile and flush in the order of the source, and  *)
(* the destructor, whose finalize() ends the response.  What reaches the   *)
(* socket is a sequence of tokens: a head, the size line of a chunk, a     *)
(* byte of the body, an empty line.  The client decides from the tokens    *)
(* alone where a response ends.                                            *)
(*                                                                         *)
(* The bytes of a body are numbered 1, 2, ...; ErrorText stands for the    *)
(* text of an error page.                                                  *)
(***************************************************************************)
EXTENDS Integers, Sequences, FiniteSets

CONSTANTS
    Kinds,        \* the kinds of request that are made, a subset of AllKinds
    Sizes,        \* the sizes of the bodies the handlers produce
    RangesOf,     \* size -> the byte ranges clients ask for, pairs <<start, end>>
    BufLen,       \* the output buffer of the JPEG writer (65536 in the source)
    SizeMod,      \* 2^64, the modulus of size_t
    MaxRequests   \* bound on the requests of a connection

VARIABLES
    conn,    \* the Connection object of the request in hand
    job,     \* what the handler is working on
    pc,      \* where processRequest() is
    client,  \* what the client has made of the tokens
    gone,    \* the client has left: every write fails
    log,     \* for each request that was finished, the answer that was meant
    unguarded \* not in the code: the connection had a request of a kind that the
              \* source does not guard against

vars == <<conn, job, pc, client, gone, log, unguarded>>

-----------------------------------------------------------------------------
(* The handlers, by the way they use the connection.                       *)
(*   text  PingHandler, DefaultHandler, the redirect of IIIFHandler        *)
(*   elua  ScriptHandler and FileHandler, embedded Lua                     *)
(*   lua   ScriptHandler, a .lua script that does not call setBuffer       *)
(*   test  TestHandler                                                     *)
(*   info  info.json and the special functions of the IIIF handler         *)
(*   jpeg, png, jp2, tiff   IIIFSendFile, an image that is transcoded      *)
(*   html  FileHandler, an html, js or css file                            *)
(*   file  FileHandler, any other file                                     *)
(*   copy  IIIFSendFile, a master sent as it is                            *)
(*   hit   IIIFSendFile, a rendition from the cache                        *)
(*   blob  IIIFSendBlob                                                    *)

Texts    == {"text", "elua", "lua", "test"}
Encoders == {"jpeg", "png", "jp2", "tiff"}
Files    == {"html", "file", "copy", "hit", "blob"}
AllKinds == Texts \cup Encoders \cup Files \cup {"info"}

ASSUME ResponseAssumption ==
    /\ Kinds \subseteq AllKinds
    /\ Sizes \subseteq Nat
    /\ \A n \in Sizes : RangesOf[n] \subseteq Nat \X Int
    /\ BufLen \in Nat \ {0}
    /\ MaxRequests \in Nat \ {0}
    /\ SizeMod \in Nat \ {0}
    /\ \A n \in Sizes : n < SizeMod

Buffered == {"text", "elua", "test", "info"}    \* call setBuffer
Chunked  == {"test", "jpeg", "png", "jp2"}      \* call setChunkedTransfer
Ranged   == {"file", "blob"}                    \* look at the header "range"
Fallible == {"elua", "lua"} \cup Encoders       \* may fail while they produce

Pages    == {"html", "file", "hit"}             \* answer an Error of sendFile

\* An InputFailure ends these handlers but not the connection.
Swallows == {"text", "elua", "lua", "html", "file", "copy", "hit"}

Whole     == <<>>        \* no range was asked for
ErrorText == <<0>>
Bytes(a, b) == [i \in 1..(b - a) |-> a + i]     \* bytes a+1 to b of a body

-----------------------------------------------------------------------------
(* Tokens, and the client that reads them.                                 *)

Token(t, v)  == [t |-> t, v |-> v]
Crlf         == Token("crlf", 0)
Size(n)      == Token("size", n)
Data(d)      == [i \in 1..Len(d) |-> Token("byte", d[i])]

\* lens: the values of all Content-Length lines of the head.
HeadToken(status, chunked, lens) ==
    Token("head", [status |-> status, chunked |-> chunked, lens |-> lens])

NewClient == [mode |-> "start", left |-> 0, status |-> "none", body |-> <<>>, got |-> <<>>]

Complete(cl) ==
    [NewClient EXCEPT !.got = Append(cl.got, [status |-> cl.status, body |-> cl.body])]

\* External: an HTTP client.  Empty lines before a response are skipped; a
\* token that does not fit leaves the client without a place to go on from.
Feed(cl, k) ==
    LET lost == [cl EXCEPT !.mode = "lost"]
        byte == [cl EXCEPT !.body = Append(@, k.v), !.left = @ - 1]
    IN  CASE cl.mode = "start" /\ k.t = "crlf" -> cl
          [] cl.mode = "start" /\ k.t = "head" ->
               LET h == [cl EXCEPT !.status = k.v.status]
               IN  IF k.v.chunked THEN [h EXCEPT !.mode = "size"]
                   ELSE IF Cardinality(k.v.lens) # 1 THEN lost
                   ELSE LET n == CHOOSE n \in k.v.lens : TRUE
                        IN  IF n = 0 THEN Complete(h)
                                     ELSE [h EXCEPT !.mode = "body", !.left = n]
          [] cl.mode = "body" /\ k.t = "byte" ->
               IF cl.left = 1 THEN Complete(byte) ELSE byte
          [] cl.mode = "size" /\ k.t = "size" ->
               IF k.v = 0 THEN [cl EXCEPT !.mode = "last"]
                          ELSE [cl EXCEPT !.mode = "chunk", !.left = k.v]
          [] cl.mode = "chunk" /\ k.t = "byte" ->
               IF cl.left = 1 THEN [byte EXCEPT !.mode = "chunkend"] ELSE byte
          [] cl.mode = "chunkend" /\ k.t = "crlf" -> [cl EXCEPT !.mode = "size"]
          [] cl.mode = "last" /\ k.t = "crlf" -> Complete(cl)
          [] OTHER -> lost

FeedAll(cl, tokens) ==
    LET after[i \in 0..Len(tokens)] == IF i = 0 THEN cl ELSE Feed(after[i - 1], tokens[i])
    IN  after[Len(tokens)]

-----------------------------------------------------------------------------
(* The operations of Connection.  An operation takes the object c and      *)
(* returns the object after it, what it wrote and how it ended.  f says    *)
(* where the stream fails, if it does: "first" at the first thing written, *)
(* "data" after the head, "tail" after the data of the body.               *)

Failures == {"none", "first", "data", "tail"}

NewConnection ==
    [header_sent |-> FALSE, finished |-> FALSE, chunked |-> FALSE,
     buffered |-> FALSE, outbuf |-> <<>>, status |-> "ok", clen |-> {},
     hex |-> FALSE, caching |-> FALSE, cachefile |-> <<>>]

Ends(c, w, x) == [c |-> c, w |-> w, x |-> x]
Ok(c, w)      == Ends(c, w, "ok")
Throw(c, x)   == Ends(c, <<>>, x)

\* First r, then Op on the object r left, unless r threw.
Then(r, Op(_)) ==
    IF r.x # "ok" THEN r
    ELSE LET q == Op(r.c) IN [q EXCEPT !.w = r.w \o q.w]

setBuffer(c) ==
    IF c.header_sent THEN Throw(c, "Error") ELSE Ok([c EXCEPT !.buffered = TRUE], <<>>)

setChunkedTransfer(c) ==
    IF c.header_sent THEN Throw(c, "Error") ELSE Ok([c EXCEPT !.chunked = TRUE], <<>>)

\* header(): the only value that matters here is an explicit Content-Length.
header(c, lens) ==
    IF c.header_sent THEN Throw(c, "Error") ELSE Ok([c EXCEPT !.clen = lens], <<>>)

openCacheFile(c)  == [c EXCEPT !.caching = TRUE, !.cachefile = <<>>]
closeCacheFile(c) == [c EXCEPT !.caching = FALSE]

add_to_outbuf(c, d) ==
    IF c.finished THEN Throw(c, "Error") ELSE Ok([c EXCEPT !.outbuf = @ \o d], <<>>)

send_header(c, n, f) ==
    LET len == IF c.buffered /\ c.outbuf # <<>> THEN Len(c.outbuf) ELSE n % SizeMod
    IN  IF c.header_sent THEN Throw(c, "Error")
        ELSE IF f = "first" THEN Throw(c, "InputFailure")
        ELSE Ok([c EXCEPT !.header_sent = TRUE],
                <<HeadToken(c.status, c.chunked,
                            IF c.chunked THEN c.clen ELSE c.clen \cup {len})>>)

EnsureHeader(c, n, f) == IF c.header_sent THEN Ok(c, <<>>) ELSE send_header(c, n, f)

WriteBody_LastOnly(c, d, f) ==
    LET h == [c EXCEPT !.hex = @ \/ c.chunked]
        k == IF c.caching THEN [h EXCEPT !.cachefile = d] ELSE h
        w == IF c.chunked THEN <<Size(Len(d))>> \o Data(d) \o <<Crlf>> ELSE Data(d)
    IN  CASE f \in {"first", "data"} -> Throw(c, "InputFailure")
          [] f = "tail"              -> Ends(k, w, "InputFailure")
          [] OTHER                   -> Ok(k, w)

\* The data of one write, as a chunk if the transfer is chunked, also to the
\* cache file.  The size line of a chunk leaves the stream in std::hex.
WriteBody(c, d, f) ==
    LET h == [c EXCEPT !.hex = @ \/ c.chunked]
        k == IF c.caching THEN [h EXCEPT !.cachefile = @ \o d] ELSE h
        w == IF c.chunked THEN <<Size(Len(d))>> \o Data(d) \o <<Crlf>> ELSE Data(d)
    IN  CASE f \in {"first", "data"} -> Throw(c, "InputFailure")
          [] f = "tail"              -> Ends(k, w, "InputFailure")
          [] OTHER                   -> Ok(k, w)

\* A transfer that is not chunked is over after its data.
FinishUnlessChunked(c) == Ok([c EXCEPT !.finished = @ \/ ~c.chunked], <<>>)

send(c, d, f) ==
    IF c.finished THEN Throw(c, "Error")
    ELSE IF c.buffered THEN add_to_outbuf(c, d)
    ELSE IF c.header_sent /\ ~c.chunked THEN Throw(c, "Error")
    ELSE Then(Then(EnsureHeader(c, IF c.chunked THEN 0 ELSE Len(d), f),
                   LAMBDA a : WriteBody(a, d, f)),
              FinishUnlessChunked)

\* A transfer that is not chunked writes only the data of this call, while
\* the head gives the length of everything in the buffer.
sendAndFlush(c, d, f) ==
    LET Added    == IF c.buffered THEN add_to_outbuf(c, d) ELSE Ok(c, <<>>)
        Line(a)  == IF c.chunked THEN EnsureHeader(a, 0, f) ELSE send_header(a, Len(d), f)
        Body(a)  == WriteBody(a, IF a.buffered /\ a.chunked THEN a.outbuf ELSE d, f)
        Empty(r) == IF f \in {"none", "tail"} /\ r.c.header_sent
                    THEN [r EXCEPT !.c.outbuf = <<>>] ELSE r
    IN  IF c.finished THEN Throw(c, "Error")
        ELSE Then(Empty(Then(Then(Added, Line), Body)), FinishUnlessChunked)

flush(c, f) ==
    LET Body(a) == IF a.outbuf = <<>> THEN (IF f = "none" THEN Ok(a, <<>>)
                                                          ELSE Throw(a, "InputFailure"))
                   ELSE IF a.finished THEN Throw(a, "Error")
                   ELSE Then(WriteBody(a, a.outbuf, f),
                             LAMBDA b : Ok([b EXCEPT !.outbuf = <<>>], <<>>))
    IN  IF ~c.header_sent /\ c.finished THEN Throw(c, "Error")
        ELSE Then(Then(EnsureHeader(c, 0, f), Body), FinishUnlessChunked)

\* The ranges that sendFile() answers with an Error.
RangeRefused(n, r) == (r[1] > 0 /\ r[1] >= n) \/ r[2] > n

sendFile_EndExclusive(c, there, size, from, to, f) ==
    LET rest  == IF from > 0 THEN size - from ELSE size
        fsize == IF to > 0 THEN rest - (size - to) ELSE rest
        d     == Bytes(size - rest, size - rest + fsize)
    IN  IF c.finished \/ ~there \/ RangeRefused(size, <<from, to>>) THEN Throw(c, "Error")
        ELSE Then(EnsureHeader(c, fsize, f), LAMBDA a : WriteBody(a, d, f))

\* A file of size bytes that is there or not; from and to as in the parameters of the source, where
\* to = 0 says "to the end".  fsize is what the head promises.  The data is
\* read in portions until fsize bytes or the end of the file are reached, and
\* only a read that meets the end of the file finishes the response.  Nothing
\* is written to the cache file.
sendFile(c, there, size, from, to, f) ==
    LET rest  == IF from > 0 THEN size - from ELSE size
        fsize == IF to > 0 THEN rest - (size - to - 1) ELSE rest
        want  == fsize % SizeMod
        d     == Bytes(size - rest, size - rest + (IF want < rest THEN want ELSE rest))
        Body(a) == IF d = <<>> THEN Ok(a, <<>>)
                   ELSE LET r == WriteBody([a EXCEPT !.caching = FALSE], d, f)
                        IN  [r EXCEPT !.c.caching = a.caching]
        Eof(a)  == Ok([a EXCEPT !.finished = want > rest], <<>>)
    IN  IF c.finished \/ ~there \/ RangeRefused(size, <<from, to>>) THEN Throw(c, "Error")
        ELSE IF c.buffered THEN add_to_outbuf(c, d)
        ELSE Then(Then(EnsureHeader(c, IF c.chunked THEN 0 ELSE fsize, f), Body), Eof)

finalize_NoLastChunk(c) == <<Crlf>>

\* Called by the destructor: the last chunk, and an empty line in any case.
finalize(c) ==
    (IF c.chunked /\ ~c.finished THEN <<Size(0), Crlf>> ELSE <<>>) \o <<Crlf>>

\* HttpSendError.cpp, and the same steps in the catch clause of FileHandler.  The
\* InputFailure caught there is left in the result, and its callers return.
send_error(c, f) ==
    Then(Then(Then(setBuffer([c EXCEPT !.status = "error"]), LAMBDA a : header(a, a.clen)),
              LAMBDA a : send(a, ErrorText, f)),
         LAMBDA a : flush(a, f))

-----------------------------------------------------------------------------
(* processRequest() and the handlers.                                      *)
(*   pc = "idle"     the connection waits for a request                    *)
(*        "setup"    the handler sets status, headers and modes            *)
(*        "produce"  it produces its body                                  *)
(*        "encoded"  an image writer has returned                          *)
(*        "end"      what remains is the last flush                        *)
(*        "return"   the handler has returned                              *)
(*        "abort"    an InputFailure ends the request, "escape" an Error   *)
(*        "closed"   the connection is closed                              *)

NoJob == [kind |-> "none", size |-> 0, range |-> Whole, done |-> 0, keep |-> FALSE,
          answer |-> [kind |-> "none", status |-> "ok", body |-> <<>>], added |-> FALSE]

Init ==
    /\ conn = NewConnection
    /\ job = NoJob
    /\ pc = "idle"
    /\ client = NewClient
    /\ gone = FALSE
    /\ log = <<>>
    /\ unguarded = FALSE

\* Where the stream may fail: once the client has left, at the first write.
FailuresNow == IF gone THEN {"first"} ELSE Failures

\* A call ended with r; the handler goes on at next, and after an exception
\* at onInput or onError.
Called(r, next, onInput, onError) ==
    /\ conn' = r.c
    /\ gone' = (gone \/ r.x = "InputFailure")
    /\ client' = IF gone' THEN client ELSE FeedAll(client, r.w)
    /\ pc' = CASE r.x = "ok" -> next
                [] r.x = "InputFailure" -> onInput
                [] OTHER -> onError

\* The answer is now an error page, behind what is in the output buffer.
Failed(text) == [job EXCEPT !.answer.status = "error", !.answer.body = text]

\* An InputFailure that leaves the handler is caught around it and closes the
\* connection; some handlers catch it themselves and return.
OnInput == IF job.kind \in Swallows THEN "return" ELSE "abort"

\* The end of a range is the last byte that is asked for, but for sendFile() 0
\* (and -1, the end of an empty file) says "to the end of the file".
RangeKept(n, r) ==
    \/ r[1] <= r[2] /\ r[2] \in 1..n-1
    \/ r[1] = 0 /\ r[2] + 1 = n

\* Requests that the source takes and does not serve right: a JPEG whose last
\* portion is empty, which makes it end with two last chunks, and a range that is
\* neither kept nor refused, or refused when FileHandler has already given a
\* Content-Length of its own, which its error page then has beside the right one.
Unguarded(kind, n, range) ==
    \/ kind = "jpeg" /\ \E i \in 1..n : n = i * BufLen
    \/ range # Whole /\ ~RangeKept(n, range) /\ (RangeRefused(n, range) => kind = "file")

\* A request: the constructor, setupKeepAlive, get_handler.
Accept(kind, n, range, keep) ==
    /\ pc = "idle" /\ ~gone
    /\ Len(log) < MaxRequests
    /\ kind \in Encoders => n > 0
    /\ conn' = NewConnection
    /\ job' = [NoJob EXCEPT
                 !.kind = kind, !.size = n, !.range = range, !.keep = keep,
                 !.answer.kind = kind,
                 !.answer.body = IF range = Whole THEN Bytes(0, n)
                                 ELSE Bytes(range[1], range[2] + 1)]
    /\ pc' = "setup"
    /\ unguarded' = (unguarded \/ Unguarded(kind, n, range))
    /\ UNCHANGED <<client, gone, log>>

\* The calls that prepare the response.  FileHandler gives a Content-Length of
\* its own.
Setup ==
    /\ pc = "setup"
    /\ LET k == job.kind
           lens == IF k # "file" THEN {}
                   ELSE IF job.range = Whole THEN {job.size}
                   ELSE {job.range[2] - job.range[1] + 1}
           a == IF k \in Encoders THEN openCacheFile(conn) ELSE conn
           b == IF k \in Buffered THEN setBuffer(a) ELSE Ok(a, <<>>)
           c == Then(b, LAMBDA x : IF k \in Chunked THEN setChunkedTransfer(x) ELSE Ok(x, <<>>))
           d == Then(c, LAMBDA x : header(x, lens))
       IN  conn' = d.c
    /\ pc' = "produce"
    /\ UNCHANGED <<job, client, gone, log, unguarded>>

\* operator<< and server.print.  An Error in server.print is a result for the
\* script, which goes on.
SendText(k, f) ==
    /\ pc = "produce" /\ job.kind \in Texts
    /\ k \in 1..(job.size - job.done)
    /\ f \in FailuresNow
    /\ Called(send(conn, Bytes(job.done, job.done + k), f), "produce", OnInput,
              IF job.kind = "lua" THEN "produce" ELSE "escape")
    /\ job' = [job EXCEPT !.done = @ + k]
    /\ UNCHANGED <<log, unguarded>>

\* TestHandler flushes in the middle.
FlushPart(f) ==
    /\ pc = "produce" /\ job.kind = "test"
    /\ conn.outbuf # <<>>
    /\ f \in FailuresNow
    /\ Called(flush(conn, f), "produce", OnInput, "escape")
    /\ UNCHANGED <<job, log, unguarded>>

\* All has been printed: the last flush.
TextEnds(f) ==
    /\ pc = "produce" /\ job.kind \in Texts
    /\ job.done = job.size
    /\ f \in FailuresNow
    /\ Called(flush(conn, f), "return", OnInput, "escape")
    /\ UNCHANGED <<job, log, unguarded>>

\* info.json: one call sends everything.
SendInfo(f) ==
    /\ pc = "produce" /\ job.kind = "info"
    /\ f \in FailuresNow
    /\ Called(sendAndFlush(conn, Bytes(0, job.size), f), "return", OnInput, "escape")
    /\ job' = [job EXCEPT !.done = job.size]
    /\ UNCHANGED <<log, unguarded>>

\* How much the image writers hand over at a time.  The JPEG library does so
\* when its buffer is full and, whatever is in it, at the end; libpng and
\* Kakadu when they have something; the TIFF writer has the whole file.
Portions ==
    LET rest == job.size - job.done
    IN  CASE job.kind = "jpeg" -> {IF rest >= BufLen THEN BufLen ELSE rest}
          [] job.kind = "tiff" -> {rest}
          [] OTHER             -> 1..rest

\* The JPEG writer has more to do after a full buffer, even if nothing is left.
WriterEnds(k) ==
    /\ job.done + k = job.size
    /\ job.kind = "jpeg" => k < BufLen

\* A writer hands over k bytes.  The PNG writer swallows an InputFailure.
Encode(k, f) ==
    LET next == IF WriterEnds(k) THEN "encoded" ELSE "produce"
    IN  /\ pc = "produce" /\ job.kind \in Encoders
        /\ k \in Portions
        /\ f \in FailuresNow
        /\ Called(sendAndFlush(conn, Bytes(job.done, job.done + k), f), next,
                  IF job.kind = "png" THEN next ELSE OnInput, "escape")
        /\ job' = [job EXCEPT !.done = @ + k]
        /\ UNCHANGED <<log, unguarded>>

\* The cache file is closed and entered in the cache.
AddToCache ==
    /\ pc = "encoded"
    /\ conn' = closeCacheFile(conn)
    /\ job' = [job EXCEPT !.added = TRUE]
    /\ pc' = "end"
    /\ UNCHANGED <<client, gone, log, unguarded>>

\* A script or an image writer fails.  The PNG and TIFF writers fail before
\* they hand anything over.
HandlerFails(f) ==
    /\ pc = "produce" /\ job.kind \in Fallible
    /\ job.kind \in {"png", "tiff"} => job.done = 0
    /\ f \in FailuresNow
    /\ Called(send_error(closeCacheFile(conn), f), "return", "return", "escape")
    /\ job' = Failed(conn.outbuf \o ErrorText)
    /\ UNCHANGED <<log, unguarded>>

\* Files.  An Error leads to an error page or leaves the handler.  The file may
\* have become unreadable since the handler looked at it; FileHandler does not
\* guard against that either when it has given a Content-Length.
SendFile(there, f) ==
    LET from == IF job.range = Whole THEN 0 ELSE job.range[1]
        to   == IF job.range = Whole THEN 0 ELSE job.range[2]
        r    == sendFile(conn, there, job.size, from, to, f)
    IN  /\ pc = "produce" /\ job.kind \in Files
        /\ f \in FailuresNow
        /\ IF r.x = "Error" /\ job.kind \in Pages
           THEN Called(send_error(r.c, f), "return", "return", "escape")
           ELSE Called(r, IF job.kind \in Ranged THEN "end" ELSE "return", OnInput, "escape")
        /\ job' = IF r.x = "Error" THEN Failed(ErrorText) ELSE job
        /\ unguarded' = (unguarded \/ (job.kind = "file" /\ ~there))
        /\ UNCHANGED log

\* The flush with which the file and image handlers end.
LastFlush(f) ==
    /\ pc = "end"
    /\ f \in FailuresNow
    /\ Called(flush(conn, f), "return", OnInput, "escape")
    /\ UNCHANGED <<job, log, unguarded>>

\* The destructor of the Connection; processRequest() returns CONTINUE only
\* when the handler returned and the client asked for it.
Return ==
    /\ pc \in {"return", "abort"}
    /\ client' = IF gone THEN client ELSE FeedAll(client, finalize(conn))
    /\ log' = Append(log, job.answer)
    /\ pc' = IF pc = "return" /\ job.keep THEN "idle" ELSE "closed"
    /\ UNCHANGED <<conn, job, gone, unguarded>>

InternalError_Silent ==
    /\ pc = "escape"
    /\ client' = IF gone THEN client ELSE FeedAll(client, finalize(conn))
    /\ log' = Append(log, Failed(ErrorText).answer)
    /\ pc' = "closed"
    /\ UNCHANGED <<conn, job, gone, unguarded>>

\* An Error leaves processRequest()'s try block: the destructor runs first,
\* then the last resort is written to the stream.  Its length is a number no
\* client can read if the stream is still in std::hex.
InternalError ==
    /\ pc = "escape"
    /\ client' = IF gone THEN client
                 ELSE FeedAll(client, finalize(conn)
                                      \o <<HeadToken("error", FALSE, IF conn.hex THEN {} ELSE {Len(ErrorText)})>>
                                      \o Data(ErrorText))
    /\ log' = Append(log, Failed(ErrorText).answer)
    /\ pc' = "closed"
    /\ UNCHANGED <<conn, job, gone, unguarded>>

Done ==
    \/ pc = "closed"
    \/ pc = "idle" /\ (gone \/ Len(log) = MaxRequests)

Next ==
    \/ \E kind \in Kinds, n \in Sizes, keep \in BOOLEAN :
          \E range \in {Whole} \cup (IF kind \in Ranged THEN RangesOf[n] ELSE {}) :
             Accept(kind, n, range, keep)
    \/ Setup
    \/ \E f \in Failures :
          \/ \E k \in 1..job.size : SendText(k, f)
          \/ FlushPart(f)
          \/ TextEnds(f)
          \/ SendInfo(f)
          \/ \E k \in 0..job.size : Encode(k, f)
          \/ HandlerFails(f)
          \/ \E there \in BOOLEAN : SendFile(there, f)
          \/ LastFlush(f)
    \/ AddToCache
    \/ Return
    \/ InternalError
    \/ Done /\ UNCHANGED vars

Spec == Init /\ [][Next]_vars

-----------------------------------------------------------------------------
(* Properties.                                                             *)

\* A connection that processRequest() keeps is in step: for every request it
\* served the client saw exactly one complete response with the status that was
\* meant, and waits for the next one.  This is what keep-alive rests on; it takes
\* the modes the handlers set, the lengths send_header() gives, the last chunk of
\* finalize() and the closing after an escaped Error.  It holds from the first
\* request on until the first one that the source does not guard against: a JPEG
\* that fills the buffer exactly, a range that is neither kept nor refused in
\* time, a file that vanishes behind its Content-Length.
InStep ==
    pc = "idle" /\ ~gone /\ ~unguarded =>
        /\ client.mode = "start"
        /\ Len(client.got) = Len(log)
        /\ \A i \in DOMAIN log : client.got[i].status = log[i].status

\* On such a connection the bodies are those the handlers produced, byte for
\* byte, whether they went through the output buffer, in chunks or from a file.
\* Not so a script without setBuffer: its first server.print ends the response
\* and the later ones are refused, so that InStep is all that holds of it.
BodiesDelivered ==
    pc = "idle" /\ ~gone /\ ~unguarded =>
        \A i \in DOMAIN log :
            log[i].kind # "lua" =>
                i \in DOMAIN client.got /\ client.got[i].body = log[i].body

\* Every request is answered: when processRequest() returns, the client has a
\* complete response for it or has left, also when the handler or its error page
\* failed and processRequest() wrote the last resort behind what was there.
Answered ==
    pc \in {"idle", "closed"} /\ ~gone /\ ~unguarded => Len(client.got) >= Len(log)

\* A rendition that is entered in the cache is what the client was sent, whole,
\* even if the client left while it was written.  The PNG writer is excepted: it
\* does not notice a failed write, and the handler enters what there is.
CacheMirrorsBody ==
    job.added /\ job.kind # "png" => conn.cachefile = Bytes(0, job.size)

=============================================================================
